------------------------------ MODULE RootStore ------------------------------
(***************************************************************************)
(* The JSON root store of revocation.py: one process whose threads (the       *)
(* server's and the client's event loops) share the store under its lock,     *)
(* and the file it is persisted to.                                           *)
(*                                                                          *)
(* Verification of a manifest happens outside the lock, everything after it   *)
(* inside.  Saving truncates the file and then writes it, so a process killed *)
(* in between leaves a file that does not parse; the anti-replay state is not *)
(* saved at all.                                                              *)
(***************************************************************************)
EXTENDS Manifests, FiniteSets

CONSTANTS
    Threads,
    MaxNonces      \* entries _seen_nonces holds before it is cleared

VARIABLES
    entries,    \* _manifest["authorities"]: [key, live]; live is before expires
    seen,       \* _seen_nonces
    latest,     \* _manifest_ts_latest
    disk,       \* the authorities in the file
    torn,       \* the file is not whole
    saving,     \* a thread is in _save, with the lock
    pc,         \* the manifest each thread has verified
    age,        \* of each manifest
    accepts,    \* how often this process accepted each manifest (history)
    highest,    \* highest version it accepted from each signer (history)
    told,       \* the key callers were last told to be trusted, till it expires (history)
    failed      \* a save has failed or been cut short (history)

vars == <<entries, seen, latest, disk, torn, saving, pc, age, accepts, highest, told, failed>>
history == <<accepts, highest, told, failed>>

Entries == [key : Keys \cup {NoKey}, live : BOOLEAN]
NoEntry == [key |-> NoKey, live |-> FALSE]
Empty == [a \in Auths |-> NoEntry]
Fresh(k) == [key |-> k, live |-> TRUE]

TypeOK ==
    /\ entries \in [Auths -> Entries] /\ disk \in [Auths -> Entries]
    /\ seen \subseteq {m.nonce : m \in Manifests}
    /\ latest \in [Auths -> Nat] /\ highest \in [Auths -> Nat]
    /\ torn \in BOOLEAN /\ saving \in BOOLEAN /\ failed \in BOOLEAN
    /\ pc \in [Threads -> Manifests \cup {Idle}]
    /\ age \in [Manifests -> Ages]
    /\ accepts \in [Manifests -> 0 .. MaxAccepts]
    /\ told \in [Auths -> Keys \cup {NoKey}]

Init ==
    /\ entries = Empty /\ disk = Empty
    /\ seen = {} /\ latest = [a \in Auths |-> 0]
    /\ torn = FALSE /\ saving = FALSE /\ failed = FALSE
    /\ pc = [t \in Threads |-> Idle]
    /\ age = [m \in Manifests |-> "fresh"]
    /\ accepts = [m \in Manifests |-> 0]
    /\ highest = [a \in Auths |-> 0]
    /\ told = [a \in Auths |-> NoKey]

-----------------------------------------------------------------------------
GetAuthority(a) == IF entries[a].live THEN entries[a].key ELSE NoKey

\* Mutant: saving is left for later.
MutantBeginSave == UNCHANGED <<saving, torn, disk>>

\* _save begins: the file is truncated, the lock stays held.
BeginSave ==
    /\ saving' = TRUE
    /\ torn' = TRUE
    /\ UNCHANGED disk

\* Those who were told a key is trusted: an entry that has expired is not renewed,
\* and not trusted, although they are told so.
Told(news) == [a \in Auths |-> IF a \in DOMAIN news
                               THEN IF entries'[a].live THEN news[a] ELSE NoKey
                               ELSE told[a]]

\* add_authority.  For the key the store already has it does nothing, whether
\* the entry has expired or not, and reports success.
AddAuthority(a, k) ==
    /\ ~ saving
    /\ \/ /\ entries[a].key = k
          /\ UNCHANGED <<entries, disk, torn, saving>>
       \/ /\ entries[a].key # k
          /\ entries' = [entries EXCEPT ![a] = Fresh(k)]
          /\ BeginSave
    /\ told' = Told([b \in {a} |-> k])
    /\ UNCHANGED <<seen, latest, pc, age, accepts, highest, failed>>

\* chain_add, before the lock: the signer's key is looked up, and may change.
VerifyManifest(t, m) ==
    /\ pc[t] = Idle /\ ~ saving
    /\ Verified(m, age[m], GetAuthority(m.signer))
    /\ pc' = [pc EXCEPT ![t] = m]
    /\ UNCHANGED <<entries, seen, latest, disk, torn, saving, age, history>>

Replayed(m) == m.nonce # NoNonce /\ m.nonce \in seen
\* Mutant: off by one.
MutantOutdated(m) == m.version # 0 /\ m.version + 1 < latest[m.signer]
Outdated(m) == m.version # 0 /\ m.version < latest[m.signer]

RejectManifest(t) ==
    /\ pc[t] # Idle /\ ~ saving
    /\ Replayed(pc[t]) \/ Outdated(pc[t])
    /\ pc' = [pc EXCEPT ![t] = Idle]
    /\ UNCHANGED <<entries, seen, latest, disk, torn, saving, age, history>>

\* Mutant: the nonce is checked and not remembered.
MutantRemember(nonce) == seen

\* _seen_nonces with one more nonce: beyond its limit it is emptied.
Remember(nonce) ==
    IF nonce = NoNonce THEN seen
    ELSE IF Cardinality(seen \cup {nonce}) > MaxNonces THEN {}
    ELSE seen \cup {nonce}

\* Mutant: a known authority keeps its key.
MutantKnownStay(m) ==
    Granted(entries, [a \in {b \in DOMAIN m.grants : entries[b].key = NoKey}
                        |-> Fresh(m.grants[a])])

\* The entries a manifest writes: those whose key the store does not have yet.
GrantedEntries(m) ==
    Granted(entries, [a \in {b \in DOMAIN m.grants : entries[b].key # m.grants[b]}
                        |-> Fresh(m.grants[a])])

\* chain_add, inside the lock: the nonce and version checks and the commit.
AcceptManifest(t) ==
    LET m == pc[t] IN
    /\ m # Idle /\ ~ saving
    /\ ~ Replayed(m) /\ ~ Outdated(m)
    /\ accepts[m] < MaxAccepts
    /\ seen' = Remember(m.nonce)
    /\ latest' = IF m.version > latest[m.signer]
                 THEN [latest EXCEPT ![m.signer] = m.version] ELSE latest
    /\ entries' = GrantedEntries(m)
    /\ BeginSave
    /\ pc' = [pc EXCEPT ![t] = Idle]
    /\ accepts' = [accepts EXCEPT ![m] = @ + 1]
    /\ highest' = IF m.version > highest[m.signer]
                  THEN [highest EXCEPT ![m.signer] = m.version] ELSE highest
    /\ told' = Told(m.grants)
    /\ UNCHANGED <<age, failed>>

\* _save ends: the file is whole, or the exception is logged and swallowed, with
\* the file as it was when it could not be opened, else cut short.
FinishSave ==
    /\ saving
    /\ saving' = FALSE
    /\ \/ disk' = entries /\ torn' = FALSE /\ UNCHANGED failed
       \/ torn' \in BOOLEAN /\ failed' = TRUE /\ UNCHANGED disk
    /\ UNCHANGED <<entries, seen, latest, pc, age, accepts, highest, told>>

\* What a process has in memory besides the authorities: nothing when it starts.
Forgotten ==
    /\ seen' = {} /\ latest' = [a \in Auths |-> 0]
    /\ pc' = [t \in Threads |-> Idle]
    /\ accepts' = [m \in Manifests |-> 0] /\ highest' = [a \in Auths |-> 0]

\* Mutant: a new process starts empty and overwrites the file.
MutantRestart ==
    /\ entries' = Empty /\ disk' = Empty
    /\ torn' = FALSE /\ saving' = FALSE
    /\ failed' = (failed \/ saving)
    /\ Forgotten
    /\ UNCHANGED <<age, told>>

\* A process ends, maybe while it saves, and a new one loads the file; one that
\* does not parse counts as none.
Restart ==
    /\ entries' = IF torn THEN Empty ELSE disk
    /\ disk' = entries'
    /\ torn' = FALSE /\ saving' = FALSE
    /\ failed' = (failed \/ saving)
    /\ Forgotten
    /\ UNCHANGED <<age, told>>

\* Time: a dated manifest leaves the freshness window, an entry reaches its
\* expiry date.
Age(m) ==
    /\ m.dated /\ age[m] = "fresh"
    /\ age' = [age EXCEPT ![m] = Older(@)]
    /\ UNCHANGED <<entries, seen, latest, disk, torn, saving, pc, history>>

Expire(a) ==
    /\ entries[a].live
    /\ entries' = [entries EXCEPT ![a].live = FALSE]
    /\ disk' = [disk EXCEPT ![a].live = FALSE]
    /\ told' = [told EXCEPT ![a] = NoKey]
    /\ UNCHANGED <<seen, latest, torn, saving, pc, age, accepts, highest, failed>>

Next ==
    \/ \E a \in Auths : Expire(a) \/ \E k \in Keys : AddAuthority(a, k)
    \/ \E t \in Threads : \/ \E m \in Manifests : VerifyManifest(t, m)
                          \/ RejectManifest(t) \/ AcceptManifest(t)
    \/ FinishSave \/ Restart
    \/ \E m \in Manifests : Age(m)

Spec == Init /\ [][Next]_vars

-----------------------------------------------------------------------------
(* Properties *)

\* chain_add rejects a manifest_nonce it has seen: no process accepts a manifest that
\* carries one twice, however the threads that bring it interleave.
AcceptedOnce == \A m \in Manifests : m.nonce # NoNonce => accepts[m] <= 1

\* chain_add rejects versions below the last one known for that authority: what a
\* signer has superseded does not come back in the same process.
NoRollback ==
    [][\A m \in Manifests : accepts'[m] > accepts[m] /\ m.version # 0
          => m.version >= highest[m.signer]]_vars

\* As long as saves succeed, a caller that was told an authority is trusted finds its
\* key in the store, until the authority expires: also after restarts.
AddedIsTrusted ==
    ~ failed => \A a \in Auths : told[a] # NoKey => GetAuthority(a) = told[a]

\* "Returns True if accepted and persisted": once chain_add has returned, the file
\* says what the store says, as long as saves succeed.
AcceptedIsPersisted == ~ saving /\ ~ failed => ~ torn /\ disk = entries

\* No step, a restart in the middle of others included, takes an authority out of the
\* file, as long as saves succeed.
PersistedTrustSurvives ==
    [][~ failed' => \A a \in Auths : disk[a].live => disk'[a].key # NoKey]_<<disk, failed>>
=============================================================================

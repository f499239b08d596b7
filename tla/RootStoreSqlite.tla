--------------------------- MODULE RootStoreSqlite ---------------------------
(***************************************************************************)
(* The SQLite root store of revocation_sqlite.py, one database shared by the  *)
(* processes of a host.                                                       *)
(*                                                                          *)
(* chain_add reads the signer's key, the nonces and the versions in SELECTs   *)
(* of their own and then writes in one transaction.  A lock keeps the threads *)
(* of a process apart; processes only share the database.  A process killed   *)
(* anywhere leaves the last committed transaction.                            *)
(***************************************************************************)
EXTENDS Manifests

CONSTANTS
    Procs       \* processes; each stands for the thread of it that has the lock

VARIABLES
    authorities,   \* the table: authority -> [key, live], live before expires
    nonces,        \* seen_nonces
    versions,      \* version_tracking
    doing,         \* the manifest each process is adding
    step,          \* how far its chain_add is
    read,          \* the version each process read
    age,           \* of each manifest
    accepts,       \* how often chain_add accepted each manifest (history)
    highest,       \* highest version accepted from each signer (history)
    told           \* the key callers were last told to be trusted, till it expires (history)

vars == <<authorities, nonces, versions, doing, step, read, age, accepts, highest, told>>
tables == <<authorities, nonces, versions>>
history == <<accepts, highest, told>>

Steps == {"idle", "verified", "new", "checked"}
Rows == [key : Keys \cup {NoKey}, live : BOOLEAN]

TypeOK ==
    /\ authorities \in [Auths -> Rows]
    /\ nonces \subseteq {m.nonce : m \in Manifests}
    /\ versions \in [Auths -> Nat] /\ highest \in [Auths -> Nat]
    /\ doing \in [Procs -> Manifests \cup {Idle}]
    /\ step \in [Procs -> Steps]
    /\ read \in [Procs -> Nat]
    /\ age \in [Manifests -> Ages]
    /\ accepts \in [Manifests -> 0 .. MaxAccepts]
    /\ told \in [Auths -> Keys \cup {NoKey}]

Init ==
    /\ authorities = [a \in Auths |-> [key |-> NoKey, live |-> FALSE]]
    /\ nonces = {} /\ versions = [a \in Auths |-> 0]
    /\ doing = [p \in Procs |-> Idle]
    /\ step = [p \in Procs |-> "idle"]
    /\ read = [p \in Procs |-> 0]
    /\ age = [m \in Manifests |-> "fresh"]
    /\ accepts = [m \in Manifests |-> 0]
    /\ highest = [a \in Auths |-> 0]
    /\ told = [a \in Auths |-> NoKey]

-----------------------------------------------------------------------------
Row(k) == [key |-> k, live |-> TRUE]
GetAuthority(a) == IF authorities[a].live THEN authorities[a].key ELSE NoKey

\* Mutant: chain_add returns without giving the lock back.
MutantReturns(p) ==
    /\ doing' = [doing EXCEPT ![p] = Idle]
    /\ step' = [step EXCEPT ![p] = "returned"]
    /\ read' = [read EXCEPT ![p] = 0]

\* A process that is not in chain_add again.
Returns(p) ==
    /\ doing' = [doing EXCEPT ![p] = Idle]
    /\ step' = [step EXCEPT ![p] = "idle"]
    /\ read' = [read EXCEPT ![p] = 0]

\* add_authority: a row with this key is left as it is, expired or not.
AddAuthority(p, a, k) ==
    /\ step[p] = "idle"
    /\ authorities' = IF authorities[a].key = k THEN authorities
                      ELSE [authorities EXCEPT ![a] = Row(k)]
    /\ told' = [told EXCEPT ![a] = IF authorities'[a].live THEN k ELSE NoKey]
    /\ UNCHANGED <<nonces, versions, doing, step, read, age, accepts, highest>>

\* chain_add: the manifest is verified against the key in the database.
VerifyManifest(p, m) ==
    /\ step[p] = "idle"
    /\ Verified(m, age[m], GetAuthority(m.signer))
    /\ doing' = [doing EXCEPT ![p] = m]
    /\ step' = [step EXCEPT ![p] = "verified"]
    /\ UNCHANGED <<tables, read, age, history>>

\* SELECT from seen_nonces.
CheckNonce(p) ==
    LET m == doing[p] IN
    /\ step[p] = "verified"
    /\ \/ /\ m.nonce # NoNonce /\ m.nonce \in nonces
          /\ Returns(p)
       \/ /\ ~ (m.nonce # NoNonce /\ m.nonce \in nonces)
          /\ step' = [step EXCEPT ![p] = "new"]
          /\ UNCHANGED <<doing, read>>
    /\ UNCHANGED <<tables, age, history>>

\* Mutant: a lower version is stored but not refused.
MutantCheckVersion(p) ==
    /\ step[p] = "new"
    /\ step' = [step EXCEPT ![p] = "checked"]
    /\ read' = [read EXCEPT ![p] = versions[doing[p].signer]]
    /\ UNCHANGED <<doing, tables, age, history>>

\* SELECT from version_tracking, for a manifest that has a version.
CheckVersion(p) ==
    LET m == doing[p] IN
    /\ step[p] = "new"
    /\ \/ m.version # 0 /\ m.version < versions[m.signer] /\ Returns(p)
       \/ /\ ~ (m.version # 0 /\ m.version < versions[m.signer])
          /\ step' = [step EXCEPT ![p] = "checked"]
          /\ read' = [read EXCEPT ![p] = IF m.version # 0 THEN versions[m.signer] ELSE 0]
          /\ UNCHANGED doing
    /\ UNCHANGED <<tables, age, history>>

\* Mutant: storing a nonce deletes every other one, whatever its age.
MutantKept(nonce) == FALSE

\* Nonces older than an hour are deleted when a new one is stored.
Kept(nonce) ==
    nonce \notin {m.nonce : m \in {n \in Manifests : age[n] = "old"}}

\* The transaction.  Rows of known authorities are replaced, and so renewed.
Commit(p) ==
    LET m == doing[p] IN
    /\ step[p] = "checked"
    /\ accepts[m] < MaxAccepts
    /\ versions' = IF m.version > read[p]
                   THEN [versions EXCEPT ![m.signer] = m.version] ELSE versions
    /\ nonces' = IF m.nonce = NoNonce THEN nonces
                 ELSE {n \in nonces \cup {m.nonce} : n = m.nonce \/ Kept(n)}
    /\ authorities' = Granted(authorities, [a \in DOMAIN m.grants |-> Row(m.grants[a])])
    /\ accepts' = [accepts EXCEPT ![m] = @ + 1]
    /\ highest' = IF m.version > highest[m.signer]
                  THEN [highest EXCEPT ![m.signer] = m.version] ELSE highest
    /\ told' = Granted(told, m.grants)
    /\ Returns(p)
    /\ UNCHANGED age

\* A killed process starts again; the database has what was committed.
Restart(p) ==
    /\ Returns(p)
    /\ UNCHANGED <<tables, age, history>>

Age(m) ==
    /\ age[m] # "old"
    /\ age' = [age EXCEPT ![m] = Older(@)]
    /\ UNCHANGED <<tables, doing, step, read, history>>

Expire(a) ==
    /\ authorities[a].live
    /\ authorities' = [authorities EXCEPT ![a].live = FALSE]
    /\ told' = [told EXCEPT ![a] = NoKey]
    /\ UNCHANGED <<nonces, versions, doing, step, read, age, accepts, highest>>

Next ==
    \/ \E p \in Procs : \/ \E a \in Auths, k \in Keys : AddAuthority(p, a, k)
                        \/ \E m \in Manifests : VerifyManifest(p, m)
                        \/ CheckNonce(p) \/ CheckVersion(p) \/ Commit(p) \/ Restart(p)
    \/ \E m \in Manifests : Age(m)
    \/ \E a \in Auths : Expire(a)

Spec == Init /\ [][Next]_vars
=============================================================================

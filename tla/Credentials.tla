---------------------------- MODULE Credentials ----------------------------
(***************************************************************************)
(* The credentials of the processes of one installation.  They share two sets *)
(* of files in the user's directory: the key of the local authority, which    *)
(* signs their cards (authority.py), and the certificate and the key of the   *)
(* CA, which signs their TLS certificates (agent_tls.py).  A process that      *)
(* finds no file makes a key and writes it; it keeps what it has read or made  *)
(* in memory until it ends.  Nothing locks the files: a check, the creation    *)
(* of an empty file and the writing of it are separate steps, and each of them *)
(* may fail: a file that cannot be read is made anew, and what cannot be       *)
(* written is used all the same.                                               *)
(*                                                                          *)
(* One card is followed from the authority that signs it, through changes on   *)
(* its way, to whoever verifies it, who knows the keys of the authorities.     *)
(***************************************************************************)
EXTENDS ClaimCards

CONSTANTS
    Procs,
    Requests,      \* leaves and mask that the callers of sign_mcc give
    Absent, Empty, \* a file that is not there, or whose content is no key (yet)
    NoCard,
    Serials,
    DefaultKeys,   \* the public keys sign_mcc adds where there are none
    MaxKeys,       \* bound: keys that are made
    MaxMishaps,    \* bound: processes that end, and files that cannot be read or written
    MaxTime        \* bound

ASSUME BoundsAssumption == {MaxKeys, MaxMishaps, MaxTime} \subseteq Nat
ASSUME FilesAssumption == Absent # Empty /\ {Absent, Empty} \cap 1 .. MaxKeys = {}
ASSUME RequestsAssumption ==
    \A r \in Requests : r.leaves \in Seq(ToSet(KeyOrder) \X Nat) /\ r.mask \in Seq(ToSet(KeyOrder))

Keys == 1 .. MaxKeys
Files == Keys \cup {Absent, Empty}

VARIABLES
    keyFile,          \* the authority's key
    caCert, caKey,    \* the two files of the CA
    proc,             \* how far each process is, and what it holds in memory
    made,             \* keys made so far
    mishaps,
    disturbed,        \* keys were made or read beside another process that made some, a
                      \* file that holds a key could not be read, or the writing of the
                      \* CA's key did not get beyond an empty file (history)
    card, original,   \* the card, and what the authority signed
    revoked, now

files == <<keyFile, caCert, caKey>>
cards == <<card, original, revoked, now>>
vars == <<files, proc, made, mishaps, disturbed, cards>>

-----------------------------------------------------------------------------
\* A process gets its authority's key, then those of its CA.
Steps == {"start", "makeKey", "writeKey", "authority", "readCa", "makeCa", "writeCert",
          "openCaKey", "writeCaKey", "ready"}
Writing == {"makeKey", "writeKey", "makeCa", "writeCert", "openCaKey", "writeCaKey"}

\* What of its keys a process holds in memory only.
Unsaved == SUBSET {"key", "ca"}

Fresh == [at |-> "start", key |-> Absent, cert |-> Absent, caKey |-> Absent, unsaved |-> {}]

TypeOK ==
    /\ keyFile \in Files /\ caCert \in Files /\ caKey \in Files
    /\ proc \in [Procs -> [at : Steps, key : Files, cert : Files, caKey : Files, unsaved : Unsaved]]
    /\ made \in 0 .. MaxKeys /\ mishaps \in 0 .. MaxMishaps /\ now \in 0 .. MaxTime
    /\ disturbed \in BOOLEAN
    /\ revoked \subseteq Nat
    /\ (card = NoCard) = (original = NoCard)

Init ==
    /\ keyFile = Absent /\ caCert = Absent /\ caKey = Absent
    /\ proc = [p \in Procs |-> Fresh]
    /\ made = 0 /\ mishaps = 0 /\ disturbed = FALSE
    /\ card = NoCard /\ original = NoCard /\ revoked = {} /\ now = 0

-----------------------------------------------------------------------------
(* Authority._load_or_create_keypair *)

Step(p, from, next) == proc[p].at = from /\ proc' = [proc EXCEPT ![p] = next]

Mishap == mishaps < MaxMishaps /\ mishaps' = mishaps + 1

\* Others are at it as well.
Overlaps(p) == disturbed' = (disturbed \/ \E q \in Procs \ {p} : proc[q].at \in Writing)

\* A key file of the right length.
LoadKey(p) ==
    /\ keyFile \in Keys
    /\ Step(p, "start", [proc[p] EXCEPT !.at = "authority", !.key = keyFile])
    /\ UNCHANGED <<files, made, mishaps, disturbed, cards>>

NewKey(p) ==
    /\ made < MaxKeys
    /\ made' = made + 1
    /\ Step(p, "start", [proc[p] EXCEPT !.at = "makeKey", !.key = made'])

\* Mutant: a new key for every process.
MutantMakeKey(p) ==
    /\ NewKey(p)
    /\ Overlaps(p)
    /\ UNCHANGED <<files, mishaps, cards>>

\* No file, or one whose length is wrong.
MakeKey(p) ==
    /\ keyFile \notin Keys
    /\ NewKey(p)
    /\ Overlaps(p)
    /\ UNCHANGED <<files, mishaps, cards>>

\* The file cannot be opened or read: the warning is all that tells this from no file.
KeyUnreadable(p) ==
    /\ keyFile \in Keys
    /\ NewKey(p)
    /\ Mishap /\ disturbed' = TRUE
    /\ UNCHANGED <<files, cards>>

OpenKey(p) ==
    /\ Step(p, "makeKey", [proc[p] EXCEPT !.at = "writeKey"])
    /\ keyFile' = Empty
    /\ UNCHANGED <<caCert, caKey, made, mishaps, disturbed, cards>>

WriteKey(p) ==
    /\ Step(p, "writeKey", [proc[p] EXCEPT !.at = "authority"])
    /\ keyFile' = proc[p].key
    /\ UNCHANGED <<caCert, caKey, made, mishaps, disturbed, cards>>

\* The file cannot be opened, or not be written once it is empty.
KeyNotWritten(p) ==
    /\ proc[p].at \in {"makeKey", "writeKey"}
    /\ proc' = [proc EXCEPT ![p].at = "authority", ![p].unsaved = @ \cup {"key"}]
    /\ Mishap
    /\ UNCHANGED <<files, made, disturbed, cards>>

-----------------------------------------------------------------------------
(* agent_tls._ensure_ca *)

\* Mutant: the certificate's file is enough.
MutantReadCaCert(p) ==
    /\ caCert # Absent
    /\ Step(p, "authority", [proc[p] EXCEPT !.at = "readCa", !.cert = caCert])
    /\ Overlaps(p)
    /\ UNCHANGED <<files, made, mishaps, cards>>

\* Both files are there, with whatever content.
ReadCaCert(p) ==
    /\ caCert # Absent /\ caKey # Absent
    /\ Step(p, "authority", [proc[p] EXCEPT !.at = "readCa", !.cert = caCert])
    /\ Overlaps(p)
    /\ UNCHANGED <<files, made, mishaps, cards>>

ReadCaKey(p) ==
    /\ Step(p, "readCa", [proc[p] EXCEPT !.at = "ready", !.caKey = caKey])
    /\ Overlaps(p)
    /\ UNCHANGED <<files, made, mishaps, cards>>

NewCa(p) ==
    /\ made < MaxKeys
    /\ made' = made + 1
    /\ proc' = [proc EXCEPT ![p].at = "makeCa", ![p].cert = made', ![p].caKey = made']

MakeCa(p) ==
    /\ proc[p].at = "authority"
    /\ caCert = Absent \/ caKey = Absent
    /\ NewCa(p)
    /\ Overlaps(p)
    /\ UNCHANGED <<files, mishaps, cards>>

\* One of the two files cannot be read: another CA is made.
CaUnreadable(p) ==
    /\ \/ proc[p].at = "authority" /\ caCert # Absent /\ caKey # Absent
       \/ proc[p].at = "readCa"
    /\ NewCa(p)
    /\ Mishap /\ disturbed' = TRUE
    /\ UNCHANGED <<files, cards>>

OpenCaCert(p) ==
    /\ Step(p, "makeCa", [proc[p] EXCEPT !.at = "writeCert"])
    /\ caCert' = Empty
    /\ UNCHANGED <<keyFile, caKey, made, mishaps, disturbed, cards>>

WriteCaCert(p) ==
    /\ Step(p, "writeCert", [proc[p] EXCEPT !.at = "openCaKey"])
    /\ caCert' = proc[p].cert
    /\ UNCHANGED <<keyFile, caKey, made, mishaps, disturbed, cards>>

OpenCaKey(p) ==
    /\ Step(p, "openCaKey", [proc[p] EXCEPT !.at = "writeCaKey"])
    /\ caKey' = Empty
    /\ UNCHANGED <<keyFile, caCert, made, mishaps, disturbed, cards>>

WriteCaKey(p) ==
    /\ Step(p, "writeCaKey", [proc[p] EXCEPT !.at = "ready"])
    /\ caKey' = proc[p].caKey
    /\ UNCHANGED <<keyFile, caCert, made, mishaps, disturbed, cards>>

\* An empty CA key beside a certificate is the one thing that the next process does not
\* replace.
LeftEmpty(p) == disturbed' = (disturbed \/ proc[p].at = "writeCaKey")

\* One of the two files cannot be opened or written: what was done before stays.
CaNotWritten(p) ==
    /\ proc[p].at \in {"makeCa", "writeCert", "openCaKey", "writeCaKey"}
    /\ proc' = [proc EXCEPT ![p].at = "ready", ![p].unsaved = @ \cup {"ca"}]
    /\ Mishap /\ LeftEmpty(p)
    /\ UNCHANGED <<files, made, cards>>

\* A process ends, wherever it is, and another one begins.
Restart(p) ==
    /\ proc[p] # Fresh
    /\ proc' = [proc EXCEPT ![p] = Fresh]
    /\ Mishap /\ LeftEmpty(p)
    /\ UNCHANGED <<files, made, cards>>

-----------------------------------------------------------------------------
(* Cards *)

HasAuthority(p) == proc[p].at \notin {"start", "makeKey", "writeKey"}

Sign(p, request, serial, expiry) ==
    /\ proc[p].at = "ready" /\ card = NoCard
    /\ card' = Signed(request, serial, expiry, proc[p].key, DefaultKeys)
    /\ original' = card'
    /\ UNCHANGED <<files, proc, made, mishaps, disturbed, revoked, now>>

\* What may be different about a card that arrives: its lists in another order, an
\* entry repeated, missing or changed, or another value in a field.
Changes(c) ==
    {[c EXCEPT !.leaves = Reverse(@)], [c EXCEPT !.mask = Reverse(@)],
     [c EXCEPT !.version = @ + 1], [c EXCEPT !.serial = @ + 1],
     [c EXCEPT !.expiry = @ + 1], [c EXCEPT !.authority = @ + 1]}
    \cup (UNION {{[c EXCEPT !.leaves = Append(@, @[i])], [c EXCEPT !.leaves = RemoveAt(@, i)],
                 [c EXCEPT !.leaves[i][2] = @ + 1],
                 [c EXCEPT !.leaves[i][2] = @ + 1,
                           !.root = Root([c.leaves EXCEPT ![i][2] = @ + 1])]} :
                i \in DOMAIN c.leaves})
    \cup (UNION {{[c EXCEPT !.mask = Append(@, @[i])], [c EXCEPT !.mask = RemoveAt(@, i)]} :
                i \in DOMAIN c.mask})

Change ==
    /\ card # NoCard /\ card = original
    /\ card' \in Changes(card)
    /\ UNCHANGED <<files, proc, made, mishaps, disturbed, original, revoked, now>>

Revoke(serial) ==
    /\ revoked' = revoked \cup {serial}
    /\ UNCHANGED <<files, proc, made, mishaps, disturbed, card, original, now>>

Tick ==
    /\ now < MaxTime
    /\ now' = now + 1
    /\ UNCHANGED <<files, proc, made, mishaps, disturbed, card, original, revoked>>

-----------------------------------------------------------------------------
Next ==
    \/ \E p \in Procs :
          \/ LoadKey(p) \/ MakeKey(p) \/ OpenKey(p) \/ WriteKey(p)
          \/ KeyUnreadable(p) \/ KeyNotWritten(p)
          \/ ReadCaCert(p) \/ ReadCaKey(p)
          \/ MakeCa(p) \/ OpenCaCert(p) \/ WriteCaCert(p) \/ OpenCaKey(p) \/ WriteCaKey(p)
          \/ CaUnreadable(p) \/ CaNotWritten(p)
          \/ Restart(p)
          \/ \E r \in Requests : \E serial \in Serials : Sign(p, r, serial, MaxTime)
    \/ Change \/ Tick
    \/ \E serial \in Serials : Revoke(serial)

Spec == Init /\ [][Next]_vars

-----------------------------------------------------------------------------
(* Properties *)

\* "Persist the local authority key so process restarts keep identity": as long as no
\* process makes keys beside another, no file that holds one fails to be read and the
\* CA's key is not left empty, processes hold the key of the one file and the one CA,
\* but for what they could not write.
OneInstallation ==
    ~ disturbed =>
        \A p \in Procs :
            /\ HasAuthority(p) /\ "key" \notin proc[p].unsaved => proc[p].key = keyFile
            /\ proc[p].at = "ready" /\ "ca" \notin proc[p].unsaved =>
                  proc[p].cert = caCert /\ proc[p].caKey = caKey /\ caCert = caKey /\ caKey \in Keys

\* Once written, the authority's key stays, through ends in the middle of creations and
\* writes that fail.  A read of it that fails is what it does not survive.
KeyIsForever == [][~ disturbed' /\ keyFile \in Keys => keyFile' = keyFile]_vars

\* The callers of sign_mcc ask for cards that can be verified: no claim is given twice,
\* those in the mask are given or added, and the two keys of an agent differ.
AgentKey(r, k) == IF k \in KeysOf(r.leaves) THEN ValueOf(r.leaves, k) ELSE DefaultKeys[k]
Whole(r) ==
    /\ \A i, j \in DOMAIN r.leaves :
          r.leaves[i][1] = r.leaves[j][1] /\ r.leaves[i][1] \notin Metadata => i = j
    /\ ToSet(r.mask) \subseteq Metadata \cup KeyDefaults \cup KeysOf(r.leaves)
    /\ AgentKey(r, "agent_pk") # AgentKey(r, "agent_sign_pk")
RequestsAreWhole ==
    /\ DefaultKeys \in [KeyDefaults -> Nat] /\ Serials \subseteq Nat
    /\ \A r \in Requests : Whole(r)

\* The card is the one the authority signed, in whatever order, and is in force.
AsSigned ==
    /\ ToSet(card.leaves) = ToSet(original.leaves) /\ Len(card.leaves) = Len(original.leaves)
    /\ ToSet(card.mask) = ToSet(original.mask)
    /\ [card EXCEPT !.leaves = << >>, !.mask = << >>] = [original EXCEPT !.leaves = << >>, !.mask = << >>]
    /\ card.expiry > now /\ card.serial \notin revoked

\* A process accepts a card under the key it has registered for its authority.
Accepts(p) == card.authority = proc[p].key /\ Verify(card, proc[p].key, now, revoked)

\* A card is accepted by the processes that hold the key of the authority that signed it,
\* in the process that did or in another one of the installation, also after restarts,
\* exactly as long as its claims are those that were signed; and by no others, whatever
\* has become of the files.
SignedAreAccepted ==
    card # NoCard =>
        \A p \in Procs : HasAuthority(p) =>
            (Accepts(p) <=> AsSigned /\ proc[p].key = original.authority)
=============================================================================

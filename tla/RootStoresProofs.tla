-------------------------- MODULE RootStoresProofs --------------------------
(***************************************************************************)
(* Proofs about the root store of a process, whichever backend it has: what   *)
(* RootStore promises holds of the JSON store and, where one process has it   *)
(* to itself, of the SQLite store, for any authorities, keys, manifests and   *)
(* threads.                                                                   *)
(*                                                                          *)
(* AddedIsTrusted and PersistedTrustSurvives rest on one invariant, SavedInv,  *)
(* which relates the table, the file and what callers were told.  AcceptedOnce *)
(* and NoRollback rest on invariants of their own, that relate the history to *)
(* the nonces and versions the store remembers.                               *)
(***************************************************************************)
EXTENDS RootStores, FiniteSetTheorems, TLAPS

-----------------------------------------------------------------------------
(* Types *)

\* What a manifest grants are keys of authorities.
LEMMA GrantsAreKeys ==
    ASSUME NEW m \in Manifests, NEW a \in DOMAIN m.grants
    PROVE  a \in Auths /\ m.grants[a] \in Keys
BY ManifestsAssumption

\* A table to which rows are added stays a table.
LEMMA GrantedType ==
    ASSUME NEW S, NEW store \in [Auths -> S], NEW rows, \A a \in DOMAIN rows : rows[a] \in S
    PROVE  Granted(store, rows) \in [Auths -> S]
BY DEF Granted

\* Every step of the JSON store keeps the types.
LEMMA JsonTypes == ASSUME TypeOK, Next PROVE TypeOK'
<1>1. ASSUME NEW a \in Auths, Expire(a) PROVE TypeOK'
  BY <1>1 DEF TypeOK, Expire, Entries
<1>2. ASSUME NEW a \in Auths, NEW k \in Keys, AddAuthority(a, k) PROVE TypeOK'
  <2>1. Fresh(k) \in Entries
    BY DEF Entries, Fresh
  <2>2. entries' \in [Auths -> Entries]
    BY <1>2, <2>1 DEF TypeOK, AddAuthority
  <2>3. told' \in [Auths -> Keys \cup {NoKey}]
    BY <1>2 DEF TypeOK, AddAuthority, Told
  <2> QED BY <1>2, <2>2, <2>3 DEF TypeOK, AddAuthority, BeginSave
<1>3. ASSUME NEW t \in Threads, NEW m \in Manifests, VerifyManifest(t, m) PROVE TypeOK'
  BY <1>3 DEF TypeOK, VerifyManifest, history
<1>4. ASSUME NEW t \in Threads, RejectManifest(t) PROVE TypeOK'
  BY <1>4 DEF TypeOK, RejectManifest, history
<1>5. ASSUME NEW t \in Threads, AcceptManifest(t) PROVE TypeOK'
  <2> DEFINE m == pc[t]
  <2>1. m \in Manifests /\ m.version \in Nat /\ m.signer \in Auths
    BY <1>5, ManifestsAssumption DEF TypeOK, AcceptManifest
  <2>2. entries' \in [Auths -> Entries]
    <3> DEFINE rows == [a \in {b \in DOMAIN m.grants : entries[b].key # m.grants[b]}
                          |-> Fresh(m.grants[a])]
    <3>1. \A a \in DOMAIN rows : rows[a] \in Entries
      BY <2>1, GrantsAreKeys DEF Entries, Fresh
    <3>2. entries' = Granted(entries, rows)
      BY <1>5 DEF AcceptManifest, GrantedEntries
    <3> HIDE DEF rows
    <3> QED BY <3>1, <3>2, GrantedType DEF TypeOK
  <2>3. told' \in [Auths -> Keys \cup {NoKey}]
    BY <1>5, <2>1, GrantsAreKeys DEF TypeOK, AcceptManifest, Told
  <2>4. seen' \subseteq {n.nonce : n \in Manifests}
    BY <1>5, <2>1 DEF TypeOK, AcceptManifest, Remember
  <2>5. accepts' \in [Manifests -> 0 .. MaxAccepts]
    BY <1>5, <2>1, MaxAcceptsAssumption DEF TypeOK, AcceptManifest
  <2>6. latest' \in [Auths -> Nat] /\ highest' \in [Auths -> Nat]
    BY <1>5, <2>1 DEF TypeOK, AcceptManifest
  <2>7. UNCHANGED <<age, failed, disk>> /\ saving' = TRUE /\ torn' = TRUE
    BY <1>5 DEF AcceptManifest, BeginSave
  <2>8. pc' \in [Threads -> Manifests \cup {Idle}]
    BY <1>5 DEF TypeOK, AcceptManifest
  <2> QED BY <2>2, <2>3, <2>4, <2>5, <2>6, <2>7, <2>8 DEF TypeOK
<1>6. ASSUME FinishSave PROVE TypeOK'
  BY <1>6 DEF TypeOK, FinishSave
<1>7. ASSUME Restart PROVE TypeOK'
  <2>1. Empty \in [Auths -> Entries]
    BY DEF Empty, NoEntry, Entries
  <2>2. accepts' \in [Manifests -> 0 .. MaxAccepts]
    BY <1>7, MaxAcceptsAssumption DEF Restart, Forgotten
  <2> QED BY <1>7, <2>1, <2>2 DEF TypeOK, Restart, Forgotten
<1>8. ASSUME NEW m \in Manifests, Age(m) PROVE TypeOK'
  BY <1>8 DEF TypeOK, Age, Ages, Older, history
<1> QED BY <1>1, <1>2, <1>3, <1>4, <1>5, <1>6, <1>7, <1>8 DEF Next

\* A process that is in chain_add has a manifest.
AtWork == \A p \in Procs : step[p] # "idle" => doing[p] \in Manifests

\* Every step of the SQLite store keeps the types.
LEMMA SqliteTypes ==
    ASSUME Sqlite!TypeOK, AtWork, Sqlite!Next PROVE Sqlite!TypeOK' /\ AtWork'
<1> USE DEF Sqlite!TypeOK, AtWork
<1>1. ASSUME NEW p \in Procs, NEW a \in Auths, NEW k \in Keys, Sqlite!AddAuthority(p, a, k)
      PROVE  Sqlite!TypeOK' /\ AtWork'
  BY <1>1 DEF Sqlite!AddAuthority, Sqlite!Rows, Sqlite!Row
<1>2. ASSUME NEW p \in Procs, NEW m \in Manifests, Sqlite!VerifyManifest(p, m)
      PROVE  Sqlite!TypeOK' /\ AtWork'
  BY <1>2 DEF Sqlite!VerifyManifest, Sqlite!tables, Sqlite!history, Sqlite!Steps
<1>3. ASSUME NEW p \in Procs, Sqlite!CheckNonce(p) PROVE Sqlite!TypeOK' /\ AtWork'
  BY <1>3 DEF Sqlite!CheckNonce, Sqlite!tables, Sqlite!history, Sqlite!Steps, Sqlite!Returns
<1>4. ASSUME NEW p \in Procs, Sqlite!CheckVersion(p) PROVE Sqlite!TypeOK' /\ AtWork'
  <2>1. step[p] # "idle" /\ doing[p].signer \in Auths
    BY <1>4, ManifestsAssumption DEF Sqlite!CheckVersion
  <2>2. CASE Sqlite!Returns(p) /\ UNCHANGED <<Sqlite!tables, age, Sqlite!history>>
    BY <2>2 DEF Sqlite!tables, Sqlite!history, Sqlite!Steps, Sqlite!Returns
  <2>3. CASE /\ step[p] = "new" /\ step' = [step EXCEPT ![p] = "checked"]
             /\ read' = [read EXCEPT ![p] = IF doing[p].version # 0
                                            THEN latest[doing[p].signer] ELSE 0]
             /\ UNCHANGED <<doing, Sqlite!tables, age, Sqlite!history>>
    <3>1. latest[doing[p].signer] \in Nat
      BY <2>1
    <3>2. (IF doing[p].version # 0 THEN latest[doing[p].signer] ELSE 0) \in Nat
      BY <3>1
    <3>3. read' \in [Procs -> Nat]
      BY <2>3, <3>2
    <3> QED BY <2>1, <2>3, <3>3 DEF Sqlite!tables, Sqlite!history, Sqlite!Steps
  <2> QED BY <1>4, <2>2, <2>3 DEF Sqlite!CheckVersion
<1>5. ASSUME NEW p \in Procs, Sqlite!Commit(p) PROVE Sqlite!TypeOK' /\ AtWork'
  <2> DEFINE m == doing[p]
  <2>1. m \in Manifests /\ m.version \in Nat /\ m.signer \in Auths
    BY <1>5, ManifestsAssumption DEF Sqlite!Commit
  <2>2. entries' \in [Auths -> Sqlite!Rows]
    <3> DEFINE rows == [a \in DOMAIN m.grants |-> Sqlite!Row(m.grants[a])]
    <3>1. \A a \in DOMAIN rows : rows[a] \in Sqlite!Rows
      BY <2>1, GrantsAreKeys DEF Sqlite!Rows, Sqlite!Row
    <3>2. entries' = Granted(entries, rows)
      BY <1>5 DEF Sqlite!Commit, Sqlite!Granted, Granted
    <3> HIDE DEF rows
    <3> QED BY <3>1, <3>2, GrantedType
  <2>3. told' \in [Auths -> Keys \cup {NoKey}]
    BY <1>5, <2>1, GrantsAreKeys DEF Sqlite!Commit, Sqlite!Granted
  <2>4. seen' \subseteq {n.nonce : n \in Manifests}
    BY <1>5, <2>1 DEF Sqlite!Commit
  <2>5. accepts' \in [Manifests -> 0 .. MaxAccepts]
    BY <1>5, <2>1, MaxAcceptsAssumption DEF Sqlite!Commit
  <2>6. latest' \in [Auths -> Nat] /\ highest' \in [Auths -> Nat]
    BY <1>5, <2>1 DEF Sqlite!Commit
  <2>7. doing' \in [Procs -> Manifests \cup {Idle}] /\ step' \in [Procs -> Sqlite!Steps]
    BY <1>5 DEF Sqlite!Commit, Sqlite!Returns, Sqlite!Steps
  <2>8. read' \in [Procs -> Nat] /\ UNCHANGED age
    BY <1>5 DEF Sqlite!Commit, Sqlite!Returns
  <2>9. AtWork'
    BY <1>5 DEF Sqlite!Commit, Sqlite!Returns
  <2> QED BY <2>2, <2>3, <2>4, <2>5, <2>6, <2>7, <2>8, <2>9
<1>6. ASSUME NEW p \in Procs, Sqlite!Restart(p) PROVE Sqlite!TypeOK' /\ AtWork'
  BY <1>6 DEF Sqlite!Restart, Sqlite!Returns, Sqlite!tables, Sqlite!history, Sqlite!Steps
<1>7. ASSUME NEW m \in Manifests, Sqlite!Age(m) PROVE Sqlite!TypeOK' /\ AtWork'
  BY <1>7 DEF Sqlite!Age, Sqlite!tables, Sqlite!history, Sqlite!Ages, Sqlite!Older
<1>8. ASSUME NEW a \in Auths, Sqlite!Expire(a) PROVE Sqlite!TypeOK' /\ AtWork'
  BY <1>8 DEF Sqlite!Expire, Sqlite!Rows
<1> QED BY <1>1, <1>2, <1>3, <1>4, <1>5, <1>6, <1>7, <1>8 DEF Sqlite!Next

\* What both backends keep about the types.
TypeInv == StoresTypeOK /\ AtWork

\* Every step of the store keeps the types, of its own backend and of the other.
LEMMA TypeStep == ASSUME TypeInv, [StoresNext]_allVars PROVE TypeInv'
<1>1. CASE JsonNext
  <2>1. TypeOK'
    BY <1>1, JsonTypes DEF JsonNext, TypeInv, StoresTypeOK
  <2>2. UNCHANGED <<doing, step, read>> /\ Sqlite!TypeOK
    BY <1>1 DEF JsonNext, sqlite, TypeInv, StoresTypeOK
  <2>3. Sqlite!TypeOK'
    BY <2>1, <2>2 DEF TypeOK, Sqlite!TypeOK, Entries, Sqlite!Rows, Ages, Sqlite!Ages
  <2>4. AtWork'
    BY <2>2 DEF TypeInv, AtWork
  <2> QED BY <2>1, <2>3, <2>4 DEF TypeInv, StoresTypeOK
<1>2. CASE SqliteNext
  <2>1. Sqlite!TypeOK' /\ AtWork'
    BY <1>2, SqliteTypes DEF SqliteNext, TypeInv, StoresTypeOK
  <2>2. disk' = entries' /\ UNCHANGED <<torn, saving, pc, failed>> /\ TypeOK
    BY <1>2 DEF SqliteNext, TypeInv, StoresTypeOK
  <2>3. TypeOK'
    BY <2>1, <2>2 DEF TypeOK, Sqlite!TypeOK, Entries, Sqlite!Rows, Ages, Sqlite!Ages
  <2> QED BY <2>1, <2>3 DEF TypeInv, StoresTypeOK
<1>3. CASE UNCHANGED allVars
  BY <1>3 DEF allVars, vars, sqlite, TypeInv, StoresTypeOK, TypeOK, Sqlite!TypeOK, AtWork
<1> QED BY <1>1, <1>2, <1>3 DEF StoresNext

\* The types hold throughout.
LEMMA TypesAlways == StoresSpec => []TypeInv
<1>1. StoresInit => TypeInv
  <2> SUFFICES ASSUME StoresInit PROVE TypeInv
    OBVIOUS
  <2>1. TypeOK
    <3>1. Empty \in [Auths -> Entries]
      BY DEF Empty, NoEntry, Entries
    <3>2. accepts \in [Manifests -> 0 .. MaxAccepts]
      BY MaxAcceptsAssumption DEF StoresInit, Init
    <3> QED BY <3>1, <3>2 DEF StoresInit, Init, TypeOK, Ages
  <2>2. doing \in [Procs -> Manifests \cup {Idle}] /\ step = [p \in Procs |-> "idle"]
        /\ read \in [Procs -> Nat]
    BY DEF StoresInit, Sqlite!Init
  <2>3. Sqlite!TypeOK
    BY <2>1, <2>2 DEF TypeOK, Sqlite!TypeOK, Entries, Sqlite!Rows, Ages, Sqlite!Ages, Sqlite!Steps
  <2> QED BY <2>1, <2>2, <2>3 DEF TypeInv, StoresTypeOK, AtWork
<1>2. TypeInv /\ [StoresNext]_allVars => TypeInv'
  BY TypeStep
<1> QED BY <1>1, <1>2, PTL DEF StoresSpec

\* The variables of both backends keep their types (revocation.py,
\* revocation_sqlite.py).
THEOREM TypesCorrect == StoresSpec => []StoresTypeOK
<1>1. TypeInv => StoresTypeOK
  BY DEF TypeInv
<1> QED BY <1>1, TypesAlways, PTL

-----------------------------------------------------------------------------
(* What is trusted is in the file *)

\* Trust has a key: in the table, in the file, and in both while saves succeed.
Lasting ==
    \A a \in Auths :
        /\ entries[a].live => entries[a].key # NoKey
        /\ disk[a].live => disk[a].key # NoKey
        /\ ~ failed /\ disk[a].live => entries[a].key # NoKey

SavedInv ==
    /\ AcceptedIsPersisted /\ AddedIsTrusted /\ Lasting
    /\ backend = "sqlite" => ~ saving /\ ~ torn /\ ~ failed

SurvivesStep == ~ failed' => \A a \in Auths : disk[a].live => disk'[a].key # NoKey

\* What a step has to show when it writes the table, and begins to save it.
LEMMA WritesSaved ==
    ASSUME TypeOK, SavedInv, backend' = backend, backend # "sqlite", BeginSave,
           UNCHANGED failed,
           \A a \in Auths : /\ entries'[a].live => entries'[a].key # NoKey
                            /\ entries[a].key # NoKey => entries'[a].key # NoKey,
           ~ failed => \A a \in Auths : told'[a] # NoKey => GetAuthority(a)' = told'[a]
    PROVE  SavedInv' /\ SurvivesStep
BY DEF SavedInv, AcceptedIsPersisted, AddedIsTrusted, Lasting, SurvivesStep, BeginSave

\* Every step of the JSON store keeps what is saved and what is trusted together.
LEMMA JsonSaved ==
    ASSUME TypeOK, SavedInv, JsonNext PROVE SavedInv' /\ SurvivesStep
<1> DEFINE Goal == SavedInv' /\ SurvivesStep
<1>0. backend' = backend /\ backend # "sqlite" /\ NoKey \notin Keys
  BY ManifestsAssumption DEF JsonNext
<1>1. ASSUME NEW a \in Auths, Expire(a) PROVE Goal
  <2>1. /\ entries'[a].key = entries[a].key /\ disk'[a].key = disk[a].key
        /\ ~ entries'[a].live /\ ~ disk'[a].live /\ told'[a] = NoKey
    BY <1>1 DEF Expire, TypeOK, Entries
  <2>2. \A b \in Auths \ {a} : /\ entries'[b] = entries[b] /\ disk'[b] = disk[b]
                               /\ told'[b] = told[b]
    BY <1>1 DEF Expire, TypeOK
  <2>3. UNCHANGED <<saving, torn, failed>>
    BY <1>1 DEF Expire
  <2>4. Lasting' /\ SurvivesStep
    BY <2>1, <2>2, <2>3 DEF SavedInv, Lasting, SurvivesStep
  <2>5. AddedIsTrusted'
    BY <2>1, <2>2, <2>3 DEF SavedInv, AddedIsTrusted, GetAuthority
  <2>6. AcceptedIsPersisted'
    BY <1>1, <2>3 DEF SavedInv, AcceptedIsPersisted, Expire
  <2> QED BY <1>0, <2>4, <2>5, <2>6 DEF SavedInv
<1>2. ASSUME NEW a \in Auths, NEW k \in Keys, AddAuthority(a, k) PROVE Goal
  <2>1. told'[a] = (IF entries'[a].live THEN k ELSE NoKey)
        /\ \A b \in Auths \ {a} : told'[b] = told[b]
    BY <1>2 DEF AddAuthority, Told
  <2>2. CASE entries[a].key = k /\ UNCHANGED <<entries, disk, torn, saving>>
    <3>1. UNCHANGED failed
      BY <1>2 DEF AddAuthority
    <3>2. AddedIsTrusted'
      BY <2>1, <2>2, <3>1 DEF SavedInv, AddedIsTrusted, GetAuthority
    <3>3. AcceptedIsPersisted' /\ Lasting' /\ SurvivesStep
      BY <2>2, <3>1 DEF SavedInv, AcceptedIsPersisted, Lasting, SurvivesStep
    <3> QED BY <1>0, <3>2, <3>3 DEF SavedInv
  <2>3. CASE entries[a].key # k /\ entries' = [entries EXCEPT ![a] = Fresh(k)] /\ BeginSave
    <3>1. entries'[a].live /\ entries'[a].key = k /\ k # NoKey
      BY <1>0, <2>3 DEF TypeOK, Fresh
    <3>2. \A b \in Auths \ {a} : entries'[b] = entries[b]
      BY <2>3 DEF TypeOK
    <3>3. \A b \in Auths : /\ entries'[b].live => entries'[b].key # NoKey
                           /\ entries[b].key # NoKey => entries'[b].key # NoKey
      BY <3>1, <3>2 DEF SavedInv, Lasting
    <3>4. ~ failed => \A b \in Auths : told'[b] # NoKey => GetAuthority(b)' = told'[b]
      BY <2>1, <3>1, <3>2 DEF SavedInv, AddedIsTrusted, GetAuthority
    <3>5. UNCHANGED failed
      BY <1>2 DEF AddAuthority
    <3> QED BY <1>0, <2>3, <3>3, <3>4, <3>5, WritesSaved
  <2> QED BY <1>2, <2>2, <2>3 DEF AddAuthority
<1>3. ASSUME NEW t \in Threads, AcceptManifest(t) PROVE Goal
  <2> DEFINE m == pc[t]
  <2>1. m \in Manifests
    BY <1>3 DEF AcceptManifest, TypeOK
  <2>2. \A a \in DOMAIN m.grants : m.grants[a] \in Keys /\ m.grants[a] # NoKey
    BY <1>0, <2>1, GrantsAreKeys
  <2>3. \A a \in Auths :
           /\ a \in DOMAIN m.grants /\ entries[a].key # m.grants[a]
                 => entries'[a].live /\ entries'[a].key = m.grants[a]
           /\ ~ (a \in DOMAIN m.grants /\ entries[a].key # m.grants[a])
                 => entries'[a] = entries[a]
    BY <1>3 DEF AcceptManifest, GrantedEntries, Granted, Fresh
  <2>4. \A a \in Auths :
           /\ a \in DOMAIN m.grants => told'[a] = (IF entries'[a].live THEN m.grants[a] ELSE NoKey)
           /\ a \notin DOMAIN m.grants => told'[a] = told[a]
    BY <1>3 DEF AcceptManifest, Told
  <2>5. UNCHANGED failed /\ BeginSave
    BY <1>3 DEF AcceptManifest
  <2> HIDE DEF m
  <2>6. \A b \in Auths : /\ entries'[b].live => entries'[b].key # NoKey
                         /\ entries[b].key # NoKey => entries'[b].key # NoKey
    BY <2>2, <2>3 DEF SavedInv, Lasting
  <2>7. ASSUME ~ failed, NEW b \in Auths, told'[b] # NoKey PROVE GetAuthority(b)' = told'[b]
    <3>1. CASE b \in DOMAIN m.grants
      BY <2>2, <2>3, <2>4, <2>7, <3>1 DEF GetAuthority
    <3>2. CASE b \notin DOMAIN m.grants
      BY <2>3, <2>4, <2>7, <3>2 DEF SavedInv, AddedIsTrusted, GetAuthority
    <3> QED BY <3>1, <3>2
  <2> QED BY <1>0, <2>5, <2>6, <2>7, WritesSaved
<1>4. ASSUME FinishSave PROVE Goal
  BY <1>0, <1>4
     DEF FinishSave, SavedInv, AcceptedIsPersisted, AddedIsTrusted, GetAuthority, Lasting,
         SurvivesStep
<1>5. ASSUME Restart PROVE Goal
  <2>1. CASE torn
    <3>1. failed'
      BY <1>5, <2>1 DEF Restart, SavedInv, AcceptedIsPersisted, TypeOK
    <3>2. \A a \in Auths : ~ entries'[a].live /\ ~ disk'[a].live
      BY <1>5, <2>1 DEF Restart, Empty, NoEntry
    <3> QED BY <1>0, <3>1, <3>2
            DEF SavedInv, AcceptedIsPersisted, AddedIsTrusted, Lasting, SurvivesStep
  <2>2. CASE ~ torn
    <3>1. /\ entries' = disk /\ disk' = disk /\ told' = told /\ ~ torn'
          /\ ~ failed' => ~ failed /\ ~ saving
      BY <1>5, <2>2 DEF Restart, TypeOK
    <3> QED BY <1>0, <3>1
            DEF SavedInv, AcceptedIsPersisted, AddedIsTrusted, GetAuthority, Lasting,
                SurvivesStep
  <2> QED BY <2>1, <2>2
<1>6. CASE UNCHANGED <<entries, disk, torn, saving, told, failed>>
  BY <1>0, <1>6
     DEF SavedInv, AcceptedIsPersisted, AddedIsTrusted, GetAuthority, Lasting, SurvivesStep
<1>7. ASSUME NEW t \in Threads, NEW m \in Manifests, VerifyManifest(t, m) PROVE Goal
  BY <1>6, <1>7 DEF VerifyManifest, history
<1>8. ASSUME NEW t \in Threads, RejectManifest(t) PROVE Goal
  BY <1>6, <1>8 DEF RejectManifest, history
<1>9. ASSUME NEW m \in Manifests, Age(m) PROVE Goal
  BY <1>6, <1>9 DEF Age, history
<1> QED BY <1>1, <1>2, <1>3, <1>4, <1>5, <1>7, <1>8, <1>9 DEF JsonNext, Next

\* The SQLite store writes its file with its table.
LEMMA SqliteSaved ==
    ASSUME TypeInv, SavedInv, SqliteNext PROVE SavedInv' /\ SurvivesStep
<1> DEFINE
      Keeps == \A a \in Auths : /\ entries'[a].live => entries'[a].key # NoKey
                                /\ entries[a].key # NoKey => entries'[a].key # NoKey
      Tells == \A a \in Auths : told'[a] # NoKey => GetAuthority(a)' = told'[a]
      Same == entries' = entries /\ told' = told
<1>1. /\ disk' = entries' /\ UNCHANGED <<backend, torn, saving, failed>>
      /\ ~ saving /\ ~ torn /\ ~ failed /\ Sqlite!Next
      /\ NoKey \notin Keys
  BY ManifestsAssumption DEF SqliteNext, SavedInv
<1>2. /\ Sqlite!TypeOK /\ AtWork
      /\ entries \in [Auths -> Sqlite!Rows] /\ told \in [Auths -> Keys \cup {NoKey}]
  BY DEF TypeInv, StoresTypeOK, Sqlite!TypeOK
<1>3. \A a \in Auths : entries[a].live => entries[a].key # NoKey
  BY DEF SavedInv, Lasting
<1>4. \A a \in Auths : told[a] # NoKey => GetAuthority(a) = told[a]
  BY <1>1 DEF SavedInv, AddedIsTrusted
<1>4a. disk = entries
  BY <1>1 DEF SavedInv, AcceptedIsPersisted
<1>5. ASSUME NEW p \in Procs, NEW a \in Auths, NEW k \in Keys, Sqlite!AddAuthority(p, a, k)
      PROVE  Keeps /\ Tells
  <2>1. told'[a] = (IF entries'[a].live THEN k ELSE NoKey)
        /\ \A b \in Auths \ {a} : told'[b] = told[b]
    BY <1>2, <1>5 DEF Sqlite!AddAuthority
  <2>2. entries'[a].key = k /\ k # NoKey
    BY <1>1, <1>2, <1>5 DEF Sqlite!AddAuthority, Sqlite!Row
  <2>3. \A b \in Auths \ {a} : entries'[b] = entries[b]
    BY <1>2, <1>5 DEF Sqlite!AddAuthority
  <2> QED BY <1>3, <1>4, <2>1, <2>2, <2>3 DEF GetAuthority
<1>6. ASSUME NEW p \in Procs, Sqlite!Commit(p) PROVE Keeps /\ Tells
  <2> DEFINE m == doing[p]
  <2>1. m \in Manifests
    BY <1>2, <1>6 DEF Sqlite!Commit, AtWork
  <2>2. \A a \in DOMAIN m.grants : m.grants[a] \in Keys /\ m.grants[a] # NoKey
    BY <1>1, <2>1, GrantsAreKeys
  <2>3. \A a \in Auths :
           /\ a \in DOMAIN m.grants => entries'[a].live /\ entries'[a].key = m.grants[a]
           /\ a \notin DOMAIN m.grants => entries'[a] = entries[a]
    BY <1>6 DEF Sqlite!Commit, Sqlite!Granted, Sqlite!Row
  <2>4. \A a \in Auths : /\ a \in DOMAIN m.grants => told'[a] = m.grants[a]
                         /\ a \notin DOMAIN m.grants => told'[a] = told[a]
    BY <1>6 DEF Sqlite!Commit, Sqlite!Granted
  <2> HIDE DEF m
  <2> QED BY <1>3, <1>4, <2>2, <2>3, <2>4 DEF GetAuthority
<1>7. ASSUME NEW a \in Auths, Sqlite!Expire(a) PROVE Keeps /\ Tells
  <2>1. entries'[a].key = entries[a].key /\ ~ entries'[a].live /\ told'[a] = NoKey
    BY <1>2, <1>7 DEF Sqlite!Expire, Sqlite!Rows
  <2>2. \A b \in Auths \ {a} : entries'[b] = entries[b] /\ told'[b] = told[b]
    BY <1>2, <1>7 DEF Sqlite!Expire
  <2> QED BY <1>3, <1>4, <2>1, <2>2 DEF GetAuthority
<1>8. ASSUME Same PROVE Keeps /\ Tells
  <2>1. Keeps
    BY <1>3, <1>8
  <2>2. Tells
    BY <1>4, <1>8 DEF GetAuthority
  <2> QED BY <2>1, <2>2
<1>9. ASSUME NEW p \in Procs,
             \/ \E m \in Manifests : Sqlite!VerifyManifest(p, m)
             \/ Sqlite!CheckNonce(p) \/ Sqlite!CheckVersion(p) \/ Sqlite!Restart(p)
      PROVE  Same
  BY <1>9 DEF Sqlite!VerifyManifest, Sqlite!CheckNonce, Sqlite!CheckVersion, Sqlite!Restart,
              Sqlite!tables, Sqlite!history
<1>10. ASSUME NEW m \in Manifests, Sqlite!Age(m) PROVE Same
  BY <1>10 DEF Sqlite!Age, Sqlite!tables, Sqlite!history
<1>11. Keeps /\ Tells
  <2> HIDE DEF Keeps, Tells, Same
  <2>1. ASSUME NEW p \in Procs,
               \/ \E a \in Auths, k \in Keys : Sqlite!AddAuthority(p, a, k)
               \/ \E m \in Manifests : Sqlite!VerifyManifest(p, m)
               \/ Sqlite!CheckNonce(p) \/ Sqlite!CheckVersion(p) \/ Sqlite!Commit(p)
               \/ Sqlite!Restart(p)
        PROVE  Keeps /\ Tells
    BY <1>5, <1>6, <1>8, <1>9, <2>1
  <2> QED BY <1>1, <1>7, <1>8, <1>10, <2>1 DEF Sqlite!Next
<1>12. AddedIsTrusted' /\ AcceptedIsPersisted'
  BY <1>1, <1>11 DEF AddedIsTrusted, AcceptedIsPersisted
<1>13. Lasting' /\ SurvivesStep
  BY <1>1, <1>3, <1>4a, <1>11 DEF Lasting, SurvivesStep
<1> QED BY <1>1, <1>12, <1>13 DEF SavedInv

\* Every step of the store does.
LEMMA SavedStep ==
    ASSUME TypeInv, SavedInv, [StoresNext]_allVars
    PROVE  SavedInv' /\ [SurvivesStep]_<<disk, failed>>
<1>1. CASE JsonNext
  BY <1>1, JsonSaved DEF TypeInv, StoresTypeOK
<1>2. CASE SqliteNext
  BY <1>2, SqliteSaved
<1>3. CASE UNCHANGED allVars
  BY <1>3 DEF allVars, vars, SavedInv, AcceptedIsPersisted, AddedIsTrusted, GetAuthority, Lasting
<1> QED BY <1>1, <1>2, <1>3 DEF StoresNext

\* Table, file and what callers were told agree throughout.
LEMMA SavedAlways == StoresSpec => []SavedInv
<1>1. StoresInit => SavedInv
  BY DEF StoresInit, Init, Empty, NoEntry, SavedInv, AcceptedIsPersisted, AddedIsTrusted, Lasting
<1>2. TypeInv /\ SavedInv /\ [StoresNext]_allVars => SavedInv'
  BY SavedStep
<1> QED BY <1>1, <1>2, TypesAlways, PTL DEF StoresSpec

\* A key somebody was told is trusted stays trusted until it expires, through
\* restarts, as long as saves succeed (add_authority, chain_add, _save, _load).
THEOREM TrustKept == StoresSpec => []AddedIsTrusted
<1>1. SavedInv => AddedIsTrusted
  BY DEF SavedInv
<1> QED BY <1>1, SavedAlways, PTL

\* What chain_add has accepted is in the file when it returns, unless a save failed.
THEOREM AcceptedPersisted == StoresSpec => []AcceptedIsPersisted
<1>1. SavedInv => AcceptedIsPersisted
  BY DEF SavedInv
<1> QED BY <1>1, SavedAlways, PTL

\* No step takes an authority out of the file, unless a save fails.
THEOREM TrustSurvives == StoresSpec => PersistedTrustSurvives
<1>1. TypeInv /\ SavedInv /\ [StoresNext]_allVars => [SurvivesStep]_<<disk, failed>>
  BY SavedStep
<1> QED BY <1>1, TypesAlways, SavedAlways, PTL DEF StoresSpec, PersistedTrustSurvives, SurvivesStep

-----------------------------------------------------------------------------
(* Versions *)

\* The SQLite store's SELECT and its transaction are not one: only a process that
\* has the database to itself commits against the version it read.
OneProcess == \A p, q \in Procs : p = q

JsonIdle == backend = "json" => \A p \in Procs : step[p] = "idle"

\* The version table is what was accepted, and what a process that is about to
\* commit has read is still in it.
VersionsInv ==
    /\ latest = highest /\ JsonIdle
    /\ \A p \in Procs : step[p] = "checked" =>
          /\ doing[p].version = 0 => read[p] = 0
          /\ doing[p].version # 0 => /\ read[p] = latest[doing[p].signer]
                                     /\ doing[p].version >= read[p]

RollStep ==
    \A m \in Manifests : accepts'[m] > accepts[m] /\ m.version # 0
        => m.version >= highest[m.signer]

\* The JSON store checks and writes a version in one step.
LEMMA JsonVersions ==
    ASSUME TypeInv, VersionsInv, JsonNext PROVE VersionsInv' /\ RollStep
<1>1. /\ UNCHANGED <<backend, step, doing, read>> /\ backend = "json"
      /\ \A p \in Procs : step[p] = "idle"
  BY DEF JsonNext, sqlite, VersionsInv, JsonIdle
<1>2. latest = highest /\ accepts \in [Manifests -> 0 .. MaxAccepts]
  BY DEF VersionsInv, TypeInv, StoresTypeOK, TypeOK
<1> DEFINE Goal == latest' = highest' /\ RollStep
<1>3. ASSUME UNCHANGED <<latest, highest, accepts>> PROVE Goal
  <2>1. latest' = highest'
    BY <1>2, <1>3
  <2>2. \A m \in Manifests : ~ (accepts'[m] > accepts[m])
    BY <1>2, <1>3
  <2> QED BY <2>1, <2>2 DEF RollStep
<1>4. ASSUME NEW t \in Threads, AcceptManifest(t) PROVE Goal
  <2> DEFINE m == pc[t]
  <2>1. m \in Manifests /\ m.signer \in Auths /\ m.version \in Nat
    BY <1>4, ManifestsAssumption DEF AcceptManifest, TypeInv, StoresTypeOK, TypeOK
  <2>2. latest' = highest'
    BY <1>2, <1>4 DEF AcceptManifest
  <2>3. m.version # 0 => m.version >= highest[m.signer]
    <3>1. highest[m.signer] \in Nat
      BY <2>1 DEF TypeInv, StoresTypeOK, TypeOK
    <3> QED BY <1>2, <1>4, <2>1, <3>1 DEF AcceptManifest, Outdated
  <2>4. \A n \in Manifests : accepts'[n] > accepts[n] => n = m
    BY <1>2, <1>4 DEF AcceptManifest
  <2> HIDE DEF m
  <2> QED BY <2>2, <2>3, <2>4 DEF RollStep
<1>5. ASSUME Restart PROVE Goal
  <2>1. latest' = highest'
    BY <1>5 DEF Restart, Forgotten
  <2>2. \A m \in Manifests : ~ (accepts'[m] > accepts[m])
    BY <1>2, <1>5 DEF Restart, Forgotten
  <2> QED BY <2>1, <2>2 DEF RollStep
<1>6. ASSUME NEW a \in Auths, Expire(a) \/ \E k \in Keys : AddAuthority(a, k)
      PROVE  UNCHANGED <<latest, highest, accepts>>
  BY <1>6 DEF Expire, AddAuthority
<1>7. ASSUME NEW t \in Threads, (\E m \in Manifests : VerifyManifest(t, m)) \/ RejectManifest(t)
      PROVE  UNCHANGED <<latest, highest, accepts>>
  BY <1>7 DEF VerifyManifest, RejectManifest, history
<1>8. ASSUME FinishSave \/ \E m \in Manifests : Age(m)
      PROVE  UNCHANGED <<latest, highest, accepts>>
  BY <1>8 DEF FinishSave, Age, history
<1>9. Goal
  <2> HIDE DEF Goal
  <2> QED BY <1>3, <1>4, <1>5, <1>6, <1>7, <1>8 DEF JsonNext, Next
<1> QED BY <1>1, <1>9 DEF VersionsInv, JsonIdle

\* A process of its own commits against the version it read.
LEMMA SqliteVersions ==
    ASSUME OneProcess, TypeInv, VersionsInv, SqliteNext PROVE VersionsInv' /\ RollStep
<1>1. UNCHANGED backend /\ backend = "sqlite" /\ Sqlite!Next
  BY DEF SqliteNext
<1>2. /\ latest = highest /\ accepts \in [Manifests -> 0 .. MaxAccepts]
      /\ step \in [Procs -> Sqlite!Steps] /\ read \in [Procs -> Nat]
      /\ doing \in [Procs -> Manifests \cup {Idle}] /\ highest \in [Auths -> Nat] /\ AtWork
  BY DEF VersionsInv, TypeInv, StoresTypeOK, Sqlite!TypeOK
<1>3. \A p \in Procs : step[p] = "checked" =>
          /\ doing[p].version = 0 => read[p] = 0
          /\ doing[p].version # 0 => /\ read[p] = latest[doing[p].signer]
                                     /\ doing[p].version >= read[p]
  BY DEF VersionsInv
<1> DEFINE
      Same == latest' = latest /\ highest' = highest /\ accepts' = accepts
      Ready(p) == step[p] = "checked" =>
          /\ doing[p].version = 0 => read[p] = 0
          /\ doing[p].version # 0 => /\ read[p] = latest[doing[p].signer]
                                     /\ doing[p].version >= read[p]
      Goal == latest' = highest' /\ RollStep /\ \A p \in Procs : Ready(p)'
<1>4. ASSUME Same PROVE latest' = highest' /\ RollStep
  <2>1. latest' = highest'
    BY <1>2, <1>4
  <2>2. \A m \in Manifests : ~ (accepts'[m] > accepts[m])
    BY <1>2, <1>4
  <2> QED BY <2>1, <2>2 DEF RollStep
<1>5. ASSUME Same, UNCHANGED <<step, doing, read>> PROVE Goal
  BY <1>3, <1>4, <1>5
<1>6. ASSUME NEW p \in Procs, Same, step'[p] # "checked" PROVE Goal
  <2>1. \A q \in Procs : q = p
    BY DEF OneProcess
  <2> QED BY <1>4, <1>6, <2>1
<1>7. ASSUME NEW p \in Procs, Sqlite!CheckVersion(p) PROVE Goal
  <2>1. Same
    BY <1>7 DEF Sqlite!CheckVersion, Sqlite!tables, Sqlite!history
  <2>2. CASE Sqlite!Returns(p)
    <3>1. step'[p] # "checked"
      BY <1>2, <2>2 DEF Sqlite!Returns
    <3> QED BY <1>6, <2>1, <3>1
  <2>3. CASE /\ ~ (doing[p].version # 0 /\ doing[p].version < latest[doing[p].signer])
             /\ read' = [read EXCEPT ![p] = IF doing[p].version # 0
                                            THEN latest[doing[p].signer] ELSE 0]
             /\ UNCHANGED doing
    <3>1. doing[p] \in Manifests /\ doing[p].version \in Nat /\ doing[p].signer \in Auths
      BY <1>2, <1>7, ManifestsAssumption DEF Sqlite!CheckVersion, AtWork
    <3>2. latest[doing[p].signer] \in Nat
      BY <1>2, <3>1
    <3>3. read'[p] = IF doing[p].version # 0 THEN latest[doing[p].signer] ELSE 0
      BY <1>2, <2>3
    <3>4. Ready(p)'
      BY <2>1, <2>3, <3>1, <3>2, <3>3
    <3>5. \A q \in Procs : q = p
      BY DEF OneProcess
    <3> QED BY <1>4, <2>1, <3>4, <3>5
  <2> QED BY <1>7, <2>2, <2>3 DEF Sqlite!CheckVersion
<1>8. ASSUME NEW p \in Procs, Sqlite!Commit(p) PROVE Goal
  <2> DEFINE m == doing[p]
  <2>1. m \in Manifests /\ m.version \in Nat /\ m.signer \in Auths /\ step[p] = "checked"
    BY <1>2, <1>8, ManifestsAssumption DEF Sqlite!Commit, AtWork
  <2>2. highest[m.signer] \in Nat
    BY <1>2, <2>1
  <2>3. /\ m.version = 0 => read[p] = 0
        /\ m.version # 0 => read[p] = highest[m.signer] /\ m.version >= highest[m.signer]
    BY <1>2, <1>3, <2>1
  <2>4. m.version > read[p] <=> m.version > highest[m.signer]
    BY <2>1, <2>2, <2>3
  <2>5. /\ latest' = (IF m.version > read[p] THEN [latest EXCEPT ![m.signer] = m.version] ELSE latest)
        /\ highest' = (IF m.version > highest[m.signer]
                       THEN [highest EXCEPT ![m.signer] = m.version] ELSE highest)
        /\ accepts' = [accepts EXCEPT ![m] = @ + 1]
    BY <1>8 DEF Sqlite!Commit
  <2>6. step'[p] = "idle"
    BY <1>2, <1>8 DEF Sqlite!Commit, Sqlite!Returns
  <2>7. \A q \in Procs : q = p
    BY DEF OneProcess
  <2> HIDE DEF m
  <2>8. latest' = highest'
    BY <1>2, <2>4, <2>5
  <2>9. \A n \in Manifests : accepts'[n] > accepts[n] => n = m
    BY <1>2, <2>5
  <2>10. RollStep
    BY <2>3, <2>9 DEF RollStep
  <2>11. \A q \in Procs : Ready(q)'
    BY <2>6, <2>7
  <2> QED BY <2>8, <2>10, <2>11
<1>9. ASSUME NEW p \in Procs,
             (\E m \in Manifests : Sqlite!VerifyManifest(p, m)) \/ Sqlite!CheckNonce(p)
                \/ Sqlite!Restart(p)
      PROVE  Same /\ step'[p] # "checked"
  <2>1. ASSUME NEW m \in Manifests, Sqlite!VerifyManifest(p, m)
        PROVE  Same /\ step'[p] # "checked"
    BY <1>2, <2>1 DEF Sqlite!VerifyManifest, Sqlite!tables, Sqlite!history
  <2>2. ASSUME Sqlite!CheckNonce(p) PROVE Same /\ step'[p] # "checked"
    BY <1>2, <2>2 DEF Sqlite!CheckNonce, Sqlite!Returns, Sqlite!tables, Sqlite!history
  <2>3. ASSUME Sqlite!Restart(p) PROVE Same /\ step'[p] # "checked"
    BY <1>2, <2>3 DEF Sqlite!Restart, Sqlite!Returns, Sqlite!tables, Sqlite!history
  <2> QED BY <1>9, <2>1, <2>2, <2>3
<1>10. ASSUME \/ \E p \in Procs, a \in Auths, k \in Keys : Sqlite!AddAuthority(p, a, k)
              \/ \E m \in Manifests : Sqlite!Age(m)
              \/ \E a \in Auths : Sqlite!Expire(a)
       PROVE  Same /\ UNCHANGED <<step, doing, read>>
  BY <1>10 DEF Sqlite!AddAuthority, Sqlite!Age, Sqlite!Expire, Sqlite!tables, Sqlite!history
<1>11. Goal
  <2> HIDE DEF Goal, Same
  <2>1. ASSUME NEW p \in Procs,
               (\E m \in Manifests : Sqlite!VerifyManifest(p, m)) \/ Sqlite!CheckNonce(p)
                  \/ Sqlite!Restart(p)
        PROVE  Goal
    BY <1>6, <1>9, <2>1
  <2> QED BY <1>1, <1>5, <1>7, <1>8, <1>10, <2>1 DEF Sqlite!Next
<1> QED BY <1>1, <1>11 DEF VersionsInv, JsonIdle

\* No step accepts a version below the highest.
LEMMA VersionsStep ==
    ASSUME OneProcess, TypeInv, VersionsInv, [StoresNext]_allVars
    PROVE  VersionsInv' /\ [RollStep]_vars
<1>1. CASE JsonNext
  BY <1>1, JsonVersions
<1>2. CASE SqliteNext
  BY <1>2, SqliteVersions
<1>3. CASE UNCHANGED allVars
  BY <1>3 DEF allVars, vars, sqlite, VersionsInv, JsonIdle
<1> QED BY <1>1, <1>2, <1>3 DEF StoresNext

\* Where one process has the store to itself, it never accepts a version below the
\* highest it has accepted from the signer (chain_add's version check).
THEOREM VersionsRise ==
    ASSUME OneProcess
    PROVE  StoresSpec => NoRollback
<1>1. StoresInit => VersionsInv
  BY DEF StoresInit, Init, Sqlite!Init, VersionsInv, JsonIdle
<1>2. TypeInv /\ VersionsInv /\ [StoresNext]_allVars => VersionsInv' /\ [RollStep]_vars
  BY VersionsStep
<1>3. StoresSpec => []VersionsInv
  BY <1>1, <1>2, TypesAlways, PTL DEF StoresSpec
<1> QED BY <1>2, <1>3, TypesAlways, PTL DEF StoresSpec, NoRollback, RollStep

-----------------------------------------------------------------------------
(* Nonces *)

Nonces == {m.nonce : m \in Manifests}

\* The JSON store empties its nonces at a limit; the SQLite store deletes those of
\* manifests that are too old to be accepted again.
NoncesFit == IsFiniteSet(Nonces) /\ MaxNonces \in Nat /\ Cardinality(Nonces) <= MaxNonces
NoncesAreOwn ==
    \A m, n \in Manifests : m.nonce # NoNonce /\ n.nonce = m.nonce => n = m
NoncesAreDated == \A m \in Manifests : m.nonce # NoNonce => m.dated

\* An accepted manifest has left its nonce, or is too old; who is past the check of
\* a nonce has a manifest that was never accepted.
Guarded(m) ==
    /\ accepts[m] <= 1
    /\ accepts[m] > 0 => m.nonce \in seen \/ (backend = "sqlite" /\ age[m] = "old")
    /\ \A p \in Procs : doing[p] = m =>
          /\ step[p] = "verified" /\ accepts[m] > 0 => m.nonce \in seen
          /\ step[p] \in {"new", "checked"} => accepts[m] = 0

NoncesInv == JsonIdle /\ \A m \in Manifests : m.nonce # NoNonce => Guarded(m)

\* A nonce the JSON store has remembered stays, as long as the nonces fit.
LEMMA JsonNonces ==
    ASSUME NoncesFit, TypeInv, NoncesInv, JsonNext PROVE NoncesInv'
<1>1. /\ UNCHANGED <<backend, step, doing>> /\ backend = "json"
      /\ \A p \in Procs : step[p] = "idle"
  BY DEF JsonNext, sqlite, NoncesInv, JsonIdle
<1>2. /\ accepts \in [Manifests -> 0 .. MaxAccepts] /\ seen \subseteq Nonces
  BY DEF TypeInv, StoresTypeOK, TypeOK, Nonces
<1> DEFINE Kept(m) == accepts'[m] <= 1 /\ (accepts'[m] > 0 => m.nonce \in seen')
<1>3. \A m \in Manifests :
         m.nonce # NoNonce => accepts[m] <= 1 /\ (accepts[m] > 0 => m.nonce \in seen)
  BY <1>1 DEF NoncesInv, Guarded
<1>4. SUFFICES ASSUME NEW m \in Manifests, m.nonce # NoNonce PROVE Kept(m)
  BY <1>1 DEF NoncesInv, JsonIdle, Guarded
<1>5. ASSUME UNCHANGED <<seen, accepts>> PROVE Kept(m)
  BY <1>3, <1>4, <1>5
<1>6. ASSUME NEW t \in Threads, AcceptManifest(t) PROVE Kept(m)
  <2>1. pc[t] \in Manifests
    BY <1>6 DEF AcceptManifest, TypeInv, StoresTypeOK, TypeOK
  <2>2. seen \subseteq seen' /\ (pc[t].nonce # NoNonce => pc[t].nonce \in seen')
    <3>1. CASE pc[t].nonce = NoNonce
      BY <1>6, <3>1 DEF AcceptManifest, Remember
    <3>2. CASE pc[t].nonce # NoNonce
      <4>1. seen \cup {pc[t].nonce} \subseteq Nonces
        BY <1>2, <2>1 DEF Nonces
      <4>2. Cardinality(seen \cup {pc[t].nonce}) <= Cardinality(Nonces)
            /\ Cardinality(seen \cup {pc[t].nonce}) \in Nat /\ Cardinality(Nonces) \in Nat
        BY <4>1, FS_Subset, FS_CardinalityType DEF NoncesFit
      <4>3. ~ (Cardinality(seen \cup {pc[t].nonce}) > MaxNonces)
        BY <4>2 DEF NoncesFit
      <4> QED BY <1>6, <3>2, <4>3 DEF AcceptManifest, Remember
    <3> QED BY <3>1, <3>2
  <2>3. accepts' = [accepts EXCEPT ![pc[t]] = @ + 1]
    BY <1>6 DEF AcceptManifest
  <2>4. CASE m = pc[t]
    <3>1. m.nonce \notin seen
      BY <1>4, <1>6, <2>4 DEF AcceptManifest, Replayed
    <3>2. accepts[m] \in Nat /\ ~ (accepts[m] > 0)
      BY <1>2, <1>3, <1>4, <3>1, MaxAcceptsAssumption
    <3> QED BY <1>2, <1>4, <2>2, <2>3, <2>4, <3>2
  <2>5. CASE m # pc[t]
    <3>1. accepts'[m] = accepts[m]
      BY <1>2, <2>3, <2>5
    <3> QED BY <1>3, <1>4, <2>2, <3>1
  <2> QED BY <2>4, <2>5
<1>7. ASSUME Restart PROVE Kept(m)
  BY <1>7 DEF Restart, Forgotten
<1>8. ASSUME NEW a \in Auths, Expire(a) \/ \E k \in Keys : AddAuthority(a, k)
      PROVE  UNCHANGED <<seen, accepts>>
  BY <1>8 DEF Expire, AddAuthority
<1>9. ASSUME NEW t \in Threads, (\E n \in Manifests : VerifyManifest(t, n)) \/ RejectManifest(t)
      PROVE  UNCHANGED <<seen, accepts>>
  BY <1>9 DEF VerifyManifest, RejectManifest, history
<1>10. ASSUME FinishSave \/ \E n \in Manifests : Age(n) PROVE UNCHANGED <<seen, accepts>>
  BY <1>10 DEF FinishSave, Age, history
<1> HIDE DEF Kept
<1> QED BY <1>5, <1>6, <1>7, <1>8, <1>9, <1>10 DEF JsonNext, Next

\* The SQLite store forgets a nonce when its manifest is too old to be verified.
LEMMA SqliteNonces ==
    ASSUME OneProcess, NoncesAreOwn, NoncesAreDated, TypeInv, NoncesInv, SqliteNext
    PROVE  NoncesInv'
<1>1. UNCHANGED backend /\ backend = "sqlite" /\ Sqlite!Next
  BY DEF SqliteNext
<1>2. /\ accepts \in [Manifests -> 0 .. MaxAccepts] /\ age \in [Manifests -> Sqlite!Ages]
      /\ step \in [Procs -> Sqlite!Steps]
      /\ doing \in [Procs -> Manifests \cup {Idle}] /\ AtWork
  BY DEF TypeInv, StoresTypeOK, Sqlite!TypeOK
<1>3. SUFFICES ASSUME NEW m \in Manifests, m.nonce # NoNonce PROVE Guarded(m)'
  BY <1>1 DEF NoncesInv, JsonIdle
<1>4. Guarded(m) /\ m.dated /\ accepts[m] \in Nat
  BY <1>2, <1>3, MaxAcceptsAssumption DEF NoncesInv, NoncesAreDated
<1>5. \A p, q \in Procs : p = q
  BY DEF OneProcess
<1>6. ASSUME UNCHANGED <<seen, accepts, age, doing, step>> PROVE Guarded(m)'
  BY <1>1, <1>4, <1>6 DEF Guarded
<1>7. ASSUME NEW p \in Procs, UNCHANGED <<seen, accepts, age>>,
             step'[p] = "idle" \/ (doing'[p] = doing[p] /\ step[p] = "new" /\ step'[p] = "checked")
      PROVE  Guarded(m)'
  BY <1>1, <1>4, <1>5, <1>7 DEF Guarded
<1>8. ASSUME NEW p \in Procs, NEW n \in Manifests, Sqlite!VerifyManifest(p, n)
      PROVE  Guarded(m)'
  <2>1. /\ UNCHANGED <<seen, accepts, age>> /\ doing'[p] = n /\ step'[p] = "verified"
        /\ n.dated => age[n] = "fresh"
    BY <1>2, <1>8 DEF Sqlite!VerifyManifest, Sqlite!Verified, Sqlite!tables, Sqlite!history
  <2>2. n = m /\ accepts[m] > 0 => m.nonce \in seen
    BY <1>4, <2>1 DEF Guarded
  <2>3. \A q \in Procs : q = p
    BY <1>5
  <2> QED BY <1>1, <1>4, <2>1, <2>2, <2>3 DEF Guarded
<1>9. ASSUME NEW p \in Procs, Sqlite!CheckNonce(p) PROVE Guarded(m)'
  <2>1. UNCHANGED <<seen, accepts, age>> /\ step[p] = "verified"
    BY <1>9 DEF Sqlite!CheckNonce, Sqlite!tables, Sqlite!history
  <2>2. CASE Sqlite!Returns(p)
    BY <1>2, <1>7, <2>1, <2>2 DEF Sqlite!Returns
  <2>3. CASE /\ ~ (doing[p].nonce # NoNonce /\ doing[p].nonce \in seen)
             /\ step' = [step EXCEPT ![p] = "new"] /\ UNCHANGED doing
    <3>1. doing[p] = m => ~ (accepts[m] > 0)
      BY <1>3, <1>4, <2>1, <2>3 DEF Guarded
    <3>2. step'[p] = "new" /\ \A q \in Procs : q = p
      BY <1>2, <1>5, <2>3
    <3>3. doing[p] = m => accepts[m] = 0
      BY <1>4, <3>1
    <3> QED BY <1>1, <1>4, <2>1, <2>3, <3>2, <3>3 DEF Guarded
  <2> QED BY <1>9, <2>2, <2>3 DEF Sqlite!CheckNonce
<1>10. ASSUME NEW p \in Procs, Sqlite!CheckVersion(p) PROVE Guarded(m)'
  <2>1. UNCHANGED <<seen, accepts, age>> /\ step[p] = "new"
    BY <1>10 DEF Sqlite!CheckVersion, Sqlite!tables, Sqlite!history
  <2>2. step'[p] = "idle" \/ (doing'[p] = doing[p] /\ step'[p] = "checked")
    BY <1>2, <1>10 DEF Sqlite!CheckVersion, Sqlite!Returns
  <2> QED BY <1>7, <2>1, <2>2
<1>11. ASSUME NEW p \in Procs, Sqlite!Commit(p) PROVE Guarded(m)'
  <2> DEFINE n == doing[p]
  <2>1. n \in Manifests /\ step[p] = "checked"
    BY <1>2, <1>11 DEF Sqlite!Commit, AtWork
  <2>2. /\ accepts' = [accepts EXCEPT ![n] = @ + 1] /\ UNCHANGED age
        /\ n.nonce = NoNonce => seen' = seen
        /\ n.nonce # NoNonce =>
              seen' = {x \in seen \cup {n.nonce} : x = n.nonce \/ Sqlite!Kept(x)}
    BY <1>11 DEF Sqlite!Commit
  <2>3. step'[p] = "idle" /\ \A q \in Procs : q = p
    BY <1>2, <1>5, <1>11 DEF Sqlite!Commit, Sqlite!Returns
  <2>4. n = m => accepts[m] = 0
    BY <1>4, <2>1 DEF Guarded
  <2> HIDE DEF n
  <2>5. CASE n = m
    <3>1. accepts'[m] = 1
      BY <1>2, <1>3, <2>2, <2>4, <2>5
    <3>2. m.nonce \in seen'
      BY <1>3, <2>2, <2>5
    <3> QED BY <1>1, <2>3, <3>1, <3>2 DEF Guarded
  <2>6. CASE n # m
    <3>1. accepts'[m] = accepts[m]
      BY <1>2, <2>1, <2>2, <2>6
    <3>2. m.nonce \in seen /\ age[m] # "old" => m.nonce \in seen'
      <4>1. age[m] # "old" => Sqlite!Kept(m.nonce)
        BY <1>3 DEF Sqlite!Kept, NoncesAreOwn
      <4> QED BY <2>2, <4>1
    <3>3. accepts'[m] > 0 => m.nonce \in seen' \/ (backend' = "sqlite" /\ age'[m] = "old")
      BY <1>1, <1>4, <2>2, <3>1, <3>2 DEF Guarded
    <3>4. accepts'[m] <= 1
      BY <1>4, <3>1 DEF Guarded
    <3> QED BY <2>3, <3>3, <3>4 DEF Guarded
  <2> QED BY <2>5, <2>6
<1>12. ASSUME NEW p \in Procs, Sqlite!Restart(p) PROVE Guarded(m)'
  BY <1>2, <1>7, <1>12 DEF Sqlite!Restart, Sqlite!Returns, Sqlite!tables, Sqlite!history
<1>13. ASSUME NEW n \in Manifests, Sqlite!Age(n) PROVE Guarded(m)'
  <2>1. UNCHANGED <<seen, accepts, doing, step>> /\ (age[m] = "old" => age'[m] = "old")
    BY <1>2, <1>13 DEF Sqlite!Age, Sqlite!tables, Sqlite!history
  <2> QED BY <1>1, <1>4, <2>1 DEF Guarded
<1>14. ASSUME \/ \E p \in Procs, a \in Auths, k \in Keys : Sqlite!AddAuthority(p, a, k)
              \/ \E a \in Auths : Sqlite!Expire(a)
       PROVE  UNCHANGED <<seen, accepts, age, doing, step>>
  BY <1>14 DEF Sqlite!AddAuthority, Sqlite!Expire
<1> QED BY <1>1, <1>6, <1>8, <1>9, <1>10, <1>11, <1>12, <1>13, <1>14 DEF Sqlite!Next

\* No step lets a manifest in twice.
LEMMA NoncesStep ==
    ASSUME OneProcess, NoncesFit, NoncesAreOwn, NoncesAreDated,
           TypeInv, NoncesInv, [StoresNext]_allVars
    PROVE  NoncesInv'
<1>1. CASE JsonNext
  BY <1>1, JsonNonces
<1>2. CASE SqliteNext
  BY <1>2, SqliteNonces
<1>3. CASE UNCHANGED allVars
  BY <1>3 DEF allVars, vars, sqlite, NoncesInv, JsonIdle, Guarded
<1> QED BY <1>1, <1>2, <1>3 DEF StoresNext

\* A manifest with a nonce is accepted once, where one process has the store, the
\* nonces of the JSON store stay within its limit, and a manifest with a nonce has a
\* date and a nonce of its own (chain_add's nonce check).
THEOREM OnceAccepted ==
    ASSUME OneProcess, NoncesFit, NoncesAreOwn, NoncesAreDated
    PROVE  StoresSpec => []AcceptedOnce
<1>1. StoresInit => NoncesInv
  BY DEF StoresInit, Init, Sqlite!Init, NoncesInv, JsonIdle, Guarded
<1>2. TypeInv /\ NoncesInv /\ [StoresNext]_allVars => NoncesInv'
  BY NoncesStep
<1>3. NoncesInv => AcceptedOnce
  BY DEF NoncesInv, Guarded, AcceptedOnce
<1> QED BY <1>1, <1>2, <1>3, TypesAlways, PTL DEF StoresSpec
=============================================================================

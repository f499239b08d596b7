-------------------------- MODULE CredentialsProofs --------------------------
(***************************************************************************)
(* Proofs about Credentials, for any number of processes, keys and mishaps:   *)
(* as long as nothing disturbs them, processes share one authority and one CA, *)
(* but for what they could not write, and its key is for ever; and always the  *)
(* card it signs is accepted by all who hold its key exactly as long as it says *)
(* what was signed and is in force.                                            *)
(*                                                                          *)
(* The invariant of the files says what they contain at each step of whoever   *)
(* creates them, that there is one such process at most, and that nobody holds *)
(* what is still to be written.  That of the card says that what the authority *)
(* signed can be verified and that the card on its way carries its signature;   *)
(* it rests on lemmas about sorting, the Merkle tree, the mask and sign_mcc.    *)
(***************************************************************************)
EXTENDS Credentials, TLAPS, FiniteSetTheorems, WellFoundedInduction

FileTypes ==
    /\ keyFile \in Files /\ caCert \in Files /\ caKey \in Files
    /\ proc \in [Procs -> [at : Steps, key : Files, cert : Files, caKey : Files, unsaved : Unsaved]]
    /\ made \in 0 .. MaxKeys /\ disturbed \in BOOLEAN

\* A process has a key from its first step on, read or made.
KeyInHand == \A p \in Procs : proc[p].at # "start" => proc[p].key \in Keys

OneWrites ==
    \A p, q \in Procs : proc[p].at \in Writing /\ proc[q].at \in Writing => p = q

\* The authority's key: held once it is in the file, and in no file while it is made.
KeyHeld ==
    \A p \in Procs : HasAuthority(p) /\ "key" \notin proc[p].unsaved =>
        proc[p].key = keyFile /\ keyFile \in Keys
KeyComing ==
    \A p \in Procs : proc[p].at \in {"makeKey", "writeKey"} =>
        keyFile \notin Keys /\ proc[p].key \in Keys

\* The CA: read from two files that agree, of which the key is written last.
CaHeld ==
    \A p \in Procs : "ca" \notin proc[p].unsaved =>
        /\ proc[p].at \in {"readCa", "ready"} =>
              proc[p].cert = caCert /\ caCert = caKey /\ caKey \in Keys
        /\ proc[p].at = "ready" => proc[p].caKey = caKey
CaComing ==
    \A p \in Procs :
        /\ proc[p].at \in {"makeCa", "writeCert", "openCaKey", "writeCaKey"} =>
              proc[p].cert = proc[p].caKey /\ proc[p].cert \in Keys
        /\ proc[p].at \in {"makeCa", "writeCert", "openCaKey"} => caKey = Absent
        /\ proc[p].at \in {"openCaKey", "writeCaKey"} => caCert = proc[p].cert
        /\ proc[p].at = "writeCaKey" => caKey = Empty
CaWhole ==
    \/ caKey = Absent
    \/ caKey = caCert /\ caKey \in Keys
    \/ \E p \in Procs : proc[p].at = "writeCaKey"

Calm == OneWrites /\ KeyHeld /\ KeyComing /\ CaHeld /\ CaComing /\ CaWhole

Inv == FileTypes /\ KeyInHand /\ (~ disturbed => Calm)

\* A key that is there is not replaced.
KeyStays == ~ disturbed' /\ keyFile \in Keys => keyFile' = keyFile

Goal == Inv' /\ KeyStays

\* The files and keys are told apart.
LEMMA FilesDiffer ==
    Absent # Empty /\ Absent \notin Keys /\ Empty \notin Keys
    /\ Absent \in Files /\ Empty \in Files
BY FilesAssumption DEF Keys, Files

\* A new key.
LEMMA MadeKey == ASSUME FileTypes, made < MaxKeys PROVE made + 1 \in Keys /\ made + 1 \in 0 .. MaxKeys
<1>1. MaxKeys \in Nat /\ made \in 0 .. MaxKeys
  BY BoundsAssumption DEF FileTypes
<1> QED BY <1>1 DEF Keys

\* What a step of one process leaves of the others.
LEMMA StepOf ==
    ASSUME FileTypes, NEW p \in Procs, NEW from, NEW next, Step(p, from, next)
    PROVE  proc[p].at = from /\ proc'[p] = next /\ \A q \in Procs \ {p} : proc'[q] = proc[q]
BY DEF FileTypes, Step

\* Steps that touch neither the files nor the processes.
LEMMA CardSteps ==
    ASSUME Inv, UNCHANGED <<files, proc, made, disturbed>> PROVE Goal
BY DEF Inv, FileTypes, KeyInHand, Calm, OneWrites, KeyHeld, HasAuthority, KeyComing, CaHeld, CaComing, CaWhole,
       files, Goal, KeyStays

\* Who reads the key holds what is in the file.
LEMMA LoadKeyStep == ASSUME Inv, NEW p \in Procs, LoadKey(p) PROVE Goal
<1>1. /\ proc[p].at = "start" /\ proc'[p].at = "authority" /\ proc'[p].key = keyFile
      /\ proc'[p].cert = proc[p].cert /\ proc'[p].caKey = proc[p].caKey
      /\ proc'[p].unsaved = proc[p].unsaved
      /\ \A q \in Procs \ {p} : proc'[q] = proc[q]
  BY StepOf DEF LoadKey, Inv, Step, FileTypes
<1>2. /\ keyFile' = keyFile /\ caCert' = caCert /\ caKey' = caKey
      /\ keyFile \in Keys
      /\ made' = made
      /\ disturbed' \in BOOLEAN /\ (~ disturbed' => ~ disturbed)
  BY DEF LoadKey, files, Inv, FileTypes
<1>3. FileTypes'
  BY <1>1, <1>2, FilesDiffer DEF LoadKey, Step, Inv, FileTypes, Steps, Files
<1>4. ASSUME ~ disturbed' PROVE Calm' /\ KeyStays
  <2>1. Calm
    BY <1>2, <1>4 DEF Inv
  <2>2. OneWrites'
    BY <1>1, <1>2, <1>4, <2>1 DEF Calm, OneWrites, Writing
  <2>3. KeyHeld' /\ KeyComing'
    BY <1>1, <1>2, <1>4, <2>1, FilesDiffer DEF Calm, OneWrites, Writing, KeyHeld, KeyComing, HasAuthority, Inv
  <2>4. CaHeld'
    BY <1>1, <1>2, <1>4, <2>1, FilesDiffer DEF Calm, OneWrites, Writing, CaHeld, CaComing, CaWhole
  <2>5. CaComing'
    BY <1>1, <1>2, <1>4, <2>1, FilesDiffer DEF Calm, OneWrites, Writing, CaHeld, CaComing, CaWhole, Inv
  <2>6. CaWhole'
    BY <1>1, <1>2, <1>4, <2>1, FilesDiffer DEF Calm, CaHeld, CaComing, CaWhole
  <2>7. KeyStays
    BY <1>1, <1>2, <2>1 DEF Calm, KeyComing, KeyStays
  <2> QED BY <2>2, <2>3, <2>4, <2>5, <2>6, <2>7 DEF Calm
<1>5. KeyInHand'
  BY <1>1, <1>2, FilesDiffer DEF Inv, KeyInHand
<1> QED BY <1>3, <1>4, <1>5 DEF Goal, Inv, KeyStays

\* A key is made where there is none, so that nobody has an authority it has saved.
LEMMA MakeKeyStep == ASSUME Inv, NEW p \in Procs, MakeKey(p) PROVE Goal
<1>1. /\ proc[p].at = "start" /\ proc'[p].at = "makeKey" /\ proc'[p].key = made + 1
      /\ proc'[p].cert = proc[p].cert /\ proc'[p].caKey = proc[p].caKey
      /\ proc'[p].unsaved = proc[p].unsaved
      /\ \A q \in Procs \ {p} : proc'[q] = proc[q]
  BY MadeKey, StepOf DEF MakeKey, NewKey, Inv, Step, FileTypes
<1>2. /\ keyFile' = keyFile /\ caCert' = caCert /\ caKey' = caKey
      /\ keyFile \notin Keys
      /\ made' = made + 1 /\ made < MaxKeys
      /\ disturbed' \in BOOLEAN /\ (~ disturbed' => ~ disturbed)
      /\ ~ disturbed' => \A q \in Procs \ {p} : proc[q].at \notin Writing
  BY DEF MakeKey, NewKey, Overlaps, files, Inv, FileTypes
<1>3. FileTypes'
  BY <1>1, <1>2, MadeKey, FilesDiffer DEF MakeKey, NewKey, Step, Inv, FileTypes, Steps, Files
<1>4. ASSUME ~ disturbed' PROVE Calm' /\ KeyStays
  <2>1. Calm
    BY <1>2, <1>4 DEF Inv
  <2>2. OneWrites'
    BY <1>1, <1>2, <1>4, <2>1 DEF Calm, OneWrites, Writing
  <2>3. KeyHeld' /\ KeyComing'
    BY <1>1, <1>2, <1>4, <2>1, FilesDiffer, MadeKey DEF Calm, OneWrites, Writing, KeyHeld, KeyComing, HasAuthority, Inv
  <2>4. CaHeld'
    BY <1>1, <1>2, <1>4, <2>1, FilesDiffer DEF Calm, OneWrites, Writing, CaHeld, CaComing, CaWhole
  <2>5. CaComing'
    BY <1>1, <1>2, <1>4, <2>1, FilesDiffer, MadeKey DEF Calm, OneWrites, Writing, CaHeld, CaComing, CaWhole, Inv
  <2>6. CaWhole'
    BY <1>1, <1>2, <1>4, <2>1, FilesDiffer DEF Calm, CaHeld, CaComing, CaWhole
  <2>7. KeyStays
    BY <1>1, <1>2, <2>1 DEF Calm, KeyComing, KeyStays
  <2> QED BY <2>2, <2>3, <2>4, <2>5, <2>6, <2>7 DEF Calm
<1>5. KeyInHand'
  BY <1>1, <1>2, FilesDiffer, MadeKey DEF Inv, KeyInHand
<1> QED BY <1>3, <1>4, <1>5 DEF Goal, Inv, KeyStays

\* Only who makes a key has its file open, and the file had no key.
LEMMA OpenKeyStep == ASSUME Inv, NEW p \in Procs, OpenKey(p) PROVE Goal
<1>1. /\ proc[p].at = "makeKey" /\ proc'[p].at = "writeKey" /\ proc'[p].key = proc[p].key
      /\ proc'[p].cert = proc[p].cert /\ proc'[p].caKey = proc[p].caKey
      /\ proc'[p].unsaved = proc[p].unsaved
      /\ \A q \in Procs \ {p} : proc'[q] = proc[q]
  BY StepOf DEF OpenKey, Inv, Step, FileTypes
<1>2. /\ keyFile' = Empty /\ caCert' = caCert /\ caKey' = caKey
      /\ TRUE
      /\ made' = made
      /\ disturbed' \in BOOLEAN /\ (~ disturbed' => ~ disturbed)
  BY DEF OpenKey, files, Inv, FileTypes
<1>3. FileTypes'
  BY <1>1, <1>2, FilesDiffer DEF OpenKey, Step, Inv, FileTypes, Steps, Files
<1>4. ASSUME ~ disturbed' PROVE Calm' /\ KeyStays
  <2>1. Calm
    BY <1>2, <1>4 DEF Inv
  <2>2. OneWrites'
    BY <1>1, <1>2, <1>4, <2>1 DEF Calm, OneWrites, Writing
  <2>3. KeyHeld' /\ KeyComing'
    BY <1>1, <1>2, <1>4, <2>1, FilesDiffer DEF Calm, OneWrites, Writing, KeyHeld, KeyComing, HasAuthority, Inv
  <2>4. CaHeld'
    BY <1>1, <1>2, <1>4, <2>1, FilesDiffer DEF Calm, OneWrites, Writing, CaHeld, CaComing, CaWhole
  <2>5. CaComing'
    BY <1>1, <1>2, <1>4, <2>1, FilesDiffer DEF Calm, OneWrites, Writing, CaHeld, CaComing, CaWhole, Inv
  <2>6. CaWhole'
    BY <1>1, <1>2, <1>4, <2>1, FilesDiffer DEF Calm, CaHeld, CaComing, CaWhole
  <2>7. KeyStays
    BY <1>1, <1>2, <2>1 DEF Calm, KeyComing, KeyStays
  <2> QED BY <2>2, <2>3, <2>4, <2>5, <2>6, <2>7 DEF Calm
<1>5. KeyInHand'
  BY <1>1, <1>2, FilesDiffer DEF Inv, KeyInHand
<1> QED BY <1>3, <1>4, <1>5 DEF Goal, Inv, KeyStays

\* The key comes into the file, and nobody had another one.
LEMMA WriteKeyStep == ASSUME Inv, NEW p \in Procs, WriteKey(p) PROVE Goal
<1>1. /\ proc[p].at = "writeKey" /\ proc'[p].at = "authority" /\ proc'[p].key = proc[p].key
      /\ proc'[p].cert = proc[p].cert /\ proc'[p].caKey = proc[p].caKey
      /\ proc'[p].unsaved = proc[p].unsaved
      /\ \A q \in Procs \ {p} : proc'[q] = proc[q]
  BY StepOf DEF WriteKey, Inv, Step, FileTypes
<1>2. /\ keyFile' = proc[p].key /\ caCert' = caCert /\ caKey' = caKey
      /\ TRUE
      /\ made' = made
      /\ disturbed' \in BOOLEAN /\ (~ disturbed' => ~ disturbed)
  BY DEF WriteKey, files, Inv, FileTypes
<1>3. FileTypes'
  BY <1>1, <1>2, FilesDiffer DEF WriteKey, Step, Inv, FileTypes, Steps, Files
<1>4. ASSUME ~ disturbed' PROVE Calm' /\ KeyStays
  <2>1. Calm
    BY <1>2, <1>4 DEF Inv
  <2>2. OneWrites'
    BY <1>1, <1>2, <1>4, <2>1 DEF Calm, OneWrites, Writing
  <2>3. KeyHeld' /\ KeyComing'
    BY <1>1, <1>2, <1>4, <2>1, FilesDiffer DEF Calm, OneWrites, Writing, KeyHeld, KeyComing, HasAuthority, Inv
  <2>4. CaHeld'
    BY <1>1, <1>2, <1>4, <2>1, FilesDiffer DEF Calm, OneWrites, Writing, CaHeld, CaComing, CaWhole
  <2>5. CaComing'
    BY <1>1, <1>2, <1>4, <2>1, FilesDiffer DEF Calm, OneWrites, Writing, CaHeld, CaComing, CaWhole, Inv
  <2>6. CaWhole'
    BY <1>1, <1>2, <1>4, <2>1, FilesDiffer DEF Calm, CaHeld, CaComing, CaWhole
  <2>7. KeyStays
    BY <1>1, <1>2, <2>1 DEF Calm, KeyComing, KeyStays
  <2> QED BY <2>2, <2>3, <2>4, <2>5, <2>6, <2>7 DEF Calm
<1>5. KeyInHand'
  BY <1>1, <1>2, FilesDiffer DEF Inv, KeyInHand
<1> QED BY <1>3, <1>4, <1>5 DEF Goal, Inv, KeyStays

\* Beside nobody who writes, two files that are there are whole and agree.
LEMMA ReadCaCertStep == ASSUME Inv, NEW p \in Procs, ReadCaCert(p) PROVE Goal
<1>1. /\ proc[p].at = "authority" /\ proc'[p].at = "readCa" /\ proc'[p].key = proc[p].key
      /\ proc'[p].cert = caCert /\ proc'[p].caKey = proc[p].caKey
      /\ proc'[p].unsaved = proc[p].unsaved
      /\ \A q \in Procs \ {p} : proc'[q] = proc[q]
  BY StepOf DEF ReadCaCert, Inv, Step, FileTypes
<1>2. /\ keyFile' = keyFile /\ caCert' = caCert /\ caKey' = caKey
      /\ caCert # Absent /\ caKey # Absent
      /\ made' = made
      /\ disturbed' \in BOOLEAN /\ (~ disturbed' => ~ disturbed)
      /\ ~ disturbed' => \A q \in Procs \ {p} : proc[q].at \notin Writing
  BY DEF ReadCaCert, Overlaps, files, Inv, FileTypes
<1>3. FileTypes'
  BY <1>1, <1>2, FilesDiffer DEF ReadCaCert, Step, Inv, FileTypes, Steps, Files
<1>4. ASSUME ~ disturbed' PROVE Calm' /\ KeyStays
  <2>1. Calm
    BY <1>2, <1>4 DEF Inv
  <2>2. OneWrites'
    BY <1>1, <1>2, <1>4, <2>1 DEF Calm, OneWrites, Writing
  <2>3. KeyHeld' /\ KeyComing'
    BY <1>1, <1>2, <1>4, <2>1, FilesDiffer DEF Calm, OneWrites, Writing, KeyHeld, KeyComing, HasAuthority, Inv
  <2>4. CaHeld'
    BY <1>1, <1>2, <1>4, <2>1, FilesDiffer DEF Calm, OneWrites, Writing, CaHeld, CaComing, CaWhole
  <2>5. CaComing'
    BY <1>1, <1>2, <1>4, <2>1, FilesDiffer DEF Calm, OneWrites, Writing, CaHeld, CaComing, CaWhole, Inv
  <2>6. CaWhole'
    BY <1>1, <1>2, <1>4, <2>1, FilesDiffer DEF Calm, CaHeld, CaComing, CaWhole
  <2>7. KeyStays
    BY <1>1, <1>2, <2>1 DEF Calm, KeyComing, KeyStays
  <2> QED BY <2>2, <2>3, <2>4, <2>5, <2>6, <2>7 DEF Calm
<1>5. KeyInHand'
  BY <1>1, <1>2, FilesDiffer DEF Inv, KeyInHand
<1> QED BY <1>3, <1>4, <1>5 DEF Goal, Inv, KeyStays

\* Nobody has replaced the certificate since it was read.
LEMMA ReadCaKeyStep == ASSUME Inv, NEW p \in Procs, ReadCaKey(p) PROVE Goal
<1>1. /\ proc[p].at = "readCa" /\ proc'[p].at = "ready" /\ proc'[p].key = proc[p].key
      /\ proc'[p].cert = proc[p].cert /\ proc'[p].caKey = caKey
      /\ proc'[p].unsaved = proc[p].unsaved
      /\ \A q \in Procs \ {p} : proc'[q] = proc[q]
  BY StepOf DEF ReadCaKey, Inv, Step, FileTypes
<1>2. /\ keyFile' = keyFile /\ caCert' = caCert /\ caKey' = caKey
      /\ TRUE
      /\ made' = made
      /\ disturbed' \in BOOLEAN /\ (~ disturbed' => ~ disturbed)
      /\ ~ disturbed' => \A q \in Procs \ {p} : proc[q].at \notin Writing
  BY DEF ReadCaKey, Overlaps, files, Inv, FileTypes
<1>3. FileTypes'
  BY <1>1, <1>2, FilesDiffer DEF ReadCaKey, Step, Inv, FileTypes, Steps, Files
<1>4. ASSUME ~ disturbed' PROVE Calm' /\ KeyStays
  <2>1. Calm
    BY <1>2, <1>4 DEF Inv
  <2>2. OneWrites'
    BY <1>1, <1>2, <1>4, <2>1 DEF Calm, OneWrites, Writing
  <2>3. KeyHeld' /\ KeyComing'
    BY <1>1, <1>2, <1>4, <2>1, FilesDiffer DEF Calm, OneWrites, Writing, KeyHeld, KeyComing, HasAuthority, Inv
  <2>4. CaHeld'
    BY <1>1, <1>2, <1>4, <2>1, FilesDiffer DEF Calm, OneWrites, Writing, CaHeld, CaComing, CaWhole
  <2>5. CaComing'
    BY <1>1, <1>2, <1>4, <2>1, FilesDiffer DEF Calm, OneWrites, Writing, CaHeld, CaComing, CaWhole, Inv
  <2>6. CaWhole'
    BY <1>1, <1>2, <1>4, <2>1, FilesDiffer DEF Calm, CaHeld, CaComing, CaWhole
  <2>7. KeyStays
    BY <1>1, <1>2, <2>1 DEF Calm, KeyComing, KeyStays
  <2> QED BY <2>2, <2>3, <2>4, <2>5, <2>6, <2>7 DEF Calm
<1>5. KeyInHand'
  BY <1>1, <1>2, FilesDiffer DEF Inv, KeyInHand
<1> QED BY <1>3, <1>4, <1>5 DEF Goal, Inv, KeyStays

\* A CA is made where one of its files is missing, which is that of its key.
LEMMA MakeCaStep == ASSUME Inv, NEW p \in Procs, MakeCa(p) PROVE Goal
<1>1. /\ proc[p].at = "authority" /\ proc'[p].at = "makeCa" /\ proc'[p].key = proc[p].key
      /\ proc'[p].cert = made + 1 /\ proc'[p].caKey = made + 1
      /\ proc'[p].unsaved = proc[p].unsaved
      /\ \A q \in Procs \ {p} : proc'[q] = proc[q]
  BY MadeKey DEF MakeCa, NewCa, Inv, FileTypes
<1>2. /\ keyFile' = keyFile /\ caCert' = caCert /\ caKey' = caKey
      /\ caCert = Absent \/ caKey = Absent
      /\ made' = made + 1 /\ made < MaxKeys
      /\ disturbed' \in BOOLEAN /\ (~ disturbed' => ~ disturbed)
      /\ ~ disturbed' => \A q \in Procs \ {p} : proc[q].at \notin Writing
  BY DEF MakeCa, NewCa, Overlaps, files, Inv, FileTypes
<1>3. FileTypes'
  BY <1>1, <1>2, MadeKey, FilesDiffer DEF MakeCa, NewCa, Inv, FileTypes, Steps, Files
<1>4. ASSUME ~ disturbed' PROVE Calm' /\ KeyStays
  <2>1. Calm
    BY <1>2, <1>4 DEF Inv
  <2>2. OneWrites'
    BY <1>1, <1>2, <1>4, <2>1 DEF Calm, OneWrites, Writing
  <2>3. KeyHeld' /\ KeyComing'
    BY <1>1, <1>2, <1>4, <2>1, FilesDiffer, MadeKey DEF Calm, OneWrites, Writing, KeyHeld, KeyComing, HasAuthority, Inv
  <2>4. CaHeld'
    BY <1>1, <1>2, <1>4, <2>1, FilesDiffer DEF Calm, OneWrites, Writing, CaHeld, CaComing, CaWhole
  <2>5. CaComing'
    BY <1>1, <1>2, <1>4, <2>1, FilesDiffer, MadeKey DEF Calm, OneWrites, Writing, CaHeld, CaComing, CaWhole, Inv
  <2>6. CaWhole'
    BY <1>1, <1>2, <1>4, <2>1, FilesDiffer DEF Calm, CaHeld, CaComing, CaWhole
  <2>7. KeyStays
    BY <1>1, <1>2, <2>1 DEF Calm, KeyComing, KeyStays
  <2> QED BY <2>2, <2>3, <2>4, <2>5, <2>6, <2>7 DEF Calm
<1>5. KeyInHand'
  BY <1>1, <1>2, FilesDiffer, MadeKey DEF Inv, KeyInHand
<1> QED BY <1>3, <1>4, <1>5 DEF Goal, Inv, KeyStays

\* No CA is held while its certificate is being written.
LEMMA OpenCaCertStep == ASSUME Inv, NEW p \in Procs, OpenCaCert(p) PROVE Goal
<1>1. /\ proc[p].at = "makeCa" /\ proc'[p].at = "writeCert" /\ proc'[p].key = proc[p].key
      /\ proc'[p].cert = proc[p].cert /\ proc'[p].caKey = proc[p].caKey
      /\ proc'[p].unsaved = proc[p].unsaved
      /\ \A q \in Procs \ {p} : proc'[q] = proc[q]
  BY StepOf DEF OpenCaCert, Inv, Step, FileTypes
<1>2. /\ keyFile' = keyFile /\ caCert' = Empty /\ caKey' = caKey
      /\ TRUE
      /\ made' = made
      /\ disturbed' \in BOOLEAN /\ (~ disturbed' => ~ disturbed)
  BY DEF OpenCaCert, files, Inv, FileTypes
<1>3. FileTypes'
  BY <1>1, <1>2, FilesDiffer DEF OpenCaCert, Step, Inv, FileTypes, Steps, Files
<1>4. ASSUME ~ disturbed' PROVE Calm' /\ KeyStays
  <2>1. Calm
    BY <1>2, <1>4 DEF Inv
  <2>2. OneWrites'
    BY <1>1, <1>2, <1>4, <2>1 DEF Calm, OneWrites, Writing
  <2>3. KeyHeld' /\ KeyComing'
    BY <1>1, <1>2, <1>4, <2>1, FilesDiffer DEF Calm, OneWrites, Writing, KeyHeld, KeyComing, HasAuthority, Inv
  <2>4. CaHeld'
    BY <1>1, <1>2, <1>4, <2>1, FilesDiffer DEF Calm, OneWrites, Writing, CaHeld, CaComing, CaWhole
  <2>5. CaComing'
    BY <1>1, <1>2, <1>4, <2>1, FilesDiffer DEF Calm, OneWrites, Writing, CaHeld, CaComing, CaWhole, Inv
  <2>6. CaWhole'
    BY <1>1, <1>2, <1>4, <2>1, FilesDiffer DEF Calm, CaHeld, CaComing, CaWhole
  <2>7. KeyStays
    BY <1>1, <1>2, <2>1 DEF Calm, KeyComing, KeyStays
  <2> QED BY <2>2, <2>3, <2>4, <2>5, <2>6, <2>7 DEF Calm
<1>5. KeyInHand'
  BY <1>1, <1>2, FilesDiffer DEF Inv, KeyInHand
<1> QED BY <1>3, <1>4, <1>5 DEF Goal, Inv, KeyStays

\* The certificate is in its file; the key's file is still missing.
LEMMA WriteCaCertStep == ASSUME Inv, NEW p \in Procs, WriteCaCert(p) PROVE Goal
<1>1. /\ proc[p].at = "writeCert" /\ proc'[p].at = "openCaKey" /\ proc'[p].key = proc[p].key
      /\ proc'[p].cert = proc[p].cert /\ proc'[p].caKey = proc[p].caKey
      /\ proc'[p].unsaved = proc[p].unsaved
      /\ \A q \in Procs \ {p} : proc'[q] = proc[q]
  BY StepOf DEF WriteCaCert, Inv, Step, FileTypes
<1>2. /\ keyFile' = keyFile /\ caCert' = proc[p].cert /\ caKey' = caKey
      /\ TRUE
      /\ made' = made
      /\ disturbed' \in BOOLEAN /\ (~ disturbed' => ~ disturbed)
  BY DEF WriteCaCert, files, Inv, FileTypes
<1>3. FileTypes'
  BY <1>1, <1>2, FilesDiffer DEF WriteCaCert, Step, Inv, FileTypes, Steps, Files
<1>4. ASSUME ~ disturbed' PROVE Calm' /\ KeyStays
  <2>1. Calm
    BY <1>2, <1>4 DEF Inv
  <2>2. OneWrites'
    BY <1>1, <1>2, <1>4, <2>1 DEF Calm, OneWrites, Writing
  <2>3. KeyHeld' /\ KeyComing'
    BY <1>1, <1>2, <1>4, <2>1, FilesDiffer DEF Calm, OneWrites, Writing, KeyHeld, KeyComing, HasAuthority, Inv
  <2>4. CaHeld'
    BY <1>1, <1>2, <1>4, <2>1, FilesDiffer DEF Calm, OneWrites, Writing, CaHeld, CaComing, CaWhole
  <2>5. CaComing'
    BY <1>1, <1>2, <1>4, <2>1, FilesDiffer DEF Calm, OneWrites, Writing, CaHeld, CaComing, CaWhole, Inv
  <2>6. CaWhole'
    BY <1>1, <1>2, <1>4, <2>1, FilesDiffer DEF Calm, CaHeld, CaComing, CaWhole
  <2>7. KeyStays
    BY <1>1, <1>2, <2>1 DEF Calm, KeyComing, KeyStays
  <2> QED BY <2>2, <2>3, <2>4, <2>5, <2>6, <2>7 DEF Calm
<1>5. KeyInHand'
  BY <1>1, <1>2, FilesDiffer DEF Inv, KeyInHand
<1> QED BY <1>3, <1>4, <1>5 DEF Goal, Inv, KeyStays

\* The key's file is there, and empty, for the one who writes it alone.
LEMMA OpenCaKeyStep == ASSUME Inv, NEW p \in Procs, OpenCaKey(p) PROVE Goal
<1>1. /\ proc[p].at = "openCaKey" /\ proc'[p].at = "writeCaKey" /\ proc'[p].key = proc[p].key
      /\ proc'[p].cert = proc[p].cert /\ proc'[p].caKey = proc[p].caKey
      /\ proc'[p].unsaved = proc[p].unsaved
      /\ \A q \in Procs \ {p} : proc'[q] = proc[q]
  BY StepOf DEF OpenCaKey, Inv, Step, FileTypes
<1>2. /\ keyFile' = keyFile /\ caCert' = caCert /\ caKey' = Empty
      /\ TRUE
      /\ made' = made
      /\ disturbed' \in BOOLEAN /\ (~ disturbed' => ~ disturbed)
  BY DEF OpenCaKey, files, Inv, FileTypes
<1>3. FileTypes'
  BY <1>1, <1>2, FilesDiffer DEF OpenCaKey, Step, Inv, FileTypes, Steps, Files
<1>4. ASSUME ~ disturbed' PROVE Calm' /\ KeyStays
  <2>1. Calm
    BY <1>2, <1>4 DEF Inv
  <2>2. OneWrites'
    BY <1>1, <1>2, <1>4, <2>1 DEF Calm, OneWrites, Writing
  <2>3. KeyHeld' /\ KeyComing'
    BY <1>1, <1>2, <1>4, <2>1, FilesDiffer DEF Calm, OneWrites, Writing, KeyHeld, KeyComing, HasAuthority, Inv
  <2>4. CaHeld'
    BY <1>1, <1>2, <1>4, <2>1, FilesDiffer DEF Calm, OneWrites, Writing, CaHeld, CaComing, CaWhole
  <2>5. CaComing'
    BY <1>1, <1>2, <1>4, <2>1, FilesDiffer DEF Calm, OneWrites, Writing, CaHeld, CaComing, CaWhole, Inv
  <2>6. CaWhole'
    BY <1>1, <1>2, <1>4, <2>1, FilesDiffer DEF Calm, CaHeld, CaComing, CaWhole
  <2>7. KeyStays
    BY <1>1, <1>2, <2>1 DEF Calm, KeyComing, KeyStays
  <2> QED BY <2>2, <2>3, <2>4, <2>5, <2>6, <2>7 DEF Calm
<1>5. KeyInHand'
  BY <1>1, <1>2, FilesDiffer DEF Inv, KeyInHand
<1> QED BY <1>3, <1>4, <1>5 DEF Goal, Inv, KeyStays

\* Both files are whole and agree, and whoever reads them from now on has them.
LEMMA WriteCaKeyStep == ASSUME Inv, NEW p \in Procs, WriteCaKey(p) PROVE Goal
<1>1. /\ proc[p].at = "writeCaKey" /\ proc'[p].at = "ready" /\ proc'[p].key = proc[p].key
      /\ proc'[p].cert = proc[p].cert /\ proc'[p].caKey = proc[p].caKey
      /\ proc'[p].unsaved = proc[p].unsaved
      /\ \A q \in Procs \ {p} : proc'[q] = proc[q]
  BY StepOf DEF WriteCaKey, Inv, Step, FileTypes
<1>2. /\ keyFile' = keyFile /\ caCert' = caCert /\ caKey' = proc[p].caKey
      /\ TRUE
      /\ made' = made
      /\ disturbed' \in BOOLEAN /\ (~ disturbed' => ~ disturbed)
  BY DEF WriteCaKey, files, Inv, FileTypes
<1>3. FileTypes'
  BY <1>1, <1>2, FilesDiffer DEF WriteCaKey, Step, Inv, FileTypes, Steps, Files
<1>4. ASSUME ~ disturbed' PROVE Calm' /\ KeyStays
  <2>1. Calm
    BY <1>2, <1>4 DEF Inv
  <2>2. OneWrites'
    BY <1>1, <1>2, <1>4, <2>1 DEF Calm, OneWrites, Writing
  <2>3. KeyHeld' /\ KeyComing'
    BY <1>1, <1>2, <1>4, <2>1, FilesDiffer DEF Calm, OneWrites, Writing, KeyHeld, KeyComing, HasAuthority, Inv
  <2>4. CaHeld'
    BY <1>1, <1>2, <1>4, <2>1, FilesDiffer DEF Calm, OneWrites, Writing, CaHeld, CaComing, CaWhole
  <2>5. CaComing'
    BY <1>1, <1>2, <1>4, <2>1, FilesDiffer DEF Calm, OneWrites, Writing, CaHeld, CaComing, CaWhole, Inv
  <2>6. CaWhole'
    BY <1>1, <1>2, <1>4, <2>1, FilesDiffer DEF Calm, CaHeld, CaComing, CaWhole
  <2>7. KeyStays
    BY <1>1, <1>2, <2>1 DEF Calm, KeyComing, KeyStays
  <2> QED BY <2>2, <2>3, <2>4, <2>5, <2>6, <2>7 DEF Calm
<1>5. KeyInHand'
  BY <1>1, <1>2, FilesDiffer DEF Inv, KeyInHand
<1> QED BY <1>3, <1>4, <1>5 DEF Goal, Inv, KeyStays

\* A key file that cannot be read disturbs everything that rests on it.
LEMMA KeyUnreadableStep == ASSUME Inv, NEW p \in Procs, KeyUnreadable(p) PROVE Goal
<1> DEFINE next == [proc[p] EXCEPT !.at = "makeKey", !.key = made + 1]
<1>1. /\ made < MaxKeys /\ made' = made + 1 /\ disturbed' = TRUE
      /\ proc' = [proc EXCEPT ![p] = next]
      /\ keyFile' = keyFile /\ caCert' = caCert /\ caKey' = caKey
  BY DEF KeyUnreadable, NewKey, Step, files
<1>2. made + 1 \in Keys /\ made + 1 \in Files /\ made' \in 0 .. MaxKeys
  BY <1>1, MadeKey DEF Inv, Files
<1>3. /\ next \in [at : Steps, key : Files, cert : Files, caKey : Files, unsaved : Unsaved]
      /\ next.key = made + 1
  <2>1. proc[p] \in [at : Steps, key : Files, cert : Files, caKey : Files, unsaved : Unsaved]
    BY DEF Inv, FileTypes
  <2>2. "makeKey" \in Steps
    BY DEF Steps
  <2> QED BY <1>2, <2>1, <2>2
<1> HIDE DEF next
<1>4. FileTypes'
  BY <1>1, <1>2, <1>3 DEF Inv, FileTypes
<1>5. KeyInHand'
  BY <1>1, <1>2, <1>3 DEF Inv, KeyInHand, FileTypes, Keys
<1> QED BY <1>1, <1>4, <1>5 DEF Goal, Inv, KeyStays

\* Nobody holds the key that a process keeps to itself, and the file has none still.
LEMMA KeyNotWrittenStep == ASSUME Inv, NEW p \in Procs, KeyNotWritten(p) PROVE Goal
<1>1. /\ proc[p].at \in {"makeKey", "writeKey"} /\ proc'[p].at = "authority"
      /\ proc'[p].key = proc[p].key /\ proc'[p].cert = proc[p].cert
      /\ proc'[p].caKey = proc[p].caKey /\ "key" \in proc'[p].unsaved
      /\ \A q \in Procs \ {p} : proc'[q] = proc[q]
  BY DEF KeyNotWritten, Inv, FileTypes
<1>2. /\ keyFile' = keyFile /\ caCert' = caCert /\ caKey' = caKey /\ made' = made
      /\ disturbed' = disturbed
  BY DEF KeyNotWritten, files
<1>3. FileTypes'
  <2>1. proc[p].unsaved \cup {"key"} \in Unsaved
    BY DEF Inv, FileTypes, Unsaved
  <2> QED BY <1>2, <2>1 DEF KeyNotWritten, Inv, FileTypes, Steps
<1>4. ASSUME ~ disturbed' PROVE Calm'
  <2>1. Calm
    BY <1>2, <1>4 DEF Inv
  <2>2. OneWrites'
    BY <1>1, <2>1 DEF Calm, OneWrites, Writing
  <2>3. KeyHeld' /\ KeyComing'
    BY <1>1, <1>2, <2>1 DEF Calm, KeyHeld, KeyComing, HasAuthority
  <2>4. CaHeld' /\ CaComing'
    BY <1>1, <1>2, <2>1 DEF Calm, CaHeld, CaComing
  <2>5. CaWhole'
    BY <1>1, <1>2, <2>1 DEF Calm, CaWhole
  <2> QED BY <2>2, <2>3, <2>4, <2>5 DEF Calm
<1>5. KeyInHand'
  BY <1>1 DEF Inv, KeyInHand
<1> QED BY <1>2, <1>3, <1>4, <1>5 DEF Goal, Inv, KeyStays

\* A file of the CA that cannot be read disturbs what rests on it likewise.
LEMMA CaUnreadableStep == ASSUME Inv, NEW p \in Procs, CaUnreadable(p) PROVE Goal
<1> DEFINE next == [proc[p] EXCEPT !.at = "makeCa", !.cert = made + 1, !.caKey = made + 1]
<1>1. /\ proc[p].at \in {"authority", "readCa"}
      /\ made < MaxKeys /\ made' = made + 1 /\ disturbed' = TRUE
      /\ proc' = [proc EXCEPT ![p] = next]
      /\ keyFile' = keyFile /\ caCert' = caCert /\ caKey' = caKey
  BY DEF CaUnreadable, NewCa, Inv, FileTypes, files
<1>2. made + 1 \in Files /\ made' \in 0 .. MaxKeys
  BY <1>1, MadeKey DEF Inv, Files
<1>3. /\ next \in [at : Steps, key : Files, cert : Files, caKey : Files, unsaved : Unsaved]
      /\ next.at = "makeCa" /\ next.key = proc[p].key
  <2>1. proc[p] \in [at : Steps, key : Files, cert : Files, caKey : Files, unsaved : Unsaved]
    BY DEF Inv, FileTypes
  <2>2. "makeCa" \in Steps
    BY DEF Steps
  <2> QED BY <1>2, <2>1, <2>2
<1> HIDE DEF next
<1>4. FileTypes'
  BY <1>1, <1>2, <1>3 DEF Inv, FileTypes
<1>5. KeyInHand'
  BY <1>1, <1>3 DEF Inv, KeyInHand, FileTypes
<1> QED BY <1>1, <1>4, <1>5 DEF Goal, Inv, KeyStays

\* What is left of a CA that cannot be written has no key, or an empty one, which
\* disturbs the others.
LEMMA CaNotWrittenStep == ASSUME Inv, NEW p \in Procs, CaNotWritten(p) PROVE Goal
<1>1. /\ proc[p].at \in {"makeCa", "writeCert", "openCaKey", "writeCaKey"}
      /\ proc'[p].at = "ready"
      /\ proc'[p].key = proc[p].key /\ "ca" \in proc'[p].unsaved
      /\ "key" \in proc'[p].unsaved <=> "key" \in proc[p].unsaved
      /\ \A q \in Procs \ {p} : proc'[q] = proc[q]
  BY DEF CaNotWritten, Inv, FileTypes
<1>2. /\ keyFile' = keyFile /\ caCert' = caCert /\ caKey' = caKey /\ made' = made
      /\ disturbed' \in BOOLEAN
      /\ ~ disturbed' => ~ disturbed /\ proc[p].at # "writeCaKey"
  BY DEF CaNotWritten, LeftEmpty, files, Inv, FileTypes
<1>3. FileTypes'
  <2>1. proc[p].unsaved \cup {"ca"} \in Unsaved
    BY DEF Inv, FileTypes, Unsaved
  <2> QED BY <1>2, <2>1 DEF CaNotWritten, Inv, FileTypes, Steps
<1>4. ASSUME ~ disturbed' PROVE Calm'
  <2>1. Calm
    BY <1>2, <1>4 DEF Inv
  <2>2. OneWrites'
    BY <1>1, <2>1 DEF Calm, OneWrites, Writing
  <2>3. KeyHeld' /\ KeyComing'
    BY <1>1, <1>2, <2>1 DEF Calm, KeyHeld, KeyComing, HasAuthority
  <2>4. CaHeld' /\ CaComing'
    BY <1>1, <1>2, <2>1 DEF Calm, CaHeld, CaComing
  <2>5. CaWhole'
    BY <1>1, <1>2, <1>4, <2>1 DEF Calm, CaComing, CaWhole
  <2> QED BY <2>2, <2>3, <2>4, <2>5 DEF Calm
<1>5. KeyInHand'
  BY <1>1 DEF Inv, KeyInHand
<1> QED BY <1>2, <1>3, <1>4, <1>5 DEF Goal, Inv, KeyStays

\* A process ends.
LEMMA RestartStep == ASSUME Inv, NEW p \in Procs, Restart(p) PROVE Goal
<1>1. /\ proc'[p] = Fresh /\ proc'[p].at = "start"
      /\ \A q \in Procs \ {p} : proc'[q] = proc[q]
  BY DEF Restart, Inv, FileTypes, Fresh
<1>2. /\ keyFile' = keyFile /\ caCert' = caCert /\ caKey' = caKey /\ made' = made
      /\ disturbed' \in BOOLEAN
      /\ ~ disturbed' => ~ disturbed /\ proc[p].at # "writeCaKey"
  BY DEF Restart, LeftEmpty, files, Inv, FileTypes
<1>3. FileTypes'
  <2>1. Fresh \in [at : Steps, key : Files, cert : Files, caKey : Files, unsaved : Unsaved]
    BY FilesDiffer DEF Fresh, Steps, Unsaved
  <2> QED BY <1>2, <2>1 DEF Restart, Inv, FileTypes
<1>4. ASSUME ~ disturbed' PROVE Calm'
  <2>1. Calm
    BY <1>2, <1>4 DEF Inv
  <2>2. OneWrites'
    BY <1>1, <2>1 DEF Calm, OneWrites, Writing
  <2>3. KeyHeld' /\ KeyComing'
    BY <1>1, <1>2, <2>1 DEF Calm, KeyHeld, KeyComing, HasAuthority
  <2>4. CaHeld' /\ CaComing'
    BY <1>1, <1>2, <2>1 DEF Calm, CaHeld, CaComing
  <2>5. CaWhole'
    BY <1>1, <1>2, <1>4, <2>1 DEF Calm, CaWhole
  <2> QED BY <2>2, <2>3, <2>4, <2>5 DEF Calm
<1>5. KeyInHand'
  BY <1>1 DEF Inv, KeyInHand
<1> QED BY <1>2, <1>3, <1>4, <1>5 DEF Goal, Inv, KeyStays

\* Every step keeps the invariant, and the key.
LEMMA NextStep == ASSUME Inv, [Next]_vars PROVE Goal
<1>1. ASSUME NEW p \in Procs,
             \/ LoadKey(p) \/ MakeKey(p) \/ OpenKey(p) \/ WriteKey(p)
             \/ KeyUnreadable(p) \/ KeyNotWritten(p)
             \/ ReadCaCert(p) \/ ReadCaKey(p)
             \/ MakeCa(p) \/ OpenCaCert(p) \/ WriteCaCert(p) \/ OpenCaKey(p) \/ WriteCaKey(p)
             \/ CaUnreadable(p) \/ CaNotWritten(p)
             \/ Restart(p)
      PROVE  Goal
  BY <1>1, LoadKeyStep, MakeKeyStep, OpenKeyStep, WriteKeyStep, ReadCaCertStep, ReadCaKeyStep,
     MakeCaStep, OpenCaCertStep, WriteCaCertStep, OpenCaKeyStep, WriteCaKeyStep, RestartStep,
     KeyUnreadableStep, KeyNotWrittenStep, CaUnreadableStep, CaNotWrittenStep
<1>2. ASSUME NEW p \in Procs, NEW r \in Requests, NEW serial \in Serials,
             Sign(p, r, serial, MaxTime)
      PROVE  Goal
  BY <1>2, CardSteps DEF Sign
<1>3. ASSUME Change \/ Tick \/ \E serial \in Serials : Revoke(serial) PROVE Goal
  BY <1>3, CardSteps DEF Change, Tick, Revoke
<1>4. CASE UNCHANGED vars
  BY <1>4, CardSteps DEF vars
<1> QED BY <1>1, <1>2, <1>3, <1>4 DEF Next

-----------------------------------------------------------------------------
\* The invariant holds throughout.
LEMMA Always == Spec => []Inv
<1>1. Init => Inv
  <2> SUFFICES ASSUME Init PROVE Inv
    OBVIOUS
  <2>1. Fresh \in [at : Steps, key : Files, cert : Files, caKey : Files, unsaved : Unsaved]
    BY FilesDiffer DEF Fresh, Steps, Unsaved
  <2>2. FileTypes
    <3>1. 0 \in 0 .. MaxKeys
      BY BoundsAssumption
    <3> QED BY <2>1, <3>1, FilesDiffer DEF Init, FileTypes
  <2>3. \A p \in Procs : proc[p].at = "start"
    BY DEF Init, Fresh
  <2>4. Calm /\ KeyInHand
    BY <2>3 DEF Init, Calm, OneWrites, Writing, KeyHeld, HasAuthority, KeyComing, CaHeld,
                CaComing, CaWhole, KeyInHand
  <2> QED BY <2>2, <2>4 DEF Inv
<1>2. Inv /\ [Next]_vars => Inv'
  BY NextStep DEF Goal
<1> QED BY <1>1, <1>2, PTL DEF Spec

\* Processes that do not create the files at the same time, and can read those that are
\* there, hold the key of the one file and one whole CA, but for what they could not
\* write, wherever others were ended or failed to write (_load_or_create_keypair,
\* _ensure_ca).
THEOREM SharedInstallation == Spec => []OneInstallation
<1>1. Inv => OneInstallation
  BY DEF Inv, Calm, KeyHeld, CaHeld, OneInstallation
<1> QED BY <1>1, Always, PTL

\* The key of the authority is not replaced once it is written, as long as it can be read
\* and nobody makes one at the same time, whatever else cannot be read or written
\* (_load_or_create_keypair).
THEOREM KeyPersists == Spec => KeyIsForever
<1>1. Inv /\ [Next]_vars => [KeyStays]_vars
  BY NextStep DEF Goal
<1> QED BY <1>1, Always, PTL DEF Spec, KeyIsForever, KeyStays

\* Every set of numbers that is not empty has a least one.
LEMMA LeastNumber ==
    ASSUME NEW S \in SUBSET Nat, S # {}
    PROVE  \E least \in S : \A n \in S : least <= n
<1>1. PICK least \in S : \A n \in S : <<n, least>> \notin OpToRel(<, Nat)
  BY NatLessThanWellFounded, WFMin
<1>2. \A n \in S : ~ (n < least)
  BY <1>1 DEF OpToRel
<1>3. QED
  BY <1>2

\* The numbers from 1 to m are m.
LEMMA SizeUpTo == \A m \in Nat : IsFiniteSet(1 .. m) /\ Cardinality(1 .. m) = m
<1>1. ASSUME NEW m \in Nat  PROVE IsFiniteSet(1 .. m) /\ Cardinality(1 .. m) = m
  BY FS_Interval
<1>2. QED
  BY <1>1

-----------------------------------------------------------------------------
(* Sorting *)

RankIn(place, x) == Cardinality({y \in DOMAIN place : place[y] < place[x]}) + 1

\* A finite set whose elements have numbers of their own is listed by ByPlace, each
\* element at its rank.
LEMMA ByPlaceFacts ==
    ASSUME NEW S, IsFiniteSet(S), NEW place \in [S -> Nat],
           \A x, y \in S : place[x] = place[y] => x = y
    PROVE  /\ ByPlace(place) \in [1 .. Cardinality(S) -> S]
           /\ \A x \in S : /\ RankIn(place, x) \in 1 .. Cardinality(S)
                           /\ ByPlace(place)[RankIn(place, x)] = x
           /\ \A r \in 1 .. Cardinality(S) : RankIn(place, ByPlace(place)[r]) = r
<1> DEFINE N == Cardinality(S)
           below(x) == {y \in S : place[y] < place[x]}
           rank == [x \in S |-> Cardinality(below(x)) + 1]
<1>1. N \in Nat /\ DOMAIN place = S
  BY FS_CardinalityType
<1>2. ASSUME NEW x \in S
      PROVE  /\ IsFiniteSet(below(x)) /\ Cardinality(below(x)) \in Nat
             /\ Cardinality(below(x)) < N
  <2>1. below(x) \in SUBSET S /\ x \notin below(x)
    OBVIOUS
  <2> HIDE DEF below
  <2>2. /\ IsFiniteSet(below(x)) /\ Cardinality(below(x)) <= N
        /\ N = Cardinality(below(x)) => S = below(x)
    BY <2>1, FS_Subset
  <2>3. Cardinality(below(x)) \in Nat
    BY <2>2, FS_CardinalityType
  <2>4. QED
    BY <1>1, <2>1, <2>2, <2>3
<1>3. ASSUME NEW x \in S, NEW y \in S, place[x] < place[y]
      PROVE  Cardinality(below(x)) < Cardinality(below(y))
  <2>1. below(x) \in SUBSET below(y) /\ x \in below(y) /\ x \notin below(x)
    BY <1>3
  <2> HIDE DEF below
  <2>2. /\ Cardinality(below(x)) <= Cardinality(below(y))
        /\ Cardinality(below(y)) = Cardinality(below(x)) => below(y) = below(x)
    BY <1>2, <2>1, FS_Subset
  <2>3. QED
    BY <1>2, <2>1, <2>2
<1> HIDE DEF below
<1>4. rank \in [S -> 1 .. N]
  <2>1. ASSUME NEW x \in S  PROVE Cardinality(below(x)) + 1 \in 1 .. N
    BY <1>1, <1>2
  <2>2. QED
    BY <2>1
<1>5. ASSUME NEW x \in S, NEW y \in S, rank[x] = rank[y]  PROVE x = y
  <2>1. Cardinality(below(x)) = Cardinality(below(y))
    BY <1>2, <1>5
  <2>2. place[x] \in Nat /\ place[y] \in Nat
    OBVIOUS
  <2>3. ~ (place[x] < place[y]) /\ ~ (place[y] < place[x])
    BY <1>2, <1>3, <2>1
  <2>4. QED
    BY <2>2, <2>3
<1>6. \A r \in 1 .. N : \E x \in S : rank[x] = r
  <2> HIDE DEF rank, N
  <2>1. rank \in Injection(S, 1 .. N)
    BY <1>4, <1>5 DEF Injection, IsInjective
  <2>2. IsFiniteSet(1 .. N) /\ Cardinality(1 .. N) = N
    BY <1>1, FS_Interval
  <2>3. rank \in Surjection(S, 1 .. N)
    BY <2>1, <2>2, FS_Injection DEF N
  <2>4. QED
    BY <2>3 DEF Surjection
<1>7. ByPlace(place) = [r \in 1 .. N |-> CHOOSE x \in S : rank[x] = r]
  BY <1>1 DEF ByPlace, below
<1>8. \A x \in S : RankIn(place, x) = rank[x]
  BY <1>1 DEF RankIn, below
<1> HIDE DEF rank, N
<1>9. ASSUME NEW r \in 1 .. N
      PROVE  ByPlace(place)[r] \in S /\ rank[ByPlace(place)[r]] = r
  BY <1>6, <1>7
<1>10. ASSUME NEW x \in S
       PROVE  rank[x] \in 1 .. N /\ ByPlace(place)[rank[x]] = x
  <2>1. rank[x] \in 1 .. N
    BY <1>4
  <2>2. QED
    BY <1>5, <1>9, <2>1
<1>11. ByPlace(place) \in [1 .. N -> S]
  BY <1>7, <1>9
<1>12. QED
  BY <1>8, <1>9, <1>10, <1>11 DEF N

KeyNames == ToSet(KeyOrder)

\* Every key has a place of its own.
LEMMA PlaceFacts ==
    /\ \A k \in KeyNames : Place(k) \in 1 .. 7 /\ KeyOrder[Place(k)] = k
    /\ \A k, l \in KeyNames : Place(k) = Place(l) => k = l
<1>1. DOMAIN KeyOrder = 1 .. 7
  BY DEF KeyOrder
<1>2. \A k \in KeyNames : \E i \in DOMAIN KeyOrder : KeyOrder[i] = k
  BY DEF KeyNames, ToSet
<1>3. \A k \in KeyNames : Place(k) \in DOMAIN KeyOrder /\ KeyOrder[Place(k)] = k
  BY <1>2 DEF Place
<1>4. QED
  BY <1>1, <1>3

-----------------------------------------------------------------------------
(* Lists of leaves *)

Leaves == KeyNames \X Nat

\* What Sorted sorts by.
PlaceOf(leaves) == [i \in DOMAIN leaves |-> Place(leaves[i][1]) * Len(leaves) + i]

\* The places of leaves are as their keys are, when no key is there twice.
LEMMA PlacesOrdered ==
    ASSUME NEW leaves \in Seq(Leaves), UniqueLeaves(leaves)
    PROVE  /\ PlaceOf(leaves) \in [1 .. Len(leaves) -> Nat]
           /\ \A i, j \in 1 .. Len(leaves) :
                 /\ PlaceOf(leaves)[i] = PlaceOf(leaves)[j] => i = j
                 /\ PlaceOf(leaves)[i] < PlaceOf(leaves)[j] <=>
                        Place(leaves[i][1]) < Place(leaves[j][1])
<1> DEFINE n == Len(leaves)
<1>1. n \in Nat /\ DOMAIN leaves = 1 .. n
  OBVIOUS
<1>2. ASSUME NEW i \in 1 .. n
      PROVE  leaves[i][1] \in KeyNames /\ Place(leaves[i][1]) \in 1 .. 7
  <2>1. leaves[i] \in Leaves
    BY <1>1
  <2>2. leaves[i][1] \in KeyNames
    BY <2>1 DEF Leaves
  <2>3. QED
    BY <2>2, PlaceFacts
<1> HIDE DEF n
<1>3. \A p \in 1 .. 7 : p * n \in Nat
  BY <1>1
<1>4. \A p, q \in 1 .. 7 : \A i, j \in 1 .. n : p < q => p * n + i < q * n + j
  BY <1>1
<1>5. PlaceOf(leaves) = [i \in 1 .. n |-> Place(leaves[i][1]) * n + i]
  BY <1>1 DEF PlaceOf, n
<1>6. PlaceOf(leaves) \in [1 .. n -> Nat]
  <2>1. ASSUME NEW i \in 1 .. n  PROVE Place(leaves[i][1]) * n + i \in Nat
    <3>1. Place(leaves[i][1]) * n \in Nat
      BY <1>2, <1>3
    <3>2. QED
      BY <1>1, <3>1
  <2>2. QED
    BY <1>5, <2>1
<1>7. ASSUME NEW i \in 1 .. n, NEW j \in 1 .. n
      PROVE  /\ PlaceOf(leaves)[i] = PlaceOf(leaves)[j] => i = j
             /\ PlaceOf(leaves)[i] < PlaceOf(leaves)[j] <=>
                    Place(leaves[i][1]) < Place(leaves[j][1])
  <2> DEFINE p == Place(leaves[i][1])
             q == Place(leaves[j][1])
  <2>1. p \in 1 .. 7 /\ q \in 1 .. 7
    BY <1>2
  <2>2. p = q => i = j
    <3>1. p = q => leaves[i][1] = leaves[j][1]
      BY <1>2, PlaceFacts
    <3>2. QED
      BY <1>1, <3>1 DEF UniqueLeaves
  <2>3. PlaceOf(leaves)[i] = p * n + i /\ PlaceOf(leaves)[j] = q * n + j
    BY <1>5
  <2>4. p * n \in Nat /\ q * n \in Nat
    BY <1>3, <2>1
  <2> HIDE DEF p, q
  <2>5. p < q => p * n + i < q * n + j
    BY <1>4, <2>1
  <2>6. q < p => q * n + j < p * n + i
    BY <1>4, <2>1
  <2>7. (p * n + i = q * n + j => i = j) /\ (p * n + i < q * n + j <=> p < q)
    BY <1>1, <2>1, <2>2, <2>4, <2>5, <2>6
  <2>8. QED
    BY <2>3, <2>7 DEF p, q
<1>8. QED
  BY <1>6, <1>7 DEF n

\* Sorting only changes the order.
LEMMA SortedFacts ==
    ASSUME NEW leaves \in Seq(Leaves), UniqueLeaves(leaves)
    PROVE  /\ Sorted(leaves) \in [1 .. Len(leaves) -> Leaves]
           /\ \A i \in 1 .. Len(leaves) :
                 /\ RankIn(PlaceOf(leaves), i) \in 1 .. Len(leaves)
                 /\ Sorted(leaves)[RankIn(PlaceOf(leaves), i)] = leaves[i]
           /\ \A r \in 1 .. Len(leaves) : \E i \in 1 .. Len(leaves) :
                 Sorted(leaves)[r] = leaves[i] /\ RankIn(PlaceOf(leaves), i) = r
<1> DEFINE n == Len(leaves)
           order == ByPlace(PlaceOf(leaves))
<1>1. n \in Nat /\ DOMAIN leaves = 1 .. n /\ leaves \in [1 .. n -> Leaves]
  OBVIOUS
<1>2. IsFiniteSet(1 .. n) /\ Cardinality(1 .. n) = n
  BY <1>1, FS_Interval
<1>3. /\ order \in [1 .. n -> 1 .. n]
      /\ \A i \in 1 .. n : /\ RankIn(PlaceOf(leaves), i) \in 1 .. n
                           /\ order[RankIn(PlaceOf(leaves), i)] = i
      /\ \A r \in 1 .. n : RankIn(PlaceOf(leaves), order[r]) = r
  <2>1. PlaceOf(leaves) \in [1 .. n -> Nat]
    BY PlacesOrdered
  <2>2. \A i, j \in 1 .. n : PlaceOf(leaves)[i] = PlaceOf(leaves)[j] => i = j
    BY PlacesOrdered
  <2> HIDE DEF n
  <2>3. QED
    BY <1>2, <2>1, <2>2, ByPlaceFacts
<1>4. Sorted(leaves) = [r \in 1 .. n |-> leaves[order[r]]]
  BY <1>1 DEF Sorted, PlaceOf
<1> HIDE DEF n, order
<1>5. QED
  BY <1>1, <1>3, <1>4 DEF n

\* Sorting keeps the leaves.
LEMMA SortedSet ==
    ASSUME NEW leaves \in Seq(Leaves), UniqueLeaves(leaves)
    PROVE  ToSet(leaves) = {Sorted(leaves)[r] : r \in 1 .. Len(leaves)}
<1>1. ToSet(leaves) = {leaves[i] : i \in 1 .. Len(leaves)}
  BY DEF ToSet
<1>2. ASSUME NEW i \in 1 .. Len(leaves)
      PROVE  \E r \in 1 .. Len(leaves) : leaves[i] = Sorted(leaves)[r]
  BY SortedFacts
<1>3. ASSUME NEW r \in 1 .. Len(leaves)
      PROVE  \E i \in 1 .. Len(leaves) : Sorted(leaves)[r] = leaves[i]
  BY SortedFacts
<1> DEFINE sorted == {Sorted(leaves)[r] : r \in 1 .. Len(leaves)}
<1>4. ToSet(leaves) \subseteq sorted
  BY <1>1, <1>2
<1>5. sorted \subseteq ToSet(leaves)
  BY <1>1, <1>3
<1>6. QED
  BY <1>4, <1>5

\* Leaves whose keys differ are as many as their set has elements.
LEMMA LengthIsSize ==
    ASSUME NEW leaves \in Seq(Leaves), UniqueLeaves(leaves)
    PROVE  IsFiniteSet(ToSet(leaves)) /\ Len(leaves) = Cardinality(ToSet(leaves))
<1>1. Len(leaves) \in Nat /\ leaves \in [1 .. Len(leaves) -> ToSet(leaves)]
  BY DEF ToSet
<1>2. leaves \in Injection(1 .. Len(leaves), ToSet(leaves))
  BY <1>1 DEF Injection, IsInjective, UniqueLeaves
<1>3. leaves \in Surjection(1 .. Len(leaves), ToSet(leaves))
  BY <1>1 DEF Surjection, ToSet
<1>4. IsFiniteSet(1 .. Len(leaves)) /\ Cardinality(1 .. Len(leaves)) = Len(leaves)
  BY <1>1, FS_Interval
<1>5. QED
  BY <1>2, <1>3, <1>4, FS_Surjection

\* Two lists of the same leaves, whose keys differ, are the same when sorted.
LEMMA SortedSame ==
    ASSUME NEW a \in Seq(Leaves), NEW b \in Seq(Leaves), UniqueLeaves(a), UniqueLeaves(b),
           ToSet(a) = ToSet(b)
    PROVE  Len(a) = Len(b) /\ Sorted(a) = Sorted(b)
<1>1. Len(a) = Len(b)
  BY LengthIsSize
<1> DEFINE n == Len(a)
           pa == PlaceOf(a)
           pb == PlaceOf(b)
           to == [i \in 1 .. n |-> CHOOSE j \in 1 .. n : b[j] = a[i]]
<1>2. n \in Nat /\ DOMAIN a = 1 .. n /\ DOMAIN b = 1 .. n
  BY <1>1
<1>3. (\A i \in 1 .. n : \E j \in 1 .. n : b[j] = a[i])
      /\ (\A j \in 1 .. n : \E i \in 1 .. n : b[j] = a[i])
  BY <1>2 DEF ToSet
<1>4. to \in [1 .. n -> 1 .. n] /\ \A i \in 1 .. n : b[to[i]] = a[i]
  BY <1>3
<1>5. \A i, j \in 1 .. n : (a[i] = a[j] => i = j) /\ (b[i] = b[j] => i = j)
  BY <1>2 DEF UniqueLeaves
<1> HIDE DEF to
<1>6. \A j \in 1 .. n : \E i \in 1 .. n : to[i] = j
  <2>1. ASSUME NEW j \in 1 .. n  PROVE \E i \in 1 .. n : to[i] = j
    <3>1. PICK i \in 1 .. n : b[j] = a[i]
      BY <1>3
    <3>2. to[i] \in 1 .. n /\ b[to[i]] = b[j]
      BY <1>4, <3>1
    <3>3. QED
      BY <1>5, <3>2
  <2>2. QED
    BY <2>1
<1>7. \A i, j \in 1 .. n : to[i] = to[j] => i = j
  BY <1>4, <1>5
<1>8. /\ DOMAIN pa = 1 .. n /\ DOMAIN pb = 1 .. n
      /\ \A i, j \in 1 .. n : pa[i] < pa[j] <=> pb[to[i]] < pb[to[j]]
  <2>1. /\ \A i, j \in 1 .. n : pa[i] < pa[j] <=> Place(a[i][1]) < Place(a[j][1])
        /\ \A i, j \in 1 .. n : pb[i] < pb[j] <=> Place(b[i][1]) < Place(b[j][1])
    BY <1>1, PlacesOrdered
  <2>2. DOMAIN pa = 1 .. n /\ DOMAIN pb = 1 .. n
    BY <1>2 DEF PlaceOf
  <2>3. ASSUME NEW i \in 1 .. n, NEW j \in 1 .. n
        PROVE  pa[i] < pa[j] <=> pb[to[i]] < pb[to[j]]
    <3>1. to[i] \in 1 .. n /\ to[j] \in 1 .. n /\ b[to[i]] = a[i] /\ b[to[j]] = a[j]
      BY <1>4
    <3>2. pb[to[i]] < pb[to[j]] <=> Place(b[to[i]][1]) < Place(b[to[j]][1])
      BY <2>1, <3>1
    <3>3. pa[i] < pa[j] <=> Place(a[i][1]) < Place(a[j][1])
      BY <2>1
    <3>4. QED
      BY <3>1, <3>2, <3>3
  <2>4. QED
    BY <2>2, <2>3
<1> HIDE DEF pa, pb
<1>9. ASSUME NEW i \in 1 .. n  PROVE RankIn(pa, i) = RankIn(pb, to[i])
  <2> DEFINE A == {j \in 1 .. n : pa[j] < pa[i]}
             B == {j \in 1 .. n : pb[j] < pb[to[i]]}
             f == [j \in A |-> to[j]]
  <2>1. IsFiniteSet(A)
    <3>1. IsFiniteSet(1 .. n) /\ A \in SUBSET (1 .. n)
      BY <1>2, FS_Interval
    <3>2. QED
      BY <3>1, FS_Subset
  <2>2. f \in [A -> B] /\ \A j \in A : f[j] = to[j]
    BY <1>4, <1>8
  <2>3. f \in Surjection(A, B)
    <3>1. \A k \in B : \E j \in A : to[j] = k
      BY <1>6, <1>8
    <3> HIDE DEF f, A, B
    <3>2. QED
      BY <2>2, <3>1 DEF Surjection
  <2>4. f \in Injection(A, B)
    <3>1. \A j, k \in A : to[j] = to[k] => j = k
      BY <1>7
    <3> HIDE DEF f, A, B
    <3>2. QED
      BY <2>2, <3>1 DEF Injection, IsInjective
  <2> HIDE DEF f, A, B
  <2>5. Cardinality(B) = Cardinality(A)
    BY <2>1, <2>3, <2>4, FS_Surjection
  <2>6. QED
    BY <1>8, <2>5 DEF RankIn, A, B
<1>10. ASSUME NEW r \in 1 .. n  PROVE Sorted(a)[r] = Sorted(b)[r]
  <2>1. PICK i \in 1 .. n : Sorted(a)[r] = a[i] /\ RankIn(pa, i) = r
    BY SortedFacts DEF pa
  <2>2. Sorted(b)[RankIn(pb, to[i])] = b[to[i]]
    BY <1>1, <1>4, SortedFacts DEF pb
  <2>3. QED
    BY <1>4, <1>9, <2>1, <2>2
<1>11. Sorted(a) \in [1 .. n -> Leaves] /\ Sorted(b) \in [1 .. n -> Leaves]
  BY <1>1, SortedFacts
<1>12. QED
  BY <1>1, <1>10, <1>11

-----------------------------------------------------------------------------
(* The Merkle tree *)

\* Hashes are equal only when what they are made of is.
LEMMA HashFacts ==
    /\ \A x, y : LeafHash(x) = LeafHash(y) => x = y
    /\ \A x, y, z, w : NodeHash(x, y) = NodeHash(z, w) => x = z /\ y = w
    /\ \A x, y, z : LeafHash(x) # NodeHash(y, z)
    /\ \A x : LeafHash(x) # <<2>>
    /\ \A x, y : NodeHash(x, y) # <<2>>
  BY DEF LeafHash, NodeHash

\* No more leaves than keys.
LEMMA FewLeaves ==
    ASSUME NEW leaves \in Seq(Leaves), UniqueLeaves(leaves)
    PROVE  Len(leaves) \in 0 .. 7
<1> DEFINE n == Len(leaves)
           f == [i \in 1 .. n |-> Place(leaves[i][1])]
<1>1. n \in Nat /\ DOMAIN leaves = 1 .. n
  OBVIOUS
<1>2. \A i \in 1 .. n : leaves[i][1] \in KeyNames
  <2>1. \A i \in 1 .. n : leaves[i] \in Leaves
    BY <1>1
  <2>2. QED
    BY <2>1 DEF Leaves
<1>3. f \in [1 .. n -> 1 .. 7] /\ \A i, j \in 1 .. n : f[i] = f[j] => i = j
  BY <1>1, <1>2, PlaceFacts DEF UniqueLeaves
<1> HIDE DEF f, n
<1>4. f \in Injection(1 .. n, 1 .. 7)
  BY <1>3 DEF Injection, IsInjective
<1>5. /\ IsFiniteSet(1 .. n) /\ Cardinality(1 .. n) = n
      /\ IsFiniteSet(1 .. 7) /\ Cardinality(1 .. 7) = 7
  BY <1>1, SizeUpTo
<1>6. n <= 7
  BY <1>4, <1>5, FS_Injection
<1>7. n \in 0 .. 7
  BY <1>1, <1>6
<1>8. QED
  BY <1>7 DEF n

\* The sizes of the trees that occur.
LEMMA PowersOfTwo == 2 ^ 0 = 1 /\ 2 ^ 1 = 2 /\ 2 ^ 2 = 4 /\ 2 ^ 3 = 8
  OBVIOUS

\* The heights of the trees there are.
LEMMA Heights ==
    ASSUME NEW n \in 1 .. 7
    PROVE  Height(n) = IF n = 1 THEN 0 ELSE IF n = 2 THEN 1 ELSE IF n <= 4 THEN 2 ELSE 3
<1> DEFINE h == IF n = 1 THEN 0 ELSE IF n = 2 THEN 1 ELSE IF n <= 4 THEN 2 ELSE 3
           Fits(k) == 2 ^ k >= n /\ \A g \in 0 .. k - 1 : 2 ^ g < n
<1>1. h \in 0 .. n /\ h \in 0 .. 3
  OBVIOUS
<1>2. 2 ^ h >= n
  BY PowersOfTwo
<1>3. \A g \in 0 .. h - 1 : 2 ^ g < n
  <2>1. ASSUME NEW g \in 0 .. h - 1  PROVE 2 ^ g < n
    <3>1. (g = 0 /\ n > 1) \/ (g = 1 /\ n > 2) \/ (g = 2 /\ n > 4)
      BY <1>1
    <3>2. QED
      BY <3>1, PowersOfTwo
  <2>2. QED
    BY <2>1
<1>4. Fits(h)
  BY <1>2, <1>3
<1> HIDE DEF h
<1>5. ASSUME NEW k \in 0 .. n, Fits(k)  PROVE k = h
  <2>1. ~ (k < h)
    <3>1. k < h => k \in 0 .. h - 1
      BY <1>1
    <3>2. k < h => 2 ^ k < n /\ 2 ^ k >= n
      BY <1>3, <1>5, <3>1
    <3>3. k < h => 2 ^ k \in {1, 2, 4}
      <4>1. k < h => k \in {0, 1, 2}
        BY <1>1
      <4>2. QED
        BY <4>1, PowersOfTwo
    <3>4. QED
      BY <3>2, <3>3
  <2>2. ~ (h < k)
    <3>1. h < k => h \in 0 .. k - 1
      BY <1>1
    <3>2. h < k => 2 ^ h < n
      BY <1>5, <3>1
    <3>3. 2 ^ h \in {1, 2, 4, 8}
      <4>1. h \in {0, 1, 2, 3}
        BY <1>1
      <4>2. QED
        BY <4>1, PowersOfTwo
    <3>4. QED
      BY <1>2, <3>2, <3>3
  <2>3. QED
    BY <1>1, <2>1, <2>2
<1>6. Height(n) = CHOOSE k \in 0 .. n : Fits(k)
  BY DEF Height
<1> HIDE DEF Fits
<1>7. Height(n) = h
  BY <1>1, <1>4, <1>5, <1>6
<1>8. QED
  BY <1>7 DEF h

\* The hash at a place of the lowest level.
Padded(leaves, i) ==
    LeafHash(Sorted(leaves)[IF i <= Len(leaves) THEN i ELSE Len(leaves)])

\* f holds the levels of a tree of this height.
Levels(leaves, height, f) ==
    f = [h \in 0 .. height |->
            IF h = 0
            THEN [i \in 1 .. 2 ^ height |-> Padded(leaves, i)]
            ELSE [i \in 1 .. 2 ^ (height - h) |->
                     NodeHash(f[h - 1][2 * i - 1], f[h - 1][2 * i])]]

\* There are such levels, for the heights there are.
LEMMA LevelsExist ==
    ASSUME NEW leaves, NEW height \in 0 .. 3
    PROVE  \E f : Levels(leaves, height, f)
<1> DEFINE Over(h, below) ==
               [i \in 1 .. 2 ^ (height - h) |-> NodeHash(below[2 * i - 1], below[2 * i])]
           l0 == [i \in 1 .. 2 ^ height |-> Padded(leaves, i)]
           l1 == Over(1, l0)
           l2 == Over(2, l1)
           l3 == Over(3, l2)
           f == [h \in 0 .. height |->
                    IF h = 0 THEN l0 ELSE IF h = 1 THEN l1 ELSE IF h = 2 THEN l2 ELSE l3]
<1> HIDE DEF Over
<1>1. ASSUME NEW h \in 0 .. height
      PROVE  f[h] = IF h = 0 THEN l0 ELSE Over(h, f[h - 1])
  <2>1. h \in 0 .. 3 /\ (h # 0 => h - 1 \in 0 .. height)
    OBVIOUS
  <2>2. f[h] = IF h = 0 THEN l0 ELSE IF h = 1 THEN l1 ELSE IF h = 2 THEN l2 ELSE l3
    OBVIOUS
  <2>3. h # 0 => f[h - 1] = IF h = 1 THEN l0 ELSE IF h = 2 THEN l1 ELSE l2
    BY <2>1
  <2> HIDE DEF f, l0
  <2>4. QED
    BY <2>1, <2>2, <2>3
<1>2. DOMAIN f = 0 .. height
  OBVIOUS
<1>3. f = [h \in 0 .. height |-> f[h]]
  OBVIOUS
<1> HIDE DEF f
<1>4. f = [h \in 0 .. height |-> IF h = 0 THEN l0 ELSE Over(h, f[h - 1])]
  BY <1>1, <1>3
<1>5. Levels(leaves, height, f)
  BY <1>4 DEF Levels, Over
<1>6. QED
  BY <1>5

\* The root is the one hash of the highest level.
LEMMA RootIsTop ==
    ASSUME NEW leaves, Len(leaves) # 0, Height(Len(leaves)) \in 0 .. 3
    PROVE  \E f : /\ Levels(leaves, Height(Len(leaves)), f)
                  /\ Root(leaves) = f[Height(Len(leaves))][1]
<1> DEFINE height == Height(Len(leaves))
           level == CHOOSE f : Levels(leaves, height, f)
<1>1. Root(leaves) = level[height][1]
  BY DEF Root, Levels, Padded
<1>2. Levels(leaves, height, level)
  BY LevelsExist
<1>3. QED
  BY <1>1, <1>2

\* What the root is made of, level by level, for each number of leaves.
LEMMA RootCases ==
    ASSUME NEW leaves \in Seq(Leaves), UniqueLeaves(leaves)
    PROVE  LET n == Len(leaves)
               p(i) == Padded(leaves, i)
               two(i) == NodeHash(p(i), p(i + 1))
               four(i) == NodeHash(two(i), two(i + 2))
           IN  /\ n = 0 => Root(leaves) = <<2>>
               /\ n = 1 => Root(leaves) = p(1)
               /\ n = 2 => Root(leaves) = NodeHash(p(1), p(2))
               /\ n \in {3, 4} =>
                      Root(leaves) = NodeHash(NodeHash(p(1), p(2)), NodeHash(p(3), p(4)))
               /\ n \in {5, 6, 7} =>
                      Root(leaves) =
                          NodeHash(NodeHash(NodeHash(p(1), p(2)), NodeHash(p(3), p(4))),
                                   NodeHash(NodeHash(p(5), p(6)), NodeHash(p(7), p(8))))
<1> DEFINE n == Len(leaves)
           p(i) == Padded(leaves, i)
<1>1. n \in 0 .. 7
  BY FewLeaves
<1>2. n = 0 => Root(leaves) = <<2>>
  BY DEF Root
<1>3. ASSUME n # 0
      PROVE  \E f : /\ Root(leaves) = f[Height(n)][1]
                    /\ \A h \in 0 .. Height(n) : \A i \in 1 .. 2 ^ (Height(n) - h) :
                          f[h][i] = IF h = 0 THEN p(i)
                                    ELSE NodeHash(f[h - 1][2 * i - 1], f[h - 1][2 * i])
  <2>1. n \in 1 .. 7
    BY <1>1, <1>3
  <2> HIDE DEF n
  <2>2. Height(n) \in 0 .. 3
    BY <2>1, Heights
  <2>3. PICK f : Levels(leaves, Height(n), f) /\ Root(leaves) = f[Height(n)][1]
    BY <1>3, <2>2, RootIsTop DEF n
  <2>4. ASSUME NEW h \in 0 .. Height(n), NEW i \in 1 .. 2 ^ (Height(n) - h)
        PROVE  f[h][i] = IF h = 0 THEN p(i)
                         ELSE NodeHash(f[h - 1][2 * i - 1], f[h - 1][2 * i])
    <3>1. f[h] = IF h = 0
                 THEN [j \in 1 .. 2 ^ Height(n) |-> Padded(leaves, j)]
                 ELSE [j \in 1 .. 2 ^ (Height(n) - h) |->
                          NodeHash(f[h - 1][2 * j - 1], f[h - 1][2 * j])]
      BY <2>3 DEF Levels
    <3>2. h = 0 => Height(n) - h = Height(n)
      BY <2>2
    <3>3. CASE h = 0
      BY <3>1, <3>2, <3>3
    <3>4. CASE h # 0
      BY <3>1, <3>4
    <3>5. QED
      BY <3>3, <3>4
  <2>5. QED
    BY <2>3, <2>4
<1>4. ASSUME n # 0
      PROVE  \E f : /\ Root(leaves) = f[Height(n)][1]
                    /\ \A h \in 0 .. Height(n) : \A i \in 1 .. 2 ^ (Height(n) - h) :
                          f[h][i] = IF h = 0 THEN p(i)
                                    ELSE NodeHash(f[h - 1][2 * i - 1], f[h - 1][2 * i])
  BY <1>3, <1>4
<1> HIDE DEF p
<1>5. ASSUME n = 1  PROVE Root(leaves) = p(1)
  <2>1. Height(n) = 0
    BY <1>5, Heights
  <2>2. PICK f : /\ Root(leaves) = f[Height(n)][1]
                 /\ \A h \in 0 .. Height(n) : \A i \in 1 .. 2 ^ (Height(n) - h) :
                       f[h][i] = IF h = 0 THEN p(i)
                                 ELSE NodeHash(f[h - 1][2 * i - 1], f[h - 1][2 * i])
    BY <1>4, <1>5
  <2> HIDE DEF n
  <2>3. 0 \in 0 .. Height(n) /\ 1 \in 1 .. 2 ^ (Height(n) - 0)
    BY <2>1, PowersOfTwo
  <2>4. QED
    BY <2>1, <2>2, <2>3
<1>6. ASSUME n = 2  PROVE Root(leaves) = NodeHash(p(1), p(2))
  <2>1. Height(n) = 1
    BY <1>6, Heights
  <2>2. PICK f : /\ Root(leaves) = f[Height(n)][1]
                 /\ \A h \in 0 .. Height(n) : \A i \in 1 .. 2 ^ (Height(n) - h) :
                       f[h][i] = IF h = 0 THEN p(i)
                                 ELSE NodeHash(f[h - 1][2 * i - 1], f[h - 1][2 * i])
    BY <1>4, <1>6
  <2> HIDE DEF n
  <2>3. 2 ^ (1 - 0) = 2 /\ 2 ^ (1 - 1) = 1
    BY PowersOfTwo
  <2>4. \A i \in 1 .. 2 : f[0][i] = p(i)
    BY <2>1, <2>2, <2>3
  <2>5. \A i \in 1 .. 1 : f[1][i] = NodeHash(f[1 - 1][2 * i - 1], f[1 - 1][2 * i])
    BY <2>1, <2>2, <2>3
  <2>6. f[1][1] = NodeHash(f[0][1], f[0][2])
    BY <2>5
  <2>7. QED
    BY <2>1, <2>2, <2>4, <2>6
<1>7. ASSUME n \in {3, 4}
      PROVE  Root(leaves) = NodeHash(NodeHash(p(1), p(2)), NodeHash(p(3), p(4)))
  <2>0. n \in 1 .. 7 /\ n # 0 /\ n # 1 /\ n # 2 /\ (n <= 4 <=> n \in {3, 4})
    <3> HIDE DEF n
    <3>1. QED
      BY <1>1, <1>7
  <2>1. Height(n) = 2
    <3> HIDE DEF n
    <3>1. QED
      BY <1>7, <2>0, Heights
  <2>2. PICK f : /\ Root(leaves) = f[Height(n)][1]
                 /\ \A h \in 0 .. Height(n) : \A i \in 1 .. 2 ^ (Height(n) - h) :
                       f[h][i] = IF h = 0 THEN p(i)
                                 ELSE NodeHash(f[h - 1][2 * i - 1], f[h - 1][2 * i])
    BY <1>4, <2>0
  <2> HIDE DEF n
  <2>3. 2 ^ (2 - 0) = 4 /\ 2 ^ (2 - 1) = 2 /\ 2 ^ (2 - 2) = 1
    BY PowersOfTwo
  <2>4. \A i \in 1 .. 4 : f[0][i] = p(i)
    BY <2>1, <2>2, <2>3
  <2>5. \A i \in 1 .. 2 : f[1][i] = NodeHash(f[1 - 1][2 * i - 1], f[1 - 1][2 * i])
    BY <2>1, <2>2, <2>3
  <2>6. \A i \in 1 .. 1 : f[2][i] = NodeHash(f[2 - 1][2 * i - 1], f[2 - 1][2 * i])
    BY <2>1, <2>2, <2>3
  <2>7. /\ f[1][1] = NodeHash(f[0][1], f[0][2]) /\ f[1][2] = NodeHash(f[0][3], f[0][4])
        /\ f[2][1] = NodeHash(f[1][1], f[1][2])
    BY <2>5, <2>6
  <2>8. QED
    BY <2>1, <2>2, <2>4, <2>7
<1>8. ASSUME n \in {5, 6, 7}
      PROVE  Root(leaves) =
                 NodeHash(NodeHash(NodeHash(p(1), p(2)), NodeHash(p(3), p(4))),
                          NodeHash(NodeHash(p(5), p(6)), NodeHash(p(7), p(8))))
  <2>0. n \in 1 .. 7 /\ n # 0 /\ n # 1 /\ n # 2 /\ (n <= 4 <=> n \in {3, 4})
    <3> HIDE DEF n
    <3>1. QED
      BY <1>1, <1>8
  <2>1. Height(n) = 3
    <3> HIDE DEF n
    <3>1. QED
      BY <1>8, <2>0, Heights
  <2>2. PICK f : /\ Root(leaves) = f[Height(n)][1]
                 /\ \A h \in 0 .. Height(n) : \A i \in 1 .. 2 ^ (Height(n) - h) :
                       f[h][i] = IF h = 0 THEN p(i)
                                 ELSE NodeHash(f[h - 1][2 * i - 1], f[h - 1][2 * i])
    BY <1>4, <2>0
  <2> HIDE DEF n
  <2>3. 2 ^ (3 - 0) = 8 /\ 2 ^ (3 - 1) = 4 /\ 2 ^ (3 - 2) = 2 /\ 2 ^ (3 - 3) = 1
    BY PowersOfTwo
  <2>4. \A i \in 1 .. 8 : f[0][i] = p(i)
    BY <2>1, <2>2, <2>3
  <2>5. \A i \in 1 .. 4 : f[1][i] = NodeHash(f[1 - 1][2 * i - 1], f[1 - 1][2 * i])
    BY <2>1, <2>2, <2>3
  <2>6. \A i \in 1 .. 2 : f[2][i] = NodeHash(f[2 - 1][2 * i - 1], f[2 - 1][2 * i])
    BY <2>1, <2>2, <2>3
  <2>7. \A i \in 1 .. 1 : f[3][i] = NodeHash(f[3 - 1][2 * i - 1], f[3 - 1][2 * i])
    BY <2>1, <2>2, <2>3
  <2>8. /\ f[1][1] = NodeHash(f[0][1], f[0][2]) /\ f[1][2] = NodeHash(f[0][3], f[0][4])
        /\ f[1][3] = NodeHash(f[0][5], f[0][6]) /\ f[1][4] = NodeHash(f[0][7], f[0][8])
        /\ f[2][1] = NodeHash(f[1][1], f[1][2]) /\ f[2][2] = NodeHash(f[1][3], f[1][4])
        /\ f[3][1] = NodeHash(f[2][1], f[2][2])
    BY <2>5, <2>6, <2>7
  <2>9. QED
    BY <2>1, <2>2, <2>4, <2>8
<1>9. QED
  BY <1>2, <1>5, <1>6, <1>7, <1>8 DEF p, n

\* Lists of claims without a key twice have one root only if they are the same claims, in
\* whatever order they are given (_build_merkle_tree).
THEOREM RootBinds ==
    ASSUME NEW a \in Seq(Leaves), NEW b \in Seq(Leaves), UniqueLeaves(a), UniqueLeaves(b),
           Root(a) = Root(b)
    PROVE  ToSet(a) = ToSet(b)
<1> DEFINE m == Len(a)
           n == Len(b)
           Level(size) == /\ m <= size /\ n <= size /\ m # 0 /\ n # 0
                          /\ \A i \in 1 .. size : Padded(a, i) = Padded(b, i)
<1>1. m \in 0 .. 7 /\ n \in 0 .. 7
  BY FewLeaves
<1>2. (m = 0 /\ n = 0) \/ \E size \in 1 .. 8 : Level(size)
  <2> DEFINE p(i) == Padded(a, i)
             q(i) == Padded(b, i)
  <2>1. /\ m = 0 => Root(a) = <<2>>
        /\ m = 1 => Root(a) = p(1)
        /\ m = 2 => Root(a) = NodeHash(p(1), p(2))
        /\ m \in {3, 4} => Root(a) = NodeHash(NodeHash(p(1), p(2)), NodeHash(p(3), p(4)))
        /\ m \in {5, 6, 7} =>
               Root(a) = NodeHash(NodeHash(NodeHash(p(1), p(2)), NodeHash(p(3), p(4))),
                                  NodeHash(NodeHash(p(5), p(6)), NodeHash(p(7), p(8))))
    BY RootCases
  <2>2. /\ n = 0 => Root(b) = <<2>>
        /\ n = 1 => Root(b) = q(1)
        /\ n = 2 => Root(b) = NodeHash(q(1), q(2))
        /\ n \in {3, 4} => Root(b) = NodeHash(NodeHash(q(1), q(2)), NodeHash(q(3), q(4)))
        /\ n \in {5, 6, 7} =>
               Root(b) = NodeHash(NodeHash(NodeHash(q(1), q(2)), NodeHash(q(3), q(4))),
                                  NodeHash(NodeHash(q(5), q(6)), NodeHash(q(7), q(8))))
    BY RootCases
  <2>3. /\ \A i : \A y, z : p(i) # NodeHash(y, z) /\ q(i) # NodeHash(y, z)
        /\ \A i : p(i) # <<2>> /\ q(i) # <<2>>
    BY HashFacts DEF Padded
  <2>4. \A i : p(i) = Padded(a, i) /\ q(i) = Padded(b, i)
    OBVIOUS
  <2> HIDE DEF p, q, m, n
  <2>5. CASE m = 0
    BY <1>1, <2>1, <2>2, <2>3, <2>5, HashFacts
  <2>6. CASE m = 1
    <3>1. n = 1 /\ p(1) = q(1)
      BY <1>1, <2>1, <2>2, <2>3, <2>6, HashFacts
    <3>2. Level(1)
      BY <2>4, <2>6, <3>1
    <3>3. QED
      BY <3>2
  <2>7. CASE m = 2
    <3>1. n = 2 /\ p(1) = q(1) /\ p(2) = q(2)
      BY <1>1, <2>1, <2>2, <2>3, <2>7, HashFacts
    <3>2. Level(2)
      BY <2>4, <2>7, <3>1
    <3>3. QED
      BY <3>2
  <2>8. CASE m \in {3, 4}
    <3>1. /\ n \in {3, 4}
          /\ p(1) = q(1) /\ p(2) = q(2) /\ p(3) = q(3) /\ p(4) = q(4)
      BY <1>1, <2>1, <2>2, <2>3, <2>8, HashFacts
    <3>2. \A i \in 1 .. 4 : p(i) = q(i)
      <4>1. \A i \in 1 .. 4 : i \in {1, 2, 3, 4}
        OBVIOUS
      <4>2. QED
        BY <3>1, <4>1
    <3>3. m <= 4 /\ n <= 4 /\ m # 0 /\ n # 0
      BY <2>8, <3>1
    <3>4. Level(4)
      BY <2>4, <3>2, <3>3
    <3>5. QED
      BY <3>4
  <2>9. CASE m \in {5, 6, 7}
    <3>1. /\ n \in {5, 6, 7}
          /\ p(1) = q(1) /\ p(2) = q(2) /\ p(3) = q(3) /\ p(4) = q(4)
          /\ p(5) = q(5) /\ p(6) = q(6) /\ p(7) = q(7) /\ p(8) = q(8)
      BY <1>1, <2>1, <2>2, <2>3, <2>9, HashFacts
    <3>2. \A i \in 1 .. 8 : p(i) = q(i)
      <4>1. \A i \in 1 .. 8 : i \in {1, 2, 3, 4, 5, 6, 7, 8}
        OBVIOUS
      <4>2. QED
        BY <3>1, <4>1
    <3>3. m <= 8 /\ n <= 8 /\ m # 0 /\ n # 0
      BY <2>9, <3>1
    <3>4. Level(8)
      BY <2>4, <3>2, <3>3
    <3>5. QED
      BY <3>4
  <2>10. QED
    BY <1>1, <2>5, <2>6, <2>7, <2>8, <2>9
<1>3. CASE m = 0 /\ n = 0
  BY <1>3 DEF ToSet
<1>4. ASSUME NEW size \in 1 .. 8, Level(size)  PROVE ToSet(a) = ToSet(b)
  <2> DEFINE at(last, i) == IF i <= last THEN i ELSE last
  <2>1. \A i \in 1 .. size : Sorted(a)[at(m, i)] = Sorted(b)[at(n, i)]
    BY <1>4, HashFacts DEF Padded
  <2>2. \A i \in 1 .. size : at(m, i) \in 1 .. m /\ at(n, i) \in 1 .. n
    BY <1>1, <1>4
  <2>3. /\ \A r \in 1 .. m : r \in 1 .. size /\ at(m, r) = r
        /\ \A r \in 1 .. n : r \in 1 .. size /\ at(n, r) = r
    BY <1>1, <1>4
  <2> HIDE DEF at
  <2>4. /\ ToSet(a) = {Sorted(a)[r] : r \in 1 .. m}
        /\ ToSet(b) = {Sorted(b)[r] : r \in 1 .. n}
    BY SortedSet
  <2>5. \A r \in 1 .. m : \E k \in 1 .. n : Sorted(a)[r] = Sorted(b)[k]
    BY <2>1, <2>2, <2>3
  <2>6. \A r \in 1 .. n : \E k \in 1 .. m : Sorted(b)[r] = Sorted(a)[k]
    BY <2>1, <2>2, <2>3
  <2>7. ToSet(a) \subseteq ToSet(b)
    BY <2>4, <2>5
  <2>8. ToSet(b) \subseteq ToSet(a)
    BY <2>4, <2>6
  <2>9. QED
    BY <2>7, <2>8
<1>5. QED
  BY <1>2, <1>3, <1>4

\* The same claims in another order have the same root.
LEMMA RootSame ==
    ASSUME NEW a \in Seq(Leaves), NEW b \in Seq(Leaves), UniqueLeaves(a), UniqueLeaves(b),
           ToSet(a) = ToSet(b)
    PROVE  Root(a) = Root(b)
<1> DEFINE m == Len(a)
           n == Len(b)
<1>1. m = n /\ m \in 0 .. 7
  BY SortedSame, FewLeaves
<1>2. \A i : Padded(a, i) = Padded(b, i)
  BY SortedSame DEF Padded
<1> DEFINE p(i) == Padded(a, i)
<1>3. /\ m = 0 => Root(a) = <<2>>
      /\ m = 1 => Root(a) = p(1)
      /\ m = 2 => Root(a) = NodeHash(p(1), p(2))
      /\ m \in {3, 4} => Root(a) = NodeHash(NodeHash(p(1), p(2)), NodeHash(p(3), p(4)))
      /\ m \in {5, 6, 7} =>
             Root(a) = NodeHash(NodeHash(NodeHash(p(1), p(2)), NodeHash(p(3), p(4))),
                                NodeHash(NodeHash(p(5), p(6)), NodeHash(p(7), p(8))))
  BY RootCases
<1> DEFINE q(i) == Padded(b, i)
<1>4. /\ n = 0 => Root(b) = <<2>>
      /\ n = 1 => Root(b) = q(1)
      /\ n = 2 => Root(b) = NodeHash(q(1), q(2))
      /\ n \in {3, 4} => Root(b) = NodeHash(NodeHash(q(1), q(2)), NodeHash(q(3), q(4)))
      /\ n \in {5, 6, 7} =>
             Root(b) = NodeHash(NodeHash(NodeHash(q(1), q(2)), NodeHash(q(3), q(4))),
                                NodeHash(NodeHash(q(5), q(6)), NodeHash(q(7), q(8))))
  BY RootCases
<1>5. \A i : p(i) = q(i)
  BY <1>2
<1> HIDE DEF p, q, m, n
<1>6. QED
  BY <1>1, <1>3, <1>4, <1>5

-----------------------------------------------------------------------------
(* The mask *)

\* There are finitely many keys.
LEMMA KeysFinite == IsFiniteSet(KeyNames)
<1>1. KeyOrder \in Surjection(1 .. 7, KeyNames)
  <2>1. DOMAIN KeyOrder = 1 .. 7 /\ KeyOrder = [i \in 1 .. 7 |-> KeyOrder[i]]
    BY DEF KeyOrder
  <2> HIDE DEF KeyOrder
  <2>2. QED
    BY <2>1 DEF KeyNames, ToSet, Surjection
<1>2. IsFiniteSet(1 .. 7)
  BY SizeUpTo
<1>3. QED
  BY <1>1, <1>2, FS_Surjection

\* The normalized mask has the keys of the mask.
LEMMA MaskKeys ==
    ASSUME NEW mask \in Seq(KeyNames)
    PROVE  /\ NormalizedMask(mask) \in Seq(KeyNames)
           /\ ToSet(NormalizedMask(mask)) = ToSet(mask)
<1> DEFINE S == ToSet(mask)
           place == [k \in S |-> Place(k)]
           normal == NormalizedMask(mask)
<1>1. S \in SUBSET KeyNames
  BY DEF ToSet
<1>2. IsFiniteSet(S) /\ Cardinality(S) \in Nat
  <2> HIDE DEF S
  <2>1. IsFiniteSet(S)
    BY <1>1, KeysFinite, FS_Subset
  <2>2. QED
    BY <2>1, FS_CardinalityType
<1>3. place \in [S -> Nat] /\ \A k, l \in S : place[k] = place[l] => k = l
  <2> HIDE DEF S
  <2>1. \A k \in S : Place(k) \in Nat
    BY <1>1, PlaceFacts
  <2>2. QED
    BY <1>1, <2>1, PlaceFacts
<1>4. normal = ByPlace(place)
  BY DEF NormalizedMask
<1> HIDE DEF S, place, normal
<1>5. /\ normal \in [1 .. Cardinality(S) -> S]
      /\ \A k \in S : RankIn(place, k) \in 1 .. Cardinality(S) /\ normal[RankIn(place, k)] = k
  BY <1>2, <1>3, <1>4, ByPlaceFacts
<1>6. DOMAIN normal = 1 .. Cardinality(S) /\ ToSet(normal) = {normal[r] : r \in 1 .. Cardinality(S)}
  BY <1>5 DEF ToSet
<1>7. ToSet(normal) \subseteq S
  BY <1>5, <1>6
<1>8. S \subseteq ToSet(normal)
  BY <1>5, <1>6
<1>9. normal \in Seq(KeyNames)
  <2>1. normal \in [1 .. Cardinality(S) -> KeyNames]
    BY <1>1, <1>5
  <2>2. QED
    BY <1>2, <2>1
<1>10. QED
  BY <1>7, <1>8, <1>9 DEF S, normal

\* A normalized mask tells which keys the mask has and nothing else
\* (_normalize_critical_mask).
THEOREM MaskBinds ==
    ASSUME NEW a \in Seq(KeyNames), NEW b \in Seq(KeyNames)
    PROVE  NormalizedMask(a) = NormalizedMask(b) <=> ToSet(a) = ToSet(b)
<1>1. NormalizedMask(a) = NormalizedMask(b) => ToSet(a) = ToSet(b)
  <2>1. /\ ToSet(NormalizedMask(a)) = ToSet(a)
        /\ ToSet(NormalizedMask(b)) = ToSet(b)
    BY MaskKeys
  <2>2. QED
    BY <2>1
<1>2. ToSet(a) = ToSet(b) => NormalizedMask(a) = NormalizedMask(b)
  BY DEF NormalizedMask
<1>3. QED
  BY <1>1, <1>2

-----------------------------------------------------------------------------
(* What is signed *)

\* The keys are those of the leaves, and a key that is there has a leaf with its value.
LEMMA LeafFacts ==
    ASSUME NEW leaves \in Seq(Leaves)
    PROVE  /\ \A k : k \in KeysOf(leaves) <=> \E l \in ToSet(leaves) : l[1] = k
           /\ \A k \in KeysOf(leaves) : \E l \in ToSet(leaves) :
                 l[1] = k /\ l[2] = ValueOf(leaves, k)
<1>1. \A i \in DOMAIN leaves : leaves[i] \in ToSet(leaves)
  BY DEF ToSet
<1>2. \A l \in ToSet(leaves) : \E i \in DOMAIN leaves : l = leaves[i]
  BY DEF ToSet
<1>3. ASSUME NEW k \in KeysOf(leaves)
      PROVE  \E l \in ToSet(leaves) : l[1] = k /\ l[2] = ValueOf(leaves, k)
  <2> DEFINE at == CHOOSE i \in DOMAIN leaves : leaves[i][1] = k
  <2>1. \E i \in DOMAIN leaves : leaves[i][1] = k
    BY DEF KeysOf
  <2>2. at \in DOMAIN leaves /\ leaves[at][1] = k
    BY <2>1
  <2>3. ValueOf(leaves, k) = leaves[at][2]
    BY DEF ValueOf
  <2> HIDE DEF at
  <2>4. QED
    BY <1>1, <2>2, <2>3
<1>4. QED
  BY <1>1, <1>2, <1>3 DEF KeysOf

\* No two leaves have one key: what that says of the set of the leaves.
LEMMA OneLeaf ==
    ASSUME NEW leaves \in Seq(Leaves), UniqueLeaves(leaves),
           NEW l \in ToSet(leaves), NEW m \in ToSet(leaves), l[1] = m[1]
    PROVE  l = m
<1>1. PICK i \in DOMAIN leaves : l = leaves[i]
  BY DEF ToSet
<1>2. PICK j \in DOMAIN leaves : m = leaves[j]
  BY DEF ToSet
<1>3. QED
  BY <1>1, <1>2 DEF UniqueLeaves

\* A leaf with a new key.
LEMMA LeafAdded ==
    ASSUME NEW leaves \in Seq(Leaves), UniqueLeaves(leaves),
           NEW l \in Leaves, l[1] \notin KeysOf(leaves)
    PROVE  /\ Append(leaves, l) \in Seq(Leaves) /\ UniqueLeaves(Append(leaves, l))
           /\ ToSet(Append(leaves, l)) = ToSet(leaves) \cup {l}
           /\ KeysOf(Append(leaves, l)) = KeysOf(leaves) \cup {l[1]}
<1> DEFINE a == Append(leaves, l)
           n == Len(leaves)
<1>1. /\ a \in Seq(Leaves) /\ n \in Nat /\ DOMAIN leaves = 1 .. n /\ DOMAIN a = 1 .. n + 1
      /\ \A i \in 1 .. n : a[i] = leaves[i]
      /\ a[n + 1] = l
  OBVIOUS
<1> HIDE DEF a, n
<1>2. \A i \in 1 .. n + 1 : i \in 1 .. n \/ i = n + 1
  BY <1>1
<1>3. \A i \in 1 .. n : i \in 1 .. n + 1
  BY <1>1
<1>4. n + 1 \in 1 .. n + 1
  BY <1>1
<1>5. ToSet(a) = ToSet(leaves) \cup {l}
  <2>1. \A x : x \in ToSet(a) <=> \E i \in 1 .. n + 1 : x = a[i]
    BY <1>1 DEF ToSet
  <2>2. \A x : x \in ToSet(leaves) <=> \E i \in 1 .. n : x = leaves[i]
    BY <1>1 DEF ToSet
  <2>3. \A x : x \in ToSet(a) <=> x \in ToSet(leaves) \/ x = l
    BY <1>1, <1>2, <1>3, <1>4, <2>1, <2>2
  <2>4. QED
    BY <2>3
<1>6. UniqueLeaves(a)
  <2>1. \A i \in 1 .. n : leaves[i][1] # l[1]
    BY <1>1 DEF KeysOf
  <2>2. ASSUME NEW i \in 1 .. n + 1, NEW j \in 1 .. n + 1, a[i][1] = a[j][1]  PROVE i = j
    <3>1. CASE i \in 1 .. n /\ j \in 1 .. n
      BY <1>1, <2>2, <3>1 DEF UniqueLeaves
    <3>2. CASE i = n + 1 \/ j = n + 1
      BY <1>1, <1>2, <2>1, <2>2, <3>2
    <3>3. QED
      BY <1>2, <3>1, <3>2
  <2>3. QED
    BY <1>1, <2>2 DEF UniqueLeaves
<1>7. KeysOf(a) = KeysOf(leaves) \cup {l[1]}
  <2>1. \A k : k \in KeysOf(a) <=> \E m \in ToSet(a) : m[1] = k
    BY <1>1, LeafFacts
  <2>2. \A k : k \in KeysOf(leaves) <=> \E m \in ToSet(leaves) : m[1] = k
    BY LeafFacts
  <2>3. QED
    BY <1>5, <2>1, <2>2
<1>8. QED
  BY <1>1, <1>5, <1>6, <1>7 DEF a

\* What entry n of the caller's leaves and mask adds to the leaves so far.
Entered(request, metadata, default, n, leaves) ==
    IF n > Len(request.leaves)
    THEN Added(leaves, request.mask[n - Len(request.leaves)], metadata, default)
    ELSE IF request.leaves[n][1] \in Metadata THEN leaves
    ELSE Append(leaves, request.leaves[n])

\* d holds the leaves after each of the first k entries.
DoneUpTo(request, metadata, default, k, d) ==
    d = [n \in 0 .. k |->
            IF n = 0 THEN << >> ELSE Entered(request, metadata, default, n, d[n - 1])]

\* The equation at one of these numbers.
LEMMA DoneUpToAt ==
    ASSUME NEW r, NEW m, NEW v, NEW d, NEW k \in Nat, DoneUpTo(r, m, v, k, d), NEW n \in 0 .. k
    PROVE  d[n] = IF n = 0 THEN << >> ELSE Entered(r, m, v, n, d[n - 1])
  BY DEF DoneUpTo

\* The recursion of Completed can be carried as far as one likes.
LEMMA DoneUpToExists ==
    ASSUME NEW r, NEW m, NEW v
    PROVE  \A k \in Nat : \E d : DoneUpTo(r, m, v, k, d)
<1> DEFINE Missing == {k \in Nat : ~ \E d : DoneUpTo(r, m, v, k, d)}
<1> SUFFICES ASSUME Missing # {}  PROVE FALSE
  OBVIOUS
<1>1. PICK k \in Missing : \A i \in Missing : k <= i
  <2> HIDE DEF Missing
  <2>1. Missing \in SUBSET Nat
    BY DEF Missing
  <2>2. QED
    BY <2>1, LeastNumber
<1>2. CASE k = 0
  <2> DEFINE d == [n \in 0 .. 0 |-> << >>]
  <2>1. DoneUpTo(r, m, v, 0, d)
    BY DEF DoneUpTo
  <2>2. QED
    BY <1>1, <1>2, <2>1
<1>3. CASE k # 0
  <2>1. k - 1 \in Nat /\ k - 1 \notin Missing
    BY <1>1, <1>3
  <2>2. PICK d : DoneUpTo(r, m, v, k - 1, d)
    BY <2>1
  <2> DEFINE last == Entered(r, m, v, k, d[k - 1])
             more == [n \in 0 .. k |-> IF n = k THEN last ELSE d[n]]
  <2>3. \A n \in 0 .. k - 1 : more[n] = d[n]
    BY <2>1
  <2>4. ASSUME NEW n \in 0 .. k
        PROVE  more[n] = IF n = 0 THEN << >> ELSE Entered(r, m, v, n, more[n - 1])
    <3>1. CASE n = k
      <4>1. more[n] = last /\ k - 1 \in 0 .. k - 1
        BY <2>1, <3>1
      <4> HIDE DEF more
      <4>2. more[k - 1] = d[k - 1]
        BY <2>3, <4>1
      <4>3. QED
        BY <1>3, <3>1, <4>1, <4>2
    <3>2. CASE n # k
      <4>1. n \in 0 .. k - 1 /\ (n # 0 => n - 1 \in 0 .. k - 1)
        BY <3>2
      <4> HIDE DEF more, last
      <4>2. d[n] = IF n = 0 THEN << >> ELSE Entered(r, m, v, n, d[n - 1])
        BY <2>1, <2>2, <4>1, DoneUpToAt
      <4>3. QED
        BY <2>3, <4>1, <4>2
    <3>3. QED
      BY <3>1, <3>2
  <2>5. more = [n \in 0 .. k |-> more[n]]
    OBVIOUS
  <2> HIDE DEF more, last
  <2>6. DoneUpTo(r, m, v, k, more)
    BY <2>4, <2>5 DEF DoneUpTo
  <2>7. QED
    BY <1>1, <2>6
<1>4. QED
  BY <1>2, <1>3

\* Completed is the last of these.
LEMMA CompletedIsDone ==
    ASSUME NEW r, NEW m, NEW v, Len(r.leaves) + Len(r.mask) \in Nat
    PROVE  \E d : /\ DoneUpTo(r, m, v, Len(r.leaves) + Len(r.mask), d)
                  /\ Completed(r, m, v) = d[Len(r.leaves) + Len(r.mask)]
<1> DEFINE total == Len(r.leaves) + Len(r.mask)
           done == CHOOSE d : DoneUpTo(r, m, v, total, d)
<1>1. Completed(r, m, v) = done[total]
  BY DEF Completed, DoneUpTo, Entered
<1>2. DoneUpTo(r, m, v, total, done)
  BY DoneUpToExists
<1>3. QED
  BY <1>1, <1>2

\* The leaves and the mask of a request.
Asked(r) == r.leaves \in Seq(Leaves) /\ r.mask \in Seq(KeyNames)

\* The leaves after n entries: where each is from, and which keys are there.
SoFar(r, m, v, n, leaves) ==
    /\ leaves \in Seq(Leaves) /\ UniqueLeaves(leaves)
    /\ \A l \in ToSet(leaves) :
          \/ l[1] \in Metadata /\ l[2] = m[l[1]]
          \/ l[1] \notin Metadata /\ l \in ToSet(r.leaves)
          \/ l[1] \in KeyDefaults \ KeysOf(r.leaves) /\ l[2] = v[l[1]]
    /\ n <= Len(r.leaves) =>
          \A k : k \in KeysOf(leaves) <=>
                    k \notin Metadata /\ \E i \in 1 .. n : r.leaves[i][1] = k
    /\ n >= Len(r.leaves) => KeysOf(r.leaves) \ Metadata \subseteq KeysOf(leaves)
    /\ \A i \in 1 .. n - Len(r.leaves) : r.mask[i] \in KeysOf(leaves)

\* The keys that sign_mcc knows, and that none is both metadata and an agent's.
LEMMA KeySets ==
    /\ Metadata \subseteq KeyNames /\ KeyDefaults \subseteq KeyNames
    /\ Metadata \cap KeyDefaults = {}
<1>1. /\ KeyOrder[1] = "agent_name" /\ KeyOrder[2] = "agent_pk" /\ KeyOrder[3] = "agent_sign_pk"
      /\ KeyOrder[4] = "authority_id" /\ KeyOrder[5] = "expiry_date"
      /\ KeyOrder[6] = "mcc_version" /\ KeyOrder[7] = "serial_number"
      /\ DOMAIN KeyOrder = 1 .. 7
  BY DEF KeyOrder
<1> HIDE DEF KeyOrder
<1>2. \A i \in 1 .. 7 : KeyOrder[i] \in KeyNames
  BY <1>1 DEF KeyNames, ToSet
<1>3. KeyOrder[2] \in KeyNames /\ KeyOrder[3] \in KeyNames /\ KeyOrder[4] \in KeyNames
      /\ KeyOrder[5] \in KeyNames /\ KeyOrder[6] \in KeyNames /\ KeyOrder[7] \in KeyNames
  BY <1>2
<1>4. QED
  BY <1>1, <1>3 DEF Metadata, KeyDefaults

\* The elements of a list.
LEMMA SeqFacts ==
    ASSUME NEW T, NEW s \in Seq(T)
    PROVE  /\ Len(s) \in Nat /\ DOMAIN s = 1 .. Len(s)
           /\ \A i \in DOMAIN s : s[i] \in T /\ s[i] \in ToSet(s)
  BY DEF ToSet

\* Every entry keeps it so.
LEMMA SoFarStep ==
    ASSUME NEW r, Asked(r), Whole(r), NEW m \in [Metadata -> Nat], NEW v \in [KeyDefaults -> Nat],
           NEW n \in 1 .. Len(r.leaves) + Len(r.mask), NEW leaves, SoFar(r, m, v, n - 1, leaves)
    PROVE  SoFar(r, m, v, n, Entered(r, m, v, n, leaves))
<1> DEFINE given == Len(r.leaves)
           asked == Len(r.mask)
           more == Entered(r, m, v, n, leaves)
           From(l) == \/ l[1] \in Metadata /\ l[2] = m[l[1]]
                      \/ l[1] \notin Metadata /\ l \in ToSet(r.leaves)
                      \/ l[1] \in KeyDefaults \ KeysOf(r.leaves) /\ l[2] = v[l[1]]
           GivenSoFar(k, i) == k \notin Metadata /\ \E j \in 1 .. i : r.leaves[j][1] = k
<1>0. r.leaves \in Seq(Leaves) /\ r.mask \in Seq(KeyNames)
  BY DEF Asked
<1>1. /\ given \in Nat /\ DOMAIN r.leaves = 1 .. given /\ asked \in Nat
      /\ DOMAIN r.mask = 1 .. asked /\ n \in Nat /\ n # 0 /\ n <= given + asked
  <2>1. /\ given \in Nat /\ DOMAIN r.leaves = 1 .. given
        /\ asked \in Nat /\ DOMAIN r.mask = 1 .. asked
    BY <1>0, SeqFacts
  <2>2. n \in 1 .. given + asked
    OBVIOUS
  <2> HIDE DEF given, asked
  <2>3. QED
    BY <2>1, <2>2
<1>2. /\ leaves \in Seq(Leaves) /\ UniqueLeaves(leaves)
      /\ \A l \in ToSet(leaves) : From(l)
      /\ n - 1 <= given => \A k : k \in KeysOf(leaves) <=> GivenSoFar(k, n - 1)
      /\ n - 1 >= given => KeysOf(r.leaves) \ Metadata \subseteq KeysOf(leaves)
      /\ \A i \in 1 .. n - 1 - given : r.mask[i] \in KeysOf(leaves)
  BY DEF SoFar
<1>3. \A k : k \in KeysOf(r.leaves) <=> \E j \in 1 .. given : r.leaves[j][1] = k
  BY <1>1 DEF KeysOf
<1>4. more = Entered(r, m, v, n, leaves)
  OBVIOUS
<1>5. SoFar(r, m, v, n, more) <=>
          /\ more \in Seq(Leaves) /\ UniqueLeaves(more)
          /\ \A l \in ToSet(more) : From(l)
          /\ n <= given => \A k : k \in KeysOf(more) <=> GivenSoFar(k, n)
          /\ n >= given => KeysOf(r.leaves) \ Metadata \subseteq KeysOf(more)
          /\ \A i \in 1 .. n - given : r.mask[i] \in KeysOf(more)
  BY DEF SoFar
<1> SUFFICES SoFar(r, m, v, n, more)
  OBVIOUS
<1> HIDE DEF given, asked, more, From
<1>6. \A i : i \in 1 .. n <=> i \in 1 .. n - 1 \/ i = n
  BY <1>1
<1>7. ASSUME n <= given, \A k : k \in KeysOf(more) <=> GivenSoFar(k, n)
      PROVE  /\ n >= given => KeysOf(r.leaves) \ Metadata \subseteq KeysOf(more)
             /\ \A i \in 1 .. n - given : r.mask[i] \in KeysOf(more)
  <2>1. n >= given => n = given
    BY <1>1, <1>7
  <2>2. n >= given => KeysOf(r.leaves) \ Metadata \subseteq KeysOf(more)
    BY <1>3, <1>7, <2>1
  <2>3. 1 .. n - given = {}
    BY <1>1, <1>7
  <2>4. QED
    BY <2>2, <2>3
<1>8. CASE n <= given /\ r.leaves[n][1] \in Metadata
  <2>1. more = leaves
    BY <1>1, <1>4, <1>8 DEF Entered, given
  <2>2. n - 1 <= given
    BY <1>1, <1>8
  <2>3. \A k : k \in KeysOf(more) <=> GivenSoFar(k, n)
    <3>1. \A k : GivenSoFar(k, n) <=> GivenSoFar(k, n - 1)
      BY <1>6, <1>8
    <3> HIDE DEF GivenSoFar
    <3>2. QED
      BY <1>2, <2>1, <2>2, <3>1
  <2>4. /\ n >= given => KeysOf(r.leaves) \ Metadata \subseteq KeysOf(more)
        /\ \A i \in 1 .. n - given : r.mask[i] \in KeysOf(more)
    BY <1>7, <1>8, <2>3
  <2> HIDE DEF GivenSoFar
  <2>5. /\ more \in Seq(Leaves) /\ UniqueLeaves(more)
        /\ \A l \in ToSet(more) : From(l)
    BY <1>2, <2>1
  <2>6. QED
    BY <1>5, <2>3, <2>4, <2>5
<1>9. CASE n <= given /\ r.leaves[n][1] \notin Metadata
  <2> DEFINE l == r.leaves[n]
  <2>1. more = Append(leaves, l)
    BY <1>1, <1>4, <1>9 DEF Entered, given
  <2>2. n - 1 <= given /\ n \in DOMAIN r.leaves
    BY <1>1, <1>9
  <2>3. l \in Leaves /\ l \in ToSet(r.leaves)
    BY <1>0, <2>2, SeqFacts
  <2>4. l[1] \notin KeysOf(leaves)
    <3>1. ASSUME NEW j \in 1 .. n - 1, r.leaves[j][1] = l[1]  PROVE FALSE
      <4>1. j \in DOMAIN r.leaves /\ j # n
        BY <1>1, <2>2
      <4>2. QED
        BY <1>9, <2>2, <3>1, <4>1 DEF Whole
    <3>2. QED
      BY <1>2, <2>2, <3>1
  <2>5. /\ more \in Seq(Leaves) /\ UniqueLeaves(more)
        /\ ToSet(more) = ToSet(leaves) \cup {l}
        /\ KeysOf(more) = KeysOf(leaves) \cup {l[1]}
    BY <1>2, <2>1, <2>3, <2>4, LeafAdded
  <2>6. \A k : k \in KeysOf(more) <=> GivenSoFar(k, n)
    <3>1. \A k : GivenSoFar(k, n) <=> GivenSoFar(k, n - 1) \/ k = l[1]
      BY <1>6, <1>9
    <3>2. \A k : k \in KeysOf(leaves) <=> GivenSoFar(k, n - 1)
      BY <1>2, <2>2
    <3> HIDE DEF GivenSoFar
    <3>3. QED
      BY <2>5, <3>1, <3>2
  <2>7. /\ n >= given => KeysOf(r.leaves) \ Metadata \subseteq KeysOf(more)
        /\ \A i \in 1 .. n - given : r.mask[i] \in KeysOf(more)
    BY <1>7, <1>9, <2>6
  <2> HIDE DEF GivenSoFar
  <2>8. From(l)
    BY <1>9, <2>3 DEF From
  <2> HIDE DEF l
  <2>9. \A x \in ToSet(more) : From(x)
    BY <1>2, <2>5, <2>8
  <2>10. QED
    BY <1>5, <2>5, <2>6, <2>7, <2>9
<1>10. CASE ~ (n <= given)
  <2> DEFINE k == r.mask[n - given]
  <2>1. n > given /\ n - 1 >= given /\ n - given \in DOMAIN r.mask
    BY <1>1, <1>10
  <2>2. more = Added(leaves, k, m, v)
    BY <1>4, <2>1 DEF Entered, given
  <2>3. k \in KeyNames /\ k \in Metadata \cup KeyDefaults \cup KeysOf(r.leaves)
    <3>1. k \in KeyNames /\ k \in ToSet(r.mask)
      BY <1>0, <2>1, SeqFacts
    <3>2. QED
      BY <3>1 DEF Whole
  <2>4. KeysOf(r.leaves) \ Metadata \subseteq KeysOf(leaves)
    BY <1>2, <2>1
  <2> HIDE DEF k
  <2>5. /\ more \in Seq(Leaves) /\ UniqueLeaves(more)
        /\ \A l \in ToSet(more) : From(l)
        /\ KeysOf(more) = KeysOf(leaves) \cup {k}
    <3>1. CASE k \in Metadata \ KeysOf(leaves)
      <4> DEFINE l == <<k, m[k]>>
      <4>1. more = Append(leaves, l)
        BY <2>2, <3>1 DEF Added
      <4>2. l \in Leaves /\ l[1] = k /\ l[2] = m[k]
        BY <2>3, <3>1 DEF Leaves
      <4>3. From(l)
        BY <3>1, <4>2 DEF From
      <4> HIDE DEF l
      <4>4. /\ more \in Seq(Leaves) /\ UniqueLeaves(more)
            /\ ToSet(more) = ToSet(leaves) \cup {l}
            /\ KeysOf(more) = KeysOf(leaves) \cup {l[1]}
        BY <1>2, <3>1, <4>1, <4>2, LeafAdded
      <4>5. QED
        BY <1>2, <4>2, <4>3, <4>4
    <3>2. CASE k \in KeyDefaults \ KeysOf(leaves)
      <4> DEFINE l == <<k, v[k]>>
      <4>1. more = Append(leaves, l)
        BY <2>2, <3>2, KeySets DEF Added
      <4>2. l \in Leaves /\ l[1] = k /\ l[2] = v[k]
        BY <2>3, <3>2 DEF Leaves
      <4>3. From(l)
        <5>1. k \notin KeysOf(r.leaves)
          BY <2>4, <3>2, KeySets
        <5>2. QED
          BY <3>2, <4>2, <5>1 DEF From
      <4> HIDE DEF l
      <4>4. /\ more \in Seq(Leaves) /\ UniqueLeaves(more)
            /\ ToSet(more) = ToSet(leaves) \cup {l}
            /\ KeysOf(more) = KeysOf(leaves) \cup {l[1]}
        BY <1>2, <3>2, <4>1, <4>2, LeafAdded
      <4>5. QED
        BY <1>2, <4>2, <4>3, <4>4
    <3>3. CASE k \notin Metadata \ KeysOf(leaves) /\ k \notin KeyDefaults \ KeysOf(leaves)
      <4>1. more = leaves
        BY <2>2, <3>3 DEF Added
      <4>2. k \in KeysOf(leaves)
        BY <2>3, <2>4, <3>3
      <4>3. QED
        BY <1>2, <4>1, <4>2
    <3>4. QED
      BY <3>1, <3>2, <3>3
  <2>6. \A i \in 1 .. n - given : r.mask[i] \in KeysOf(more)
    <3>1. \A i \in 1 .. n - given : i \in 1 .. n - 1 - given \/ i = n - given
      BY <1>1, <2>1
    <3>2. QED
      BY <1>2, <2>5, <3>1 DEF k
  <2>7. KeysOf(r.leaves) \ Metadata \subseteq KeysOf(more)
    BY <2>4, <2>5
  <2> HIDE DEF GivenSoFar
  <2>8. /\ n <= given => \A x : x \in KeysOf(more) <=> GivenSoFar(x, n)
        /\ n >= given => KeysOf(r.leaves) \ Metadata \subseteq KeysOf(more)
    BY <1>10, <2>7
  <2>9. QED
    BY <1>5, <2>5, <2>6, <2>8
<1>11. QED
  BY <1>8, <1>9, <1>10

\* What sign_mcc signs when the request is whole: no key twice, every key of the mask,
\* and each leaf is metadata, the caller's, or a key that the caller has not given.
LEMMA CompletedFacts ==
    ASSUME NEW r, Asked(r), Whole(r), NEW m \in [Metadata -> Nat], NEW v \in [KeyDefaults -> Nat]
    PROVE  /\ Completed(r, m, v) \in Seq(Leaves) /\ UniqueLeaves(Completed(r, m, v))
           /\ \A l \in ToSet(Completed(r, m, v)) :
                 \/ l[1] \in Metadata /\ l[2] = m[l[1]]
                 \/ l[1] \notin Metadata /\ l \in ToSet(r.leaves)
                 \/ l[1] \in KeyDefaults \ KeysOf(r.leaves) /\ l[2] = v[l[1]]
           /\ ToSet(r.mask) \subseteq KeysOf(Completed(r, m, v))
<1> DEFINE given == Len(r.leaves)
           asked == Len(r.mask)
           total == given + asked
<1>0. r.leaves \in Seq(Leaves) /\ r.mask \in Seq(KeyNames)
  BY DEF Asked
<1>1. given \in Nat /\ asked \in Nat /\ total \in Nat /\ DOMAIN r.mask = 1 .. asked
  <2>1. given \in Nat /\ asked \in Nat /\ DOMAIN r.mask = 1 .. asked
    BY <1>0, SeqFacts
  <2> HIDE DEF given, asked
  <2>2. QED
    BY <2>1
<1>2. PICK d : DoneUpTo(r, m, v, total, d) /\ Completed(r, m, v) = d[total]
  BY <1>1, CompletedIsDone
<1>3. \A n \in 1 .. total : n \in 1 .. Len(r.leaves) + Len(r.mask)
  OBVIOUS
<1> HIDE DEF given, asked, total
<1> DEFINE Bad == {n \in 0 .. total : ~ SoFar(r, m, v, n, d[n])}
<1>4. Bad = {}
  <2> SUFFICES ASSUME Bad # {}  PROVE FALSE
    OBVIOUS
  <2>1. PICK n \in Bad : \A i \in Bad : n <= i
    <3>1. Bad \in SUBSET Nat
      BY <1>1
    <3> HIDE DEF Bad
    <3>2. QED
      BY <3>1, LeastNumber
  <2>2. CASE n = 0
    <3>1. d[0] = << >>
      BY <1>1, <1>2, DoneUpToAt
    <3>2. /\ << >> \in Seq(Leaves) /\ UniqueLeaves(<< >>) /\ ToSet(<< >>) = {}
          /\ KeysOf(<< >>) = {} /\ 1 .. 0 = {} /\ 1 .. 0 - given = {}
      BY <1>1 DEF UniqueLeaves, ToSet, KeysOf
    <3>3. 0 >= given => KeysOf(r.leaves) = {}
      <4>1. 0 >= given => 1 .. given = {}
        BY <1>1
      <4>2. DOMAIN r.leaves = 1 .. given
        BY <1>0, SeqFacts DEF given
      <4>3. QED
        BY <4>1, <4>2 DEF KeysOf
    <3>4. SoFar(r, m, v, 0, << >>)
      BY <3>2, <3>3 DEF SoFar, given
    <3>5. QED
      BY <2>1, <2>2, <3>1, <3>4
  <2>3. CASE n # 0
    <3>1. n \in 1 .. total /\ n - 1 \in 0 .. total /\ n - 1 \notin Bad
      BY <1>1, <2>1, <2>3
    <3>2. SoFar(r, m, v, n - 1, d[n - 1])
      BY <3>1
    <3>3. d[n] = Entered(r, m, v, n, d[n - 1])
      BY <1>1, <1>2, <2>1, <2>3, DoneUpToAt
    <3>4. SoFar(r, m, v, n, d[n])
      BY <1>3, <3>1, <3>2, <3>3, SoFarStep
    <3>5. QED
      BY <2>1, <3>4
  <2>4. QED
    BY <2>2, <2>3
<1>5. SoFar(r, m, v, total, d[total])
  BY <1>1, <1>4
<1>6. ToSet(r.mask) \subseteq KeysOf(d[total])
  <2>1. total - given = asked
    BY <1>1 DEF total
  <2>2. \A i \in 1 .. asked : r.mask[i] \in KeysOf(d[total])
    BY <1>5, <2>1 DEF SoFar, given, asked
  <2>3. QED
    BY <1>1, <2>2 DEF ToSet
<1>7. QED
  BY <1>2, <1>5, <1>6 DEF SoFar

\* The metadata leaves of two cards are the same when their fields are.
LEMMA MetadataSame ==
    ASSUME NEW c, NEW d, c.expiry = d.expiry, c.authority = d.authority,
           c.version = d.version, c.serial = d.serial
    PROVE  MetadataOf(c) = MetadataOf(d)
  BY DEF MetadataOf

\* Metadata are numbers when the fields are.
LEMMA MetadataType ==
    ASSUME NEW c, c.expiry \in Nat, c.authority \in Nat, c.version \in Nat, c.serial \in Nat
    PROVE  MetadataOf(c) \in [Metadata -> Nat]
<1>1. \A k \in Metadata : MetadataOf(c)[k] \in Nat
  BY DEF MetadataOf, Metadata
<1>2. QED
  BY <1>1 DEF MetadataOf

-----------------------------------------------------------------------------
(* Cards *)

\* A card has these fields.
CardFields == {"leaves", "mask", "root", "version", "serial", "authority", "expiry", "sig"}

IsCard(c) ==
    /\ c = [f \in CardFields |-> c[f]]
    /\ c.leaves \in Seq(Leaves) /\ c.mask \in Seq(KeyNames)

\* A card that is verified under its authority's key as long as it is in force.
Good(c) ==
    /\ IsCard(c)
    /\ c.version = 1
    /\ UniqueLeaves(c.leaves)
    /\ \A l \in ToSet(c.leaves) : l[1] \in Metadata => l[2] = MetadataOf(c)[l[1]]
    /\ ToSet(c.mask) \subseteq KeysOf(c.leaves)
    /\ c.root = Root(c.leaves)
    /\ c.sig = [by |-> c.authority, over |-> Commitment(c)]
    /\ \A l, m \in ToSet(c.leaves) :
          l[1] = "agent_pk" /\ m[1] = "agent_sign_pk" => l[2] # m[2]

\* A key the caller gives has the value it gives.
LEMMA GivenKey ==
    ASSUME NEW r, Asked(r), Whole(r), NEW l \in ToSet(r.leaves), l[1] \notin Metadata
    PROVE  l[1] \in KeysOf(r.leaves) /\ l[2] = AgentKey(r, l[1])
<1>1. r.leaves \in Seq(Leaves)
  BY DEF Asked
<1>2. PICK i \in DOMAIN r.leaves : l = r.leaves[i]
  BY DEF ToSet
<1>3. l[1] \in KeysOf(r.leaves)
  BY <1>2 DEF KeysOf
<1>4. PICK j \in DOMAIN r.leaves :
          r.leaves[j][1] = l[1] /\ ValueOf(r.leaves, l[1]) = r.leaves[j][2]
  BY <1>2 DEF ValueOf
<1>5. i = j
  BY <1>2, <1>4 DEF Whole
<1>6. QED
  BY <1>2, <1>3, <1>4, <1>5 DEF AgentKey

\* What sign_mcc makes of a whole request can be verified.
LEMMA SignedIsGood ==
    ASSUME NEW r, Asked(r), Whole(r), DefaultKeys \in [KeyDefaults -> Nat],
           NEW serial \in Nat, NEW expiry \in Nat, NEW key \in Nat
    PROVE  /\ Good(Signed(r, serial, expiry, key, DefaultKeys))
           /\ Signed(r, serial, expiry, key, DefaultKeys).authority = key
<1> DEFINE fields == [version |-> 1, serial |-> serial, authority |-> key, expiry |-> expiry]
           leaves == Completed(r, MetadataOf(fields), DefaultKeys)
           normal == NormalizedMask(r.mask)
           unsigned == [leaves |-> leaves, mask |-> normal, root |-> Root(leaves), version |-> 1,
                        serial |-> serial, authority |-> key, expiry |-> expiry, sig |-> << >>]
           signed == [by |-> key, over |-> Commitment(unsigned)]
           c == Signed(r, serial, expiry, key, DefaultKeys)
<1>1. c = [unsigned EXCEPT !.sig = signed]
  BY DEF Signed
<1>2. MetadataOf(fields) \in [Metadata -> Nat]
  BY MetadataType
<1>3. /\ leaves \in Seq(Leaves) /\ UniqueLeaves(leaves)
      /\ \A l \in ToSet(leaves) :
            \/ l[1] \in Metadata /\ l[2] = MetadataOf(fields)[l[1]]
            \/ l[1] \notin Metadata /\ l \in ToSet(r.leaves)
            \/ l[1] \in KeyDefaults \ KeysOf(r.leaves) /\ l[2] = DefaultKeys[l[1]]
      /\ ToSet(r.mask) \subseteq KeysOf(leaves)
  BY <1>2, CompletedFacts
<1>4. normal \in Seq(KeyNames) /\ ToSet(normal) = ToSet(r.mask)
  BY MaskKeys DEF Asked
<1> HIDE DEF leaves, normal
<1>5. c = [leaves |-> leaves, mask |-> normal, root |-> Root(leaves), version |-> 1,
           serial |-> serial, authority |-> key, expiry |-> expiry, sig |-> signed]
  <2> HIDE DEF signed, c
  <2>1. QED
    BY <1>1
<1>6. MetadataOf(c) = MetadataOf(fields)
  <2> HIDE DEF signed, c
  <2>1. /\ c.expiry = fields.expiry /\ c.authority = fields.authority
        /\ c.version = fields.version /\ c.serial = fields.serial
    BY <1>5
  <2> HIDE DEF fields
  <2>2. QED
    BY <2>1, MetadataSame
<1>7. Commitment(c) = Commitment(unsigned)
  <2> HIDE DEF signed, c
  <2>1. /\ c.root = unsigned.root /\ c.expiry = unsigned.expiry /\ c.version = unsigned.version
        /\ c.authority = unsigned.authority /\ c.serial = unsigned.serial
        /\ c.mask = unsigned.mask
    BY <1>5
  <2> HIDE DEF unsigned
  <2>2. QED
    BY <2>1 DEF Commitment
<1>8. signed = [by |-> key, over |-> Commitment(c)]
  BY <1>7
<1> HIDE DEF fields, unsigned, signed, c
<1>9. /\ c.leaves = leaves /\ c.mask = normal /\ c.root = Root(leaves) /\ c.version = 1
      /\ c.serial = serial /\ c.authority = key /\ c.expiry = expiry /\ c.sig = signed
  BY <1>5
<1>10. IsCard(c)
  <2>1. c = [f \in CardFields |-> c[f]]
    BY <1>5 DEF CardFields
  <2>2. QED
    BY <1>3, <1>4, <1>9, <2>1 DEF IsCard
<1>11. ASSUME NEW l \in ToSet(leaves), l[1] \in KeyDefaults  PROVE l[2] = AgentKey(r, l[1])
  <2>1. l[1] \notin Metadata
    BY <1>11, KeySets
  <2>2. CASE l \in ToSet(r.leaves)
    BY <2>1, <2>2, GivenKey
  <2>3. CASE l[1] \in KeyDefaults \ KeysOf(r.leaves) /\ l[2] = DefaultKeys[l[1]]
    BY <2>3 DEF AgentKey
  <2>4. QED
    BY <1>3, <2>1, <2>2, <2>3
<1>12. ASSUME NEW l \in ToSet(leaves), NEW m \in ToSet(leaves),
              l[1] = "agent_pk", m[1] = "agent_sign_pk"
       PROVE  l[2] # m[2]
  <2>1. l[2] = AgentKey(r, "agent_pk") /\ m[2] = AgentKey(r, "agent_sign_pk")
    BY <1>11, <1>12 DEF KeyDefaults
  <2>2. QED
    BY <2>1 DEF Whole
<1>13. \A l \in ToSet(leaves) : l[1] \in Metadata => l[2] = MetadataOf(c)[l[1]]
  BY <1>3, <1>6, KeySets
<1>14. c.sig = [by |-> c.authority, over |-> Commitment(c)]
  BY <1>8, <1>9
<1>15. Good(c)
  <2>1. UniqueLeaves(c.leaves) /\ ToSet(c.mask) \subseteq KeysOf(c.leaves)
    BY <1>3, <1>4, <1>9
  <2>2. /\ \A l \in ToSet(c.leaves) : l[1] \in Metadata => l[2] = MetadataOf(c)[l[1]]
        /\ \A l, m \in ToSet(c.leaves) :
              l[1] = "agent_pk" /\ m[1] = "agent_sign_pk" => l[2] # m[2]
    BY <1>9, <1>12, <1>13
  <2>3. c.version = 1 /\ c.root = Root(c.leaves)
    BY <1>9
  <2>4. QED
    BY <1>10, <1>14, <2>1, <2>2, <2>3 DEF Good
<1>16. QED
  BY <1>9, <1>15 DEF c

\* A card with another value in a field.
LEMMA OtherField ==
    ASSUME NEW c, c = [f \in CardFields |-> c[f]], NEW f \in CardFields, NEW x
    PROVE  /\ [c EXCEPT ![f] = x] = [g \in CardFields |-> [c EXCEPT ![f] = x][g]]
           /\ [c EXCEPT ![f] = x][f] = x
           /\ \A g \in CardFields \ {f} : [c EXCEPT ![f] = x][g] = c[g]
  OBVIOUS

\* A card with other leaves is a card with the signature it had.
LEMMA OtherLeaves ==
    ASSUME NEW c, IsCard(c), NEW leaves \in Seq(Leaves)
    PROVE  IsCard([c EXCEPT !.leaves = leaves]) /\ [c EXCEPT !.leaves = leaves].sig = c.sig
<1> DEFINE d == [c EXCEPT !["leaves"] = leaves]
<1>1. {"leaves", "mask", "sig"} \subseteq CardFields
  BY DEF CardFields
<1>2. /\ d = [g \in CardFields |-> d[g]]
      /\ d["leaves"] = leaves
      /\ \A g \in CardFields \ {"leaves"} : d[g] = c[g]
  BY <1>1, OtherField DEF IsCard
<1> HIDE DEF d
<1>3. d.leaves = leaves /\ d.mask = c.mask /\ d.sig = c.sig
  BY <1>1, <1>2
<1>4. IsCard(d) /\ d.sig = c.sig
  BY <1>2, <1>3 DEF IsCard
<1>5. QED
  BY <1>4 DEF d

\* A card with another mask is a card with the signature it had.
LEMMA OtherMask ==
    ASSUME NEW c, IsCard(c), NEW mask \in Seq(KeyNames)
    PROVE  IsCard([c EXCEPT !.mask = mask]) /\ [c EXCEPT !.mask = mask].sig = c.sig
<1> DEFINE d == [c EXCEPT !["mask"] = mask]
<1>1. {"leaves", "mask", "sig"} \subseteq CardFields
  BY DEF CardFields
<1>2. /\ d = [g \in CardFields |-> d[g]]
      /\ d["mask"] = mask
      /\ \A g \in CardFields \ {"mask"} : d[g] = c[g]
  BY <1>1, OtherField DEF IsCard
<1> HIDE DEF d
<1>3. d.mask = mask /\ d.leaves = c.leaves /\ d.sig = c.sig
  BY <1>1, <1>2
<1>4. IsCard(d) /\ d.sig = c.sig
  BY <1>2, <1>3 DEF IsCard
<1>5. QED
  BY <1>4 DEF d

\* A card with another value elsewhere is a card with the signature it had.
LEMMA OtherValue ==
    ASSUME NEW c, IsCard(c), NEW x, NEW f \in CardFields \ {"leaves", "mask", "sig"}
    PROVE  IsCard([c EXCEPT ![f] = x]) /\ [c EXCEPT ![f] = x].sig = c.sig
<1> DEFINE d == [c EXCEPT ![f] = x]
<1>1. {"leaves", "mask", "sig"} \subseteq CardFields
  BY DEF CardFields
<1>2. /\ d = [g \in CardFields |-> d[g]]
      /\ \A g \in CardFields \ {f} : d[g] = c[g]
  BY <1>1, OtherField DEF IsCard
<1> HIDE DEF d
<1>3. d.mask = c.mask /\ d.leaves = c.leaves /\ d.sig = c.sig
  BY <1>1, <1>2
<1>4. IsCard(d) /\ d.sig = c.sig
  BY <1>2, <1>3 DEF IsCard
<1>5. QED
  BY <1>4 DEF d

\* Lists in another order, or with an entry more, less or changed.
LEMMA OtherLists ==
    /\ \A T : \A s \in Seq(T) : Reverse(s) \in Seq(T)
    /\ \A T : \A s \in Seq(T) : \A i \in DOMAIN s :
          Append(s, s[i]) \in Seq(T) /\ RemoveAt(s, i) \in Seq(T)
    /\ \A s \in Seq(Leaves) : \A i \in DOMAIN s : [s EXCEPT ![i][2] = @ + 1] \in Seq(Leaves)
<1>1. ASSUME NEW T, NEW s \in Seq(T)  PROVE Reverse(s) \in Seq(T)
  <2> DEFINE n == Len(s)
  <2>1. n \in Nat /\ \A i \in 1 .. n : s[i] \in T
    OBVIOUS
  <2>2. Reverse(s) = [i \in 1 .. n |-> s[(n - i) + 1]]
    BY DEF Reverse
  <2> HIDE DEF n
  <2>3. \A i \in 1 .. n : (n - i) + 1 \in 1 .. n
    BY <2>1
  <2>4. [i \in 1 .. n |-> s[(n - i) + 1]] \in [1 .. n -> T]
    BY <2>1, <2>3
  <2>5. QED
    BY <2>1, <2>2, <2>4
<1>2. ASSUME NEW T, NEW s \in Seq(T), NEW i \in DOMAIN s
      PROVE  Append(s, s[i]) \in Seq(T) /\ RemoveAt(s, i) \in Seq(T)
  <2>1. Append(s, s[i]) \in Seq(T)
    OBVIOUS
  <2>2. i \in Nat /\ i \in 1 .. Len(s) /\ Len(s) \in Nat
    OBVIOUS
  <2>3. SubSeq(s, 1, i - 1) \in Seq(T) /\ SubSeq(s, i + 1, Len(s)) \in Seq(T)
    BY <2>2
  <2>4. QED
    BY <2>1, <2>3 DEF RemoveAt
<1>3. ASSUME NEW s \in Seq(Leaves), NEW i \in DOMAIN s
      PROVE  [s EXCEPT ![i][2] = @ + 1] \in Seq(Leaves)
  <2> DEFINE l == [s[i] EXCEPT ![2] = s[i][2] + 1]
  <2>1. s[i] \in KeyNames \X Nat
    BY DEF Leaves
  <2>2. l \in KeyNames \X Nat
    BY <2>1
  <2>3. [s EXCEPT ![i][2] = @ + 1] = [s EXCEPT ![i] = l]
    OBVIOUS
  <2> HIDE DEF l
  <2>4. QED
    <3> DEFINE n == Len(s)
               t == [s EXCEPT ![i] = l]
    <3>1. l \in Leaves
      BY <2>2 DEF Leaves
    <3>2. n \in Nat /\ s \in [1 .. n -> Leaves]
      OBVIOUS
    <3> HIDE DEF n
    <3>3. t \in [1 .. n -> Leaves]
      BY <3>1, <3>2
    <3> HIDE DEF t
    <3>4. t \in Seq(Leaves)
      BY <3>2, <3>3
    <3>5. QED
      BY <2>3, <3>4 DEF t
<1>4. QED
  BY <1>1, <1>2, <1>3

\* What happens to a card on its way leaves it a card, with the signature it had.
LEMMA ChangesKeep ==
    ASSUME NEW c, IsCard(c), NEW d \in Changes(c)
    PROVE  IsCard(d) /\ d.sig = c.sig
<1> DEFINE whole == {[c EXCEPT !.leaves = Reverse(@)], [c EXCEPT !.mask = Reverse(@)],
                    [c EXCEPT !.version = @ + 1], [c EXCEPT !.serial = @ + 1],
                    [c EXCEPT !.expiry = @ + 1], [c EXCEPT !.authority = @ + 1]}
           ofLeaf(i) == {[c EXCEPT !.leaves = Append(@, @[i])], [c EXCEPT !.leaves = RemoveAt(@, i)],
                      [c EXCEPT !.leaves[i][2] = @ + 1],
                      [c EXCEPT !.leaves[i][2] = @ + 1,
                                !.root = Root([c.leaves EXCEPT ![i][2] = @ + 1])]}
           ofMask(i) == {[c EXCEPT !.mask = Append(@, @[i])], [c EXCEPT !.mask = RemoveAt(@, i)]}
<1>0. d \in whole \cup (UNION {ofLeaf(i) : i \in DOMAIN c.leaves})
              \cup (UNION {ofMask(i) : i \in DOMAIN c.mask})
  BY DEF Changes
<1>1. c.leaves \in Seq(Leaves) /\ c.mask \in Seq(KeyNames)
  BY DEF IsCard
<1>2. CASE d = [c EXCEPT !.leaves = Reverse(@)]
  <2>1. d = [c EXCEPT !.leaves = Reverse(c.leaves)]
    BY <1>2
  <2>2. QED
    BY <1>1, <2>1, OtherLists, OtherLeaves
<1>3. CASE d = [c EXCEPT !.mask = Reverse(@)]
  <2>1. d = [c EXCEPT !.mask = Reverse(c.mask)]
    BY <1>3
  <2>2. QED
    BY <1>1, <2>1, OtherLists, OtherMask
<1>4. CASE \/ d = [c EXCEPT !.version = @ + 1] \/ d = [c EXCEPT !.serial = @ + 1]
           \/ d = [c EXCEPT !.expiry = @ + 1] \/ d = [c EXCEPT !.authority = @ + 1]
  <2>1. \/ d = [c EXCEPT !.version = c.version + 1] \/ d = [c EXCEPT !.serial = c.serial + 1]
        \/ d = [c EXCEPT !.expiry = c.expiry + 1]
        \/ d = [c EXCEPT !.authority = c.authority + 1]
    BY <1>4
  <2>2. {"version", "serial", "expiry", "authority"} \subseteq CardFields \ {"leaves", "mask", "sig"}
    BY DEF CardFields
  <2>3. \A f \in {"version", "serial", "expiry", "authority"} : \A x :
            IsCard([c EXCEPT ![f] = x]) /\ [c EXCEPT ![f] = x].sig = c.sig
    BY <2>2, OtherValue
  <2>4. \A x : /\ IsCard([c EXCEPT !.version = x]) /\ [c EXCEPT !.version = x].sig = c.sig
               /\ IsCard([c EXCEPT !.serial = x]) /\ [c EXCEPT !.serial = x].sig = c.sig
               /\ IsCard([c EXCEPT !.expiry = x]) /\ [c EXCEPT !.expiry = x].sig = c.sig
               /\ IsCard([c EXCEPT !.authority = x]) /\ [c EXCEPT !.authority = x].sig = c.sig
    BY <2>3
  <2>5. QED
    BY <2>1, <2>4
<1>5. ASSUME NEW i \in DOMAIN c.leaves, d \in ofLeaf(i)
      PROVE  IsCard(d) /\ d.sig = c.sig
  <2> DEFINE leaves == c.leaves
             one == [leaves EXCEPT ![i][2] = @ + 1]
  <2>1. \/ d = [c EXCEPT !.leaves = Append(leaves, leaves[i])]
        \/ d = [c EXCEPT !.leaves = RemoveAt(leaves, i)]
        \/ d = [c EXCEPT !.leaves = one]
        \/ d = [c EXCEPT !.leaves = one, !.root = Root(one)]
    BY <1>5
  <2>2. leaves \in Seq(Leaves) /\ i \in DOMAIN leaves
    BY <1>1
  <2> HIDE DEF leaves
  <2>3. Append(leaves, leaves[i]) \in Seq(Leaves) /\ RemoveAt(leaves, i) \in Seq(Leaves)
        /\ one \in Seq(Leaves)
    BY <2>2, OtherLists
  <2> HIDE DEF one
  <2> DEFINE e == [c EXCEPT !.leaves = one]
  <2>4. IsCard(e) /\ e.sig = c.sig
    BY <2>3, OtherLeaves
  <2>5. [c EXCEPT !.leaves = one, !.root = Root(one)] = [e EXCEPT !.root = Root(one)]
    OBVIOUS
  <2> HIDE DEF e
  <2>6. "root" \in CardFields \ {"leaves", "mask", "sig"}
    BY DEF CardFields
  <2>7. IsCard([e EXCEPT !.root = Root(one)]) /\ [e EXCEPT !.root = Root(one)].sig = c.sig
    BY <2>4, <2>6, OtherValue
  <2>8. CASE d = e
    BY <2>4, <2>8
  <2>9. CASE d = [e EXCEPT !.root = Root(one)]
    BY <2>7, <2>9
  <2>10. CASE d = [c EXCEPT !.leaves = Append(leaves, leaves[i])]
    BY <2>3, <2>10, OtherLeaves
  <2>11. CASE d = [c EXCEPT !.leaves = RemoveAt(leaves, i)]
    BY <2>3, <2>11, OtherLeaves
  <2>12. QED
    BY <2>1, <2>5, <2>8, <2>9, <2>10, <2>11 DEF e
<1>6. ASSUME NEW i \in DOMAIN c.mask, d \in ofMask(i)
      PROVE  IsCard(d) /\ d.sig = c.sig
  <2> DEFINE mask == c.mask
  <2>1. \/ d = [c EXCEPT !.mask = Append(mask, mask[i])]
        \/ d = [c EXCEPT !.mask = RemoveAt(mask, i)]
    BY <1>6
  <2>2. mask \in Seq(KeyNames) /\ i \in DOMAIN mask
    BY <1>1
  <2> HIDE DEF mask
  <2>3. Append(mask, mask[i]) \in Seq(KeyNames) /\ RemoveAt(mask, i) \in Seq(KeyNames)
    BY <2>2, OtherLists
  <2>4. CASE d = [c EXCEPT !.mask = Append(mask, mask[i])]
    BY <2>3, <2>4, OtherMask
  <2>5. CASE d = [c EXCEPT !.mask = RemoveAt(mask, i)]
    BY <2>3, <2>5, OtherMask
  <2>6. QED
    BY <2>1, <2>4, <2>5
<1>7. CASE d \in whole
  BY <1>2, <1>3, <1>4, <1>7
<1> HIDE DEF whole, ofLeaf, ofMask
<1>8. \/ d \in whole
      \/ \E i \in DOMAIN c.leaves : d \in ofLeaf(i)
      \/ \E i \in DOMAIN c.mask : d \in ofMask(i)
  BY <1>0
<1>9. CASE \E i \in DOMAIN c.leaves : d \in ofLeaf(i)
  BY <1>5, <1>9
<1>10. CASE \E i \in DOMAIN c.mask : d \in ofMask(i)
  BY <1>6, <1>10
<1>11. QED
  BY <1>7, <1>8, <1>9, <1>10

\* Leaves that are those of a list without a key twice, and as many, have no key twice.
LEMMA AlsoUnique ==
    ASSUME NEW a \in Seq(Leaves), NEW b \in Seq(Leaves), UniqueLeaves(b),
           ToSet(a) = ToSet(b), Len(a) = Len(b)
    PROVE  UniqueLeaves(a)
<1> DEFINE n == Len(a)
           S == ToSet(b)
<1>0. S = {a[i] : i \in DOMAIN a}
  BY DEF ToSet
<1>1. n \in Nat /\ DOMAIN a = 1 .. n /\ IsFiniteSet(1 .. n) /\ Cardinality(1 .. n) = n
  BY SeqFacts, SizeUpTo
<1>2. Cardinality(S) = n
  BY LengthIsSize
<1>3. a \in Surjection(1 .. n, S)
  <2>1. a = [i \in 1 .. n |-> a[i]]
    BY <1>1
  <2> HIDE DEF n, S
  <2>2. a \in [1 .. n -> S] /\ \A x \in S : \E i \in 1 .. n : a[i] = x
    BY <1>0, <1>1, <2>1
  <2>3. QED
    BY <2>2 DEF Surjection
<1> HIDE DEF n
<1>4. a \in Injection(1 .. n, S)
  <2> HIDE DEF S
  <2>1. QED
    BY <1>1, <1>2, <1>3, FS_SurjSameCardinalityImpliesInj
<1>5. ASSUME NEW i \in 1 .. n, NEW j \in 1 .. n, a[i][1] = a[j][1]  PROVE i = j
  <2>1. a[i] \in S /\ a[j] \in S
    BY <1>1 DEF ToSet
  <2>2. a[i] = a[j]
    BY <1>5, <2>1, OneLeaf
  <2>3. QED
    BY <1>1, <1>4, <2>2 DEF Injection, IsInjective
<1>6. QED
  BY <1>1, <1>5 DEF UniqueLeaves

-----------------------------------------------------------------------------
(* A card that carries a signature *)

\* What of a card is the same, but for the order of its lists.
SameCard(c, d) ==
    /\ ToSet(c.leaves) = ToSet(d.leaves) /\ Len(c.leaves) = Len(d.leaves)
    /\ ToSet(c.mask) = ToSet(d.mask)
    /\ \A f \in CardFields \ {"leaves", "mask"} : c[f] = d[f]

\* The fields of two cards are the same when the cards without their lists are.
LEMMA SameFields ==
    ASSUME NEW c, NEW d, IsCard(c), IsCard(d)
    PROVE  [c EXCEPT !.leaves = << >>, !.mask = << >>] = [d EXCEPT !.leaves = << >>, !.mask = << >>]
           <=> \A f \in CardFields \ {"leaves", "mask"} : c[f] = d[f]
<1> DEFINE a == [c EXCEPT !.leaves = << >>, !.mask = << >>]
           b == [d EXCEPT !.leaves = << >>, !.mask = << >>]
<1>1. /\ a = [f \in CardFields |-> IF f \in {"leaves", "mask"} THEN << >> ELSE c[f]]
      /\ b = [f \in CardFields |-> IF f \in {"leaves", "mask"} THEN << >> ELSE d[f]]
  <2>1. /\ c = [f \in CardFields |-> c[f]]
        /\ d = [f \in CardFields |-> d[f]]
    BY DEF IsCard
  <2>2. "leaves" \in CardFields /\ "mask" \in CardFields
    BY DEF CardFields
  <2>3. a = [f \in CardFields |-> IF f \in {"leaves", "mask"} THEN << >> ELSE c[f]]
    BY <2>1, <2>2
  <2>4. b = [f \in CardFields |-> IF f \in {"leaves", "mask"} THEN << >> ELSE d[f]]
    BY <2>1, <2>2
  <2>5. QED
    BY <2>3, <2>4
<1> HIDE DEF a, b
<1>2. a = b <=> \A f \in CardFields \ {"leaves", "mask"} : c[f] = d[f]
  <2>1. ASSUME a = b, NEW f \in CardFields \ {"leaves", "mask"}  PROVE c[f] = d[f]
    <3>1. a[f] = c[f] /\ b[f] = d[f]
      BY <1>1
    <3>2. QED
      BY <2>1, <3>1
  <2>2. ASSUME \A f \in CardFields \ {"leaves", "mask"} : c[f] = d[f]  PROVE a = b
    BY <1>1, <2>2
  <2>3. QED
    BY <2>1, <2>2
<1>3. QED
  BY <1>2 DEF a, b

\* The fields that a commitment binds.
LEMMA CommitmentFields ==
    ASSUME NEW c, NEW d
    PROVE  Commitment(c) = Commitment(d)
           <=> /\ c.root = d.root /\ c.expiry = d.expiry /\ c.version = d.version
               /\ c.authority = d.authority /\ c.serial = d.serial
               /\ NormalizedMask(c.mask) = NormalizedMask(d.mask)
  BY DEF Commitment

\* What the signature of a good card is verified with has the claims that were signed.
LEMMA VerifiedIsSigned ==
    ASSUME NEW c, NEW o, NEW n, NEW gone, Good(o), IsCard(c), c.sig = o.sig,
           Verify(c, o.authority, n, gone)
    PROVE  SameCard(c, o)
<1>1. /\ c.leaves \in Seq(Leaves) /\ c.mask \in Seq(KeyNames)
      /\ o.leaves \in Seq(Leaves) /\ o.mask \in Seq(KeyNames)
  BY DEF Good, IsCard
<1>2. Commitment(c) = Commitment(o)
  <2>1. /\ c.sig = [by |-> o.authority, over |-> Commitment(c)]
        /\ o.sig = [by |-> o.authority, over |-> Commitment(o)]
    BY DEF Verify, Good
  <2> DEFINE x == Commitment(c)
             y == Commitment(o)
  <2>2. [by |-> o.authority, over |-> x] = [by |-> o.authority, over |-> y]
    BY <2>1
  <2> HIDE DEF x, y
  <2>3. x = y
    BY <2>2
  <2>4. QED
    BY <2>3 DEF x, y
<1>3. /\ c.root = o.root /\ c.expiry = o.expiry /\ c.version = o.version
      /\ c.authority = o.authority /\ c.serial = o.serial
      /\ NormalizedMask(c.mask) = NormalizedMask(o.mask)
  BY <1>2, CommitmentFields
<1>4. ToSet(c.mask) = ToSet(o.mask)
  BY <1>1, <1>3, MaskBinds
<1>5. UniqueLeaves(c.leaves) /\ UniqueLeaves(o.leaves)
  BY DEF Verify, Good
<1>6. Root(c.leaves) = Root(o.leaves)
  BY <1>3 DEF Verify, RootMatches, Good
<1>7. ToSet(c.leaves) = ToSet(o.leaves)
  BY <1>1, <1>5, <1>6, RootBinds
<1>8. Len(c.leaves) = Len(o.leaves)
  BY <1>1, <1>5, <1>7, LengthIsSize
<1>9. \A f \in CardFields \ {"leaves", "mask"} : c[f] = o[f]
  BY <1>3 DEF CardFields
<1>10. QED
  BY <1>4, <1>7, <1>8, <1>9 DEF SameCard

\* A card with the claims that were signed is verified as long as it is in force.
LEMMA SignedIsVerified ==
    ASSUME NEW c, NEW o, NEW n, NEW gone, Good(o), IsCard(c), c.sig = o.sig,
           SameCard(c, o), c.expiry > n, c.serial \notin gone
    PROVE  Verify(c, o.authority, n, gone)
<1>1. /\ c.leaves \in Seq(Leaves) /\ c.mask \in Seq(KeyNames)
      /\ o.leaves \in Seq(Leaves) /\ o.mask \in Seq(KeyNames)
  BY DEF Good, IsCard
<1>2. /\ c.root = o.root /\ c.expiry = o.expiry /\ c.version = o.version
      /\ c.authority = o.authority /\ c.serial = o.serial
  <2>1. {"root", "expiry", "version", "authority", "serial"} \subseteq CardFields \ {"leaves", "mask"}
    BY DEF CardFields
  <2>2. QED
    BY <2>1 DEF SameCard
<1>3. ToSet(c.leaves) = ToSet(o.leaves) /\ Len(c.leaves) = Len(o.leaves)
      /\ ToSet(c.mask) = ToSet(o.mask)
  BY DEF SameCard
<1>4. UniqueLeaves(o.leaves)
  BY DEF Good
<1>5. UniqueLeaves(c.leaves)
  BY <1>1, <1>3, <1>4, AlsoUnique
<1>6. KeysOf(c.leaves) = KeysOf(o.leaves)
  <2>1. \A k : k \in KeysOf(c.leaves) <=> \E l \in ToSet(c.leaves) : l[1] = k
    BY <1>1, LeafFacts
  <2>2. \A k : k \in KeysOf(o.leaves) <=> \E l \in ToSet(o.leaves) : l[1] = k
    BY <1>1, LeafFacts
  <2>3. QED
    BY <1>3, <2>1, <2>2
<1>7. MetadataOf(c) = MetadataOf(o)
  BY <1>2, MetadataSame
<1>8. \A k \in KeysOf(c.leaves) : \E l \in ToSet(o.leaves) :
          l[1] = k /\ l[2] = ValueOf(c.leaves, k)
  <2>1. \A k \in KeysOf(c.leaves) : \E l \in ToSet(c.leaves) :
          l[1] = k /\ l[2] = ValueOf(c.leaves, k)
    BY <1>1, LeafFacts
  <2>2. QED
    BY <1>3, <2>1
<1>9. \A k \in Metadata \cap KeysOf(c.leaves) : ValueOf(c.leaves, k) = MetadataOf(c)[k]
  <2>1. \A l \in ToSet(o.leaves) : l[1] \in Metadata => l[2] = MetadataOf(o)[l[1]]
    BY DEF Good
  <2>2. QED
    BY <1>7, <1>8, <2>1
<1>10. KeyDefaults \subseteq KeysOf(c.leaves) =>
           ValueOf(c.leaves, "agent_pk") # ValueOf(c.leaves, "agent_sign_pk")
  <2>1. \A l, m \in ToSet(o.leaves) :
           l[1] = "agent_pk" /\ m[1] = "agent_sign_pk" => l[2] # m[2]
    BY DEF Good
  <2>2. "agent_pk" \in KeyDefaults /\ "agent_sign_pk" \in KeyDefaults
    BY DEF KeyDefaults
  <2>3. QED
    BY <1>8, <2>1, <2>2
<1>11. ToSet(c.mask) \subseteq KeysOf(c.leaves)
  BY <1>3, <1>6 DEF Good
<1>12. RootMatches(c)
  <2>1. Root(c.leaves) = Root(o.leaves)
    BY <1>1, <1>3, <1>4, <1>5, RootSame
  <2>2. QED
    BY <1>2, <2>1 DEF RootMatches, Good
<1>13. c.sig = [by |-> o.authority, over |-> Commitment(c)]
  <2>1. NormalizedMask(c.mask) = NormalizedMask(o.mask)
    BY <1>1, <1>3, MaskBinds
  <2>2. Commitment(c) = Commitment(o)
    BY <1>2, <2>1, CommitmentFields
  <2>3. QED
    BY <2>2 DEF Good
<1>14. c.version = 1
  BY <1>2 DEF Good
<1>15. QED
  BY <1>5, <1>9, <1>10, <1>11, <1>12, <1>13, <1>14 DEF Verify

-----------------------------------------------------------------------------
(* The card on its way *)

\* The card that is on its way carries what an authority signed.
CardInv ==
    \/ card = NoCard /\ original = NoCard
    \/ Good(original) /\ IsCard(card) /\ card.sig = original.sig

\* Steps that leave the card and what was signed alone.
LEMMA CardUntouched ==
    ASSUME CardInv, UNCHANGED <<card, original>>
    PROVE  CardInv'
  BY DEF CardInv

\* The steps of the processes do not touch cards.
LEMMA FileSteps ==
    ASSUME NEW p \in Procs,
           \/ LoadKey(p) \/ MakeKey(p) \/ OpenKey(p) \/ WriteKey(p)
           \/ KeyUnreadable(p) \/ KeyNotWritten(p)
           \/ ReadCaCert(p) \/ ReadCaKey(p)
           \/ MakeCa(p) \/ OpenCaCert(p) \/ WriteCaCert(p) \/ OpenCaKey(p) \/ WriteCaKey(p)
           \/ CaUnreadable(p) \/ CaNotWritten(p)
           \/ Restart(p)
    PROVE  UNCHANGED <<card, original>>
<1>1. CASE LoadKey(p) \/ MakeKey(p) \/ OpenKey(p) \/ WriteKey(p)
           \/ KeyUnreadable(p) \/ KeyNotWritten(p)
  BY <1>1 DEF LoadKey, MakeKey, OpenKey, WriteKey, KeyUnreadable, KeyNotWritten, cards
<1>2. CASE ReadCaCert(p) \/ ReadCaKey(p) \/ MakeCa(p) \/ CaUnreadable(p) \/ CaNotWritten(p)
  BY <1>2 DEF ReadCaCert, ReadCaKey, MakeCa, CaUnreadable, CaNotWritten, cards
<1>3. CASE OpenCaCert(p) \/ WriteCaCert(p) \/ OpenCaKey(p) \/ WriteCaKey(p) \/ Restart(p)
  BY <1>3 DEF OpenCaCert, WriteCaCert, OpenCaKey, WriteCaKey, Restart, cards
<1>4. QED
  BY <1>1, <1>2, <1>3

\* An authority that is ready signs with the key it holds, wherever it has it from.
LEMMA SignStep ==
    ASSUME RequestsAreWhole, Inv, NEW p \in Procs, NEW r \in Requests,
           NEW serial \in Serials, Sign(p, r, serial, MaxTime)
    PROVE  CardInv'
<1> DEFINE key == proc[p].key
           signed == Signed(r, serial, MaxTime, key, DefaultKeys)
<1>1. key \in Keys
  BY DEF Sign, Inv, KeyInHand
<1>2. Asked(r) /\ Whole(r) /\ DefaultKeys \in [KeyDefaults -> Nat] /\ serial \in Nat
  BY RequestsAssumption DEF RequestsAreWhole, Asked, Leaves, KeyNames
<1>3. MaxTime \in Nat /\ key \in Nat
  BY <1>1, BoundsAssumption DEF Keys
<1> HIDE DEF key
<1>4. Good(signed)
  BY <1>2, <1>3, SignedIsGood
<1>5. card' = signed /\ original' = signed
  BY DEF Sign, key
<1> HIDE DEF signed
<1>6. QED
  BY <1>4, <1>5 DEF CardInv, Good

\* A card that is changed on its way has its signature still.
LEMMA ChangeStep ==
    ASSUME CardInv, Change
    PROVE  CardInv'
<1>1. /\ original' = original /\ Good(original)
      /\ card = original /\ card' \in Changes(original)
  BY DEF Change, CardInv
<1>2. IsCard(original)
  BY <1>1 DEF Good
<1>3. IsCard(card') /\ card'.sig = original.sig
  BY <1>1, <1>2, ChangesKeep
<1>4. QED
  BY <1>1, <1>3 DEF CardInv

\* Every step keeps the invariant of the card.
LEMMA CardStep == ASSUME RequestsAreWhole, Inv, CardInv, [Next]_vars PROVE CardInv'
<1>1. ASSUME NEW p \in Procs,
             \/ LoadKey(p) \/ MakeKey(p) \/ OpenKey(p) \/ WriteKey(p)
             \/ KeyUnreadable(p) \/ KeyNotWritten(p)
             \/ ReadCaCert(p) \/ ReadCaKey(p)
             \/ MakeCa(p) \/ OpenCaCert(p) \/ WriteCaCert(p) \/ OpenCaKey(p) \/ WriteCaKey(p)
             \/ CaUnreadable(p) \/ CaNotWritten(p)
             \/ Restart(p)
      PROVE  CardInv'
  BY <1>1, FileSteps, CardUntouched
<1>2. ASSUME NEW p \in Procs, NEW r \in Requests, NEW serial \in Serials,
             Sign(p, r, serial, MaxTime)
      PROVE  CardInv'
  BY <1>2, SignStep
<1>3. CASE Change
  BY <1>3, ChangeStep
<1>4. CASE Tick \/ \E serial \in Serials : Revoke(serial)
  BY <1>4, CardUntouched DEF Tick, Revoke
<1>5. CASE UNCHANGED vars
  BY <1>5, CardUntouched DEF vars, cards
<1>6. QED
  BY <1>1, <1>2, <1>3, <1>4, <1>5 DEF Next

\* A card on its way is accepted by who holds the key it was signed with, exactly if it is
\* what was signed and in force, and by nobody else.
LEMMA CardAccepted == ASSUME CardInv PROVE SignedAreAccepted
<1> SUFFICES ASSUME card # NoCard, NEW p \in Procs, HasAuthority(p)
             PROVE  Accepts(p) <=> AsSigned /\ proc[p].key = original.authority
  BY DEF SignedAreAccepted
<1>1. /\ Good(original) /\ IsCard(original) /\ IsCard(card) /\ card.sig = original.sig
  BY DEF CardInv, Good
<1>2. AsSigned <=> SameCard(card, original) /\ card.expiry > now /\ card.serial \notin revoked
  BY <1>1, SameFields DEF AsSigned, SameCard
<1>3. ASSUME Accepts(p) PROVE AsSigned /\ proc[p].key = original.authority
  <2>1. Verify(card, proc[p].key, now, revoked)
    BY <1>3 DEF Accepts
  <2>2. proc[p].key = original.authority
    <3>1. /\ card.sig = [by |-> proc[p].key, over |-> Commitment(card)]
          /\ card.sig = [by |-> original.authority, over |-> Commitment(original)]
      BY <1>1, <2>1 DEF Verify, Good
    <3>2. card.sig.by = proc[p].key /\ card.sig.by = original.authority
      BY <3>1
    <3>3. QED
      BY <3>2
  <2>3. SameCard(card, original)
    BY <1>1, <2>1, <2>2, VerifiedIsSigned
  <2>4. card.expiry > now /\ card.serial \notin revoked
    BY <2>1 DEF Verify
  <2>5. QED
    BY <1>2, <2>2, <2>3, <2>4
<1>4. ASSUME AsSigned, proc[p].key = original.authority PROVE Accepts(p)
  <2>1. SameCard(card, original) /\ card.expiry > now /\ card.serial \notin revoked
    BY <1>2, <1>4
  <2>2. Verify(card, original.authority, now, revoked)
    BY <1>1, <2>1, SignedIsVerified
  <2>3. card.authority = original.authority
    <3>1. "authority" \in CardFields \ {"leaves", "mask"}
      BY DEF CardFields
    <3>2. QED
      BY <2>1, <3>1 DEF SameCard
  <2>4. QED
    BY <1>4, <2>2, <2>3 DEF Accepts
<1>5. QED
  BY <1>3, <1>4

\* A card that an authority signed for callers who ask for verifiable ones is accepted by
\* every process that holds its key, exactly as long as its claims, its mask and its other
\* fields are those that were signed and it is in force, and by no process that holds
\* another key, whatever files could not be read or written (sign_mcc, MCC.verify).
THEOREM CardsAccepted == RequestsAreWhole => (Spec => []SignedAreAccepted)
<1> SUFFICES ASSUME RequestsAreWhole PROVE Spec => []SignedAreAccepted
  OBVIOUS
<1>1. Init => CardInv
  BY DEF Init, CardInv
<1>2. Inv /\ CardInv /\ [Next]_vars => CardInv'
  BY CardStep
<1>3. CardInv => SignedAreAccepted
  BY CardAccepted
<1>4. QED
  BY <1>1, <1>2, <1>3, Always, PTL DEF Spec
=============================================================================

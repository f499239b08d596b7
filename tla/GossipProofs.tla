---------------------------- MODULE GossipProofs ----------------------------
(***************************************************************************)
(* Proofs about Gossip, for any nodes, serials, topologies and pins: what the  *)
(* filter of a process finds is in the set it gossips, and stays in it as     *)
(* long as the process lives.  FoundAreGossiped is inductive together with     *)
(* the types, because every path a serial comes by is RevokeSerials.           *)
(***************************************************************************)
EXTENDS Gossip, TLAPS

\* A GossipProtocol keeps the node_id it was made with.
LEMMA NamesOnceGiven ==
    ASSUME TypeOK, NEW n \in Nodes, NEW id \in Names, GetGossip(n, id)
    PROVE  /\ name' \in [Nodes -> Names \cup {NoName}] /\ name'[n] # NoName
           /\ \A m \in Nodes : name[m] # NoName => name'[m] = name[m]
<1>1. name' = [name EXCEPT ![n] = IF name[n] = NoName THEN id ELSE name[n]]
  BY DEF GetGossip
<1>2. id # NoName
  BY NamesAssumption DEF Names
<1>3. CASE name[n] = NoName
  BY <1>1, <1>2, <1>3 DEF TypeOK
<1>4. CASE name[n] # NoName
  BY <1>1, <1>4 DEF TypeOK
<1> QED BY <1>3, <1>4

\* The two sets after some serials are revoked at a node.
LEMMA RevokeSets ==
    ASSUME TypeOK, NEW n \in Nodes, NEW new \in SUBSET Serials, RevokeSerials(n, new)
    PROVE  /\ name' \in [Nodes -> Names \cup {NoName}]
           /\ filter' \in [Nodes -> SUBSET Serials] /\ revoked' \in [Nodes -> SUBSET Serials]
           /\ rebuilds' \in [Nodes -> 0 .. MaxRebuilds]
           /\ \A m \in Nodes : revoked[m] \subseteq revoked'[m]
           /\ \A m \in Nodes : name[m] # NoName => name'[m] = name[m]
           /\ FoundAreGossiped => FoundAreGossiped'
<1> DEFINE Inserted ==
             /\ rebuilds' \in [Nodes -> 0 .. MaxRebuilds]
             /\ filter' \in [Nodes -> SUBSET Serials]
             /\ filter'[n] \subseteq filter[n] \cup new
             /\ \A m \in Nodes \ {n} : filter'[m] = filter[m]
<1>1. Inserted
  <2>1. CASE filter' = [filter EXCEPT ![n] = @ \cup new] /\ UNCHANGED rebuilds
    BY <2>1 DEF TypeOK
  <2>2. ASSUME NEW last \in new, NEW lost \in SUBSET ((filter[n] \cup new) \ {last}),
               rebuilds[n] < MaxRebuilds,
               filter' = [filter EXCEPT ![n] = (@ \cup new) \ lost],
               rebuilds' = [rebuilds EXCEPT ![n] = @ + 1]
        PROVE  Inserted
    <3>1. rebuilds[n] + 1 \in 0 .. MaxRebuilds
      BY <2>2, BoundsAssumption DEF TypeOK
    <3> QED BY <2>2, <3>1 DEF TypeOK
  <2> QED BY <2>1, <2>2 DEF RevokeSerials, InsertAll
<1>2. /\ name' \in [Nodes -> Names \cup {NoName}]
      /\ \A m \in Nodes : name[m] # NoName => name'[m] = name[m]
  <2>1. CASE new = {}
    BY <2>1 DEF RevokeSerials, TypeOK
  <2>2. CASE new # {}
    BY <2>2, NamesOnceGiven DEF RevokeSerials, Names
  <2> QED BY <2>1, <2>2
<1>3. revoked' = [revoked EXCEPT ![n] = @ \cup new]
  BY DEF RevokeSerials, MarkRevoked, TypeOK
<1>4. /\ revoked' \in [Nodes -> SUBSET Serials]
      /\ \A m \in Nodes : revoked[m] \subseteq revoked'[m]
  BY <1>3 DEF TypeOK
<1>5. ASSUME FoundAreGossiped, NEW m \in Nodes, NEW s \in Serials, s \in filter'[m]
      PROVE  s \in revoked'[m]
  <2>1. CASE m = n
    BY <1>1, <1>3, <1>5, <2>1 DEF FoundAreGossiped, CheckRevoked, TypeOK
  <2>2. CASE m # n
    BY <1>1, <1>4, <1>5, <2>2 DEF FoundAreGossiped, CheckRevoked, TypeOK
  <2> QED BY <2>1, <2>2
<1> QED BY <1>1, <1>2, <1>4, <1>5 DEF FoundAreGossiped, CheckRevoked

\* A gossip loop has a GossipProtocol to run.
LoopsAreNamed == \A n \in Nodes : looping[n] => name[n] # NoName

\* The inductive invariant.
Inv == TypeOK /\ FoundAreGossiped /\ LoopsAreNamed

\* What a step keeps.
KeptStep == \A n \in Nodes : life'[n] = life[n] => revoked[n] \subseteq revoked'[n]

\* Steps that are revoke_serial, from the application, a notice or gossip.
LEMMA RevocationSteps ==
    ASSUME Inv, NEW n \in Nodes, NEW new \in SUBSET Serials, RevokeSerials(n, new),
           msgs' \subseteq msgs, UNCHANGED <<life, listening, looping, peers, trusted>>
    PROVE  Inv' /\ KeptStep
<1>1. /\ name' \in [Nodes -> Names \cup {NoName}]
      /\ filter' \in [Nodes -> SUBSET Serials] /\ revoked' \in [Nodes -> SUBSET Serials]
      /\ rebuilds' \in [Nodes -> 0 .. MaxRebuilds]
      /\ FoundAreGossiped'
  BY RevokeSets DEF Inv
<1>2. \A m \in Nodes : revoked[m] \subseteq revoked'[m]
  BY RevokeSets DEF Inv
<1>3. \A m \in Nodes : name[m] # NoName => name'[m] = name[m]
  BY RevokeSets DEF Inv
<1>4. TypeOK'
  BY <1>1 DEF Inv, TypeOK
<1>5. LoopsAreNamed'
  BY <1>3 DEF Inv, LoopsAreNamed
<1>6. KeptStep
  BY <1>2 DEF KeptStep
<1> QED BY <1>1, <1>4, <1>5, <1>6 DEF Inv

\* Steps that leave the two sets alone.
LEMMA OtherSteps ==
    ASSUME Inv, TypeOK', LoopsAreNamed', UNCHANGED <<filter, revoked>>
    PROVE  Inv' /\ KeptStep
BY DEF Inv, FoundAreGossiped, CheckRevoked, KeptStep

\* Every step keeps the invariant, and what was revoked.
LEMMA Step == ASSUME Inv, [Next]_vars PROVE Inv' /\ KeptStep
<1> USE DEF Inv
<1>1. ASSUME NEW n \in Nodes, NEW s \in Serials, Revoke(n, s) PROVE Inv' /\ KeptStep
  BY <1>1, RevocationSteps DEF Revoke
<1>2. ASSUME NEW n \in Nodes, NEW new \in SUBSET Serials, Notice(n, new) PROVE Inv' /\ KeptStep
  BY <1>2, RevocationSteps DEF Notice
<1>3. ASSUME NEW n \in Nodes, NEW m \in Nodes, AddPeer(n, m) PROVE Inv' /\ KeptStep
  <2>1. TypeOK' /\ LoopsAreNamed'
    BY <1>3, NamesOnceGiven DEF AddPeer, TypeOK, Names, LoopsAreNamed
  <2> QED BY <1>3, <2>1, OtherSteps DEF AddPeer
<1>4. ASSUME NEW n \in Nodes, NEW m \in Nodes, RemovePeer(n, m) PROVE Inv' /\ KeptStep
  <2>1. TypeOK' /\ LoopsAreNamed'
    BY <1>4 DEF RemovePeer, TypeOK, LoopsAreNamed
  <2> QED BY <1>4, <2>1, OtherSteps DEF RemovePeer
<1>5. ASSUME NEW n \in Nodes, NEW m \in Nodes, NEW k \in Lives, TrustGossipPeer(n, m, k)
      PROVE  Inv' /\ KeptStep
  <2>1. k \in 0 .. MaxLives
    BY BoundsAssumption DEF Lives
  <2>2. TypeOK' /\ LoopsAreNamed'
    BY <1>5, <2>1, NamesOnceGiven DEF TrustGossipPeer, TypeOK, Names, LoopsAreNamed
  <2> QED BY <1>5, <2>2, OtherSteps DEF TrustGossipPeer
<1>6. ASSUME NEW n \in Nodes, NEW bound \in BOOLEAN, StartServer(n, bound)
      PROVE  Inv' /\ KeptStep
  <2>1. TypeOK' /\ LoopsAreNamed'
    BY <1>6, NamesOnceGiven DEF StartServer, TypeOK, Names, LoopsAreNamed
  <2> QED BY <1>6, <2>1, OtherSteps DEF StartServer
<1>7. ASSUME NEW n \in Nodes, StopServer(n) PROVE Inv' /\ KeptStep
  <2>1. TypeOK' /\ LoopsAreNamed'
    BY <1>7 DEF StopServer, TypeOK, LoopsAreNamed
  <2> QED BY <1>7, <2>1, OtherSteps DEF StopServer
<1>8. ASSUME NEW n \in Nodes, Restart(n) PROVE Inv' /\ KeptStep
  <2>1. life[n] \in Nat /\ life[n] + 1 \in Lives /\ life'[n] = life[n] + 1
    BY <1>8, BoundsAssumption DEF Restart, TypeOK, Lives
  <2>2. /\ filter' \in [Nodes -> SUBSET Serials] /\ revoked' \in [Nodes -> SUBSET Serials]
        /\ name' \in [Nodes -> Names \cup {NoName}] /\ msgs' \subseteq Payloads
        /\ listening' \in [Nodes -> BOOLEAN] /\ looping' \in [Nodes -> BOOLEAN]
        /\ peers' \in [Nodes -> SUBSET Nodes] /\ life' \in [Nodes -> Lives]
    BY <1>8, <2>1 DEF Restart, TypeOK
  <2>3. trusted' \in [Nodes -> [Nodes -> 0 .. MaxLives]] /\ rebuilds' \in [Nodes -> 0 .. MaxRebuilds]
    BY <1>8, BoundsAssumption DEF Restart, TypeOK
  <2>4. TypeOK'
    BY <2>2, <2>3 DEF TypeOK
  <2>5. FoundAreGossiped' /\ LoopsAreNamed'
    BY <1>8 DEF Restart, FoundAreGossiped, CheckRevoked, TypeOK, LoopsAreNamed
  <2>6. KeptStep
    <3> SUFFICES ASSUME NEW m \in Nodes, life'[m] = life[m] PROVE revoked[m] \subseteq revoked'[m]
      BY DEF KeptStep
    <3>1. m # n
      BY <2>1
    <3> QED BY <1>8, <3>1 DEF Restart, TypeOK
  <2> QED BY <2>4, <2>5, <2>6
<1>9. ASSUME NEW n \in Nodes, NEW reached \in SUBSET peers[n], GossipRound(n, reached)
      PROVE  Inv' /\ KeptStep
  <2>1. ASSUME NEW m \in reached PROVE Payload(n, m) \in Payloads
    <3>1. name[n] \in Names
      BY <1>9 DEF GossipRound, TypeOK, LoopsAreNamed
    <3> QED BY <3>1 DEF Payload, Payloads, TypeOK
  <2>2. TypeOK' /\ LoopsAreNamed'
    BY <1>9, <2>1 DEF GossipRound, TypeOK, LoopsAreNamed
  <2> QED BY <1>9, <2>2, OtherSteps DEF GossipRound
<1>10. ASSUME NEW p \in msgs, Receive(p) PROVE Inv' /\ KeptStep
  <2>1. p.to \in Nodes /\ p.serials \in SUBSET Serials
    BY DEF TypeOK, Payloads
  <2>2. CASE Refuses(p.to, p.name, p.key)
    <3>1. TypeOK' /\ LoopsAreNamed'
      BY <1>10, <2>2 DEF Receive, TypeOK, LoopsAreNamed
    <3> QED BY <1>10, <2>2, <3>1, OtherSteps DEF Receive
  <2>3. CASE ~ Refuses(p.to, p.name, p.key)
    BY <1>10, <2>1, <2>3, RevocationSteps DEF Receive
  <2> QED BY <2>2, <2>3
<1>11. ASSUME NEW p \in msgs, Lose(p) PROVE Inv' /\ KeptStep
  <2>1. TypeOK' /\ LoopsAreNamed'
    BY <1>11 DEF Lose, TypeOK, LoopsAreNamed
  <2> QED BY <1>11, <2>1, OtherSteps DEF Lose
<1>12. CASE UNCHANGED vars
  <2>1. TypeOK' /\ LoopsAreNamed'
    BY <1>12 DEF vars, TypeOK, LoopsAreNamed
  <2> QED BY <1>12, <2>1, OtherSteps DEF vars
<1> QED BY <1>1, <1>2, <1>3, <1>4, <1>5, <1>6, <1>7, <1>8, <1>9, <1>10, <1>11, <1>12 DEF Next

-----------------------------------------------------------------------------
\* The invariant holds throughout.
LEMMA Always == Spec => []Inv
<1>1. Init => Inv
  BY BoundsAssumption DEF Init, Inv, TypeOK, Lives, FoundAreGossiped, CheckRevoked, LoopsAreNamed
<1>2. Inv /\ [Next]_vars => Inv'
  BY Step
<1> QED BY <1>1, <1>2, PTL DEF Spec

\* The variables keep their types (revocation.py, GossipProtocol and GossipServer).
THEOREM TypesCorrect == Spec => []TypeOK
<1>1. Inv => TypeOK
  BY DEF Inv
<1> QED BY <1>1, Always, PTL

\* Whatever check_revoked finds is gossiped: no serial is in the filter alone.
THEOREM FoundGossiped == Spec => []FoundAreGossiped
<1>1. Inv => FoundAreGossiped
  BY DEF Inv
<1> QED BY <1>1, Always, PTL

\* A process never forgets a revocation, whatever its server does.
THEOREM RevocationsKept == Spec => KeptForLife
<1>1. Inv /\ [Next]_vars => [KeptStep]_vars
  BY Step
<1> QED BY <1>1, Always, PTL DEF Spec, KeptForLife, KeptStep
=============================================================================

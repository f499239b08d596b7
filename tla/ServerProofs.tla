---------------------------- MODULE ServerProofs ----------------------------
(***************************************************************************)
(* Proofs about Server, for any number of connections, slots and listeners:   *)
(* slots match connections, the server stays reachable until it is stopped,   *)
(* and a failure reopens a circuit that is tried again.  The first two are     *)
(* inductive together with the types: that a slot which is given back exists   *)
(* follows from SlotsMatch.  The third rests on Counted.                       *)
(***************************************************************************)
EXTENDS Server, FiniteSetTheorems, TLAPS

\* A circuit that has opened once has Threshold failures in its count ever after.
Counted == breaker.state # "CLOSED" => breaker.failures >= Threshold

Inv == TypeOK /\ SlotsMatch /\ StaysReachable /\ Counted

\* A connection more or less, as the count of the open ones goes.
LEMMA OpenedOne ==
    ASSUME TypeOK, NEW c \in Conns, conn[c] = Free, NEW r, r # Free,
           conn' = [conn EXCEPT ![c] = r]
    PROVE  Cardinality(OpenConns') = Cardinality(OpenConns) + 1
<1>1. IsFiniteSet(OpenConns) /\ c \notin OpenConns /\ OpenConns' = OpenConns \cup {c}
  BY ConnsAssumption, FS_Subset DEF OpenConns, TypeOK
<1> QED BY <1>1, FS_AddElement

\* A connection that ends was one of those that are counted.
LEMMA ClosedOne ==
    ASSUME TypeOK, NEW c \in Conns, conn[c] # Free, conn' = [conn EXCEPT ![c] = Free]
    PROVE  /\ Cardinality(OpenConns) \in Nat \ {0}
           /\ Cardinality(OpenConns') = Cardinality(OpenConns) - 1
<1>1. IsFiniteSet(OpenConns) /\ c \in OpenConns /\ OpenConns' = OpenConns \ {c}
  BY ConnsAssumption, FS_Subset DEF OpenConns, TypeOK
<1>2. Cardinality(OpenConns) \in Nat /\ Cardinality(OpenConns) # 0
  BY <1>1, FS_CardinalityType, FS_EmptySet
<1> QED BY <1>1, <1>2, FS_RemoveElement

\* A handler that moves on leaves its connection open.
LEMMA SameOpen ==
    ASSUME TypeOK, NEW c \in Conns, conn[c] # Free, NEW r, r # Free,
           conn' = [conn EXCEPT ![c] = r]
    PROVE  OpenConns' = OpenConns
BY DEF OpenConns, TypeOK

-----------------------------------------------------------------------------
(* What steps leave alone *)

\* Slots match as long as nobody touches connections and slots.
LEMMA SlotsKept ==
    ASSUME SlotsMatch, UNCHANGED <<how, conn, active, sem>> PROVE SlotsMatch'
BY DEF SlotsMatch, Atp, OpenConns

\* Of the servers that are not an ATPServer nothing is claimed.
LEMMA OthersKept ==
    ASSUME how' = how, ~ Atp PROVE SlotsMatch' /\ StaysReachable'
BY DEF SlotsMatch, StaysReachable, Atp

\* A listener stays where nobody touches it.
LEMMA ReachKept ==
    ASSUME StaysReachable, UNCHANGED <<how, server, current, stopper>> PROVE StaysReachable'
BY DEF StaysReachable, Atp, Listening

\* A failure opens a circuit that has opened before, or finds it open.
Reopens ==
    breaker.state # "CLOSED" /\ breaker'.failures > breaker.failures => breaker'.state = "OPEN"

\* The count stays where nobody calls the circuit.
LEMMA CountKept == ASSUME TypeOK, Counted, UNCHANGED breaker PROVE Counted' /\ Reopens
BY DEF Counted, Reopens, TypeOK

-----------------------------------------------------------------------------
(* The types, step by step *)

\* close() and the cancellation of the serve_forever on it.
LEMMA ClosedTypes ==
    ASSUME TypeOK, NEW G
    PROVE  /\ Closed(G) \in [Gens -> {"none", "listening", "closed", "left"}]
           /\ Cancelled(G) \in [Gens -> {"none", "serving", "exiting", "draining", "over"}]
BY DEF TypeOK, Closed, Cancelled

\* The handler of a connection that is not free moves on.
LEMMA ConnTypes ==
    ASSUME TypeOK, NEW c \in Conns, conn[c].at # "free", NEW p \in Places,
           conn' = [conn EXCEPT ![c].at = p]
    PROVE  conn' \in [Conns -> {Free} \cup [at : Places, gen : Gens]]
<1>1. conn[c] \in [at : Places, gen : Gens]
  BY DEF TypeOK, Free
<1>2. [conn[c] EXCEPT !.at = p] \in [at : Places, gen : Gens]
  BY <1>1
<1> QED BY <1>2 DEF TypeOK

\* Every step keeps the types; that a slot which is given back exists follows from
\* SlotsMatch.
LEMMA TypesStep == ASSUME TypeOK, SlotsMatch, Next PROVE TypeOK'
<1> USE LimitsAssumption
    DEF env, listeners, sdk, stopping, background, certificate, handlers, circuit
<1>1. ASSUME Start PROVE TypeOK'
  <2>1. 1 \in Gens /\ 1 \in 0 .. MaxGens
    BY DEF Gens
  <2>2. /\ server' \in [Gens -> {"none", "listening", "closed", "left"}]
        /\ task' \in [Gens -> {"none", "serving", "exiting", "draining", "over"}]
    BY <1>1, <2>1 DEF TypeOK, Start
  <2> QED BY <1>1, <2>1, <2>2 DEF TypeOK, Start
<1>2. ASSUME Signal PROVE TypeOK'
  BY <1>2 DEF TypeOK, Signal
<1>3. ASSUME NEW bound \in BOOLEAN, HealthStarts(bound) PROVE TypeOK'
  BY <1>3 DEF TypeOK, HealthStarts
<1>4. ASSUME MainExits PROVE TypeOK'
  BY <1>4 DEF TypeOK, MainExits
<1>5. ASSUME MainEnds PROVE TypeOK'
  BY <1>5 DEF TypeOK, MainEnds, HealthStopped, SurvivesDrain
<1>6. ASSUME StopCalled PROVE TypeOK'
  <2>1. /\ Closed({current}) \in [Gens -> {"none", "listening", "closed", "left"}]
        /\ Cancelled({current}) \in [Gens -> {"none", "serving", "exiting", "draining", "over"}]
    BY ClosedTypes
  <2> QED BY <1>6, <2>1 DEF TypeOK, StopCalled
<1>7. ASSUME StopWaited PROVE TypeOK'
  BY <1>7 DEF TypeOK, StopWaited
<1>8. ASSUME StopEnds PROVE TypeOK'
  BY <1>8 DEF TypeOK, StopEnds, HealthStopped, SurvivesDrain
<1>9. ASSUME CertDue PROVE TypeOK'
  BY <1>9 DEF TypeOK, CertDue
<1>10. ASSUME Rotate PROVE TypeOK'
  <2>1. reload' \in BOOLEAN
    BY <1>10 DEF Rotate
  <2> QED BY <1>10, <2>1 DEF TypeOK, Rotate
<1>11. ASSUME ReloadFails PROVE TypeOK'
  BY <1>11 DEF TypeOK, ReloadFails
<1>12. ASSUME NEW new \in Gens, ReloadBinds(new) PROVE TypeOK'
  <2>1. new \in 0 .. MaxGens
    BY DEF Gens
  <2>2. /\ Closed({current}) \in [Gens -> {"none", "listening", "closed", "left"}]
        /\ Cancelled({current}) \in [Gens -> {"none", "serving", "exiting", "draining", "over"}]
    BY ClosedTypes
  <2>3. server' \in [Gens -> {"none", "listening", "closed", "left"}]
    BY <1>12, <2>2 DEF ReloadBinds
  <2> QED BY <1>12, <2>1, <2>2, <2>3 DEF TypeOK, ReloadBinds
<1>13. ASSUME QuicStart PROVE TypeOK'
  <2>1. 1 \in Gens /\ 1 \in 0 .. MaxGens
    BY DEF Gens
  <2> QED BY <1>13, <2>1 DEF TypeOK, QuicStart
<1>14. ASSUME QuicStop PROVE TypeOK'
  <2>1. /\ Closed({current}) \in [Gens -> {"none", "listening", "closed", "left"}]
        /\ Cancelled({current}) \in [Gens -> {"none", "serving", "exiting", "draining", "over"}]
    BY ClosedTypes
  <2> QED BY <1>14, <2>1 DEF TypeOK, QuicStop
<1>15. ASSUME QuicStopEnds PROVE TypeOK'
  BY <1>15 DEF TypeOK, QuicStopEnds
<1>16. ASSUME SyncStop PROVE TypeOK'
  BY <1>16 DEF TypeOK, SyncStop
<1>17. ASSUME SyncStopEnds PROVE TypeOK'
  <2>1. server' \in [Gens -> {"none", "listening", "closed", "left"}]
    BY <1>17 DEF TypeOK, SyncStopEnds
  <2>2. task' \in [Gens -> {"none", "serving", "exiting", "draining", "over"}]
    BY <1>17 DEF TypeOK, SyncStopEnds
  <2>3. conn' \in [Conns -> {Free} \cup [at : Places, gen : Gens]]
    BY <1>17 DEF SyncStopEnds
  <2>4. asking' \in 0 .. MaxAsking
    BY <1>17 DEF SyncStopEnds
  <2> QED BY <1>17, <2>1, <2>2, <2>3, <2>4 DEF TypeOK, SyncStopEnds
<1>18. ASSUME SdkStop PROVE TypeOK'
  <2>1. /\ Closed({taskref}) \in [Gens -> {"none", "listening", "closed", "left"}]
        /\ Cancelled({taskref}) \in [Gens -> {"none", "serving", "exiting", "draining", "over"}]
    BY ClosedTypes
  <2> QED BY <1>18, <2>1 DEF TypeOK, SdkStop
<1>19. ASSUME SdkStopGoesOn PROVE TypeOK'
  BY <1>19 DEF TypeOK, SdkStopGoesOn
<1>20. ASSUME SdkStopCloses PROVE TypeOK'
  <2>1. /\ Closed({current}) \in [Gens -> {"none", "listening", "closed", "left"}]
        /\ Cancelled({current}) \in [Gens -> {"none", "serving", "exiting", "draining", "over"}]
    BY ClosedTypes
  <2>2. current' \in 0 .. MaxGens
    BY <1>20 DEF TypeOK, SdkStopCloses
  <2>3. stopper' \in {"closing", "stopped", "done"}
    BY <1>20 DEF SdkStopCloses, Stopped
  <2> QED BY <1>20, <2>1, <2>2, <2>3 DEF TypeOK, SdkStopCloses
<1>21. ASSUME SdkStopEnds PROVE TypeOK'
  BY <1>21 DEF TypeOK, SdkStopEnds, Stopped
<1>22. ASSUME NEW g \in Gens, SdkStart(g) PROVE TypeOK'
  <2>1. g \in 0 .. MaxGens
    BY DEF Gens
  <2> QED BY <1>22, <2>1 DEF TypeOK, SdkStart
<1>23. ASSUME NEW g \in Gens, SdkTaskEnds(g) PROVE TypeOK'
  BY <1>23 DEF TypeOK, SdkTaskEnds
<1>24. ASSUME WindowPasses PROVE TypeOK'
  BY <1>24 DEF TypeOK, WindowPasses
<1>25. ASSUME NEW c \in Conns, HandshakeOk(c) PROVE TypeOK'
  <2>1. conn[c].at # "free" /\ conn' = [conn EXCEPT ![c].at = "serving"]
    BY <1>25 DEF HandshakeOk
  <2>2. "serving" \in Places
    BY DEF Places
  <2>3. conn' \in [Conns -> {Free} \cup [at : Places, gen : Gens]]
    BY <2>1, <2>2, ConnTypes
  <2> QED BY <1>25, <2>3 DEF TypeOK, HandshakeOk, Tracked
<1>26. ASSUME NEW c \in Conns, HandlerEnds(c) PROVE TypeOK'
  <2>1. conn[c].at # "free" /\ conn' = [conn EXCEPT ![c].at = "closing"]
    BY <1>26 DEF HandlerEnds
  <2>2. "closing" \in Places
    BY DEF Places
  <2>3. conn' \in [Conns -> {Free} \cup [at : Places, gen : Gens]]
    BY <2>1, <2>2, ConnTypes
  <2> QED BY <1>26, <2>3 DEF TypeOK, HandlerEnds, Untracked
<1>27. ASSUME NEW c \in Conns, ConnectionClosed(c) PROVE TypeOK'
  <2>1. conn' \in [Conns -> {Free} \cup [at : Places, gen : Gens]]
    BY <1>27 DEF TypeOK, ConnectionClosed
  <2>2. active' \in 0 .. MaxConns /\ sem' \in 0 .. MaxConns
    <3>1. CASE Atp
      <4>1. conn[c] # Free /\ conn' = [conn EXCEPT ![c] = Free]
        BY <1>27 DEF ConnectionClosed, Free
      <4>2. Cardinality(OpenConns) \in Nat \ {0}
        BY <4>1, ClosedOne
      <4>3. active = Cardinality(OpenConns) /\ active + sem = MaxConns
        BY <3>1 DEF SlotsMatch
      <4> QED BY <1>27, <3>1, <4>2, <4>3 DEF ConnectionClosed, Release, TypeOK
    <3>2. CASE ~ Atp
      BY <1>27, <3>2 DEF ConnectionClosed, TypeOK
    <3> QED BY <3>1, <3>2
  <2> QED BY <1>27, <2>1, <2>2 DEF TypeOK, ConnectionClosed
<1>28. ASSUME NEW c \in Conns, QuicAccept(c) PROVE TypeOK'
  <2>1. current \in Gens
    BY <1>28 DEF QuicAccept, Listening
  <2>2. conn' \in [Conns -> {Free} \cup [at : Places, gen : Gens]]
    BY <1>28, <2>1 DEF TypeOK, QuicAccept, Places
  <2>3. attempts' \in 0 .. MaxAttempts
    BY <1>28 DEF TypeOK, QuicAccept
  <2> QED BY <1>28, <2>2, <2>3 DEF TypeOK, QuicAccept
<1>29. ASSUME NEW c \in Conns, NEW g \in Gens, Accept(c, g) PROVE TypeOK'
  <2>1. conn' \in [Conns -> {Free} \cup [at : Places, gen : Gens]]
    BY <1>29 DEF TypeOK, Accept, Places
  <2>2. /\ attempts' \in 0 .. MaxAttempts
        /\ active' \in 0 .. MaxConns /\ sem' \in 0 .. MaxConns
    BY <1>29 DEF TypeOK, Accept, Acquire
  <2> QED BY <1>29, <2>1, <2>2 DEF TypeOK, Accept
<1>30. ASSUME AskDeepseek PROVE TypeOK'
  BY <1>30 DEF TypeOK, AskDeepseek, MaybeTransition
<1>31. ASSUME DeepseekAnswers PROVE TypeOK'
  BY <1>31 DEF TypeOK, DeepseekAnswers
<1>32. ASSUME DeepseekFails PROVE TypeOK'
  BY <1>32 DEF TypeOK, DeepseekFails, RecordFailure
<1>33. ASSUME TooManyAttempts PROVE TypeOK'
  BY <1>33 DEF TooManyAttempts, vars, TypeOK
<1> QED
  BY <1>1, <1>2, <1>3, <1>4, <1>5, <1>6, <1>7, <1>8, <1>9, <1>10, <1>11, <1>12, <1>13, <1>14, <1>15, <1>16, <1>17, <1>18, <1>19, <1>20, <1>21, <1>22, <1>23, <1>24, <1>25, <1>26, <1>27, <1>28, <1>29, <1>30, <1>31, <1>32, <1>33
  DEF Next

-----------------------------------------------------------------------------
(* Slots *)

\* Every step keeps slots and connections together.
LEMMA SlotsStep == ASSUME TypeOK, SlotsMatch, Next PROVE SlotsMatch'
<1> USE DEF env, handlers
<1>1. how' = how
  BY DEF Next, Start, Signal, HealthStarts, MainExits, MainEnds, StopCalled, StopWaited,
         StopEnds, CertDue, Rotate, ReloadFails, ReloadBinds, QuicStart, QuicStop,
         QuicStopEnds, SyncStop, SyncStopEnds, SdkStop, SdkStopGoesOn, SdkStopCloses,
         SdkStopEnds, SdkStart, SdkTaskEnds, TooManyAttempts, WindowPasses, HandshakeOk,
         HandlerEnds, ConnectionClosed, QuicAccept, Accept, AskDeepseek, DeepseekAnswers,
         DeepseekFails, vars
<1>2. CASE ~ Atp
  BY <1>1, <1>2, OthersKept
<1>3. CASE Atp
  <2>1. active = Cardinality(OpenConns) /\ active + sem = MaxConns /\ Atp'
    BY <1>1, <1>3 DEF SlotsMatch, Atp
  <2>2. active \in Nat /\ sem \in Nat /\ MaxConns \in Nat
    BY LimitsAssumption DEF TypeOK
  <2>3. ASSUME NEW c \in Conns, NEW g \in Gens, Accept(c, g) PROVE SlotsMatch'
    <3>1. conn[c] = Free /\ conn' = [conn EXCEPT ![c] = [at |-> "handshake", gen |-> g]]
          /\ [at |-> "handshake", gen |-> g] # Free
      BY <2>3 DEF Accept, Free
    <3>2. Cardinality(OpenConns') = Cardinality(OpenConns) + 1
      BY <3>1, OpenedOne
    <3>3. active' = active + 1 /\ sem' = sem - 1
      BY <1>3, <2>3 DEF Accept, Acquire
    <3> QED BY <2>1, <2>2, <3>2, <3>3 DEF SlotsMatch
  <2>4. ASSUME NEW c \in Conns, ConnectionClosed(c) PROVE SlotsMatch'
    <3>1. conn[c] # Free /\ conn' = [conn EXCEPT ![c] = Free]
      BY <2>4 DEF ConnectionClosed, Free
    <3>2. /\ Cardinality(OpenConns) \in Nat \ {0}
          /\ Cardinality(OpenConns') = Cardinality(OpenConns) - 1
      BY <3>1, ClosedOne
    <3>3. active' = active - 1 /\ sem' = sem + 1
      BY <1>3, <2>1, <2>4, <3>2 DEF ConnectionClosed, Release
    <3> QED BY <2>1, <2>2, <3>2, <3>3 DEF SlotsMatch
  <2>5. ASSUME NEW c \in Conns, HandshakeOk(c) \/ HandlerEnds(c) PROVE SlotsMatch'
    <3>1. PICK p \in {"serving", "closing"} :
             conn[c].at # "free" /\ conn' = [conn EXCEPT ![c].at = p]
      BY <2>5 DEF HandshakeOk, HandlerEnds
    <3>2. conn[c] # Free /\ [conn[c] EXCEPT !.at = p] # Free
          /\ conn' = [conn EXCEPT ![c] = [conn[c] EXCEPT !.at = p]]
      <4>1. conn[c] # Free /\ conn[c] \in [at : Places, gen : Gens]
        BY <3>1 DEF Free, TypeOK
      <4>2. [conn[c] EXCEPT !.at = p].at = p /\ Free.at # p
        BY <3>1, <4>1 DEF Free
      <4> QED BY <3>1, <4>1, <4>2 DEF TypeOK
    <3>3. OpenConns' = OpenConns
      BY <3>2, SameOpen
    <3>4. UNCHANGED <<active, sem>>
      BY <2>5 DEF HandshakeOk, HandlerEnds
    <3> QED BY <2>1, <3>3, <3>4 DEF SlotsMatch
  <2>6. ASSUME NEW c \in Conns, QuicAccept(c) PROVE SlotsMatch'
    BY <1>3, <2>6 DEF QuicAccept, Atp
  <2>7. ASSUME SyncStopEnds PROVE SlotsMatch'
    BY <1>3, <2>7 DEF SyncStopEnds, Atp
  <2>8. ASSUME \/ Start \/ Signal \/ (\E bound \in BOOLEAN : HealthStarts(bound))
               \/ MainExits \/ MainEnds \/ StopCalled \/ StopWaited \/ StopEnds
        PROVE  UNCHANGED <<how, conn, active, sem>>
    BY <2>8 DEF Start, Signal, HealthStarts, MainExits, MainEnds, StopCalled, StopWaited, StopEnds
  <2>9. ASSUME \/ CertDue \/ Rotate \/ ReloadFails \/ (\E new \in Gens : ReloadBinds(new))
               \/ QuicStart \/ QuicStop \/ QuicStopEnds
               \/ SyncStop \/ SdkStop \/ SdkStopGoesOn \/ SdkStopCloses \/ SdkStopEnds
               \/ (\E g \in Gens : SdkStart(g) \/ SdkTaskEnds(g))
        PROVE  UNCHANGED <<how, conn, active, sem>>
    BY <2>9 DEF CertDue, Rotate, ReloadFails, ReloadBinds, QuicStart, QuicStop, QuicStopEnds,
                SyncStop, SdkStop, SdkStopGoesOn, SdkStopCloses, SdkStopEnds, SdkStart, SdkTaskEnds
  <2>10. ASSUME TooManyAttempts \/ WindowPasses \/ AskDeepseek \/ DeepseekAnswers \/ DeepseekFails
         PROVE  UNCHANGED <<how, conn, active, sem>>
    BY <2>10 DEF TooManyAttempts, WindowPasses, AskDeepseek, DeepseekAnswers, DeepseekFails, vars
  <2> QED BY <2>3, <2>4, <2>5, <2>6, <2>7, <2>8, <2>9, <2>10, SlotsKept DEF Next
<1> QED BY <1>2, <1>3

-----------------------------------------------------------------------------
(* Reachability and the breaker *)

\* Every step of an ATPServer that is not being stopped leaves it a listener.
LEMMA ReachStep == ASSUME TypeOK, StaysReachable, Next PROVE StaysReachable'
<1> USE DEF env, listeners, stopping
<1>1. ASSUME Start PROVE StaysReachable'
  <2>1. 1 \in Gens
    BY LimitsAssumption DEF Gens
  <2>2. current' = 1 /\ server'[1] = "listening"
    BY <1>1, <2>1 DEF Start, TypeOK
  <2> QED BY <2>1, <2>2 DEF StaysReachable, Listening
<1>2. ASSUME NEW new \in Gens, ReloadBinds(new) PROVE StaysReachable'
  <2>1. current' = new /\ server'[new] = "listening"
    BY <1>2 DEF ReloadBinds, Closed
  <2> QED BY <2>1 DEF StaysReachable, Listening
<1>3. ASSUME StopCalled \/ StopEnds PROVE StaysReachable'
  BY <1>3 DEF StopCalled, StopEnds, StaysReachable
<1>4. ASSUME \/ QuicStart \/ QuicStop \/ QuicStopEnds
             \/ SyncStop \/ SyncStopEnds \/ SdkStop \/ SdkStopGoesOn \/ SdkStopCloses
             \/ SdkStopEnds \/ (\E g \in Gens : SdkStart(g) \/ SdkTaskEnds(g))
      PROVE  how' = how /\ ~ Atp
  BY <1>4 DEF QuicStart, QuicStop, QuicStopEnds, SyncStop, SyncStopEnds, SdkStop,
              SdkStopGoesOn, SdkStopCloses, SdkStopEnds, SdkStart, SdkTaskEnds, Atp, Sdk
<1>5. ASSUME \/ Signal \/ (\E bound \in BOOLEAN : HealthStarts(bound))
             \/ MainExits \/ MainEnds \/ CertDue \/ Rotate \/ ReloadFails
      PROVE  UNCHANGED <<how, server, current, stopper>>
  BY <1>5 DEF Signal, HealthStarts, MainExits, MainEnds, CertDue, Rotate, ReloadFails
<1>6. ASSUME StopWaited PROVE StaysReachable'
  BY <1>6 DEF StopWaited, StaysReachable
<1>7. ASSUME NEW c \in Conns,
             \/ HandshakeOk(c) \/ HandlerEnds(c) \/ ConnectionClosed(c) \/ QuicAccept(c)
             \/ \E g \in Gens : Accept(c, g)
      PROVE  UNCHANGED <<how, server, current, stopper>>
  BY <1>7 DEF HandshakeOk, HandlerEnds, ConnectionClosed, QuicAccept, Accept
<1>8. ASSUME TooManyAttempts \/ WindowPasses \/ AskDeepseek \/ DeepseekAnswers \/ DeepseekFails
      PROVE  UNCHANGED <<how, server, current, stopper>>
  BY <1>8 DEF TooManyAttempts, WindowPasses, AskDeepseek, DeepseekAnswers, DeepseekFails, vars
<1> QED
  BY <1>1, <1>2, <1>3, <1>4, <1>5, <1>6, <1>7, <1>8, ReachKept, OthersKept DEF Next

\* The transitions of the breaker keep the count, and a failure adds to it.
LEMMA BreakerStep == ASSUME TypeOK, Counted, Next PROVE Counted' /\ Reopens
<1> USE DEF circuit
<1>0. breaker.failures \in Nat /\ Threshold \in Nat
  BY LimitsAssumption DEF TypeOK
<1>1. ASSUME AskDeepseek PROVE Counted' /\ Reopens
  <2>1. breaker' \in MaybeTransition(breaker)
    BY <1>1 DEF AskDeepseek, MaybeTransition
  <2>2. \/ breaker' = breaker
        \/ breaker.state = "OPEN" /\ breaker' = [breaker EXCEPT !.state = "HALF_OPEN"]
    BY <2>1 DEF MaybeTransition
  <2>3. /\ breaker'.failures = breaker.failures
        /\ breaker'.state = "CLOSED" <=> breaker.state = "CLOSED"
    BY <2>2 DEF TypeOK
  <2> QED BY <1>0, <2>3 DEF Counted, Reopens
<1>2. ASSUME DeepseekFails PROVE Counted' /\ Reopens
  <2>1. /\ breaker'.failures = breaker.failures + 1
        /\ breaker'.state = IF breaker.failures + 1 >= Threshold THEN "OPEN" ELSE breaker.state
    BY <1>2 DEF DeepseekFails, RecordFailure
  <2> QED BY <1>0, <2>1 DEF Counted, Reopens
<1>3. ASSUME \/ Start \/ Signal \/ (\E bound \in BOOLEAN : HealthStarts(bound))
             \/ MainExits \/ MainEnds \/ StopCalled \/ StopWaited \/ StopEnds
             \/ CertDue \/ Rotate \/ ReloadFails \/ (\E new \in Gens : ReloadBinds(new))
      PROVE  UNCHANGED breaker
  BY <1>3 DEF Start, Signal, HealthStarts, MainExits, MainEnds, StopCalled, StopWaited,
              StopEnds, CertDue, Rotate, ReloadFails, ReloadBinds
<1>4. ASSUME \/ QuicStart \/ QuicStop \/ QuicStopEnds
             \/ SyncStop \/ SyncStopEnds \/ SdkStop \/ SdkStopGoesOn \/ SdkStopCloses
             \/ SdkStopEnds \/ (\E g \in Gens : SdkStart(g) \/ SdkTaskEnds(g))
      PROVE  UNCHANGED breaker
  BY <1>4 DEF QuicStart, QuicStop, QuicStopEnds, SyncStop, SyncStopEnds, SdkStop,
              SdkStopGoesOn, SdkStopCloses, SdkStopEnds, SdkStart, SdkTaskEnds
<1>5. ASSUME NEW c \in Conns,
             \/ HandshakeOk(c) \/ HandlerEnds(c) \/ ConnectionClosed(c) \/ QuicAccept(c)
             \/ \E g \in Gens : Accept(c, g)
      PROVE  UNCHANGED breaker
  BY <1>5 DEF HandshakeOk, HandlerEnds, ConnectionClosed, QuicAccept, Accept
<1>6. ASSUME TooManyAttempts \/ WindowPasses \/ DeepseekAnswers PROVE UNCHANGED breaker
  BY <1>6 DEF TooManyAttempts, WindowPasses, DeepseekAnswers, vars
<1> QED BY <1>1, <1>2, <1>3, <1>4, <1>5, <1>6, CountKept DEF Next

-----------------------------------------------------------------------------
\* The invariant holds throughout.
LEMMA Always == Spec => []Inv
<1>1. Init => Inv
  <2> SUFFICES ASSUME Init PROVE Inv
    OBVIOUS
  <2>1. breaker \in [state : {"CLOSED", "OPEN", "HALF_OPEN"}, failures : 0 .. MaxFailures]
        /\ breaker.failures = 0
    BY LimitsAssumption DEF Init, NewBreaker
  <2>2. /\ active \in 0 .. MaxConns /\ sem \in 0 .. MaxConns /\ attempts \in 0 .. MaxAttempts
        /\ asking \in 0 .. MaxAsking /\ dues \in 0 .. MaxDue
        /\ current \in 0 .. MaxGens /\ taskref \in 0 .. MaxGens /\ awaited \in 0 .. MaxGens
    BY LimitsAssumption DEF Init
  <2>3. TypeOK
    BY <2>1, <2>2 DEF Init, TypeOK
  <2>4. SlotsMatch
    <3>1. OpenConns = {}
      BY DEF Init, OpenConns
    <3> QED BY <3>1, FS_EmptySet, LimitsAssumption DEF Init, SlotsMatch
  <2>5. StaysReachable
    BY DEF Init, StaysReachable
  <2>6. Counted
    BY DEF Init, NewBreaker, Counted
  <2> QED BY <2>3, <2>4, <2>5, <2>6 DEF Inv
<1>2. Inv /\ [Next]_vars => Inv'
  <2>1. ASSUME Inv, Next PROVE Inv'
    BY <2>1, TypesStep, SlotsStep, ReachStep, BreakerStep DEF Inv
  <2>2. ASSUME Inv, UNCHANGED vars PROVE Inv'
    <3>1. TypeOK'
      BY <2>2 DEF Inv, TypeOK, vars, env, listeners, sdk, stopping, background,
                  certificate, handlers, circuit
    <3>2. UNCHANGED <<how, server, current, stopper, conn, active, sem, breaker>>
      BY <2>2 DEF vars, env, listeners, stopping, handlers, circuit
    <3> QED BY <2>2, <3>1, <3>2, SlotsKept, ReachKept, CountKept DEF Inv
  <2> QED BY <2>1, <2>2
<1> QED BY <1>1, <1>2, PTL DEF Spec

\* The variables keep their types (server.py, production.py, cert_rotation.py, the
\* SDK's server.py, quic_transport.py).
THEOREM TypesCorrect == Spec => []TypeOK
<1>1. Inv => TypeOK
  BY DEF Inv
<1> QED BY <1>1, Always, PTL

\* The ConnectionLimiter's counter is the number of connections that are open, and
\* agrees with its semaphore, for any number of them and of slots.
THEOREM SlotsAgree == Spec => []SlotsMatch
<1>1. Inv => SlotsMatch
  BY DEF Inv
<1> QED BY <1>1, Always, PTL

\* reload_ssl never leaves a server that is not being stopped without a listener.
THEOREM Reachable == Spec => []StaysReachable
<1>1. Inv => StaysReachable
  BY DEF Inv
<1> QED BY <1>1, Always, PTL

\* A call that fails in HALF_OPEN, or late, leaves the CircuitBreaker OPEN, whatever the
\* threshold and however many calls are under way.
THEOREM ProbesReopen == Spec => FailureReopens
<1>1. Inv /\ [Next]_vars =>
        [breaker.state # "CLOSED" /\ breaker'.failures > breaker.failures
           => breaker'.state = "OPEN"]_vars
  BY BreakerStep DEF Inv, Reopens
<1> QED BY <1>1, Always, PTL DEF Spec, FailureReopens
=============================================================================

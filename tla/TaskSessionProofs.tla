------------------------- MODULE TaskSessionProofs -------------------------
(***************************************************************************)
(* Proofs about TaskSession, for any number of calls and any of its faults:   *)
(* what is pending, that a task is answered once, and, for a server that       *)
(* answers in one frame as agent_task.py does, that a session implements       *)
(* TaskService.                                                               *)
(***************************************************************************)
EXTENDS TaskSession, TLAPS

\* What a job has written follows from where it is.
JobShape(t) ==
    /\ job[t] = "none" => sent[t] = 0
    /\ job[t] \in {"created", "running"} => sent[t] = 0 /\ replies[t] = 0
    /\ job[t] \in {"sending", "cancelled"} =>
         replies[t] = IF sent[t] = Chunks THEN 1 ELSE 0
    /\ job[t] \in {"ending", "over"} /\ sent[t] = Chunks => replies[t] >= 1

Request(t) == [type |-> "request", task |-> t]
Untouched(t) == job[t] = "none" /\ replies[t] = 0

\* A request in flight is of a task that was called and that the server has not
\* seen, and it is in flight once.
RequestsFresh ==
    /\ \A t \in Tasks : call[t] = "idle" => Untouched(t) /\ answer[t] = NoFrame
    /\ \A t \in Tasks, i \in 1 .. Len(toS) : toS[i] = Request(t) =>
         /\ call[t] # "idle" /\ Untouched(t)
         /\ \A j \in 1 .. Len(toS) : toS[j] = Request(t) => i = j

CancelsAsked == asked = {} => \A i \in 1 .. Len(toS) : toS[i].type # "cancel"

\* Jobs nobody cancels: how many replies there are at their end.
Undisturbed(t) ==
    asked = {} =>
      /\ job[t] # "cancelled"
      /\ job[t] \in {"none", "ending", "over"} => replies[t] <= 1
      /\ job[t] \in {"ending", "over"} /\ server = "reading" /\ ~ lost => replies[t] = 1

Inv ==
    /\ TypeOK /\ NothingLeftPending /\ RequestsFresh /\ CancelsAsked
    /\ \A t \in Tasks : JobShape(t) /\ Undisturbed(t)

-----------------------------------------------------------------------------
(* Queues of frames *)

\* What is left of a queue is the frames behind its head.
LEMMA Tails ==
    ASSUME NEW S, NEW q \in Seq(S), q # << >>
    PROVE  /\ Len(q) \in Nat \ {0} /\ Head(q) = q[1] /\ q[1] \in S
           /\ Tail(q) \in Seq(S) /\ Len(Tail(q)) = Len(q) - 1
           /\ \A i \in 1 .. Len(Tail(q)) : i + 1 \in 1 .. Len(q) /\ Tail(q)[i] = q[i + 1]
OBVIOUS

\* A write adds its frame at the end of an open connection, and nothing otherwise.
LEMMA Writes ==
    ASSUME NEW S, NEW q \in Seq(S), NEW f \in S
    PROVE  /\ Sent(q, f) \in Seq(S)
           /\ Open => /\ Len(Sent(q, f)) = Len(q) + 1
                      /\ Sent(q, f)[Len(q) + 1] = f
                      /\ \A i \in 1 .. Len(q) : Sent(q, f)[i] = q[i]
           /\ ~ Open => Sent(q, f) = q
<1>1. Append(q, f) \in Seq(S) /\ Len(Append(q, f)) = Len(q) + 1 /\ Append(q, f)[Len(q) + 1] = f
      /\ \A i \in 1 .. Len(q) : Append(q, f)[i] = q[i]
  OBVIOUS
<1> QED BY <1>1 DEF Sent

\* The frames the two sides write are frames.
LEMMA Kinds ==
    ASSUME NEW t \in Tasks
    PROVE  /\ Ack(t) \in Frames /\ Error(t) \in Frames
           /\ \A n \in 0 .. Chunks : Response(t, n) \in Frames
           /\ [type |-> "request", task |-> t] \in Requests
           /\ [type |-> "cancel", task |-> t] \in Requests
BY ChunksAssumption DEF Ack, Error, Response, Frames, Requests

\* What stays in the queues and what is written to them has their types.
LEMMA QueuesTyped ==
    ASSUME TypeOK, NEW t \in Tasks
    PROVE  /\ << >> \in Seq(Requests) /\ << >> \in Seq(Frames)
           /\ toS # << >> => Tail(toS) \in Seq(Requests)
           /\ toC # << >> => Head(toC) \in Frames /\ Tail(toC) \in Seq(Frames)
           /\ Sent(toS, [type |-> "request", task |-> t]) \in Seq(Requests)
           /\ Sent(toS, [type |-> "cancel", task |-> t]) \in Seq(Requests)
           /\ Sent(toC, Ack(t)) \in Seq(Frames) /\ Sent(toC, Error(t)) \in Seq(Frames)
           /\ \A n \in 0 .. Chunks : Sent(toC, Response(t, n)) \in Seq(Frames)
<1>1. toS \in Seq(Requests) /\ toC \in Seq(Frames)
  BY DEF TypeOK
<1>2. << >> \in Seq(Requests) /\ << >> \in Seq(Frames)
  OBVIOUS
<1>3. /\ toS # << >> => Tail(toS) \in Seq(Requests)
      /\ toC # << >> => Head(toC) \in Frames /\ Tail(toC) \in Seq(Frames)
  BY <1>1, Tails
<1>4. /\ Sent(toS, [type |-> "request", task |-> t]) \in Seq(Requests)
      /\ Sent(toS, [type |-> "cancel", task |-> t]) \in Seq(Requests)
  BY <1>1, Kinds, Writes
<1>5. Sent(toC, Ack(t)) \in Seq(Frames) /\ Sent(toC, Error(t)) \in Seq(Frames)
  BY <1>1, Kinds, Writes
<1>6. \A n \in 0 .. Chunks : Sent(toC, Response(t, n)) \in Seq(Frames)
  BY <1>1, Kinds, Writes
<1> QED BY <1>2, <1>3, <1>4, <1>5, <1>6

-----------------------------------------------------------------------------
(* Types and pending futures *)

\* The types hold at the start.
LEMMA TypesInit == Init => TypeOK
<1>0. << >> \in Seq(Frames) /\ << >> \in Seq(Requests)
  OBVIOUS
<1>1. [t \in Tasks |-> << >>] \in [Tasks -> Seq(Frames)]
  BY <1>0
<1>2. [t \in Tasks |-> 0] \in [Tasks -> Nat] /\ [t \in Tasks |-> 0] \in [Tasks -> 0 .. Chunks]
  BY ChunksAssumption
<1> QED BY <1>0, <1>1, <1>2 DEF Init, TypeOK, CallStates, JobStates

\* Every step keeps the types.
LEMMA TypesStep == TypeOK /\ [Next]_vars => TypeOK'
<1> SUFFICES ASSUME TypeOK, [Next]_vars PROVE TypeOK'
  OBVIOUS
<1> USE ChunksAssumption DEF TypeOK, CallStates, JobStates
<1>1. ASSUME NEW t \in Tasks, Call(t) PROVE TypeOK'
  BY <1>1, QueuesTyped DEF Call, jobs
<1>2. ASSUME NEW t \in Tasks, Return(t) PROVE TypeOK'
  <2>1. answer[t] \in Frames
    BY <1>2 DEF Return
  <2>2. <<answer[t]>> \in Seq(Frames)
    BY <2>1
  <2> QED BY <1>2, <2>2 DEF Return, jobs
<1>3. ASSUME NEW t \in Tasks, Timeout(t) PROVE TypeOK'
  BY <1>3 DEF Timeout, jobs
<1>4. ASSUME NEW t \in Tasks, StreamReads(t) PROVE TypeOK'
  <2>1. Head(toC) \in Frames /\ Tail(toC) \in Seq(Frames)
    BY <1>4, QueuesTyped DEF StreamReads
  <2>2. Append(parts[t], Head(toC)) \in Seq(Frames)
    BY <2>1
  <2> QED BY <1>4, <2>1, <2>2 DEF StreamReads, jobs
<1>5. ASSUME NEW t \in Tasks, StreamReadsNone(t) PROVE TypeOK'
  BY <1>5 DEF StreamReadsNone, jobs
<1>6. CASE ReaderRoutes
  <2>1. Head(toC) \in Frames /\ Tail(toC) \in Seq(Frames)
    BY <1>6, Tails DEF ReaderRoutes
  <2> QED BY <1>6, <2>1 DEF ReaderRoutes, jobs
<1>7. CASE ReaderEnds
  BY <1>7 DEF ReaderEnds, jobs
<1>8. CASE ClientCloses
  <2> << >> \in Seq(Frames)
    OBVIOUS
  <2> QED BY <1>8 DEF ClientCloses, jobs
<1>9. ASSUME NEW t \in Tasks, SendCancel(t) PROVE TypeOK'
  BY <1>9, QueuesTyped DEF SendCancel, jobs, client
<1>10. ASSUME NEW t \in Tasks, RefuseRequest(t) PROVE TypeOK'
  <2>1. replies' \in [Tasks -> Nat]
    BY <1>10 DEF RefuseRequest
  <2>2. toS' \in Seq(Requests) /\ toC' \in Seq(Frames)
    BY <1>10, QueuesTyped DEF RefuseRequest, RequestAt
  <2> QED BY <1>10, <2>1, <2>2 DEF RefuseRequest, client
<1>11. ASSUME NEW t \in Tasks, AcceptRequest(t) PROVE TypeOK'
  BY <1>11, QueuesTyped DEF AcceptRequest, RequestAt, client
<1>12. ASSUME NEW t \in Tasks, RefuseSkewed(t) PROVE TypeOK'
  <2>1. replies' \in [Tasks -> Nat]
    BY <1>12 DEF RefuseSkewed
  <2>2. toS' \in Seq(Requests) /\ toC' \in Seq(Frames)
    BY <1>12, QueuesTyped DEF RefuseSkewed, RequestAt
  <2> QED BY <1>12, <2>1, <2>2 DEF RefuseSkewed, client
<1>13. ASSUME ServerCloses(toC) PROVE TypeOK'
  <2> << >> \in Seq(Requests) /\ << >> \in Seq(Frames)
    OBVIOUS
  <2> QED BY <1>13 DEF ServerCloses, client, jobs
<1>14. CASE ReadCancel
  <2>1. Tail(toS) \in Seq(Requests)
    BY <1>14, Tails DEF ReadCancel
  <2> QED BY <1>14, <2>1 DEF ReadCancel, client
<1>15. ASSUME NEW t \in Tasks, StartJob(t) PROVE TypeOK'
  BY <1>15 DEF StartJob, client
<1>16. ASSUME NEW t \in Tasks, SendResponse(t) PROVE TypeOK'
  <2>1. sent[t] + 1 \in 0 .. Chunks
    BY <1>16 DEF SendResponse
  <2>2. Sent(toC, Response(t, sent[t] + 1)) \in Seq(Frames)
    BY <2>1, QueuesTyped
  <2> QED BY <1>16, <2>1, <2>2 DEF SendResponse, client
<1>17. ASSUME NEW t \in Tasks, FinishJob(t) PROVE TypeOK'
  BY <1>17 DEF FinishJob, client
<1>18. ASSUME NEW t \in Tasks, FailJob(t) PROVE TypeOK'
  <2>1. replies' \in [Tasks -> Nat]
    BY <1>18 DEF FailJob
  <2>2. toC' \in Seq(Frames)
    BY <1>18, QueuesTyped DEF FailJob
  <2> QED BY <1>18, <2>1, <2>2 DEF FailJob, client
<1>19. ASSUME NEW t \in Tasks, CancelJob(t) PROVE TypeOK'
  <2>1. replies' \in [Tasks -> Nat]
    BY <1>19 DEF CancelJob
  <2>2. toC' \in Seq(Frames)
    BY <1>19, QueuesTyped DEF CancelJob
  <2> QED BY <1>19, <2>1, <2>2 DEF CancelJob, client
<1>20. ASSUME NEW t \in Tasks, JobDone(t) PROVE TypeOK'
  BY <1>20 DEF JobDone, client
<1>21. CASE LoseConnection
  <2> << >> \in Seq(Requests) /\ << >> \in Seq(Frames)
    OBVIOUS
  <2> QED BY <1>21 DEF LoseConnection, client, jobs
<1>22. CASE UNCHANGED vars
  BY <1>22 DEF vars, client, jobs
<1> QED BY <1>1, <1>2, <1>3, <1>4, <1>5, <1>6, <1>7, <1>8, <1>9, <1>10, <1>11, <1>12, <1>13,
           <1>14, <1>15, <1>16, <1>17, <1>18, <1>19, <1>20, <1>21, <1>22
        DEF Next, Caller, Reader, Loop, Job, Quiet, ReaderIdles, AcknowledgeRaises, ServerReadsNone

\* Only what a call itself does moves it, and it takes its future along.
LEMMA PendingStep == TypeOK /\ NothingLeftPending /\ [Next]_vars => NothingLeftPending'
<1> SUFFICES ASSUME TypeOK, NothingLeftPending, [Next]_vars PROVE NothingLeftPending'
  OBVIOUS
<1> USE DEF NothingLeftPending, TypeOK
<1>1. ASSUME NEW t \in Tasks, Call(t) PROVE NothingLeftPending'
  BY <1>1 DEF Call
<1>2. ASSUME NEW t \in Tasks, Return(t) PROVE NothingLeftPending'
  BY <1>2 DEF Return
<1>3. ASSUME NEW t \in Tasks, Timeout(t) PROVE NothingLeftPending'
  BY <1>3 DEF Timeout
<1>4. ASSUME NEW t \in Tasks, StreamReads(t) PROVE NothingLeftPending'
  BY <1>4 DEF StreamReads
<1>5. ASSUME NEW t \in Tasks, StreamReadsNone(t) PROVE NothingLeftPending'
  BY <1>5 DEF StreamReadsNone
<1>6. ASSUME UNCHANGED <<call, pending>> PROVE NothingLeftPending'
  BY <1>6
<1> QED BY <1>1, <1>2, <1>3, <1>4, <1>5, <1>6
        DEF Next, Caller, Reader, Loop, Job, Quiet, ReaderIdles, AcknowledgeRaises,
            ServerReadsNone, ServerCloses, ReaderRoutes, ReaderEnds, ClientCloses, SendCancel,
            RefuseRequest, AcceptRequest, RefuseSkewed, ReadCancel, StartJob, SendResponse,
            FinishJob, FailJob, CancelJob, JobDone, LoseConnection, vars, client

-----------------------------------------------------------------------------
(* Requests in flight *)

\* A request the server is about to read is of a task it has not seen, called,
\* and the only one of its task.
LEMMA RequestSeen ==
    ASSUME TypeOK, RequestsFresh, NEW t \in Tasks, RequestAt(t)
    PROVE  /\ Untouched(t) /\ call[t] # "idle"
           /\ \A i \in 1 .. Len(Tail(toS)) : Tail(toS)[i] # Request(t)
<1>1. toS \in Seq(Requests) /\ toS # << >> /\ toS[1] = Request(t)
  BY Tails DEF TypeOK, RequestAt, Request
<1>2. 1 \in 1 .. Len(toS)
  BY <1>1, Tails
<1>3. ASSUME NEW i \in 1 .. Len(Tail(toS)), Tail(toS)[i] = Request(t) PROVE FALSE
  <2>1. i + 1 \in 1 .. Len(toS) /\ toS[i + 1] = Request(t)
    BY <1>1, <1>3, Tails
  <2>2. i + 1 = 1
    BY <1>1, <1>2, <2>1 DEF RequestsFresh
  <2> QED BY <2>2
<1> QED BY <1>1, <1>2, <1>3 DEF RequestsFresh

\* Requests stay fresh where the queue only shrinks and the tasks that are still in
\* it are left alone.
LEMMA FreshKept ==
    ASSUME TypeOK, RequestsFresh, NEW G \in SUBSET Tasks,
           \A t \in Tasks \ G : Untouched(t) => Untouched(t)',
           \A t \in G : call[t] # "idle" /\ \A i \in 1 .. Len(toS') : toS'[i] # Request(t),
           \A t \in Tasks : call'[t] = "idle" => call[t] = "idle" /\ answer'[t] = answer[t],
           \/ toS' = toS
           \/ toS' = << >>
           \/ toS # << >> /\ toS' = Tail(toS)
    PROVE  RequestsFresh'
<1>1. toS \in Seq(Requests)
  BY DEF TypeOK
<1>2. \A t \in Tasks : call'[t] = "idle" => Untouched(t)' /\ answer'[t] = NoFrame
  BY DEF RequestsFresh
<1>3. PICK k \in {0, 1} : \A i \in 1 .. Len(toS') : i + k \in 1 .. Len(toS) /\ toS'[i] = toS[i + k]
  <2>1. CASE toS' = toS
    <3>1. \A i \in 1 .. Len(toS') : i + 0 \in 1 .. Len(toS) /\ toS'[i] = toS[i + 0]
      BY <1>1, <2>1
    <3> QED BY <3>1
  <2>2. CASE toS' = << >>
    BY <2>2
  <2>3. CASE toS # << >> /\ toS' = Tail(toS)
    BY <1>1, <2>3, Tails
  <2> QED BY <2>1, <2>2, <2>3
<1>4. ASSUME NEW t \in Tasks, NEW i \in 1 .. Len(toS'), toS'[i] = Request(t)
      PROVE  /\ call'[t] # "idle" /\ Untouched(t)'
             /\ \A j \in 1 .. Len(toS') : toS'[j] = Request(t) => i = j
  <2>1. i + k \in 1 .. Len(toS) /\ toS[i + k] = Request(t)
    BY <1>3, <1>4
  <2>2. call[t] # "idle" /\ Untouched(t) /\ t \notin G
    BY <1>4, <2>1 DEF RequestsFresh
  <2>3. ASSUME NEW j \in 1 .. Len(toS'), toS'[j] = Request(t) PROVE i = j
    <3>1. j + k \in 1 .. Len(toS) /\ toS[j + k] = Request(t)
      BY <1>3, <2>3
    <3>2. i + k = j + k
      BY <2>1, <3>1 DEF RequestsFresh
    <3>3. i \in Nat /\ j \in Nat /\ k \in Nat
      OBVIOUS
    <3> QED BY <3>2, <3>3
  <2> QED BY <2>2, <2>3
<1> QED
  <2>1. (\A t \in Tasks, i \in 1 .. Len(toS) : toS[i] = Request(t) =>
          /\ call[t] # "idle" /\ Untouched(t)
          /\ \A j \in 1 .. Len(toS) : toS[j] = Request(t) => i = j)'
    BY <1>4 DEF Request
  <2> QED BY <1>2, <2>1 DEF RequestsFresh

\* The same where the server reads no request.
LEMMA FreshLeft ==
    ASSUME TypeOK, RequestsFresh,
           \A t \in Tasks : Untouched(t) => Untouched(t)',
           \A t \in Tasks : call'[t] = "idle" => call[t] = "idle" /\ answer'[t] = answer[t],
           \/ toS' = toS
           \/ toS' = << >>
           \/ toS # << >> /\ toS' = Tail(toS)
    PROVE  RequestsFresh'
<1> DEFINE G == {}
<1>1. /\ G \in SUBSET Tasks /\ \A t \in Tasks \ G : Untouched(t) => Untouched(t)'
      /\ \A t \in G : call[t] # "idle" /\ \A i \in 1 .. Len(toS') : toS'[i] # Request(t)
  OBVIOUS
<1> HIDE DEF G
<1> QED BY <1>1, FreshKept

\* A call puts the request of a task into the queue that is not in it.
LEMMA CallFresh ==
    ASSUME TypeOK, RequestsFresh, NEW t \in Tasks, Call(t) PROVE RequestsFresh'
<1>1. toS \in Seq(Requests) /\ Request(t) \in Requests /\ toS' = Sent(toS, Request(t))
  BY Kinds DEF TypeOK, Call, Request
<1>2. /\ call[t] = "idle" /\ call'[t] # "idle"
      /\ \A u \in Tasks \ {t} : call'[u] = call[u]
      /\ UNCHANGED <<answer, job, replies>>
  BY DEF Call, TypeOK, jobs
<1>3. CASE ~ Open
  <2>1. toS' = toS
    BY <1>1, <1>3 DEF Sent
  <2> QED BY <1>2, <2>1 DEF RequestsFresh, Request, Untouched
<1>4. CASE Open
  <2>0. toS' = Append(toS, Request(t))
    BY <1>1, <1>4 DEF Sent
  <2>1. /\ Len(toS) \in Nat /\ Len(toS') = Len(toS) + 1 /\ toS'[Len(toS) + 1] = Request(t)
        /\ \A i \in 1 .. Len(toS) : toS'[i] = toS[i]
    BY <1>1, <2>0
  <2>2. \A i \in 1 .. Len(toS) : toS[i] # Request(t)
    BY <1>2 DEF RequestsFresh
  <2>3. \A u \in Tasks : Request(u) = Request(t) => u = t
    BY DEF Request
  <2>4. ASSUME NEW u \in Tasks, NEW i \in 1 .. Len(toS'), toS'[i] = Request(u)
        PROVE  /\ call'[u] # "idle" /\ Untouched(u)'
               /\ \A j \in 1 .. Len(toS') : toS'[j] = Request(u) => i = j
    <3>1. CASE i = Len(toS) + 1
      <4>1. u = t
        BY <2>1, <2>3, <2>4, <3>1
      <4>2. \A j \in 1 .. Len(toS') : toS'[j] = Request(t) => j = Len(toS) + 1
        BY <2>1, <2>2
      <4> QED BY <1>2, <3>1, <4>1, <4>2 DEF RequestsFresh, Untouched
    <3>2. CASE i \in 1 .. Len(toS)
      <4>1. u # t /\ toS[i] = Request(u)
        BY <2>1, <2>2, <2>4, <3>2
      <4>2. call[u] # "idle" /\ Untouched(u)
        BY <3>2, <4>1 DEF RequestsFresh
      <4>3. \A j \in 1 .. Len(toS') : toS'[j] = Request(u) => j \in 1 .. Len(toS) /\ toS[j] = Request(u)
        BY <2>1, <2>3, <4>1
      <4>4. \A j \in 1 .. Len(toS) : toS[j] = Request(u) => i = j
        BY <3>2, <4>1 DEF RequestsFresh
      <4> QED BY <1>2, <4>1, <4>2, <4>3, <4>4 DEF Untouched
    <3> QED BY <2>1, <3>1, <3>2
  <2>5. (\A u \in Tasks, i \in 1 .. Len(toS) : toS[i] = Request(u) =>
           /\ call[u] # "idle" /\ Untouched(u)
           /\ \A j \in 1 .. Len(toS) : toS[j] = Request(u) => i = j)'
    BY <2>4 DEF Request
  <2>6. \A u \in Tasks : call'[u] = "idle" => Untouched(u)' /\ answer'[u] = NoFrame
    BY <1>2 DEF RequestsFresh, Untouched
  <2> QED BY <2>5, <2>6 DEF RequestsFresh
<1> QED BY <1>3, <1>4

\* A cancel frame is not a request.
LEMMA CancelFresh ==
    ASSUME TypeOK, RequestsFresh, NEW t \in Tasks, SendCancel(t) PROVE RequestsFresh'
<1> DEFINE f == [type |-> "cancel", task |-> t]
<1>1. toS \in Seq(Requests) /\ f \in Requests /\ toS' = Sent(toS, f)
  BY Kinds DEF TypeOK, SendCancel
<1>2. UNCHANGED <<call, answer, job, replies>>
  BY DEF SendCancel, client, jobs
<1>3. \A u \in Tasks : f # Request(u)
  BY DEF Request
<1> HIDE DEF f
<1>4. CASE ~ Open
  <2>1. toS' = toS
    BY <1>1, <1>4 DEF Sent
  <2> QED BY <1>2, <2>1 DEF RequestsFresh, Request, Untouched
<1>5. CASE Open
  <2>0. toS' = Append(toS, f)
    BY <1>1, <1>5 DEF Sent
  <2>1. /\ Len(toS) \in Nat /\ Len(toS') = Len(toS) + 1 /\ toS'[Len(toS) + 1] = f
        /\ \A i \in 1 .. Len(toS) : toS'[i] = toS[i]
    BY <1>1, <2>0
  <2>2. \A u \in Tasks, i \in 1 .. Len(toS') : toS'[i] = Request(u) =>
          i \in 1 .. Len(toS) /\ toS[i] = Request(u)
    BY <2>1, <1>3
  <2>3. (\A u \in Tasks, i \in 1 .. Len(toS) : toS[i] = Request(u) =>
           /\ call[u] # "idle" /\ Untouched(u)
           /\ \A j \in 1 .. Len(toS) : toS[j] = Request(u) => i = j)'
    BY <1>2, <2>2 DEF RequestsFresh, Request, Untouched
  <2> QED BY <1>2, <2>3 DEF RequestsFresh, Untouched
<1> QED BY <1>4, <1>5

\* What the server has seen of a task, it has taken from the queue.
LEMMA RequestsStep ==
    TypeOK /\ RequestsFresh /\ NothingLeftPending /\ [Next]_vars => RequestsFresh'
<1> SUFFICES ASSUME TypeOK, RequestsFresh, NothingLeftPending, [Next]_vars PROVE RequestsFresh'
  OBVIOUS
<1>1. ASSUME NEW t \in Tasks, Return(t) \/ Timeout(t) \/ StreamReads(t) \/ StreamReadsNone(t)
      PROVE  RequestsFresh'
  <2>1. /\ \A u \in Tasks : call'[u] = "idle" => call[u] = "idle" /\ answer'[u] = answer[u]
        /\ UNCHANGED <<job, replies, toS>>
    BY <1>1 DEF Return, Timeout, StreamReads, StreamReadsNone, TypeOK, jobs
  <2>2. \A u \in Tasks : Untouched(u) => Untouched(u)'
    BY <2>1 DEF Untouched
  <2>3. \A u \in Tasks : call'[u] = "idle" => call[u] = "idle" /\ answer'[u] = answer[u]
    BY <2>1
  <2> QED BY <2>1, <2>2, <2>3, FreshLeft
<1>2. CASE ReaderRoutes
  <2>1. \A u \in Tasks : call'[u] = "idle" => call[u] = "idle" /\ answer'[u] = answer[u]
    BY <1>2 DEF ReaderRoutes, TypeOK, NothingLeftPending
  <2>2. UNCHANGED <<job, replies, toS>>
    BY <1>2 DEF ReaderRoutes, jobs
  <2>3. \A u \in Tasks : Untouched(u) => Untouched(u)'
    BY <2>2 DEF Untouched
  <2> QED BY <2>1, <2>2, <2>3, FreshLeft
<1>3. ASSUME NEW t \in Tasks, \/ RefuseRequest(t) \/ AcceptRequest(t) \/ RefuseSkewed(t)
      PROVE  RequestsFresh'
  <2>1. /\ RequestAt(t) /\ UNCHANGED <<call, answer>>
        /\ toS' = << >> \/ (toS # << >> /\ toS' = Tail(toS))
    BY <1>3 DEF RefuseRequest, AcceptRequest, RefuseSkewed, RequestAt, client
  <2>2. call[t] # "idle" /\ \A i \in 1 .. Len(toS') : toS'[i] # Request(t)
    BY <2>1, RequestSeen
  <2>3. \A u \in Tasks \ {t} : Untouched(u) => Untouched(u)'
    BY <1>3 DEF RefuseRequest, AcceptRequest, RefuseSkewed, Untouched, TypeOK
  <2>4. {t} \in SUBSET Tasks
    OBVIOUS
  <2>5. \A u \in {t} : call[u] # "idle" /\ \A i \in 1 .. Len(toS') : toS'[i] # Request(u)
    BY <2>2
  <2>6. \A u \in Tasks : call'[u] = "idle" => call[u] = "idle" /\ answer'[u] = answer[u]
    BY <2>1
  <2> QED BY <2>1, <2>3, <2>4, <2>5, <2>6, FreshKept
<1>4. ASSUME NEW t \in Tasks, \/ StartJob(t) \/ SendResponse(t) \/ FinishJob(t)
                              \/ FailJob(t) \/ CancelJob(t) \/ JobDone(t)
      PROVE  RequestsFresh'
  <2>1. UNCHANGED <<call, answer, toS>>
    BY <1>4 DEF StartJob, SendResponse, FinishJob, FailJob, CancelJob, JobDone, client
  <2>2. \A u \in Tasks : Untouched(u) => Untouched(u)'
    BY <1>4 DEF StartJob, SendResponse, FinishJob, FailJob, CancelJob, JobDone, Untouched, TypeOK
  <2>3. \A u \in Tasks : call'[u] = "idle" => call[u] = "idle" /\ answer'[u] = answer[u]
    BY <2>1
  <2> QED BY <2>1, <2>2, <2>3, FreshLeft
<1>5. CASE ReadCancel
  <2>1. UNCHANGED <<call, answer>> /\ toS # << >> /\ toS' = Tail(toS)
    BY <1>5 DEF ReadCancel, client
  <2>2. \A u \in Tasks : Untouched(u) => Untouched(u)'
    BY <1>5 DEF ReadCancel, Untouched, TypeOK
  <2>3. \A u \in Tasks : call'[u] = "idle" => call[u] = "idle" /\ answer'[u] = answer[u]
    BY <2>1
  <2> QED BY <2>1, <2>2, <2>3, FreshLeft
<1>6. ASSUME UNCHANGED <<call, answer, jobs>>, toS' = toS \/ toS' = << >>
      PROVE  RequestsFresh'
  <2>1. \A u \in Tasks : Untouched(u) => Untouched(u)'
    BY <1>6 DEF Untouched, jobs
  <2>2. \A u \in Tasks : call'[u] = "idle" => call[u] = "idle" /\ answer'[u] = answer[u]
    BY <1>6
  <2> QED BY <1>6, <2>1, <2>2, FreshLeft
<1> QED BY <1>1, <1>2, <1>3, <1>4, <1>5, <1>6, CallFresh, CancelFresh
        DEF Next, Caller, Reader, Loop, Job, Quiet, ReaderIdles, AcknowledgeRaises,
            ServerReadsNone, ServerCloses, ReaderEnds, ClientCloses, LoseConnection, vars, client

\* A cancel frame in flight is one that was asked for.
LEMMA CancelsStep == TypeOK /\ CancelsAsked /\ [Next]_vars => CancelsAsked'
<1> SUFFICES ASSUME TypeOK, CancelsAsked, [Next]_vars, asked' = {}
             PROVE  \A i \in 1 .. Len(toS') : toS'[i].type # "cancel"
  BY DEF CancelsAsked
<1>1. toS \in Seq(Requests)
  BY DEF TypeOK
<1>2. asked = {}
  BY DEF Next, Caller, Reader, Loop, Job, Quiet, ReaderIdles, AcknowledgeRaises, Call, Return,
         Timeout, StreamReads, StreamReadsNone,
         ServerReadsNone, ServerCloses, ReaderRoutes, ReaderEnds, ClientCloses, SendCancel,
         RefuseRequest, AcceptRequest, RefuseSkewed, ReadCancel, StartJob, SendResponse,
         FinishJob, FailJob, CancelJob, JobDone, LoseConnection, vars
<1>3. \A i \in 1 .. Len(toS) : toS[i].type # "cancel"
  BY <1>2 DEF CancelsAsked
<1>4. ASSUME NEW t \in Tasks, Call(t) PROVE \A i \in 1 .. Len(toS') : toS'[i].type # "cancel"
  <2>1. toS' = Sent(toS, Request(t)) /\ Request(t) \in Requests /\ Request(t).type = "request"
    BY <1>4, Kinds DEF Call, Request
  <2>2. CASE ~ Open
    BY <1>3, <2>1, <2>2 DEF Sent
  <2>3. CASE Open
    <3>0. toS' = Append(toS, Request(t))
      BY <2>1, <2>3 DEF Sent
    <3>1. /\ Len(toS) \in Nat /\ Len(toS') = Len(toS) + 1
          /\ toS'[Len(toS) + 1].type = "request"
          /\ \A i \in 1 .. Len(toS) : toS'[i] = toS[i]
      BY <1>1, <2>1, <3>0
    <3> QED BY <1>3, <3>1
  <2> QED BY <2>2, <2>3
<1>5. ASSUME \/ toS' = << >>
             \/ toS # << >> /\ toS' = Tail(toS)
      PROVE  \A i \in 1 .. Len(toS') : toS'[i].type # "cancel"
  BY <1>1, <1>3, <1>5, Tails
<1>6. CASE toS' = toS
  BY <1>3, <1>6
<1>7. ASSUME NEW t \in Tasks, SendCancel(t) PROVE FALSE
  BY <1>7 DEF SendCancel
<1>8. ASSUME NEW t \in Tasks, \/ RefuseRequest(t) \/ AcceptRequest(t) \/ RefuseSkewed(t)
                              \/ ReadCancel \/ ServerReadsNone \/ AcknowledgeRaises(t)
      PROVE  \/ toS' = << >>
             \/ toS # << >> /\ toS' = Tail(toS)
  BY <1>8 DEF RefuseRequest, AcceptRequest, RefuseSkewed, ReadCancel, RequestAt, ServerReadsNone,
              AcknowledgeRaises, ServerCloses
<1> QED BY <1>4, <1>5, <1>6, <1>7, <1>8
     DEF Next, Caller, Reader, Loop, Job, Quiet, ReaderIdles, AcknowledgeRaises, Return,
         Timeout, StreamReads, StreamReadsNone, RequestAt,
         ServerReadsNone, ServerCloses, ReaderRoutes, ReaderEnds, ClientCloses, SendCancel,
         RefuseRequest, AcceptRequest, RefuseSkewed, ReadCancel, StartJob, SendResponse,
         FinishJob, FailJob, CancelJob, JobDone, LoseConnection, vars

-----------------------------------------------------------------------------
(* Replies *)

\* A job, and what has been written of it, changes in one place only.
LEMMA JobsStep == Inv /\ [Next]_vars => \A t \in Tasks : (JobShape(t) /\ Undisturbed(t))'
<1> SUFFICES ASSUME Inv, [Next]_vars, NEW u \in Tasks PROVE JobShape(u)' /\ Undisturbed(u)'
  OBVIOUS
<1>0. TypeOK /\ RequestsFresh /\ CancelsAsked /\ JobShape(u) /\ Undisturbed(u)
  BY DEF Inv
<1> USE ChunksAssumption DEF JobShape, Undisturbed
<1>1. ASSUME NEW t \in Tasks, RefuseRequest(t) PROVE JobShape(u)' /\ Undisturbed(u)'
  <2>1. Untouched(t)
    BY <1>0, <1>1, RequestSeen DEF RefuseRequest
  <2> QED BY <1>0, <1>1, <2>1 DEF RefuseRequest, Untouched, TypeOK
<1>2. ASSUME NEW t \in Tasks, RefuseSkewed(t) PROVE JobShape(u)' /\ Undisturbed(u)'
  <2>1. Untouched(t)
    BY <1>0, <1>2, RequestSeen DEF RefuseSkewed
  <2> QED BY <1>0, <1>2, <2>1 DEF RefuseSkewed, Untouched, TypeOK
<1>3. ASSUME NEW t \in Tasks, AcceptRequest(t) PROVE JobShape(u)' /\ Undisturbed(u)'
  <2>1. Untouched(t)
    BY <1>0, <1>3, RequestSeen DEF AcceptRequest
  <2> QED BY <1>0, <1>3, <2>1 DEF AcceptRequest, Untouched, TypeOK
<1>4. CASE ReadCancel
  <2>1. toS # << >> /\ toS[1].type = "cancel" /\ 1 \in 1 .. Len(toS)
    BY <1>0, <1>4, Tails DEF ReadCancel, TypeOK
  <2>2. asked' # {}
    BY <1>0, <1>4, <2>1 DEF CancelsAsked, ReadCancel
  <2> QED BY <1>0, <1>4, <2>2 DEF ReadCancel, TypeOK
<1>5. ASSUME NEW t \in Tasks, StartJob(t) PROVE JobShape(u)' /\ Undisturbed(u)'
  BY <1>0, <1>5 DEF StartJob, TypeOK
<1>6. ASSUME NEW t \in Tasks, SendResponse(t) PROVE JobShape(u)' /\ Undisturbed(u)'
  BY <1>0, <1>6 DEF SendResponse, TypeOK
<1>7. ASSUME NEW t \in Tasks, FinishJob(t) PROVE JobShape(u)' /\ Undisturbed(u)'
  BY <1>0, <1>7 DEF FinishJob, TypeOK
<1>8. ASSUME NEW t \in Tasks, FailJob(t) PROVE JobShape(u)' /\ Undisturbed(u)'
  BY <1>0, <1>8 DEF FailJob, TypeOK
<1>9. ASSUME NEW t \in Tasks, CancelJob(t) PROVE JobShape(u)' /\ Undisturbed(u)'
  BY <1>0, <1>9 DEF CancelJob, TypeOK
<1>10. ASSUME NEW t \in Tasks, JobDone(t) PROVE JobShape(u)' /\ Undisturbed(u)'
  BY <1>0, <1>10 DEF JobDone, TypeOK
<1>11. ASSUME UNCHANGED jobs, asked \subseteq asked', server' = server \/ server' = "closed",
              lost' = lost \/ lost'
       PROVE  JobShape(u)' /\ Undisturbed(u)'
  BY <1>0, <1>11 DEF jobs
<1> QED BY <1>1, <1>2, <1>3, <1>4, <1>5, <1>6, <1>7, <1>8, <1>9, <1>10, <1>11
        DEF Next, Caller, Reader, Loop, Job, Quiet, ReaderIdles, AcknowledgeRaises, Call, Return,
            Timeout, StreamReads, StreamReadsNone, ServerReadsNone, ServerCloses, ReaderRoutes,
            ReaderEnds, ClientCloses, SendCancel, LoseConnection, vars

\* The invariant holds at the start.
LEMMA InvInit == Init => Inv
<1> SUFFICES ASSUME Init PROVE Inv
  OBVIOUS
<1>1. TypeOK
  BY TypesInit
<1>2. RequestsFresh /\ CancelsAsked
  BY DEF Init, RequestsFresh, CancelsAsked, Untouched
<1>3. NothingLeftPending /\ \A t \in Tasks : JobShape(t) /\ Undisturbed(t)
  BY ChunksAssumption DEF Init, NothingLeftPending, JobShape, Undisturbed
<1> QED BY <1>1, <1>2, <1>3 DEF Inv

\* Every step keeps the invariant.
LEMMA InvStep == Inv /\ [Next]_vars => Inv'
BY TypesStep, PendingStep, RequestsStep, CancelsStep, JobsStep DEF Inv

-----------------------------------------------------------------------------
(* One frame for each result: what the client is told is so *)

NoResult(t) == replies[t] > 0 /\ job[t] \in {"none", "ending", "over"}

\* Nothing that is still to arrive can change what the call of t returns.
Settled(t) == call[t] # "waiting" \/ answer[t] # NoFrame

IsResponse(f, t) == f.type = "response" /\ f.task = t
IsError(f, t) == f.type = "error" /\ f.task = t

\* What a waiting call has been given is what became of its task.
AnswerTrue(t) ==
    call[t] = "waiting" /\ answer[t] # NoFrame =>
      /\ answer[t].type = "response" => sent[t] = Chunks /\ answer[t].seq = Chunks
      /\ answer[t].type = "error" => NoResult(t) /\ sent[t] # Chunks

\* A response in flight is of a job that is done.  So may be the job of an error
\* that CancelJob wrote, but then the call has the response or is about to get it.
FramesTrue(t) ==
    \A i \in 1 .. Len(toC) :
      /\ IsResponse(toC[i], t) => sent[t] = Chunks /\ toC[i].seq = Chunks
      /\ IsError(toC[i], t) =>
           /\ NoResult(t)
           /\ sent[t] = Chunks => \/ Settled(t)
                                  \/ \E j \in 1 .. Len(toC) : j < i /\ IsResponse(toC[j], t)

\* A response that was written is on its way, has arrived, or never will.
Delivered(t) ==
    sent[t] = Chunks /\ Open =>
      Settled(t) \/ \E j \in 1 .. Len(toC) : IsResponse(toC[j], t)

Told(t) == call[t] # "streaming" /\ AnswerTrue(t) /\ FramesTrue(t) /\ Delivered(t)

\* A step that writes nothing to the client, or ends the connection.
LEMMA ToldUnwritten ==
    ASSUME NEW u \in Tasks, Told(u), call'[u] # "streaming", AnswerTrue(u)',
           sent'[u] = sent[u], Settled(u) => Settled(u)', NoResult(u) => NoResult(u)',
           Open' => Open, toC' = toC \/ (toC' = << >> /\ ~ Open')
    PROVE  Told(u)'
<1>1. CASE toC' = toC
  <2>1. FramesTrue(u)'
    BY <1>1 DEF Told, FramesTrue, IsResponse, IsError
  <2>2. Delivered(u)'
    BY <1>1 DEF Told, Delivered, IsResponse
  <2> QED BY <2>1, <2>2 DEF Told
<1>2. CASE toC' = << >> /\ ~ Open'
  <2>1. FramesTrue(u)'
    BY <1>2 DEF FramesTrue
  <2>2. Delivered(u)'
    BY <1>2 DEF Delivered
  <2> QED BY <2>1, <2>2 DEF Told
<1> QED BY <1>1, <1>2

\* The server writes a frame.
LEMMA ToldWritten ==
    ASSUME TypeOK, NEW u \in Tasks, Told(u), NEW f \in Frames, toC' = Sent(toC, f),
           UNCHANGED <<call, answer>>, Open' => Open, NoResult(u) => NoResult(u)',
           IsError(f, u) => NoResult(u)' /\ sent'[u] = sent[u],
           IsResponse(f, u) => sent'[u] = Chunks /\ f.seq = Chunks,
           \/ sent'[u] = sent[u]
           \/ sent'[u] = Chunks /\ IsResponse(f, u) /\ ~ NoResult(u)
    PROVE  Told(u)'
<1>1. toC \in Seq(Frames)
  BY DEF TypeOK
<1>2. call'[u] # "streaming" /\ AnswerTrue(u)' /\ (Settled(u) <=> Settled(u)')
  BY DEF Told, AnswerTrue, Settled
<1>3. \A i \in 1 .. Len(toC) :
        /\ IsResponse(toC[i], u) => sent'[u] = Chunks /\ toC[i].seq = Chunks
        /\ IsError(toC[i], u) =>
             /\ NoResult(u)'
             /\ sent'[u] = Chunks => \/ Settled(u)'
                                     \/ \E j \in 1 .. Len(toC) : j < i /\ IsResponse(toC[j], u)
  BY <1>2 DEF Told, FramesTrue
<1>4. CASE ~ Open
  <2>1. toC' = toC
    BY <1>4 DEF Sent
  <2>2. FramesTrue(u)'
    BY <1>3, <2>1 DEF FramesTrue, IsResponse, IsError
  <2>3. Delivered(u)'
    BY <1>4 DEF Delivered
  <2> QED BY <1>2, <2>2, <2>3 DEF Told
<1>5. CASE Open
  <2>1. toC' = Append(toC, f)
    BY <1>5 DEF Sent
  <2>2. /\ Len(toC) \in Nat /\ Len(toC') = Len(toC) + 1 /\ toC'[Len(toC) + 1] = f
        /\ \A i \in 1 .. Len(toC) : toC'[i] = toC[i]
    BY <1>1, <2>1
  <2>3. sent[u] = Chunks => Settled(u)' \/ \E j \in 1 .. Len(toC) : IsResponse(toC[j], u)
    BY <1>2, <1>5 DEF Told, Delivered
  <2>4. ASSUME NEW i \in 1 .. Len(toC')
        PROVE  /\ IsResponse(toC'[i], u) => sent'[u] = Chunks /\ toC'[i].seq = Chunks
               /\ IsError(toC'[i], u) =>
                    /\ NoResult(u)'
                    /\ sent'[u] = Chunks =>
                         \/ Settled(u)'
                         \/ \E j \in 1 .. Len(toC') : j < i /\ IsResponse(toC'[j], u)
    <3>1. CASE i \in 1 .. Len(toC)
      BY <1>3, <2>2, <3>1
    <3>2. CASE i = Len(toC) + 1
      <4>1. toC'[i] = f /\ \A j \in 1 .. Len(toC) : j \in 1 .. Len(toC') /\ j < i /\ toC'[j] = toC[j]
        BY <2>2, <3>2
      <4> QED BY <2>3, <4>1
    <3> QED BY <2>2, <3>1, <3>2
  <2>5. FramesTrue(u)'
    BY <2>4 DEF FramesTrue, IsResponse, IsError
  <2>6. sent'[u] = Chunks => Settled(u)' \/ \E j \in 1 .. Len(toC') : IsResponse(toC'[j], u)
    BY <2>2, <2>3
  <2>7. Delivered(u)'
    BY <2>6 DEF Delivered, IsResponse
  <2> QED BY <1>2, <2>5, <2>7 DEF Told
<1> QED BY <1>4, <1>5

\* The reader hands a frame to the call of its task.
LEMMA ToldByReader ==
    ASSUME TypeOK, NothingLeftPending, NEW u \in Tasks, Told(u), ReaderRoutes PROVE Told(u)'
<1> DEFINE f == toC[1]
<1>1. /\ toC \in Seq(Frames) /\ toC # << >> /\ toC' = Tail(toC) /\ f \in Frames /\ f = Head(toC)
      /\ Len(toC) \in Nat \ {0} /\ Len(toC') = Len(toC) - 1
      /\ \A i \in 1 .. Len(toC') : i + 1 \in 1 .. Len(toC) /\ toC'[i] = toC[i + 1]
  BY Tails DEF TypeOK, ReaderRoutes
<1>2. UNCHANGED <<call, pending, sent, job, replies, clientOpen, server, lost>>
  BY DEF ReaderRoutes, jobs
<1>3. answer'[u] = IF f.type \in {"response", "error"} /\ f.task = u /\ u \in pending
                      /\ answer[u] = NoFrame
                   THEN f ELSE answer[u]
  BY <1>1 DEF ReaderRoutes, TypeOK
<1>4. f.type # "none" /\ NoFrame.type = "none"
  BY <1>1 DEF Frames, NoFrame
<1>5. Settled(u) => Settled(u)'
  BY <1>2, <1>3, <1>4 DEF Settled
<1>6. IsResponse(f, u) => Settled(u)'
  BY <1>2, <1>3, <1>4 DEF IsResponse, Settled, NothingLeftPending
<1>7. 1 \in 1 .. Len(toC)
  BY <1>1
<1> HIDE DEF f
<1>8. AnswerTrue(u)'
  <2>1. CASE answer'[u] = answer[u]
    BY <1>2, <2>1 DEF Told, AnswerTrue, NoResult
  <2>2. CASE answer'[u] = f /\ f.task = u /\ f.type \in {"response", "error"} /\ answer[u] = NoFrame
    <3>1. IsResponse(f, u) => sent[u] = Chunks /\ f.seq = Chunks
      BY <1>7 DEF Told, FramesTrue, f
    <3>2. IsError(f, u) /\ call[u] = "waiting" => NoResult(u) /\ sent[u] # Chunks
      <4>1. ~ \E j \in 1 .. Len(toC) : j < 1
        BY <1>1
      <4> QED BY <1>7, <2>2, <4>1 DEF Told, FramesTrue, Settled, f
    <3> QED BY <1>2, <2>2, <3>1, <3>2 DEF AnswerTrue, NoResult, IsResponse, IsError
  <2> QED BY <1>3, <2>1, <2>2
<1>9. FramesTrue(u)'
  <2>1. ASSUME NEW i \in 1 .. Len(toC')
        PROVE  /\ IsResponse(toC'[i], u) => sent[u] = Chunks /\ toC'[i].seq = Chunks
               /\ IsError(toC'[i], u) =>
                    /\ NoResult(u)
                    /\ sent[u] = Chunks =>
                         \/ Settled(u)'
                         \/ \E j \in 1 .. Len(toC') : j < i /\ IsResponse(toC'[j], u)
    <3>1. i + 1 \in 1 .. Len(toC) /\ toC'[i] = toC[i + 1]
      BY <1>1
    <3>2. ASSUME NEW j \in 1 .. Len(toC), j < i + 1, IsResponse(toC[j], u)
          PROVE  \/ Settled(u)'
                 \/ \E k \in 1 .. Len(toC') : k < i /\ IsResponse(toC'[k], u)
      <4>1. CASE j = 1
        BY <1>6, <3>2, <4>1 DEF f
      <4>2. CASE j # 1
        <5>1. j - 1 \in 1 .. Len(toC') /\ j - 1 < i /\ (j - 1) + 1 = j
          BY <1>1, <3>2, <4>2
        <5>2. toC'[j - 1] = toC[j]
          BY <1>1, <5>1
        <5> QED BY <3>2, <5>1, <5>2
      <4> QED BY <4>1, <4>2
    <3> QED BY <1>5, <3>1, <3>2 DEF Told, FramesTrue
  <2> QED BY <1>2, <2>1 DEF FramesTrue, IsResponse, IsError, NoResult
<1>10. Delivered(u)'
  <2>1. ASSUME sent[u] = Chunks, Open
        PROVE  Settled(u)' \/ \E k \in 1 .. Len(toC') : IsResponse(toC'[k], u)
    <3>1. CASE Settled(u)
      BY <1>5, <3>1
    <3>2. ASSUME NEW j \in 1 .. Len(toC), IsResponse(toC[j], u)
          PROVE  Settled(u)' \/ \E k \in 1 .. Len(toC') : IsResponse(toC'[k], u)
      <4>1. CASE j = 1
        BY <1>6, <3>2, <4>1 DEF f
      <4>2. CASE j # 1
        <5>1. j - 1 \in 1 .. Len(toC') /\ (j - 1) + 1 = j
          BY <1>1, <3>2, <4>2
        <5>2. toC'[j - 1] = toC[j]
          BY <1>1, <5>1
        <5> QED BY <3>2, <5>1, <5>2
      <4> QED BY <4>1, <4>2
    <3> QED BY <2>1, <3>1, <3>2 DEF Told, Delivered
  <2> QED BY <1>2, <2>1 DEF Delivered, IsResponse, Open
<1> QED BY <1>2, <1>8, <1>9, <1>10 DEF Told

\* Every step keeps what is told true, as long as a result is one frame.
LEMMA ToldStep ==
    ASSUME Chunks = 1, Inv, [Next]_vars, \A t \in Tasks : Told(t), NEW u \in Tasks
    PROVE  Told(u)'
<1>0. TypeOK /\ RequestsFresh /\ NothingLeftPending /\ JobShape(u) /\ Told(u)
  BY DEF Inv
<1>1. ASSUME NEW t \in Tasks, Call(t) PROVE Told(u)'
  <2>1. /\ call[t] = "idle" /\ call'[t] \in {"waiting", "raised"}
        /\ t # u => call'[u] = call[u]
        /\ UNCHANGED <<answer, sent, job, replies, toC, clientOpen, server, lost>>
    BY <1>0, <1>1 DEF Call, TypeOK, jobs
  <2>2. CASE t # u
    <3>1. call'[u] # "streaming" /\ AnswerTrue(u)' /\ (Settled(u) => Settled(u)')
      BY <1>0, <2>1, <2>2 DEF Told, AnswerTrue, NoResult, Settled
    <3> QED BY <1>0, <2>1, <3>1, ToldUnwritten DEF NoResult, Open
  <2>3. CASE t = u
    <3>1. Untouched(u) /\ answer[u] = NoFrame
      BY <1>0, <2>1, <2>3 DEF RequestsFresh
    <3>2. sent[u] # Chunks /\ ~ NoResult(u)
      BY <1>0, <3>1 DEF JobShape, Untouched, NoResult
    <3>3. \A i \in 1 .. Len(toC) : ~ IsResponse(toC[i], u) /\ ~ IsError(toC[i], u)
      BY <1>0, <3>2 DEF Told, FramesTrue
    <3>4. FramesTrue(u)'
      BY <2>1, <3>3 DEF FramesTrue, IsResponse, IsError
    <3>5. call'[u] # "streaming" /\ AnswerTrue(u)' /\ Delivered(u)'
      BY <2>1, <2>3, <3>1, <3>2 DEF AnswerTrue, Delivered
    <3> QED BY <3>4, <3>5 DEF Told
  <2> QED BY <2>2, <2>3
<1>2. ASSUME NEW t \in Tasks, Return(t) PROVE Told(u)'
  <2>1. answer[t].type = "response" => ~ IsPartial(answer[t])
    BY <1>2 DEF Told, AnswerTrue, IsPartial, Return
  <2>2. /\ call[t] = "waiting" /\ call'[t] \in {"ok", "error"} /\ (t # u => call'[u] = call[u])
        /\ UNCHANGED <<answer, sent, job, replies, toC, clientOpen, server, lost>>
    BY <1>0, <1>2, <2>1 DEF Return, TypeOK, jobs
  <2>3. call'[u] # "streaming" /\ AnswerTrue(u)' /\ (Settled(u) => Settled(u)')
    BY <1>0, <2>2 DEF Told, AnswerTrue, NoResult, Settled
  <2> QED BY <1>0, <2>2, <2>3, ToldUnwritten DEF NoResult, Open
<1>3. ASSUME NEW t \in Tasks, Timeout(t) PROVE Told(u)'
  <2>1. /\ call[t] = "waiting" /\ call'[t] = "timeout" /\ (t # u => call'[u] = call[u])
        /\ UNCHANGED <<answer, sent, job, replies, toC, clientOpen, server, lost>>
    BY <1>0, <1>3 DEF Timeout, TypeOK, jobs
  <2>2. call'[u] # "streaming" /\ AnswerTrue(u)' /\ (Settled(u) => Settled(u)')
    BY <1>0, <2>1 DEF Told, AnswerTrue, NoResult, Settled
  <2> QED BY <1>0, <2>1, <2>2, ToldUnwritten DEF NoResult, Open
<1>4. ASSUME NEW t \in Tasks, StreamReads(t) \/ StreamReadsNone(t) PROVE FALSE
  BY <1>4 DEF StreamReads, StreamReadsNone, Told
<1>5. CASE ReaderRoutes
  BY <1>0, <1>5, ToldByReader
<1>6. ASSUME UNCHANGED <<call, answer, jobs>>, Open' => Open, toC' = toC \/ (toC' = << >> /\ ~ Open')
      PROVE  Told(u)'
  <2>1. UNCHANGED <<sent, job, replies>>
    BY <1>6 DEF jobs
  <2>2. call'[u] # "streaming" /\ AnswerTrue(u)' /\ (Settled(u) => Settled(u)')
    BY <1>0, <1>6, <2>1 DEF Told, AnswerTrue, NoResult, Settled
  <2> QED BY <1>0, <1>6, <2>1, <2>2, ToldUnwritten DEF NoResult
<1>7. ASSUME UNCHANGED <<call, answer, sent, replies, clientOpen, server, lost, toC>>,
             job[u] \in {"none", "ending", "over"} => job'[u] \in {"none", "ending", "over"}
      PROVE  Told(u)'
  <2>1. call'[u] # "streaming" /\ AnswerTrue(u)' /\ (Settled(u) => Settled(u)')
        /\ (NoResult(u) => NoResult(u)')
    BY <1>0, <1>7 DEF Told, AnswerTrue, NoResult, Settled
  <2> QED BY <1>0, <1>7, <2>1, ToldUnwritten DEF Open
<1>8. ASSUME NEW t \in Tasks, StartJob(t) \/ FinishJob(t) \/ JobDone(t) \/ ReadCancel PROVE Told(u)'
  <2>1. UNCHANGED <<call, answer, sent, replies, clientOpen, server, lost, toC>>
    BY <1>8 DEF StartJob, FinishJob, JobDone, ReadCancel, client
  <2>2. job[u] \in {"none", "ending", "over"} => job'[u] \in {"none", "ending", "over"}
    BY <1>0, <1>8 DEF StartJob, FinishJob, JobDone, ReadCancel, TypeOK
  <2> QED BY <1>7, <2>1, <2>2
<1>9. ASSUME NEW t \in Tasks, RefuseRequest(t) \/ AcceptRequest(t) \/ RefuseSkewed(t) PROVE Told(u)'
  <2>1. /\ Untouched(t) /\ RequestAt(t)
        /\ UNCHANGED <<call, answer, sent, clientOpen, lost>> /\ (Open' => Open)
    BY <1>0, <1>9, RequestSeen DEF RefuseRequest, AcceptRequest, RefuseSkewed, RequestAt, client, Open
  <2>2. NoResult(u) => NoResult(u)'
    BY <1>0, <1>9, <2>1 DEF RefuseRequest, AcceptRequest, RefuseSkewed, NoResult, Untouched, TypeOK
  <2>3. CASE AcceptRequest(t)
    <3>1. Ack(t) \in Frames /\ ~ IsError(Ack(t), u) /\ ~ IsResponse(Ack(t), u) /\ toC' = Sent(toC, Ack(t))
      BY <2>3, Kinds DEF AcceptRequest, Ack, IsError, IsResponse
    <3> QED BY <1>0, <2>1, <2>2, <3>1, ToldWritten
  <2>4. CASE (RefuseRequest(t) \/ RefuseSkewed(t)) /\ toC' = Sent(toC, Error(t))
    <3>1. Error(t) \in Frames /\ ~ IsResponse(Error(t), u)
      BY Kinds DEF Error, IsResponse
    <3>2. IsError(Error(t), u) => t = u
      BY DEF Error, IsError
    <3>3. NoResult(t)'
      BY <1>0, <2>1, <2>4 DEF RefuseRequest, RefuseSkewed, NoResult, Untouched, TypeOK
    <3> QED BY <1>0, <2>1, <2>2, <2>4, <3>1, <3>2, <3>3, ToldWritten
  <2>5. CASE RefuseSkewed(t) /\ toC' = << >>
    <3>1. ~ Open'
      BY <2>5 DEF RefuseSkewed, Open
    <3>2. call'[u] # "streaming" /\ AnswerTrue(u)' /\ (Settled(u) => Settled(u)')
      BY <1>0, <2>1, <2>2 DEF Told, AnswerTrue, Settled
    <3> QED BY <1>0, <2>1, <2>2, <2>5, <3>1, <3>2, ToldUnwritten
  <2> QED BY <1>9, <2>3, <2>4, <2>5 DEF RefuseRequest, RefuseSkewed
<1>10. ASSUME NEW t \in Tasks, SendResponse(t) PROVE Told(u)'
  <2> DEFINE f == Response(t, sent[t] + 1)
  <2>1. /\ UNCHANGED <<call, answer, clientOpen, server, lost>>
        /\ sent[t] = 0 /\ sent'[t] = Chunks /\ toC' = Sent(toC, f) /\ job[t] \in {"running", "sending"}
    BY <1>0, <1>10 DEF SendResponse, TypeOK, client
  <2>2. f \in Frames /\ ~ IsError(f, u) /\ f.seq = Chunks /\ (IsResponse(f, u) <=> t = u)
    <3>1. 1 \in 0 .. Chunks /\ sent[t] + 1 = 1
      BY <2>1
    <3>2. f \in Frames
      BY <3>1, Kinds
    <3> QED BY <3>1, <3>2 DEF Response, IsError, IsResponse
  <2>3. NoResult(u) => NoResult(u)' /\ t # u
    BY <1>0, <1>10, <2>1 DEF SendResponse, NoResult, TypeOK
  <2>4. t # u => sent'[u] = sent[u]
    BY <1>0, <1>10 DEF SendResponse, TypeOK
  <2> HIDE DEF f
  <2>5. Open' => Open
    BY <2>1 DEF Open
  <2> QED BY <1>0, <2>1, <2>2, <2>3, <2>4, <2>5, ToldWritten
<1>11. ASSUME NEW t \in Tasks, FailJob(t) \/ CancelJob(t) PROVE Told(u)'
  <2>1. /\ UNCHANGED <<call, answer, sent, clientOpen, server, lost>> /\ toC' = Sent(toC, Error(t))
        /\ job[t] \in {"running", "cancelled"} /\ job'[t] = "ending"
        /\ t # u => job'[u] = job[u] /\ replies'[u] = replies[u]
    BY <1>0, <1>11 DEF FailJob, CancelJob, TypeOK, client
  <2>2. Error(t) \in Frames /\ ~ IsResponse(Error(t), u) /\ (IsError(Error(t), u) => t = u)
    BY Kinds DEF Error, IsResponse, IsError
  <2>3. NoResult(u) => NoResult(u)'
    BY <2>1 DEF NoResult
  <2>4. CASE Open
    <3>1. NoResult(t)'
      BY <1>0, <1>11, <2>1, <2>4 DEF FailJob, CancelJob, NoResult, Open, TypeOK
    <3> QED BY <1>0, <2>1, <2>2, <2>3, <3>1, ToldWritten DEF Open
  <2>5. CASE ~ Open
    <3>1. toC' = toC /\ ~ Open'
      BY <2>1, <2>5 DEF Sent, Open
    <3>2. call'[u] # "streaming" /\ AnswerTrue(u)' /\ (Settled(u) => Settled(u)')
      BY <1>0, <2>1, <2>3 DEF Told, AnswerTrue, Settled
    <3> QED BY <1>0, <2>1, <2>3, <3>1, <3>2, ToldUnwritten
  <2> QED BY <2>4, <2>5
<1>12. ASSUME \/ ReaderEnds \/ ReaderIdles \/ ClientCloses \/ LoseConnection \/ Quiet
              \/ ServerReadsNone \/ UNCHANGED vars
              \/ \E t \in Tasks : SendCancel(t) \/ AcknowledgeRaises(t)
       PROVE  Told(u)'
  <2>0. UNCHANGED <<call, answer, jobs>>
    BY <1>12 DEF ReaderEnds, ReaderIdles, ClientCloses, LoseConnection, Quiet, ServerReadsNone,
        AcknowledgeRaises, ServerCloses, SendCancel, vars, client, jobs
  <2>1. Open' => Open
    BY <1>12 DEF ReaderEnds, ReaderIdles, ClientCloses, LoseConnection, Quiet, ServerReadsNone,
        AcknowledgeRaises, ServerCloses, SendCancel, vars, client, Open
  <2>2. toC' = toC \/ (toC' = << >> /\ ~ Open')
    BY <1>12 DEF ReaderEnds, ReaderIdles, ClientCloses, LoseConnection, Quiet, ServerReadsNone,
        AcknowledgeRaises, ServerCloses, SendCancel, vars, Open
  <2> QED BY <1>6, <2>0, <2>1, <2>2
<1> QED BY <1>1, <1>2, <1>3, <1>4, <1>5, <1>8, <1>9, <1>10, <1>11, <1>12
        DEF Next, Caller, Reader, Loop, Job

\* An answer is the one of its task, and a call that is told ok has the result.
Whole(t) ==
    /\ answer[t] # NoFrame => answer[t].task = t
    /\ call[t] = "ok" => parts[t] = [n \in 1 .. Chunks |-> Response(t, n)]

\* A result is taken from an answer, and nothing touches it any more.
LEMMA WholeStep ==
    ASSUME Chunks = 1, TypeOK, [Next]_vars, NEW u \in Tasks, \A t \in Tasks : Told(t) /\ Whole(t)
    PROVE  Whole(u)'
<1>1. ASSUME NEW t \in Tasks, Return(t) PROVE Whole(u)'
  <2>1. /\ UNCHANGED answer /\ (t # u => call'[u] = call[u] /\ parts'[u] = parts[u])
    BY <1>1 DEF Return, TypeOK
  <2>2. ASSUME call'[t] = "ok" PROVE parts'[t] = [n \in 1 .. Chunks |-> Response(t, n)]
    <3>1. answer[t] \in Frames /\ answer[t].type = "response" /\ parts'[t] = <<answer[t]>>
      BY <1>1, <2>2 DEF Return, TypeOK
    <3>2. answer[t].task = t /\ answer[t].seq = 1
      BY <1>1, <3>1 DEF Return, Told, AnswerTrue, Whole
    <3>3. answer[t] = Response(t, 1)
      BY <3>1, <3>2 DEF Frames, Response
    <3> QED BY <3>1, <3>3
  <2> QED BY <2>1, <2>2 DEF Whole
<1>2. ASSUME NEW t \in Tasks, StreamReads(t) \/ StreamReadsNone(t) PROVE FALSE
  BY <1>2 DEF StreamReads, StreamReadsNone, Told
<1>3. CASE ReaderRoutes
  <2>1. /\ UNCHANGED <<call, parts>>
        /\ answer'[u] = answer[u] \/ (answer'[u] = Head(toC) /\ Head(toC).task = u)
    BY <1>3 DEF ReaderRoutes, TypeOK
  <2> QED BY <2>1 DEF Whole
<1>4. ASSUME NEW t \in Tasks, Call(t) \/ Timeout(t) PROVE Whole(u)'
  <2>1. UNCHANGED <<answer, parts>> /\ (call'[u] = "ok" => call[u] = "ok")
    BY <1>4 DEF Call, Timeout, TypeOK
  <2> QED BY <2>1 DEF Whole
<1>5. ASSUME UNCHANGED <<call, answer, parts>> PROVE Whole(u)'
  BY <1>5 DEF Whole
<1> QED BY <1>1, <1>2, <1>3, <1>4, <1>5
     DEF Next, Caller, Reader, Loop, Job, Quiet, ReaderIdles, AcknowledgeRaises,
         ServerReadsNone, ServerCloses, ReaderEnds, ClientCloses, SendCancel,
         RefuseRequest, AcceptRequest, RefuseSkewed, ReadCancel, StartJob, SendResponse,
         FinishJob, FailJob, CancelJob, JobDone, LoseConnection, vars, client

-----------------------------------------------------------------------------
(* The steps of the task service that a session takes *)

\* A caller learns something.
LEMMA CallerTold ==
    ASSUME NEW t \in Tasks, NEW what, Outcome(t)' = what,
           \A u \in Tasks : u # t => Outcome(u)' = Outcome(u),
           \A u \in Tasks : Work(u)' = Work(u)
    PROVE  Service!Told(t, what)
BY DEF Service!Told

\* A task comes to something.
LEMMA TaskBecame ==
    ASSUME NEW t \in Tasks, NEW what, Work(t)' = what,
           \A u \in Tasks : u # t => Work(u)' = Work(u),
           \A u \in Tasks : Outcome(u)' = Outcome(u)
    PROVE  Service!Became(t, what)
BY DEF Service!Became

\* The service sees neither.
LEMMA NothingHappened ==
    ASSUME \A u \in Tasks : Outcome(u)' = Outcome(u) /\ Work(u)' = Work(u)
    PROVE  UNCHANGED Service!vars
BY DEF Service!vars

\* Where no call moves, what the callers know stays.
LEMMA OutcomesKept == ASSUME call' = call PROVE \A u \in Tasks : Outcome(u)' = Outcome(u)
BY DEF Outcome

\* Where no job moves, what has become of the tasks stays.
LEMMA WorkKept ==
    ASSUME UNCHANGED <<job, sent, replies>> PROVE \A u \in Tasks : Work(u)' = Work(u)
BY DEF Work

\* What a task has come to, as its job tells.
LEMMA Works ==
    ASSUME Inv, NEW t \in Tasks
    PROVE  /\ Untouched(t) => Work(t) = "none"
           /\ job[t] = "none" /\ replies[t] > 0 => Work(t) = "refused"
           /\ sent[t] = Chunks => Work(t) = "done"
           /\ job[t] \in {"created", "running", "sending", "cancelled"} /\ sent[t] # Chunks =>
                Work(t) = "begun" /\ replies[t] = 0
           /\ NoResult(t) /\ sent[t] # Chunks => Work(t) \in {"refused", "failed"}
<1>1. JobShape(t) /\ sent[t] \in 0 .. Chunks /\ replies[t] \in Nat /\ job[t] \in JobStates
  BY DEF Inv, TypeOK
<1> QED BY <1>1, ChunksAssumption DEF JobShape, Work, Untouched, NoResult, JobStates

\* A step of a session is one of the service's, or nothing the service speaks of.
LEMMA ServiceStep ==
    ASSUME Chunks = 1, Inv, \A t \in Tasks : Told(t), [Next]_vars
    PROVE  [Service!Next]_Service!vars
<1>0. TypeOK /\ RequestsFresh
  BY DEF Inv
<1>1. ASSUME NEW t \in Tasks, Call(t) PROVE [Service!Next]_Service!vars
  <2>1. /\ call[t] = "idle" /\ call'[t] \in {"waiting", "raised"}
        /\ \A u \in Tasks : u # t => call'[u] = call[u]
        /\ UNCHANGED <<job, sent, replies>>
    BY <1>0, <1>1 DEF Call, TypeOK, jobs
  <2>2. /\ Outcome(t) = "new" /\ Outcome(t)' \in {"asked", "unknown"}
        /\ \A u \in Tasks : u # t => Outcome(u)' = Outcome(u)
    BY <2>1 DEF Outcome
  <2>3. Service!Told(t, "asked") \/ Service!Told(t, "unknown")
    BY <2>1, <2>2, WorkKept, CallerTold
  <2> QED BY <2>2, <2>3 DEF Service!Next, Service!Ask, Service!GiveUp
<1>2. ASSUME NEW t \in Tasks, Return(t) PROVE [Service!Next]_Service!vars
  <2>1. AnswerTrue(t) /\ call[t] = "waiting" /\ answer[t] # NoFrame
    BY <1>2 DEF Told, Return
  <2>2. /\ \A u \in Tasks : u # t => call'[u] = call[u]
        /\ UNCHANGED <<job, sent, replies>>
    BY <1>0, <1>2 DEF Return, TypeOK, jobs
  <2>3. Outcome(t) = "asked" /\ \A u \in Tasks : u # t => Outcome(u)' = Outcome(u)
    BY <2>1, <2>2 DEF Outcome
  <2>4. CASE answer[t].type = "response"
    <3>1. call'[t] = "ok" /\ sent[t] = Chunks
      BY <1>0, <1>2, <2>1, <2>4 DEF AnswerTrue, Return, IsPartial, TypeOK
    <3>2. Outcome(t)' = "ok" /\ Work(t) = "done"
      BY <3>1, Works DEF Outcome
    <3>3. Service!Told(t, "ok")
      BY <2>2, <2>3, <3>2, WorkKept, CallerTold
    <3> QED BY <2>3, <3>2, <3>3 DEF Service!Next, Service!LearnOk
  <2>5. CASE answer[t].type = "error"
    <3>1. call'[t] = "error" /\ NoResult(t) /\ sent[t] # Chunks
      BY <1>0, <1>2, <2>1, <2>5 DEF AnswerTrue, Return, TypeOK
    <3>2. Outcome(t)' = "error" /\ Work(t) \in {"refused", "failed"}
      BY <3>1, Works DEF Outcome
    <3>3. Service!Told(t, "error")
      BY <2>2, <2>3, <3>2, WorkKept, CallerTold
    <3> QED BY <2>3, <3>2, <3>3 DEF Service!Next, Service!LearnError
  <2> QED BY <1>2, <2>4, <2>5 DEF Return
<1>3. ASSUME NEW t \in Tasks, Timeout(t) PROVE [Service!Next]_Service!vars
  <2>1. /\ call[t] = "waiting" /\ call'[t] = "timeout"
        /\ \A u \in Tasks : u # t => call'[u] = call[u]
        /\ UNCHANGED <<job, sent, replies>>
    BY <1>0, <1>3 DEF Timeout, TypeOK, jobs
  <2>2. /\ Outcome(t) = "asked" /\ Outcome(t)' = "unknown"
        /\ \A u \in Tasks : u # t => Outcome(u)' = Outcome(u)
    BY <2>1 DEF Outcome
  <2>3. Service!Told(t, "unknown")
    BY <2>1, <2>2, WorkKept, CallerTold
  <2> QED BY <2>2, <2>3 DEF Service!Next, Service!GiveUp
<1>4. ASSUME NEW t \in Tasks, StreamReads(t) \/ StreamReadsNone(t) PROVE FALSE
  BY <1>4 DEF StreamReads, StreamReadsNone, Told
<1>5. ASSUME UNCHANGED <<call, job, sent, replies>> PROVE UNCHANGED Service!vars
  BY <1>5, OutcomesKept, WorkKept, NothingHappened
<1>6. ASSUME NEW t \in Tasks, UNCHANGED call,
             \A u \in Tasks : u # t => job'[u] = job[u] /\ sent'[u] = sent[u] /\ replies'[u] = replies[u]
      PROVE  Service!Became(t, Work(t)')
  <2>1. \A u \in Tasks : u # t => Work(u)' = Work(u)
    BY <1>6 DEF Work
  <2> QED BY <1>6, <2>1, OutcomesKept, TaskBecame
<1>7. ASSUME NEW t \in Tasks, RefuseRequest(t) \/ RefuseSkewed(t) \/ AcceptRequest(t)
      PROVE  [Service!Next]_Service!vars
  <2>1. RequestAt(t)
    BY <1>7 DEF RefuseRequest, RefuseSkewed, AcceptRequest
  <2>2. Untouched(t) /\ call[t] # "idle"
    BY <1>0, <2>1, RequestSeen
  <2>3. Work(t) = "none" /\ Outcome(t) # "new"
    BY <2>2, Works DEF Outcome
  <2>4. Service!Became(t, Work(t)')
    BY <1>0, <1>6, <1>7 DEF RefuseRequest, RefuseSkewed, AcceptRequest, TypeOK, client
  <2>5. CASE RefuseRequest(t) \/ RefuseSkewed(t)
    <3>1. job'[t] = "none" /\ replies'[t] > 0
      BY <1>0, <2>2, <2>5 DEF RefuseRequest, RefuseSkewed, Untouched, TypeOK
    <3>2. Work(t)' = "refused"
      BY <3>1 DEF Work
    <3> QED BY <2>3, <2>4, <3>2 DEF Service!Next, Service!Refuse
  <2>6. CASE AcceptRequest(t)
    <3>1. job'[t] = "created" /\ sent'[t] = 0
      BY <1>0, <2>2, <2>6 DEF AcceptRequest, Untouched, TypeOK, Inv, JobShape
    <3>2. Work(t)' = "begun"
      BY <3>1 DEF Work
    <3> QED BY <2>3, <2>4, <3>2 DEF Service!Next, Service!Begin
  <2> QED BY <1>7, <2>5, <2>6
<1>8. ASSUME NEW t \in Tasks, job[t] \in {"created", "running", "sending", "cancelled", "ending"},
             UNCHANGED call,
             \A u \in Tasks : u # t => job'[u] = job[u] /\ sent'[u] = sent[u] /\ replies'[u] = replies[u],
             job'[t] \in JobStates \ {"none"}, sent'[t] \in {sent[t], Chunks},
             job[t] = "ending" => job'[t] = "over" /\ sent'[t] = sent[t] /\ replies'[t] = replies[t]
      PROVE  [Service!Next]_Service!vars
  <2>1. Service!Became(t, Work(t)')
    BY <1>6, <1>8
  <2>2. sent[t] \in 0 .. Chunks
    BY <1>0 DEF TypeOK
  <2>3. CASE Work(t)' = Work(t)
    <3>1. \A u \in Tasks : u # t => Work(u)' = Work(u)
      BY <1>8 DEF Work
    <3> QED BY <1>8, <2>3, <3>1, OutcomesKept, NothingHappened
  <2>4. CASE Work(t)' # Work(t)
    <3>1. job[t] # "ending"
      BY <1>8, <2>4 DEF Work
    <3>2. sent[t] # Chunks
      BY <1>8, <2>4 DEF Work
    <3>3. Work(t) = "begun"
      BY <1>8, <3>1, <3>2, Works
    <3>4. Work(t)' \in {"done", "failed", "dropped"}
      BY <1>8, <2>2, <2>4, <3>2, <3>3 DEF Work, JobStates
    <3> QED BY <2>1, <3>3, <3>4 DEF Service!Next, Service!End
  <2> QED BY <2>3, <2>4
<1>9. ASSUME NEW t \in Tasks, StartJob(t) \/ SendResponse(t) \/ FinishJob(t)
             \/ FailJob(t) \/ CancelJob(t) \/ JobDone(t)
      PROVE  [Service!Next]_Service!vars
  <2>1. job[t] \in {"created", "running", "sending", "cancelled", "ending"} /\ UNCHANGED call
    BY <1>9 DEF StartJob, SendResponse, FinishJob, FailJob, CancelJob, JobDone, client
  <2>2. \A u \in Tasks : u # t => job'[u] = job[u] /\ sent'[u] = sent[u] /\ replies'[u] = replies[u]
    BY <1>0, <1>9 DEF StartJob, SendResponse, FinishJob, FailJob, CancelJob, JobDone, TypeOK
  <2>3. job'[t] \in JobStates \ {"none"}
        /\ (job[t] = "ending" => job'[t] = "over" /\ sent'[t] = sent[t] /\ replies'[t] = replies[t])
    BY <1>0, <1>9 DEF StartJob, SendResponse, FinishJob, FailJob, CancelJob, JobDone, TypeOK, JobStates
  <2>4. sent'[t] \in {sent[t], Chunks}
    BY <1>0, <1>9 DEF StartJob, SendResponse, FinishJob, FailJob, CancelJob, JobDone, TypeOK
  <2> QED BY <1>8, <2>1, <2>2, <2>3, <2>4
<1>10. CASE ReadCancel
  <2>1. UNCHANGED <<call, sent, replies>>
    BY <1>10 DEF ReadCancel, client
  <2>2. CASE job' = job
    BY <1>5, <2>1, <2>2
  <2>3. CASE job' # job
    <3>1. slot \in Tasks /\ job[slot] \in {"created", "running", "sending"}
      BY <1>0, <1>10, <2>3 DEF ReadCancel, TypeOK
    <3>2. job'[slot] \in JobStates \ {"none"} /\ \A u \in Tasks : u # slot => job'[u] = job[u]
      BY <1>0, <1>10, <3>1 DEF ReadCancel, TypeOK, JobStates
    <3> QED BY <1>8, <2>1, <3>1, <3>2
  <2> QED BY <2>2, <2>3
<1>11. ASSUME \/ ReaderEnds \/ ReaderIdles \/ ReaderRoutes \/ ClientCloses \/ LoseConnection \/ Quiet
              \/ ServerReadsNone \/ UNCHANGED vars
              \/ \E t \in Tasks : SendCancel(t) \/ AcknowledgeRaises(t)
       PROVE  UNCHANGED <<call, job, sent, replies>>
  BY <1>11 DEF ReaderEnds, ReaderIdles, ReaderRoutes, ClientCloses, LoseConnection, Quiet,
       ServerReadsNone, AcknowledgeRaises, ServerCloses, SendCancel, vars, client, jobs
<1> QED BY <1>1, <1>2, <1>3, <1>4, <1>5, <1>7, <1>9, <1>10, <1>11
        DEF Next, Caller, Reader, Loop, Job

-----------------------------------------------------------------------------
(* Theorems *)

\* Whatever the two sides, the timers and the network do, a session's state is one
\* of those in which send_task and handle_task_request are written to work.
THEOREM SessionInvariant == Spec => []Inv
BY InvInit, InvStep, PTL DEF Spec

\* The variables of a session keep their types.
THEOREM TypesCorrect == Spec => []TypeOK
BY SessionInvariant, PTL DEF Inv

\* _pending_responses holds the calls that wait and those whose request could not
\* be written, and no others.
THEOREM PendingIsExact == Spec => []NothingLeftPending
BY SessionInvariant, PTL DEF Inv

\* Without a cancel no task is answered twice: a refusal, an error or the last
\* frame of a result is the only one.
THEOREM AnsweredOnce == Spec => []OneReply
<1>1. Inv => OneReply
  <2> SUFFICES ASSUME Inv, asked = {}, NEW t \in Tasks PROVE replies[t] <= 1
    BY DEF OneReply
  <2>1. job[t] \in JobStates /\ JobShape(t) /\ Undisturbed(t)
    BY DEF Inv, TypeOK
  <2> QED BY <2>1 DEF JobStates, JobShape, Undisturbed
<1> QED BY <1>1, SessionInvariant, PTL

\* Without a cancel no job ends and leaves its caller without a reply while the
\* connection can carry one.
THEOREM JobsAnswer == Spec => []JobsReply
<1>1. Inv => JobsReply
  BY DEF Inv, TypeOK, Undisturbed, JobsReply
<1> QED BY <1>1, SessionInvariant, PTL

AllTold == \A t \in Tasks : Told(t)

\* With one frame for each result what the client was given and is about to be given
\* agrees with what the server has done.
LEMMA ToldInvariant == ASSUME Chunks = 1 PROVE Spec => [](Inv /\ AllTold)
<1>1. Init => AllTold
  BY ChunksAssumption DEF Init, AllTold, Told, AnswerTrue, FramesTrue, Delivered
<1>2. Inv /\ AllTold /\ [Next]_vars => AllTold'
  BY ToldStep DEF AllTold
<1> QED BY <1>1, <1>2, SessionInvariant, PTL DEF Spec

\* A call that was told ok was given the result of its own task and nothing else,
\* as long as a result is one frame.
THEOREM OwnResults == Chunks = 1 => (Spec => []OkIsOwnResult)
<1> SUFFICES ASSUME Chunks = 1 PROVE Spec => []OkIsOwnResult
  OBVIOUS
<1> DEFINE AllWhole == \A t \in Tasks : Whole(t)
<1>1. Init => AllWhole
  BY DEF Init, Whole
<1>2. Inv /\ AllTold /\ AllWhole /\ [Next]_vars => AllWhole'
  BY WholeStep DEF Inv, AllTold
<1>3. AllWhole => OkIsOwnResult
  BY DEF Whole, OkIsOwnResult
<1> HIDE DEF AllWhole
<1> QED BY <1>1, <1>2, <1>3, ToldInvariant, PTL DEF Spec

\* send_task and handle_task_request keep the promise of TaskService whatever the
\* transport, the timers and the cancels do: a caller told ok has the result of a
\* run that finished, one told error knows that there is none, and no task is run
\* twice.  For a server that answers in one frame, as agent_task.py does.
THEOREM SessionServes == Chunks = 1 => (Spec => ImplementsService)
<1> SUFFICES ASSUME Chunks = 1 PROVE Spec => ImplementsService
  OBVIOUS
<1>1. Init => Service!Init
  <2> SUFFICES ASSUME Init PROVE Service!Init
    OBVIOUS
  <2>1. \A t \in Tasks : Outcome(t) = "new" /\ Work(t) = "none"
    BY DEF Init, Outcome, Work
  <2> QED BY <2>1 DEF Service!Init
<1>2. Inv /\ AllTold /\ [Next]_vars => [Service!Next]_Service!vars
  BY ServiceStep DEF AllTold
<1> QED BY <1>1, <1>2, ToldInvariant, PTL DEF Spec, ImplementsService, Service!Spec
=============================================================================

----------------------------- MODULE TaskSession -----------------------------
(***************************************************************************)
(* Tasks on one bound connection: a client whose coroutines call send_task   *)
(* concurrently and share one frame reader (agent.py), and a server that      *)
(* reads requests in handle_task_loop and runs each in an asyncio task of its *)
(* own (agent_task.py).                                                       *)
(*                                                                          *)
(* A task is named by its task_id.  Each is called once; its payload and its *)
(* result are left out, a result being Chunks response frames of which all    *)
(* but the last are partial.  agent_task.py makes what a handler returns one   *)
(* byte string and so writes one frame: with more Chunks the server is one of *)
(* another implementation that streams, as the client is prepared for.        *)
(*                                                                          *)
(* An await is a place where another coroutine may run, so an action is the   *)
(* code between two awaits that can suspend.                                   *)
(***************************************************************************)
EXTENDS Naturals, Sequences, FiniteSets

CONSTANTS
    Tasks,         \* task ids
    NoTask,        \* the empty _current_task slot
    Chunks,        \* response frames a result is sent in
    Cancels,       \* may the client side send TASK_CANCEL frames?
    RateLimits,    \* may the rate limiter refuse a request?
    Skews,         \* may a request's timestamp be outside CLOCK_SKEW_MS?
    Timers,        \* may deadlines and idle timers expire?
    Losses         \* may the sides close the connection, or lose it?

ASSUME TasksAssumption == NoTask \notin Tasks
ASSUME ChunksAssumption == Chunks \in Nat \ {0}
ASSUME SwitchesAssumption ==
    {Cancels, RateLimits, Skews, Timers, Losses} \subseteq BOOLEAN

VARIABLES
    call,        \* where each send_task is
    pending,     \* the keys of _pending_responses
    answer,      \* what each pending future has been given
    parts,       \* the response frames each call has accumulated
    reader,      \* the background _frame_reader_loop of the client
    bufClosed,   \* _closed of the client's BufferedFrameReader
    clientOpen,  \* the client has not closed its side
    server,      \* handle_task_loop of the server
    job,         \* where the asyncio task of each request is
    sent,        \* response frames each job has written
    slot,        \* _current_task
    replies,     \* terminal frames written for each task (history)
    asked,       \* tasks a TASK_CANCEL has been sent for
    toS, toC,    \* frames in flight to each side
    lost         \* the transport is gone

client == <<call, pending, answer, parts, reader, bufClosed, clientOpen>>
jobs == <<job, sent, slot, replies>>
vars == <<client, server, jobs, asked, toS, toC, lost>>

-----------------------------------------------------------------------------
CallStates == {"idle", "waiting", "streaming", "ok", "error", "timeout", "raised"}
JobStates == {"none", "created", "running", "sending", "cancelled", "ending", "over"}

Returned == {"ok", "error", "timeout", "raised"}
Live == {"created", "running", "sending"}

\* A response is partial when it is not the last of its Chunks.
Frames == [type : {"ack", "response", "error"}, task : Tasks, seq : 0 .. Chunks]
Requests == [type : {"request", "cancel"}, task : Tasks]
NoFrame == [type |-> "none"]

Ack(t) == [type |-> "ack", task |-> t, seq |-> 0]
Error(t) == [type |-> "error", task |-> t, seq |-> 0]
Response(t, n) == [type |-> "response", task |-> t, seq |-> n]
IsPartial(f) == f.seq < Chunks

TypeOK ==
    /\ call \in [Tasks -> CallStates]
    /\ pending \subseteq Tasks
    /\ answer \in [Tasks -> Frames \cup {NoFrame}]
    /\ parts \in [Tasks -> Seq(Frames)]
    /\ reader \in {"none", "running", "starved", "done"}
    /\ bufClosed \in BOOLEAN /\ clientOpen \in BOOLEAN /\ lost \in BOOLEAN
    /\ server \in {"reading", "closed"}
    /\ job \in [Tasks -> JobStates]
    /\ sent \in [Tasks -> 0 .. Chunks]
    /\ slot \in Tasks \cup {NoTask}
    /\ replies \in [Tasks -> Nat]
    /\ asked \subseteq Tasks
    /\ toS \in Seq(Requests) /\ toC \in Seq(Frames)

Init ==
    /\ call = [t \in Tasks |-> "idle"]
    /\ pending = {}
    /\ answer = [t \in Tasks |-> NoFrame]
    /\ parts = [t \in Tasks |-> << >>]
    /\ reader = "none" /\ bufClosed = FALSE /\ clientOpen = TRUE
    /\ server = "reading"
    /\ job = [t \in Tasks |-> "none"]
    /\ sent = [t \in Tasks |-> 0]
    /\ slot = NoTask
    /\ replies = [t \in Tasks |-> 0]
    /\ asked = {}
    /\ toS = << >> /\ toC = << >>
    /\ lost = FALSE

-----------------------------------------------------------------------------
\* The transport.

Open == clientOpen /\ server = "reading" /\ ~ lost

\* What a write adds to a queue: nothing once the connection is going away.
Sent(queue, frame) == IF Open THEN Append(queue, frame) ELSE queue

\* The client has read everything there will ever be.
ClientAtEof == toC = << >> /\ (server = "closed" \/ lost \/ ~ clientOpen)
ServerAtEof == toS = << >> /\ (~ clientOpen \/ lost)

-----------------------------------------------------------------------------
\* The client: send_task.

\* Register the future, start the reader unless one runs, write the request.
\* On a broken connection drain raises and the future stays registered.
Call(t) ==
    /\ call[t] = "idle"
    /\ pending' = pending \cup {t}
    /\ reader' = IF reader \in {"none", "done"} THEN "running" ELSE reader
    /\ \/ clientOpen /\ ~ lost /\ call' = [call EXCEPT ![t] = "waiting"]
       \/ ~ Open /\ call' = [call EXCEPT ![t] = "raised"]
    /\ toS' = Sent(toS, [type |-> "request", task |-> t])
    /\ UNCHANGED <<answer, parts, bufClosed, clientOpen, server, jobs, asked, toC, lost>>

\* The future has been given a frame: return it, or go on reading chunks.
Return(t) ==
    /\ call[t] = "waiting" /\ answer[t] # NoFrame
    /\ pending' = pending \ {t}
    /\ \/ /\ answer[t].type = "error"
          /\ call' = [call EXCEPT ![t] = "error"]
          /\ UNCHANGED parts
       \/ /\ answer[t].type = "response"
          /\ call' = [call EXCEPT ![t] = IF IsPartial(answer[t]) THEN "streaming" ELSE "ok"]
          /\ parts' = [parts EXCEPT ![t] = <<answer[t]>>]
    /\ UNCHANGED <<answer, reader, bufClosed, clientOpen, server, jobs, asked, toS, toC, lost>>

\* Mutant: a call that times out leaves its future registered.
MutantTimeout(t) ==
    /\ Timers
    /\ call[t] = "waiting"
    /\ call' = [call EXCEPT ![t] = "timeout"]
    /\ UNCHANGED <<pending, answer, parts, reader, bufClosed, clientOpen, server, jobs,
                   asked, toS, toC, lost>>

\* wait_for expires, also in the turn of the loop in which the future is set.
Timeout(t) ==
    /\ Timers
    /\ call[t] = "waiting"
    /\ call' = [call EXCEPT ![t] = "timeout"]
    /\ pending' = pending \ {t}
    /\ UNCHANGED <<answer, parts, reader, bufClosed, clientOpen, server, jobs, asked,
                   toS, toC, lost>>

\* Mutant: a frame of another task is appended and left for its reader too.
MutantStreamReads(t) ==
    LET f == Head(toC) IN
    /\ call[t] = "streaming" /\ ~ bufClosed /\ toC # << >>
    /\ toC' = IF f.task = t THEN Tail(toC) ELSE toC
    /\ reader' = IF reader = "running" THEN "starved" ELSE reader
    /\ \/ /\ f.type = "response"
          /\ parts' = [parts EXCEPT ![t] = Append(@, f)]
          /\ call' = [call EXCEPT ![t] = IF IsPartial(f) THEN @ ELSE "ok"]
       \/ /\ f.type # "response"
          /\ call' = [call EXCEPT ![t] = "ok"]
          /\ UNCHANGED parts
    /\ UNCHANGED <<pending, answer, bufClosed, clientOpen, server, jobs, asked, toS, lost>>

\* The accumulating call reads the connection itself, beside the frame reader.
\* Whatever task the frame is of, a response is appended; anything else ends
\* the result.  A frame reader waiting for these bytes finds none.
StreamReads(t) ==
    LET f == Head(toC) IN
    /\ call[t] = "streaming" /\ ~ bufClosed /\ toC # << >>
    /\ toC' = Tail(toC)
    /\ reader' = IF reader = "running" THEN "starved" ELSE reader
    /\ \/ /\ f.type = "response"
          /\ parts' = [parts EXCEPT ![t] = Append(@, f)]
          /\ call' = [call EXCEPT ![t] = IF IsPartial(f) THEN @ ELSE "ok"]
       \/ /\ f.type # "response"
          /\ call' = [call EXCEPT ![t] = "ok"]
          /\ UNCHANGED parts
    /\ UNCHANGED <<pending, answer, bufClosed, clientOpen, server, jobs, asked, toS, lost>>

\* Mutant: at None the call goes on waiting for its last chunk.
MutantStreamReadsNone(t) ==
    /\ call[t] = "streaming" /\ bufClosed
    /\ UNCHANGED vars

\* None ends the result: at end of stream, when the read idles out, or when
\* another coroutine is already waiting in the stream's read (RuntimeError).
StreamReadsNone(t) ==
    /\ call[t] = "streaming"
    /\ \/ bufClosed /\ UNCHANGED bufClosed
       \/ ClientAtEof /\ bufClosed' = TRUE
       \/ Timers /\ toC = << >> /\ bufClosed' = TRUE
       \/ /\ toC = << >>
          /\ reader \in {"running", "starved"} \/ \E u \in Tasks \ {t} : call[u] = "streaming"
          /\ UNCHANGED bufClosed
    /\ call' = [call EXCEPT ![t] = "ok"]
    /\ UNCHANGED <<pending, answer, parts, reader, clientOpen, server, jobs, asked,
                   toS, toC, lost>>

-----------------------------------------------------------------------------
\* The client: the background frame reader.

\* Mutant: a reply goes to some pending future, whatever its task.
MutantReaderRoutes ==
    LET f == Head(toC) IN
    /\ reader = "running" /\ ~ bufClosed /\ toC # << >>
    /\ toC' = Tail(toC)
    /\ IF f.type \in {"response", "error"} /\ pending # {}
       THEN \E t \in pending : answer' = [answer EXCEPT ![t] = f]
       ELSE UNCHANGED answer
    /\ UNCHANGED <<call, pending, parts, reader, bufClosed, clientOpen, server, jobs,
                   asked, toS, lost>>

\* TASK_RESPONSE and TASK_ERROR go to the pending future of their task, if it
\* has not been given one; the client ignores every other frame.
ReaderRoutes ==
    LET f == Head(toC) IN
    /\ reader = "running" /\ ~ bufClosed /\ toC # << >>
    /\ toC' = Tail(toC)
    /\ answer' = IF f.type \in {"response", "error"} /\ f.task \in pending
                    /\ answer[f.task] = NoFrame
                 THEN [answer EXCEPT ![f.task] = f] ELSE answer
    /\ UNCHANGED <<call, pending, parts, reader, bufClosed, clientOpen, server, jobs,
                   asked, toS, lost>>

\* Nothing to read for 30 s: the reader reads on.
ReaderIdles ==
    /\ reader = "running" /\ ~ bufClosed /\ toC = << >>
    /\ UNCHANGED vars

\* None ends the reader.  The futures it leaves behind are not told.
ReaderEnds ==
    /\ \/ reader = "running" /\ (bufClosed \/ ClientAtEof)
       \/ reader = "starved"
    /\ reader' = "done"
    /\ bufClosed' = TRUE
    /\ UNCHANGED <<call, pending, answer, parts, clientOpen, server, jobs, asked, toS, toC, lost>>

\* close_async: cancels the reader and closes the writer; what was written is
\* still delivered, what was not read is gone.
ClientCloses ==
    /\ Losses /\ clientOpen
    /\ clientOpen' = FALSE
    /\ reader' = "none"
    /\ toC' = << >>
    /\ UNCHANGED <<call, pending, answer, parts, bufClosed, server, jobs, asked, toS, lost>>

\* A TASK_CANCEL for a task called before.  No code of the repository sends one.
SendCancel(t) ==
    /\ Cancels
    /\ call[t] # "idle" /\ t \notin asked /\ clientOpen
    /\ asked' = asked \cup {t}
    /\ toS' = Sent(toS, [type |-> "cancel", task |-> t])
    /\ UNCHANGED <<client, server, jobs, toC, lost>>

-----------------------------------------------------------------------------
\* The server: handle_task_loop and handle_task_request.

RequestAt(t) ==
    server = "reading" /\ toS # << >> /\ Head(toS) = [type |-> "request", task |-> t]

\* Mutant: the request is refused and then started all the same.
MutantRefuseRequest(t) ==
    /\ RateLimits /\ RequestAt(t)
    /\ toS' = Tail(toS)
    /\ toC' = Sent(toC, Error(t))
    /\ replies' = [replies EXCEPT ![t] = @ + 1]
    /\ job' = [job EXCEPT ![t] = "created"]
    /\ slot' = t
    /\ UNCHANGED <<client, server, sent, asked, lost>>

\* The rate limiter refuses: an error and no acknowledgement.
RefuseRequest(t) ==
    /\ RateLimits /\ RequestAt(t)
    /\ toS' = Tail(toS)
    /\ toC' = Sent(toC, Error(t))
    /\ replies' = [replies EXCEPT ![t] = @ + 1]
    /\ UNCHANGED <<client, server, job, sent, slot, asked, lost>>

\* Acknowledge and start the job, which takes the slot whoever holds it.
AcceptRequest(t) ==
    /\ RequestAt(t)
    /\ toS' = Tail(toS)
    /\ toC' = Sent(toC, Ack(t))
    /\ job' = [job EXCEPT ![t] = "created"]
    /\ slot' = t
    /\ UNCHANGED <<client, server, sent, replies, asked, lost>>

\* The loop ends and the server closes.  Closing with requests unread resets the
\* connection, which may destroy frames the client has not read.
ServerCloses(frames) ==
    /\ server' = "closed"
    /\ toS' = << >>
    /\ \/ toC' = frames
       \/ toS # << >> /\ toC' = << >>
    /\ UNCHANGED <<client, jobs, asked, lost>>

\* A skewed request is answered and then read as None, which ends the loop.
RefuseSkewed(t) ==
    /\ Skews /\ RequestAt(t)
    /\ server' = "closed"
    /\ toS' = << >>
    /\ \/ toC' = Sent(toC, Error(t))
       \/ Len(toS) > 1 /\ toC' = << >>
    /\ replies' = [replies EXCEPT ![t] = @ + 1]
    /\ UNCHANGED <<client, job, sent, slot, asked, lost>>

\* Acknowledging a request on a broken connection raises, which ends the loop.
AcknowledgeRaises(t) ==
    /\ RequestAt(t) /\ ~ Open
    /\ ServerCloses(toC)

\* End of stream, or 30 s without a frame, jobs in progress or not.
ServerReadsNone ==
    /\ server = "reading"
    /\ ServerAtEof \/ (Timers /\ toS = << >>)
    /\ ServerCloses(toC)

\* TASK_CANCEL cancels the task in the slot, whichever it names.  A task that
\* has not started yet ends without having run at all.
ReadCancel ==
    /\ server = "reading" /\ toS # << >> /\ Head(toS).type = "cancel"
    /\ toS' = Tail(toS)
    /\ job' = IF slot = NoTask THEN job
              ELSE [job EXCEPT ![slot] = CASE @ = "created" -> "ending"
                                           [] @ \in {"running", "sending"} -> "cancelled"
                                           [] OTHER -> @]
    /\ UNCHANGED <<client, server, sent, slot, replies, asked, toC, lost>>

-----------------------------------------------------------------------------
\* The server: a request's job, _process.

StartJob(t) ==
    /\ job[t] = "created"
    /\ job' = [job EXCEPT ![t] = "running"]
    /\ UNCHANGED <<client, server, sent, slot, replies, asked, toS, toC, lost>>

\* Mutant: one frame too many.
MutantSendResponse(t) ==
    /\ job[t] \in {"running", "sending"} /\ sent[t] <= Chunks
    /\ server = "reading" /\ ~ lost
    /\ job' = [job EXCEPT ![t] = "sending"]
    /\ sent' = [sent EXCEPT ![t] = @ + 1]
    /\ toC' = Sent(toC, Response(t, sent[t] + 1))
    /\ replies' = [replies EXCEPT ![t] = IF sent[t] + 1 = Chunks THEN @ + 1 ELSE @]
    /\ UNCHANGED <<client, server, slot, asked, toS, lost>>

\* The handler has a result: write it, frame after frame.
SendResponse(t) ==
    /\ job[t] \in {"running", "sending"} /\ sent[t] < Chunks
    /\ server = "reading" /\ ~ lost
    /\ job' = [job EXCEPT ![t] = "sending"]
    /\ sent' = [sent EXCEPT ![t] = @ + 1]
    /\ toC' = Sent(toC, Response(t, sent[t] + 1))
    /\ replies' = [replies EXCEPT ![t] = IF sent[t] + 1 = Chunks THEN @ + 1 ELSE @]
    /\ UNCHANGED <<client, server, slot, asked, toS, lost>>

\* The last frame is drained; or writes raise, those of the error too.
FinishJob(t) ==
    /\ \/ job[t] = "sending" /\ sent[t] = Chunks
       \/ job[t] \in {"running", "sending"} /\ (server = "closed" \/ lost)
    /\ job' = [job EXCEPT ![t] = "ending"]
    /\ UNCHANGED <<client, server, sent, slot, replies, asked, toS, toC, lost>>

\* Mutant: the exception is logged and nobody is told.
MutantFailJob(t) ==
    /\ job[t] = "running"
    /\ job' = [job EXCEPT ![t] = "ending"]
    /\ UNCHANGED <<client, server, sent, slot, replies, asked, toS, toC, lost>>

\* The handler raises.
FailJob(t) ==
    /\ job[t] = "running"
    /\ job' = [job EXCEPT ![t] = "ending"]
    /\ toC' = Sent(toC, Error(t))
    /\ replies' = [replies EXCEPT ![t] = IF server = "reading" /\ ~ lost THEN @ + 1 ELSE @]
    /\ UNCHANGED <<client, server, sent, slot, asked, toS, lost>>

\* CancelledError arrives at the job's await: it answers with an error, even
\* when its response has been written and only drain was awaited.
CancelJob(t) ==
    /\ job[t] = "cancelled"
    /\ job' = [job EXCEPT ![t] = "ending"]
    /\ toC' = Sent(toC, Error(t))
    /\ replies' = [replies EXCEPT ![t] = IF server = "reading" /\ ~ lost THEN @ + 1 ELSE @]
    /\ UNCHANGED <<client, server, sent, slot, asked, toS, lost>>

\* The done callback empties the slot, whichever job is in it by now.
JobDone(t) ==
    /\ job[t] = "ending"
    /\ job' = [job EXCEPT ![t] = "over"]
    /\ slot' = NoTask
    /\ UNCHANGED <<client, server, sent, replies, asked, toS, toC, lost>>

LoseConnection ==
    /\ Losses /\ ~ lost
    /\ lost' = TRUE
    /\ toS' = << >> /\ toC' = << >>
    /\ UNCHANGED <<client, server, jobs, asked>>

-----------------------------------------------------------------------------
Caller(t) == Call(t) \/ Return(t) \/ StreamReads(t) \/ StreamReadsNone(t)
Reader == ReaderRoutes \/ ReaderEnds
Loop ==
    \/ \E t \in Tasks : RefuseRequest(t) \/ AcceptRequest(t) \/ RefuseSkewed(t)
                        \/ AcknowledgeRaises(t)
    \/ ReadCancel
    \/ ServerAtEof /\ ServerReadsNone
Job(t) ==
    \/ StartJob(t) \/ SendResponse(t) \/ FinishJob(t)
    \/ FailJob(t) \/ CancelJob(t) \/ JobDone(t)

\* Every call has returned and no job is left; the connection may stay open.
Quiet ==
    /\ \A t \in Tasks : call[t] \in Returned /\ job[t] \in {"none", "over"}
    /\ UNCHANGED vars

Next ==
    \/ \E t \in Tasks : Caller(t) \/ Timeout(t) \/ SendCancel(t) \/ Job(t)
    \/ Reader \/ ReaderIdles \/ ClientCloses
    \/ Loop \/ ServerReadsNone
    \/ LoseConnection
    \/ Quiet

Spec == Init /\ [][Next]_vars

\* The event loops run what is ready, and handlers return.  Deadlines, idle
\* timers, cancels, closing and loss are never required to happen.
FairSpec ==
    /\ Spec
    /\ WF_vars(Reader) /\ WF_vars(Loop)
    /\ \A t \in Tasks : WF_vars(Return(t) \/ StreamReads(t) \/ StreamReadsNone(t))
                        /\ WF_vars(Job(t))

-----------------------------------------------------------------------------
(* Properties *)

\* _pending_responses holds the calls that wait, and those whose request could
\* not be written; a call that returned leaves nothing behind.
NothingLeftPending ==
    pending = {t \in Tasks : call[t] \in {"waiting", "raised"}}

\* Whatever else is under way on the connection, a call that was told ok was given
\* the response of its own task (for a server that writes results in one frame).
OkIsOwnResult ==
    \A t \in Tasks : call[t] = "ok" =>
        parts[t] = [n \in 1 .. Chunks |-> Response(t, n)]

\* Reader and accumulating calls read one stream between them, and take frames of
\* each other's tasks: still no response goes into two results or twice into one,
\* and the frames of a task that a result has are in the order they were written.
TakenOnce ==
    \A t, u \in Tasks : \A i \in DOMAIN parts[t], j \in DOMAIN parts[u] :
        /\ parts[t][i] = parts[u][j] => t = u /\ i = j
        /\ t = u /\ i < j /\ parts[t][i].task = parts[t][j].task =>
               parts[t][i].seq < parts[t][j].seq

\* The task service of TaskService: a request is settled by what its job has
\* written last, and a reply without a job is a refusal.
Work(t) ==
    CASE job[t] = "none" -> IF replies[t] > 0 THEN "refused" ELSE "none"
      [] job[t] # "none" /\ sent[t] = Chunks -> "done"
      [] job[t] \in {"created", "running", "sending", "cancelled"} /\ sent[t] < Chunks -> "begun"
      [] OTHER -> IF replies[t] > 0 THEN "failed" ELSE "dropped"

Outcome(t) ==
    CASE call[t] = "idle" -> "new"
      [] call[t] \in {"waiting", "streaming"} -> "asked"
      [] call[t] \in {"ok", "error"} -> call[t]
      [] OTHER -> "unknown"

Service == INSTANCE TaskService
             WITH outcome <- [t \in Tasks |-> Outcome(t)],
                  work <- [t \in Tasks |-> Work(t)]

\* The session implements the task service: at most one run for each task, ok
\* only for a run that finished, error only where there is no result.
ImplementsService == Service!Spec

\* The receiving peer sends either TASK_RESPONSE or TASK_ERROR, never a second
\* terminal frame for one task, as long as nobody cancels.
OneReply == asked = {} => \A t \in Tasks : replies[t] <= 1

\* "The receiving peer MUST respond with TASK_ACK, process the task, and send
\* either TASK_RESPONSE or TASK_ERROR": unless there was a cancel, a job does not
\* end without a reply on a connection that can carry it.
JobsReply ==
    asked = {} => \A t \in Tasks : job[t] = "over" /\ server = "reading" /\ ~ lost
                                     => replies[t] >= 1

\* As long as the connection is open and nobody cancels, every call returns with
\* no deadline to fall back on.
EveryCallReturns ==
    \A t \in Tasks : call[t] = "waiting" ~> call[t] \in Returned \/ ~ Open \/ asked # {}

\* A call that accumulates chunks returns, whoever takes the frames it waits for:
\* no deadline covers that part of send_task.
StreamsReturn ==
    \A t \in Tasks : call[t] = "streaming" ~> call[t] \in Returned
=============================================================================

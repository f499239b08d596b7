------------------------------- MODULE Server -------------------------------
(***************************************************************************)
(* The life of a server: its listeners, its connections, its background       *)
(* loops, and how it is stopped.  There are five kinds of server:              *)
(*   "main"      ATPServer.start(block=True), in serve_forever until the end   *)
(*   "embedded"  ATPServer.start(block=False), which returns                   *)
(*   "sdk"       SimpleATPServer, whose serve_forever is a task of its own     *)
(*   "sync"      SyncATPServer, which runs one of these in a thread            *)
(*   "quic"      QUICServer, whose gen is an endpoint of aioquic               *)
(*                                                                          *)
(* A gen is an asyncio.Server object: reload_ssl and a second start make one. *)
(* Its close() ends the serve_forever on it, and since Python 3.12 its         *)
(* wait_closed() waits for the connections it has accepted.  The connections   *)
(* come from one host.  What they carry is left out, except the deepseek_chat  *)
(* tasks, which share one circuit breaker in the process.                     *)
(***************************************************************************)
EXTENDS Naturals, FiniteSets

CONSTANTS
    Conns,         \* places for connections
    MaxConns,      \* ConnectionLimiter
    MaxAttempts,   \* HandshakeRateLimiter, per host and window
    Threshold,     \* CircuitBreaker
    MaxGens,       \* bound: asyncio.Server objects
    MaxDue,        \* bound: times a certificate comes into its rotation window
    MaxAsking,     \* bound: calls of the language model at a time
    MaxFailures    \* bound: failures the breaker has counted

ASSUME LimitsAssumption ==
    /\ MaxConns \in Nat \ {0} /\ MaxAttempts \in Nat \ {0}
    /\ Threshold \in Nat \ {0} /\ MaxAsking \in Nat /\ MaxFailures \in Nat
    /\ MaxGens \in Nat \ {0} /\ MaxDue \in Nat
ASSUME ConnsAssumption == IsFiniteSet(Conns)

Gens == 1 .. MaxGens

VARIABLES
    how,           \* the kind of server
    waits,         \* does wait_closed wait for connections (Python 3.12)?
    shared,        \* may two sockets listen at one address (not on Linux)?
    server,        \* state of each asyncio.Server
    current,       \* _server, or 0
    task,          \* the coroutine that is in serve_forever on each of them
    running,       \* _running, of the SDK's
    taskref,       \* _task, of the SDK's: the gen it serves, or 0
    stopper,       \* how far stop() is
    awaited,       \* the gen it waits for
    shuttingDown,  \* of GracefulShutdown
    signalled,     \* SIGTERM or SIGINT has come (history)
    ready, health, \* the health check's flag and its own listener
    loops,         \* gossip and federation loops run
    rotator,       \* the rotation loop runs
    due, dues,     \* the cached certificate is within its window; how often it was
    reload,        \* reload_ssl awaits its new listener
    conn,          \* where each connection's handler is, and whose connection it is
    agents,        \* _agents, for federation broadcasts
    active, sem,   \* ConnectionLimiter
    attempts,      \* HandshakeRateLimiter: attempts in the window
    breaker,       \* CircuitBreaker
    asking         \* tasks that are in call_deepseek

env == <<how, waits, shared>>
listeners == <<server, current, task>>
sdk == <<running, taskref>>
stopping == <<stopper, awaited, shuttingDown, signalled>>
background == <<ready, health, loops, rotator>>
certificate == <<due, dues, reload>>
handlers == <<conn, agents, active, sem, attempts>>
circuit == <<breaker, asking>>
vars == <<env, listeners, sdk, stopping, background, certificate, handlers, circuit>>

-----------------------------------------------------------------------------
Kinds == {"main", "embedded", "sdk", "sync", "quic"}

Free == [at |-> "free", gen |-> 0]
Places == {"handshake", "serving", "closing"}

NewBreaker == [state |-> "CLOSED", failures |-> 0]

TypeOK ==
    /\ how \in Kinds /\ {waits, shared} \subseteq BOOLEAN
    /\ server \in [Gens -> {"none", "listening", "closed", "left"}]
    /\ task \in [Gens -> {"none", "serving", "exiting", "draining", "over"}]
    /\ current \in 0 .. MaxGens /\ taskref \in 0 .. MaxGens /\ awaited \in 0 .. MaxGens
    /\ stopper \in {"none", "scheduled", "waiting", "draining", "finishing", "closing",
                    "stopped", "done"}
    /\ {running, shuttingDown, signalled, ready, loops, rotator, due, reload} \subseteq BOOLEAN
    /\ health \in {"none", "starting", "up", "down"}
    /\ dues \in 0 .. MaxDue
    /\ conn \in [Conns -> {Free} \cup [at : Places, gen : Gens]]
    /\ agents \subseteq Conns /\ asking \in 0 .. MaxAsking
    /\ active \in 0 .. MaxConns /\ sem \in 0 .. MaxConns
    /\ attempts \in 0 .. MaxAttempts
    /\ breaker \in [state : {"CLOSED", "OPEN", "HALF_OPEN"}, failures : 0 .. MaxFailures]

Init ==
    /\ how \in Kinds
    /\ waits \in BOOLEAN /\ shared \in BOOLEAN
    /\ server = [g \in Gens |-> "none"] /\ task = [g \in Gens |-> "none"]
    /\ current = 0 /\ taskref = 0 /\ awaited = 0
    /\ stopper = "none"
    /\ running = FALSE /\ shuttingDown = FALSE /\ signalled = FALSE
    /\ ready = FALSE /\ health = "none" /\ loops = FALSE /\ rotator = FALSE
    /\ due = FALSE /\ dues = 0 /\ reload = FALSE
    /\ conn = [c \in Conns |-> Free] /\ agents = {}
    /\ active = 0 /\ sem = MaxConns /\ attempts = 0
    /\ breaker = NewBreaker /\ asking = 0

-----------------------------------------------------------------------------
(* asyncio.Server *)

Atp == how \in {"main", "embedded"}
Sdk == how \in {"sdk", "sync"}
Listening == {g \in Gens : server[g] = "listening"}
Unused == {g \in Gens : server[g] = "none"}
OpenConns == {c \in Conns : conn[c] # Free}

\* Another listener finds the address free.
MayBind == shared \/ \A g \in Gens : server[g] \notin {"listening", "left"}

\* Server.close(), of which the serve_forever on it is cancelled.
Closed(G) == [g \in Gens |-> IF g \in G THEN "closed" ELSE server[g]]
Cancelled(G) == [g \in Gens |-> IF g \in G /\ task[g] = "serving" THEN "exiting" ELSE task[g]]

\* wait_closed() would return.
IsClosed(g) == waits => \A c \in Conns : conn[c].gen # g

-----------------------------------------------------------------------------
(* ATPServer: start, the health check, a signal *)

Start ==
    /\ Atp /\ current = 0
    /\ current' = 1
    /\ server' = [server EXCEPT ![1] = "listening"]
    /\ task' = [task EXCEPT ![1] = IF how = "main" THEN "serving" ELSE "none"]
    /\ ready' = TRUE /\ health' = "starting" /\ loops' = TRUE /\ rotator' = TRUE
    /\ UNCHANGED <<env, sdk, stopping, certificate, handlers, circuit>>

\* HealthCheckServer.start is a task: it binds, or the port is taken and the
\* exception stays in the task.
HealthStarts(bound) ==
    /\ health = "starting"
    /\ health' = IF bound THEN "up" ELSE "down"
    /\ UNCHANGED <<env, listeners, sdk, stopping, ready, loops, rotator, certificate,
                   handlers, circuit>>

\* GracefulShutdown._trigger, all that a signal does.
Signal ==
    /\ how = "main" /\ current # 0 /\ ~ signalled
    /\ signalled' = TRUE
    /\ shuttingDown' = TRUE
    /\ UNCHANGED <<env, listeners, sdk, stopper, awaited, background, certificate,
                   handlers, circuit>>

-----------------------------------------------------------------------------
(* ATPServer: the end of start(block=True), and stop() *)

\* `async with` closes the server again and waits for it, with no timeout.
MainExits ==
    /\ how = "main" /\ task[1] = "exiting" /\ IsClosed(1)
    /\ task' = [task EXCEPT ![1] = "draining"]
    /\ UNCHANGED <<env, server, current, sdk, stopping, background, certificate,
                   handlers, circuit>>

\* HealthCheckServer.stop: nothing to close if it is still starting.
HealthStopped == IF health = "up" THEN "down" ELSE health

\* drain: start(block=True) tracks the loops, which never end, so that after its 15 s
\* it cancels them, a reload in progress too; start(block=False) tracks none.
SurvivesDrain(going) == going /\ how # "main"

MainEnds ==
    /\ how = "main" /\ task[1] = "draining"
    /\ task' = [task EXCEPT ![1] = "over"]
    /\ loops' = SurvivesDrain(loops) /\ rotator' = SurvivesDrain(rotator)
    /\ reload' = SurvivesDrain(reload)
    /\ health' = HealthStopped
    /\ UNCHANGED <<env, server, current, sdk, stopping, ready, due, dues, handlers, circuit>>

StopCalled ==
    /\ Atp /\ current # 0 /\ stopper = "none"
    /\ stopper' = "waiting" /\ awaited' = current
    /\ shuttingDown' = TRUE
    /\ server' = Closed({current}) /\ task' = Cancelled({current})
    /\ UNCHANGED <<env, current, sdk, signalled, background, certificate, handlers, circuit>>

\* Mutant: shutdown_server waits for the connections without a timeout.
MutantStopWaited ==
    /\ Atp /\ stopper = "waiting" /\ IsClosed(awaited)
    /\ stopper' = "draining"
    /\ UNCHANGED <<env, listeners, sdk, awaited, shuttingDown, signalled, background,
                   certificate, handlers, circuit>>

\* shutdown_server waits 5 s at most for the connections to end.
StopWaited ==
    /\ Atp /\ stopper = "waiting"
    /\ stopper' = "draining"
    /\ UNCHANGED <<env, listeners, sdk, awaited, shuttingDown, signalled, background,
                   certificate, handlers, circuit>>

StopEnds ==
    /\ Atp /\ stopper = "draining"
    /\ stopper' = "done"
    /\ loops' = SurvivesDrain(loops) /\ reload' = SurvivesDrain(reload)
    /\ rotator' = FALSE
    /\ ready' = FALSE /\ health' = HealthStopped
    /\ UNCHANGED <<env, listeners, sdk, awaited, shuttingDown, signalled, due, dues,
                   handlers, circuit>>

-----------------------------------------------------------------------------
(* CertRotator and reload_ssl *)

CertDue ==
    /\ rotator /\ ~ due /\ dues < MaxDue
    /\ due' = TRUE /\ dues' = dues + 1
    /\ UNCHANGED <<env, listeners, sdk, stopping, background, reload, handlers, circuit>>

\* Mutant: the old listener is closed before the new one is asked for.
MutantRotate ==
    /\ rotator /\ due /\ ~ reload
    /\ due' = FALSE
    /\ reload' = (current \in Listening)
    /\ server' = Closed({current})
    /\ UNCHANGED <<env, current, task, sdk, stopping, background, dues, handlers, circuit>>

\* rotate_cert replaces the cached certificate, whatever becomes of the reload; a
\* server that is closed has no address to reload at.
Rotate ==
    /\ rotator /\ due /\ ~ reload
    /\ due' = FALSE
    /\ reload' = (current \in Listening)
    /\ UNCHANGED <<env, listeners, sdk, stopping, background, dues, handlers, circuit>>

\* The new listener replaces the old one.
ReloadBinds(new) ==
    /\ reload /\ MayBind /\ new \in Unused
    /\ reload' = FALSE
    /\ server' = [Closed({current}) EXCEPT ![new] = "listening"]
    /\ task' = Cancelled({current})
    /\ current' = new
    /\ UNCHANGED <<env, sdk, stopping, background, due, dues, handlers, circuit>>

\* The address is in use: the rotation loop logs the error.
ReloadFails ==
    /\ reload /\ ~ MayBind
    /\ reload' = FALSE
    /\ UNCHANGED <<env, listeners, sdk, stopping, background, due, dues, handlers, circuit>>

-----------------------------------------------------------------------------
(* SimpleATPServer: start, its serve_forever task, and stop; SyncATPServer *)

\* The SDK's stop is over.
Stopped == IF how = "sync" THEN "stopped" ELSE "done"

\* SyncATPServer.start has to run the loop itself, which it cannot while the thread does.
LoopIsFree == how = "sync" => stopper = "done" \/ current = 0

SdkStart(new) ==
    /\ Sdk /\ ~ running
    /\ LoopIsFree /\ MayBind /\ new \in Unused /\ \A g \in Unused : new <= g
    /\ running' = TRUE /\ loops' = TRUE
    /\ current' = new /\ taskref' = new
    /\ server' = [server EXCEPT ![new] = "listening"]
    /\ task' = [task EXCEPT ![new] = "serving"]
    /\ UNCHANGED <<env, stopping, ready, health, rotator, certificate, handlers, circuit>>

\* SyncATPServer.stop hands the loop the other stop, and does not ask what becomes of it.
SyncStop ==
    /\ how = "sync" /\ current # 0 /\ stopper \in {"none", "done"}
    /\ stopper' = "scheduled"
    /\ UNCHANGED <<env, listeners, sdk, awaited, shuttingDown, signalled, background,
                   certificate, handlers, circuit>>

\* The task is cancelled: it closes the server it serves.
SdkStop ==
    /\ \/ how = "sdk" /\ current # 0 /\ stopper \in {"none", "done"}
       \/ how = "sync" /\ stopper = "scheduled"
    /\ stopper' = "waiting" /\ awaited' = taskref
    /\ running' = FALSE
    /\ server' = Closed({taskref}) /\ task' = Cancelled({taskref})
    /\ UNCHANGED <<env, current, taskref, shuttingDown, signalled, background, certificate,
                   handlers, circuit>>

\* _serve_forever waits for the connections of its server, and says that it is over,
\* also when another start has been made since.
SdkTaskEnds(g) ==
    /\ Sdk /\ task[g] = "exiting" /\ IsClosed(g)
    /\ task' = [task EXCEPT ![g] = "over"]
    /\ running' = FALSE
    /\ UNCHANGED <<env, server, current, taskref, stopping, background, certificate,
                   handlers, circuit>>

\* stop goes on, and waits for the connections of the gossip server.
SdkStopGoesOn ==
    /\ Sdk /\ stopper = "waiting"
    /\ awaited # 0 => task[awaited] = "over"
    /\ stopper' = "finishing" /\ taskref' = 0
    /\ UNCHANGED <<env, listeners, running, awaited, shuttingDown, signalled, background,
                   certificate, handlers, circuit>>

\* It closes whichever server there is by now, and waits if that has connections.
SdkStopCloses ==
    /\ Sdk /\ stopper = "finishing"
    /\ loops' = FALSE
    /\ server' = Closed({current}) /\ task' = Cancelled({current})
    /\ awaited' = current
    /\ IF IsClosed(current) THEN stopper' = Stopped /\ current' = 0
       ELSE stopper' = "closing" /\ UNCHANGED current
    /\ UNCHANGED <<env, sdk, shuttingDown, signalled, ready, health, rotator, certificate,
                   handlers, circuit>>

SdkStopEnds ==
    /\ Sdk /\ stopper = "closing" /\ IsClosed(awaited)
    /\ stopper' = Stopped /\ current' = 0
    /\ UNCHANGED <<env, server, task, sdk, awaited, shuttingDown, signalled, background,
                   certificate, handlers, circuit>>

\* 0.3 s later, however far that stop is, the loop is stopped and closed: what runs on
\* it goes no further, and a listener that is still open stays bound.
SyncStopEnds ==
    /\ how = "sync" /\ stopper \notin {"none", "done"}
    /\ stopper' = "done"
    /\ server' = [g \in Gens |-> IF g \in Listening THEN "left" ELSE server[g]]
    /\ task' = [g \in Gens |-> IF task[g] = "none" THEN "none" ELSE "over"]
    /\ loops' = FALSE
    /\ conn' = [c \in Conns |-> Free] /\ asking' = 0
    /\ UNCHANGED <<env, current, sdk, awaited, shuttingDown, signalled, ready, health,
                   rotator, certificate, agents, active, sem, attempts, breaker>>

-----------------------------------------------------------------------------
(* QUICServer: start, and stop, which closes the endpoint and sleeps a second *)

QuicStart ==
    /\ how = "quic" /\ current = 0
    /\ current' = 1
    /\ server' = [server EXCEPT ![1] = "listening"]
    /\ UNCHANGED <<env, task, sdk, stopping, background, certificate, handlers, circuit>>

QuicStop ==
    /\ how = "quic" /\ current # 0 /\ stopper = "none"
    /\ stopper' = "waiting"
    /\ server' = Closed({current})
    /\ UNCHANGED <<env, current, task, sdk, awaited, shuttingDown, signalled, background,
                   certificate, handlers, circuit>>

QuicStopEnds ==
    /\ how = "quic" /\ stopper = "waiting"
    /\ stopper' = "done"
    /\ UNCHANGED <<env, listeners, sdk, awaited, shuttingDown, signalled, background,
                   certificate, handlers, circuit>>

-----------------------------------------------------------------------------
(* _on_connect *)

\* ConnectionLimiter.acquire, which does not suspend where a slot is free, and release.
Acquire == active < MaxConns /\ sem > 0 /\ active' = active + 1 /\ sem' = sem - 1
Release == active' = (IF active > 0 THEN active - 1 ELSE 0) /\ sem' = sem + 1

\* The HandshakeRateLimiter's lock is never contended.  A connection that is refused
\* leaves nothing behind.
Accept(c, g) ==
    /\ how # "quic"
    /\ conn[c] = Free /\ (\A d \in Conns : conn[d] = Free => c <= d) /\ g \in Listening
    /\ conn' = [conn EXCEPT ![c] = [at |-> "handshake", gen |-> g]]
    /\ IF Atp
       THEN /\ ~ shuttingDown /\ Acquire /\ attempts < MaxAttempts
            /\ attempts' = attempts + 1
       ELSE UNCHANGED <<active, sem, attempts>>
    /\ UNCHANGED <<env, listeners, sdk, stopping, background, certificate, agents, circuit>>

\* A stream of a QUIC connection: a QUICServer limits the attempts and nothing else.
QuicAccept(c) ==
    /\ how = "quic"
    /\ conn[c] = Free /\ (\A d \in Conns : conn[d] = Free => c <= d) /\ current \in Listening
    /\ attempts < MaxAttempts
    /\ attempts' = attempts + 1
    /\ conn' = [conn EXCEPT ![c] = [at |-> "handshake", gen |-> current]]
    /\ UNCHANGED <<env, listeners, sdk, stopping, background, certificate, agents, active,
                   sem, circuit>>

\* Mutant: a host with too many attempts is refused before the `try`.
MutantTooManyAttempts ==
    /\ Atp /\ Listening # {} /\ ~ shuttingDown
    /\ Acquire /\ attempts >= MaxAttempts
    /\ UNCHANGED <<env, listeners, sdk, stopping, background, certificate, conn, agents,
                   attempts, circuit>>

\* A host with too many attempts is refused: the slot it was given is released.
TooManyAttempts ==
    /\ Atp /\ Listening # {} /\ ~ shuttingDown
    /\ active < MaxConns /\ sem > 0 /\ attempts >= MaxAttempts
    /\ UNCHANGED vars

\* Attempts grow older than the window, the oldest first.
WindowPasses ==
    /\ attempts > 0
    /\ attempts' = attempts - 1
    /\ UNCHANGED <<env, listeners, sdk, stopping, background, certificate, conn, agents,
                   active, sem, circuit>>

\* The lists of the server, of its HeartbeatManager and of its PeerDiscovery.
Tracked(c) == agents \cup {c}
Untracked(c) == agents \ {c}

HandshakeOk(c) ==
    /\ conn[c].at = "handshake"
    /\ conn' = [conn EXCEPT ![c].at = "serving"]
    /\ agents' = IF Atp THEN Tracked(c) ELSE agents
    /\ attempts' = IF Sdk THEN attempts ELSE 0
    /\ UNCHANGED <<env, listeners, sdk, stopping, background, certificate, active, sem, circuit>>

\* The handshake fails, or handle_task_loop ends: the agent is taken off the lists
\* and close_async awaits the end of the TLS connection.
HandlerEnds(c) ==
    /\ conn[c].at \in {"handshake", "serving"}
    /\ conn' = [conn EXCEPT ![c].at = "closing"]
    /\ agents' = Untracked(c)
    /\ UNCHANGED <<env, listeners, sdk, stopping, background, certificate, active, sem,
                   attempts, circuit>>

\* Mutant: the slot is released once more, where the agent is closed.
MutantConnectionClosed(c) ==
    /\ conn[c].at = "closing"
    /\ conn' = [conn EXCEPT ![c] = Free]
    /\ active' = IF active > 1 THEN active - 2 ELSE 0
    /\ sem' = sem + 2
    /\ UNCHANGED <<env, listeners, sdk, stopping, background, certificate, agents, attempts,
                   circuit>>

\* release, in the handler's `finally`.
ConnectionClosed(c) ==
    /\ conn[c].at = "closing"
    /\ conn' = [conn EXCEPT ![c] = Free]
    /\ IF Atp THEN Release ELSE UNCHANGED <<active, sem>>
    /\ UNCHANGED <<env, listeners, sdk, stopping, background, certificate, agents, attempts,
                   circuit>>

-----------------------------------------------------------------------------
(* deepseek_chat tasks, and the breaker they share *)

\* Mutant: the count begins anew where the circuit is tried again.
MutantMaybeTransition(b) ==
    {b} \cup {[state |-> "HALF_OPEN", failures |-> 0] : s \in {"OPEN"} \cap {b.state}}

\* _maybe_transition: OPEN for longer than reset_s becomes HALF_OPEN.
MaybeTransition(b) == {b} \cup {[b EXCEPT !.state = "HALF_OPEN"] : s \in {"OPEN"} \cap {b.state}}

\* allow, once the transition is made.
Allows(b) == b.state # "OPEN"

\* record_failure.  Nothing but a success in HALF_OPEN resets the count, and
\* call_deepseek never records a success.
RecordFailure(b) ==
    [failures |-> b.failures + 1,
     state |-> IF b.failures + 1 >= Threshold THEN "OPEN" ELSE b.state]

\* ATPServer._default_task_handler asks the breaker first; the handlers of the other
\* servers do not.
AskDeepseek ==
    /\ asking < MaxAsking /\ \E c \in Conns : conn[c].at = "serving"
    /\ breaker' \in IF Atp THEN MaybeTransition(breaker) ELSE {breaker}
    /\ Atp => Allows(breaker')
    /\ asking' = asking + 1
    /\ UNCHANGED <<env, listeners, sdk, stopping, background, certificate, handlers>>

\* An answer, or an HTTP error, which is not a failure to the breaker.
DeepseekAnswers ==
    /\ asking > 0
    /\ asking' = asking - 1
    /\ UNCHANGED <<env, listeners, sdk, stopping, background, certificate, handlers, breaker>>

\* An exception, or no API key.
DeepseekFails ==
    /\ asking > 0 /\ breaker.failures < MaxFailures
    /\ asking' = asking - 1
    /\ breaker' = RecordFailure(breaker)
    /\ UNCHANGED <<env, listeners, sdk, stopping, background, certificate, handlers>>

-----------------------------------------------------------------------------
Next ==
    \/ Start \/ Signal \/ (\E bound \in BOOLEAN : HealthStarts(bound))
    \/ MainExits \/ MainEnds \/ StopCalled \/ StopWaited \/ StopEnds
    \/ CertDue \/ Rotate \/ ReloadFails \/ \E new \in Gens : ReloadBinds(new)
    \/ QuicStart \/ QuicStop \/ QuicStopEnds
    \/ SyncStop \/ SyncStopEnds
    \/ SdkStop \/ SdkStopGoesOn \/ SdkStopCloses \/ SdkStopEnds
    \/ \E g \in Gens : SdkStart(g) \/ SdkTaskEnds(g)
    \/ TooManyAttempts \/ WindowPasses
    \/ \E c \in Conns : \/ HandshakeOk(c) \/ HandlerEnds(c) \/ ConnectionClosed(c) \/ QuicAccept(c)
                         \/ \E g \in Gens : Accept(c, g)
    \/ AskDeepseek \/ DeepseekAnswers \/ DeepseekFails

Spec == Init /\ [][Next]_vars

\* The event loop runs what is ready, timeouts expire, and a connection that is
\* being closed ends.  Nothing else has to happen: clients may stay for ever.
FairSpec ==
    /\ Spec
    /\ WF_vars(MainExits) /\ WF_vars(MainEnds)
    /\ WF_vars(StopWaited) /\ WF_vars(StopEnds)
    /\ WF_vars(SdkStopGoesOn) /\ WF_vars(SdkStopCloses) /\ WF_vars(SdkStopEnds)
    /\ WF_vars(SyncStopEnds) /\ WF_vars(QuicStopEnds)
    /\ \A g \in Gens : WF_vars(SdkTaskEnds(g))
    /\ \A c \in Conns : WF_vars(ConnectionClosed(c))

-----------------------------------------------------------------------------
(* Properties *)

\* The limiter's counter and its semaphore agree with each other and with the
\* connections: every path through _on_connect releases the slot it acquired, once.
SlotsMatch ==
    Atp => active = Cardinality(OpenConns) /\ active + sem = MaxConns

\* Until somebody stops the server, it listens, whatever becomes of a rotation:
\* reload_ssl closes the old listener only when it has a new one.
StaysReachable ==
    Atp /\ current # 0 /\ stopper = "none" => current \in Listening

\* stop() returns though clients stay, whatever the kind of server; only that of a
\* SimpleATPServer, as against the others, may wait for the last connection.
StopReturns ==
    stopper \notin {"none", "done"} ~>
        stopper = "done" \/ (how = "sdk" /\ OpenConns # {})

\* A circuit that has opened, and lets calls through to try the model again, is opened by
\* the first of them that fails, and by one that was let in before it opened and fails
\* only now; a failure that comes while it is open leaves it so.  record_failure asks
\* for Threshold failures in every state, so that this rests on a count that outlasts
\* the transitions and the calls that are answered.
FailureReopens ==
    [][breaker.state # "CLOSED" /\ breaker'.failures > breaker.failures
         => breaker'.state = "OPEN"]_vars

\* "Handle SIGTERM/SIGINT: drain in-flight tasks, close connections": a signal ends
\* the server when its connections are gone.
SignalStops == signalled ~> task[1] = "over" \/ OpenConns # {}
=============================================================================

----------------------------- MODULE Lifecycle -----------------------------
(***************************************************************************)
(* The composition root: run() of main.go from the first configuration     *)
(* check to the last deferred call.  Start-up may fail at every step, a    *)
(* signal may come at any time, a server or a consumer may fail on its own; *)
(* requests and deliveries are in flight all the while.  A request takes   *)
(* connections from the pool and gives them back; what a delivery does with *)
(* them is over before the pool is looked at again.  Time is counted down  *)
(* in the timers of requests and of the two bounded waits.                 *)
(***************************************************************************)
EXTENDS Naturals, Sequences

CONSTANTS
    Requests,        \* slots for HTTP requests in flight
    Idle,            \* an unused slot, a timer that is not running
    RequestTimeout,  \* TimeoutMiddleware, 30 s
    ShutdownTimeout, \* the deadline of shutdownCtx, 10 s
    DrainTimeout     \* the deadline of drainCtx, 30 s

ASSUME TimeoutAssumption ==
    /\ RequestTimeout \in Nat /\ ShutdownTimeout \in Nat /\ DrainTimeout \in Nat
    /\ RequestTimeout < ShutdownTimeout + DrainTimeout
    /\ Idle \notin Nat

\* The goroutines of the errgroup besides the one that shuts down.
Servers == {"http", "metrics"}
Consumers == {"offboarding", "member_removal"}
Sweepers == {"offboarding_cleanup", "member_removal_cleanup"}
Workers == Consumers \cup Sweepers
Tasks == Servers \cup Workers

\* What run() does before it starts the errgroup, in order; each may fail.
StartSteps == <<"config", "logger", "sqs_config", "migrations", "pool",
                "metrics", "offboarding_consumer", "concurrency",
                "member_removal_consumer">>

\* The steps of the goroutine that shuts down.
ShutdownSteps == <<"wait", "http", "metrics", "offboarding",
                   "member_removal", "done">>

VARIABLES
    main,       \* where run() is
    step,       \* the index of the start step that comes next
    pool,       \* the Postgres pool
    valkey,     \* the Valkey client
    task,       \* the goroutines: not yet scheduled, running, returned
    busy,       \* the workers that are in the middle of a delivery or a sweep
    request,    \* the time each request in flight has left
    holding,    \* the requests that have a connection of the pool
    closed,     \* the servers whose Shutdown was called
    down,       \* the index of the shutdown step
    timer,      \* the time shutdownCtx, then drainCtx, has left
    signalled,  \* SIGTERM or SIGINT came: baseCtx is cancelled
    err,        \* run() or the group has an error to return
    failed      \* history: some step, server or consumer failed

vars == <<main, step, pool, valkey, task, busy, request, holding, closed, down,
          timer, signalled, err, failed>>

process == <<main, step, pool, valkey>>
group   == <<task, closed, down>>
work    == <<busy, request, holding>>
stop    == <<signalled, err, failed>>

Init ==
    /\ main = "starting"
    /\ step = 1
    /\ pool = "none" /\ valkey = "none"
    /\ task = [t \in Tasks |-> "none"]
    /\ busy = {}
    /\ request = [r \in Requests |-> Idle]
    /\ holding = {}
    /\ closed = {}
    /\ down = 1
    /\ timer = Idle
    /\ signalled = FALSE /\ err = FALSE /\ failed = FALSE

\* Mutant: the group does not cancel a context when one of its tasks fails.
Cancelled_SignalOnly == signalled

\* gctx is done: its parent was cancelled, or a task returned an error.
Cancelled == signalled \/ err

NoRequests == \A r \in Requests : request[r] = Idle

-----------------------------------------------------------------------------
\* A start step succeeds.  The pool step registers the deferred calls of the
\* pool and of the Valkey client, which cannot fail to be built; the last one
\* starts the goroutines.
StartStep ==
    /\ main = "starting"
    /\ step' = step + 1
    /\ IF StartSteps[step] = "pool"
       THEN pool' = "open" /\ valkey' = "open"
       ELSE UNCHANGED <<pool, valkey>>
    /\ IF step = Len(StartSteps)
       THEN main' = "waiting" /\ task' = [t \in Tasks |-> "ready"]
       ELSE UNCHANGED <<main, task>>
    /\ UNCHANGED <<work, closed, down, timer, stop>>

\* Mutant: start-up ends the process where it fails, and no deferred call runs.
StartFail_Fatal ==
    /\ main = "starting"
    /\ main' = "exited"
    /\ err' = TRUE /\ failed' = TRUE
    /\ UNCHANGED <<step, pool, valkey, group, work, timer, signalled>>

\* A start step fails: run() returns the error through its deferred calls.
StartFail ==
    /\ main = "starting"
    /\ main' = "returning"
    /\ err' = TRUE /\ failed' = TRUE
    /\ UNCHANGED <<step, pool, valkey, group, work, timer, signalled>>

\* Before signal.NotifyContext a signal ends the process at once.
Signal ==
    /\ ~signalled
    /\ main = "starting" => step > 3
    /\ main # "exited"
    /\ signalled' = TRUE
    /\ UNCHANGED <<process, group, work, timer, err, failed>>

-----------------------------------------------------------------------------
\* A goroutine begins.  ListenAndServe of a server whose Shutdown has been
\* called returns ErrServerClosed, which is no error.
Begin(t) ==
    /\ task[t] = "ready"
    /\ task' = [task EXCEPT ![t] = IF t \in closed THEN "done" ELSE "running"]
    /\ UNCHANGED <<process, closed, down, work, timer, stop>>

\* Mutant: every error of ListenAndServe is taken for ErrServerClosed.
Fail_Swallowed(t) ==
    /\ t \in Servers \cup Consumers
    /\ task[t] = "running" /\ t \notin busy \cup closed
    /\ task' = [task EXCEPT ![t] = "done"]
    /\ failed' = TRUE
    /\ err' = (err \/ t \in Consumers)
    /\ UNCHANGED <<process, closed, down, work, timer, signalled>>

\* A server cannot listen, or the receive loop of a consumer gives up: the
\* task returns an error and the group cancels gctx.
Fail(t) ==
    /\ t \in Servers \cup Consumers
    /\ task[t] = "running" /\ t \notin busy \cup closed
    /\ task' = [task EXCEPT ![t] = "done"]
    /\ failed' = TRUE
    /\ err' = TRUE
    /\ UNCHANGED <<process, closed, down, work, timer, signalled>>

\* ListenAndServe returns as soon as Shutdown has closed the listeners.
ServerReturns(t) ==
    /\ t \in Servers /\ t \in closed
    /\ task[t] = "running"
    /\ task' = [task EXCEPT ![t] = "done"]
    /\ UNCHANGED <<process, closed, down, work, timer, stop>>

\* Mutant: a consumer returns on cancellation and leaves its handlers behind.
WorkerReturns_Detached(t) ==
    /\ t \in Workers
    /\ task[t] = "running" /\ Cancelled
    /\ task' = [task EXCEPT ![t] = "done"]
    /\ UNCHANGED <<process, closed, down, work, timer, stop>>

\* Start(gctx) and runProcessedEventsCleanup return once gctx is done and
\* what they are doing is finished.
WorkerReturns(t) ==
    /\ t \in Workers
    /\ task[t] = "running" /\ t \notin busy /\ Cancelled
    /\ task' = [task EXCEPT ![t] = "done"]
    /\ UNCHANGED <<process, closed, down, work, timer, stop>>

\* A consumer takes a delivery, a cleanup loop a tick.  The select of a loop
\* may take the tick when gctx is done too.
Take(t) ==
    /\ t \in Workers \ busy
    /\ task[t] = "running"
    /\ t \in Consumers => ~Cancelled
    /\ busy' = busy \cup {t}
    /\ UNCHANGED <<process, group, request, holding, timer, stop>>

Finish(t) ==
    /\ t \in busy
    /\ busy' = busy \ {t}
    /\ UNCHANGED <<process, group, request, holding, timer, stop>>

\* Mutant: a request may take as long as the server's WriteTimeout.
Accept_WriteTimeout(r) ==
    /\ task["http"] = "running" /\ "http" \notin closed
    /\ request[r] = Idle
    /\ request' = [request EXCEPT ![r] = RequestTimeout + 1]
    /\ UNCHANGED <<process, group, busy, holding, timer, stop>>

\* The server accepts a request; TimeoutMiddleware bounds it.
Accept(r) ==
    /\ task["http"] = "running" /\ "http" \notin closed
    /\ request[r] = Idle
    /\ request' = [request EXCEPT ![r] = RequestTimeout]
    /\ UNCHANGED <<process, group, busy, holding, timer, stop>>

\* The handler returns, with whatever its calls gave it: a transaction that
\* was refused because the pool is closed makes it 503.
Respond(r) ==
    /\ request[r] # Idle /\ r \notin holding
    /\ request' = [request EXCEPT ![r] = Idle]
    /\ UNCHANGED <<process, group, busy, holding, timer, stop>>

\* A request within its time opens a transaction: it gets a connection unless
\* the pool is closed (ErrClosedPool).  Between its transactions, in Exists or
\* in a Valkey call, it has none.
OpenTx(r) ==
    /\ request[r] \notin {Idle, 0} /\ r \notin holding
    /\ pool = "open"
    /\ holding' = holding \cup {r}
    /\ UNCHANGED <<process, group, busy, request, timer, stop>>

\* COMMIT or ROLLBACK gives the connection back.
EndTx(r) ==
    /\ r \in holding
    /\ holding' = holding \ {r}
    /\ UNCHANGED <<process, group, busy, request, timer, stop>>

\* Time passes; a request is over when its time is.
Tick ==
    /\ timer # Idle \/ ~NoRequests
    /\ \A r \in Requests : request[r] # 0
    /\ timer # 0
    /\ request' = [r \in Requests |->
                    IF request[r] = Idle THEN Idle ELSE request[r] - 1]
    /\ timer' = IF timer = Idle THEN Idle ELSE timer - 1
    /\ UNCHANGED <<process, group, busy, holding, stop>>

-----------------------------------------------------------------------------
\* The shutdown goroutine: gctx is done, Shutdown closes the listeners.
ShutdownBegins ==
    /\ main = "waiting"
    /\ ShutdownSteps[down] = "wait"
    /\ Cancelled
    /\ down' = down + 1
    /\ closed' = closed \cup {"http"}
    /\ timer' = ShutdownTimeout
    /\ UNCHANGED <<process, task, work, stop>>

\* Mutant: Close in place of Shutdown, which waits for no request.
HttpDown_Close ==
    /\ ShutdownSteps[down] = "http"
    /\ down' = down + 1
    /\ closed' = closed \cup {"metrics"}
    /\ UNCHANGED <<process, task, work, timer, stop>>

\* httpServer.Shutdown returns: no request is left, or shutdownCtx is over.
\* Shutdown of the metrics server is called next with the same context.
HttpDown ==
    /\ ShutdownSteps[down] = "http"
    /\ NoRequests \/ timer = 0
    /\ down' = down + 1
    /\ closed' = closed \cup {"metrics"}
    /\ UNCHANGED <<process, task, work, timer, stop>>

MetricsDown ==
    /\ ShutdownSteps[down] = "metrics"
    /\ down' = down + 1
    /\ timer' = Idle
    /\ UNCHANGED <<process, task, closed, work, stop>>

\* Stop of one consumer, then of the other, waits for the delivery in flight.
ConsumerDown ==
    /\ ShutdownSteps[down] \in Consumers
    /\ ShutdownSteps[down] \notin busy
    /\ down' = down + 1
    /\ UNCHANGED <<process, task, closed, work, timer, stop>>

-----------------------------------------------------------------------------
\* group.Wait returns when every goroutine has.
GroupReturns ==
    /\ main = "waiting"
    /\ \A t \in Tasks : task[t] = "done"
    /\ ShutdownSteps[down] = "done"
    /\ main' = "returning"
    /\ UNCHANGED <<step, pool, valkey, group, work, timer, stop>>

\* The deferred calls, last registered first: the Valkey client.
CloseValkey ==
    /\ main = "returning"
    /\ main' = "draining"
    /\ valkey' = IF valkey = "open" THEN "closed" ELSE valkey
    /\ timer' = IF pool = "open" THEN DrainTimeout ELSE Idle
    /\ UNCHANGED <<step, pool, group, work, stop>>

\* Mutant: the pool is closed and not drained.
DrainAndClose_CloseOnly ==
    /\ main = "draining"
    /\ main' = "flushing"
    /\ pool' = IF pool = "open" THEN "closed" ELSE pool
    /\ timer' = Idle
    /\ UNCHANGED <<step, valkey, group, work, stop>>

\* DrainAndClose waits until every connection is back in the pool, or for
\* drainCtx; a request that has none at the moment does not hold it up, and no
\* worker is left (NoWorkBehindGroup).  The deferred Close after it finds the
\* pool closed.
DrainAndClose ==
    /\ main = "draining"
    /\ pool = "open" => holding = {} \/ timer = 0
    /\ main' = "flushing"
    /\ pool' = IF pool = "open" THEN "closed" ELSE pool
    /\ timer' = Idle
    /\ UNCHANGED <<step, valkey, group, work, stop>>

\* The telemetry is flushed and main returns: the process is gone, and with it
\* whatever was in flight.
Exit ==
    /\ main = "flushing"
    /\ main' = "exited"
    /\ request' = [r \in Requests |-> Idle]
    /\ busy' = {} /\ holding' = {}
    /\ UNCHANGED <<step, pool, valkey, group, timer, stop>>

-----------------------------------------------------------------------------
TaskSteps(t) ==
    Begin(t) \/ ServerReturns(t) \/ WorkerReturns(t) \/ Finish(t)

ShutdownGoroutine == ShutdownBegins \/ HttpDown \/ MetricsDown \/ ConsumerDown

Run ==
    \/ StartStep \/ StartFail \/ GroupReturns
    \/ CloseValkey \/ DrainAndClose \/ Exit

Next ==
    \/ Run
    \/ ShutdownGoroutine
    \/ \E t \in Tasks : TaskSteps(t) \/ Take(t) \/ Fail(t)
    \/ \E r \in Requests : Accept(r) \/ OpenTx(r) \/ EndTx(r) \/ Respond(r)
    \/ Signal
    \/ Tick

\* The goroutines run on, transactions, requests and deliveries come to an end,
\* and time passes.  Nothing has to arrive, fail or be signalled.  A loop whose
\* tick and context are both ready does not choose the tick for ever: select
\* picks one at random.
Fairness ==
    /\ WF_vars(Run)
    /\ WF_vars(ShutdownGoroutine)
    /\ \A t \in Tasks : WF_vars(TaskSteps(t))
    /\ \A t \in Sweepers : SF_vars(WorkerReturns(t))
    /\ \A r \in Requests : WF_vars(EndTx(r)) /\ WF_vars(Respond(r))
    /\ WF_vars(Tick)

Spec == Init /\ [][Next]_vars

FairSpec == Spec /\ Fairness

-----------------------------------------------------------------------------
\* The variables have their types.
LcTypeOK ==
    /\ main \in {"starting", "waiting", "returning", "draining", "flushing",
                "exited"}
    /\ step \in 1..(Len(StartSteps) + 1)
    /\ pool \in {"none", "open", "closed"}
    /\ valkey \in {"none", "open", "closed"}
    /\ task \in [Tasks -> {"none", "ready", "running", "done"}]
    /\ busy \subseteq Workers
    /\ request \in [Requests -> 0..RequestTimeout \cup {Idle}]
    /\ holding \subseteq Requests
    /\ closed \subseteq Servers
    /\ down \in 1..Len(ShutdownSteps)
    /\ timer \in 0..(ShutdownTimeout + DrainTimeout) \cup {Idle}
    /\ signalled \in BOOLEAN /\ err \in BOOLEAN /\ failed \in BOOLEAN

\* The pool is closed under nobody: no transaction is cut off by the end of the
\* process, although Shutdown gives up after 10 s on requests that may take 30 s
\* (the order of the deferred calls of run(), and the three timeouts).
PoolOutlivesConnections == pool = "closed" => holding = {} /\ busy = {}

\* A request that meets a closed Valkey client or a closed pool, or that the
\* exit cuts off, had been running for as long as Shutdown waits: one that takes
\* less than that is answered with everything still open (Shutdown comes before
\* group.Wait returns, and the deferred calls after it).
OnlySlowRequestsCutOff ==
    main \in {"returning", "draining", "flushing"} =>
        \A r \in Requests :
            request[r] # Idle => request[r] + ShutdownTimeout <= RequestTimeout

\* When the deferred calls begin, no delivery and no sweep is left: only
\* requests can still be using the pool or the cache (group.Wait of main.go).
NoWorkBehindGroup == main \in {"returning", "draining", "flushing"} => busy = {}

\* Wherever start-up stops, what it opened is closed when the process ends
\* (the deferred calls registered right after NewPool and NewClient).
NothingLeftOpen == main = "exited" => pool # "open" /\ valkey # "open"

\* The process exits with status 0 only after a signal, and not if anything
\* failed on its own (the errors of the errgroup's goroutines and of main).
CleanExitOnSignal == main = "exited" /\ ~err => signalled /\ ~failed

\* A signal, or the failure of any one part, ends the whole process: it does
\* not run on with a server or a consumer missing (errgroup.WithContext and
\* the goroutine that waits for gctx).
StopsAsAWhole == (signalled \/ failed) ~> (main = "exited")
=============================================================================

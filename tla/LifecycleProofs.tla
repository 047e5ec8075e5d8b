-------------------------- MODULE LifecycleProofs --------------------------
(***************************************************************************)
(* For any number of requests in flight and any timeouts with              *)
(* RequestTimeout < ShutdownTimeout + DrainTimeout: the process ends with  *)
(* nothing open, no worker and no transaction outlives what it uses, only  *)
(* slow requests are cut off, and the exit status is honest.               *)
(***************************************************************************)
EXTENDS Lifecycle, TLAPS

\* The process as it is while run() has not started the goroutines.
Unstarted ==
    /\ \A t \in Tasks : task[t] = "none"
    /\ busy = {} /\ NoRequests /\ down = 1

\* ... and once every goroutine has returned.
Ended ==
    /\ \A t \in Tasks : task[t] = "done"
    /\ busy = {} /\ down = Len(ShutdownSteps)

\* A request in flight has used up all but b of the ShutdownTimeout.
Waited(b) ==
    \A r \in Requests :
        request[r] # Idle => request[r] + ShutdownTimeout <= RequestTimeout + b

\* Where run() is and what it left behind.
MainOK ==
    /\ main = "starting" => step <= Len(StartSteps) /\ Unstarted
    /\ main \in {"returning", "draining", "flushing", "exited"} =>
          (Unstarted /\ err) \/ (Ended /\ (signalled \/ err))
    /\ main \in {"draining", "flushing", "exited"} => valkey # "open"
    /\ main \in {"flushing", "exited"} => pool # "open"
    /\ pool = "closed" => main \in {"flushing", "exited"} /\ holding = {}
    /\ failed => err

\* Only a running worker is busy.
BusyOK == \A t \in busy : task[t] = "running"

\* Only a request in flight has a connection.
HoldOK == \A r \in holding : request[r] # Idle

\* Once the shutdown goroutine goes on the listener is closed, and the
\* requests that are left have waited with it.
DownOK ==
    /\ down >= 2 => "http" \in closed /\ (signalled \/ err)
    /\ down = 2 => timer # Idle /\ Waited(timer)
    /\ down > 2 => Waited(0)

\* While the pool drains, drainCtx has more time left than any request.
DrainOK ==
    main = "draining" /\ pool = "open" =>
        /\ timer # Idle
        /\ \A r \in Requests : request[r] # Idle => request[r] < timer

LcInv == LcTypeOK /\ MainOK /\ BusyOK /\ HoldOK /\ DownOK /\ DrainOK

-----------------------------------------------------------------------------
\* The lengths of the two programs of run(), and the shutdown steps.
LEMMA Programs ==
    /\ Len(StartSteps) = 9
    /\ Len(ShutdownSteps) = 6
    /\ ShutdownSteps[1] = "wait" /\ ShutdownSteps[2] = "http"
    /\ ShutdownSteps[3] = "metrics" /\ ShutdownSteps[4] = "offboarding"
    /\ ShutdownSteps[5] = "member_removal" /\ ShutdownSteps[6] = "done"
BY DEF StartSteps, ShutdownSteps

\* The invariant holds when the process starts.
LEMMA LcInitInv == Init => LcInv
<1> SUFFICES ASSUME Init PROVE LcInv
    OBVIOUS
<1>1. LcTypeOK
    <2>1. step \in 1..(Len(StartSteps) + 1) /\ down \in 1..Len(ShutdownSteps)
        BY Programs DEF Init
    <2>2. /\ task \in [Tasks -> {"none", "ready", "running", "done"}]
          /\ request \in [Requests -> 0..RequestTimeout \cup {Idle}]
        BY DEF Init
    <2> QED
        BY <2>1, <2>2, Zenon DEF Init, LcTypeOK
<1>2. MainOK
    BY Programs DEF Init, MainOK, Unstarted, NoRequests
<1>3. BusyOK /\ HoldOK /\ DownOK /\ DrainOK
    BY DEF Init, BusyOK, HoldOK, DownOK, DrainOK
<1> QED
    BY <1>1, <1>2, <1>3 DEF LcInv

\* The invariant names no other variable.
LEMMA LcStutter == LcInv /\ UNCHANGED vars => LcInv'
BY DEF LcInv, LcTypeOK, MainOK, BusyOK, HoldOK, DownOK, DrainOK, Unstarted,
       Ended, Waited, NoRequests, vars

\* Every step of run() preserves the invariant.  The pool is closed last:
\* what still runs then is a request that has waited ShutdownTimeout, and
\* drainCtx gives it more than it has left.
LEMMA RunKeepsInv == LcInv /\ Run => LcInv'
<1> SUFFICES ASSUME LcInv, Run PROVE LcInv'
    OBVIOUS
<1> USE TimeoutAssumption, Programs
<1>1. CASE StartStep
    BY <1>1 DEF StartStep, LcInv, LcTypeOK, MainOK, BusyOK, HoldOK, DownOK,
        DrainOK, Unstarted, Ended, Waited, NoRequests, work, stop, group, process
<1>2. CASE StartFail
    BY <1>2 DEF StartFail, LcInv, LcTypeOK, MainOK, BusyOK, HoldOK, DownOK,
        DrainOK, Unstarted, Ended, Waited, NoRequests, work, stop, group, process
<1>3. CASE GroupReturns
    <2> USE <1>3 DEF GroupReturns, LcInv, work, stop, group
    <2>1. LcTypeOK'
        BY DEF LcTypeOK
    <2>2. down = 6
        BY DEF LcTypeOK
    <2>3. busy = {}
        BY DEF LcTypeOK, BusyOK, Tasks
    <2>4. Ended'
        BY <2>2, <2>3 DEF Ended
    <2>5. MainOK' /\ BusyOK' /\ HoldOK' /\ DrainOK'
        BY <2>2, <2>4 DEF MainOK, BusyOK, HoldOK, DownOK, DrainOK
    <2>6. DownOK'
        BY DEF DownOK, Waited
    <2> QED
        BY <2>1, <2>5, <2>6
<1>4. CASE CloseValkey
    <2> USE <1>4 DEF CloseValkey, LcInv, work, stop, group
    <2>1. LcTypeOK'
        BY DEF LcTypeOK
    <2>2. MainOK' /\ BusyOK' /\ HoldOK'
        BY DEF LcTypeOK, MainOK, BusyOK, HoldOK, Unstarted, Ended, NoRequests
    <2>3. Unstarted \/ Ended
        BY DEF MainOK
    <2>4. DownOK'
        BY <2>3 DEF LcTypeOK, DownOK, Unstarted, Ended, Waited
    <2>5. DrainOK'
        BY <2>3 DEF LcTypeOK, DownOK, DrainOK, Unstarted, Ended, Waited, NoRequests
    <2> QED
        BY <2>1, <2>2, <2>4, <2>5
<1>5. CASE DrainAndClose
    <2>1. pool = "open" => holding = {}
        BY <1>5 DEF DrainAndClose, LcInv, LcTypeOK, HoldOK, DrainOK
    <2> QED
        BY <1>5, <2>1 DEF DrainAndClose, LcInv, LcTypeOK, MainOK, BusyOK, HoldOK,
            DownOK, DrainOK, Unstarted, Ended, Waited, NoRequests, work, stop, group
<1>6. CASE Exit
    BY <1>6 DEF Exit, LcInv, LcTypeOK, MainOK, BusyOK, HoldOK, DownOK,
        DrainOK, Unstarted, Ended, Waited, NoRequests, work, stop, group, process
<1> QED
    BY <1>1, <1>2, <1>3, <1>4, <1>5, <1>6 DEF Run

\* Every step of the shutdown goroutine preserves it.
LEMMA ShutdownKeepsInv == LcInv /\ ShutdownGoroutine => LcInv'
<1> SUFFICES ASSUME LcInv, ShutdownGoroutine PROVE LcInv'
    OBVIOUS
<1> USE TimeoutAssumption, Programs
<1>1. CASE ShutdownBegins
    BY <1>1 DEF ShutdownBegins, LcInv, LcTypeOK, MainOK, BusyOK, HoldOK, DownOK,
        DrainOK, Unstarted, Ended, Waited, NoRequests, work, stop, group, process, Cancelled,
        Servers
<1>2. CASE HttpDown
    BY <1>2 DEF HttpDown, LcInv, LcTypeOK, MainOK, BusyOK, HoldOK, DownOK,
        DrainOK, Unstarted, Ended, Waited, NoRequests, work, stop, group, process, Servers
<1>3. CASE MetricsDown
    BY <1>3 DEF MetricsDown, LcInv, LcTypeOK, MainOK, BusyOK, HoldOK, DownOK,
        DrainOK, Unstarted, Ended, Waited, NoRequests, work, stop, group, process
<1>4. CASE ConsumerDown
    BY <1>4 DEF ConsumerDown, LcInv, LcTypeOK, MainOK, BusyOK, HoldOK, DownOK,
        DrainOK, Unstarted, Ended, Waited, NoRequests, work, stop, group, process, Consumers
<1> QED
    BY <1>1, <1>2, <1>3, <1>4 DEF ShutdownGoroutine

\* Every step of a server, a consumer or a cleanup loop preserves it.
LEMMA TaskKeepsInv ==
    ASSUME NEW t \in Tasks, LcInv, TaskSteps(t) \/ Take(t) \/ Fail(t)
    PROVE  LcInv'
<1> USE TimeoutAssumption, Programs
<1>1. CASE Begin(t)
    BY <1>1 DEF Begin, LcInv, LcTypeOK, MainOK, BusyOK, HoldOK, DownOK,
        DrainOK, Unstarted, Ended, Waited, NoRequests, work, stop, group, process
<1>2. CASE ServerReturns(t)
    BY <1>2 DEF ServerReturns, LcInv, LcTypeOK, MainOK, BusyOK, HoldOK, DownOK,
        DrainOK, Unstarted, Ended, Waited, NoRequests, work, stop, group, process,
        Servers, Workers, Consumers, Sweepers
<1>3. CASE WorkerReturns(t)
    BY <1>3 DEF WorkerReturns, LcInv, LcTypeOK, MainOK, BusyOK, HoldOK, DownOK,
        DrainOK, Unstarted, Ended, Waited, NoRequests, work, stop, group, process
<1>4. CASE Finish(t)
    BY <1>4 DEF Finish, LcInv, LcTypeOK, MainOK, BusyOK, HoldOK, DownOK,
        DrainOK, Unstarted, Ended, Waited, NoRequests, work, stop, group, process
<1>5. CASE Take(t)
    BY <1>5 DEF Take, LcInv, LcTypeOK, MainOK, BusyOK, HoldOK, DownOK,
        DrainOK, Unstarted, Ended, Waited, NoRequests, work, stop, group, process
<1>6. CASE Fail(t)
    BY <1>6 DEF Fail, LcInv, LcTypeOK, MainOK, BusyOK, HoldOK, DownOK,
        DrainOK, Unstarted, Ended, Waited, NoRequests, work, stop, group, process
<1> QED
    BY <1>1, <1>2, <1>3, <1>4, <1>5, <1>6 DEF TaskSteps

\* So do requests: none begins once the listener is closed, and none gets a
\* connection once the pool is.
LEMMA RequestKeepsInv ==
    ASSUME NEW r \in Requests, LcInv, Accept(r) \/ OpenTx(r) \/ EndTx(r) \/ Respond(r)
    PROVE  LcInv'
<1> USE TimeoutAssumption, Programs
<1>0. "http" \in Tasks
    BY DEF Tasks, Servers
<1>1. CASE Accept(r)
    BY <1>0, <1>1 DEF Accept, LcInv, LcTypeOK, MainOK, BusyOK, HoldOK, DownOK,
        DrainOK, Unstarted, Ended, Waited, NoRequests, work, stop, group, process
<1>2. CASE OpenTx(r)
    BY <1>2 DEF OpenTx, LcInv, LcTypeOK, MainOK, BusyOK, HoldOK, DownOK,
        DrainOK, Unstarted, Ended, Waited, NoRequests, work, stop, group, process
<1>3. CASE EndTx(r)
    BY <1>3 DEF EndTx, LcInv, LcTypeOK, MainOK, BusyOK, HoldOK, DownOK,
        DrainOK, Unstarted, Ended, Waited, NoRequests, work, stop, group, process
<1>4. CASE Respond(r)
    BY <1>4 DEF Respond, LcInv, LcTypeOK, MainOK, BusyOK, HoldOK, DownOK,
        DrainOK, Unstarted, Ended, Waited, NoRequests, work, stop, group, process
<1> QED
    BY <1>1, <1>2, <1>3, <1>4

\* A signal disturbs nothing.
LEMMA SignalKeepsInv == LcInv /\ Signal => LcInv'
BY DEF Signal, LcInv, LcTypeOK, MainOK, BusyOK, HoldOK, DownOK,
        DrainOK, Unstarted, Ended, Waited, NoRequests, work, stop, group, process

\* Time passes for a request and for the wait that outlasts it alike.
LEMMA TickKeepsInv == LcInv /\ Tick => LcInv'
<1> SUFFICES ASSUME LcInv, Tick PROVE LcInv'
    OBVIOUS
<1> USE TimeoutAssumption, Programs
<1>1. LcTypeOK'
    BY DEF Tick, LcInv, LcTypeOK, process, group, stop
<1>2. \A r \in Requests :
        /\ request[r] = Idle => request'[r] = Idle
        /\ request[r] # Idle => /\ request[r] \in Nat /\ request[r] > 0
                                /\ request'[r] = request[r] - 1
    BY DEF Tick, LcInv, LcTypeOK
<1>3. /\ timer = Idle => timer' = Idle
      /\ timer # Idle => timer \in Nat /\ timer > 0 /\ timer' = timer - 1
    BY DEF Tick, LcInv, LcTypeOK
<1>4. MainOK'
    BY <1>2 DEF Tick, LcInv, MainOK, Unstarted, Ended, NoRequests,
        process, group, stop
<1>5. BusyOK' /\ HoldOK'
    BY <1>2, TimeoutAssumption DEF Tick, LcInv, LcTypeOK, BusyOK, HoldOK, process,
        group, stop
<1>6. DownOK'
    BY <1>2, <1>3 DEF Tick, LcInv, LcTypeOK, DownOK, Waited, process, group, stop
<1>7. DrainOK'
    BY <1>2, <1>3 DEF Tick, LcInv, LcTypeOK, DrainOK, process, group, stop
<1> QED
    BY <1>1, <1>4, <1>5, <1>6, <1>7 DEF LcInv

\* The inductive invariant of the life of the process.
THEOREM LcInvariant == Spec => []LcInv
<1>1. LcInv /\ [Next]_vars => LcInv'
    BY RunKeepsInv, ShutdownKeepsInv, TaskKeepsInv, RequestKeepsInv,
       SignalKeepsInv, TickKeepsInv, LcStutter DEF Next
<1> QED
    BY LcInitInv, <1>1, PTL DEF Spec

\* The variables have their types, whatever the timeouts.
THEOREM LifecycleTypes == Spec => []LcTypeOK
BY LcInvariant, PTL DEF LcInv

\* No transaction is cut off by the closing of the pool: a request that has a
\* connection then began before Shutdown was called, and drainCtx gives it more
\* time than it has left.
THEOREM PoolIsLast == Spec => []PoolOutlivesConnections
<1>1. LcInv => PoolOutlivesConnections
    BY DEF LcInv, MainOK, Unstarted, Ended, PoolOutlivesConnections
<1> QED
    BY <1>1, LcInvariant, PTL

\* Only a request that has run for ShutdownTimeout finds anything closed.
THEOREM ShortRequestsAreServed == Spec => []OnlySlowRequestsCutOff
<1>1. LcInv => OnlySlowRequestsCutOff
    <2> SUFFICES ASSUME LcInv, main \in {"returning", "draining", "flushing"},
                        NEW r \in Requests, request[r] # Idle
                 PROVE  request[r] + ShutdownTimeout <= RequestTimeout
        BY DEF OnlySlowRequestsCutOff
    <2>1. down > 2
        BY Programs DEF LcInv, MainOK, Unstarted, Ended, NoRequests
    <2>2. request[r] \in Nat
        BY DEF LcInv, LcTypeOK
    <2> QED
        BY <2>1, <2>2, TimeoutAssumption DEF LcInv, DownOK, Waited
<1> QED
    BY <1>1, LcInvariant, PTL

\* The deferred calls of run() find no worker at work.
THEOREM GroupLeavesNoWork == Spec => []NoWorkBehindGroup
<1>1. LcInv => NoWorkBehindGroup
    BY DEF LcInv, MainOK, Unstarted, Ended, NoWorkBehindGroup
<1> QED
    BY <1>1, LcInvariant, PTL

\* Wherever start-up or the group stops, what was opened is closed.
THEOREM ExitClosesAll == Spec => []NothingLeftOpen
<1>1. LcInv => NothingLeftOpen
    BY DEF LcInv, MainOK, NothingLeftOpen
<1> QED
    BY <1>1, LcInvariant, PTL

\* Status 0 means that a signal came and that nothing failed.
THEOREM HonestExit == Spec => []CleanExitOnSignal
<1>1. LcInv => CleanExitOnSignal
    BY DEF LcInv, MainOK, CleanExitOnSignal
<1> QED
    BY <1>1, LcInvariant, PTL
=============================================================================

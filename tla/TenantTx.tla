------------------------------ MODULE TenantTx ------------------------------
(***************************************************************************)
(* Transactions and row-level security.  Requests and deliveries share one *)
(* pool of connections; a transaction binds app.tenant_id with SET LOCAL   *)
(* when its context carries a tenant, and the policy tenant_isolation      *)
(* filters what its statements see by that setting.  A repository method   *)
(* joins the transaction of its context (withTenant, withPool) or opens    *)
(* its own; TxRunner.RunInTx always opens one and puts it in the context.  *)
(*                                                                         *)
(* The cascade is the one of OffboardingConsumer; MemberRemovalConsumer    *)
(* opens the same transactions.  The pool is pgxpool's and the binding is  *)
(* pgcommon's: both are known from how the repository uses them.           *)
(***************************************************************************)
EXTENDS Naturals, Sequences, FiniteSets

CONSTANTS
    Tenants,
    Conns,        \* the connections of the pool
    Callers,      \* goroutines that serve a request or a delivery
    Nobody, NoConn,
    NoTenant,     \* a context without a GUCSet
    MaxAttempts,  \* writeRetryOpts.MaxAttempts (3)
    MaxCalls      \* bound on the number of calls

ASSUME TxAssumption ==
    /\ NoTenant \notin Tenants
    /\ {"unset", "empty"} \cap Tenants = {}
    /\ Nobody \notin Callers /\ NoConn \notin Conns /\ Conns # {}
    /\ IsFiniteSet(Callers)
    /\ MaxAttempts \in Nat \ {0} /\ MaxCalls \in Nat

VARIABLES
    conn,      \* connection -> who uses it, its app.tenant_id, what its
               \* transaction has written
    caller,    \* caller -> the call it makes
    rows,      \* tender_acl_entries: [tenant, id]
    nextId,    \* ids handed out so far
    marks,     \* processed_events: the purge of a tenant, with the number of
               \* rows there were when its cascade ran, or a stray event
    counted,   \* the counters of the consumers, by what they count
    calls,     \* calls made so far
    acked      \* history: deliveries for which Handle returned nil, by why

vars == <<conn, caller, rows, nextId, marks, counted, calls, acked>>

\* What a call does, in order.  "begin" and "commit" are those of RunInTx,
\* the others are repository methods.
Program ==
    [grant   |-> <<"insert">>,
     cascade |-> <<"probe", "begin", "cascade", "mark", "commit">>,
     stray   |-> <<"begin", "mark", "commit">>]

Kinds == DOMAIN Program

RowType == [tenant : Tenants, id : Nat]
MarkType == [kind : Kinds, tenant : Tenants \cup {NoTenant}, before : Nat]

\* "pc" is about the transaction a repository method opens for itself: none
\* yet, open, done, or done and the event was found in the ledger.
CallType == [kind : Kinds, tenant : Tenants \cup {NoTenant}, at : 1..5,
             attempt : 1..MaxAttempts, tx : Conns \cup {NoConn},
             own : Conns \cup {NoConn}, pc : {"next", "run", "close", "skip"}]

Idle == [kind |-> "none"]

\* Why a delivery is acknowledged: cascade_total{success}, the duplicates
\* counter, the counter of unexpected types.
Outcomes == {"success", "duplicate", "unexpected"}

\* What the pool, the calls and the tables look like.
TxTypeOK ==
    /\ conn \in [Conns -> [by : Callers \cup {Nobody},
                           setting : Tenants \cup {"unset", "empty"},
                           seen : Nat, ins : SUBSET Tenants,
                           del : SUBSET RowType, mark : SUBSET MarkType]]
    /\ caller \in [Callers -> CallType \cup {Idle}]
    /\ rows \subseteq RowType
    /\ nextId \in Nat
    /\ marks \subseteq MarkType
    /\ counted \in [Outcomes \cup {"error"} -> Nat]
    /\ calls \in 0..MaxCalls
    /\ acked \in [Outcomes -> Nat]

\* A connection in the pool whose session has the given setting.
InPool(setting) == [by |-> Nobody, setting |-> setting, seen |-> 0,
                    ins |-> {}, del |-> {}, mark |-> {}]

Init ==
    /\ conn = [k \in Conns |-> InPool("unset")]
    /\ caller = [c \in Callers |-> Idle]
    /\ rows = {}
    /\ nextId = 0
    /\ marks = {}
    /\ counted = [o \in Outcomes \cup {"error"} |-> 0]
    /\ calls = 0
    /\ acked = [o \in Outcomes |-> 0]

-----------------------------------------------------------------------------
(* The policy and the binding.                                              *)

\* tenant_isolation: NULLIF makes a setting that is not a tenant match no row.
Visible(setting, tenant) == setting \in Tenants /\ setting = tenant

\* Mutant: the consumer forgets withTenantGUC.
Bound_ForgetsConsumer(op, kind, tenant) ==
    IF kind = "grant" \/ op = "cascade" THEN tenant ELSE NoTenant

\* The tenant in the context of an operation.  withTenant binds it for its
\* own method; a consumer binds it with withTenantGUC, after the probe.
Bound(op, kind, tenant) ==
    IF kind = "grant" \/ (kind = "cascade" /\ op # "probe")
    THEN tenant ELSE NoTenant

\* BEGIN, and SET LOCAL when the context carries a tenant.
Opened(k, c, guc) ==
    [InPool(IF guc \in Tenants THEN guc ELSE conn[k].setting) EXCEPT !.by = c]

\* Mutant: SET in place of SET LOCAL.
Returned_SessionScope(k) == InPool(conn[k].setting)

\* COMMIT or ROLLBACK undoes SET LOCAL, and the connection is free again.
Returned(k) == InPool(IF conn[k].setting = "unset" THEN "unset" ELSE "empty")

Op(c) == Program[caller[c].kind][caller[c].at]

\* Mutant: withPool always opens a transaction of its own.
Joins_Never(c) == Op(c) = "cascade"

\* withTenant and withPool: the context carries a transaction.
Joins(c) == caller[c].tx # NoConn

IsMethod(op) == op \in {"insert", "probe", "cascade", "mark"}

Last(c) == caller[c].at = Len(Program[caller[c].kind])

\* The call goes on after its current operation, or returns.
Continue(c) ==
    IF Last(c) THEN Idle
    ELSE [caller[c] EXCEPT !.at = @ + 1, !.own = NoConn, !.pc = "next"]

-----------------------------------------------------------------------------
(* The steps of a call.                                                     *)

\* A request or a delivery arrives; ackUnknown counts before it marks, and
\* does not look at the tenant.
Call(c, kind, t) ==
    /\ caller[c] = Idle
    /\ calls < MaxCalls
    /\ kind = "stray" <=> t = NoTenant
    /\ calls' = calls + 1
    /\ caller' = [caller EXCEPT ![c] =
                     [kind |-> kind, tenant |-> t, at |-> 1, attempt |-> 1,
                      tx |-> NoConn, own |-> NoConn, pc |-> "next"]]
    /\ counted' = IF kind = "stray"
                  THEN [counted EXCEPT !["unexpected"] = @ + 1] ELSE counted
    /\ UNCHANGED <<conn, rows, nextId, marks, acked>>

\* ackUnknown of an event whose id is no UUID: it is counted and acknowledged
\* without a transaction, since the ledger could not hold its mark.
AckUnmarked(c) ==
    /\ caller[c] = Idle
    /\ calls < MaxCalls
    /\ calls' = calls + 1
    /\ counted' = [counted EXCEPT !["unexpected"] = @ + 1]
    /\ acked' = [acked EXCEPT !["unexpected"] = @ + 1]
    /\ UNCHANGED <<conn, caller, rows, nextId, marks>>

\* A connection is free and opens a transaction for operation op of c.
Acquire(c, k) ==
    /\ conn[k].by = Nobody
    /\ conn' = [conn EXCEPT ![k] =
                   Opened(k, c, Bound(Op(c), caller[c].kind, caller[c].tenant))]

\* TxRunner.RunInTx opens a transaction and puts it in the context.
RunInTx(c) ==
    /\ caller[c] # Idle
    /\ Op(c) = "begin"
    /\ \E k \in Conns :
          /\ Acquire(c, k)
          /\ caller' = [caller EXCEPT ![c] = [Continue(c) EXCEPT !.tx = k]]
    /\ UNCHANGED <<rows, nextId, marks, counted, calls, acked>>

\* withTenant or withPool finds no transaction in its context.
NeedsOwn(c) == IsMethod(Op(c)) /\ ~Joins(c) /\ caller[c].pc = "next"

\* It opens one.
OpenOwn(c) ==
    /\ caller[c] # Idle
    /\ NeedsOwn(c)
    /\ \E k \in Conns :
          /\ Acquire(c, k)
          /\ caller' = [caller EXCEPT ![c].own = k, ![c].pc = "run"]
    /\ UNCHANGED <<rows, nextId, marks, counted, calls, acked>>

\* What the statement of op makes of its transaction on k.  INSERT passes
\* WITH CHECK (see Runs); DELETE sees what the policy lets it see; the
\* ledger has no policy.
Written(op, call, k) ==
    CASE op = "insert"  -> [conn[k] EXCEPT !.ins = {call.tenant}]
      [] op = "cascade" -> [conn[k] EXCEPT
                              !.del = {r \in rows :
                                         /\ r.tenant = call.tenant
                                         /\ Visible(conn[k].setting, r.tenant)},
                              !.seen = nextId]
      [] op = "mark"    -> [conn[k] EXCEPT
                              !.mark = {[kind |-> call.kind,
                                         tenant |-> call.tenant,
                                         before |-> conn[k].seen]}]
      [] OTHER          -> conn[k]

\* IsProcessed: the purge of the tenant is in the ledger.
IsProcessed(t) == \E m \in marks : m.kind = "cascade" /\ m.tenant = t

\* Mutant: a cascade that found nothing to delete is not counted.
CountsSuccess_OnlyDeletes(c, k) ==
    Op(c) = "mark" /\ caller[c].kind = "cascade" /\ conn[k].del # {}

\* RecordCascade("success") follows the mark, before the COMMIT.
CountsSuccess(c, k) == Op(c) = "mark" /\ caller[c].kind = "cascade"

\* The current operation of c is a method that has its transaction on k, its
\* own or the one it joins, and its statement passes WITH CHECK.
Runs(c, k) ==
    /\ IsMethod(Op(c))
    /\ \/ caller[c].pc = "run" /\ k = caller[c].own
       \/ caller[c].pc = "next" /\ Joins(c) /\ k = caller[c].tx
    /\ Op(c) = "insert" => Visible(conn[k].setting, caller[c].tenant)

\* A repository method runs its statement, on the transaction it joins or on
\* its own, and skipDuplicate counts a hit.
Execute(c) ==
    /\ caller[c] # Idle
    /\ \E k \in Conns, call \in {caller[c]} :
          /\ Runs(c, k)
          /\ conn' = [conn EXCEPT ![k] = Written(Op(c), call, k)]
          /\ LET hit == Op(c) = "probe" /\ IsProcessed(call.tenant)
             IN  /\ counted' = [counted EXCEPT
                        !["success"] = IF CountsSuccess(c, k) THEN @ + 1 ELSE @,
                        !["duplicate"] = IF hit THEN @ + 1 ELSE @]
                 /\ caller' = [caller EXCEPT ![c] =
                        IF call.pc = "next" THEN Continue(c)
                        ELSE [@ EXCEPT !.pc = IF hit THEN "skip" ELSE "close"]]
    /\ UNCHANGED <<rows, nextId, marks, calls, acked>>

\* COMMIT on k: the writes take effect and the connection goes back.  A mark
\* that is there already stays as it is (ON CONFLICT DO NOTHING).
Committed(k) ==
    /\ rows' = (rows \ conn[k].del)
                  \cup {[tenant |-> t, id |-> nextId] : t \in conn[k].ins}
    /\ nextId' = IF conn[k].ins = {} THEN nextId ELSE nextId + 1
    /\ marks' = marks \cup {m \in conn[k].mark :
                   ~\E l \in marks : l.kind = m.kind /\ l.tenant = m.tenant}
    /\ conn' = [conn EXCEPT ![k] = Returned(k)]

\* The transaction of a repository method commits.  After a hit Handle
\* returns nil.
CommitOwn(c) ==
    /\ caller[c] # Idle
    /\ caller[c].pc \in {"close", "skip"}
    /\ Committed(caller[c].own)
    /\ caller' = [caller EXCEPT ![c] =
                     IF @.pc = "skip" THEN Idle ELSE Continue(c)]
    /\ acked' = IF caller[c].pc = "skip"
                THEN [acked EXCEPT !["duplicate"] = @ + 1] ELSE acked
    /\ UNCHANGED <<counted, calls>>

\* The transaction of RunInTx commits and Handle returns nil.
CommitTx(c) ==
    /\ caller[c] # Idle
    /\ Op(c) = "commit"
    /\ Committed(caller[c].tx)
    /\ caller' = [caller EXCEPT ![c] = Idle]
    /\ acked' = [acked EXCEPT ![IF caller[c].kind = "cascade"
                                THEN "success" ELSE "unexpected"] = @ + 1]
    /\ UNCHANGED <<counted, calls>>

-----------------------------------------------------------------------------
(* Failures.                                                                *)

Held(c) == {k \in Conns : conn[k].by = c}

\* RecordCascade("error") when it is the cascade that fails, in every attempt.
CountError(c) ==
    counted' = IF Op(c) = "cascade"
               THEN [counted EXCEPT !["error"] = @ + 1] ELSE counted

\* Mutant: one attempt too many.
MayRetry_OffByOne(c) == caller[c].attempt <= MaxAttempts

MayRetry(c) == caller[c].attempt < MaxAttempts

\* A deadlock or a serialization failure: the transaction is rolled back and
\* run again, from its BEGIN (after the probe).  IsProcessed does not retry.
Retry(c) ==
    /\ caller[c] # Idle
    /\ Held(c) # {} /\ Op(c) # "probe"
    /\ MayRetry(c)
    /\ conn' = [k \in Conns |-> IF k \in Held(c) THEN Returned(k) ELSE conn[k]]
    /\ CountError(c)
    /\ caller' = [caller EXCEPT ![c].attempt = @ + 1, ![c].tx = NoConn,
                                ![c].own = NoConn, ![c].pc = "next",
                                ![c].at = IF caller[c].kind = "cascade"
                                          THEN 2 ELSE 1]
    /\ UNCHANGED <<rows, nextId, marks, calls, acked>>

\* Anything else: the context ends while the call waits or works, a statement
\* or the COMMIT fails, or the connection is lost and the pool replaces it.
Fail(c) ==
    /\ caller[c] # Idle
    /\ \E lost \in SUBSET Held(c) :
          conn' = [k \in Conns |-> IF k \in lost THEN InPool("unset")
                                   ELSE IF k \in Held(c) THEN Returned(k)
                                   ELSE conn[k]]
    /\ CountError(c)
    /\ caller' = [caller EXCEPT ![c] = Idle]
    /\ UNCHANGED <<rows, nextId, marks, calls, acked>>

Step(c) == RunInTx(c) \/ OpenOwn(c) \/ Execute(c) \/ CommitOwn(c) \/ CommitTx(c)

Next ==
    \E c \in Callers :
        \/ \E kind \in Kinds, t \in Tenants \cup {NoTenant} : Call(c, kind, t)
        \/ AckUnmarked(c) \/ Step(c) \/ Retry(c) \/ Fail(c)

Spec == Init /\ [][Next]_vars

-----------------------------------------------------------------------------
(* Properties.                                                              *)

\* TAC-D8: a connection that served a tenant and went back to the pool, by
\* COMMIT, ROLLBACK or a failure, never brings that tenant into a later
\* transaction: while a transaction runs, its setting is the tenant its own
\* context carries, or none.
SettingIsOwn ==
    \A k \in Conns :
        conn[k].by # Nobody /\ conn[k].setting \in Tenants =>
            LET call == caller[conn[k].by]
            IN  conn[k].setting = Bound(Program[call.kind][call.at], call.kind,
                                        call.tenant)

\* IDEMP-2 under row-level security: a purge that is marked has deleted every
\* row of its tenant that had been committed when it ran.  A cascade without
\* a bound tenant would see no row, delete none and be marked all the same.
MarkedMeansPurged ==
    \A m \in marks : m.kind = "cascade" =>
        \A r \in rows : r.tenant = m.tenant => r.id >= m.before

\* No delivery is acknowledged without a trace: each is in the counter of its
\* outcome.  The counters may run ahead (RecordCascade("success") comes before
\* a COMMIT that can fail, and runs once per attempt), never behind.
EveryAckCounted == \A o \in Outcomes : acked[o] <= counted[o]

\* What a step of c other than a failure waits for is there: a connection for
\* the transaction it has to open, the transaction its statement runs in, or
\* nothing more to do than to commit.
CanGoOn(c) ==
    /\ caller[c] # Idle
    /\ \/ /\ Op(c) = "begin" \/ NeedsOwn(c)
          /\ \E k \in Conns : conn[k].by = Nobody
       \/ \E k \in Conns : Runs(c, k)
       \/ caller[c].pc \in {"close", "skip"} \/ Op(c) = "commit"

\* The pool is never exhausted by calls that wait for each other: while a call
\* is under way, with more callers than connections, some call can go on
\* without one that is retried or fails.  No call holds a connection while it
\* waits for another (withPool and withTenant join).
NobodyStuck ==
    (\E c \in Callers : caller[c] # Idle) => \E c \in Callers : CanGoOn(c)
=============================================================================

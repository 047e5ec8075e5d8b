--------------------------- MODULE TenantTxProofs ---------------------------
(***************************************************************************)
(* For any tenants, connections, callers and numbers of attempts: no       *)
(* tenant setting outlives its transaction, a purge that is marked has     *)
(* deleted what it had to, every acknowledgement is counted, and the calls *)
(* that share the pool never wait for each other.                          *)
(***************************************************************************)
EXTENDS TenantTx, FiniteSetTheorems, TLAPS

\* The tenant a call has in the context of its current operation.
BoundOf(x) == Bound(Program[x.kind][x.at], x.kind, x.tenant)

\* A call is within its program, has a transaction in its context exactly
\* between "begin" and "commit", and one of its own only outside them.
CallOK(x) ==
    /\ x \in CallType
    /\ x.kind = "grant" => x.at = 1
    /\ x.kind = "stray" => x.at \in 1..3
    /\ x.kind = "stray" <=> x.tenant = NoTenant
    /\ x.tx # NoConn <=> \/ x.kind = "cascade" /\ x.at \in 3..5
                         \/ x.kind = "stray" /\ x.at \in 2..3
    /\ x.own # NoConn <=> x.pc # "next"
    /\ x.own # NoConn => x.kind \in {"grant", "cascade"} /\ x.at = 1

\* A connection belongs to the call that names it.
HoldOK ==
    /\ \A k \in Conns : conn[k].by # Nobody =>
          caller[conn[k].by] # Idle /\ k \in {caller[conn[k].by].tx, caller[conn[k].by].own}
    /\ \A c \in Callers : caller[c] # Idle =>
          \A k \in Conns : k \in {caller[c].tx, caller[c].own} => conn[k].by = c

\* A connection in the pool has no tenant; one in use has the tenant of its
\* call, if that has one in its context.
SettingOK ==
    \A k \in Conns :
        /\ conn[k].by = Nobody => conn[k].setting \notin Tenants
        /\ conn[k].by # Nobody =>
              LET b == BoundOf(caller[conn[k].by])
              IN  conn[k].setting \in Tenants \/ b \in Tenants => conn[k].setting = b

\* What the transaction on k has written: once the cascade has run, it
\* deletes every row that was there when it ran.
WrittenOK ==
    \A k \in Conns :
        /\ conn[k].seen <= nextId
        /\ conn[k].by = Nobody => conn[k].mark = {}
        /\ conn[k].by # Nobody =>
              LET x == caller[conn[k].by]
              IN  /\ conn[k].mark \subseteq {[kind |-> x.kind, tenant |-> x.tenant,
                                              before |-> conn[k].seen]}
                  /\ conn[k].mark # {} /\ x.kind = "cascade" => x.at = 5
                  /\ x.kind = "cascade" /\ x.at \in 4..5 =>
                        \A r \in rows : r.tenant = x.tenant /\ r.id < conn[k].seen
                                            => r \in conn[k].del

\* Ids are handed out in order.
IdsOK ==
    /\ \A r \in rows : r.id < nextId
    /\ \A m \in marks : m.before <= nextId

TxInv ==
    /\ TxTypeOK
    /\ \A c \in Callers : caller[c] # Idle => CallOK(caller[c])
    /\ HoldOK /\ SettingOK /\ WrittenOK /\ IdsOK
    /\ MarkedMeansPurged

-----------------------------------------------------------------------------
(* The programs.                                                            *)

\* The kinds of calls.
LEMMA KindsAre == Kinds = {"grant", "cascade", "stray"}
  BY DEF Kinds, Program

\* An idle caller has no call.
LEMMA IdleIsNone == Idle \notin CallType
  BY KindsAre DEF Idle, CallType

\* The operation of a call, by its kind and its place in the program.
LEMMA OpFacts ==
  ASSUME NEW x, CallOK(x)
  PROVE  /\ x.kind = "grant" => /\ Program[x.kind][x.at] = "insert"
                                /\ Len(Program[x.kind]) = 1
         /\ x.kind = "cascade" => /\ Len(Program[x.kind]) = 5
                                  /\ x.at = 1 => Program[x.kind][x.at] = "probe"
                                  /\ x.at = 2 => Program[x.kind][x.at] = "begin"
                                  /\ x.at = 3 => Program[x.kind][x.at] = "cascade"
                                  /\ x.at = 4 => Program[x.kind][x.at] = "mark"
                                  /\ x.at = 5 => Program[x.kind][x.at] = "commit"
         /\ x.kind = "stray" => /\ Len(Program[x.kind]) = 3
                                /\ x.at = 1 => Program[x.kind][x.at] = "begin"
                                /\ x.at = 2 => Program[x.kind][x.at] = "mark"
                                /\ x.at = 3 => Program[x.kind][x.at] = "commit"
  <1>1. CASE x.kind = "grant"
    BY <1>1 DEF CallOK, Program
  <1>2. CASE x.kind = "cascade"
    BY <1>2 DEF Program
  <1>3. CASE x.kind = "stray"
    BY <1>3 DEF Program
  <1> QED
    BY <1>1, <1>2, <1>3

\* Where in its program a call commits, marks or looks for its mark.
LEMMA OpPlace ==
  ASSUME NEW x, CallOK(x)
  PROVE  /\ Program[x.kind][x.at] = "commit" =>
               (x.kind = "cascade" /\ x.at = 5) \/ x.kind = "stray"
         /\ Program[x.kind][x.at] = "mark" /\ x.kind = "cascade" <=>
               x.kind = "cascade" /\ x.at = 4
         /\ Program[x.kind][x.at] = "probe" => x.kind = "cascade" /\ x.at = 1
  <1>1. x.kind \in {"grant", "cascade", "stray"} /\ x.at \in 1..5
    BY KindsAre DEF CallOK, CallType
  <1>2. /\ x.kind = "cascade" => x.at \in {1, 2, 3, 4, 5}
        /\ x.kind = "stray" => x.at \in {1, 2, 3}
    BY <1>1 DEF CallOK
  <1> QED
    BY <1>1, <1>2, OpFacts

\* A call has its tenant in its context, except for the probe.
LEMMA BoundFacts ==
  ASSUME NEW x, CallOK(x)
  PROVE  BoundOf(x) = IF x.kind = "grant" \/ (x.kind = "cascade" /\ x.at # 1)
                      THEN x.tenant ELSE NoTenant
  <1>1. x.kind \in {"grant", "cascade", "stray"} /\ x.at \in 1..5
    BY KindsAre DEF CallOK, CallType
  <1> QED
    BY <1>1, OpFacts DEF BoundOf, Bound

\* The state of the pool and the calls at the start.
LEMMA TxInit == Init => TxInv
  <1> SUFFICES ASSUME Init PROVE TxInv
    OBVIOUS
  <1>1. TxTypeOK
    BY TxAssumption DEF Init, TxTypeOK, InPool
  <1> QED
    BY <1>1, TxAssumption
       DEF Init, TxInv, InPool, HoldOK, SettingOK, WrittenOK, IdsOK, MarkedMeansPurged

-----------------------------------------------------------------------------
(* The steps.                                                               *)

\* A call that starts holds nothing.
LEMMA CallStep ==
  ASSUME TxInv, NEW c \in Callers, NEW kind \in Kinds,
         NEW t \in Tenants \cup {NoTenant}, Call(c, kind, t)
  PROVE  TxInv'
  <1> DEFINE x == [kind |-> kind, tenant |-> t, at |-> 1, attempt |-> 1,
                   tx |-> NoConn, own |-> NoConn, pc |-> "next"]
  <1> USE DEF TxInv
  <1>1. CallOK(x)
    BY KindsAre, TxAssumption DEF Call, CallOK, CallType
  <1>2. caller' = [caller EXCEPT ![c] = x] /\ x # Idle
    BY <1>1, IdleIsNone DEF Call, CallOK
  <1> HIDE DEF x
  <1>3. \A k \in Conns : conn[k].by # c
    BY TxAssumption DEF Call, HoldOK
  <1>4. TxTypeOK'
    <2>1. counted' \in [Outcomes \cup {"error"} -> Nat]
      BY DEF TxTypeOK, Call, Outcomes
    <2>2. calls' \in 0..MaxCalls
      BY TxAssumption DEF TxTypeOK, Call
    <2>3. caller' \in [Callers -> CallType \cup {Idle}]
      BY <1>1, <1>2 DEF TxTypeOK, CallOK
    <2> QED
      BY <2>1, <2>2, <2>3 DEF TxTypeOK, Call
  <1>5. \A d \in Callers : caller'[d] # Idle => CallOK(caller'[d])
    BY <1>1, <1>2 DEF TxTypeOK
  <1>6. HoldOK'
    <2>1. x.tx = NoConn /\ x.own = NoConn
      BY DEF x
    <2> QED
      BY <1>2, <1>3, <2>1, TxAssumption DEF HoldOK, Call, TxTypeOK
  <1>7. SettingOK' /\ WrittenOK'
    BY <1>2, <1>3 DEF SettingOK, WrittenOK, Call, TxTypeOK
  <1>8. IdsOK' /\ MarkedMeansPurged'
    BY DEF IdsOK, MarkedMeansPurged, Call
  <1> QED
    BY <1>4, <1>5, <1>6, <1>7, <1>8

\* An event that cannot be marked touches counters only.
LEMMA AckUnmarkedStep ==
  ASSUME TxInv, NEW c \in Callers, AckUnmarked(c)
  PROVE  TxInv'
  <1> USE DEF TxInv
  <1>1. TxTypeOK'
    <2>1. /\ counted' \in [Outcomes \cup {"error"} -> Nat]
          /\ acked' \in [Outcomes -> Nat]
      BY DEF TxTypeOK, AckUnmarked, Outcomes
    <2>2. calls' \in 0..MaxCalls
      BY TxAssumption DEF TxTypeOK, AckUnmarked
    <2> QED
      BY <2>1, <2>2 DEF TxTypeOK, AckUnmarked
  <1>2. conn' = conn /\ caller' = caller /\ rows' = rows /\ nextId' = nextId /\ marks' = marks
    BY DEF AckUnmarked
  <1>3. \A d \in Callers : caller'[d] # Idle => CallOK(caller'[d])
    BY <1>2, Zenon
  <1>4. HoldOK' /\ SettingOK'
    BY <1>2, ZenonT(30) DEF HoldOK, SettingOK
  <1>5. WrittenOK' /\ IdsOK' /\ MarkedMeansPurged'
    BY <1>2, ZenonT(30) DEF WrittenOK, IdsOK, MarkedMeansPurged
  <1> QED
    BY <1>1, <1>3, <1>4, <1>5

\* A call that holds no connection takes k from the pool and goes on as y.
LEMMA AcquireStep ==
  ASSUME TxInv, NEW c \in Callers, NEW k \in Conns, NEW y,
         caller[c] # Idle, caller[c].tx = NoConn, caller[c].own = NoConn,
         conn[k].by = Nobody, CallOK(y), y # Idle,
         k \in {y.tx, y.own}, {y.tx, y.own} \subseteq {k, NoConn},
         ~(y.kind = "cascade" /\ y.at \in 4..5),
         conn' = [conn EXCEPT ![k] = Opened(k, c, BoundOf(y))],
         caller' = [caller EXCEPT ![c] = y],
         UNCHANGED <<rows, nextId, marks, counted, calls, acked>>
  PROVE  TxInv'
  <1> USE DEF TxInv
  <1> DEFINE g == BoundOf(y)
             n == Opened(k, c, g)
  <1>1. /\ n.by = c /\ n.seen = 0 /\ n.ins = {} /\ n.del = {} /\ n.mark = {}
        /\ n.setting = IF g \in Tenants THEN g ELSE conn[k].setting
    BY DEF Opened, InPool
  <1>2. n \in [by : Callers \cup {Nobody}, setting : Tenants \cup {"unset", "empty"},
               seen : Nat, ins : SUBSET Tenants, del : SUBSET RowType, mark : SUBSET MarkType]
    BY DEF Opened, InPool, TxTypeOK
  <1>3. \A j \in Conns : conn[j].by # c
    BY TxAssumption DEF HoldOK
  <1>4. conn' = [conn EXCEPT ![k] = n]
    OBVIOUS
  <1> HIDE DEF n, g
  <1>5. TxTypeOK'
    BY <1>2, <1>4 DEF TxTypeOK, CallOK
  <1>6. \A d \in Callers : caller'[d] # Idle => CallOK(caller'[d])
    BY DEF TxTypeOK
  <1>7. HoldOK'
    BY <1>1, <1>3, <1>4, TxAssumption DEF HoldOK, TxTypeOK
  <1>8. SettingOK'
    BY <1>1, <1>3, <1>4, TxAssumption DEF SettingOK, TxTypeOK, g
  <1>9. WrittenOK'
    BY <1>1, <1>3, <1>4, TxAssumption DEF WrittenOK, TxTypeOK
  <1>10. IdsOK' /\ MarkedMeansPurged'
    BY DEF IdsOK, MarkedMeansPurged
  <1> QED
    BY <1>5, <1>6, <1>7, <1>8, <1>9, <1>10

\* RunInTx binds the tenant of its context.
LEMMA RunInTxStep ==
  ASSUME TxInv, NEW c \in Callers, RunInTx(c)
  PROVE  TxInv'
  <1> DEFINE x == caller[c]
  <1>1. CallOK(x) /\ x # Idle /\ x \in CallType
    BY DEF RunInTx, CallOK, TxInv
  <1>2. x.kind \in {"grant", "cascade", "stray"} /\ x.at \in 1..5
    BY <1>1, KindsAre DEF CallType
  <1>3. (x.kind = "cascade" /\ x.at = 2) \/ (x.kind = "stray" /\ x.at = 1)
    BY <1>1, <1>2, OpFacts DEF RunInTx, Op, CallOK
  <1>4. ~Last(c)
    BY <1>1, <1>3, OpFacts, ZenonT(30) DEF Last
  <1>5. x.tx = NoConn /\ x.own = NoConn /\ x.pc = "next"
    BY <1>1, <1>3 DEF CallOK
  <1>6. PICK k \in Conns : /\ Acquire(c, k)
                           /\ caller' = [caller EXCEPT ![c] = [Continue(c) EXCEPT !.tx = k]]
    BY ZenonT(30) DEF RunInTx
  <1> DEFINE y == [[x EXCEPT !.at = @ + 1, !.own = NoConn, !.pc = "next"] EXCEPT !.tx = k]
  <1>7. caller' = [caller EXCEPT ![c] = y]
    BY <1>4, <1>6 DEF Continue
  <1> HIDE DEF x
  <1>8. /\ y.kind = x.kind /\ y.tenant = x.tenant /\ y.at = x.at + 1
        /\ y.attempt = x.attempt /\ y.tx = k /\ y.own = NoConn /\ y.pc = "next"
    BY <1>1 DEF CallType
  <1>9. y \in CallType
    <2>1. x.at + 1 \in 1..5
      BY <1>3
    <2> QED
      BY <1>1, <2>1, ZenonT(30) DEF CallType
  <1> HIDE DEF y
  <1>10. CallOK(y) /\ y # Idle
    BY <1>1, <1>3, <1>8, <1>9, IdleIsNone, TxAssumption DEF CallOK
  <1>11. BoundOf(y) = Bound(Op(c), caller[c].kind, caller[c].tenant)
    BY <1>1, <1>3, <1>8, <1>10, BoundFacts DEF BoundOf, Op, x
  <1>12. conn[k].by = Nobody /\ conn' = [conn EXCEPT ![k] = Opened(k, c, BoundOf(y))]
    BY <1>6, <1>11 DEF Acquire
  <1>13. UNCHANGED <<rows, nextId, marks, counted, calls, acked>>
    BY DEF RunInTx
  <1>14. k \in {y.tx, y.own} /\ {y.tx, y.own} \subseteq {k, NoConn}
    BY <1>8
  <1>15. ~(y.kind = "cascade" /\ y.at \in 4..5)
    BY <1>3, <1>8
  <1>16. caller[c] # Idle /\ caller[c].tx = NoConn /\ caller[c].own = NoConn
    BY <1>1, <1>5 DEF x
  <1> QED
    BY <1>7, <1>10, <1>12, <1>13, <1>14, <1>15, <1>16, AcquireStep, ZenonT(30)

\* A method outside a transaction opens its own, with its own tenant.
LEMMA OpenOwnStep ==
  ASSUME TxInv, NEW c \in Callers, OpenOwn(c)
  PROVE  TxInv'
  <1> DEFINE x == caller[c]
  <1>1. CallOK(x) /\ x # Idle /\ x \in CallType
    BY DEF OpenOwn, CallOK, TxInv
  <1>2. x.kind \in {"grant", "cascade", "stray"} /\ x.at \in 1..5
    BY <1>1, KindsAre DEF CallType
  <1>3. x.tx = NoConn /\ x.own = NoConn
    BY <1>1 DEF OpenOwn, NeedsOwn, Joins, CallOK
  <1>4. x.kind \in {"grant", "cascade"} /\ x.at = 1
    BY <1>1, <1>2, <1>3, OpFacts DEF OpenOwn, NeedsOwn, IsMethod, Op, CallOK
  <1>5. PICK k \in Conns : /\ Acquire(c, k)
                           /\ caller' = [caller EXCEPT ![c].own = k, ![c].pc = "run"]
    BY ZenonT(30) DEF OpenOwn
  <1> DEFINE y == [x EXCEPT !.own = k, !.pc = "run"]
  <1>6. caller' = [caller EXCEPT ![c] = y]
    BY <1>5, ZenonT(30) DEF TxInv, TxTypeOK
  <1> HIDE DEF x
  <1>7. /\ y.kind = x.kind /\ y.tenant = x.tenant /\ y.at = x.at
        /\ y.attempt = x.attempt /\ y.tx = x.tx /\ y.own = k /\ y.pc = "run"
    BY <1>1 DEF CallType
  <1>8. y \in CallType
    BY <1>1, ZenonT(30) DEF CallType
  <1> HIDE DEF y
  <1>9. CallOK(y) /\ y # Idle
    BY <1>1, <1>4, <1>7, <1>8, IdleIsNone, TxAssumption DEF CallOK
  <1>10. BoundOf(y) = Bound(Op(c), caller[c].kind, caller[c].tenant)
    BY <1>7 DEF BoundOf, Op, x
  <1>11. conn[k].by = Nobody /\ conn' = [conn EXCEPT ![k] = Opened(k, c, BoundOf(y))]
    BY <1>5, <1>10 DEF Acquire
  <1>12. UNCHANGED <<rows, nextId, marks, counted, calls, acked>>
    BY DEF OpenOwn
  <1>13. k \in {y.tx, y.own} /\ {y.tx, y.own} \subseteq {k, NoConn}
    BY <1>3, <1>7
  <1>14. ~(y.kind = "cascade" /\ y.at \in 4..5)
    BY <1>4, <1>7
  <1>15. caller[c] # Idle /\ caller[c].tx = NoConn /\ caller[c].own = NoConn
    BY <1>1, <1>3 DEF x
  <1> QED
    BY <1>6, <1>9, <1>11, <1>12, <1>13, <1>14, <1>15, AcquireStep, ZenonT(30)

\* A call gives back every connection it holds, and ends or starts again.
\* Rows may go and new ones may come.
LEMMA ReleaseStep ==
  ASSUME TxInv, NEW c \in Callers, NEW y,
         y = Idle \/ (CallOK(y) /\ y.tx = NoConn /\ y.own = NoConn),
         caller' = [caller EXCEPT ![c] = y],
         TxTypeOK',
         \A k \in Conns : conn[k].by = c =>
             /\ conn'[k].by = Nobody /\ conn'[k].setting \notin Tenants
             /\ conn'[k].seen = 0 /\ conn'[k].mark = {},
         \A k \in Conns : conn[k].by # c => conn'[k] = conn[k],
         \A r \in rows' : r \in rows \/ r.id = nextId,
         nextId <= nextId'
  PROVE  /\ \A d \in Callers : caller'[d] # Idle => CallOK(caller'[d])
         /\ HoldOK' /\ SettingOK' /\ WrittenOK'
  <1> USE DEF TxInv
  <1>1. \A d \in Callers : caller'[d] # Idle => CallOK(caller'[d])
    BY DEF TxTypeOK
  <1>2. HoldOK'
    BY TxAssumption DEF HoldOK, TxTypeOK
  <1>3. SettingOK'
    BY DEF SettingOK, TxTypeOK
  <1>4. WrittenOK'
    <2> SUFFICES ASSUME NEW k \in Conns
                 PROVE  /\ conn'[k].seen <= nextId'
                        /\ conn'[k].by = Nobody => conn'[k].mark = {}
                        /\ conn'[k].by # Nobody =>
                              LET x == caller'[conn'[k].by]
                              IN  /\ conn'[k].mark \subseteq
                                        {[kind |-> x.kind, tenant |-> x.tenant,
                                          before |-> conn'[k].seen]}
                                  /\ conn'[k].mark # {} /\ x.kind = "cascade" => x.at = 5
                                  /\ x.kind = "cascade" /\ x.at \in 4..5 =>
                                        \A r \in rows' :
                                            r.tenant = x.tenant /\ r.id < conn'[k].seen
                                                => r \in conn'[k].del
      BY SMTT(90) DEF WrittenOK
    <2>1. CASE conn[k].by = c
      BY <2>1, SMTT(60) DEF TxTypeOK
    <2>2. CASE conn[k].by # c
      <3>1. conn'[k] = conn[k] /\ conn[k].seen <= nextId /\ conn[k].seen \in Nat
        BY <2>2 DEF WrittenOK, TxTypeOK
      <3>2. conn[k].by # Nobody => caller'[conn[k].by] = caller[conn[k].by]
        BY <2>2 DEF TxTypeOK
      <3>3. \A r \in rows' : r.id < conn[k].seen => r \in rows
        BY <3>1 DEF TxTypeOK
      <3>4. conn'[k].seen <= nextId'
        BY <3>1 DEF TxTypeOK
      <3> QED
        BY <3>1, <3>2, <3>3, <3>4, SMTT(20) DEF WrittenOK
    <2> QED
      BY <2>1, <2>2, ZenonT(30)
  <1> QED
    BY <1>1, <1>2, <1>3, <1>4

\* COMMIT and ROLLBACK leave no tenant in the session.
LEMMA ReturnedFacts ==
  ASSUME TxTypeOK, NEW k \in Conns
  PROVE  /\ Returned(k) \in [by : Callers \cup {Nobody},
                              setting : Tenants \cup {"unset", "empty"}, seen : Nat,
                              ins : SUBSET Tenants, del : SUBSET RowType,
                              mark : SUBSET MarkType]
         /\ Returned(k).by = Nobody /\ Returned(k).setting \notin Tenants
         /\ Returned(k).seen = 0 /\ Returned(k).mark = {}
  BY TxAssumption DEF Returned, InPool

\* What a COMMIT makes of the tables.
LEMMA CommittedStep ==
  ASSUME TxInv, NEW k \in Conns, conn[k].by # Nobody, Committed(k)
  PROVE  /\ rows' \subseteq RowType /\ nextId' \in Nat /\ marks' \subseteq MarkType
         /\ \A r \in rows' : r \in rows \/ r.id = nextId
         /\ nextId <= nextId'
         /\ IdsOK' /\ MarkedMeansPurged'
  <1> USE DEF TxInv
  <1> DEFINE x == caller[conn[k].by]
  <1>1. /\ conn[k].ins \subseteq Tenants /\ conn[k].mark \subseteq MarkType
        /\ conn[k].seen \in Nat /\ nextId \in Nat
        /\ conn[k].by \in Callers /\ x # Idle /\ CallOK(x)
    BY SMTT(20) DEF TxTypeOK, HoldOK
  <1>2. /\ conn[k].seen <= nextId
        /\ \A m \in conn[k].mark :
              /\ m.kind = x.kind /\ m.tenant = x.tenant /\ m.before = conn[k].seen
              /\ x.kind = "cascade" =>
                    \A r \in rows : r.tenant = x.tenant /\ r.id < conn[k].seen
                                        => r \in conn[k].del
    BY <1>1 DEF WrittenOK
  <1> HIDE DEF x
  <1>3. rows' \subseteq RowType /\ nextId' \in Nat /\ marks' \subseteq MarkType
    BY <1>1 DEF Committed, TxTypeOK, RowType
  <1>4. \A r \in rows' : (r \in rows /\ r \notin conn[k].del)
                            \/ (r.id = nextId /\ nextId' = nextId + 1)
    BY DEF Committed
  <1>5. nextId <= nextId'
    BY <1>1 DEF Committed
  <1>6. \A m \in marks' : m \in marks \/ m \in conn[k].mark
    BY DEF Committed
  <1>7. IdsOK'
    BY <1>1, <1>2, <1>3, <1>4, <1>5, <1>6 DEF IdsOK, TxTypeOK, RowType, MarkType
  <1>8. MarkedMeansPurged'
    <2> SUFFICES ASSUME NEW m \in marks', m.kind = "cascade",
                        NEW r \in rows', r.tenant = m.tenant
                 PROVE  r.id >= m.before
      BY DEF MarkedMeansPurged
    <2>1. r.id \in Nat /\ m.before \in Nat
      BY <1>3 DEF RowType, MarkType
    <2>2. m.before <= nextId
      BY <1>2, <1>6 DEF IdsOK
    <2>3. CASE r \in rows /\ r \notin conn[k].del /\ m \in marks
      BY <2>3 DEF MarkedMeansPurged
    <2>4. CASE r \in rows /\ r \notin conn[k].del /\ m \in conn[k].mark
      BY <1>1, <1>2, <2>1, <2>4
    <2>5. CASE r.id = nextId
      BY <1>1, <2>1, <2>2, <2>5
    <2> QED
      BY <1>4, <1>6, <2>3, <2>4, <2>5
  <1> QED
    BY <1>3, <1>4, <1>5, <1>7, <1>8

\* A call holds the connections it names, and never two.
LEMMA HoldsOne ==
  ASSUME TxInv, NEW c \in Callers, caller[c] # Idle
  PROVE  /\ \A k \in Conns : conn[k].by = c <=> k \in {caller[c].tx, caller[c].own}
         /\ caller[c].tx = NoConn \/ caller[c].own = NoConn
         /\ {caller[c].tx, caller[c].own} \subseteq Conns \cup {NoConn}
  <1>1. \A k \in Conns : conn[k].by = c <=> k \in {caller[c].tx, caller[c].own}
    BY TxAssumption DEF TxInv, HoldOK
  <1>2. CallOK(caller[c])
    BY DEF TxInv
  <1>3. caller[c].tx = NoConn \/ caller[c].own = NoConn
    BY <1>2 DEF CallOK
  <1>4. {caller[c].tx, caller[c].own} \subseteq Conns \cup {NoConn}
    BY <1>2 DEF CallOK, CallType
  <1> QED
    BY <1>1, <1>3, <1>4

\* A call commits its only transaction and goes on without one, as y.
LEMMA CommitStep ==
  ASSUME TxInv, NEW c \in Callers, NEW k \in Conns, NEW y,
         y = Idle \/ (CallOK(y) /\ y.tx = NoConn /\ y.own = NoConn),
         caller' = [caller EXCEPT ![c] = y],
         \A j \in Conns : conn[j].by = c <=> j = k,
         Committed(k),
         acked' \in [Outcomes -> Nat], UNCHANGED <<counted, calls>>
  PROVE  TxInv'
  <1>1. TxTypeOK /\ conn[k].by # Nobody
    BY TxAssumption DEF TxInv
  <1>2. /\ rows' \subseteq RowType /\ nextId' \in Nat /\ marks' \subseteq MarkType
        /\ \A r \in rows' : r \in rows \/ r.id = nextId
        /\ nextId <= nextId'
        /\ IdsOK' /\ MarkedMeansPurged'
    BY <1>1, CommittedStep
  <1>3. conn' = [conn EXCEPT ![k] = Returned(k)]
    BY DEF Committed
  <1>4. TxTypeOK'
    <2>1. y \in CallType \cup {Idle}
      BY DEF CallOK
    <2> QED
      BY <1>1, <1>2, <1>3, <2>1, ReturnedFacts DEF TxTypeOK
  <1>5. \A j \in Conns : conn[j].by = c =>
             /\ conn'[j].by = Nobody /\ conn'[j].setting \notin Tenants
             /\ conn'[j].seen = 0 /\ conn'[j].mark = {}
    BY <1>1, <1>3, ReturnedFacts DEF TxTypeOK
  <1>6. \A j \in Conns : conn[j].by # c => conn'[j] = conn[j]
    BY <1>1, <1>3 DEF TxTypeOK
  <1>7. /\ \A d \in Callers : caller'[d] # Idle => CallOK(caller'[d])
        /\ HoldOK' /\ SettingOK' /\ WrittenOK'
    BY <1>2, <1>4, <1>5, <1>6, ReleaseStep, ZenonT(30)
  <1> QED
    BY <1>2, <1>4, <1>7 DEF TxInv

\* The transaction of a repository method commits.
LEMMA CommitOwnStep ==
  ASSUME TxInv, NEW c \in Callers, CommitOwn(c)
  PROVE  TxInv'
  <1> DEFINE x == caller[c]
             y == IF x.pc = "skip" THEN Idle ELSE Continue(c)
             k == x.own
  <1>1. CallOK(x) /\ x # Idle /\ x \in CallType
    BY DEF CommitOwn, CallOK, TxInv
  <1>2. x.own # NoConn /\ x.kind \in {"grant", "cascade"} /\ x.at = 1
    BY <1>1 DEF CommitOwn, CallOK
  <1>3. k \in Conns /\ \A j \in Conns : conn[j].by = c <=> j = k
    BY <1>1, <1>2, HoldsOne, TxAssumption
  <1>4. caller' = [caller EXCEPT ![c] = y]
    BY DEF CommitOwn
  <1>5. Continue(c) = Idle \/ (/\ CallOK(Continue(c))
                               /\ Continue(c).tx = NoConn /\ Continue(c).own = NoConn)
    <2>1. CASE Last(c)
      BY <2>1 DEF Continue
    <2>2. CASE ~Last(c)
      <3> DEFINE z == [x EXCEPT !.at = @ + 1, !.own = NoConn, !.pc = "next"]
      <3>1. Continue(c) = z
        BY <2>2 DEF Continue
      <3>2. x.kind = "cascade"
        BY <1>1, <1>2, <2>2, OpFacts DEF Last
      <3> HIDE DEF x
      <3>3. /\ z.kind = x.kind /\ z.tenant = x.tenant /\ z.at = x.at + 1
            /\ z.tx = x.tx /\ z.own = NoConn /\ z.pc = "next"
        BY <1>1 DEF CallType
      <3>4. z \in CallType
        <4>1. x.at + 1 \in 1..5
          BY <1>2
        <4> QED
          BY <1>1, <4>1, ZenonT(30) DEF CallType
      <3> HIDE DEF z
      <3>5. x.tx = NoConn
        BY <1>1, <1>2 DEF CallOK
      <3>6. CallOK(z)
        BY <1>1, <1>2, <3>2, <3>3, <3>4, <3>5 DEF CallOK
      <3> QED
        BY <3>1, <3>3, <3>5, <3>6
    <2> QED
      BY <2>1, <2>2
  <1>6. y = Idle \/ (CallOK(y) /\ y.tx = NoConn /\ y.own = NoConn)
    BY <1>5
  <1>7. acked' \in [Outcomes -> Nat] /\ UNCHANGED <<counted, calls>>
    BY DEF CommitOwn, TxInv, TxTypeOK, Outcomes
  <1>8. Committed(k)
    BY DEF CommitOwn
  <1> HIDE DEF y, k
  <1> QED
    BY <1>3, <1>4, <1>6, <1>7, <1>8, CommitStep, ZenonT(30)

\* The transaction of RunInTx commits.
LEMMA CommitTxStep ==
  ASSUME TxInv, NEW c \in Callers, CommitTx(c)
  PROVE  TxInv'
  <1> DEFINE x == caller[c]
             k == x.tx
  <1>1. CallOK(x) /\ x # Idle /\ x \in CallType
    BY SMTT(30) DEF CommitTx, CallOK, TxInv
  <1>2. x.kind \in {"grant", "cascade", "stray"} /\ x.at \in 1..5
    BY <1>1, KindsAre DEF CallType
  <1>3. (x.kind = "cascade" /\ x.at = 5) \/ (x.kind = "stray" /\ x.at = 3)
    <2>1. Program[x.kind][x.at] = "commit"
      BY DEF CommitTx, Op
    <2> HIDE DEF x
    <2>2. x.kind = "stray" => x.at \in {1, 2, 3}
      BY <1>1, <1>2 DEF CallOK
    <2> QED BY <1>1, <1>2, <2>1, <2>2, OpFacts
  <1>4. x.tx # NoConn
    BY <1>1, <1>3 DEF CallOK
  <1>5. k \in Conns /\ \A j \in Conns : conn[j].by = c <=> j = k
    BY <1>1, <1>4, HoldsOne, TxAssumption
  <1>6. caller' = [caller EXCEPT ![c] = Idle] /\ Committed(k)
    BY DEF CommitTx
  <1>7. acked' \in [Outcomes -> Nat] /\ UNCHANGED <<counted, calls>>
    BY DEF CommitTx, TxInv, TxTypeOK, Outcomes
  <1> HIDE DEF k
  <1> QED
    BY <1>5, <1>6, <1>7, CommitStep, ZenonT(30)

\* A call whose transaction is rolled back ends or starts again as y.
LEMMA RollbackStep ==
  ASSUME TxInv, NEW c \in Callers, NEW lost \in SUBSET Held(c), NEW y,
         y = Idle \/ (CallOK(y) /\ y.tx = NoConn /\ y.own = NoConn),
         caller' = [caller EXCEPT ![c] = y],
         conn' = [k \in Conns |-> IF k \in lost THEN InPool("unset")
                                  ELSE IF k \in Held(c) THEN Returned(k)
                                  ELSE conn[k]],
         CountError(c), UNCHANGED <<rows, nextId, marks, calls, acked>>
  PROVE  TxInv'
  <1>1. TxTypeOK /\ nextId \in Nat
    BY SMTT(20) DEF TxInv, TxTypeOK
  <1>2. /\ InPool("unset") \in [by : Callers \cup {Nobody},
                                 setting : Tenants \cup {"unset", "empty"}, seen : Nat,
                                 ins : SUBSET Tenants, del : SUBSET RowType,
                                 mark : SUBSET MarkType]
        /\ InPool("unset").by = Nobody /\ InPool("unset").setting \notin Tenants
        /\ InPool("unset").seen = 0 /\ InPool("unset").mark = {}
    BY TxAssumption, Zenon DEF InPool
  <1>3. TxTypeOK'
    <2>1. counted' \in [Outcomes \cup {"error"} -> Nat]
      BY <1>1 DEF TxTypeOK, CountError, Outcomes
    <2>2. caller' \in [Callers -> CallType \cup {Idle}]
      BY <1>1 DEF TxTypeOK, CallOK
    <2>3. conn' \in [Conns -> [by : Callers \cup {Nobody},
                               setting : Tenants \cup {"unset", "empty"},
                               seen : Nat, ins : SUBSET Tenants,
                               del : SUBSET RowType, mark : SUBSET MarkType]]
      BY <1>1, <1>2, ReturnedFacts, ZenonT(30) DEF TxTypeOK
    <2> QED
      BY <1>1, <2>1, <2>2, <2>3 DEF TxTypeOK
  <1>4. \A k \in Conns : conn[k].by = c =>
             /\ conn'[k].by = Nobody /\ conn'[k].setting \notin Tenants
             /\ conn'[k].seen = 0 /\ conn'[k].mark = {}
    BY <1>1, <1>2, ReturnedFacts DEF Held
  <1>5. \A k \in Conns : conn[k].by # c => conn'[k] = conn[k]
    BY DEF Held
  <1>6. (\A r \in rows' : r \in rows \/ r.id = nextId) /\ nextId <= nextId'
    BY <1>1
  <1>7. /\ \A d \in Callers : caller'[d] # Idle => CallOK(caller'[d])
        /\ HoldOK' /\ SettingOK' /\ WrittenOK'
    BY <1>3, <1>4, <1>5, <1>6, ReleaseStep, ZenonT(30)
  <1>8. IdsOK' /\ MarkedMeansPurged'
    BY DEF TxInv, IdsOK, MarkedMeansPurged
  <1> QED
    BY <1>3, <1>7, <1>8 DEF TxInv

\* A call that fails.
LEMMA FailStep ==
  ASSUME TxInv, NEW c \in Callers, Fail(c)
  PROVE  TxInv'
  BY RollbackStep, ZenonT(30) DEF Fail

\* A call that is run again, from its BEGIN.
LEMMA RetryStep ==
  ASSUME TxInv, NEW c \in Callers, Retry(c)
  PROVE  TxInv'
  <1> DEFINE x == caller[c]
             y == [x EXCEPT !.attempt = @ + 1, !.tx = NoConn, !.own = NoConn,
                            !.pc = "next", !.at = IF x.kind = "cascade" THEN 2 ELSE 1]
  <1>1. CallOK(x) /\ x # Idle /\ x \in CallType
    BY DEF Retry, CallOK, TxInv
  <1>2. caller' = [caller EXCEPT ![c] = y]
    BY ZenonT(30) DEF Retry, TxInv, TxTypeOK
  <1>3. x.attempt + 1 \in 1..MaxAttempts
    BY <1>1, TxAssumption DEF Retry, MayRetry, CallType
  <1> HIDE DEF x
  <1>4. /\ y.kind = x.kind /\ y.tenant = x.tenant
        /\ y.at = (IF x.kind = "cascade" THEN 2 ELSE 1)
        /\ y.tx = NoConn /\ y.own = NoConn /\ y.pc = "next"
    BY <1>1 DEF CallType
  <1>5. y \in CallType
    <2> DEFINE a == x.attempt + 1
               n == IF x.kind = "cascade" THEN 2 ELSE 1
    <2>1. a \in 1..MaxAttempts /\ n \in 1..5
      BY <1>3
    <2>2. y = [x EXCEPT !.attempt = a, !.tx = NoConn, !.own = NoConn, !.pc = "next",
                        !.at = n]
      OBVIOUS
    <2> HIDE DEF a, n, y
    <2> QED
      BY <1>1, <2>1, <2>2, ZenonT(30) DEF CallType
  <1> HIDE DEF y
  <1>6. CallOK(y)
    BY <1>1, <1>4, <1>5 DEF CallOK
  <1>7. /\ {} \in SUBSET Held(c)
        /\ conn' = [k \in Conns |-> IF k \in {} THEN InPool("unset")
                                    ELSE IF k \in Held(c) THEN Returned(k)
                                    ELSE conn[k]]
        /\ CountError(c) /\ UNCHANGED <<rows, nextId, marks, calls, acked>>
    BY DEF Retry
  <1> QED
    BY <1>2, <1>4, <1>6, <1>7, RollbackStep, ZenonT(30)

\* A method runs its statement on the transaction its call holds.
LEMMA ExecuteStep ==
  ASSUME TxInv, NEW c \in Callers, Execute(c)
  PROVE  TxInv'
  <1> DEFINE x == caller[c]
  <1>1. CallOK(x) /\ x # Idle /\ x \in CallType
    BY DEF Execute, CallOK, TxInv
  <1>2. x.kind \in {"grant", "cascade", "stray"} /\ x.at \in 1..5
    BY <1>1, KindsAre DEF CallType
  <1>3. PICK k \in Conns :
          /\ \/ x.pc = "run" /\ k = x.own
             \/ x.pc = "next" /\ Joins(c) /\ k = x.tx
          /\ conn' = [conn EXCEPT ![k] = Written(Op(c), x, k)]
          /\ counted' = [counted EXCEPT
                !["success"] = IF CountsSuccess(c, k) THEN @ + 1 ELSE @,
                !["duplicate"] = IF Op(c) = "probe" /\ IsProcessed(x.tenant)
                                 THEN @ + 1 ELSE @]
          /\ caller' = [caller EXCEPT ![c] =
                IF x.pc = "next" THEN Continue(c)
                ELSE [@ EXCEPT !.pc = IF Op(c) = "probe" /\ IsProcessed(x.tenant)
                                      THEN "skip" ELSE "close"]]
    BY ZenonT(30) DEF Execute, Runs
  <1>4. conn[k].by = c /\ \A j \in Conns : conn[j].by = c => j = k
    BY <1>1, <1>3, HoldsOne, TxAssumption DEF Joins, CallOK
  <1>5. x.pc = "next" => \/ x.kind = "cascade" /\ x.at \in 3..4
                         \/ x.kind = "stray" /\ x.at = 2
    BY <1>1, <1>2, <1>3, OpFacts, TxAssumption DEF Execute, Runs, IsMethod, Op, CallOK, Joins
  <1>6. x.pc # "next" => x.kind \in {"grant", "cascade"} /\ x.at = 1
    BY <1>1 DEF CallOK
  <1> DEFINE z == [x EXCEPT !.at = @ + 1, !.own = NoConn, !.pc = "next"]
             p == IF Op(c) = "probe" /\ IsProcessed(x.tenant) THEN "skip" ELSE "close"
             w == [x EXCEPT !.pc = p]
             y == IF x.pc = "next" THEN z ELSE w
             n == Written(Op(c), x, k)
  <1>7. caller' = [caller EXCEPT ![c] = y]
    <2>1. x.pc = "next" => Continue(c) = z
      <3>1. x.pc = "next" => ~Last(c)
        <4>1. /\ x.kind = "cascade" => Len(Program[x.kind]) = 5
              /\ x.kind = "stray" => Len(Program[x.kind]) = 3
          BY <1>1, OpFacts
        <4>2. Last(c) <=> x.at = Len(Program[x.kind])
          BY DEF Last
        <4>3. CASE x.kind = "cascade" /\ x.at \in 3..4
          <5>1. x.at # 5
            BY <4>3
          <5> QED
            BY <4>1, <4>2, <4>3, <5>1, Zenon
        <4>4. CASE x.kind = "stray" /\ x.at = 2
          BY <4>1, <4>2, <4>4
        <4> QED
          BY <1>5, <4>3, <4>4
      <3> QED
        BY <3>1 DEF Continue
    <2>2. CASE x.pc = "next"
      BY <1>3, <2>1, <2>2, ZenonT(30)
    <2>3. CASE x.pc # "next"
      BY <1>3, <2>3
    <2> QED
      BY <2>2, <2>3
  <1>8. conn' = [conn EXCEPT ![k] = n]
    BY <1>3
  <1>9. BoundOf(x) = IF x.kind = "grant" \/ (x.kind = "cascade" /\ x.at # 1)
                     THEN x.tenant ELSE NoTenant
    BY <1>1, BoundFacts, SMTT(30)
  <1>10. /\ x.kind = "grant" => Op(c) = "insert"
         /\ x.kind = "cascade" /\ x.at = 1 => Op(c) = "probe"
         /\ x.kind = "cascade" /\ x.at = 3 => Op(c) = "cascade"
         /\ x.kind = "cascade" /\ x.at = 4 => Op(c) = "mark"
         /\ x.kind = "stray" => Op(c) = "mark"
    <2>1. Op(c) = Program[x.kind][x.at]
      BY DEF Op
    <2> HIDE DEF x
    <2> QED BY <1>1, <1>5, <1>6, <2>1, OpFacts, SMTT(20)
  <1>11. /\ x.kind \in Kinds /\ x.tenant \in Tenants \cup {NoTenant}
         /\ x.kind # "stray" => x.tenant \in Tenants
    BY <1>1, <1>2 DEF CallType, CallOK
  <1>12. conn[k] \in [by : Callers \cup {Nobody},
                      setting : Tenants \cup {"unset", "empty"}, seen : Nat,
                      ins : SUBSET Tenants, del : SUBSET RowType, mark : SUBSET MarkType]
    BY DEF TxInv, TxTypeOK
  \* What the call has become.
  <1>13. /\ y.kind = x.kind /\ y.tenant = x.tenant /\ y \in CallType
         /\ x.pc = "next" => y.at = x.at + 1 /\ y.tx = x.tx /\ y.own = NoConn /\ y.pc = "next"
         /\ x.pc # "next" => y.at = x.at /\ y.tx = x.tx /\ y.own = x.own /\ y.pc # "next"
    <2> HIDE DEF x
    <2>1. CASE x.pc = "next"
      <3>1. x.at + 1 \in 1..5
        BY <1>5, <2>1
      <3>2. z \in CallType
        BY <1>1, <3>1, ZenonT(30) DEF CallType
      <3>3. /\ z.kind = x.kind /\ z.tenant = x.tenant /\ z.at = x.at + 1 /\ z.tx = x.tx
            /\ z.own = NoConn /\ z.pc = "next"
        BY <1>1 DEF CallType
      <3> QED
        BY <2>1, <3>2, <3>3
    <2>2. CASE x.pc # "next"
      <3>1. p \in {"skip", "close"}
        OBVIOUS
      <3> HIDE DEF p
      <3>2. w \in CallType
        BY <1>1, <3>1 DEF CallType
      <3>3. /\ w.kind = x.kind /\ w.tenant = x.tenant /\ w.at = x.at /\ w.tx = x.tx
            /\ w.own = x.own /\ w.pc = p
        BY <1>1 DEF CallType
      <3> QED
        BY <2>2, <3>1, <3>2, <3>3
    <2> QED
      BY <2>1, <2>2
  <1> HIDE DEF y, z, w, p
  <1>14. CallOK(y) /\ y # Idle
    BY <1>1, <1>5, <1>6, <1>13, IdleIsNone DEF CallOK
  <1>15. BoundOf(y) = BoundOf(x)
    BY <1>5, <1>6, <1>9, <1>13, <1>14, BoundFacts
  \* What its transaction has become.
  <1>16. /\ x.kind = "grant" => n = [conn[k] EXCEPT !.ins = {x.tenant}]
         /\ x.kind = "cascade" /\ x.at = 1 => n = conn[k]
         /\ x.kind = "cascade" /\ x.at = 3 =>
               n = [conn[k] EXCEPT !.del = {r \in rows : /\ r.tenant = x.tenant
                                                          /\ Visible(conn[k].setting, r.tenant)},
                                   !.seen = nextId]
         /\ (x.kind = "cascade" /\ x.at = 4) \/ x.kind = "stray" =>
               n = [conn[k] EXCEPT !.mark = {[kind |-> x.kind, tenant |-> x.tenant,
                                              before |-> conn[k].seen]}]
    BY <1>10 DEF Written
  <1>17. \/ x.kind = "grant" \/ (x.kind = "cascade" /\ x.at = 1)
         \/ (x.kind = "cascade" /\ x.at = 3) \/ (x.kind = "cascade" /\ x.at = 4)
         \/ x.kind = "stray"
    BY <1>2, <1>5, <1>6
  <1>18. rows \subseteq RowType /\ nextId \in Nat /\ conn[k].seen <= nextId
    BY ZenonT(30) DEF TxInv, TxTypeOK, WrittenOK
  <1> HIDE DEF x, n
  <1>19. [kind |-> x.kind, tenant |-> x.tenant, before |-> conn[k].seen] \in MarkType
    BY <1>11, <1>12 DEF MarkType
  <1>20. n.by = conn[k].by /\ n.setting = conn[k].setting /\ n.seen \in Nat
    BY <1>12, <1>16, <1>17, <1>18, ZenonT(30)
  <1>21. n \in [by : Callers \cup {Nobody}, setting : Tenants \cup {"unset", "empty"},
                seen : Nat, ins : SUBSET Tenants, del : SUBSET RowType, mark : SUBSET MarkType]
    <2>1. CASE x.kind = "grant"
      BY <1>11, <1>12, <1>16, <2>1
    <2>2. CASE x.kind = "cascade" /\ x.at = 1
      BY <1>12, <1>16, <2>2
    <2>3. CASE x.kind = "cascade" /\ x.at = 3
      <3> DEFINE D == {r \in rows : r.tenant = x.tenant /\ Visible(conn[k].setting, r.tenant)}
      <3>1. D \subseteq RowType /\ n = [conn[k] EXCEPT !.del = D, !.seen = nextId]
        BY <1>16, <1>18, <2>3
      <3> HIDE DEF D
      <3> QED
        BY <1>12, <1>18, <3>1, ZenonT(30)
    <2>4. CASE (x.kind = "cascade" /\ x.at = 4) \/ x.kind = "stray"
      <3> DEFINE M == {[kind |-> x.kind, tenant |-> x.tenant, before |-> conn[k].seen]}
      <3>1. M \subseteq MarkType /\ n = [conn[k] EXCEPT !.mark = M]
        BY <1>16, <1>19, <2>4
      <3> HIDE DEF M
      <3> QED
        BY <1>12, <3>1
    <2> QED
      BY <1>17, <2>1, <2>2, <2>3, <2>4
  <1>22. conn[k].setting \in Tenants \/ BoundOf(x) \in Tenants
            => conn[k].setting = BoundOf(x)
    BY <1>4, TxAssumption, SMTT(30) DEF TxInv, SettingOK, x
  <1>23. /\ conn[k].mark \subseteq {[kind |-> x.kind, tenant |-> x.tenant,
                                      before |-> conn[k].seen]}
         /\ conn[k].mark # {} /\ x.kind = "cascade" => x.at = 5
         /\ x.kind = "cascade" /\ x.at \in 4..5 =>
               \A r \in rows : r.tenant = x.tenant /\ r.id < conn[k].seen
                                   => r \in conn[k].del
    BY <1>4, TxAssumption DEF TxInv, WrittenOK, x
  <1>24. /\ n.seen <= nextId
         /\ n.mark \subseteq {[kind |-> y.kind, tenant |-> y.tenant, before |-> n.seen]}
         /\ n.mark # {} /\ y.kind = "cascade" => y.at = 5
         /\ y.kind = "cascade" /\ y.at \in 4..5 =>
               \A r \in rows : r.tenant = y.tenant /\ r.id < n.seen => r \in n.del
    <2>1. CASE x.kind = "grant"
      BY <1>12, <1>13, <1>16, <1>18, <1>23, <2>1
    <2>2. CASE x.kind = "cascade" /\ x.at = 1
      BY <1>5, <1>13, <1>16, <1>18, <1>23, <2>2, SMTT(20)
    <2>3. CASE x.kind = "cascade" /\ x.at = 3
      <3>1. conn[k].setting = x.tenant /\ x.tenant \in Tenants
        BY <1>9, <1>11, <1>22, <2>3
      <3>2. conn[k].mark = {}
        BY <1>23, <2>3
      <3>3. n.mark = conn[k].mark /\ n.seen = nextId
        BY <1>12, <1>16, <2>3, ZenonT(30)
      <3>4. \A r \in rows : r.tenant = x.tenant => r \in n.del
        <4> DEFINE D == {r \in rows : r.tenant = x.tenant /\ Visible(conn[k].setting, r.tenant)}
        <4>1. n = [conn[k] EXCEPT !.del = D, !.seen = nextId]
          BY <1>16, <2>3
        <4>2. \A r \in rows : r.tenant = x.tenant => r \in D
          BY <3>1 DEF Visible
        <4> HIDE DEF D
        <4>3. n.del = D
          BY <1>12, <4>1, SMTT(30)
        <4> QED
          BY <4>2, <4>3
      <3> QED
        BY <1>13, <1>18, <3>2, <3>3, <3>4
    <2>4. CASE x.kind = "cascade" /\ x.at = 4
      <3>1. /\ n.mark = {[kind |-> x.kind, tenant |-> x.tenant, before |-> conn[k].seen]}
            /\ n.seen = conn[k].seen /\ n.del = conn[k].del
        BY <1>12, <1>16, <2>4
      <3>2. y.at = 5
        BY <1>6, <1>13, <2>4
      <3> QED
        BY <1>13, <1>18, <1>23, <2>4, <3>1, <3>2
    <2>5. CASE x.kind = "stray"
      BY <1>12, <1>13, <1>16, <1>18, <2>5
    <2> QED
      BY <1>17, <2>1, <2>2, <2>3, <2>4, <2>5, ZenonT(30)
  <1>25. UNCHANGED <<rows, nextId, marks, calls, acked>>
    BY SMTT(20) DEF Execute
  <1>26. TxTypeOK'
    <2>1. counted' \in [Outcomes \cup {"error"} -> Nat]
      BY <1>3 DEF TxInv, TxTypeOK, Outcomes
    <2> QED
      BY <1>7, <1>8, <1>13, <1>21, <1>25, <2>1 DEF TxInv, TxTypeOK
  <1>27. \A d \in Callers : caller'[d] # Idle => CallOK(caller'[d])
    BY <1>7, <1>14 DEF TxInv, TxTypeOK
  <1>28. \A j \in Conns : j \in {y.tx, y.own} <=> j \in {x.tx, x.own}
    BY <1>1, <1>13, TxAssumption, SMTT(30) DEF CallOK
  <1>29. HoldOK'
    BY <1>1, <1>4, <1>7, <1>8, <1>14, <1>20, <1>28, TxAssumption, SMTT(90)
       DEF TxInv, HoldOK, TxTypeOK, x
  <1>30. SettingOK'
    BY <1>4, <1>7, <1>8, <1>15, <1>20, <1>22, TxAssumption DEF TxInv, SettingOK, TxTypeOK
  <1>31. WrittenOK'
    <2> SUFFICES ASSUME NEW j \in Conns
                 PROVE  /\ conn'[j].seen <= nextId
                        /\ conn'[j].by = Nobody => conn'[j].mark = {}
                        /\ conn'[j].by # Nobody =>
                              LET v == caller'[conn'[j].by]
                              IN  /\ conn'[j].mark \subseteq
                                        {[kind |-> v.kind, tenant |-> v.tenant,
                                          before |-> conn'[j].seen]}
                                  /\ conn'[j].mark # {} /\ v.kind = "cascade" => v.at = 5
                                  /\ v.kind = "cascade" /\ v.at \in 4..5 =>
                                        \A r \in rows :
                                            r.tenant = v.tenant /\ r.id < conn'[j].seen
                                                => r \in conn'[j].del
      BY <1>25, ZenonT(30) DEF WrittenOK
    <2>1. CASE j = k
      <3>1. conn'[j] = n /\ n.by = c /\ c # Nobody /\ caller'[c] = y
        BY <1>4, <1>7, <1>8, <1>20, <2>1, TxAssumption DEF TxInv, TxTypeOK
      <3> QED
        BY <1>24, <3>1, ZenonT(30)
    <2>2. CASE j # k
      <3>1. conn'[j] = conn[j]
        BY <1>8, <2>2 DEF TxInv, TxTypeOK
      <3>2. conn[j].by # Nobody => caller'[conn[j].by] = caller[conn[j].by]
        BY <1>4, <1>7, <2>2, SMTT(30) DEF TxInv, TxTypeOK
      <3>3. conn[j].seen <= nextId /\ (conn[j].by = Nobody => conn[j].mark = {})
        BY DEF TxInv, WrittenOK
      <3>4. CASE conn[j].by = Nobody
        BY <3>1, <3>3, <3>4
      <3>5. CASE conn[j].by # Nobody
        <4>1. PICK v : v = caller[conn[j].by]
          OBVIOUS
        <4>2. /\ conn[j].mark \subseteq
                    {[kind |-> v.kind, tenant |-> v.tenant, before |-> conn[j].seen]}
              /\ conn[j].mark # {} /\ v.kind = "cascade" => v.at = 5
              /\ v.kind = "cascade" /\ v.at \in 4..5 =>
                    \A r \in rows : r.tenant = v.tenant /\ r.id < conn[j].seen
                                      => r \in conn[j].del
          BY <3>5, <4>1, Zenon DEF TxInv, WrittenOK
        <4>3. conn'[j] = conn[j] /\ caller'[conn'[j].by] = v
          BY <3>1, <3>2, <3>5, <4>1
        <4> QED
          BY <3>3, <3>5, <4>2, <4>3, Zenon
      <3> QED
        BY <3>4, <3>5, Zenon
    <2> QED
      BY <2>1, <2>2, ZenonT(30)
  <1>32. IdsOK' /\ MarkedMeansPurged'
    BY <1>25 DEF TxInv, IdsOK, MarkedMeansPurged
  <1> QED
    BY <1>26, <1>27, <1>29, <1>30, <1>31, <1>32 DEF TxInv

-----------------------------------------------------------------------------
(* The theorems.                                                            *)

\* Every step of a call keeps the invariant.
LEMMA TxNext == TxInv /\ [Next]_vars => TxInv'
  <1> SUFFICES ASSUME TxInv, [Next]_vars PROVE TxInv'
    OBVIOUS
  <1>1. ASSUME NEW c \in Callers, NEW kind \in Kinds,
               NEW t \in Tenants \cup {NoTenant}, Call(c, kind, t)
        PROVE  TxInv'
    BY <1>1, CallStep
  <1>2. ASSUME NEW c \in Callers, Step(c) PROVE TxInv'
    BY <1>2, RunInTxStep, OpenOwnStep, ExecuteStep, CommitOwnStep, CommitTxStep DEF Step
  <1>3. ASSUME NEW c \in Callers, Retry(c) \/ Fail(c) PROVE TxInv'
    BY <1>3, RetryStep, FailStep
  <1>4. CASE UNCHANGED vars
    BY <1>4, ZenonT(30) DEF vars, TxInv, TxTypeOK, HoldOK, SettingOK, WrittenOK, IdsOK, MarkedMeansPurged
  <1>5. ASSUME NEW c \in Callers, AckUnmarked(c) PROVE TxInv'
    BY <1>5, AckUnmarkedStep
  <1> QED
    BY <1>1, <1>2, <1>3, <1>4, <1>5 DEF Next

\* Reachable states satisfy the invariant.
LEMMA TxInvariant == Spec => []TxInv
  BY TxInit, TxNext, PTL DEF Spec

\* The pool, the calls and the tables keep their types, for any numbers of
\* connections, callers and attempts: WithWriteTx never runs an attempt too
\* many, and no call runs past the end of its handler.
THEOREM TxTypeCorrect == Spec => []TxTypeOK
  <1>1. TxInv => TxTypeOK
    BY DEF TxInv
  <1> QED
    BY <1>1, TxInvariant, PTL

\* withTenantGUC and withTenant bind with SET LOCAL: whatever the pool does
\* with its connections, a transaction never runs with the tenant of another
\* request or delivery.
THEOREM SettingNeverLeaks == Spec => []SettingIsOwn
  <1>1. TxInv => SettingIsOwn
    BY Zenon DEF TxInv, SettingOK, SettingIsOwn, BoundOf
  <1> QED
    BY <1>1, TxInvariant, PTL

\* The mark of Handle commits with the cascade it stands for, and that ran
\* under the tenant of the event: a marked purge has deleted every row of the
\* tenant that was there when it ran.
THEOREM PurgeIsComplete == Spec => []MarkedMeansPurged
  <1>1. TxInv => MarkedMeansPurged
    BY DEF TxInv
  <1> QED
    BY <1>1, TxInvariant, PTL

-----------------------------------------------------------------------------
(* The counters.                                                            *)

\* The call x has been counted as o and is not acknowledged yet.
Owed(x, o) ==
    /\ x # Idle
    /\ o = "success" => x.kind = "cascade" /\ x.at = 5
    /\ o = "duplicate" => x.pc = "skip"
    /\ o = "unexpected" => x.kind = "stray"

Owing(o) == {c \in Callers : Owed(caller[c], o)}

\* The counter of an outcome covers the deliveries acknowledged with it and
\* those that are about to be.
CountOK == \A o \in Outcomes : acked[o] + Cardinality(Owing(o)) <= counted[o]

One(b) == IF b THEN 1 ELSE 0

\* Sets that differ in one element differ by that one in size.
LEMMA OneElement ==
  ASSUME NEW S, IsFiniteSet(S), NEW T, NEW c, T \ {c} = S \ {c}
  PROVE  /\ Cardinality(S) \in Nat /\ Cardinality(T) \in Nat
         /\ Cardinality(T) + One(c \in S) = Cardinality(S) + One(c \in T)
  <1> DEFINE R == S \ {c}
  <1>1. IsFiniteSet(R) /\ Cardinality(R) \in Nat
    BY FS_RemoveElement, FS_CardinalityType
  <1>2. c \notin R /\ S \in {R, R \cup {c}} /\ T \in {R, R \cup {c}}
    OBVIOUS
  <1>3. Cardinality(R \cup {c}) = Cardinality(R) + 1
    BY <1>1, <1>2, FS_AddElement, SMTT(30)
  <1> HIDE DEF R
  <1> QED
    BY <1>1, <1>2, <1>3 DEF One

\* A step of one call keeps the counters right when what it adds to the
\* acknowledgements, or comes to owe, it adds to the counter.
LEMMA CountStep ==
  ASSUME TxTypeOK, TxTypeOK', CountOK, NEW c \in Callers, NEW y,
         caller' = [caller EXCEPT ![c] = y],
         \A o \in Outcomes :
            acked'[o] + One(Owed(y, o)) + counted[o]
                <= acked[o] + One(Owed(caller[c], o)) + counted'[o]
  PROVE  CountOK'
  <1> SUFFICES ASSUME NEW o \in Outcomes
               PROVE  acked'[o] + Cardinality(Owing(o)') <= counted'[o]
    BY DEF CountOK, Owing
  <1>1. IsFiniteSet(Owing(o))
    BY TxAssumption, FS_Subset DEF Owing
  <1>2. /\ Owing(o)' = {d \in Callers : Owed(caller'[d], o)}
        /\ caller'[c] = y /\ \A d \in Callers \ {c} : caller'[d] = caller[d]
    BY DEF Owing, Owed, TxTypeOK
  <1>3. Owing(o)' \ {c} = Owing(o) \ {c}
    BY <1>2 DEF Owing
  <1>4. /\ c \in Owing(o) <=> Owed(caller[c], o)
        /\ c \in Owing(o)' <=> Owed(y, o)
    BY <1>2 DEF Owing
  <1>5. /\ Cardinality(Owing(o)) \in Nat /\ Cardinality(Owing(o)') \in Nat
        /\ Cardinality(Owing(o)') + One(c \in Owing(o))
              = Cardinality(Owing(o)) + One(c \in Owing(o)')
    BY <1>1, <1>3, OneElement
  <1>6. /\ One(c \in Owing(o)) = One(Owed(caller[c], o))
        /\ One(c \in Owing(o)') = One(Owed(y, o))
    BY <1>4 DEF One
  <1>7. /\ acked[o] \in Nat /\ acked'[o] \in Nat
        /\ counted[o] \in Nat /\ counted'[o] \in Nat
    BY DEF TxTypeOK
  <1>8. acked[o] + Cardinality(Owing(o)) <= counted[o]
    BY DEF CountOK
  <1>9. One(Owed(caller[c], o)) \in Nat /\ One(Owed(y, o)) \in Nat
    BY DEF One
  <1>10. acked'[o] + One(Owed(y, o)) + counted[o]
            <= acked[o] + One(Owed(caller[c], o)) + counted'[o]
    OBVIOUS
  <1>11. Cardinality(Owing(o)') + One(Owed(caller[c], o))
            = Cardinality(Owing(o)) + One(Owed(y, o))
    BY <1>5, <1>6, Zenon
  <1> QED
    BY <1>5, <1>7, <1>8, <1>9, <1>10, <1>11, SMTT(30)

\* Where a call stands after its current operation.
LEMMA ContinueFacts ==
  ASSUME TxInv, NEW c \in Callers, caller[c] # Idle
  PROVE  \/ Continue(c) = Idle
         \/ /\ Continue(c) # Idle
            /\ Continue(c).kind = caller[c].kind
            /\ Continue(c).at = caller[c].at + 1
            /\ Continue(c).pc = "next"
  <1> DEFINE x == caller[c]
             y == [x EXCEPT !.at = @ + 1, !.own = NoConn, !.pc = "next"]
  <1>1. x \in CallType
    BY DEF TxInv, TxTypeOK
  <1>2. Continue(c) \in {Idle, y}
    BY DEF Continue
  <1> HIDE DEF x
  <1>3. y.kind = x.kind /\ y.at = x.at + 1 /\ y.pc = "next"
    BY <1>1 DEF CallType
  <1> HIDE DEF y
  <1>4. Idle.kind = "none" /\ x.kind \in Kinds
    BY <1>1 DEF Idle, CallType
  <1>5. y # Idle
    BY <1>3, <1>4, KindsAre
  <1> QED
    BY <1>2, <1>3, <1>5 DEF x

\* What is owed to a call that goes on.
LEMMA OwedNext ==
  ASSUME NEW x, NEW y, NEW o \in Outcomes, x # Idle,
         y = Idle \/ (y.kind = x.kind /\ y.pc # "skip" /\ y.at # 5)
  PROVE  One(Owed(y, o)) <= One(Owed(x, o))
  BY DEF One, Owed, Outcomes

\* ackUnknown counts as the call begins.
LEMMA CallCounts ==
  ASSUME TxInv, TxInv', CountOK, NEW c \in Callers, NEW kind \in Kinds,
         NEW t \in Tenants \cup {NoTenant}, Call(c, kind, t)
  PROVE  CountOK'
  <1> DEFINE y == [kind |-> kind, tenant |-> t, at |-> 1, attempt |-> 1,
                   tx |-> NoConn, own |-> NoConn, pc |-> "next"]
  <1>1. caller' = [caller EXCEPT ![c] = y] /\ caller[c] = Idle /\ acked' = acked
    BY SMTT(30) DEF Call
  <1>2. /\ counted'["success"] = counted["success"]
        /\ counted'["duplicate"] = counted["duplicate"]
        /\ counted'["unexpected"] = counted["unexpected"] + One(kind = "stray")
    <2>1. DOMAIN counted = {"success", "duplicate", "unexpected", "error"}
      BY DEF TxInv, TxTypeOK, Outcomes
    <2>2. counted["unexpected"] \in Nat
      BY DEF TxInv, TxTypeOK, Outcomes
    <2>3. counted' = IF kind = "stray" THEN [counted EXCEPT !["unexpected"] = @ + 1]
                     ELSE counted
      BY DEF Call
    <2>4. CASE kind = "stray"
      BY <2>1, <2>2, <2>3, <2>4 DEF One
    <2>5. CASE kind # "stray"
      BY <2>2, <2>3, <2>5 DEF One
    <2> QED BY <2>4, <2>5
  <1>3. y.kind = kind /\ y.at = 1 /\ y.pc = "next"
    OBVIOUS
  <1> HIDE DEF y
  <1>4. /\ One(Owed(y, "success")) = 0 /\ One(Owed(y, "duplicate")) = 0
        /\ One(Owed(y, "unexpected")) <= One(kind = "stray")
        /\ \A o \in Outcomes : One(Owed(caller[c], o)) = 0
    BY <1>1, <1>3 DEF One, Owed
  <1>5. \A o \in Outcomes : acked[o] \in Nat /\ counted[o] \in Nat
    BY DEF TxInv, TxTypeOK
  <1>6. One(kind = "stray") \in Nat /\ One(Owed(y, "unexpected")) \in Nat
    BY DEF One
  <1>7. \A o \in Outcomes :
            acked'[o] + One(Owed(y, o)) + counted[o]
                <= acked[o] + One(Owed(caller[c], o)) + counted'[o]
    BY <1>1, <1>2, <1>4, <1>5, <1>6 DEF Outcomes
  <1> QED
    BY <1>1, <1>7, CountStep, Zenon DEF TxInv

\* An event that cannot be marked is counted and acknowledged at once.
LEMMA AckUnmarkedCounts ==
  ASSUME TxInv, CountOK, NEW c \in Callers, AckUnmarked(c)
  PROVE  CountOK'
  <1> SUFFICES ASSUME NEW o \in Outcomes
               PROVE  acked'[o] + Cardinality(Owing(o)') <= counted'[o]
    BY DEF CountOK, Owing
  <1>1. Owing(o)' = Owing(o)
    BY DEF AckUnmarked, Owing
  <1>2. Cardinality(Owing(o)) \in Nat
    BY TxAssumption, FS_Subset, FS_CardinalityType DEF Owing
  <1>3. acked[o] \in Nat /\ counted[o] \in Nat
    BY DEF TxInv, TxTypeOK
  <1>4. \/ acked'[o] = acked[o] + 1 /\ counted'[o] = counted[o] + 1
        \/ acked'[o] = acked[o] /\ counted'[o] = counted[o]
    BY DEF TxInv, TxTypeOK, AckUnmarked, Outcomes
  <1>5. acked[o] + Cardinality(Owing(o)) <= counted[o]
    BY DEF CountOK
  <1> QED
    BY <1>1, <1>2, <1>3, <1>4, <1>5

\* A step that acknowledges nothing, counts nothing and owes nothing new.
LEMMA QuietCounts ==
  ASSUME TxInv, TxInv', CountOK, NEW c \in Callers, NEW y, caller[c] # Idle,
         caller' = [caller EXCEPT ![c] = y],
         y = Idle \/ (y.kind = caller[c].kind /\ y.pc # "skip" /\ y.at # 5),
         acked' = acked, \A o \in Outcomes : counted'[o] = counted[o]
  PROVE  CountOK'
  <1>1. \A o \in Outcomes : One(Owed(y, o)) <= One(Owed(caller[c], o))
    BY OwedNext
  <1>2. \A o \in Outcomes : acked[o] \in Nat /\ counted[o] \in Nat
    BY DEF TxInv, TxTypeOK
  <1>3. \A o : One(Owed(y, o)) \in Nat /\ One(Owed(caller[c], o)) \in Nat
    BY DEF One
  <1>4. \A o \in Outcomes :
            acked'[o] + One(Owed(y, o)) + counted[o]
                <= acked[o] + One(Owed(caller[c], o)) + counted'[o]
    BY <1>1, <1>2, <1>3
  <1> QED
    BY <1>4, CountStep, Zenon DEF TxInv

\* Opening a transaction counts nothing.
LEMMA OpenCounts ==
  ASSUME TxInv, TxInv', CountOK, NEW c \in Callers, RunInTx(c) \/ OpenOwn(c)
  PROVE  CountOK'
  <1> DEFINE x == caller[c]
  <1>1. CallOK(x) /\ x # Idle /\ x \in CallType /\ acked' = acked /\ counted' = counted
    BY DEF RunInTx, OpenOwn, CallOK, TxInv
  <1>2. x.kind \in {"grant", "cascade", "stray"} /\ x.at \in 1..5
    BY <1>1, KindsAre DEF CallType
  <1>3. CASE RunInTx(c)
    <2>1. PICK k \in Conns :
             caller' = [caller EXCEPT ![c] = [Continue(c) EXCEPT !.tx = k]]
      BY <1>3, ZenonT(30) DEF RunInTx
    <2>2. x.at \in 1..2 /\ ~Last(c)
      <3>1. (x.kind = "cascade" /\ x.at = 2) \/ (x.kind = "stray" /\ x.at = 1)
        BY <1>1, <1>2, <1>3, OpFacts DEF RunInTx, Op, CallOK
      <3>2. ~Last(c)
        BY <1>1, <3>1, OpFacts, ZenonT(30) DEF Last
      <3> QED
        BY <3>1, <3>2
    <2> DEFINE y == [[x EXCEPT !.at = @ + 1, !.own = NoConn, !.pc = "next"] EXCEPT !.tx = k]
    <2>3. caller' = [caller EXCEPT ![c] = y]
      BY <2>1, <2>2 DEF Continue
    <2> HIDE DEF x
    <2>4. y.kind = x.kind /\ y.at = x.at + 1 /\ y.pc = "next"
      BY <1>1 DEF CallType
    <2> HIDE DEF y
    <2>5. y.kind = caller[c].kind /\ y.pc # "skip" /\ y.at # 5
      BY <2>2, <2>4 DEF x
    <2> QED
      BY <1>1, <2>3, <2>5, QuietCounts, Zenon DEF x
  <1>4. CASE OpenOwn(c)
    <2>1. PICK k \in Conns : caller' = [caller EXCEPT ![c].own = k, ![c].pc = "run"]
      BY <1>4, ZenonT(30) DEF OpenOwn
    <2> DEFINE y == [x EXCEPT !.own = k, !.pc = "run"]
    <2>2. caller' = [caller EXCEPT ![c] = y]
      BY <2>1, ZenonT(30) DEF TxInv, TxTypeOK
    <2>3. x.at # 5
      <3>1. IsMethod(Program[x.kind][x.at]) /\ x.tx = NoConn
        BY <1>4 DEF OpenOwn, NeedsOwn, Op, Joins
      <3> QED
        BY <1>1, <1>2, <3>1 DEF CallOK
    <2> HIDE DEF x
    <2>4. y.kind = x.kind /\ y.at = x.at /\ y.pc = "run"
      BY <1>1 DEF CallType
    <2> HIDE DEF y
    <2>5. y.kind = caller[c].kind /\ y.pc # "skip" /\ y.at # 5
      BY <2>3, <2>4 DEF x
    <2> QED
      BY <1>1, <2>2, <2>5, QuietCounts, Zenon DEF x
  <1> QED
    BY <1>3, <1>4

\* The mark of a cascade is counted as the success it is about to be, a hit
\* of the probe as a duplicate.
LEMMA ExecuteCounts ==
  ASSUME TxInv, TxInv', CountOK, NEW c \in Callers, Execute(c)
  PROVE  CountOK'
  <1> DEFINE x == caller[c]
             hit == Op(c) = "probe" /\ IsProcessed(x.tenant)
             p == IF hit THEN "skip" ELSE "close"
             y == IF x.pc = "next" THEN Continue(c) ELSE [x EXCEPT !.pc = p]
             s == CountsSuccess(c, x.tx)
  <1>1. CallOK(x) /\ x # Idle /\ x \in CallType /\ acked' = acked
    BY DEF Execute, CallOK, TxInv
  <1>2. x.kind \in {"grant", "cascade", "stray"} /\ x.at \in 1..5
    BY <1>1, KindsAre DEF CallType
  <1>3. /\ \/ x.pc = "run"
           \/ x.pc = "next" /\ Joins(c)
        /\ counted' = [counted EXCEPT
              !["success"] = IF s THEN @ + 1 ELSE @,
              !["duplicate"] = IF hit THEN @ + 1 ELSE @]
        /\ caller' = [caller EXCEPT ![c] =
              IF x.pc = "next" THEN Continue(c)
              ELSE [@ EXCEPT !.pc = IF hit THEN "skip" ELSE "close"]]
    BY ZenonT(30) DEF Execute, Runs, CountsSuccess
  <1>4. caller' = [caller EXCEPT ![c] = y]
    BY <1>3
  <1>5. /\ x.pc = "next" => (x.kind = "cascade" /\ x.at \in 3..4) \/ x.kind = "stray"
        /\ x.pc # "next" => x.kind \in {"grant", "cascade"} /\ x.at = 1
    BY <1>1, <1>2, <1>3, TxAssumption, OpFacts, SMTT(30)
       DEF Execute, Runs, IsMethod, Op, CallOK, Joins
  <1>6. s <=> x.kind = "cascade" /\ x.at = 4
    BY <1>1, OpPlace, Zenon DEF CountsSuccess, Op
  <1>7. hit => x.kind = "cascade" /\ x.at = 1
    BY <1>1, OpPlace, Zenon DEF Op
  <1>8. /\ counted'["success"] = counted["success"] + One(s)
        /\ counted'["duplicate"] = counted["duplicate"] + One(hit)
        /\ counted'["unexpected"] = counted["unexpected"]
    <2>1. counted \in [Outcomes \cup {"error"} -> Nat]
      BY DEF TxInv, TxTypeOK
    <2> HIDE DEF s, hit
    <2> QED
      BY <1>3, <2>1 DEF Outcomes, One
  <1>9. /\ One(Owed(y, "success")) <= One(Owed(x, "success")) + One(s)
        /\ One(Owed(y, "duplicate")) <= One(Owed(x, "duplicate")) + One(hit)
        /\ One(Owed(y, "unexpected")) <= One(Owed(x, "unexpected"))
    <2>1. CASE x.pc = "next"
      <3>1. y = Idle \/ (y.kind = x.kind /\ y.at = x.at + 1 /\ y.pc = "next")
        BY <1>1, <2>1, ContinueFacts
      <3> HIDE DEF y, x, s, hit
      <3> QED
        BY <1>1, <1>2, <1>5, <1>6, <2>1, <3>1 DEF Owed, One
    <2>2. CASE x.pc # "next"
      <3>1. y = [x EXCEPT !.pc = p]
        BY <2>2
      <3> HIDE DEF y, x, s, hit
      <3>2. y.kind = x.kind /\ y.at = x.at /\ (y.pc = "skip" => hit)
        BY <1>1, <3>1 DEF CallType
      <3> HIDE DEF p
      <3> QED
        BY <1>1, <1>5, <2>2, <3>2 DEF Owed, One
    <2> QED
      BY <2>1, <2>2
  <1>10. \A o \in Outcomes : acked[o] \in Nat /\ counted[o] \in Nat
    BY DEF TxInv, TxTypeOK
  <1>11. One(s) \in Nat /\ One(hit) \in Nat
         /\ \A o : One(Owed(y, o)) \in Nat /\ One(Owed(x, o)) \in Nat
    BY DEF One
  <1> HIDE DEF y, s, hit
  <1>12. \A o \in Outcomes :
            acked'[o] + One(Owed(y, o)) + counted[o]
                <= acked[o] + One(Owed(caller[c], o)) + counted'[o]
    BY <1>1, <1>8, <1>9, <1>10, <1>11 DEF Outcomes
  <1> QED
    BY <1>4, <1>12, CountStep, Zenon DEF TxInv

\* What is acknowledged was owed.
LEMMA AckCounts ==
  ASSUME TxInv, TxInv', CountOK, NEW c \in Callers, NEW a \in Outcomes,
         Owed(caller[c], a), caller' = [caller EXCEPT ![c] = Idle],
         acked' = [acked EXCEPT ![a] = @ + 1], counted' = counted
  PROVE  CountOK'
  <1>1. \A o \in Outcomes : acked[o] \in Nat /\ counted[o] \in Nat
    BY DEF TxInv, TxTypeOK
  <1>2. \A o \in Outcomes : acked'[o] = acked[o] + One(o = a)
    BY <1>1 DEF TxInv, TxTypeOK, One
  <1>3. \A o : One(Owed(Idle, o)) = 0
    BY DEF One, Owed
  <1>4. \A o \in Outcomes : /\ One(o = a) <= One(Owed(caller[c], o))
                           /\ One(o = a) \in Nat /\ One(Owed(caller[c], o)) \in Nat
    BY DEF One
  <1>5. \A o \in Outcomes :
            acked'[o] + One(Owed(Idle, o)) + counted[o]
                <= acked[o] + One(Owed(caller[c], o)) + counted'[o]
    BY <1>1, <1>2, <1>3, <1>4
  <1> QED
    BY <1>5, CountStep, Zenon DEF TxInv

\* Handle returns nil: after a hit, or when the transaction is committed.
LEMMA CommitCounts ==
  ASSUME TxInv, TxInv', CountOK, NEW c \in Callers, CommitOwn(c) \/ CommitTx(c)
  PROVE  CountOK'
  <1> DEFINE x == caller[c]
  <1>1. CallOK(x) /\ x # Idle /\ x \in CallType /\ counted' = counted
    BY Zenon DEF CommitOwn, CommitTx, CallOK, TxInv
  <1>2. x.kind \in {"grant", "cascade", "stray"} /\ x.at \in 1..5
    BY <1>1, KindsAre DEF CallType
  <1>3. CASE CommitOwn(c) /\ x.pc = "skip"
    <2>1. /\ caller' = [caller EXCEPT ![c] = Idle]
          /\ acked' = [acked EXCEPT !["duplicate"] = @ + 1]
      BY <1>3, Zenon DEF CommitOwn
    <2>2. Owed(caller[c], "duplicate") /\ "duplicate" \in Outcomes
      BY <1>1, <1>3 DEF Owed, Outcomes
    <2> QED
      BY <1>1, <2>1, <2>2, AckCounts, Zenon
  <1>4. CASE CommitOwn(c) /\ x.pc # "skip"
    <2>1. caller' = [caller EXCEPT ![c] = Continue(c)] /\ acked' = acked
      BY <1>4, Zenon DEF CommitOwn
    <2>2. x.at = 1
      BY <1>1, <1>4, ZenonT(60) DEF CallOK, CommitOwn
    <2>3. Continue(c) = Idle \/ (/\ Continue(c).kind = caller[c].kind
                                /\ Continue(c).pc # "skip" /\ Continue(c).at # 5)
      BY <1>1, <2>2, ContinueFacts
    <2> QED
      BY <1>1, <2>1, <2>3, QuietCounts, ZenonT(60)
  <1>5. CASE CommitTx(c)
    <2> DEFINE a == IF x.kind = "cascade" THEN "success" ELSE "unexpected"
    <2>1. /\ caller' = [caller EXCEPT ![c] = Idle]
          /\ acked' = [acked EXCEPT ![a] = @ + 1]
      BY <1>5, ZenonT(60) DEF CommitTx
    <2>2. (x.kind = "cascade" /\ x.at = 5) \/ x.kind = "stray"
      BY <1>1, <1>5, OpPlace, Zenon DEF CommitTx, Op
    <2>3. a \in Outcomes /\ Owed(caller[c], a)
      BY <1>1, <2>2 DEF Owed, Outcomes
    <2> HIDE DEF a
    <2> QED
      BY <1>1, <2>1, <2>3, AckCounts, Zenon
  <1> QED
    BY <1>3, <1>4, <1>5

\* A failure acknowledges nothing; what it leaves is counted once too often.
LEMMA FailureCounts ==
  ASSUME TxInv, TxInv', CountOK, NEW c \in Callers, Retry(c) \/ Fail(c)
  PROVE  CountOK'
  <1> DEFINE x == caller[c]
  <1>1. x # Idle /\ x \in CallType /\ acked' = acked
    BY DEF Retry, Fail, TxInv, TxTypeOK
  <1>2. \A o \in Outcomes : counted'[o] = counted[o]
    BY DEF Retry, Fail, CountError, TxInv, TxTypeOK, Outcomes
  <1>3. CASE Retry(c)
    <2> DEFINE n == IF x.kind = "cascade" THEN 2 ELSE 1
               y == [x EXCEPT !.attempt = @ + 1, !.tx = NoConn, !.own = NoConn,
                              !.pc = "next", !.at = n]
    <2>1. caller' = [caller EXCEPT ![c] = y]
      BY <1>3, ZenonT(30) DEF Retry, TxInv, TxTypeOK
    <2> HIDE DEF x
    <2>2. y.kind = x.kind /\ y.pc = "next" /\ y.at = n
      BY <1>1 DEF CallType
    <2>3. n # 5
      OBVIOUS
    <2> HIDE DEF y, n
    <2> QED
      BY <1>1, <1>2, <2>1, <2>2, <2>3, QuietCounts, Zenon DEF x
  <1>4. CASE Fail(c)
    BY <1>1, <1>2, <1>4, QuietCounts, Zenon DEF Fail
  <1> QED
    BY <1>3, <1>4

\* Whatever fails and is retried, no delivery is acknowledged that the
\* counter of its outcome does not show.
THEOREM AcksAreCounted == Spec => []EveryAckCounted
  <1>1. Init => CountOK
    <2> SUFFICES ASSUME Init, NEW o \in Outcomes
                 PROVE  acked[o] + Cardinality(Owing(o)) <= counted[o]
      BY DEF CountOK
    <2>1. Owing(o) = {}
      BY DEF Init, Owing, Owed
    <2>2. acked[o] = 0 /\ counted[o] = 0
      BY DEF Init
    <2> QED
      BY <2>1, <2>2, FS_EmptySet
  <1>2. TxInv /\ TxInv' /\ CountOK /\ [Next]_vars => CountOK'
    <2>1. CountOK /\ UNCHANGED vars => CountOK'
      BY DEF CountOK, Owing, vars
    <2> QED
      BY <2>1, CallCounts, AckUnmarkedCounts, OpenCounts, ExecuteCounts, CommitCounts, FailureCounts
         DEF Next, Step
  <1>3. TxInv /\ CountOK => EveryAckCounted
    <2> SUFFICES ASSUME TxInv, CountOK, NEW o \in Outcomes PROVE acked[o] <= counted[o]
      BY DEF EveryAckCounted
    <2>1. acked[o] \in Nat /\ counted[o] \in Nat /\ Cardinality(Owing(o)) \in Nat
      BY TxAssumption, FS_Subset, FS_CardinalityType DEF TxInv, TxTypeOK, Owing
    <2> QED
      BY <2>1 DEF CountOK
  <1> QED
    BY <1>1, <1>2, <1>3, TxInvariant, PTL DEF Spec
-----------------------------------------------------------------------------
(* Nobody is stuck.                                                         *)

\* A call that is not about to open a transaction has the one it needs.
LEMMA GoesOn ==
  ASSUME TxInv, NEW c \in Callers, caller[c] # Idle,
         Op(c) # "begin", ~NeedsOwn(c)
  PROVE  CanGoOn(c)
  <1> DEFINE x == caller[c]
  <1>1. CallOK(x) /\ x \in CallType
    BY DEF TxInv, CallOK
  <1>2. /\ x.kind \in {"grant", "cascade", "stray"} /\ x.at \in 1..5
        /\ x.pc \in {"next", "run", "close", "skip"}
        /\ x.tx \in Conns \cup {NoConn} /\ x.own \in Conns \cup {NoConn}
        /\ x.tenant \in Tenants \cup {NoTenant}
    BY <1>1, KindsAre DEF CallType
  <1>3. Op(c) = Program[x.kind][x.at]
    BY DEF Op
  <1>4. CASE x.pc \in {"close", "skip"}
    BY <1>4 DEF CanGoOn
  <1>5. CASE x.pc = "run"
    <2>1. x.own \in Conns /\ x.kind \in {"grant", "cascade"} /\ x.at = 1
      BY <1>1, <1>2, <1>5 DEF CallOK
    <2>2. Op(c) \in {"insert", "probe"} /\ (Op(c) = "insert" => x.kind = "grant")
      BY <1>1, <1>3, <2>1, OpFacts
    <2>3. conn[x.own].by = c /\ c # Nobody
      BY <2>1, TxAssumption DEF TxInv, HoldOK
    <2>4. Op(c) = "insert" => Visible(conn[x.own].setting, x.tenant)
      <3> SUFFICES ASSUME Op(c) = "insert" PROVE Visible(conn[x.own].setting, x.tenant)
        OBVIOUS
      <3>1. x.kind = "grant" /\ x.tenant \in Tenants
        BY <1>1, <1>2, <2>2 DEF CallOK
      <3>2. BoundOf(x) = x.tenant
        BY <1>1, <3>1, BoundFacts
      <3>3. conn[x.own].setting = x.tenant
        BY <2>1, <2>3, <3>1, <3>2 DEF TxInv, SettingOK
      <3> QED BY <3>1, <3>3 DEF Visible
    <2>5. Runs(c, x.own)
      BY <1>5, <2>2, <2>4 DEF Runs, IsMethod
    <2> QED BY <2>1, <2>5 DEF CanGoOn
  <1>6. CASE x.pc = "next" /\ x.tx = NoConn
    <2>1. ~IsMethod(Op(c))
      BY <1>6 DEF NeedsOwn, Joins
    <2>2. \/ x.kind = "grant"
          \/ x.kind = "cascade" /\ x.at \in {1, 2}
          \/ x.kind = "stray" /\ x.at = 1
      BY <1>1, <1>2, <1>6 DEF CallOK
    <2>3. Op(c) \in {"insert", "probe", "begin"}
      BY <1>1, <1>3, <2>2, OpFacts
    <2> QED BY <2>1, <2>3 DEF IsMethod
  <1>7. CASE x.pc = "next" /\ x.tx # NoConn
    <2>1. (x.kind = "cascade" /\ x.at \in {3, 4, 5}) \/ (x.kind = "stray" /\ x.at \in {2, 3})
      BY <1>1, <1>2, <1>7 DEF CallOK
    <2>2. Op(c) \in {"cascade", "mark", "commit"}
      BY <1>1, <1>3, <2>1, OpFacts
    <2>3. CASE Op(c) = "commit"
      BY <2>3 DEF CanGoOn
    <2>4. CASE Op(c) \in {"cascade", "mark"}
      <3>1. Runs(c, x.tx)
        BY <1>7, <2>4 DEF Runs, IsMethod, Joins
      <3> QED BY <1>2, <1>7, <3>1 DEF CanGoOn
    <2> QED BY <2>2, <2>3, <2>4
  <1> QED BY <1>2, <1>4, <1>5, <1>6, <1>7

\* A call that holds a connection opens no transaction: what withTenant and
\* withPool do inside RunInTx joins.
LEMMA HolderOpensNone ==
  ASSUME TxInv, NEW k \in Conns, NEW c \in Callers, conn[k].by = c
  PROVE  caller[c] # Idle /\ Op(c) # "begin" /\ ~NeedsOwn(c)
  <1> DEFINE x == caller[c]
  <1>1. x # Idle /\ k \in {x.tx, x.own}
    BY TxAssumption DEF TxInv, HoldOK
  <1>2. CallOK(x) /\ x \in CallType
    BY <1>1 DEF TxInv, CallOK
  <1>3. x.kind \in {"grant", "cascade", "stray"} /\ x.at \in 1..5
    BY <1>2, KindsAre DEF CallType
  <1>4. x.tx # NoConn \/ x.own # NoConn
    BY <1>1, TxAssumption
  <1>5. ~NeedsOwn(c)
    BY <1>2, <1>4 DEF NeedsOwn, Joins, CallOK
  <1>6. Op(c) # "begin"
    <2>1. Op(c) = Program[x.kind][x.at]
      BY DEF Op
    <2>2. \/ x.kind = "grant"
          \/ x.kind = "cascade" /\ x.at \in {1, 3, 4, 5}
          \/ x.kind = "stray" /\ x.at \in {2, 3}
      BY <1>2, <1>3, <1>4 DEF CallOK
    <2> QED BY <1>2, <2>1, <2>2, OpFacts
  <1> QED BY <1>1, <1>5, <1>6

\* With any number of callers on any pool of at least one connection, some
\* call can go on while one is under way: whoever holds a connection needs no
\* other, so a call that waits for the pool waits for one that can go on.
THEOREM NobodyIsStuck == Spec => []NobodyStuck
  <1>1. TxInv => NobodyStuck
    <2> SUFFICES ASSUME TxInv, NEW d \in Callers, caller[d] # Idle
                 PROVE  \E c \in Callers : CanGoOn(c)
      BY DEF NobodyStuck
    <2>1. CASE \E k \in Conns : conn[k].by = Nobody
      <3>1. CASE Op(d) = "begin" \/ NeedsOwn(d)
        BY <2>1, <3>1 DEF CanGoOn
      <3>2. CASE ~(Op(d) = "begin" \/ NeedsOwn(d))
        BY <3>2, GoesOn
      <3> QED BY <3>1, <3>2
    <2>2. CASE \A k \in Conns : conn[k].by # Nobody
      <3>1. PICK k \in Conns : TRUE
        BY TxAssumption
      <3>2. conn[k].by \in Callers
        BY <2>2 DEF TxInv, TxTypeOK
      <3> QED BY <3>2, HolderOpensNone, GoesOn
    <2> QED BY <2>1, <2>2
  <1> QED BY <1>1, TxInvariant, PTL
=============================================================================

---------------------------- MODULE CascadeProofs ----------------------------
(***************************************************************************)
(* For any events, workers, rows and numbers of deliveries: an event that  *)
(* is marked or acknowledged has been carried out, a row is soft-deleted   *)
(* once, a mark outlives the messages it answers for, and the consumers    *)
(* implement AccessTable.  With members and requests around them: the      *)
(* cascades leave no grant of a former member behind but those that were   *)
(* between check and INSERT, and a replay takes no grant that was made in  *)
(* quiet.                                                                  *)
(***************************************************************************)
EXTENDS MembershipCascade, EntryTableProofs

KeyOf(l) == [id |-> l.id, consumer |-> l.consumer]

\* Clock and table, seen from a message.
MessageOK(e) ==
    /\ msg[e].sent <= now /\ msg[e].before <= nextId
    /\ msg[e].status = "queued" => now < msg[e].sent + Lifetime
    /\ msg[e].status = "deleted" /\ e.known => e \in committed

\* What has been carried out: the rows are gone, and the mark is there for as
\* long as the message is.
CommittedOK(e) ==
    /\ Valid(e) /\ Gone(e) /\ msg[e].status # "unsent"
    /\ msg[e].status = "queued" =>
          \E l \in ledger : KeyOf(l) = LedgerKey(e) /\ msg[e].sent <= l.at

\* What a delivery knows, by where it is.
DeliveryOK(d) ==
    /\ d \in Deliveries
    /\ msg[d.env].status # "unsent" /\ msg[d.env].sent <= d.at
    /\ d.at <= now /\ now <= d.at + 1
    /\ d.seen <= nextId
    /\ d.pc \in {"probe", "begin", "cascade"} => Valid(d.env)
    /\ d.pc \in {"mark", "commit"} =>
          /\ d.env.id # Malformed
          /\ IF d.env.known THEN Valid(d.env) ELSE d.seen = 0
    /\ d.pc \in {"cascade", "mark", "commit"} /\ d.env.known
          => msg[d.env].before <= d.seen
    /\ d.pc = "ack" /\ d.env.known => d.env \in committed
    /\ d.late => d.pc \in {"probe", "ack"}
    /\ d.late /\ d.pc = "probe" =>
          \E l \in ledger : KeyOf(l) = LedgerKey(d.env) /\ d.at < l.at + Retention

\* A mark of a known event is there because it was carried out.
LedgerOK == \A e \in Envelopes : e.known /\ IsProcessed(e) => e \in committed

CInv ==
    /\ TypeOK
    /\ TableOK(rows, nextId)
    /\ \A e \in Envelopes : MessageOK(e)
    /\ \A e \in committed : CommittedOK(e)
    /\ \A w \in Workers : worker[w] # Idle => DeliveryOK(worker[w])
    /\ LedgerOK

-----------------------------------------------------------------------------
(* Facts about the operators.                                               *)

\* An idle worker has no delivery.
LEMMA IdleIsNone == Idle \notin Deliveries
  BY DEF Idle, Deliveries

\* A key of the ledger belongs to one event.
LEMMA KeyIsUnique ==
  ASSUME NEW d \in Envelopes, NEW e \in Envelopes, d.id # Malformed,
         LedgerKey(d) = LedgerKey(e)
  PROVE  d = e
  <1>1. d.id = e.id /\ d.consumer = e.consumer
    BY DEF LedgerKey
  <1> QED
    BY <1>1, UniqueIdAssumption

\* The service starts with nothing sent and nothing done.
LEMMA CascadeInit == Init => CInv
  <1> SUFFICES ASSUME Init PROVE CInv
    OBVIOUS
  <1>1. TypeOK
    BY BoundsAssumption DEF Init, TypeOK, MessageType
  <1>2. \A e \in Envelopes : MessageOK(e)
    BY DEF Init, MessageOK
  <1> QED
    BY <1>1, <1>2 DEF Init, CInv, TableOK, LedgerOK, IsProcessed

-----------------------------------------------------------------------------
(* The steps.                                                               *)

\* Only a worker moves: its new delivery must be in order.
LEMMA WorkerStep ==
  ASSUME CInv, NEW w \in Workers, NEW d, d = Idle \/ DeliveryOK(d),
         worker' = [worker EXCEPT ![w] = d],
         UNCHANGED <<now, rows, nextId, msg, ledger, committed>>
  PROVE  CInv'
  <1> USE DEF CInv
  <1>1. TypeOK'
    BY DEF TypeOK, DeliveryOK
  <1>2. ASSUME NEW v \in Workers, worker'[v] # Idle
        PROVE  DeliveryOK(worker[v])'
    <2>1. CASE v = w
      <3>1. worker'[v] = d /\ DeliveryOK(d)
        BY <1>2, <2>1 DEF TypeOK
      <3> QED
        BY <3>1 DEF DeliveryOK
    <2>2. CASE v # w
      <3>1. worker'[v] = worker[v] /\ DeliveryOK(worker[v])
        BY <1>2, <2>2 DEF TypeOK
      <3> QED
        BY <3>1 DEF DeliveryOK
    <2> QED
      BY <2>1, <2>2
  <1>3. \A e \in Envelopes : MessageOK(e)'
    BY DEF MessageOK
  <1>4. \A e \in committed' : CommittedOK(e)'
    BY DEF CommittedOK, Gone
  <1>5. LedgerOK' /\ TableOK(rows', nextId')
    BY DEF LedgerOK, IsProcessed
  <1> QED
    BY <1>1, <1>2, <1>3, <1>4, <1>5

\* The steps of a delivery that change neither the queue nor the tables.
LEMMA QuietSteps ==
  ASSUME CInv, NEW w \in Workers,
         Probe(w) \/ Begin(w) \/ Cascade(w) \/ Deadlock(w) \/ Mark(w)
            \/ Reject(w) \/ Fail(w)
  PROVE  CInv'
  <1> DEFINE x == worker[w]
  <1>1. UNCHANGED <<now, rows, nextId, msg, ledger, committed>>
    BY DEF Probe, Begin, Cascade, Deadlock, Mark, Reject, Fail
  <1>2. x # Idle /\ DeliveryOK(x) /\ x \in Deliveries
    <2>1. x # Idle
      BY DEF Probe, Begin, Cascade, Deadlock, Mark, Reject, Fail, At, Idle
    <2> QED
      BY <2>1 DEF CInv, DeliveryOK
  <1>3. CASE Reject(w) \/ Fail(w)
    <2>1. worker' = [worker EXCEPT ![w] = Idle]
      BY <1>3 DEF Reject, Fail
    <2> QED
      BY <1>1, <2>1, WorkerStep, Zenon
  <1>4. CASE Probe(w)
    <2> DEFINE p == IF IsProcessed(x.env) THEN "ack" ELSE "begin"
               y == [x EXCEPT !.pc = p]
    <2>1. worker' = [worker EXCEPT ![w] = y]
      BY <1>4 DEF Probe, Goto, CInv, TypeOK
    <2>2. p = "ack" \/ p = "begin"
      OBVIOUS
    <2>3. x.pc = "probe" /\ Valid(x.env) /\ x.env \in Envelopes /\ x.env.known
      BY <1>2, <1>4 DEF Probe, At, DeliveryOK, Deliveries, Valid
    <2>4. p = "ack" => x.env \in committed
      BY <2>3 DEF CInv, LedgerOK
    <2>5. x.late => p = "ack"
      BY <1>2, <2>3 DEF DeliveryOK, IsProcessed, KeyOf
    <2> HIDE DEF p, x
    <2>6. /\ y \in Deliveries /\ y.pc = p /\ y.env = x.env /\ y.at = x.at
          /\ y.seen = x.seen /\ y.late = x.late
      BY <1>2, <2>2 DEF Deliveries
    <2> HIDE DEF y
    <2>7. DeliveryOK(y)
      BY <1>2, <2>2, <2>3, <2>4, <2>5, <2>6 DEF DeliveryOK
    <2> QED
      BY <1>1, <2>1, <2>7, WorkerStep, Zenon
  <1>5. CASE Begin(w)
    <2> DEFINE y == [x EXCEPT !.pc = "cascade", !.at = now, !.seen = nextId]
    <2>1. worker' = [worker EXCEPT ![w] = y] /\ x.pc = "begin"
      BY <1>5, Zenon DEF Begin, At, CInv, TypeOK
    <2>2. x.env \in Envelopes /\ now \in Nat /\ nextId \in Nat
      BY <1>2 DEF CInv, TypeOK, Deliveries
    <2>3. MessageOK(x.env) /\ ~x.late
      BY <1>2, <2>1, <2>2 DEF CInv, DeliveryOK
    <2> HIDE DEF x
    <2>4. /\ y \in Deliveries /\ y.pc = "cascade" /\ y.env = x.env /\ y.at = now
          /\ y.seen = nextId /\ y.late = x.late
      BY <1>2, <2>2, Zenon DEF Deliveries
    <2> HIDE DEF y
    <2>5. DeliveryOK(y)
      BY <1>2, <2>1, <2>2, <2>3, <2>4 DEF DeliveryOK, MessageOK
    <2> QED
      BY <1>1, <2>1, <2>5, WorkerStep, Zenon
  <1>6. CASE Cascade(w)
    <2> DEFINE y == [x EXCEPT !.pc = "mark", !.attempt = 1]
    <2>1. worker' = [worker EXCEPT ![w] = y] /\ x.pc = "cascade"
      BY <1>6, Zenon DEF Cascade, At, CInv, TypeOK
    <2> HIDE DEF x
    <2>0. 1 \in 1..MaxAttempts
      BY BoundsAssumption
    <2>2. /\ y \in Deliveries /\ y.pc = "mark" /\ y.env = x.env /\ y.at = x.at
          /\ y.seen = x.seen /\ y.late = x.late
      BY <1>2, <2>0, Zenon DEF Deliveries
    <2> HIDE DEF y
    <2>3. Valid(x.env)
      BY <1>2, <2>1 DEF DeliveryOK
    <2>4. DeliveryOK(y)
      BY <1>2, <2>1, <2>2, <2>3 DEF DeliveryOK, Valid
    <2> QED
      BY <1>1, <2>1, <2>4, WorkerStep, Zenon
  <1>7. CASE Deadlock(w)
    <2> DEFINE y == [x EXCEPT !.pc = "begin", !.attempt = @ + 1]
    <2>1. worker' = [worker EXCEPT ![w] = y] /\ x.pc = "cascade"
      BY <1>7, Zenon DEF Deadlock, At, CInv, TypeOK
    <2>2. x.attempt + 1 \in 1..MaxAttempts
      BY <1>2, <1>7, BoundsAssumption DEF Deadlock, Deliveries
    <2> HIDE DEF x
    <2>3. /\ y \in Deliveries /\ y.pc = "begin" /\ y.env = x.env /\ y.at = x.at
          /\ y.seen = x.seen /\ y.late = x.late
      BY <1>2, <2>2, Zenon DEF Deliveries
    <2> HIDE DEF y
    <2>4. DeliveryOK(y)
      BY <1>2, <2>1, <2>3 DEF DeliveryOK
    <2> QED
      BY <1>1, <2>1, <2>4, WorkerStep, Zenon
  <1>8. CASE Mark(w)
    <2> DEFINE y == [x EXCEPT !.pc = "commit"]
    <2>1. worker' = [worker EXCEPT ![w] = y] /\ x.pc = "mark"
      BY <1>8 DEF Mark, Goto, At, CInv, TypeOK
    <2> HIDE DEF x
    <2>2. /\ y \in Deliveries /\ y.pc = "commit" /\ y.env = x.env /\ y.at = x.at
          /\ y.seen = x.seen /\ y.late = x.late
      BY <1>2 DEF Deliveries
    <2> HIDE DEF y
    <2>3. DeliveryOK(y)
      BY <1>2, <2>1, <2>2 DEF DeliveryOK
    <2> QED
      BY <1>1, <2>1, <2>3, WorkerStep, Zenon
  <1> QED
    BY <1>3, <1>4, <1>5, <1>6, <1>7, <1>8

\* What may become of a message once it was sent.
MessageMoves(e) ==
    /\ msg'[e].before = msg[e].before
    /\ \/ msg'[e].status = msg[e].status /\ msg'[e].sent = msg[e].sent
       \/ /\ msg[e].status # "unsent"
          /\ msg'[e].status \notin {"unsent", "queued"} /\ msg'[e].sent = 0
          /\ msg'[e].status = "deleted" /\ e.known => e \in committed

\* The queue and the clock move; a worker may take the delivery d or end one.
LEMMA QueueStep ==
  ASSUME CInv, TypeOK', NEW d, now <= now',
         \A v \in Workers : \/ worker'[v] = worker[v] \/ worker'[v] = Idle
                            \/ worker'[v] = d /\ DeliveryOK(d),
         \A v \in Workers : worker'[v] # Idle => now' <= worker'[v].at + 1,
         \A e \in Envelopes : MessageMoves(e),
         \A e \in Envelopes : msg'[e].status = "queued"
                                  => now' < msg'[e].sent + Lifetime,
         UNCHANGED <<rows, nextId, ledger, committed>>
  PROVE  CInv'
  <1> USE DEF CInv
  <1>1. now \in Nat /\ now' \in Nat
    BY DEF TypeOK
  <1>2. ASSUME NEW e \in Envelopes
        PROVE  MessageOK(e)'
    <2>1. MessageOK(e) /\ MessageMoves(e) /\ msg[e].sent \in Nat /\ msg'[e].sent \in Nat
      BY DEF TypeOK, MessageType
    <2> QED
      BY <1>1, <2>1 DEF MessageOK, MessageMoves
  <1>3. ASSUME NEW e \in committed'
        PROVE  CommittedOK(e)'
    <2>1. e \in Envelopes /\ CommittedOK(e) /\ MessageMoves(e)
      BY DEF TypeOK
    <2>2. Gone(e)'
      BY <2>1 DEF CommittedOK, Gone, MessageMoves
    <2> QED
      BY <2>1, <2>2 DEF CommittedOK, MessageMoves
  <1>4. ASSUME NEW v \in Workers, worker'[v] # Idle
        PROVE  DeliveryOK(worker[v])'
    <2>1. PICK x : x = worker'[v]
      OBVIOUS
    <2>2. DeliveryOK(x)
      BY <1>4, <2>1
    <2>3. x.env \in Envelopes /\ x.at \in Nat
      BY <2>2 DEF DeliveryOK, Deliveries
    <2>4. MessageMoves(x.env)
      BY <2>3
    <2>5. x.at <= now' /\ now' <= x.at + 1
      BY <1>1, <1>4, <2>1, <2>2, <2>3 DEF DeliveryOK
    <2>6. msg'[x.env].status # "unsent" /\ msg'[x.env].sent <= x.at
      BY <2>2, <2>3, <2>4 DEF DeliveryOK, MessageMoves
    <2>7. msg'[x.env].before = msg[x.env].before
      BY <2>4 DEF MessageMoves
    <2> QED
      BY <2>1, <2>2, <2>5, <2>6, <2>7 DEF DeliveryOK
  <1>5. LedgerOK' /\ TableOK(rows', nextId')
    BY DEF LedgerOK, IsProcessed
  <1> QED
    BY <1>2, <1>3, <1>4, <1>5

\* A message that is over.
LEMMA OverFacts ==
  ASSUME NEW m \in MessageType, NEW st \in {"deleted", "dlq", "expired"}
  PROVE  /\ Over(m, st) \in MessageType /\ Over(m, st).status = st
         /\ Over(m, st).sent = 0 /\ Over(m, st).before = m.before
  <1>1. 0 \in 0..MaxReceive
    BY BoundsAssumption
  <1> QED
    BY <1>1, Zenon DEF Over, MessageType

\* SQS delivers a message.
LEMMA ReceiveStep ==
  ASSUME CInv, NEW w \in Workers, NEW e \in Envelopes, Receive(w, e)
  PROVE  CInv'
  <1> DEFINE d == [pc |-> Entry(e), env |-> e, at |-> now, seen |-> 0,
                   attempt |-> 1, late |-> e \in committed]
             m == [msg[e] EXCEPT !.receives = @ + 1]
  <1>1. msg[e] \in MessageType /\ msg[e].status = "queued" /\ now \in Nat /\ nextId \in Nat
    BY DEF Receive, CInv, TypeOK
  <1>2. worker' = [worker EXCEPT ![w] = d] /\ msg' = [msg EXCEPT ![e] = m]
    BY DEF Receive, CInv, TypeOK
  <1>3. /\ m \in MessageType /\ m.before = msg[e].before
        /\ m.status = msg[e].status /\ m.sent = msg[e].sent
    <2>1. msg[e].receives + 1 \in 0..MaxReceive
      BY <1>1, BoundsAssumption DEF Receive, MessageType
    <2> QED
      BY <1>1, <2>1 DEF MessageType
  <1> HIDE DEF m
  <1>4. Entry(e) \in {"probe", "mark", "ack", "reject"} /\ 1 \in 1..MaxAttempts
    BY BoundsAssumption DEF Entry
  <1>5. d \in Deliveries
    BY <1>1, <1>4 DEF Deliveries
  <1>6. /\ d.pc = Entry(e) /\ d.env = e /\ d.at = now /\ d.seen = 0
        /\ d.late = (e \in committed)
    OBVIOUS
  <1> HIDE DEF d
  <1>7. e \in committed => Valid(e) /\ Entry(e) = "probe"
    BY DEF CInv, CommittedOK, Entry, Valid
  <1>8. e \in committed => \E l \in ledger : /\ KeyOf(l) = LedgerKey(e)
                                            /\ now < l.at + Retention
    <2> SUFFICES ASSUME e \in committed
                 PROVE  \E l \in ledger : KeyOf(l) = LedgerKey(e) /\ now < l.at + Retention
      OBVIOUS
    <2>1. PICK l \in ledger : KeyOf(l) = LedgerKey(e) /\ msg[e].sent <= l.at
      BY <1>1 DEF CInv, CommittedOK
    <2>2. now < msg[e].sent + Lifetime
      BY <1>1 DEF CInv, MessageOK
    <2>3. l.at \in Nat /\ msg[e].sent \in Nat
      BY <1>1 DEF CInv, TypeOK, MessageType
    <2> QED
      BY <1>1, <2>1, <2>2, <2>3, BoundsAssumption
  <1>9. DeliveryOK(d)
    <2>1. Entry(e) = "probe" => Valid(e)
      BY DEF Entry
    <2>2. Entry(e) = "mark" => e.id # Malformed /\ ~e.known
      BY DEF Entry
    <2>3. Entry(e) = "ack" => ~e.known
      BY DEF Entry
    <2>4. msg[e].sent <= now
      BY DEF CInv, MessageOK
    <2>5. d.late => e \in committed
      BY <1>6, Zenon
    <2>6. d.late => /\ d.pc = "probe"
                    /\ \E l \in ledger : KeyOf(l) = LedgerKey(d.env) /\ d.at < l.at + Retention
      BY <1>6, <1>7, <1>8, <2>5
    <2>7. /\ msg[d.env].status # "unsent" /\ msg[d.env].sent <= d.at
          /\ d.at <= now /\ now <= d.at + 1 /\ d.seen <= nextId
      BY <1>1, <1>6, <2>4
    <2>8. /\ d.pc \in {"probe", "begin", "cascade"} => Valid(d.env)
          /\ d.pc \in {"mark", "commit"} => d.env.id # Malformed /\ ~d.env.known /\ d.seen = 0
          /\ d.pc \in {"cascade", "mark", "commit"} => ~d.env.known
          /\ d.pc = "ack" => ~d.env.known
      BY <1>4, <1>6, <2>1, <2>2, <2>3
    <2> QED
      BY <1>5, <2>6, <2>7, <2>8 DEF DeliveryOK
  <1>10. TypeOK'
    BY <1>2, <1>3, <1>5 DEF CInv, TypeOK, Receive
  <1>11. \A f \in Envelopes : MessageMoves(f)
    BY <1>2, <1>3 DEF MessageMoves, CInv, TypeOK
  <1>12. now' = now /\ UNCHANGED <<rows, nextId, ledger, committed>>
    BY DEF Receive
  <1>13. \A f \in Envelopes : msg'[f].status = "queued" => now' < msg'[f].sent + Lifetime
    BY <1>2, <1>3, <1>12 DEF CInv, MessageOK, TypeOK
  <1>14. \A v \in Workers : worker'[v] = worker[v] \/ (worker'[v] = d /\ DeliveryOK(d))
    BY <1>2, <1>9, SMTT(30) DEF CInv, TypeOK
  <1>15. \A v \in Workers : worker'[v] # Idle => now' <= worker'[v].at + 1
    BY <1>12, <1>14 DEF CInv, DeliveryOK
  <1>16. now <= now'
    BY <1>1, <1>12
  <1> QED
    BY <1>10, <1>11, <1>12, <1>13, <1>14, <1>15, <1>16, QueueStep

\* A delivery that is done deletes its message.
LEMMA AckStep ==
  ASSUME CInv, NEW w \in Workers, Ack(w)
  PROVE  CInv'
  <1> DEFINE e == worker[w].env
  <1>1. worker[w] # Idle /\ DeliveryOK(worker[w]) /\ worker[w].pc = "ack"
    BY DEF Ack, At, Idle, CInv
  <1>2. e \in Envelopes /\ (e.known => e \in committed)
    BY <1>1 DEF DeliveryOK, Deliveries
  <1>3. now' = now /\ now \in Nat /\ UNCHANGED <<rows, nextId, ledger, committed>>
    BY DEF Ack, CInv, TypeOK
  <1>4. worker' = [worker EXCEPT ![w] = Idle]
    BY DEF Ack
  <1>5. msg' = [msg EXCEPT ![e] = IF msg[e].status = "queued" THEN Over(msg[e], "deleted")
                                  ELSE msg[e]]
    BY DEF Ack
  <1> HIDE DEF e
  <1>6. msg[e] \in MessageType
    BY <1>2 DEF CInv, TypeOK
  <1>7. \A f \in Envelopes : \/ msg'[f] = msg[f]
                             \/ /\ f = e /\ msg[f].status = "queued"
                                /\ msg'[f] = Over(msg[f], "deleted")
    BY <1>2, <1>5 DEF CInv, TypeOK
  <1>8. TypeOK'
    <2>1. msg' \in [Envelopes -> MessageType]
      BY <1>5, <1>6, OverFacts, Zenon DEF CInv, TypeOK
    <2> QED
      BY <1>3, <1>4, <2>1 DEF CInv, TypeOK
  <1>9. \A f \in Envelopes : MessageMoves(f)
    BY <1>2, <1>6, <1>7, OverFacts DEF MessageMoves
  <1>10. \A f \in Envelopes : msg'[f].status = "queued" => now' < msg'[f].sent + Lifetime
    BY <1>3, <1>6, <1>7, OverFacts DEF CInv, MessageOK
  <1>11. \A v \in Workers : worker'[v] = worker[v] \/ worker'[v] = Idle
    BY <1>4, SMTT(30) DEF CInv, TypeOK
  <1>12. \A v \in Workers : worker'[v] # Idle => now' <= worker'[v].at + 1
    BY <1>3, <1>11 DEF CInv, DeliveryOK
  <1> QED
    BY <1>3, <1>8, <1>9, <1>10, <1>11, <1>12, QueueStep

\* SQS gives a message up.
LEMMA RedriveStep ==
  ASSUME CInv, NEW e \in Envelopes, Redrive(e)
  PROVE  CInv'
  <1>1. msg[e] \in MessageType /\ msg[e].status = "queued" /\ now \in Nat
    BY DEF Redrive, CInv, TypeOK
  <1>2. msg' = [msg EXCEPT ![e] = Over(msg[e], "dlq")]
    BY DEF Redrive
  <1>3. /\ now' = now /\ worker' = worker /\ UNCHANGED <<rows, nextId, ledger, committed>>
    BY DEF Redrive
  <1>4. TypeOK'
    BY <1>1, <1>2, <1>3, OverFacts DEF CInv, TypeOK
  <1>5. \A f \in Envelopes : msg'[f] = msg[f] \/ (f = e /\ msg'[f] = Over(msg[f], "dlq"))
    BY <1>2 DEF CInv, TypeOK
  <1>6. \A f \in Envelopes : MessageMoves(f)
    BY <1>1, <1>5, OverFacts DEF MessageMoves
  <1>7. \A f \in Envelopes : msg'[f].status = "queued" => now' < msg'[f].sent + Lifetime
    BY <1>1, <1>3, <1>5, OverFacts DEF CInv, MessageOK
  <1>8. \A v \in Workers : worker'[v] # Idle => now' <= worker'[v].at + 1
    BY <1>3 DEF CInv, DeliveryOK
  <1> QED
    BY <1>1, <1>3, <1>4, <1>6, <1>7, <1>8, QueueStep

\* Time passes, and SQS drops the messages it has kept for too long.
LEMMA TickStep ==
  ASSUME CInv, Tick
  PROVE  CInv'
  <1>1. now \in Nat /\ now' = now + 1 /\ worker' = worker
        /\ UNCHANGED <<rows, nextId, ledger, committed>>
    BY DEF Tick, CInv, TypeOK
  <1>2. \A e \in Envelopes :
          /\ msg[e] \in MessageType
          /\ \/ msg'[e] = Over(msg[e], "expired") /\ msg[e].status = "queued"
             \/ msg'[e] = msg[e] /\ (msg[e].status = "queued"
                                       => ~(msg[e].sent + Lifetime <= now + 1))
    BY DEF Tick, CInv, TypeOK
  <1>3. TypeOK'
    <2>1. msg' = [e \in Envelopes |-> msg'[e]]
      BY DEF Tick
    <2>2. \A e \in Envelopes : msg'[e] \in MessageType
      BY <1>2, OverFacts
    <2>3. msg' \in [Envelopes -> MessageType]
      BY <2>1, <2>2
    <2> QED
      BY <1>1, <2>3 DEF CInv, TypeOK
  <1>4. \A e \in Envelopes : MessageMoves(e)
    BY <1>2, OverFacts DEF MessageMoves
  <1>5. \A e \in Envelopes : msg'[e].status = "queued" => now' < msg'[e].sent + Lifetime
    <2> SUFFICES ASSUME NEW e \in Envelopes, msg'[e].status = "queued"
                 PROVE  now' < msg'[e].sent + Lifetime
      OBVIOUS
    <2>1. msg'[e] = msg[e] /\ ~(msg[e].sent + Lifetime <= now + 1)
      BY <1>2, OverFacts
    <2>2. msg[e].sent \in Nat
      BY <1>2 DEF MessageType
    <2> QED
      BY <1>1, <2>1, <2>2, BoundsAssumption
  <1>6. \A v \in Workers : worker'[v] # Idle => now' <= worker'[v].at + 1
    BY <1>1 DEF Tick
  <1> QED
    BY <1>1, <1>3, <1>4, <1>5, <1>6, QueueStep

\* An event is sent: nothing was done about it before.
LEMMA SendStep ==
  ASSUME CInv, NEW e \in Envelopes, Send(e)
  PROVE  CInv'
  <1> DEFINE m == [status |-> "queued", receives |-> 0, sent |-> now, before |-> nextId]
  <1> USE DEF CInv
  <1>1. now \in Nat /\ nextId \in Nat /\ m \in MessageType
    BY BoundsAssumption DEF TypeOK, MessageType
  <1>2. msg' = [msg EXCEPT ![e] = m] /\ msg[e].status = "unsent"
    BY DEF Send
  <1>3. UNCHANGED <<now, rows, nextId, worker, ledger, committed>>
    BY DEF Send
  <1>4. TypeOK'
    BY <1>1, <1>2, <1>3 DEF TypeOK
  <1>5. \A f \in Envelopes : f # e => msg'[f] = msg[f]
    BY <1>2 DEF TypeOK
  <1>6. msg'[e].status = "queued" /\ msg'[e].sent = now /\ msg'[e].before = nextId
    BY <1>2 DEF TypeOK
  <1> HIDE DEF m
  <1>7. ASSUME NEW f \in Envelopes
        PROVE  MessageOK(f)'
    <2>1. CASE f = e
      BY <1>1, <1>3, <1>6, <2>1, BoundsAssumption DEF MessageOK
    <2>2. CASE f # e
      BY <1>3, <1>5, <2>2 DEF MessageOK
    <2> QED
      BY <2>1, <2>2
  <1>8. ASSUME NEW f \in committed'
        PROVE  CommittedOK(f)'
    <2>1. f \in Envelopes /\ CommittedOK(f)
      BY <1>3 DEF TypeOK
    <2>2. msg'[f] = msg[f]
      BY <1>2, <1>5, <2>1 DEF CommittedOK
    <2> QED
      BY <1>3, <2>1, <2>2, Zenon DEF CommittedOK, Gone
  <1>9. ASSUME NEW v \in Workers, worker'[v] # Idle
        PROVE  DeliveryOK(worker[v])'
    <2>1. DeliveryOK(worker[v]) /\ worker[v].env \in Envelopes
      BY <1>3, <1>9 DEF DeliveryOK, Deliveries
    <2>2. msg'[worker[v].env] = msg[worker[v].env]
      BY <1>2, <1>5, <2>1, Zenon DEF DeliveryOK
    <2> QED
      BY <1>3, <2>1, <2>2, ZenonT(30) DEF DeliveryOK
  <1>10. LedgerOK' /\ TableOK(rows', nextId')
    BY <1>3 DEF LedgerOK, IsProcessed
  <1> QED
    BY <1>4, <1>7, <1>8, <1>9, <1>10

\* The sweep leaves the marks that a message or a delivery may still need.
LEMMA CleanupStep ==
  ASSUME CInv, NEW c \in Consumers, CleanupExpired(c)
  PROVE  CInv'
  <1> USE DEF CInv
  <1>1. UNCHANGED <<now, rows, nextId, msg, worker, committed>> /\ now \in Nat
    BY DEF CleanupExpired, TypeOK
  <1>2. ledger' \subseteq ledger /\ \A l \in ledger : ~(l.at + Retention < now) => l \in ledger'
    BY DEF CleanupExpired
  <1>3. \A l \in ledger : l.at \in Nat
    BY DEF TypeOK
  <1>4. TypeOK'
    BY <1>1, <1>2 DEF TypeOK
  <1>5. \A e \in Envelopes : MessageOK(e)'
    BY <1>1 DEF MessageOK
  <1>6. ASSUME NEW e \in committed'
        PROVE  CommittedOK(e)'
    <2>1. CommittedOK(e) /\ MessageOK(e) /\ msg[e].sent \in Nat
      BY <1>1 DEF TypeOK, MessageType
    <2>2. Gone(e)'
      BY <1>1, <2>1, ZenonT(30) DEF CommittedOK, Gone
    <2>3. ASSUME msg[e].status = "queued"
          PROVE  \E l \in ledger' : KeyOf(l) = LedgerKey(e) /\ msg[e].sent <= l.at
      <3>1. PICK l \in ledger : KeyOf(l) = LedgerKey(e) /\ msg[e].sent <= l.at
        BY <2>1, <2>3 DEF CommittedOK
      <3>2. now < msg[e].sent + Lifetime
        BY <2>1, <2>3 DEF MessageOK
      <3>3. ~(l.at + Retention < now)
        BY <1>1, <1>3, <2>1, <3>1, <3>2, BoundsAssumption
      <3> QED
        BY <1>2, <3>1, <3>3
    <2> QED
      BY <1>1, <2>1, <2>2, <2>3 DEF CommittedOK
  <1>7. ASSUME NEW v \in Workers, worker'[v] # Idle
        PROVE  DeliveryOK(worker[v])'
    <2> DEFINE d == worker[v]
    <2>1. DeliveryOK(d) /\ d.at \in Nat
      BY <1>1, <1>7, ZenonT(30) DEF DeliveryOK, Deliveries
    <2>2. ASSUME d.late, d.pc = "probe"
          PROVE  \E l \in ledger' : KeyOf(l) = LedgerKey(d.env) /\ d.at < l.at + Retention
      <3>1. PICK l \in ledger : KeyOf(l) = LedgerKey(d.env) /\ d.at < l.at + Retention
        BY <2>1, <2>2, ZenonT(30) DEF DeliveryOK
      <3>2. now <= d.at + 1
        BY <2>1 DEF DeliveryOK
      <3>3. ~(l.at + Retention < now)
        BY <1>1, <1>3, <2>1, <3>1, <3>2, BoundsAssumption
      <3> QED
        BY <1>2, <3>1, <3>3
    <2> QED
      BY <1>1, <2>1, <2>2, ZenonT(30) DEF DeliveryOK
  <1>8. LedgerOK' /\ TableOK(rows', nextId')
    BY <1>1, <1>2 DEF LedgerOK, IsProcessed
  <1> QED
    BY <1>4, <1>5, <1>6, <1>7, <1>8, Zenon

\* Every row of the new table was there before, as live or more so.
Shrinks(t, u) ==
    \A r \in u : \E s \in t :
        r.id = s.id /\ r.key = s.key /\ (s.deleted => r.deleted)

\* What is gone stays gone when the table shrinks.
LEMMA GoneStays ==
  ASSUME NEW e, Gone(e), Shrinks(rows, rows'), msg'[e].before = msg[e].before
  PROVE  Gone(e)'
  <1> SUFFICES ASSUME NEW r \in rows', r \in Matches(e, rows'), r.id < msg[e].before
               PROVE  FALSE
    BY DEF Gone, SeenBy, Matches, TenantMatches, UserMatches
  <1>1. PICK s \in rows : r.id = s.id /\ r.key = s.key /\ (s.deleted => r.deleted)
    BY DEF Shrinks
  <1>2. s \in Matches(e, rows)
    BY <1>1 DEF Matches, TenantMatches, UserMatches
  <1> QED
    BY <1>1, <1>2 DEF Gone, SeenBy

\* Soft deletion shrinks the table.
LEMMA SoftDeleteShrinks ==
  ASSUME NEW t \in SUBSET Rows, NEW S \in SUBSET t
  PROVE  /\ Shrinks(t, SoftDelete(t, S))
         /\ \A r \in SoftDelete(t, S) : r \in t \ S \/ r.deleted
  <1>1. \A s \in S : /\ SoftDeleted(s).id = s.id /\ SoftDeleted(s).key = s.key
                     /\ SoftDeleted(s).deleted = TRUE
    BY SoftDeletedRow, ZenonT(30)
  <1> QED
    BY <1>1 DEF SoftDelete, Shrinks

\* Only the table changes.
LEMMA TableStep ==
  ASSUME CInv, rows' \subseteq Rows, nextId' \in Nat, nextId <= nextId',
         TableOK(rows', nextId'),
         \A e \in committed : Gone(e)',
         UNCHANGED <<now, msg, worker, ledger, committed>>
  PROVE  CInv'
  <1> USE DEF CInv
  <1>1. TypeOK' /\ nextId \in Nat
    BY DEF TypeOK
  <1>2. \A e \in Envelopes : MessageOK(e)'
    <2> SUFFICES ASSUME NEW e \in Envelopes PROVE MessageOK(e)'
      OBVIOUS
    <2>1. MessageOK(e) /\ msg[e].before \in Nat
      BY DEF TypeOK, MessageType
    <2> QED
      BY <1>1, <2>1 DEF MessageOK
  <1>3. \A e \in committed' : CommittedOK(e)'
    BY DEF CommittedOK
  <1>4. ASSUME NEW v \in Workers, worker'[v] # Idle
        PROVE  DeliveryOK(worker[v])'
    <2>1. DeliveryOK(worker[v]) /\ worker'[v] = worker[v]
      BY <1>4
    <2>2. worker[v].seen \in Nat /\ worker[v].seen <= nextId
      BY <2>1, Zenon DEF DeliveryOK, Deliveries
    <2>3. worker[v].seen <= nextId'
      BY <1>1, <2>2
    <2> QED
      BY <2>1, <2>3, Zenon DEF DeliveryOK
  <1>5. LedgerOK'
    BY DEF LedgerOK, IsProcessed
  <1> QED
    BY <1>1, <1>2, <1>3, <1>4, <1>5

\* A grant is newer than every event that was sent.
LEMMA GrantStep ==
  ASSUME CInv, NEW k \in Keys, Grant(k)
  PROVE  CInv'
  <1>1. PICK l \in Levels : rows' = rows \cup {Inserted(nextId, k, l, NoExpiry)}
    BY DEF Grant
  <1> DEFINE i == Inserted(nextId, k, l, NoExpiry)
  <1>2. /\ nextId \in Nat /\ nextId' = nextId + 1 /\ rows \subseteq Rows
        /\ UNCHANGED <<now, msg, worker, ledger, committed>>
    BY DEF Grant, CInv, TypeOK
  <1>3. i \in Rows /\ i.id = nextId /\ i.version = 1 /\ i.deleted = FALSE
    BY <1>2, InsertedType, Zenon DEF Inserted, Expiries
  <1> HIDE DEF i
  <1>4. rows' \subseteq Rows /\ TableOK(rows', nextId')
    <2>1. ~Blocked(rows, k) /\ NoExpiry \in Expiries
      BY DEF Grant, Expiries
    <2>2. TableOK(rows \cup {i}, nextId + 1)
      BY <1>2, <2>1, InsertKeepsTable DEF CInv, i
    <2> QED
      BY <1>1, <1>2, <1>3, <2>2 DEF i
  <1>5. ASSUME NEW e \in committed
        PROVE  Gone(e)'
    <2>1. Gone(e) /\ msg[e].before <= nextId /\ msg[e].before \in Nat
      BY DEF CInv, CommittedOK, MessageOK, TypeOK, MessageType
    <2>2. ~(i.id < msg[e].before)
      BY <1>2, <1>3, <2>1
    <2>3. rows' = rows \cup {i}
      BY <1>1 DEF i
    <2> QED
      BY <1>2, <2>1, <2>2, <2>3 DEF Gone, SeenBy, Matches, TenantMatches, UserMatches
  <1> QED
    BY <1>2, <1>4, <1>5, TableStep

\* A revoke only soft-deletes.
LEMMA RevokeStep ==
  ASSUME CInv, NEW k \in Keys, Revoke(k)
  PROVE  CInv'
  <1> DEFINE S == RevokeMatches(rows, k, 1)
  <1>1. /\ rows' = SoftDelete(rows, S) /\ S \in SUBSET rows /\ \A r \in S : ~r.deleted
    BY DEF Revoke, RevokeMatches
  <1>2. UNCHANGED <<now, nextId, msg, worker, ledger, committed>> /\ nextId \in Nat
    BY DEF Revoke, CInv, TypeOK
  <1> HIDE DEF S
  <1>3. rows' \subseteq Rows /\ Shrinks(rows, rows') /\ TableOK(rows', nextId')
    <2>1. rows \in SUBSET Rows /\ TableOK(rows, nextId)
      BY DEF CInv, TypeOK
    <2> QED
      BY <1>1, <1>2, <2>1, SoftDeleteShrinks, SoftDeleteType, SoftDeleteKeepsTable
  <1>4. \A e \in committed : Gone(e)'
    BY <1>2, <1>3, GoneStays DEF CInv, CommittedOK
  <1> QED
    BY <1>2, <1>3, <1>4, TableStep

\* The table after the transaction of w has committed.
LEMMA CascadedFacts ==
  ASSUME CInv, NEW w \in Workers, worker[w] # Idle, worker[w].pc = "commit",
         rows' = Cascaded(worker[w].env, rows, Touched(w))
  PROVE  /\ rows' \subseteq Rows /\ Shrinks(rows, rows') /\ TableOK(rows', nextId)
         /\ SeenBy(Matches(worker[w].env, rows'), worker[w].seen) = {}
  <1> DEFINE e == worker[w].env
             S == Touched(w)
  <1>1. S \in SUBSET rows /\ S = SeenBy(Matches(e, rows), worker[w].seen)
    BY DEF Touched, SeenBy, Matches, TenantMatches, UserMatches
  <1>2. rows \in SUBSET Rows /\ nextId \in Nat /\ TableOK(rows, nextId)
    BY DEF CInv, TypeOK
  <1>3. CASE e.consumer = OffboardingConsumer
    <2>1. rows' = rows \ S
      BY <1>3 DEF Cascaded
    <2>2. Shrinks(rows, rows') /\ TableOK(rows', nextId)
      BY <1>2, <2>1, DeleteKeepsTable DEF Shrinks
    <2>3. SeenBy(Matches(e, rows'), worker[w].seen) = {}
      BY <1>1, <1>3, <2>1 DEF SeenBy, Matches, TenantMatches
    <2> QED
      BY <1>2, <2>1, <2>2, <2>3
  <1>4. CASE e.consumer # OffboardingConsumer
    <2>1. rows' = SoftDelete(rows, S)
      BY <1>4 DEF Cascaded
    <2>2. \A r \in S : ~r.deleted
      BY <1>1, <1>4, SMTT(30) DEF SeenBy, Matches, UserMatches
    <2> HIDE DEF S
    <2>3. /\ rows' \subseteq Rows /\ Shrinks(rows, rows') /\ TableOK(rows', nextId)
          /\ \A r \in rows' : r \in rows \ S \/ r.deleted
      BY <1>1, <1>2, <2>1, <2>2, SoftDeleteShrinks, SoftDeleteType, SoftDeleteKeepsTable,
         SMTT(30)
    <2>4. SeenBy(Matches(e, rows'), worker[w].seen) = {}
      BY <1>1, <1>4, <2>3 DEF SeenBy, Matches, UserMatches
    <2> QED
      BY <2>3, <2>4
  <1> QED
    BY <1>3, <1>4

\* Cascade and mark are one step, so neither is ever there without the other.
LEMMA CommitStep ==
  ASSUME CInv, NEW w \in Workers, Commit(w)
  PROVE  CInv'
  <1> DEFINE x == worker[w]
             e == x.env
             m == [id |-> e.id, consumer |-> e.consumer, at |-> x.at]
             y == [x EXCEPT !.pc = "ack", !.seen = 0, !.attempt = 1]
  <1>1. x # Idle /\ x.pc = "commit" /\ DeliveryOK(x) /\ x \in Deliveries
    <2>1. x # Idle /\ x.pc = "commit"
      BY DEF Commit, At, Idle
    <2> QED
      BY <2>1, Zenon DEF CInv, DeliveryOK
  <1>2. /\ e \in Envelopes /\ e.id # Malformed /\ x.at \in Nat /\ x.seen \in Nat
        /\ e.known => Valid(e) /\ msg[e].before <= x.seen
        /\ ~x.late /\ msg[e].status # "unsent" /\ msg[e].sent <= x.at
    BY <1>1, Zenon DEF DeliveryOK, Deliveries
  <1>3. /\ UNCHANGED <<now, nextId, msg>>
        /\ rows' = Cascaded(worker[w].env, rows, Touched(w))
        /\ ledger' = IF IsProcessed(e) THEN ledger ELSE ledger \cup {m}
        /\ committed' = IF e.known THEN committed \cup {e} ELSE committed
        /\ worker' = [worker EXCEPT ![w] = y]
    BY Zenon DEF Commit, LedgerKey, CInv, TypeOK
  <1>4. /\ rows' \subseteq Rows /\ Shrinks(rows, rows') /\ TableOK(rows', nextId)
        /\ SeenBy(Matches(e, rows'), x.seen) = {}
    BY <1>1, <1>3, CascadedFacts, SMTT(30)
  <1>5. m \in [id : EventIds, consumer : Consumers, at : Nat] /\ KeyOf(m) = LedgerKey(e)
        /\ m.at = x.at
    BY <1>2, EnvelopeAssumption DEF EnvelopeType, KeyOf, LedgerKey
  <1>6. 1 \in 1..MaxAttempts /\ 0 \in Nat
    BY BoundsAssumption
  <1> HIDE DEF m, x
  <1>7. /\ y \in Deliveries /\ y.pc = "ack" /\ y.env = e /\ y.at = x.at
        /\ y.seen = 0 /\ y.late = x.late
    BY <1>1, <1>6, Zenon DEF Deliveries
  <1> HIDE DEF y
  <1>8. TypeOK'
    BY <1>2, <1>3, <1>4, <1>5, <1>7, Zenon DEF CInv, TypeOK
  <1>9. committed \subseteq committed' /\ ledger \subseteq ledger'
    BY <1>3
  <1>10. \A d \in Envelopes : MessageOK(d)'
    BY <1>3, <1>9 DEF CInv, MessageOK
  <1>11. ASSUME NEW d \in committed'
         PROVE  CommittedOK(d)'
    <2>1. CASE d \in committed
      <3>1. CommittedOK(d)
        BY <2>1 DEF CInv
      <3>2. Gone(d)'
        BY <1>3, <1>4, <3>1, GoneStays, ZenonT(30) DEF CommittedOK
      <3> QED
        BY <1>3, <1>9, <3>1, <3>2 DEF CommittedOK
    <2>2. CASE d \notin committed
      <3>1. d = e /\ e.known /\ Valid(e) /\ msg[e].before <= x.seen
        BY <1>2, <1>3, <1>11, <2>2, ZenonT(30)
      <3>2. ~IsProcessed(e)
        BY <1>2, <2>2, <3>1, Zenon DEF CInv, LedgerOK
      <3>3. m \in ledger'
        BY <1>3, <3>2
      <3>4. Gone(d)'
        <4>1. msg[e].before \in Nat /\ \A r \in rows' : r.id \in Nat
          BY <1>2, <1>4, SMTT(30) DEF CInv, TypeOK, MessageType, Rows
        <4>2. SeenBy(Matches(e, rows'), msg[e].before) = {}
          <5> SUFFICES ASSUME NEW r \in Matches(e, rows'), r.id < msg[e].before
                       PROVE  FALSE
            BY DEF SeenBy
          <5>1. r \in rows'
            BY DEF Matches, TenantMatches, UserMatches
          <5>2. r.id < x.seen
            BY <1>2, <3>1, <4>1, <5>1
          <5> QED
            BY <1>4, <5>2, Zenon DEF SeenBy
        <4> QED
          BY <1>3, <3>1, <4>2, Zenon DEF Gone
      <3> QED
        BY <1>2, <1>3, <1>5, <3>1, <3>3, <3>4 DEF CommittedOK
    <2> QED
      BY <2>1, <2>2, SMTT(30)
  <1>12. ASSUME NEW v \in Workers, worker'[v] # Idle
         PROVE  DeliveryOK(worker[v])'
    <2>1. CASE v = w
      <3>1. worker'[v] = y
        BY <1>3, <2>1 DEF CInv, TypeOK
      <3>2. e.known => e \in committed'
        BY <1>3
      <3>3. now \in Nat /\ nextId \in Nat /\ x.at <= now /\ now <= x.at + 1
        BY <1>1 DEF CInv, TypeOK, DeliveryOK
      <3>4. 0 <= nextId' /\ now' = now /\ msg' = msg
        BY <1>3, <3>3
      <3>5. ~y.late /\ y.at <= now' /\ now' <= y.at + 1 /\ y.seen <= nextId'
        BY <1>2, <1>7, <3>3, <3>4
      <3>6. /\ msg'[y.env].status # "unsent" /\ msg'[y.env].sent <= y.at
            /\ y.env.known => y.env \in committed'
        BY <1>2, <1>7, <3>2, <3>4, Zenon
      <3> QED
        BY <1>7, <3>1, <3>5, <3>6 DEF DeliveryOK
    <2>2. CASE v # w
      <3>1. worker'[v] = worker[v] /\ DeliveryOK(worker[v])
        BY <1>3, <1>12, <2>2 DEF CInv, TypeOK
      <3> QED
        BY <1>3, <1>9, <3>1, Zenon DEF DeliveryOK
    <2> QED
      BY <2>1, <2>2, SMTT(30)
  <1>13. LedgerOK'
    <2> SUFFICES ASSUME NEW d \in Envelopes, d.known, IsProcessed(d)'
                 PROVE  d \in committed'
      BY DEF LedgerOK
    <2>1. CASE IsProcessed(d)
      BY <1>9, <2>1 DEF CInv, LedgerOK
    <2>2. CASE ~IsProcessed(d)
      <3>1. LedgerKey(d) = LedgerKey(e)
        BY <1>3, <1>5, <2>2 DEF IsProcessed, KeyOf
      <3>2. d = e
        BY <1>2, <3>1, KeyIsUnique
      <3> QED
        BY <1>3, <3>2, SMTT(30)
    <2> QED
      BY <2>1, <2>2
  <1> QED
    BY <1>3, <1>4, <1>8, <1>10, <1>11, <1>12, <1>13 DEF CInv

-----------------------------------------------------------------------------
(* The invariant and what follows from it.                                  *)

\* Every step keeps the invariant.
LEMMA CascadeNext == CInv /\ [Next]_vars => CInv'
  <1> SUFFICES ASSUME CInv, [Next]_vars PROVE CInv'
    OBVIOUS
  <1>1. ASSUME NEW w \in Workers, Handle(w) \/ Deadlock(w) \/ Fail(w)
        PROVE  CInv'
    <2>1. CASE Commit(w)
      BY <2>1, CommitStep
    <2>2. CASE Ack(w)
      BY <2>2, AckStep
    <2>3. CASE Probe(w) \/ Begin(w) \/ Cascade(w) \/ Deadlock(w) \/ Mark(w)
                  \/ Reject(w) \/ Fail(w)
      BY <2>3, QuietSteps
    <2> QED
      BY <1>1, <2>1, <2>2, <2>3 DEF Handle
  <1>2. ASSUME NEW w \in Workers, NEW e \in Envelopes, Receive(w, e)
        PROVE  CInv'
    BY <1>2, ReceiveStep
  <1>3. ASSUME NEW e \in Envelopes, Send(e) \/ Redrive(e)
        PROVE  CInv'
    BY <1>3, SendStep, RedriveStep
  <1>4. ASSUME NEW c \in Consumers, CleanupExpired(c)
        PROVE  CInv'
    BY <1>4, CleanupStep
  <1>5. ASSUME NEW k \in Keys, Grant(k) \/ Revoke(k)
        PROVE  CInv'
    BY <1>5, GrantStep, RevokeStep
  <1>6. CASE Tick
    BY <1>6, TickStep, SMTT(30)
  <1>7. CASE UNCHANGED vars
    BY <1>7, TableStep, SMTT(30) DEF vars, CInv, TypeOK, CommittedOK, Gone
  <1> QED
    BY <1>1, <1>2, <1>3, <1>4, <1>5, <1>6, <1>7 DEF Next

\* The invariant holds always.
LEMMA CascadeInvariant == Spec => []CInv
  BY CascadeInit, CascadeNext, PTL DEF Spec

\* Every variable of the consumers keeps its type, whatever is delivered.
THEOREM CascadeTypeCorrect == Spec => []TypeOK
  <1>1. CInv => TypeOK
    BY DEF CInv
  <1> QED
    BY <1>1, CascadeInvariant, PTL

\* IDEMP-2: an event that is marked or acknowledged was well-formed, and no
\* grant older than it is left, for any number of workers, events, retries
\* and crashes.
THEOREM MarkedMeansGone == Spec => []DoneMeansGone
  <1>1. CInv => DoneMeansGone
    BY Zenon DEF CInv, DoneMeansGone, MessageOK, LedgerOK, CommittedOK
  <1> QED
    BY <1>1, CascadeInvariant, PTL

\* Overlapping cascades and revokes soft-delete a row once.
THEOREM SoftDeletedOnce == Spec => []DeletedOnce
  <1>1. CInv => DeletedOnce
    BY DEF CInv, TableOK, DeletedOnce
  <1> QED
    BY <1>1, CascadeInvariant, PTL

\* IDEMP-4: a delivery received after its event was carried out finds the mark,
\* as long as SQS keeps messages no longer than the ledger keeps marks.
THEOREM LateDeliveriesSkip == Spec => []NoLateReplay
  <1>1. CInv => NoLateReplay
    BY DEF CInv, NoLateReplay, DeliveryOK
  <1> QED
    BY <1>1, CascadeInvariant, PTL

-----------------------------------------------------------------------------
(* CascadeConsumers implements AccessTable: whatever SQS delivers, repeats  *)
(* or drops, what the consumers make of the rows is what the abstract table *)
(* allows.                                                                  *)

\* The INSERT of a TAC-2 request is a grant.
LEMMA GrantImplements ==
  ASSUME CInv, NEW k \in Keys, Grant(k)
  PROVE  Access!Grant
  <1>1. PICK l \in Levels : rows' = rows \cup {Inserted(nextId, k, l, NoExpiry)}
    BY DEF Grant
  <1> DEFINE i == Inserted(nextId, k, l, NoExpiry)
             g == GrantOf(i)
  <1>2. ~i.deleted /\ g.id = nextId /\ g.key = k
    BY SMTT(30) DEF Inserted, GrantOf
  <1>3. /\ \A h \in LiveGrants(rows) : h.key # k
        /\ \A h \in LiveGrants(rows) \cup PastGrants(rows) : h.id # nextId
    <2>1. ~Blocked(rows, k)
      BY DEF Grant
    <2>2. \A r \in rows : /\ GrantOf(r).id = r.id /\ r.id # nextId
                          /\ GrantOf(r).key = r.key
      BY DEF CInv, TypeOK, TableOK, GrantOf, Rows
    <2> QED
      BY <2>1, <2>2 DEF LiveGrants, PastGrants, Blocked
  <1> HIDE DEF i
  <1>4. /\ LiveGrants(rows') = LiveGrants(rows) \cup {g}
        /\ PastGrants(rows') = PastGrants(rows)
    BY <1>1, <1>2, InsertAdds DEF i
  <1> HIDE DEF g
  <1> QED
    BY <1>2, <1>3, <1>4 DEF Access!Grant

\* Soft deletion of some rows is TakeBack of the grants they record.
LEMMA CascadeTakesBack ==
  ASSUME CInv, NEW S \in SUBSET rows, S # {}, \A r \in S : ~r.deleted,
         rows' = SoftDelete(rows, S)
  PROVE  Access!TakeBack(Recorded(S))
  <1>1. rows \in SUBSET Rows /\ OneRowPerId(rows)
    BY DEF CInv, TypeOK, TableOK, OneRowPerId
  <1>2. /\ LiveGrants(rows') = LiveGrants(rows) \ Recorded(S)
        /\ PastGrants(rows') = PastGrants(rows) \cup Recorded(S)
    BY <1>1, SoftDeleteTakesBack
  <1>3. Recorded(S) # {}
    BY DEF Recorded
  <1> QED
    BY <1>2, <1>3 DEF Access!TakeBack

\* The UPDATE of a TAC-3 request takes back the one grant of its key.
LEMMA RevokeTakesBack ==
  ASSUME CInv, NEW k \in Keys, Revoke(k)
  PROVE  Access!Revoke(k)
  <1> DEFINE S == RevokeMatches(rows, k, 1)
  <1>1. /\ S # {} /\ rows' = SoftDelete(rows, S)
        /\ S \subseteq rows /\ \A r \in S : ~r.deleted /\ r.key = k
    BY DEF Revoke, RevokeMatches
  <1>2. Access!TakeBack(Recorded(S))
    BY <1>1, CascadeTakesBack
  <1>3. {g \in LiveGrants(rows) : g.key = k} = Recorded(S)
    <2>1. \A r \in rows : ~r.deleted /\ r.key = k => r \in S
      BY DEF CInv, TableOK, RevokeMatches
    <2>2. \A r \in rows : GrantOf(r).key = r.key
      BY DEF GrantOf
    <2> QED
      BY <1>1, <2>1, <2>2 DEF LiveGrants, Recorded
  <1> QED
    BY <1>2, <1>3 DEF Access!Revoke

\* A member-removal cascade that changes rows takes back the oldest grants of
\* the user.
LEMMA RemovalCommits ==
  ASSUME CInv, NEW t, NEW u, NEW n \in Nat,
         SeenBy(UserMatches(rows, t, u), n) # {},
         rows' = SoftDelete(rows, SeenBy(UserMatches(rows, t, u), n))
  PROVE  Access!RemoveUser(t, u) /\ t \in Tenants /\ u \in Users
  <1> DEFINE M == UserMatches(rows, t, u)
             S == SeenBy(M, n)
             T == {g \in LiveGrants(rows) : g.key.tenant = t /\ g.key.user = u}
  <1>1. /\ S \in SUBSET rows /\ M \in SUBSET rows /\ rows \in SUBSET Rows
        /\ \A r \in S : ~r.deleted /\ r.key.tenant = t /\ r.key.user = u
    BY DEF SeenBy, UserMatches, CInv, TypeOK
  <1>2. t \in Tenants /\ u \in Users
    BY <1>1, SMTT(30) DEF Rows, Keys
  <1>3. T = Recorded(M) /\ M \in SUBSET Rows
    <2>1. M \in SUBSET Rows
      BY <1>1, Zenon
    <2>2. rows \in SUBSET Rows
      BY <1>1
    <2>3. T = Recorded(M)
      BY <2>2, MatchesRecord, SMTT(30)
    <2> QED BY <2>1, <2>3
  <1> HIDE DEF M
  <1>4. Access!OldestOf(Recorded(S), T)
    BY <1>3, SnapshotIsOldest DEF Access!OldestOf
  <1>5. Recorded(S) \in SUBSET LiveGrants(rows)
    BY <1>4 DEF Access!OldestOf
  <1>6. S # {} /\ rows' = SoftDelete(rows, S)
    BY DEF M
  <1> HIDE DEF S
  <1>7. Access!TakeBack(Recorded(S))
    BY <1>1, <1>6, CascadeTakesBack
  <1> QED
    BY <1>2, <1>4, <1>5, <1>7, Zenon DEF Access!RemoveUser

\* An offboarding cascade purges the oldest grants of the tenant.
LEMMA PurgeCommits ==
  ASSUME CInv, NEW t \in Tenants, NEW n \in Nat,
         rows' = rows \ SeenBy(TenantMatches(rows, t), n)
  PROVE  Access!Purge(t)
  <1> DEFINE M == TenantMatches(rows, t)
             S == SeenBy(M, n)
             A == LiveGrants(rows) \cup PastGrants(rows)
             T == {g \in A : g.key.tenant = t}
  <1>1. /\ S \in SUBSET rows /\ M \in SUBSET rows
        /\ rows \in SUBSET Rows /\ OneRowPerId(rows)
    BY DEF SeenBy, TenantMatches, CInv, TypeOK, TableOK, OneRowPerId
  <1>2. T = Recorded(M) /\ M \in SUBSET Rows
    BY <1>1, MatchesRecord, Zenon
  <1> HIDE DEF M
  <1>3. Access!OldestOf(Recorded(S), T)
    BY <1>2, SnapshotIsOldest DEF Access!OldestOf
  <1>4. Recorded(S) \in SUBSET A
    BY <1>3 DEF Access!OldestOf
  <1>5. rows' = rows \ S
    BY DEF M
  <1> HIDE DEF S
  <1>6. /\ LiveGrants(rows') = LiveGrants(rows) \ Recorded(S)
        /\ PastGrants(rows') = PastGrants(rows) \ Recorded(S)
    BY <1>1, <1>5, DeleteForgets, Zenon
  <1> QED
    BY <1>3, <1>4, <1>6, Zenon DEF Access!Purge

\* A transaction that commits is one removal or one purge, or changes nothing.
LEMMA CommitImplements ==
  ASSUME CInv, NEW w \in Workers, Commit(w)
  PROVE  Access!Next \/ rows' = rows
  <1> DEFINE x == worker[w]
             e == x.env
  <1>1. x \in Deliveries /\ x.seen \in Nat /\ e \in Envelopes
    <2>1. x # Idle
      BY DEF Commit, At, Idle
    <2> QED
      BY <2>1, Zenon DEF CInv, DeliveryOK, Deliveries
  <1>2. /\ rows' = Cascaded(e, rows, Touched(w))
        /\ Touched(w) = SeenBy(Matches(e, rows), x.seen)
    BY DEF Commit, Touched
  <1>3. CASE Touched(w) = {}
    BY <1>2, <1>3, SMTT(30) DEF Cascaded, SoftDelete
  <1>4. CASE Touched(w) # {} /\ e.consumer = OffboardingConsumer
    <2>1. rows' = rows \ SeenBy(TenantMatches(rows, e.tenant), x.seen)
      BY <1>2, <1>4 DEF Cascaded, Matches
    <2>2. e.tenant \in Tenants
      BY <1>2, <1>4 DEF Matches, SeenBy, TenantMatches, CInv, TypeOK, Rows, Keys
    <2> QED
      BY <1>1, <2>1, <2>2, PurgeCommits DEF Access!Next
  <1>5. CASE Touched(w) # {} /\ e.consumer # OffboardingConsumer
    <2>1. /\ SeenBy(UserMatches(rows, e.tenant, e.user), x.seen) # {}
          /\ rows' = SoftDelete(rows,
                        SeenBy(UserMatches(rows, e.tenant, e.user), x.seen))
      BY <1>2, <1>5 DEF Cascaded, Matches
    <2>2. Access!RemoveUser(e.tenant, e.user) /\ e.tenant \in Tenants /\ e.user \in Users
      BY <1>1, <2>1, RemovalCommits, Zenon
    <2> QED
      BY <2>2 DEF Access!Next
  <1> QED
    BY <1>3, <1>4, <1>5

\* Every step is a step of the abstract table or leaves it alone.
LEMMA CascadeStepImplements == CInv /\ [Next]_vars => [Access!Next]_Access!avars
  <1> SUFFICES ASSUME CInv, [Next]_vars
               PROVE  Access!Next \/ UNCHANGED Access!avars
    OBVIOUS
  <1>1. CASE UNCHANGED rows
    BY <1>1 DEF Access!avars, LiveGrants, PastGrants
  <1>2. ASSUME NEW k \in Keys, Grant(k) PROVE Access!Next
    BY <1>2, GrantImplements DEF Access!Next
  <1>3. ASSUME NEW k \in Keys, Revoke(k) PROVE Access!Next
    BY <1>3, RevokeTakesBack DEF Access!Next, Access!Keys, Keys
  <1>4. ASSUME NEW w \in Workers, Commit(w)
        PROVE  Access!Next \/ UNCHANGED Access!avars
    BY <1>1, <1>4, CommitImplements
  <1> QED
    BY <1>1, <1>2, <1>3, <1>4, Zenon
       DEF Next, Handle, Probe, Begin, Cascade, Deadlock, Mark, Ack, Reject,
           Fail, Receive, Send, Redrive, CleanupExpired, Tick, vars

\* However many deliveries overlap, fail and are repeated, the consumers and
\* the requests beside them behave as the abstract table: a cascade is one
\* removal of a user or one purge of a tenant, and no grant is ever revived,
\* rewritten or taken from another.
THEOREM CascadeImplementsAccessTable == Spec => ImplementsAccessTable
  <1>1. Init => Access!Init
    BY DEF Init, Access!Init, LiveGrants, PastGrants
  <1> QED
    BY <1>1, CascadeStepImplements, CascadeInvariant, PTL
       DEF Spec, ImplementsAccessTable, Access!Spec

-----------------------------------------------------------------------------
(* Members and requests (MembershipCascade), on top of what the consumers   *)
(* keep.                                                                    *)

\* A request that passed the check, and was not caught by a removal since, is
\* about a member.
CheckedOK ==
    \A g \in checked :
        g \in GrantRequests /\ (~g.removed => Membership(g.key) \in member)

\* The membership m has ended in an event that was sent after row r.
EndedAfter(r, e) ==
    /\ Valid(e) /\ Membership(r.key) \in Ended(e)
    /\ msg[e].status # "unsent" /\ r.id < msg[e].before

\* A grant of a former member is due to an event, or is known to be overdue.
DueOK ==
    \A r \in rows :
        ~r.deleted /\ Membership(r.key) \notin member /\ r.id \notin overdue
            => \E e \in Envelopes : EndedAfter(r, e)

\* The ledger is not swept here, so a mark stays.
MarksKept == \A e \in committed : IsProcessed(e)

\* No event about m is still to be carried out, nor on its way to a cascade.
Undisturbed(m) ==
    /\ m \in member /\ Settled(m)
    /\ \A w \in Workers :
          worker[w] # Idle /\ Valid(worker[w].env) /\ m \in Ended(worker[w].env)
              => worker[w].pc \in {"probe", "ack"}

QuietOK ==
    \A id \in quiet :
        \E r \in rows : r.id = id /\ ~r.deleted /\ Undisturbed(Membership(r.key))

MInv == CInv /\ CheckedOK /\ DueOK /\ MarksKept /\ QuietOK

-----------------------------------------------------------------------------
(* The consumers' steps.                                                    *)

\* A step of a delivery or of SQS.
ConsumerStep ==
    \/ \E w \in Workers : Handle(w) \/ Deadlock(w) \/ Fail(w)
    \/ \E w \in Workers, e \in Envelopes : Receive(w, e)
    \/ \E e \in Envelopes : Redrive(e)

\* A delivery that commits changes the rows it touches and no other.
LEMMA CommitRows ==
  ASSUME CInv, NEW w \in Workers, Commit(w)
  PROVE  /\ \A r \in rows' : ~r.deleted => r \in rows
         /\ rows \ Touched(w) \subseteq rows'
  <1>1. rows' = Cascaded(worker[w].env, rows, Touched(w)) /\ rows \in SUBSET Rows
    BY DEF Commit, CInv, TypeOK
  <1>2. Touched(w) \in SUBSET rows
    BY DEF Touched, SeenBy, Matches, TenantMatches, UserMatches
  <1>3. \A r \in SoftDelete(rows, Touched(w)) : r \in rows \ Touched(w) \/ r.deleted
    BY <1>1, <1>2, SoftDeleteShrinks
  <1>4. rows \ Touched(w) \subseteq SoftDelete(rows, Touched(w))
    BY DEF SoftDelete
  <1> QED
    BY <1>1, <1>3, <1>4 DEF Cascaded

\* What the consumers leave alone: what was sent stays sent, what was carried
\* out stays so, and no row comes to life.
LEMMA ConsumerKeeps ==
  ASSUME CInv, ConsumerStep
  PROVE  /\ \A e \in Envelopes : /\ msg'[e].before = msg[e].before
                                 /\ msg'[e].status = "unsent"
                                       <=> msg[e].status = "unsent"
         /\ committed \subseteq committed' /\ ledger \subseteq ledger'
         /\ \A r \in rows' : ~r.deleted => r \in rows
  <1>0. msg \in [Envelopes -> MessageType]
    BY DEF CInv, TypeOK
  <1>1. ASSUME NEW e \in Envelopes, NEW st \in {"deleted", "dlq"},
               msg[e].status = "queued", msg' = [msg EXCEPT ![e] = Over(msg[e], st)]
        PROVE  \A d \in Envelopes : /\ msg'[d].before = msg[d].before
                                    /\ msg'[d].status = "unsent"
                                          <=> msg[d].status = "unsent"
    <2>1. Over(msg[e], st).before = msg[e].before /\ Over(msg[e], st).status = st
      BY <1>0, OverFacts
    <2> QED
      BY <1>0, <1>1, <2>1
  <1>2. ASSUME NEW w \in Workers, Commit(w)
        PROVE  /\ msg' = msg /\ committed \subseteq committed' /\ ledger \subseteq ledger'
               /\ \A r \in rows' : ~r.deleted => r \in rows
    BY <1>2, CommitRows, Zenon DEF Commit
  <1>3. ASSUME NEW w \in Workers, Ack(w)
        PROVE  /\ \A d \in Envelopes : /\ msg'[d].before = msg[d].before
                                       /\ msg'[d].status = "unsent"
                                             <=> msg[d].status = "unsent"
               /\ UNCHANGED <<rows, committed, ledger>>
    <2> DEFINE e == worker[w].env
    <2>1. e \in Envelopes
      <3>1. worker[w] # Idle
        BY <1>3 DEF Ack, At, Idle
      <3>2. worker[w] \in Deliveries
        BY <3>1, Zenon DEF CInv, DeliveryOK
      <3> QED BY <3>2 DEF Deliveries
    <2>2. UNCHANGED <<rows, committed, ledger>>
      BY <1>3 DEF Ack
    <2>3. CASE msg[e].status = "queued"
      <3>1. msg' = [msg EXCEPT ![e] = Over(msg[e], "deleted")]
        BY <1>3, <2>3 DEF Ack
      <3> QED
        BY <1>1, <2>1, <2>2, <2>3, <3>1, Zenon
    <2>4. CASE msg[e].status # "queued"
      <3>1. msg' = msg
        BY <1>0, <1>3, <2>1, <2>4 DEF Ack
      <3> QED
        BY <2>2, <3>1
    <2> QED
      BY <2>3, <2>4
  <1>4. ASSUME NEW e \in Envelopes, Redrive(e)
        PROVE  /\ \A d \in Envelopes : /\ msg'[d].before = msg[d].before
                                       /\ msg'[d].status = "unsent"
                                             <=> msg[d].status = "unsent"
               /\ UNCHANGED <<rows, committed, ledger>>
    BY <1>1, <1>4, Zenon DEF Redrive
  <1>5. ASSUME NEW w \in Workers, NEW e \in Envelopes, Receive(w, e)
        PROVE  /\ \A d \in Envelopes : /\ msg'[d].before = msg[d].before
                                       /\ msg'[d].status = "unsent"
                                             <=> msg[d].status = "unsent"
               /\ UNCHANGED <<rows, committed, ledger>>
    BY <1>0, <1>5 DEF Receive, MessageType
  <1>6. ASSUME NEW w \in Workers,
               Probe(w) \/ Begin(w) \/ Cascade(w) \/ Deadlock(w) \/ Mark(w)
                  \/ Reject(w) \/ Fail(w)
        PROVE  UNCHANGED <<msg, rows, committed, ledger>>
    BY <1>6 DEF Probe, Begin, Cascade, Deadlock, Mark, Reject, Fail
  <1> QED
    BY <1>2, <1>3, <1>4, <1>5, <1>6 DEF ConsumerStep, Handle

\* What is marked stays marked, and what commits is marked.
LEMMA ConsumerMarks ==
  ASSUME CInv, MarksKept, ConsumerStep
  PROVE  MarksKept'
  <1>1. ledger \subseteq ledger'
    BY ConsumerKeeps
  <1>2. CASE \E w \in Workers : Commit(w)
    <2>1. PICK w \in Workers : Commit(w)
      BY <1>2
    <2> DEFINE m == [id |-> worker[w].env.id, consumer |-> worker[w].env.consumer,
                     at |-> worker[w].at]
    <2> SUFFICES ASSUME NEW d \in committed' PROVE IsProcessed(d)'
      BY DEF MarksKept
    <2>2. CASE d \in committed
      BY <1>1, <2>2 DEF MarksKept, IsProcessed
    <2>3. CASE d \notin committed
      <3>1. d = worker[w].env
        BY <2>1, <2>3 DEF Commit
      <3>2. CASE IsProcessed(d)
        BY <1>1, <3>2 DEF IsProcessed
      <3>3. CASE ~IsProcessed(d)
        <4>1. m \in ledger' /\ [id |-> m.id, consumer |-> m.consumer] = LedgerKey(d)
          BY <2>1, <3>1, <3>3 DEF Commit, LedgerKey
        <4> QED
          BY <4>1 DEF IsProcessed
      <3> QED
        BY <3>2, <3>3
    <2> QED
      BY <2>2, <2>3
  <1>3. CASE ~\E w \in Workers : Commit(w)
    <2>1. committed' = committed
      BY <1>3, Zenon DEF ConsumerStep, Handle, Probe, Begin, Cascade, Deadlock, Mark,
                  Reject, Fail, Ack, Receive, Redrive
    <2> QED
      BY <1>1, <2>1 DEF MarksKept, IsProcessed
  <1> QED
    BY <1>2, <1>3

\* A membership that is undisturbed stays so: a delivery that finds all events
\* about it marked goes from the probe to the acknowledgement.
LEMMA UndisturbedStays ==
  ASSUME CInv, MarksKept, ConsumerStep, member' = member,
         NEW m, Undisturbed(m)
  PROVE  Undisturbed(m)'
  <1> DEFINE About(d) == Valid(d.env) /\ m \in Ended(d.env)
  <1>1. Settled(m)'
    BY ConsumerKeeps DEF Undisturbed, Settled
  <1>2. ASSUME NEW v \in Workers, worker[v] # Idle, About(worker[v])
        PROVE  /\ worker[v].pc \in {"probe", "ack"}
               /\ IsProcessed(worker[v].env)
    <2>1. worker[v].env \in Envelopes /\ msg[worker[v].env].status # "unsent"
      BY <1>2 DEF CInv, DeliveryOK, Deliveries
    <2> QED
      BY <1>2, <2>1 DEF Undisturbed, Settled, MarksKept
  <1>3. ASSUME NEW v \in Workers, worker'[v] # Idle, About(worker'[v])
        PROVE  worker'[v].pc \in {"probe", "ack"}
    <2>0. worker \in [Workers -> Deliveries \cup {Idle}]
      BY DEF CInv, TypeOK
    <2>1. CASE worker'[v] = worker[v]
      BY <1>2, <1>3, <2>1
    <2>2. ASSUME NEW e \in Envelopes, Receive(v, e) PROVE worker'[v].pc = "probe"
      <3>1. worker'[v].env = e /\ worker'[v].pc = Entry(e)
        BY <2>0, <2>2 DEF Receive
      <3> QED
        BY <1>3, <3>1 DEF Entry, Valid
    <2>3. CASE Probe(v)
      <3>1. worker[v] # Idle /\ worker[v] \in Deliveries
        BY <2>0, <2>3 DEF Probe, At, Idle
      <3>2. worker'[v] = [worker[v] EXCEPT !.pc =
                              IF IsProcessed(worker[v].env) THEN "ack" ELSE "begin"]
        BY <2>0, <2>3 DEF Probe, Goto
      <3>3. worker'[v].env = worker[v].env
        BY <3>1, <3>2 DEF Deliveries
      <3>4. IsProcessed(worker[v].env)
        BY <1>2, <1>3, <3>1, <3>3
      <3> QED
        BY <3>1, <3>2, <3>4 DEF Deliveries
    <2>4. CASE Begin(v) \/ Cascade(v) \/ Deadlock(v) \/ Mark(v)
      <3>1. /\ worker[v] # Idle /\ worker[v] \in Deliveries
            /\ worker[v].pc \notin {"probe", "ack"}
        BY <2>0, <2>4 DEF Begin, Cascade, Deadlock, Mark, At, Idle
      <3>2. worker'[v].env = worker[v].env
        BY <2>0, <2>4, <3>1 DEF Begin, Cascade, Deadlock, Mark, Goto, Deliveries
      <3> QED
        BY <1>2, <1>3, <3>1, <3>2
    <2>5. CASE Commit(v)
      <3>1. worker[v] \in Deliveries
        BY <2>0, <2>5 DEF Commit, At, Idle
      <3>2. worker'[v] = [worker[v] EXCEPT !.pc = "ack", !.seen = 0, !.attempt = 1]
        BY <2>0, <2>5 DEF Commit
      <3> QED
        BY <3>1, <3>2 DEF Deliveries
    <2>6. CASE Ack(v) \/ Reject(v) \/ Fail(v)
      BY <1>3, <2>0, <2>6 DEF Ack, Reject, Fail
    <2>7. ASSUME NEW w \in Workers, w # v, Handle(w) \/ Deadlock(w) \/ Fail(w)
          PROVE  worker'[v] = worker[v]
      BY <2>0, <2>7 DEF Handle, Probe, Begin, Cascade, Mark, Commit, Ack,
                        Reject, Deadlock, Fail, Goto
    <2>8. ASSUME NEW w \in Workers, w # v, NEW e \in Envelopes, Receive(w, e)
          PROVE  worker'[v] = worker[v]
      BY <2>0, <2>8 DEF Receive
    <2>9. ASSUME NEW e \in Envelopes, Redrive(e)
          PROVE  worker'[v] = worker[v]
      BY <2>9 DEF Redrive
    <2> QED
      BY <2>1, <2>2, <2>3, <2>4, <2>5, <2>6, <2>7, <2>8, <2>9
         DEF ConsumerStep, Handle
  <1> QED
    BY <1>1, <1>3 DEF Undisturbed

\* No cascade touches a live row of an undisturbed membership.
LEMMA QuietRowStays ==
  ASSUME CInv, ConsumerStep, NEW r \in rows, ~r.deleted,
         Undisturbed(Membership(r.key))
  PROVE  r \in rows'
  <1>1. ASSUME NEW w \in Workers, Commit(w) PROVE r \notin Touched(w)
    <2> SUFFICES ASSUME r \in Touched(w) PROVE FALSE
      OBVIOUS
    <2> DEFINE x == worker[w]
               e == x.env
    <2>1. x # Idle /\ x.pc = "commit" /\ DeliveryOK(x)
      BY <1>1 DEF Commit, At, Idle, CInv
    <2>2. r.id < x.seen /\ r.id \in Nat /\ r \in Matches(e, rows) /\ r \in Rows
      BY DEF Touched, SeenBy, CInv, TypeOK, Rows
    <2>3. Valid(e)
      <3>1. IF e.known THEN Valid(e) ELSE x.seen = 0
        BY <2>1, Zenon DEF DeliveryOK
      <3>2. x.seen # 0
        BY <2>2
      <3> QED BY <3>1, <3>2, Zenon
    <2>4. e.consumer \in Consumers
      BY <2>1, EnvelopeAssumption DEF DeliveryOK, Deliveries, EnvelopeType
    <2>5. r.key.tenant = e.tenant /\ (e.consumer = MemberRemovalConsumer => r.key.user = e.user)
      BY <2>2, <2>4 DEF Matches, TenantMatches, UserMatches, MemberRemovalConsumer,
                        OffboardingConsumer
    <2>6. Membership(r.key) \in Ended(e)
      BY <2>2, <2>5 DEF Membership, Ended, Rows, Keys
    <2> QED
      BY <2>1, <2>3, <2>6 DEF Undisturbed
  <1>2. ASSUME NEW w \in Workers, Commit(w) PROVE r \in rows'
    BY <1>1, <1>2, CommitRows
  <1>3. CASE ~\E w \in Workers : Commit(w)
    BY <1>3, Zenon DEF ConsumerStep, Handle, Probe, Begin, Cascade, Deadlock, Mark,
                Reject, Fail, Ack, Receive, Redrive
  <1> QED
    BY <1>2, <1>3

\* The consumers keep the invariant.
LEMMA ConsumersKeep ==
  ASSUME MInv, ConsumerStep, UNCHANGED mvars
  PROVE  MInv'
  <1> USE DEF MInv
  <1>1. UNCHANGED <<member, checked, overdue, quiet>>
    BY DEF mvars
  <1>2. CInv'
    BY CascadeNext DEF ConsumerStep, Next
  <1>3. CheckedOK' /\ MarksKept'
    BY <1>1, ConsumerMarks DEF CheckedOK
  <1>4. DueOK'
    <2> SUFFICES ASSUME NEW r \in rows', ~r.deleted,
                        Membership(r.key) \notin member, r.id \notin overdue
                 PROVE  \E e \in Envelopes : EndedAfter(r, e)'
      BY <1>1 DEF DueOK
    <2>1. r \in rows
      BY ConsumerKeeps
    <2>2. PICK e \in Envelopes : EndedAfter(r, e)
      BY <2>1 DEF DueOK
    <2>3. EndedAfter(r, e)'
      BY <2>2, ConsumerKeeps DEF EndedAfter
    <2> QED
      BY <2>3
  <1>5. QuietOK'
    <2> SUFFICES ASSUME NEW id \in quiet
                 PROVE  \E r \in rows' : /\ r.id = id /\ ~r.deleted
                                         /\ Undisturbed(Membership(r.key))'
      BY <1>1 DEF QuietOK
    <2>1. PICK r \in rows : r.id = id /\ ~r.deleted /\ Undisturbed(Membership(r.key))
      BY DEF QuietOK
    <2>2. r \in rows'
      BY <2>1, QuietRowStays
    <2>3. PICK m : m = Membership(r.key)
      OBVIOUS
    <2>4. Undisturbed(m)'
      BY <1>1, <2>1, <2>3, UndisturbedStays
    <2> QED
      BY <2>1, <2>2, <2>3, <2>4
  <1> QED
    BY <1>2, <1>3, <1>4, <1>5

-----------------------------------------------------------------------------
(* Core and the requests.                                                   *)

\* A membership ends: its grants are older than the event that says so.
LEMMA EndKeeps ==
  ASSUME MInv, NEW e \in Envelopes, EndMembership(e)
  PROVE  MInv'
  <1>1. /\ Send(e) /\ Valid(e) /\ member' = member \ Ended(e) /\ overdue' = overdue
        /\ UNCHANGED <<rows, nextId, worker, ledger, committed>>
    BY DEF EndMembership, Send
  <1>2. CInv /\ CInv' /\ nextId \in Nat
    BY <1>1, CascadeNext DEF MInv, CInv, TypeOK, Next
  <1>3. /\ msg[e].status = "unsent" /\ msg'[e].status = "queued"
        /\ msg'[e].before = nextId
        /\ \A d \in Envelopes : d # e => msg'[d] = msg[d]
    BY <1>1 DEF Send, MInv, CInv, TypeOK
  <1>4. CheckedOK'
    <2> SUFFICES ASSUME NEW g \in checked'
                 PROVE  g \in GrantRequests /\ (~g.removed => Membership(g.key) \in member')
      BY DEF CheckedOK
    <2>1. PICK h \in checked : g = IF Membership(h.key) \in Ended(e)
                                    THEN [h EXCEPT !.removed = TRUE] ELSE h
      BY DEF EndMembership
    <2>2. h \in GrantRequests /\ (~h.removed => Membership(h.key) \in member)
      BY DEF MInv, CheckedOK
    <2>3. CASE Membership(h.key) \in Ended(e)
      BY <2>1, <2>2, <2>3, Zenon DEF GrantRequests
    <2>4. CASE Membership(h.key) \notin Ended(e)
      BY <1>1, <2>1, <2>2, <2>4
    <2> QED
      BY <2>3, <2>4
  <1>5. DueOK'
    <2> SUFFICES ASSUME NEW r \in rows, ~r.deleted,
                        Membership(r.key) \notin member', r.id \notin overdue
                 PROVE  \E d \in Envelopes : EndedAfter(r, d)'
      BY <1>1 DEF DueOK
    <2>1. CASE Membership(r.key) \in member
      <3>1. Membership(r.key) \in Ended(e) /\ r.id < nextId
        BY <1>1, <1>2, <2>1 DEF CInv, TableOK
      <3>2. EndedAfter(r, e)'
        BY <1>1, <1>3, <3>1 DEF EndedAfter
      <3> QED
        BY <3>2
    <2>2. CASE Membership(r.key) \notin member
      <3>1. PICK d \in Envelopes : EndedAfter(r, d)
        BY <2>2 DEF MInv, DueOK
      <3>2. EndedAfter(r, d)'
        BY <1>3, <3>1 DEF EndedAfter
      <3> QED
        BY <3>2
    <2> QED
      BY <2>1, <2>2
  <1>6. MarksKept'
    BY <1>1 DEF MInv, MarksKept, IsProcessed
  <1>7. QuietOK'
    <2> SUFFICES ASSUME NEW id \in quiet'
                 PROVE  \E r \in rows : /\ r.id = id /\ ~r.deleted
                                        /\ Undisturbed(Membership(r.key))'
      BY <1>1 DEF QuietOK
    <2>1. /\ id \in quiet
          /\ \A r \in rows : Membership(r.key) \in Ended(e) => r.id # id
      BY DEF EndMembership
    <2>2. PICK r \in rows : r.id = id /\ ~r.deleted /\ Undisturbed(Membership(r.key))
      BY <2>1 DEF MInv, QuietOK
    <2>3. PICK m : m = Membership(r.key)
      OBVIOUS
    <2>4. m \notin Ended(e)
      BY <2>1, <2>2, <2>3
    <2>5. Undisturbed(m)'
      BY <1>1, <1>3, <2>2, <2>3, <2>4 DEF Undisturbed, Settled
    <2> QED
      BY <2>2, <2>3, <2>5
  <1> QED
    BY <1>2, <1>4, <1>5, <1>6, <1>7 DEF MInv

\* Members join, and requests are checked and dropped.
LEMMA RequestsKeep ==
  ASSUME MInv, UNCHANGED <<vars, overdue, quiet>>, member \subseteq member',
         \A g \in checked' : \/ g \in checked
                             \/ g \in GrantRequests /\ Membership(g.key) \in member
  PROVE  MInv'
  <1>1. UNCHANGED <<now, rows, nextId, msg, worker, ledger, committed, overdue, quiet>>
    BY DEF vars
  <1>2. CInv'
    BY CascadeNext DEF MInv
  <1>3. CheckedOK'
    BY DEF MInv, CheckedOK
  <1>4. DueOK'
    BY <1>1 DEF MInv, DueOK, EndedAfter
  <1>5. MarksKept'
    BY <1>1 DEF MInv, MarksKept, IsProcessed
  <1>6. \A m : Undisturbed(m) => Undisturbed(m)'
    BY <1>1 DEF Undisturbed, Settled
  <1>7. QuietOK'
    <2> SUFFICES ASSUME NEW id \in quiet
                 PROVE  \E r \in rows : /\ r.id = id /\ ~r.deleted
                                        /\ Undisturbed(Membership(r.key))'
      BY <1>1 DEF QuietOK
    <2>1. PICK r \in rows : r.id = id /\ ~r.deleted /\ Undisturbed(Membership(r.key))
      BY DEF MInv, QuietOK
    <2>2. PICK m : m = Membership(r.key)
      OBVIOUS
    <2> QED
      BY <1>6, <2>1, <2>2
  <1> QED
    BY <1>2, <1>3, <1>4, <1>5, <1>7 DEF MInv

\* A grant of a request that was caught by a removal is overdue; any other is
\* the grant of a member.
LEMMA InsertKeeps ==
  ASSUME MInv, NEW g \in checked, InsertGrant(g)
  PROVE  MInv'
  <1>1. /\ g \in GrantRequests /\ g.key \in Keys
        /\ ~g.removed => Membership(g.key) \in member
    BY DEF MInv, CheckedOK, GrantRequests
  <1>2. /\ Grant(g.key) /\ UNCHANGED <<msg, worker, ledger, committed, member>>
        /\ nextId \in Nat
    BY DEF InsertGrant, Grant, MInv, CInv, TypeOK
  <1>3. CInv'
    BY <1>1, <1>2, CascadeNext DEF MInv, Next
  <1>4. PICK i : rows' = rows \cup {i} /\ i.id = nextId /\ i.key = g.key /\ i.deleted = FALSE
    <2>1. PICK l \in Levels : rows' = rows \cup {Inserted(nextId, g.key, l, NoExpiry)}
      BY <1>2 DEF Grant
    <2>2. PICK i : i = Inserted(nextId, g.key, l, NoExpiry)
      OBVIOUS
    <2>3. i.id = nextId /\ i.key = g.key /\ i.deleted = FALSE
      BY <2>2 DEF Inserted
    <2> QED
      BY <2>1, <2>2, <2>3
  <1>5. CheckedOK'
    BY <1>2 DEF MInv, CheckedOK, InsertGrant
  <1>6. DueOK'
    <2> SUFFICES ASSUME NEW r \in rows', ~r.deleted,
                        Membership(r.key) \notin member, r.id \notin overdue'
                 PROVE  \E d \in Envelopes : EndedAfter(r, d)'
      BY <1>2 DEF DueOK
    <2>1. CASE r = i
      BY <1>1, <1>4, <2>1 DEF InsertGrant
    <2>2. CASE r \in rows
      <3>1. r.id \notin overdue
        BY DEF InsertGrant
      <3>2. PICK d \in Envelopes : EndedAfter(r, d)
        BY <2>2, <3>1 DEF MInv, DueOK
      <3>3. EndedAfter(r, d)'
        BY <1>2, <3>2 DEF EndedAfter
      <3> QED
        BY <3>3
    <2> QED
      BY <1>4, <2>1, <2>2
  <1>7. MarksKept'
    BY <1>2 DEF MInv, MarksKept, IsProcessed
  <1>8. \A m : Undisturbed(m) => Undisturbed(m)'
    BY <1>2 DEF Undisturbed, Settled
  <1>9. QuietOK'
    <2> SUFFICES ASSUME NEW id \in quiet'
                 PROVE  \E r \in rows' : /\ r.id = id /\ ~r.deleted
                                         /\ Undisturbed(Membership(r.key))'
      BY DEF QuietOK
    <2>1. PICK r \in rows' : r.id = id /\ ~r.deleted /\ Undisturbed(Membership(r.key))
      <3>1. CASE id \in quiet
        BY <1>4, <3>1 DEF MInv, QuietOK
      <3>2. CASE id \notin quiet
        <4>1. id = nextId /\ Quiet(Membership(g.key))
          BY <3>2 DEF InsertGrant
        <4>2. Undisturbed(Membership(i.key))
          BY <1>4, <4>1 DEF Quiet, Undisturbed
        <4> QED
          BY <1>4, <4>1, <4>2
      <3> QED
        BY <3>1, <3>2
    <2>2. PICK m : m = Membership(r.key)
      OBVIOUS
    <2> QED
      BY <1>8, <2>1, <2>2
  <1> QED
    BY <1>3, <1>5, <1>6, <1>7, <1>9 DEF MInv

-----------------------------------------------------------------------------
(* The invariant and what follows from it.                                  *)

\* Nothing is granted, sent or checked at the start.
LEMMA MembershipInit == MInit => MInv
  <1> SUFFICES ASSUME MInit PROVE MInv
    OBVIOUS
  <1>1. CInv
    BY CascadeInit DEF MInit
  <1> QED
    BY <1>1 DEF MInit, Init, MInv, CheckedOK, DueOK, MarksKept, QuietOK

\* Every step keeps the invariant.
LEMMA MembershipNext == MInv /\ [MNext]_allVars => MInv'
  <1> SUFFICES ASSUME MInv, [MNext]_allVars PROVE MInv'
    OBVIOUS
  <1>1. ASSUME NEW e \in Envelopes, EndMembership(e) PROVE MInv'
    BY <1>1, EndKeeps
  <1>2. ASSUME NEW m \in Tenants \X Users, Join(m) PROVE MInv'
    BY <1>2, RequestsKeep DEF Join
  <1>3. ASSUME NEW k \in Keys, Exists(k) PROVE MInv'
    <2>1. [key |-> k, removed |-> FALSE] \in GrantRequests
      BY DEF GrantRequests
    <2>2. UNCHANGED <<vars, overdue, quiet>> /\ member \subseteq member'
      BY <1>3 DEF Exists
    <2>3. \A g \in checked' : \/ g \in checked
                              \/ g \in GrantRequests /\ Membership(g.key) \in member
      <3>1. PICK h : h = [key |-> k, removed |-> FALSE]
        BY Zenon
      <3>2. h \in GrantRequests /\ Membership(h.key) \in member
        BY <1>3, <2>1, <3>1 DEF Exists
      <3> QED
        BY <1>3, <3>1, <3>2, Zenon DEF Exists
    <2> QED
      BY <2>2, <2>3, RequestsKeep
  <1>4. ASSUME NEW g \in checked, InsertGrant(g) PROVE MInv'
    BY <1>4, InsertKeeps
  <1>5. ASSUME NEW g \in checked, DropGrant(g) PROVE MInv'
    BY <1>5, RequestsKeep DEF DropGrant
  <1>6. CASE ConsumerStep /\ UNCHANGED mvars
    BY <1>6, ConsumersKeep
  <1>7. CASE UNCHANGED allVars
    BY <1>7, RequestsKeep DEF allVars, mvars
  <1> QED
    BY <1>1, <1>2, <1>3, <1>4, <1>5, <1>6, <1>7 DEF MNext, ConsumerStep

\* The invariant holds always.
LEMMA MembershipInvariant == MSpec => []MInv
  BY MembershipInit, MembershipNext, PTL DEF MSpec

\* TAC-D2 with TAC-D7 and TAC-D10: once the events about a former member are
\* carried out, the only grants left are those whose INSERT came after a
\* removal that followed their check.
THEOREM CascadesLeaveOnlyOverdue == MSpec => []OnlyOverdueOrphans
  <1>1. MInv => OnlyOverdueOrphans
    <2> SUFFICES ASSUME MInv, NEW r \in rows, ~r.deleted,
                        Membership(r.key) \notin member,
                        Settled(Membership(r.key)), r.id \notin overdue
                 PROVE  FALSE
      BY DEF OnlyOverdueOrphans
    <2>1. PICK e \in Envelopes : EndedAfter(r, e)
      BY DEF MInv, DueOK
    <2>2. e \in committed
      BY <2>1 DEF EndedAfter, Settled
    <2>3. Gone(e)
      BY <2>2 DEF MInv, CInv, CommittedOK
    <2>4. r.key.tenant = e.tenant /\ (e.consumer = MemberRemovalConsumer => r.key.user = e.user)
      BY <2>1 DEF EndedAfter, Ended, Membership
    <2>5. e.consumer \in Consumers
      BY EnvelopeAssumption DEF EnvelopeType
    <2>6. r \in Matches(e, rows)
      BY <2>4, <2>5 DEF Matches, TenantMatches, UserMatches, Consumers
    <2> QED
      BY <2>1, <2>3, <2>6 DEF Gone, SeenBy, EndedAfter
  <1> QED
    BY <1>1, MembershipInvariant, PTL

\* A grant made when no event about the member is under way survives every
\* replay, until the membership ends again.
THEOREM ReplaysSpareQuietGrants == MSpec => []QuietGrantsStay
  <1>1. MInv => QuietGrantsStay
    BY DEF MInv, QuietOK, QuietGrantsStay
  <1> QED
    BY <1>1, MembershipInvariant, PTL

\* Core's memberships, the requests under way and the histories of rows stay
\* what they are about.
THEOREM MembershipTypes == MSpec => []MTypeOK
  <1> DEFINE HistoryOK == /\ member \subseteq Tenants \X Users
                          /\ overdue \cup quiet \subseteq 0..MaxRows
  <1>1. MInit => HistoryOK
    BY DEF MInit
  <1>2. MInv /\ HistoryOK /\ [MNext]_allVars => HistoryOK'
    <2> SUFFICES ASSUME MInv, HistoryOK, [MNext]_allVars PROVE HistoryOK'
      OBVIOUS
    <2>1. ASSUME NEW e \in Envelopes, EndMembership(e) PROVE HistoryOK'
      BY <2>1 DEF EndMembership
    <2>2. ASSUME NEW m \in Tenants \X Users, Join(m) PROVE HistoryOK'
      BY <2>2 DEF Join
    <2>3. ASSUME NEW g \in checked, InsertGrant(g) PROVE HistoryOK'
      <3>1. nextId \in Nat /\ nextId < MaxRows /\ MaxRows \in Nat
        BY <2>3, BoundsAssumption DEF InsertGrant, Grant, MInv, CInv, TypeOK
      <3>2. /\ member' = member
            /\ overdue' \cup quiet' \subseteq overdue \cup quiet \cup {nextId}
        BY <2>3 DEF InsertGrant
      <3> QED
        BY <3>1, <3>2
    <2>4. ASSUME NEW k \in Keys, Exists(k) PROVE HistoryOK'
      BY <2>4 DEF Exists
    <2>5. ASSUME NEW g \in checked, DropGrant(g) PROVE HistoryOK'
      BY <2>5 DEF DropGrant
    <2>6. CASE UNCHANGED mvars
      BY <2>6 DEF mvars
    <2> QED
      BY <2>1, <2>2, <2>3, <2>4, <2>5, <2>6 DEF MNext, allVars
  <1>3. MInv /\ HistoryOK => MTypeOK
    BY DEF MInv, CInv, CheckedOK, MTypeOK
  <1> HIDE DEF HistoryOK
  <1> QED
    BY <1>1, <1>2, <1>3, MembershipInvariant, PTL DEF MSpec
-----------------------------------------------------------------------------
(* The composition implements AccessTable as well.                          *)

\* Core's own steps and the checks leave the table alone; an INSERT is a
\* grant, and the consumers do what they do without Core.
LEMMA MembershipStepImplements ==
  MInv /\ [MNext]_allVars => [Access!Next]_Access!avars
  <1> SUFFICES ASSUME MInv, [MNext]_allVars
               PROVE  Access!Next \/ UNCHANGED Access!avars
    OBVIOUS
  <1>1. CASE UNCHANGED rows
    BY <1>1 DEF Access!avars, LiveGrants, PastGrants
  <1>2. ASSUME NEW g \in checked, InsertGrant(g) PROVE Access!Next
    <2>1. g.key \in Keys
      BY DEF MInv, CheckedOK, GrantRequests
    <2> QED
      BY <1>2, <2>1, GrantImplements DEF InsertGrant, MInv, Access!Next
  <1>3. CASE ConsumerStep
    <2>1. [Next]_vars
      BY <1>3, Zenon DEF ConsumerStep, Next
    <2> QED
      BY <2>1, CascadeStepImplements DEF MInv
  <1>4. ASSUME NEW e \in Envelopes, EndMembership(e) PROVE UNCHANGED rows
    BY <1>4 DEF EndMembership, Send
  <1> QED
    BY <1>1, <1>2, <1>3, <1>4, Zenon
       DEF MNext, ConsumerStep, Join, Exists, DropGrant, allVars, vars

\* With memberships that end and begin again, checks that go stale and events
\* that are late or repeated, the table still only sees grants on free keys,
\* removals of one user and purges of one tenant.
THEOREM MembershipImplementsAccessTable == MSpec => ImplementsAccessTable
  <1>1. MInit => Access!Init
    BY DEF MInit, Init, Access!Init, LiveGrants, PastGrants
  <1> QED
    BY <1>1, MembershipStepImplements, MembershipInvariant, PTL
       DEF MSpec, ImplementsAccessTable, Access!Spec
=============================================================================

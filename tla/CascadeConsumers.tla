-------------------------- MODULE CascadeConsumers --------------------------
(***************************************************************************)
(* OffboardingConsumer and MemberRemovalConsumer: two SQS queues whose     *)
(* messages are delivered at least once to the workers of all pods, a      *)
(* cascade over tender_acl_entries and a mark in processed_events in one   *)
(* transaction, and the sweep that prunes processed_events.                *)
(*                                                                         *)
(* A transaction is several steps here.  READ COMMITTED: its statement     *)
(* takes a snapshot, waits for the rows other transactions have locked,    *)
(* changes what still matches and keeps it locked until the commit; the    *)
(* INSERT of the mark waits for an uncommitted mark with the same key.     *)
(* SQS and the pods may lose, repeat and interleave deliveries at will.    *)
(***************************************************************************)
EXTENDS EntryTable, FiniteSets

CONSTANTS
    EventIds,    \* event ids that are UUIDs
    Workers,     \* concurrent deliveries, over all pods and both queues
    Envelopes,   \* the messages that producers may send, each at most once
    Malformed,   \* a field uuid.Parse rejects
    MaxReceive,  \* maxReceiveCount of the redrive policies (5)
    MaxAttempts, \* writeRetryOpts.MaxAttempts (3)
    Lifetime,    \* how long SQS keeps a message
    Retention,   \* how long processed_events keeps a mark (8 days)
    MaxSent,     \* bound on the number of messages sent
    MaxTime,     \* bound on the clock
    MaxRows      \* bound on the number of rows ever inserted

OffboardingConsumer == "tenant_lifecycle_cleanup"
MemberRemovalConsumer == "member_removal"
Consumers == {OffboardingConsumer, MemberRemovalConsumer}

\* The envelope fields Handle reads.  "known" says whether the type is the
\* one the consumer handles (or is empty).
EnvelopeType == [consumer : Consumers, known : BOOLEAN,
                 id : EventIds \cup {Malformed},
                 tenant : Tenants \cup {Malformed},
                 user : Users \cup {Malformed}]

ASSUME EnvelopeAssumption ==
    /\ Envelopes \subseteq EnvelopeType
    /\ Malformed \notin EventIds \cup Tenants \cup Users

\* A relay gives every event an id of its own.
ASSUME UniqueIdAssumption ==
    \A d, e \in Envelopes :
        d.id = e.id /\ d.id # Malformed /\ d.consumer = e.consumer => d = e

ASSUME BoundsAssumption ==
    /\ {MaxReceive, MaxAttempts} \subseteq Nat \ {0}
    /\ {Lifetime, Retention, MaxTime, MaxRows, MaxSent} \subseteq Nat
    /\ 0 < Lifetime /\ Lifetime <= Retention

VARIABLES
    now,       \* the clock, in a unit that is long for one delivery
    rows,      \* tender_acl_entries, as committed
    nextId,    \* ids handed out so far
    msg,       \* envelope -> the message that carries it
    worker,    \* worker -> the delivery it handles
    ledger,    \* processed_events, as committed
    committed  \* history: the known events whose transaction has committed

vars == <<now, rows, nextId, msg, worker, ledger, committed>>

\* "before" is the number of rows there were when the message was sent.
MessageType == [status : {"unsent", "queued", "deleted", "dlq", "expired"},
                receives : 0..MaxReceive, sent : Nat, before : Nat]

Idle == [pc |-> "idle"]

\* A delivery, by what it does next.  "at" is when it was received or its
\* transaction began, "seen" the snapshot of its statement, "late" whether
\* the event had been carried out before the delivery was received.  A field
\* that no later step of the delivery reads goes back to its first value.
Deliveries == [pc : {"probe", "begin", "cascade", "mark", "commit", "ack",
                     "reject"},
               env : Envelopes, at : Nat, seen : Nat,
               attempt : 1..MaxAttempts, late : BOOLEAN]

\* What the program's state looks like.
TypeOK ==
    /\ now \in Nat
    /\ rows \subseteq Rows
    /\ nextId \in Nat
    /\ msg \in [Envelopes -> MessageType]
    /\ worker \in [Workers -> Deliveries \cup {Idle}]
    /\ ledger \subseteq [id : EventIds, consumer : Consumers, at : Nat]
    /\ committed \subseteq Envelopes

Init ==
    /\ now = 0
    /\ rows = {}
    /\ nextId = 0
    /\ msg = [e \in Envelopes |-> [status |-> "unsent", receives |-> 0,
                                   sent |-> 0, before |-> 0]]
    /\ worker = [w \in Workers |-> Idle]
    /\ ledger = {}
    /\ committed = {}

-----------------------------------------------------------------------------
\* Mutant: the ledger's primary key lacks the consumer.
LedgerKey_IdOnly(e) == [id |-> e.id, consumer |-> OffboardingConsumer]

\* The primary key of processed_events.
LedgerKey(e) == [id |-> e.id, consumer |-> e.consumer]

\* IsProcessed: a mark of the event is in the ledger.
IsProcessed(e) ==
    \E l \in ledger : [id |-> l.id, consumer |-> l.consumer] = LedgerKey(e)

\* A known event with fields that parse.  The offboarding consumer does not
\* look at the subject.
Valid(e) ==
    /\ e.known
    /\ e.id # Malformed
    /\ e.tenant # Malformed
    /\ e.consumer = MemberRemovalConsumer => e.user # Malformed

\* The rows the cascade of e is about.
Matches(e, t) == IF e.consumer = OffboardingConsumer
                 THEN TenantMatches(t, e.tenant)
                 ELSE UserMatches(t, e.tenant, e.user)

\* The table after the cascade has changed S.
Cascaded(e, t, S) == IF e.consumer = OffboardingConsumer
                     THEN t \ S
                     ELSE SoftDelete(t, S)

At(w, pc) == worker[w].pc = pc

Goto(w, pc) == worker' = [worker EXCEPT ![w].pc = pc]

\* Mutant: the statement changes its whole snapshot, whatever has become of it.
Touched_NoRecheck(w) ==
    {r \in rows : /\ r.key.tenant = worker[w].env.tenant
                  /\ r.id < worker[w].seen}

\* The rows the statement of w changes: in its snapshot, and still a match
\* (an UPDATE or DELETE that had to wait checks its WHERE clause again).
Touched(w) == SeenBy(Matches(worker[w].env, rows), worker[w].seen)

\* The rows w holds locked.
Locked(w) == IF worker[w].pc \in {"mark", "commit"} /\ worker[w].seen > 0
             THEN Touched(w) ELSE {}

Free(S, w) == \A v \in Workers \ {w} : Locked(v) \cap S = {}

-----------------------------------------------------------------------------
(* SQS and the producers.                                                   *)

\* A message that no one will receive again.
Over(m, status) == [m EXCEPT !.status = status, !.receives = 0, !.sent = 0]

\* Core sends an event.
Send(e) ==
    /\ msg[e].status = "unsent"
    /\ Cardinality({d \in Envelopes : msg[d].status # "unsent"}) < MaxSent
    /\ msg' = [msg EXCEPT ![e] = [status |-> "queued", receives |-> 0,
                                  sent |-> now, before |-> nextId]]
    /\ UNCHANGED <<now, rows, nextId, worker, ledger, committed>>

\* Where Handle starts: an unknown type is acknowledged, with a mark when its
\* id can be stored; a known one with a field that does not parse is an error.
Entry(e) ==
    IF ~e.known THEN IF e.id = Malformed THEN "ack" ELSE "mark"
    ELSE IF Valid(e) THEN "probe" ELSE "reject"

\* A message is delivered, be it for the first time, after a failure, after
\* its visibility timeout, or twice at once.
Receive(w, e) ==
    /\ worker[w] = Idle
    /\ msg[e].status = "queued"
    /\ msg[e].receives < MaxReceive
    /\ msg' = [msg EXCEPT ![e].receives = @ + 1]
    /\ worker' = [worker EXCEPT ![w] =
                    [pc |-> Entry(e), env |-> e, at |-> now, seen |-> 0,
                     attempt |-> 1, late |-> e \in committed]]
    /\ UNCHANGED <<now, rows, nextId, ledger, committed>>

\* The redrive policy moves a message that was received too often.
Redrive(e) ==
    /\ msg[e].status = "queued"
    /\ msg[e].receives = MaxReceive
    /\ msg' = [msg EXCEPT ![e] = Over(@, "dlq")]
    /\ UNCHANGED <<now, rows, nextId, worker, ledger, committed>>

-----------------------------------------------------------------------------
(* Handle.                                                                  *)

\* Mutant: a probe that fails counts as a hit.
Probe_ErrorIsHit(w) ==
    /\ At(w, "probe")
    /\ \E pc \in {"ack", IF IsProcessed(worker[w].env) THEN "ack" ELSE "begin"} :
          Goto(w, pc)
    /\ UNCHANGED <<now, rows, nextId, msg, ledger, committed>>

\* skipDuplicate: a processed event is acknowledged without a cascade.
Probe(w) ==
    /\ At(w, "probe")
    /\ Goto(w, IF IsProcessed(worker[w].env) THEN "ack" ELSE "begin")
    /\ UNCHANGED <<now, rows, nextId, msg, ledger, committed>>

\* RunInTx begins and the cascade's statement takes its snapshot.
Begin(w) ==
    /\ At(w, "begin")
    /\ worker' = [worker EXCEPT ![w].pc = "cascade", ![w].at = now,
                                ![w].seen = nextId]
    /\ UNCHANGED <<now, rows, nextId, msg, ledger, committed>>

\* The statement gets its locks and is done.
Cascade(w) ==
    /\ At(w, "cascade")
    /\ Free(Touched(w), w)
    /\ worker' = [worker EXCEPT ![w].pc = "mark", ![w].attempt = 1]
    /\ UNCHANGED <<now, rows, nextId, msg, ledger, committed>>

\* Two statements lock rows of each other and Postgres aborts one of them:
\* RunInTxWithRetryOpts runs the transaction again, but not the probe.
Deadlock(w) ==
    /\ At(w, "cascade")
    /\ worker[w].attempt < MaxAttempts
    /\ \E v \in Workers \ {w} : /\ At(v, "cascade")
                                /\ Touched(v) \cap Touched(w) # {}
    /\ worker' = [worker EXCEPT ![w].pc = "begin", ![w].attempt = @ + 1]
    /\ UNCHANGED <<now, rows, nextId, msg, ledger, committed>>

\* MarkProcessed: ON CONFLICT DO NOTHING waits for a mark under way.
Mark(w) ==
    /\ At(w, "mark")
    /\ \A v \in Workers \ {w} :
          At(v, "commit") => LedgerKey(worker[v].env) # LedgerKey(worker[w].env)
    /\ Goto(w, "commit")
    /\ UNCHANGED <<now, rows, nextId, msg, ledger, committed>>

\* Mutant: the mark is forgotten.
Commit_NoMark(w) ==
    /\ At(w, "commit")
    /\ rows' = Cascaded(worker[w].env, rows, Touched(w))
    /\ committed' = committed \cup {worker[w].env}
    /\ Goto(w, "ack")
    /\ UNCHANGED <<now, nextId, msg, ledger>>

\* The transaction commits: cascade and mark together (IDEMP-2).
\* processed_at is now(), the start of the transaction.
Commit(w) ==
    LET e == worker[w].env
    IN  /\ At(w, "commit")
        /\ rows' = Cascaded(e, rows, Touched(w))
        /\ ledger' = IF IsProcessed(e) THEN ledger
                     ELSE ledger \cup {[id |-> LedgerKey(e).id,
                                        consumer |-> LedgerKey(e).consumer,
                                        at |-> worker[w].at]}
        /\ committed' = IF e.known THEN committed \cup {e} ELSE committed
        /\ worker' = [worker EXCEPT ![w].pc = "ack", ![w].seen = 0,
                                    ![w].attempt = 1]
        /\ UNCHANGED <<now, nextId, msg>>

\* Handle returns nil and the message is deleted, if it is still there.
Ack(w) ==
    /\ At(w, "ack")
    /\ msg' = [msg EXCEPT ![worker[w].env] =
                  IF @.status = "queued" THEN Over(@, "deleted") ELSE @]
    /\ worker' = [worker EXCEPT ![w] = Idle]
    /\ UNCHANGED <<now, rows, nextId, ledger, committed>>

\* Handle returns an error for a malformed envelope: no acknowledgement.
Reject(w) ==
    /\ At(w, "reject")
    /\ worker' = [worker EXCEPT ![w] = Idle]
    /\ UNCHANGED <<now, rows, nextId, msg, ledger, committed>>

\* The delivery ends where it stands and its transaction is rolled back: a
\* crash, a lost connection, an error of Postgres or the end of the retries.
\* At "ack" the transaction has committed and only the deletion is lost.
Fail(w) ==
    /\ worker[w] # Idle
    /\ worker' = [worker EXCEPT ![w] = Idle]
    /\ UNCHANGED <<now, rows, nextId, msg, ledger, committed>>

-----------------------------------------------------------------------------
(* The rest of the world.                                                   *)

\* Mutant: the sweep looks one unit too far.
CleanupExpired_TooEarly(c) ==
    LET S == {l \in ledger : l.consumer = c /\ l.at + Retention <= now}
    IN  /\ S # {}
        /\ ledger' = ledger \ S
        /\ UNCHANGED <<now, rows, nextId, msg, worker, committed>>

\* The sweep of a consumer's marks.
CleanupExpired(c) ==
    LET S == {l \in ledger : l.consumer = c /\ l.at + Retention < now}
    IN  /\ S # {}
        /\ ledger' = ledger \ S
        /\ UNCHANGED <<now, rows, nextId, msg, worker, committed>>

\* A TAC-2 request commits its INSERT.  The unique index makes it wait for a
\* cascade that has the live row of the key locked.
Grant(k) ==
    /\ nextId < MaxRows
    /\ ~Blocked(rows, k)
    /\ nextId' = nextId + 1
    /\ \E l \in Levels : rows' = rows \cup {Inserted(nextId, k, l, NoExpiry)}
    /\ UNCHANGED <<now, msg, worker, ledger, committed>>

\* A TAC-3 request commits its UPDATE; it waits for a lock as well.
Revoke(k) ==
    LET S == RevokeMatches(rows, k, 1)
    IN  /\ S # {}
        /\ \A w \in Workers : Locked(w) \cap S = {}
        /\ rows' = SoftDelete(rows, S)
        /\ UNCHANGED <<now, nextId, msg, worker, ledger, committed>>

\* Time passes.  SQS drops the messages whose retention is over.  A unit is
\* longer than a delivery takes up to its transaction, and than that.
Tick ==
    /\ now < MaxTime
    /\ \A w \in Workers : worker[w] # Idle => worker[w].at = now
    /\ now' = now + 1
    /\ msg' = [e \in Envelopes |->
                  IF /\ msg[e].status = "queued"
                     /\ msg[e].sent + Lifetime <= now + 1
                  THEN Over(msg[e], "expired") ELSE msg[e]]
    /\ UNCHANGED <<rows, nextId, worker, ledger, committed>>

\* The steps a delivery takes by itself.
Handle(w) ==
    \/ Probe(w)
    \/ Begin(w)
    \/ Cascade(w)
    \/ Mark(w)
    \/ Commit(w)
    \/ Ack(w)
    \/ Reject(w)

Next ==
    \/ \E w \in Workers : Handle(w) \/ Deadlock(w) \/ Fail(w)
    \/ \E w \in Workers, e \in Envelopes : Receive(w, e)
    \/ \E e \in Envelopes : Send(e) \/ Redrive(e)
    \/ \E c \in Consumers : CleanupExpired(c)
    \/ \E k \in Keys : Grant(k) \/ Revoke(k)
    \/ Tick

Spec == Init /\ [][Next]_vars

\* A delivery goes on, SQS delivers what it has and applies its policy.
Fairness ==
    /\ \A w \in Workers : WF_vars(Handle(w))
    /\ \A e \in Envelopes : /\ WF_vars(\E w \in Workers : Receive(w, e))
                            /\ WF_vars(Redrive(e))

FairSpec == Spec /\ Fairness

-----------------------------------------------------------------------------
(* Properties.                                                              *)

\* No row that was there when e was sent is left for its cascade.
Gone(e) == SeenBy(Matches(e, rows), msg[e].before) = {}

\* IDEMP-2 and the composite key of the ledger: whatever crashes, repeats and
\* overlaps, an event that is marked, or whose message is acknowledged, was
\* well-formed and every grant older than the event is gone.  A mark of the
\* other consumer, with the same event id, does not count.
DoneMeansGone ==
    \A e \in Envelopes :
        e.known /\ (msg[e].status = "deleted" \/ IsProcessed(e))
            => Valid(e) /\ Gone(e)

\* A delivery that starts after its event was carried out opens no
\* transaction (IDEMP-4), however late it is: a message does not outlive the
\* mark the sweep prunes.
NoLateReplay ==
    \A w \in Workers :
        worker[w] # Idle /\ worker[w].late => worker[w].pc \in {"probe", "ack"}

\* Deliveries that overlap, and cascades of both kinds, soft-delete a row at
\* most once: record_version counts the one UPDATE and deleted_at is that of
\* the first.  A statement that waited for a lock looks again before it writes.
DeletedOnce == \A r \in rows : r.version = IF r.deleted THEN 2 ELSE 1

\* Every message is dealt with: a well-formed event is carried out or ends
\* in the dead-letter queue, a malformed one ends there, and one of another
\* type is acknowledged or ends there.
CarriedOut ==
    \A e \in Envelopes :
        msg[e].status = "queued" ~>
            \/ msg[e].status = "dlq"
            \/ IF Valid(e) THEN e \in committed
               ELSE ~e.known /\ msg[e].status = "deleted"

Access == INSTANCE AccessTable WITH live <- LiveGrants(rows),
                                    past <- PastGrants(rows)

\* The consumers keep the promise of the table too: a cascade that commits,
\* the first time or in a replay that overlaps another delivery, is one
\* removal of a user or one purge of a tenant, and never brings a grant back,
\* rewrites it, or touches those of others.
ImplementsAccessTable == Access!Spec

-----------------------------------------------------------------------------
(* What the documents say, and the code does not do.                        *)

\* LLD section 10.1: a redelivered event is a no-op replay.  The probe and
\* the cascade are two transactions, so a second delivery that has probed
\* before the first commits cascades over what was granted since.
ReplayIsNoOp ==
    [][\A w \in Workers :
          worker[w] # Idle /\ worker[w].env \in committed
              => (Commit(w) => rows' = rows)]_vars
=============================================================================

-------------------------- MODULE AclServiceProofs --------------------------
(***************************************************************************)
(* Proofs about AclService, for any tenants, tenders, users, levels and    *)
(* clients, any TTL, any request timeout and any bounds.                   *)
(***************************************************************************)
EXTENDS AclService, EntryTableProofs

-----------------------------------------------------------------------------
(* Facts about the operators.                                               *)

\* An answer read from a well-formed table is a well-formed answer.
LEMMA AnswersAtType ==
    ASSUME NEW t \in SUBSET Rows, NEW k, NEW n
    PROVE  AnswersAt(t, k, n) \subseteq Answers
  BY DEF AnswersAt, FindActive, Answers, Rows

\* The history stays a history when a table is observed.
LEMMA ObserveType ==
    ASSUME TypeOK, NEW t \in SUBSET Rows, NEW n \in Nat
    PROVE  Observe(t, n) \in [Keys -> SUBSET (Answers \X Nat)]
  BY AnswersAtType DEF Observe, TypeOK

-----------------------------------------------------------------------------
(* Type correctness.                                                        *)

\* The service starts well-typed.
LEMMA InitType == Init => TypeOK
  BY DEF Init, TypeOK, Idle, Requests, Answers

\* A request at a stage has the fields of that stage.
LEMMA RequestFields ==
    ASSUME TypeOK, NEW c \in Clients
    PROVE  /\ req[c] \in Requests
           /\ req[c].pc \in {"get", "find", "set", "exists", "insert",
                             "granted", "update", "revoked"}
                => req[c].key \in Keys /\ req[c].deadline \in Nat
           /\ req[c].pc = "set" => req[c].ans \in Answers
           /\ req[c].pc \in {"exists", "insert", "granted"}
                => req[c].level \in Levels /\ req[c].expires \in Expiries
           /\ req[c].pc \in {"listed", "update", "revoked"}
                => /\ req[c].key \in Keys
                   /\ req[c].seen \in Nat
                   /\ req[c].version \in Nat
  BY DEF TypeOK, Requests, Idle

\* Every action keeps the types, one case per action.
LEMMA StepType == TypeOK /\ [Next]_vars => TypeOK'
  <1> SUFFICES ASSUME TypeOK, [Next]_vars PROVE TypeOK'
    OBVIOUS
  <1> USE TimeAssumption, InputAssumption
  <1>1. ASSUME NEW c \in Clients, NEW r \in Requests, Goto(c, r)
        PROVE  req' \in [Clients -> Requests]
    BY <1>1 DEF TypeOK, Goto
  <1>2. ASSUME NEW t \in SUBSET Rows, Write(t)
        PROVE  rows' \subseteq Rows /\ held' \in [Keys -> SUBSET (Answers \X Nat)]
    BY <1>2, ObserveType, Zenon DEF TypeOK, Write
  <1>3. ASSUME NEW c \in Clients, Proceed(c) PROVE TypeOK'
    <2>1. ASSUME NEW k \in Keys, StartCheck(c, k) PROVE TypeOK'
      <3>1. [pc |-> "get", key |-> k, deadline |-> now + Timeout] \in Requests
        BY DEF Requests, TypeOK
      <3>2. QED
        BY <1>1, <2>1, <3>1 DEF StartCheck, TypeOK
    <2>2. CASE CacheHit(c)
      BY <1>1, <2>2 DEF CacheHit, TypeOK, Requests
    <2>3. CASE CacheMiss(c)
      <3>1. [req[c] EXCEPT !.pc = "find"] \in Requests
        BY <2>3 DEF CacheMiss, At, TypeOK, Requests, Idle
      <3>2. QED
        BY <1>1, <2>3, <3>1 DEF CacheMiss, TypeOK
    <2>4. CASE ReadGrant(c)
      <3>1. PICK a \in AnswersAt(rows, req[c].key, now) :
               Goto(c, [pc |-> "set", key |-> req[c].key,
                        deadline |-> req[c].deadline, ans |-> a])
        BY <2>4 DEF ReadGrant
      <3>2. a \in Answers
        BY AnswersAtType DEF TypeOK
      <3>3. [pc |-> "set", key |-> req[c].key,
             deadline |-> req[c].deadline, ans |-> a] \in Requests
        BY <2>4, <3>2, RequestFields DEF ReadGrant, At, Requests
      <3>4. QED
        BY <1>1, <2>4, <3>1, <3>3 DEF ReadGrant, TypeOK
    <2>5. CASE CacheSet(c)
      <3>1. [ans |-> req[c].ans, until |-> now + TTL] \in CacheEntries
        BY <2>5, RequestFields DEF CacheSet, At, CacheEntries, TypeOK
      <3>2. QED
        BY <1>1, <2>5, <3>1, Zenon DEF CacheSet, TypeOK, Requests
    <2>6. ASSUME NEW k \in Keys, NEW l \in Levels, NEW x \in GrantExpiries,
                 StartGrant(c, k, l, x)
          PROVE  TypeOK'
      <3>1. [pc |-> "exists", key |-> k, deadline |-> now + Timeout,
             level |-> l, expires |-> x] \in Requests
        BY DEF Requests, TypeOK
      <3>2. QED
        BY <1>1, <2>6, <3>1 DEF StartGrant, TypeOK
    <2>7. CASE MembershipActive(c)
      <3>1. [req[c] EXCEPT !.pc = "insert"] \in Requests
        BY <2>7 DEF MembershipActive, At, TypeOK, Requests, Idle
      <3>2. QED
        BY <1>1, <2>7, <3>1 DEF MembershipActive, TypeOK
    <2>8. CASE InsertGrant(c)
      <3>1. [req[c] EXCEPT !.pc = "granted"] \in Requests
        BY <2>8 DEF InsertGrant, At, TypeOK, Requests, Idle
      <3>2. rows \cup {Inserted(nextId, req[c].key, req[c].level,
                                req[c].expires)} \in SUBSET Rows
        BY <2>8, RequestFields, InsertedType DEF InsertGrant, At, TypeOK
      <3>3. QED
        BY <1>1, <1>2, <2>8, <3>1, <3>2 DEF InsertGrant, TypeOK
    <2>9. CASE DuplicateGrant(c)
      BY <1>1, <2>9 DEF DuplicateGrant, TypeOK, Requests
    <2>10. ASSUME NEW t \in Tenants, NEW d \in Tenders, List(c, t, d)
           PROVE  TypeOK'
      <3>1. PICK r \in Listed(rows, t, d) :
               Goto(c, [pc |-> "listed", key |-> r.key, seen |-> r.id,
                        version |-> r.version])
        BY <2>10 DEF List
      <3>2. r \in Rows
        BY DEF Listed, TypeOK
      <3>3. [pc |-> "listed", key |-> r.key, seen |-> r.id,
             version |-> r.version] \in Requests
        BY <3>2 DEF Requests, Rows
      <3>4. QED
        BY <1>1, <2>10, <3>1, <3>3 DEF List, TypeOK
    <2>11. CASE StartRevoke(c)
      <3>1. [pc |-> "update", key |-> req[c].key,
             deadline |-> now + Timeout, seen |-> req[c].seen,
             version |-> req[c].version] \in Requests
        BY <2>11, RequestFields DEF StartRevoke, Requests, TypeOK
      <3>2. QED
        BY <1>1, <2>11, <3>1 DEF StartRevoke, TypeOK
    <2>12. CASE UpdateRevoked(c)
      <3>1. [req[c] EXCEPT !.pc = "revoked"] \in Requests
        BY <2>12 DEF UpdateRevoked, At, TypeOK, Requests, Idle
      <3>2. SoftDelete(rows, RevokeMatches(rows, req[c].key, req[c].version))
              \in SUBSET Rows
        BY SoftDeleteType DEF RevokeMatches, TypeOK
      <3>3. QED
        BY <1>1, <1>2, <2>12, <3>1, <3>2 DEF UpdateRevoked, TypeOK
    <2>13. CASE RevokeConflict(c)
      BY <1>1, <2>13 DEF RevokeConflict, TypeOK, Requests
    <2>14. CASE CacheDelete(c)
      BY <1>1, <2>14, RequestFields DEF CacheDelete, At, TypeOK, Requests
    <2>15. QED
      BY <1>3, <2>1, <2>2, <2>3, <2>4, <2>5, <2>6, <2>7, <2>8, <2>9, <2>10,
         <2>11, <2>12, <2>13, <2>14 DEF Proceed
  <1>4. ASSUME NEW c \in Clients, Abort(c) PROVE TypeOK'
    <2>1. req[c].pc \in {"update", "revoked"} => Token(c) \in Requests
      BY RequestFields DEF Token, Requests
    <2>2. QED
      BY <1>1, <1>4, <2>1 DEF Abort, TypeOK, Requests
  <1>5. ASSUME NEW t \in Tenants, NEW u \in Users, NEW n \in 1..nextId,
               SoftDeleteForUser(t, u, n)
        PROVE  TypeOK'
    <2>1. SoftDelete(rows, SeenBy(UserMatches(rows, t, u), n)) \in SUBSET Rows
      BY SoftDeleteType DEF UserMatches, SeenBy, TypeOK
    <2>2. QED
      BY <1>2, <1>5, <2>1 DEF SoftDeleteForUser, TypeOK
  <1>6. ASSUME NEW t \in Tenants, NEW n \in 1..nextId,
               CascadeDeleteForTenant(t, n) PROVE TypeOK'
    BY <1>2, <1>6 DEF CascadeDeleteForTenant, TypeOK
  <1>7. CASE Tick
    <2>1. rows \in SUBSET Rows /\ now + 1 \in Nat
      BY DEF TypeOK
    <2>2. Observe(rows, now + 1) \in [Keys -> SUBSET (Answers \X Nat)]
      BY <2>1, ObserveType
    <2>3. QED
      BY <1>7, <2>2 DEF Tick, TypeOK
  <1>8. ASSUME NEW k \in Keys, Evict(k) PROVE TypeOK'
    BY <1>8 DEF Evict, TypeOK
  <1>9. CASE UNCHANGED vars
    BY <1>9 DEF vars, TypeOK
  <1>10. QED
    BY <1>3, <1>4, <1>5, <1>6, <1>7, <1>8, <1>9 DEF Next, Environment

\* Every reachable state of the service is well formed: the requests of every
\* stage carry what the next call needs, whatever was aborted before.
THEOREM TypeCorrect == Spec => []TypeOK
  BY InitType, StepType, PTL DEF Spec

-----------------------------------------------------------------------------
(* The table: one live row per key, and what record_version counts.         *)

\* Every action keeps ids fresh, keys unique and versions right.
LEMMA StepTable == TypeOK /\ TableOK(rows, nextId) /\ [Next]_vars
                     => TableOK(rows, nextId)'
  <1> SUFFICES ASSUME TypeOK, TableOK(rows, nextId), [Next]_vars
               PROVE  TableOK(rows', nextId')
    OBVIOUS
  <1>1. ASSUME UNCHANGED <<rows, nextId>> PROVE TableOK(rows', nextId')
    BY <1>1
  <1>2. ASSUME NEW c \in Clients, InsertGrant(c)
        PROVE  TableOK(rows', nextId')
    BY <1>2, RequestFields, InsertKeepsTable
       DEF InsertGrant, At, Write, TypeOK
  <1>3. ASSUME NEW c \in Clients, UpdateRevoked(c)
        PROVE  TableOK(rows', nextId')
    <2> DEFINE S == RevokeMatches(rows, req[c].key, req[c].version)
    <2>1. S \in SUBSET rows /\ \A r \in S : ~r.deleted
      BY DEF RevokeMatches
    <2>2. rows' = SoftDelete(rows, S) /\ nextId' = nextId
      BY <1>3 DEF UpdateRevoked, Write
    <2>3. QED
      BY <2>1, <2>2, SoftDeleteKeepsTable DEF TypeOK
  <1>4. ASSUME NEW t \in Tenants, NEW u \in Users, NEW n \in 1..nextId,
               SoftDeleteForUser(t, u, n)
        PROVE  TableOK(rows', nextId')
    <2> DEFINE S == SeenBy(UserMatches(rows, t, u), n)
    <2>1. S \in SUBSET rows /\ \A r \in S : ~r.deleted
      BY DEF UserMatches, SeenBy
    <2>2. rows' = SoftDelete(rows, S) /\ nextId' = nextId
      BY <1>4 DEF SoftDeleteForUser, Write
    <2>3. QED
      BY <2>1, <2>2, SoftDeleteKeepsTable DEF TypeOK
  <1>5. ASSUME NEW t \in Tenants, NEW n \in 1..nextId,
               CascadeDeleteForTenant(t, n)
        PROVE  TableOK(rows', nextId')
    BY <1>5, DeleteKeepsTable DEF CascadeDeleteForTenant, Write
  <1>6. QED
    BY <1>1, <1>2, <1>3, <1>4, <1>5, Zenon
       DEF Next, Environment, Proceed, vars, StartCheck, CacheHit, CacheMiss,
           ReadGrant, CacheSet, StartGrant, MembershipActive, DuplicateGrant,
           List, StartRevoke, RevokeConflict, CacheDelete, Abort, Tick, Evict

\* The table is sound in every reachable state.
LEMMA TableInvariant == Spec => []TableOK(rows, nextId)
  <1>1. Init => TableOK(rows, nextId)
    BY DEF Init, TableOK
  <1>2. QED
    BY <1>1, StepTable, TypeCorrect, PTL DEF Spec

\* TAE-1 for any number of concurrent requests and any tenants, tenders and
\* users: a key never has two live rows.
THEOREM OneLiveRowAlways == Spec => []OneLiveRow
  <1>1. TableOK(rows, nextId) => OneLiveRow
    BY DEF TableOK, OneLiveRow
  <1>2. QED
    BY <1>1, TableInvariant, PTL

\* Every live row has record_version 1 and every soft-deleted row 2: the
\* token a client reads is the same for every row a key ever has.
THEOREM VersionAlways == Spec => []VersionCountsDeletion
  <1>1. TableOK(rows, nextId) => VersionCountsDeletion
    BY DEF TableOK, VersionCountsDeletion
  <1>2. QED
    BY <1>1, TableInvariant, PTL

-----------------------------------------------------------------------------
(* How old an answer can be.                                                *)

\* Answer a was right for k at a time that is at most w before b.
Backed(k, a, b, w) == \E h \in held[k] : h[1] = a /\ b <= h[2] + w

\* The history contains the present and nothing later.
HistoryOK ==
    /\ \A k \in Keys : AnswersAt(rows, k, now) \X {now} \subseteq held[k]
    /\ \A k \in Keys : \A h \in held[k] : h[2] <= now

\* A check ends within Timeout, and an answer it carries to the cache was
\* right at most Timeout before its deadline.
FreshRequest(r) ==
    /\ r.pc \in {"get", "find", "set"} => r.deadline <= now + Timeout
    /\ r.pc = "set" => Backed(r.key, r.ans, r.deadline, Timeout)

\* An answer in the cache was right at most TTL + Timeout before it drops out.
FreshEntry(k) ==
    cache[k] # Absent
        => /\ now < cache[k].until
           /\ Backed(k, cache[k].ans, cache[k].until, TTL + Timeout)

\* The inductive invariant behind AnswersFresh.
FreshInv ==
    /\ HistoryOK
    /\ \A c \in Clients : FreshRequest(req[c])
    /\ \A k \in Keys : FreshEntry(k)

\* Observing a table at a later time keeps what was backed.
LEMMA ObserveBacks ==
    ASSUME TypeOK, HistoryOK, NEW t \in SUBSET Rows, NEW n \in Nat, now <= n,
           held' = Observe(t, n)
    PROVE  /\ \A k \in Keys : AnswersAt(t, k, n) \X {n} \subseteq held'[k]
           /\ \A k \in Keys : \A h \in held'[k] : h[2] <= n
           /\ \A k \in Keys, a \in Answers, b \in Nat, w \in Nat :
                 Backed(k, a, b, w) => Backed(k, a, b, w)'
  <1>1. ASSUME NEW k \in Keys
        PROVE  held'[k] = {h \in held[k] : h[1] \notin AnswersAt(t, k, n)}
                            \cup (AnswersAt(t, k, n) \X {n})
    BY DEF Observe
  <1>2. ASSUME NEW k \in Keys, NEW h \in held'[k] PROVE h[2] <= n
    BY <1>1, <1>2 DEF HistoryOK, TypeOK
  <1>3. ASSUME NEW k \in Keys, NEW a \in Answers, NEW b \in Nat,
               NEW w \in Nat, Backed(k, a, b, w)
        PROVE  Backed(k, a, b, w)'
    <2>1. PICK h \in held[k] : h[1] = a /\ b <= h[2] + w
      BY <1>3 DEF Backed
    <2>2. h \in Answers \X Nat /\ h[2] \in Nat /\ h[2] <= n
      BY DEF HistoryOK, TypeOK
    <2>3. CASE a \in AnswersAt(t, k, n)
      <3>1. <<a, n>> \in held'[k] /\ b <= n + w
        BY <1>1, <2>1, <2>2, <2>3
      <3>2. QED
        BY <3>1 DEF Backed
    <2>4. CASE a \notin AnswersAt(t, k, n)
      BY <1>1, <2>1, <2>4 DEF Backed
    <2>5. QED
      BY <2>3, <2>4
  <1>4. QED
    BY <1>1, <1>2, <1>3

\* Every step observes, or leaves table, clock and history alone.
LEMMA StepHistory ==
    ASSUME TypeOK, TypeOK', HistoryOK, [Next]_vars
    PROVE  /\ HistoryOK'
           /\ now <= now'
           /\ \A k \in Keys, a \in Answers, b \in Nat, w \in Nat :
                 Backed(k, a, b, w) => Backed(k, a, b, w)'
  <1>1. CASE UNCHANGED <<now, rows, held>>
    BY <1>1 DEF HistoryOK, Backed, TypeOK
  <1>2. CASE held' = Observe(rows', now') /\ now <= now'
    BY <1>2, ObserveBacks, Zenon DEF HistoryOK, TypeOK
  <1>3. \/ UNCHANGED <<now, rows, held>>
        \/ held' = Observe(rows', now') /\ now <= now'
    <2>1. now \in Nat
      BY DEF TypeOK
    <2>2. ASSUME NEW t, Write(t), UNCHANGED now
          PROVE  held' = Observe(rows', now') /\ now <= now'
      BY <2>1, <2>2 DEF Write
    <2>3. CASE Tick
      BY <2>1, <2>3 DEF Tick
    <2>4. ASSUME NEW c \in Clients, Proceed(c) \/ Abort(c)
          PROVE  \/ UNCHANGED <<now, rows, held>>
                 \/ held' = Observe(rows', now') /\ now <= now'
      BY <2>2, <2>4, Zenon
         DEF Proceed, StartCheck, CacheHit, CacheMiss, ReadGrant, CacheSet,
             StartGrant, MembershipActive, InsertGrant, DuplicateGrant, List,
             StartRevoke, UpdateRevoked, RevokeConflict, CacheDelete, Abort
    <2>5. QED
      BY <2>2, <2>3, <2>4, Zenon
         DEF Next, Environment, SoftDeleteForUser, CascadeDeleteForTenant,
             Evict, vars
  <1>4. QED
    BY <1>1, <1>2, <1>3

\* Every action keeps what is cached, or on its way there, recent.
LEMMA StepFresh == TypeOK /\ TypeOK' /\ FreshInv /\ [Next]_vars => FreshInv'
  <1> SUFFICES ASSUME TypeOK, TypeOK', FreshInv, [Next]_vars
               PROVE  FreshInv'
    OBVIOUS
  <1> USE TimeAssumption
  <1>1. /\ HistoryOK'
        /\ now \in Nat /\ now' \in Nat /\ now <= now'
        /\ \A k \in Keys, a \in Answers, b \in Nat, w \in Nat :
              Backed(k, a, b, w) => Backed(k, a, b, w)'
    BY StepHistory DEF FreshInv, TypeOK
  \* A request that does not move stays fresh.
  <1>2. ASSUME NEW d \in Clients, req'[d] = req[d] PROVE FreshRequest(req[d])'
    <2>1. req[d].pc \in {"get", "find", "set"}
             => req[d].deadline \in Nat /\ req[d].deadline <= now' + Timeout
      BY <1>1, RequestFields DEF FreshInv, FreshRequest
    <2>2. req[d].pc = "set"
             => Backed(req[d].key, req[d].ans, req[d].deadline, Timeout)'
      BY <1>1, <1>2, RequestFields DEF FreshInv, FreshRequest, Backed
    <2>3. QED
      BY <1>2, <2>1, <2>2 DEF FreshRequest
  \* An entry that does not change stays fresh while it has not run out.
  <1>3. ASSUME NEW k \in Keys, cache'[k] = cache[k],
               cache[k] # Absent => now' < cache[k].until
        PROVE  FreshEntry(k)'
    <2>1. cache[k] # Absent => cache[k].ans \in Answers /\ cache[k].until \in Nat
      BY DEF TypeOK, CacheEntries
    <2>2. cache[k] # Absent
            => Backed(k, cache[k].ans, cache[k].until, TTL + Timeout)'
      BY <1>1, <1>3, <2>1 DEF FreshInv, FreshEntry, Backed
    <2>3. QED
      BY <1>3, <2>1, <2>2 DEF FreshEntry
  \* A step that leaves cache and clock alone and moves one request to a
  \* fresh one keeps the invariant.
  <1>4. ASSUME NEW c \in Clients, NEW r, Goto(c, r), UNCHANGED <<now, cache>>,
               req'[c].pc \in {"get", "find", "set"}
                 => FreshRequest(req[c])'
        PROVE  FreshInv'
    <2>1. \A d \in Clients : d # c => req'[d] = req[d]
      BY <1>4 DEF Goto, TypeOK
    <2>2. FreshRequest(req[c])'
      BY <1>4 DEF FreshRequest
    <2>3. \A d \in Clients : FreshRequest(req[d])'
      BY <1>2, <2>1, <2>2
    <2>4. \A k \in Keys : FreshEntry(k)'
      BY <1>3, <1>4 DEF FreshInv, FreshEntry
    <2>5. QED
      BY <1>1, <2>3, <2>4 DEF FreshInv
  <1>5. ASSUME NEW c \in Clients, Proceed(c) PROVE FreshInv'
    <2>1. ASSUME NEW k \in Keys, StartCheck(c, k) PROVE FreshInv'
      <3>1. req'[c] = [pc |-> "get", key |-> k, deadline |-> now + Timeout]
        BY <2>1 DEF StartCheck, Goto, TypeOK
      <3>2. FreshRequest(req[c])'
        BY <2>1, <3>1, <1>1 DEF StartCheck, FreshRequest
      <3>3. QED
        BY <1>4, <2>1, <3>2 DEF StartCheck
    <2>2. CASE CacheHit(c) \/ DuplicateGrant(c) \/ RevokeConflict(c)
      <3>1. Goto(c, Idle) /\ UNCHANGED <<now, cache>>
        BY <2>2 DEF CacheHit, DuplicateGrant, RevokeConflict
      <3>2. req'[c].pc = "idle"
        BY <3>1 DEF Goto, TypeOK, Idle
      <3>3. QED
        BY <1>4, <3>1, <3>2
    <2>3. CASE CacheMiss(c)
      <3>1. /\ req'[c] = [req[c] EXCEPT !.pc = "find"]
            /\ req[c].pc = "get"
        BY <2>3 DEF CacheMiss, At, Goto, TypeOK
      <3>2. req'[c].pc = "find" /\ req'[c].deadline = req[c].deadline
        BY <3>1, RequestFields DEF Requests, Idle
      <3>3. FreshRequest(req[c])'
        BY <2>3, <3>1, <3>2 DEF CacheMiss, FreshInv, FreshRequest
      <3>4. QED
        BY <1>4, <2>3, <3>3 DEF CacheMiss
    <2>4. CASE ReadGrant(c)
      <3>1. PICK a \in AnswersAt(rows, req[c].key, now) :
               Goto(c, [pc |-> "set", key |-> req[c].key,
                        deadline |-> req[c].deadline, ans |-> a])
        BY <2>4 DEF ReadGrant
      <3>2. /\ req'[c] = [pc |-> "set", key |-> req[c].key,
                          deadline |-> req[c].deadline, ans |-> a]
            /\ req[c].pc = "find"
            /\ req[c].key \in Keys
            /\ req[c].deadline \in Nat
            /\ UNCHANGED <<now, cache, held>>
        BY <2>4, <3>1, RequestFields DEF ReadGrant, At, Goto, TypeOK
      <3>3. <<a, now>> \in held[req[c].key]
        BY <3>2 DEF FreshInv, HistoryOK
      <3>4. req[c].deadline <= now + Timeout
        BY <3>2 DEF FreshInv, FreshRequest
      <3>5. Backed(req[c].key, a, req[c].deadline, Timeout)
        BY <3>3, <3>4 DEF Backed
      <3>6. FreshRequest(req[c])'
        BY <3>2, <3>4, <3>5 DEF FreshRequest, Backed
      <3>7. QED
        BY <1>4, <3>1, <3>2, <3>6
    <2>5. CASE CacheSet(c)
      <3>0. PICK k \in Keys : k = req[c].key
        BY <2>5, RequestFields DEF CacheSet, At
      <3>1. /\ req[c].pc = "set" /\ now < req[c].deadline
            /\ req[c].deadline \in Nat /\ req[c].ans \in Answers
            /\ cache' = [cache EXCEPT ![k] =
                            [ans |-> req[c].ans, until |-> now + TTL]]
            /\ Goto(c, Idle)
            /\ UNCHANGED <<now, held>>
        BY <2>5, <3>0, RequestFields DEF CacheSet, At
      <3>2. PICK h \in held[k] : h[1] = req[c].ans
                                 /\ req[c].deadline <= h[2] + Timeout
        BY <3>0, <3>1 DEF FreshInv, FreshRequest, Backed
      <3>3. h[2] \in Nat
        BY <3>1 DEF TypeOK
      <3>4. now + TTL <= h[2] + (TTL + Timeout)
        BY <1>1, <3>1, <3>2, <3>3
      <3>5. Backed(k, req[c].ans, now + TTL, TTL + Timeout)
        BY <3>2, <3>4 DEF Backed
      <3>6. cache'[k] = [ans |-> req[c].ans, until |-> now + TTL]
        BY <3>1 DEF TypeOK
      <3>7. FreshEntry(k)'
        BY <1>1, <3>1, <3>5, <3>6 DEF FreshEntry, Backed
      <3>8. \A j \in Keys : j # k => FreshEntry(j)'
        BY <1>3, <3>1, Zenon DEF FreshInv, FreshEntry, TypeOK
      <3>9. FreshRequest(req[c])'
        BY <3>1 DEF Goto, Idle, FreshRequest, TypeOK
      <3>10. \A d \in Clients : d # c => FreshRequest(req[d])'
        BY <1>2, <3>1 DEF Goto, TypeOK
      <3>11. QED
        BY <1>1, <3>7, <3>8, <3>9, <3>10 DEF FreshInv
    <2>6. ASSUME NEW k \in Keys, NEW l \in Levels, NEW x \in GrantExpiries,
                 StartGrant(c, k, l, x)
          PROVE  FreshInv'
      <3>1. req'[c].pc = "exists"
        BY <2>6 DEF StartGrant, Goto, TypeOK
      <3>2. QED
        BY <1>4, <2>6, <3>1 DEF StartGrant
    <2>7. CASE MembershipActive(c)
      <3>1. req'[c].pc = "insert"
        BY <2>7, RequestFields
           DEF MembershipActive, At, Goto, TypeOK, Requests, Idle
      <3>2. QED
        BY <1>4, <2>7, <3>1 DEF MembershipActive
    <2>8. CASE InsertGrant(c)
      <3>1. req'[c].pc = "granted"
        BY <2>8, RequestFields
           DEF InsertGrant, At, Goto, TypeOK, Requests, Idle
      <3>2. QED
        BY <1>4, <2>8, <3>1 DEF InsertGrant
    <2>9. ASSUME NEW t \in Tenants, NEW d \in Tenders, List(c, t, d)
          PROVE  FreshInv'
      <3>1. PICK r \in Listed(rows, t, d) :
               Goto(c, [pc |-> "listed", key |-> r.key, seen |-> r.id,
                        version |-> r.version])
        BY <2>9 DEF List
      <3>2. req'[c].pc = "listed"
        BY <3>1 DEF Goto, TypeOK
      <3>3. QED
        BY <1>4, <2>9, <3>1, <3>2 DEF List
    <2>10. CASE StartRevoke(c)
      <3>1. req'[c].pc = "update"
        BY <2>10 DEF StartRevoke, Goto, TypeOK
      <3>2. QED
        BY <1>4, <2>10, <3>1 DEF StartRevoke
    <2>11. CASE UpdateRevoked(c)
      <3>1. req'[c].pc = "revoked"
        BY <2>11, RequestFields
           DEF UpdateRevoked, At, Goto, TypeOK, Requests, Idle
      <3>2. QED
        BY <1>4, <2>11, <3>1 DEF UpdateRevoked
    <2>12. CASE CacheDelete(c)
      <3>1. /\ req[c].key \in Keys
            /\ cache' = [cache EXCEPT ![req[c].key] = Absent]
            /\ Goto(c, Idle)
            /\ UNCHANGED now
        BY <2>12, RequestFields DEF CacheDelete, At
      <3>2. \A j \in Keys : FreshEntry(j)'
        BY <1>3, <3>1 DEF FreshInv, FreshEntry, TypeOK
      <3>3. FreshRequest(req[c])'
        BY <3>1 DEF Goto, Idle, FreshRequest, TypeOK
      <3>4. \A d \in Clients : d # c => FreshRequest(req[d])'
        BY <1>2, <3>1 DEF Goto, TypeOK
      <3>5. QED
        BY <1>1, <3>2, <3>3, <3>4 DEF FreshInv
    <2>13. QED
      BY <1>5, <2>1, <2>2, <2>3, <2>4, <2>5, <2>6, <2>7, <2>8, <2>9, <2>10,
         <2>11, <2>12 DEF Proceed
  <1>6. ASSUME NEW c \in Clients, Abort(c) PROVE FreshInv'
    <2>1. PICK r \in {Idle, Token(c)} : Goto(c, r)
      BY <1>6 DEF Abort
    <2>2. req'[c].pc \in {"idle", "listed"}
      BY <2>1 DEF Goto, Idle, Token, TypeOK
    <2>3. QED
      BY <1>4, <1>6, <2>1, <2>2 DEF Abort
  <1>7. ASSUME UNCHANGED req, \A k \in Keys : FreshEntry(k)' PROVE FreshInv'
    BY <1>1, <1>2, <1>7 DEF FreshInv
  <1>8. CASE Environment
    <2>1. UNCHANGED req
      BY <1>8, Zenon DEF Environment, SoftDeleteForUser, CascadeDeleteForTenant,
                  Tick, Evict
    <2>2. ASSUME NEW k \in Keys PROVE FreshEntry(k)'
      <3>1. CASE cache'[k] = Absent
        BY <3>1 DEF FreshEntry
      <3>2. CASE cache'[k] # Absent
        <4>1. cache'[k] = cache[k]
          BY <1>8, <3>2, Zenon DEF Environment, SoftDeleteForUser, TypeOK,
                            CascadeDeleteForTenant, Tick, Evict
        <4>2. now' < cache[k].until
          <5>1. cache[k].until \in Nat /\ now < cache[k].until
            BY <3>2, <4>1 DEF TypeOK, CacheEntries, FreshInv, FreshEntry
          <5>2. CASE Tick
            <6>1. now' = now + 1 /\ ~(cache[k].until <= now + 1)
              BY <3>2, <4>1, <5>2 DEF Tick, TypeOK
            <6>2. QED
              BY <1>1, <5>1, <6>1
          <5>3. CASE ~Tick
            <6>1. now' = now
              BY <1>8, <5>3, Zenon DEF Environment, SoftDeleteForUser,
                                CascadeDeleteForTenant, Evict
            <6>2. QED
              BY <5>1, <6>1
          <5>4. QED
            BY <5>2, <5>3
        <4>3. QED
          BY <1>3, <4>1, <4>2
      <3>3. QED
        BY <3>1, <3>2
    <2>3. QED
      BY <1>7, <2>1, <2>2
  <1>9. CASE UNCHANGED vars
    BY <1>3, <1>7, <1>9 DEF vars, FreshInv, FreshEntry
  <1>10. QED
    BY <1>5, <1>6, <1>8, <1>9 DEF Next

\* The cache starts empty and the empty table answers "no access".
LEMMA InitFresh == Init => FreshInv
  <1> SUFFICES ASSUME Init PROVE FreshInv
    OBVIOUS
  <1>1. \A k \in Keys : AnswersAt({}, k, 0) = {NoAccess}
    BY DEF AnswersAt, FindActive
  <1>2. HistoryOK
    BY <1>1 DEF Init, HistoryOK
  <1>3. QED
    BY <1>2 DEF Init, FreshInv, FreshRequest, FreshEntry, Idle

\* The strengthened invariant says what a reader of the cache cares about.
LEMMA FreshIsEnough == TypeOK /\ FreshInv => AnswersFresh
  <1> SUFFICES ASSUME TypeOK, FreshInv, NEW k \in Keys, cache[k] # Absent
               PROVE  RightWithin(k, cache[k].ans, TTL + Timeout)
    BY DEF AnswersFresh
  <1>1. /\ cache[k].until \in Nat
        /\ now < cache[k].until
        /\ Backed(k, cache[k].ans, cache[k].until, TTL + Timeout)
    BY DEF TypeOK, CacheEntries, FreshInv, FreshEntry
  <1>2. PICK h \in held[k] : /\ h[1] = cache[k].ans
                             /\ cache[k].until <= h[2] + (TTL + Timeout)
    BY <1>1 DEF Backed
  <1>3. h[2] \in Nat /\ now \in Nat
    BY DEF TypeOK
  <1>4. now < h[2] + (TTL + Timeout)
    BY <1>1, <1>2, <1>3, TimeAssumption
  <1>5. QED
    BY <1>2, <1>4 DEF RightWithin

\* Whatever the number of pods, keys and rows, and however long the system
\* runs, an answer the cache serves was right within the last TTL + Timeout.
THEOREM AnswersFreshAlways == Spec => []AnswersFresh
  <1>1. TypeOK /\ FreshInv /\ TypeOK' /\ [Next]_vars => FreshInv'
    BY StepFresh
  <1>2. QED
    BY <1>1, InitFresh, FreshIsEnough, TypeCorrect, PTL DEF Spec

-----------------------------------------------------------------------------
(* What a step may never do.                                                *)

\* Soft deletion of live rows leaves the deleted ones in place.
LEMMA SoftDeleteKeepsDeleted ==
    ASSUME NEW t, NEW S, \A s \in S : ~s.deleted,
           NEW r \in t, r.deleted
    PROVE  r \in SoftDelete(t, S)
  BY DEF SoftDelete

\* Neither a grant, nor a revoke, nor a member's removal touches a row that
\* has been soft-deleted; the purge of a tenant takes all of its rows.
THEOREM AuditTrailAlways == Spec => AuditTrailKept
  <1>1. ASSUME TypeOK, [Next]_vars, NEW r \in rows, r.deleted
        PROVE  \/ r \in rows'
               \/ \A s \in rows' : s.key.tenant = r.key.tenant => s.id > r.id
    <2>1. CASE UNCHANGED rows
      BY <1>1, <2>1
    <2>2. ASSUME NEW c \in Clients, InsertGrant(c) PROVE r \in rows'
      BY <2>2 DEF InsertGrant, Write
    <2>3. ASSUME NEW c \in Clients, UpdateRevoked(c) PROVE r \in rows'
      BY <1>1, <2>3, SoftDeleteKeepsDeleted
         DEF UpdateRevoked, Write, RevokeMatches
    <2>4. ASSUME NEW t \in Tenants, NEW u \in Users, NEW n \in 1..nextId,
               SoftDeleteForUser(t, u, n)
          PROVE  r \in rows'
      BY <1>1, <2>4, SoftDeleteKeepsDeleted
         DEF SoftDeleteForUser, Write, UserMatches, SeenBy
    <2>5. ASSUME NEW t \in Tenants, NEW n \in 1..nextId,
               CascadeDeleteForTenant(t, n)
          PROVE  \/ r \in rows'
                 \/ \A s \in rows' : s.key.tenant = r.key.tenant => s.id > r.id
      <3>1. rows' = rows \ SeenBy(TenantMatches(rows, t), n)
        BY <2>5 DEF CascadeDeleteForTenant, Write
      <3>2. r.id \in Nat /\ n \in Nat /\ \A s \in rows : s.id \in Nat
        BY <1>1 DEF TypeOK, Rows
      <3>3. QED
        BY <3>1, <3>2 DEF SeenBy, TenantMatches
    <2>6. QED
      BY <1>1, <2>1, <2>2, <2>3, <2>4, <2>5, Zenon
         DEF Next, Proceed, StartCheck, CacheHit, CacheMiss, ReadGrant,
             CacheSet, StartGrant, MembershipActive, DuplicateGrant, List,
             StartRevoke, RevokeConflict, CacheDelete, Abort, Environment,
             Tick, Evict, vars
  <1>2. TypeOK /\ [Next]_vars =>
          [\A r \in rows : r.deleted =>
              \/ r \in rows'
              \/ \A s \in rows' : s.key.tenant = r.key.tenant => s.id > r.id]_vars
    BY <1>1
  <1>3. QED
    BY <1>2, TypeCorrect, PTL DEF Spec, AuditTrailKept

\* Outside FindActive and cache.Set, no request brings an answer forward.
LEMMA OnlyTwoCarry ==
    ASSUME TypeOK, NEW c \in Clients, Proceed(c) \/ Abort(c),
           ~ReadGrant(c), ~CacheSet(c)
    PROVE  /\ \A k \in Keys : cache'[k] \in {cache[k], Absent}
           /\ \A d \in Clients : req'[d] = req[d] \/ req'[d].pc # "set"
  <1>1. /\ \A k \in Keys : cache'[k] \in {cache[k], Absent}
        /\ \E r : Goto(c, r)
    BY Zenon DEF Proceed, StartCheck, CacheHit, CacheMiss, StartGrant,
           MembershipActive, InsertGrant, DuplicateGrant, List, StartRevoke,
           UpdateRevoked, RevokeConflict, CacheDelete, Abort, TypeOK
  <1>2. \A d \in Clients : d # c => req'[d] = req[d]
    BY <1>1 DEF Goto, TypeOK
  <1>3. ASSUME NEW p, p # "set", Goto(c, [req[c] EXCEPT !.pc = p]),
               req[c].pc # "idle"
        PROVE  req'[c].pc # "set"
    <2>1. req'[c] = [req[c] EXCEPT !.pc = p]
      BY <1>3 DEF Goto, TypeOK
    <2>2. [req[c] EXCEPT !.pc = p].pc = p
      BY <1>3, RequestFields DEF Requests, Idle
    <2>3. QED
      BY <1>3, <2>1, <2>2
  <1>4. CASE CacheMiss(c) \/ MembershipActive(c) \/ InsertGrant(c)
               \/ UpdateRevoked(c)
    <2>1. \E p \in {"find", "insert", "granted", "revoked"} :
             Goto(c, [req[c] EXCEPT !.pc = p])
      BY <1>4 DEF CacheMiss, MembershipActive, InsertGrant, UpdateRevoked
    <2>2. req[c].pc # "idle"
      BY <1>4 DEF CacheMiss, MembershipActive, InsertGrant, UpdateRevoked, At
    <2>3. req'[c].pc # "set"
      BY <1>3, <2>1, <2>2
    <2>4. QED
      BY <1>1, <1>2, <2>3
  <1>5. CASE ~(CacheMiss(c) \/ MembershipActive(c) \/ InsertGrant(c)
                 \/ UpdateRevoked(c))
    <2>1. req'[c].pc # "set"
      BY <1>5 DEF Proceed, StartCheck, CacheHit, StartGrant, DuplicateGrant,
                  List, StartRevoke, RevokeConflict, CacheDelete, Abort,
                  Token, Idle, Goto, TypeOK
    <2>2. QED
      BY <1>1, <1>2, <2>1
  <1>6. QED
    BY <1>4, <1>5

\* Only a change of the right answer makes the cache outdated.
THEOREM OnlyChangesOutdateAlways == Spec => OnlyChangesOutdate
  <1>1. ASSUME TypeOK, [Next]_vars, NEW k \in Keys, Current(k),
               AnswersAt(rows', k, now') = AnswersAt(rows, k, now)
        PROVE  Current(k)'
    \* Nothing new is stored for k, and no new answer is on its way.
    <2>1. ASSUME cache'[k] \in {cache[k], Absent},
                 \A d \in Clients : req'[d] = req[d] \/ req'[d].pc # "set"
          PROVE  Current(k)'
      BY <1>1, <2>1 DEF Current
    <2>2. ASSUME NEW c \in Clients, ReadGrant(c) PROVE Current(k)'
      <3>1. PICK a \in AnswersAt(rows, req[c].key, now) :
               Goto(c, [pc |-> "set", key |-> req[c].key,
                        deadline |-> req[c].deadline, ans |-> a])
        BY <2>2 DEF ReadGrant
      <3>2. /\ req'[c] = [pc |-> "set", key |-> req[c].key,
                          deadline |-> req[c].deadline, ans |-> a]
            /\ \A d \in Clients : d # c => req'[d] = req[d]
            /\ UNCHANGED cache
        BY <1>1, <2>2, <3>1 DEF ReadGrant, Goto, TypeOK
      <3>3. QED
        BY <1>1, <3>1, <3>2 DEF Current
    <2>3. ASSUME NEW c \in Clients, CacheSet(c) PROVE Current(k)'
      <3>1. /\ req[c].pc = "set"
            /\ req'[c] = Idle
            /\ \A d \in Clients : d # c => req'[d] = req[d]
            /\ cache' = [cache EXCEPT ![req[c].key] =
                            [ans |-> req[c].ans, until |-> now + TTL]]
        BY <1>1, <2>3 DEF CacheSet, At, Goto, TypeOK
      <3>2. CASE req[c].key = k
        <4>1. cache'[k].ans = req[c].ans
          BY <1>1, <3>1, <3>2 DEF TypeOK
        <4>2. QED
          BY <1>1, <3>1, <3>2, <4>1 DEF Current, Idle
      <3>3. CASE req[c].key # k
        <4>1. cache'[k] = cache[k]
          BY <1>1, <3>1, <3>3 DEF TypeOK
        <4>2. QED
          BY <1>1, <3>1, <4>1 DEF Current, Idle
      <3>4. QED
        BY <3>2, <3>3
    <2>4. ASSUME NEW c \in Clients, Proceed(c) \/ Abort(c),
                 ~ReadGrant(c), ~CacheSet(c)
          PROVE  Current(k)'
      BY <1>1, <2>1, <2>4, OnlyTwoCarry
    <2>5. CASE Environment
      BY <1>1, <2>1, <2>5, Zenon
         DEF Environment, SoftDeleteForUser, CascadeDeleteForTenant, Tick,
             Evict, TypeOK
    <2>6. CASE UNCHANGED vars
      BY <2>1, <2>6 DEF vars
    <2>7. QED
      BY <1>1, <2>2, <2>3, <2>4, <2>5, <2>6 DEF Next
  <1>2. TypeOK /\ [Next]_vars =>
          [\A k \in Keys :
              /\ Current(k)
              /\ AnswersAt(rows', k, now') = AnswersAt(rows, k, now)
              => Current(k)']_vars
    BY <1>1
  <1>3. QED
    BY <1>2, TypeCorrect, PTL DEF Spec, OnlyChangesOutdate

-----------------------------------------------------------------------------
(* AclService implements AccessTable.  The mapping sees a row as the grant  *)
(* it records, so the proof needs what TableOK says: an id names one row.   *)

\* An INSERT is a grant.
LEMMA InsertImplements ==
    ASSUME TypeOK, TableOK(rows, nextId), NEW c \in Clients, InsertGrant(c)
    PROVE  Access!Grant
  <1> DEFINE i == Inserted(nextId, req[c].key, req[c].level, req[c].expires)
             g == GrantOf(i)
  <1>1. /\ rows' = rows \cup {i}
        /\ ~Blocked(rows, req[c].key)
    BY DEF InsertGrant, Write
  <1>2. ~i.deleted /\ g.id = nextId /\ g.key = req[c].key
    BY DEF Inserted, GrantOf
  <1>3. /\ \A h \in LiveGrants(rows) : h.key # req[c].key
        /\ \A h \in LiveGrants(rows) \cup PastGrants(rows) : h.id # nextId
    <2>1. \A r \in rows : /\ GrantOf(r).id = r.id /\ r.id # nextId
                          /\ GrantOf(r).key = r.key
      BY DEF TableOK, GrantOf, TypeOK, Rows
    <2>2. QED
      BY <1>1, <2>1, ZenonT(60) DEF LiveGrants, PastGrants, Blocked
  <1> HIDE DEF i
  <1>4. LiveGrants(rows') = LiveGrants(rows) \cup {g}
    BY <1>1, <1>2 DEF LiveGrants
  <1>5. PastGrants(rows') = PastGrants(rows)
    BY <1>1, <1>2 DEF PastGrants
  <1> HIDE DEF g
  <1>6. QED
    BY <1>2, <1>3, <1>4, <1>5 DEF Access!Grant

\* Soft deletion of some rows is TakeBack of the grants they record.
LEMMA SoftDeleteImplements ==
    ASSUME TypeOK, TableOK(rows, nextId), NEW S \in SUBSET rows, S # {},
           \A r \in S : ~r.deleted, rows' = SoftDelete(rows, S)
    PROVE  Access!TakeBack(Recorded(S))
  <1>1. OneRowPerId(rows)
    BY DEF TableOK, OneRowPerId
  <1>2. /\ LiveGrants(rows') = LiveGrants(rows) \ Recorded(S)
        /\ PastGrants(rows') = PastGrants(rows) \cup Recorded(S)
    BY <1>1, SoftDeleteTakesBack DEF TypeOK
  <1>3. Recorded(S) # {}
    BY DEF Recorded
  <1>4. QED
    BY <1>2, <1>3 DEF Access!TakeBack

\* The UPDATE of a revoke takes back the one grant of its key.
LEMMA RevokeImplements ==
    ASSUME TypeOK, TableOK(rows, nextId), NEW c \in Clients, UpdateRevoked(c)
    PROVE  \E k \in Keys : Access!Revoke(k)
  <1> DEFINE k == req[c].key
             S == RevokeMatches(rows, k, req[c].version)
  <1>1. /\ S # {} /\ rows' = SoftDelete(rows, S)
        /\ S \subseteq rows /\ \A r \in S : ~r.deleted /\ r.key = k
    BY DEF UpdateRevoked, Write, RevokeMatches
  <1>2. k \in Keys
    BY <1>1 DEF TypeOK, Rows
  <1>3. Access!TakeBack(Recorded(S))
    BY <1>1, SoftDeleteImplements
  <1>4. {g \in LiveGrants(rows) : g.key = k} = Recorded(S)
    <2>1. \A r \in rows : ~r.deleted /\ r.key = k => r \in S
      <3>1. PICK s \in S : TRUE
        BY <1>1
      <3>2. QED
        BY <1>1, <3>1, Zenon DEF TableOK
    <2>2. \A r \in rows : GrantOf(r).key = r.key
      BY DEF GrantOf
    <2>3. QED
      BY <1>1, <2>1, <2>2, Zenon DEF LiveGrants, Recorded
  <1>5. QED
    BY <1>2, <1>3, <1>4, Zenon DEF Access!Revoke

\* The member-removal cascade takes back the oldest grants of the user.
LEMMA RemovalImplements ==
    ASSUME TypeOK, TableOK(rows, nextId), NEW t \in Tenants, NEW u \in Users,
           NEW n \in Nat, SoftDeleteForUser(t, u, n)
    PROVE  Access!RemoveUser(t, u)
  <1> DEFINE M == UserMatches(rows, t, u)
             S == SeenBy(M, n)
             T == {g \in LiveGrants(rows) : g.key.tenant = t /\ g.key.user = u}
  <1>1. /\ S # {} /\ rows' = SoftDelete(rows, S) /\ S \subseteq rows
        /\ \A r \in S : ~r.deleted
    BY DEF SoftDeleteForUser, Write, SeenBy, UserMatches
  <1>2. Access!TakeBack(Recorded(S))
    BY <1>1, SoftDeleteImplements
  <1>3. T = Recorded(M) /\ M \in SUBSET Rows
    <2>1. rows \in SUBSET Rows
      BY DEF TypeOK
    <2>2. M \in SUBSET Rows
      BY <2>1 DEF UserMatches
    <2>3. QED
      BY <2>1, <2>2, MatchesRecord
  <1> HIDE DEF M
  <1>4. Access!OldestOf(Recorded(S), T)
    BY <1>3, SnapshotIsOldest DEF Access!OldestOf
  <1>5. Recorded(S) \in SUBSET LiveGrants(rows)
    BY <1>4 DEF Access!OldestOf
  <1> HIDE DEF S
  <1>6. QED
    BY <1>2, <1>4, <1>5, Zenon DEF Access!RemoveUser

\* The offboarding cascade purges the oldest grants of the tenant.
LEMMA PurgeImplements ==
    ASSUME TypeOK, TableOK(rows, nextId), NEW t \in Tenants, NEW n \in Nat,
           CascadeDeleteForTenant(t, n)
    PROVE  Access!Purge(t)
  <1> DEFINE M == TenantMatches(rows, t)
             S == SeenBy(M, n)
             A == LiveGrants(rows) \cup PastGrants(rows)
             T == {g \in A : g.key.tenant = t}
  <1>1. rows' = rows \ S /\ S \subseteq rows
    BY DEF CascadeDeleteForTenant, Write, SeenBy, TenantMatches
  <1>2. T = Recorded(M) /\ M \in SUBSET Rows
    <2>1. rows \in SUBSET Rows
      BY DEF TypeOK
    <2>2. M \in SUBSET Rows
      BY <2>1 DEF TenantMatches
    <2>3. QED
      BY <2>1, <2>2, MatchesRecord
  <1> HIDE DEF M
  <1>3. Access!OldestOf(Recorded(S), T)
    BY <1>2, SnapshotIsOldest DEF Access!OldestOf
  <1>4. Recorded(S) \in SUBSET A
    BY <1>3 DEF Access!OldestOf
  <1> HIDE DEF S
  <1>5. OneRowPerId(rows)
    BY DEF TableOK, OneRowPerId
  <1>6. /\ LiveGrants(rows') = LiveGrants(rows) \ Recorded(S)
        /\ PastGrants(rows') = PastGrants(rows) \ Recorded(S)
    BY <1>1, <1>5, DeleteForgets, Zenon DEF TypeOK
  <1>7. QED
    BY <1>3, <1>4, <1>6, Zenon DEF Access!Purge

\* Every step of the requests, the cascades, the clock and the cache is a step
\* of the abstract table or leaves it alone.
LEMMA StepImplements ==
    TypeOK /\ TableOK(rows, nextId) /\ [Next]_vars => [Access!Next]_Access!avars
  <1> SUFFICES ASSUME TypeOK, TableOK(rows, nextId), [Next]_vars
               PROVE  Access!Next \/ UNCHANGED Access!avars
    OBVIOUS
  <1>1. CASE UNCHANGED rows
    BY <1>1 DEF Access!avars, LiveGrants, PastGrants
  <1>2. ASSUME NEW c \in Clients, InsertGrant(c) PROVE Access!Next
    BY <1>2, InsertImplements DEF Access!Next
  <1>3. ASSUME NEW c \in Clients, UpdateRevoked(c) PROVE Access!Next
    BY <1>3, RevokeImplements DEF Access!Next, Access!Keys, Keys
  <1>4. ASSUME NEW t \in Tenants, NEW u \in Users, NEW n \in 1..nextId,
               SoftDeleteForUser(t, u, n)
        PROVE  Access!Next
    <2>1. n \in Nat
      BY DEF TypeOK
    <2>2. QED
      BY <1>4, <2>1, RemovalImplements DEF Access!Next
  <1>5. ASSUME NEW t \in Tenants, NEW n \in 1..nextId,
               CascadeDeleteForTenant(t, n)
        PROVE  Access!Next
    <2>1. n \in Nat
      BY DEF TypeOK
    <2>2. QED
      BY <1>5, <2>1, PurgeImplements DEF Access!Next
  <1>6. QED
    BY <1>1, <1>2, <1>3, <1>4, <1>5, Zenon
       DEF Next, Proceed, StartCheck, CacheHit, CacheMiss, ReadGrant,
           CacheSet, StartGrant, MembershipActive, DuplicateGrant, List,
           StartRevoke, RevokeConflict, CacheDelete, Abort, Environment,
           Tick, Evict, vars

\* Whatever the interleaving of requests and cascades, and whatever the number
\* of tenants, users and pods, the rows behave as the abstract table: one
\* grant per key, taken back or purged, never revived and never rewritten.
THEOREM AclImplementsAccessTable == Spec => ImplementsAccessTable
  <1>1. Init => Access!Init
    BY DEF Init, Access!Init, LiveGrants, PastGrants
  <1>2. QED
    BY <1>1, StepImplements, TypeCorrect, TableInvariant, PTL
       DEF Spec, ImplementsAccessTable, Access!Spec

=============================================================================

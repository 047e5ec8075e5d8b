----------------------------- MODULE AclService -----------------------------
(***************************************************************************)
(* ACLService over Postgres and Valkey: TAC-1 (List), TAC-2 (Grant), TAC-3 *)
(* (Revoke) and TAC-4 (CheckAccess) requests of any number of pods running *)
(* concurrently against one table and one cache, with the two cascades of  *)
(* the event consumers as they commit.                                     *)
(*                                                                         *)
(* Every call a service method makes to Postgres, Valkey or Core is a step *)
(* of its own, because any other request may run between two of them.  A   *)
(* statement is one step: each repository method is a transaction with one *)
(* statement, and the unique index and the row locks of READ COMMITTED     *)
(* serialise the writers of a key.                                         *)
(***************************************************************************)
EXTENDS EntryTable, FiniteSets

CONSTANTS
    Clients,     \* request slots: each holds at most one request at a time
    TTL,         \* cache.go ttl (30 s)
    Timeout,     \* how long the calls of a request take effect: the 30 s of
                 \* TimeoutMiddleware in router.go, and what the timeouts of the
                 \* Valkey client let a call under way take beyond them
    MaxTime,     \* bound on the clock
    MaxRows,     \* bound on the number of rows ever inserted
    GrantExpiries, \* the expires_at values clients send
    Absent       \* a cache key that is not set

ASSUME TimeAssumption ==
    TTL \in Nat \ {0} /\ Timeout \in Nat /\ MaxTime \in Nat /\ MaxRows \in Nat
ASSUME InputAssumption == GrantExpiries \subseteq Expiries

VARIABLES
    now,      \* the clock of Postgres, Valkey and the pods
    rows,     \* tender_acl_entries
    nextId,   \* ids handed out so far (gen_random_uuid never repeats one)
    cache,    \* Valkey: key -> value with its expiry, or Absent
    req,      \* client -> the request in flight
    held      \* history: key -> <<answer, time>> for every answer that has
              \* been the right one, with the last time it was

vars == <<now, rows, nextId, cache, req, held>>

CacheEntries == [ans : Answers, until : Nat]

Idle == [pc |-> "idle"]

\* The requests in flight, by the call they are about to make; "granted" and
\* "revoked" are writes that have committed and are about to delete the cache
\* key.  "listed" is a client that has read a row with TAC-1 and keeps its
\* record_version.
Requests ==
         {Idle}
    \cup [pc : {"get", "find"}, key : Keys, deadline : Nat]
    \cup [pc : {"set"}, key : Keys, deadline : Nat, ans : Answers]
    \cup [pc : {"exists", "insert", "granted"}, key : Keys, deadline : Nat,
          level : Levels, expires : Expiries]
    \cup [pc : {"listed"}, key : Keys, seen : Nat, version : Nat]
    \cup [pc : {"update", "revoked"}, key : Keys, deadline : Nat,
          seen : Nat, version : Nat]

\* What the program's state looks like; checked, and proved inductive.
TypeOK ==
    /\ now \in Nat
    /\ rows \subseteq Rows
    /\ nextId \in Nat
    /\ cache \in [Keys -> CacheEntries \cup {Absent}]
    /\ req \in [Clients -> Requests]
    /\ held \in [Keys -> SUBSET (Answers \X Nat)]

-----------------------------------------------------------------------------
\* The history after table t has been seen at time n: an answer that is
\* right now was last right now, the others keep their time.
Observe(t, n) ==
    [k \in Keys |-> {h \in held[k] : h[1] \notin AnswersAt(t, k, n)}
                      \cup (AnswersAt(t, k, n) \X {n})]

Init ==
    /\ now = 0
    /\ rows = {}
    /\ nextId = 0
    /\ cache = [k \in Keys |-> Absent]
    /\ req = [c \in Clients |-> Idle]
    /\ held = [k \in Keys |-> {<<NoAccess, 0>>}]

\* A committed write to the table.
Write(newRows) ==
    /\ rows' = newRows
    /\ held' = Observe(newRows, now)

\* The request of c is at stage pc and a call it makes can still take effect:
\* pgx, go-redis and net/http refuse a call whose context has expired, and one
\* under way at that time is over by the deadline (see Timeout).
At(c, pc) == req[c].pc = pc /\ now < req[c].deadline

Goto(c, r) == req' = [req EXCEPT ![c] = r]

-----------------------------------------------------------------------------
(* CheckAccess (TAC-4).                                                     *)

StartCheck(c, k) ==
    /\ req[c] = Idle
    /\ Goto(c, [pc |-> "get", key |-> k, deadline |-> now + Timeout])
    /\ UNCHANGED <<now, rows, nextId, cache, held>>

\* cache.Get hits: the stored answer is returned as it is.
CacheHit(c) ==
    /\ At(c, "get")
    /\ cache[req[c].key] # Absent
    /\ Goto(c, Idle)
    /\ UNCHANGED <<now, rows, nextId, cache, held>>

\* cache.Get misses, or fails (an error falls through whatever is stored).
CacheMiss(c) ==
    /\ At(c, "get")
    /\ Goto(c, [req[c] EXCEPT !.pc = "find"])
    /\ UNCHANGED <<now, rows, nextId, cache, held>>

\* Mutant: the query forgets expires_at.
ReadGrant_ExpiredToo(c) ==
    /\ At(c, "find")
    /\ \E a \in {NoAccess} \cup {[level |-> r.level, expires |-> r.expires] :
                    r \in Listed(rows, req[c].key.tenant, req[c].key.tender)} :
          Goto(c, [pc |-> "set", key |-> req[c].key,
                   deadline |-> req[c].deadline, ans |-> a])
    /\ UNCHANGED <<now, rows, nextId, cache, held>>

\* repo.FindActive; an error ends the request (see Abort).
ReadGrant(c) ==
    /\ At(c, "find")
    /\ \E a \in AnswersAt(rows, req[c].key, now) :
          Goto(c, [pc |-> "set", key |-> req[c].key,
                   deadline |-> req[c].deadline, ans |-> a])
    /\ UNCHANGED <<now, rows, nextId, cache, held>>

\* Mutant: cache.Set runs on a context without the request's deadline.
CacheSet_Detached(c) ==
    /\ req[c].pc = "set"
    /\ cache' = [cache EXCEPT ![req[c].key] =
                    [ans |-> req[c].ans, until |-> now + TTL]]
    /\ Goto(c, Idle)
    /\ UNCHANGED <<now, rows, nextId, held>>

\* cache.Set with the flat TTL, then the answer is returned.
CacheSet(c) ==
    /\ At(c, "set")
    /\ cache' = [cache EXCEPT ![req[c].key] =
                    [ans |-> req[c].ans, until |-> now + TTL]]
    /\ Goto(c, Idle)
    /\ UNCHANGED <<now, rows, nextId, held>>

-----------------------------------------------------------------------------
(* Grant (TAC-2).                                                           *)

\* The checks of Grant that need no call: a valid level, an expiry in the
\* future.  A request that fails one changes nothing and is not started.
StartGrant(c, k, level, expires) ==
    /\ req[c] = Idle
    /\ expires # NoExpiry => expires > now
    /\ Goto(c, [pc |-> "exists", key |-> k, deadline |-> now + Timeout,
                level |-> level, expires |-> expires])
    /\ UNCHANGED <<now, rows, nextId, cache, held>>

\* checker.Exists reports an active membership.  "Not active" and an error
\* both end the request without a write (see Abort).
MembershipActive(c) ==
    /\ At(c, "exists")
    /\ Goto(c, [req[c] EXCEPT !.pc = "insert"])
    /\ UNCHANGED <<now, rows, nextId, cache, held>>

\* The INSERT of repo.Grant commits.
InsertGrant(c) ==
    /\ At(c, "insert")
    /\ nextId < MaxRows
    /\ ~Blocked(rows, req[c].key)
    /\ nextId' = nextId + 1
    /\ Write(rows \cup {Inserted(nextId, req[c].key, req[c].level,
                                 req[c].expires)})
    /\ Goto(c, [req[c] EXCEPT !.pc = "granted"])
    /\ UNCHANGED <<now, cache>>

\* The INSERT violates uq_tae_active_entry: duplicate_grant.
DuplicateGrant(c) ==
    /\ At(c, "insert")
    /\ Blocked(rows, req[c].key)
    /\ Goto(c, Idle)
    /\ UNCHANGED <<now, rows, nextId, cache, held>>

-----------------------------------------------------------------------------
(* List (TAC-1) and Revoke (TAC-3).                                         *)

\* A client lists a tender and keeps the record_version of one row.
List(c, tenant, tender) ==
    /\ req[c] = Idle
    /\ \E r \in Listed(rows, tenant, tender) :
          Goto(c, [pc |-> "listed", key |-> r.key, seen |-> r.id,
                   version |-> r.version])
    /\ UNCHANGED <<now, rows, nextId, cache, held>>

\* It sends DELETE with that version, at any later time.
StartRevoke(c) ==
    /\ req[c].pc = "listed"
    /\ Goto(c, [pc |-> "update", key |-> req[c].key,
                deadline |-> now + Timeout, seen |-> req[c].seen,
                version |-> req[c].version])
    /\ UNCHANGED <<now, rows, nextId, cache, held>>

\* The client kept what it read and may send the DELETE again.
Token(c) == [pc |-> "listed", key |-> req[c].key, seen |-> req[c].seen,
             version |-> req[c].version]

\* The UPDATE of repo.Revoke matches a row and commits.
UpdateRevoked(c) ==
    LET S == RevokeMatches(rows, req[c].key, req[c].version)
    IN  /\ At(c, "update")
        /\ S # {}
        /\ Write(SoftDelete(rows, S))
        /\ Goto(c, [req[c] EXCEPT !.pc = "revoked"])
        /\ UNCHANGED <<now, nextId, cache>>

\* It matches none: optimistic_lock_conflict.
RevokeConflict(c) ==
    /\ At(c, "update")
    /\ RevokeMatches(rows, req[c].key, req[c].version) = {}
    /\ Goto(c, Idle)
    /\ UNCHANGED <<now, rows, nextId, cache, held>>

\* cache.Delete after a committed Grant or Revoke.  Its failure is logged
\* and the request succeeds all the same (see Abort).
CacheDelete(c) ==
    /\ At(c, "granted") \/ At(c, "revoked")
    /\ cache' = [cache EXCEPT ![req[c].key] = Absent]
    /\ Goto(c, Idle)
    /\ UNCHANGED <<now, rows, nextId, held>>

\* Whatever makes a request end where it stands: the pod crashes, the
\* context is cancelled or past its deadline, Postgres refuses the statement,
\* the connection is lost after COMMIT and before its acknowledgement (the
\* service returns the error and deletes no key), Core is unavailable or
\* reports no active membership, or the best-effort cache.Set / cache.Delete
\* fails.  A client that was revoking may keep its token and try again.
Abort(c) ==
    /\ req[c] # Idle
    /\ \/ Goto(c, Idle)
       \/ req[c].pc \in {"update", "revoked"} /\ Goto(c, Token(c))
    /\ UNCHANGED <<now, rows, nextId, cache, held>>

-----------------------------------------------------------------------------
(* The rest of the world.                                                   *)

\* The member-removal cascade commits; the cache is left alone.
SoftDeleteForUser(tenant, user, n) ==
    LET S == SeenBy(UserMatches(rows, tenant, user), n)
    IN  /\ S # {}
        /\ Write(SoftDelete(rows, S))
        /\ UNCHANGED <<now, nextId, cache, req>>

\* Mutant: the purge deletes in batches and commits after the first.
CascadeDeleteForTenant_Batch(tenant, n) ==
    /\ \E r \in SeenBy(TenantMatches(rows, tenant), n) : Write(rows \ {r})
    /\ UNCHANGED <<now, nextId, cache, req>>

\* The tenant-offboarding cascade commits; the cache is left alone.
CascadeDeleteForTenant(tenant, n) ==
    LET S == SeenBy(TenantMatches(rows, tenant), n)
    IN  /\ S # {}
        /\ Write(rows \ S)
        /\ UNCHANGED <<now, nextId, cache, req>>

\* Time passes and Valkey drops the keys whose TTL has run out.
Tick ==
    /\ now < MaxTime
    /\ now' = now + 1
    /\ cache' = [k \in Keys |->
                    IF cache[k] # Absent /\ cache[k].until <= now + 1
                    THEN Absent ELSE cache[k]]
    /\ held' = Observe(rows, now + 1)
    /\ UNCHANGED <<rows, nextId, req>>

\* Valkey evicts a key, or restarts empty.
Evict(k) ==
    /\ cache[k] # Absent
    /\ cache' = [cache EXCEPT ![k] = Absent]
    /\ UNCHANGED <<now, rows, nextId, req, held>>

\* The steps of a request that goes on.
Proceed(c) ==
    \/ \E k \in Keys : StartCheck(c, k)
    \/ CacheHit(c)
    \/ CacheMiss(c)
    \/ ReadGrant(c)
    \/ CacheSet(c)
    \/ \E k \in Keys, l \in Levels, x \in GrantExpiries :
          StartGrant(c, k, l, x)
    \/ MembershipActive(c)
    \/ InsertGrant(c)
    \/ DuplicateGrant(c)
    \/ \E t \in Tenants, d \in Tenders : List(c, t, d)
    \/ StartRevoke(c)
    \/ UpdateRevoked(c)
    \/ RevokeConflict(c)
    \/ CacheDelete(c)

Environment ==
    \/ \E t \in Tenants, u \in Users, n \in 1..nextId :
          SoftDeleteForUser(t, u, n)
    \/ \E t \in Tenants, n \in 1..nextId : CascadeDeleteForTenant(t, n)
    \/ Tick
    \/ \E k \in Keys : Evict(k)

Next ==
    \/ \E c \in Clients : Proceed(c) \/ Abort(c)
    \/ Environment

Spec == Init /\ [][Next]_vars

-----------------------------------------------------------------------------
(* Properties.                                                              *)

\* TAE-1: whatever the interleaving of grants, revokes and cascades, a key
\* has at most one live row, and an id names one row for ever.
OneLiveRow ==
    \A r, s \in rows :
        (r.id = s.id \/ (r.key = s.key /\ ~r.deleted /\ ~s.deleted)) => r = s

\* record_version is 1 on every live row and 2 on every soft-deleted one:
\* soft deletion is the only UPDATE, and it happens once.  Two live rows
\* that follow each other on a key therefore carry the same token.
VersionCountsDeletion ==
    \A r \in rows : r.version = IF r.deleted THEN 2 ELSE 1

\* Answer a of key k was the right one less than w ago.
RightWithin(k, a, w) == \E h \in held[k] : h[1] = a /\ now < h[2] + w

\* Every answer the cache can serve, has_access:true or false, was the right
\* one at some moment of the last TTL + Timeout.  TTL alone is not enough: a
\* check that read before a write may store after it (TAC-CACHE-3).
AnswersFresh ==
    \A k \in Keys :
        cache[k] # Absent => RightWithin(k, cache[k].ans, TTL + Timeout)

\* An audit row, once soft-deleted, is never changed or revived; only the
\* purge of its tenant removes it, together with every older row of the
\* tenant (LLD section 18).
AuditTrailKept ==
    [][\A r \in rows : r.deleted =>
          \/ r \in rows'
          \/ \A s \in rows' : s.key.tenant = r.key.tenant => s.id > r.id]_vars

\* The cache entry of k, and every answer on its way into it, is right.
Current(k) ==
    /\ cache[k] # Absent => cache[k].ans \in AnswersAt(rows, k, now)
    /\ \A c \in Clients :
          req[c].pc = "set" /\ req[c].key = k
              => req[c].ans \in AnswersAt(rows, k, now)

\* Only a change of the right answer makes the cache outdated: once the entry
\* of a key and the checks in flight agree with the table, no interleaving of
\* checks, failed writes and evictions makes them disagree again until the
\* key is granted, revoked, cascaded or expires (TAC-CACHE-2).
OnlyChangesOutdate ==
    [][\A k \in Keys :
          /\ Current(k)
          /\ AnswersAt(rows', k, now') = AnswersAt(rows, k, now)
          => Current(k)']_vars

Access == INSTANCE AccessTable WITH live <- LiveGrants(rows),
                                    past <- PastGrants(rows)

\* Under all interleavings of requests, retries, crashes and cascades the
\* rows behave as the abstract table: a step grants a key that is free,
\* revokes one grant, removes a user or purges a tenant, or changes nothing.
ImplementsAccessTable == Access!Spec

-----------------------------------------------------------------------------
(* What comments and documents say, and the code does not do.               *)

\* LLD TAC-FAIL-2: never a has_access:true for a revoked grant beyond the
\* cache TTL, here once the revoke has returned.  CheckAccess may run
\* cache.Set long after its FindActive, and after the revoke's cache.Delete.
StaleTrueWithinTTL ==
    \A k \in Keys :
        /\ cache[k] # Absent /\ cache[k].ans # NoAccess
        /\ ~\E c \in Clients : req[c].pc = "revoked" /\ req[c].key = k
        => RightWithin(k, cache[k].ans, TTL)

\* Comment on ACLService.Revoke: if the row was revoked since it was last
\* read, the caller gets a conflict.  The UPDATE finds a later row instead.
RevokesWhatWasRead ==
    [][\A c \in Clients :
          UpdateRevoked(c) => \E r \in rows : /\ r.id = req[c].seen
                                              /\ ~r.deleted]_vars
=============================================================================

----------------------------- MODULE ListPaging -----------------------------
(***************************************************************************)
(* TAC-1 as its caller uses it: page after page, with LIMIT and OFFSET over *)
(* ORDER BY created_at, while others grant and revoke.                     *)
(***************************************************************************)
EXTENDS EntryTable, FiniteSets, Functions

CONSTANTS
    Windows,        \* the values of ?limit a caller may send, NoLimit if none
    NoLimit,
    DefaultLimit, MaxLimit,
    Idle,           \* nobody is paging
    TxTime,         \* the longest a grant's transaction stays open
    MaxTime, MaxRows

ASSUME LimitAssumption ==
    /\ DefaultLimit \in Nat /\ MaxLimit \in Nat
    /\ 1 <= DefaultLimit /\ DefaultLimit <= MaxLimit

\* parseListPagination rejects a limit below 1.
ASSUME WindowAssumption ==
    /\ NoLimit \notin Nat
    /\ Windows \subseteq (Nat \ {0}) \cup {NoLimit}
    /\ MaxTime \in Nat /\ MaxRows \in Nat

VARIABLES
    rows,      \* tender_acl_entries
    created,   \* created_at of the row with a given id
    now,
    scan       \* the caller paging through a tender: start, the rows live
               \* when it began; seen, the rows shown so far; quiet, nothing
               \* was revoked in between

vars == <<rows, created, now, scan>>

Init ==
    /\ rows = {}
    /\ created = [i \in 0..(MaxRows - 1) |-> 0]
    /\ now = 0
    /\ scan = Idle

-----------------------------------------------------------------------------
\* parseListPagination: the default and the ceiling.
Limit(asked) ==
    CASE asked = NoLimit -> DefaultLimit
      [] asked # NoLimit /\ asked > MaxLimit -> MaxLimit
      [] OTHER -> asked

\* Mutant: the answer echoes the limit that was asked for.
EchoedLimit_Asked(asked) == IF asked = NoLimit THEN DefaultLimit ELSE asked

\* ListResponse.Limit: the limit that was applied.
EchoedLimit(asked) == Limit(asked)

Ids(tenant, tender) == {r.id : r \in Listed(rows, tenant, tender)}

\* ORDER BY created_at: the places the listed rows may have.  Rows with the
\* same created_at come in any order, and in another one the next time.
Orders(ids) ==
    {f \in Bijection(ids, 0..(Cardinality(ids) - 1)) :
        \A i, j \in ids : created[i] < created[j] => f[i] < f[j]}

\* LIMIT and OFFSET: the pages that may be answered.
Pages(tenant, tender, limit, offset) ==
    {{i \in DOMAIN f : offset <= f[i] /\ f[i] < offset + limit} :
        f \in Orders(Ids(tenant, tender))}

-----------------------------------------------------------------------------
\* A grant commits.  created_at is now() of its transaction, which may have
\* begun before other rows became visible.
Grant(k, level) ==
    /\ ~Blocked(rows, k)
    /\ Cardinality(rows) < MaxRows
    /\ rows' = rows \cup {Inserted(Cardinality(rows), k, level, NoExpiry)}
    /\ \E t \in 0..now :
        /\ now - t <= TxTime
        /\ created' = [created EXCEPT ![Cardinality(rows)] = t]
    /\ UNCHANGED <<now, scan>>

\* A revoke commits.
Revoke(r) ==
    /\ r \in RevokeMatches(rows, r.key, r.version)
    /\ rows' = SoftDelete(rows, {r})
    /\ scan' = IF scan = Idle THEN Idle ELSE [scan EXCEPT !.quiet = FALSE]
    /\ UNCHANGED <<created, now>>

\* A caller begins to page through a tender.
StartScan(tenant, tender, asked) ==
    /\ scan = Idle
    /\ scan' = [tenant |-> tenant, tender |-> tender, limit |-> asked,
                offset |-> 0, start |-> Ids(tenant, tender), seen |-> {},
                quiet |-> TRUE, done |-> FALSE]
    /\ UNCHANGED <<rows, created, now>>

\* One TAC-1 call.  The caller advances by the limit the answer echoes and
\* takes a page shorter than it for the tail.
List ==
    /\ scan # Idle
    /\ ~scan.done
    /\ \E page \in Pages(scan.tenant, scan.tender, Limit(scan.limit), scan.offset) :
        scan' = [scan EXCEPT
                   !.offset = @ + EchoedLimit(scan.limit),
                   !.seen = @ \cup page,
                   !.done = Cardinality(page) < EchoedLimit(scan.limit)]
    /\ UNCHANGED <<rows, created, now>>

Tick ==
    /\ now < MaxTime
    /\ now' = now + 1
    /\ UNCHANGED <<rows, created, scan>>

Next ==
    \/ \E k \in Keys, level \in Levels : Grant(k, level)
    \/ \E r \in rows : Revoke(r)
    \/ \E tenant \in Tenants, tender \in Tenders, asked \in Windows :
        StartScan(tenant, tender, asked)
    \/ List
    \/ Tick

Spec == Init /\ [][Next]_vars

-----------------------------------------------------------------------------
\* The variables have their types; an id is used once.
LTypeOK ==
    /\ rows \subseteq Rows
    /\ \A r, s \in rows : r.id = s.id => r = s
    /\ created \in [0..(MaxRows - 1) -> 0..now]
    /\ now \in 0..MaxTime
    /\ scan # Idle =>
        scan \in [tenant : Tenants, tender : Tenders, limit : Windows,
                  offset : Nat, start : SUBSET {r.id : r \in rows},
                  seen : SUBSET {r.id : r \in rows}, quiet : BOOLEAN,
                  done : BOOLEAN]

\* No two rows share their created_at.
DistinctTimes == \A r, s \in rows : r # s => created[r.id] # created[s.id]

\* Paging is complete as long as nothing is revoked meanwhile: the caller has
\* been shown every row that was live when it began, grants that committed
\* late included (ORDER BY created_at with LIMIT and OFFSET, ListResponse).
QuietPagingComplete ==
    scan # Idle =>
        (scan.done /\ scan.quiet /\ DistinctTimes
            => scan.start \subseteq scan.seen)
=============================================================================

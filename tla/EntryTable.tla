----------------------------- MODULE EntryTable -----------------------------
(***************************************************************************)
(* The table tender_acl_entries as a set of rows, and every statement the   *)
(* repository runs against it as an operator on that set.  The module has  *)
(* no variables: AclService, CascadeConsumers and the modules that compose *)
(* them hold the table in a variable of their own and change it with these *)
(* operators only.                                                         *)
(*                                                                         *)
(* A row keeps the columns the properties tell apart.  granted_by, reason, *)
(* tenant_membership_id and the timestamps of the audit trail are dropped; *)
(* deleted_at is the flag "deleted" (no statement reads its value).        *)
(***************************************************************************)
EXTENDS Naturals

CONSTANTS
    Tenants, Tenders, Users,
    Levels,      \* view, edit, approve
    NoExpiry,    \* expires_at IS NULL
    NoAccess     \* the answer has_access:false

ASSUME SentinelAssumption ==
    NoExpiry \notin Nat

\* The triple every grant, revoke and check is about; also the cache key.
Keys == [tenant : Tenants, tender : Tenders, user : Users]

Expiries == Nat \cup {NoExpiry}

Rows == [id : Nat, key : Keys, level : Levels, expires : Expiries,
         version : Nat, deleted : BOOLEAN]

\* domain.CachedAccess: what CheckAccess answers and what Valkey stores.
Answers == {NoAccess} \cup [level : Levels, expires : Expiries]

-----------------------------------------------------------------------------
\* TAE-3 at time t, as IsActive and the WHERE clause of FindActive state it.
IsActive(r, t) == ~r.deleted /\ (r.expires # NoExpiry => r.expires > t)

\* The rows FindActive may return.
FindActive(rows, k, t) == {r \in rows : r.key = k /\ IsActive(r, t)}

\* CheckAccess turns the row FindActive returned, or none, into an answer.
\* A set: with two live rows QueryRow would return either.
AnswersAt(rows, k, t) ==
    IF FindActive(rows, k, t) = {}
    THEN {NoAccess}
    ELSE {[level |-> r.level, expires |-> r.expires] :
            r \in FindActive(rows, k, t)}

\* TAC-1 lists live rows, expired ones included.
Listed(rows, tenant, tender) ==
    {r \in rows : /\ r.key.tenant = tenant
                  /\ r.key.tender = tender
                  /\ ~r.deleted}

-----------------------------------------------------------------------------
\* Mutant: no unique index.
Blocked_NoIndex(rows, k) == FALSE

\* A row the partial unique index uq_tae_active_entry rejects.  The index
\* looks at deleted_at only: an expired row still blocks its key.
Blocked(rows, k) == \E r \in rows : r.key = k /\ ~r.deleted

\* Mutant: record_version has no default and stays NULL.
Inserted_NullVersion(id, k, level, expires) ==
    [id |-> id, key |-> k, level |-> level, expires |-> expires,
     version |-> NoExpiry, deleted |-> FALSE]

\* INSERT with the column defaults: record_version 1, deleted_at NULL.
Inserted(id, k, level, expires) ==
    [id |-> id, key |-> k, level |-> level, expires |-> expires,
     version |-> 1, deleted |-> FALSE]

\* Mutant: the trigger is missing.
TouchRow_Missing(r) == r

\* The BEFORE UPDATE trigger touch_row().
TouchRow(r) == [r EXCEPT !.version = @ + 1]

\* UPDATE ... SET deleted_at = now(), trigger included.
SoftDeleted(r) == TouchRow([r EXCEPT !.deleted = TRUE])

\* UPDATE ... SET deleted_at = now() WHERE the row is in S.
SoftDelete(rows, S) == (rows \ S) \cup {SoftDeleted(r) : r \in S}

\* The WHERE clause of Revoke: the key, still live, and the caller's version.
RevokeMatches(rows, k, version) ==
    {r \in rows : r.key = k /\ ~r.deleted /\ r.version = version}

\* The WHERE clause of SoftDeleteForUser.
UserMatches(rows, tenant, user) ==
    {r \in rows : r.key.tenant = tenant /\ r.key.user = user /\ ~r.deleted}

\* Mutant: the purge leaves the audit rows of the tenant behind.
TenantMatches_LiveOnly(rows, tenant) ==
    {r \in rows : r.key.tenant = tenant /\ ~r.deleted}

\* The WHERE clause of CascadeDeleteForTenant: soft-deleted rows as well.
TenantMatches(rows, tenant) == {r \in rows : r.key.tenant = tenant}

\* What a cascade statement changes, once its transaction commits, of the
\* rows S its WHERE clause matches.  READ COMMITTED: the statement sees the
\* rows committed before it started, here those with an id below n, and holds
\* them locked until the commit; a row granted in between is left alone.
SeenBy(S, n) == {r \in S : r.id < n}

-----------------------------------------------------------------------------
(* The table as AccessTable sees it.                                        *)

GrantOf(r) ==
    [id |-> r.id, key |-> r.key, level |-> r.level, expires |-> r.expires]

LiveGrants(rows) == {GrantOf(r) : r \in {s \in rows : ~s.deleted}}

PastGrants(rows) == {GrantOf(r) : r \in {s \in rows : s.deleted}}
=============================================================================

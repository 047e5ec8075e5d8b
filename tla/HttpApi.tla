------------------------------ MODULE HttpApi ------------------------------
(***************************************************************************)
(* The HTTP layer: the handlers of TAC-1 to TAC-4 as a caller meets them.   *)
(* A handler runs its checks in order and the first that fails is the      *)
(* answer; a call that passes them all reaches the service.  What happens  *)
(* inside the service between two calls is the subject of AclService, so   *)
(* here a handler is one step; this module is about what an answer tells   *)
(* its caller of the table.  The pages of TAC-1 are those of ListPaging.   *)
(***************************************************************************)
EXTENDS EntryTable, FiniteSets, Sequences

CONSTANTS
    Malformed,      \* a path or body identifier that uuid.Parse rejects
    NoCaller,       \* no RequestContext behind the request
    NoLimit,        \* ?limit is absent
    NoAnswer,       \* nothing has been answered yet
    RequiredRoles,  \* the roles that may call TAC-1, TAC-2 and TAC-3
    Calls,          \* the requests that may come in
    MaxTime, MaxRows

\* Identifiers in a request are what uuid.Parse made of them; expires_at is
\* a time or absent.
ASSUME CallAssumption ==
    /\ MaxTime \in Nat
    /\ \A c \in Calls :
        /\ c.tenant \in Tenants \cup {Malformed}
        /\ c.tender \in Tenders \cup {Malformed}
        /\ c.user \in Users \cup {Malformed}
        /\ c.expires \in Expiries

VARIABLES
    rows,      \* tender_acl_entries
    now,
    tokens,    \* the <<key, record_version>> pairs callers have been shown
    answer     \* the last answer: its route, its call, its error code

vars == <<rows, now, tokens, answer>>

Key(c) == [tenant |-> c.tenant, tender |-> c.tender, user |-> c.user]

Codes == {"ok", "invalid_request", "unauthorized", "insufficient_role",
          "invalid_access_level", "invalid_reason", "invalid_expiry",
          "grantee_not_active_member", "optimistic_lock_conflict",
          "duplicate_grant", "core_unavailable", "dependency_unavailable",
          "internal_server_error"}

Init ==
    /\ rows = {}
    /\ now = 0
    /\ tokens = {}
    /\ answer = NoAnswer

-----------------------------------------------------------------------------
\* parseUUIDParam, and uuid.Parse on identifiers in bodies and contexts.
IsUUID(x) == x # Malformed

\* RequestContext.HasAnyRole.
HasAnyRole(caller) == caller.roles \cap RequiredRoles # {}

\* requireSameTenant: the caller's tenant is the one in the path, and one of
\* the caller's roles is required.
SameTenant(c) ==
    /\ c.caller # NoCaller
    /\ c.caller.tenant = c.tenant
    /\ HasAnyRole(c.caller)

\* parseListPagination rejects a limit below 1 and a negative offset.
ValidWindow(c) == (c.limit # NoLimit => c.limit >= 1) /\ c.offset >= 0

\* TenderACLLevel.Valid.
ValidLevel(level) == level \in Levels

\* ShouldBindJSON into GrantRequest: body says that the body is within
\* maxRequestBodyBytes, is JSON and has the required fields.
GrantBinds(c) == c.body

\* ... and into RevokeRequest: binding:"required" takes a record_version of 0
\* for a missing one.
RevokeBinds(c) == c.body /\ c.version # 0

\* The code of the first check that fails; "ok" when all hold.
FirstFailure(checks) ==
    LET failed == {i \in DOMAIN checks : ~checks[i][1]}
    IN  IF failed = {}
        THEN "ok"
        ELSE checks[CHOOSE i \in failed : \A j \in failed : i <= j][2]

ListChecks(c) ==
    << <<IsUUID(c.tenant), "invalid_request">>,
       <<SameTenant(c),    "insufficient_role">>,
       <<IsUUID(c.tender), "invalid_request">>,
       <<ValidWindow(c),   "invalid_request">> >>

\* The handler's checks, then those of ACLService.Grant before it calls Core.
GrantChecks(c) ==
    << <<IsUUID(c.tenant), "invalid_request">>,
       <<SameTenant(c),    "insufficient_role">>,
       <<IsUUID(c.tender), "invalid_request">>,
       <<GrantBinds(c),    "invalid_request">>,
       <<IsUUID(c.user),   "invalid_request">>,
       <<c.caller # NoCaller /\ IsUUID(c.caller.user), "unauthorized">>,
       <<ValidLevel(c.level), "invalid_access_level">>,
       <<c.reasonFits,     "invalid_reason">>,
       <<c.expires # NoExpiry => c.expires > now, "invalid_expiry">> >>

\* Mutant: the handler of TAC-3 does not call requireSameTenant.
RevokeChecks_AnyTenant(c) ==
    << <<IsUUID(c.tenant), "invalid_request">>,
       <<IsUUID(c.tender), "invalid_request">>,
       <<IsUUID(c.user),   "invalid_request">>,
       <<RevokeBinds(c),   "invalid_request">> >>

RevokeChecks(c) ==
    << <<IsUUID(c.tenant), "invalid_request">>,
       <<SameTenant(c),    "insufficient_role">>,
       <<IsUUID(c.tender), "invalid_request">>,
       <<IsUUID(c.user),   "invalid_request">>,
       <<RevokeBinds(c),   "invalid_request">> >>

\* TAC-4 is behind the mesh and asks for no role.
CheckChecks(c) ==
    << <<IsUUID(c.tenant), "invalid_request">>,
       <<IsUUID(c.tender), "invalid_request">>,
       <<IsUUID(c.user),   "invalid_request">> >>

-----------------------------------------------------------------------------
\* The ways a statement or its COMMIT can fail: an SQLSTATE of class 08, 53,
\* 57 or 58, a closed pool, a lost connection, a context past its deadline,
\* any other error of the server.
DbErrors == {"sqlstate_08", "sqlstate_53", "sqlstate_57_58", "closed_pool",
             "network", "deadline", "other"}

\* Those after which the transaction may have committed all the same: the
\* answer to COMMIT never arrived.
Ambiguous == {"network", "deadline"}

\* wrapConnErr, and the fallback of respondACLError.
DbCode(e) ==
    IF e \in {"sqlstate_08", "sqlstate_53", "sqlstate_57_58", "closed_pool",
              "network"}
    THEN "dependency_unavailable"
    ELSE "internal_server_error"

\* Mutant: a code the switch does not list is the caller's fault.
Status_DefaultBadRequest(code) ==
    CASE code = "ok" -> 200
      [] code = "unauthorized" -> 401
      [] code = "insufficient_role" -> 403
      [] code \in {"optimistic_lock_conflict", "duplicate_grant"} -> 409
      [] code \in {"invalid_access_level", "invalid_reason", "invalid_expiry",
                   "grantee_not_active_member"} -> 422
      [] code \in {"core_unavailable", "dependency_unavailable"} -> 503
      [] OTHER -> 400

\* respondACLError; the statuses the handlers pass to writeError agree.
Status(code) ==
    CASE code = "ok" -> 200
      [] code = "invalid_request" -> 400
      [] code = "unauthorized" -> 401
      [] code = "insufficient_role" -> 403
      [] code \in {"optimistic_lock_conflict", "duplicate_grant"} -> 409
      [] code \in {"invalid_access_level", "invalid_reason", "invalid_expiry",
                   "grantee_not_active_member"} -> 422
      [] code \in {"core_unavailable", "dependency_unavailable"} -> 503
      [] OTHER -> 500

-----------------------------------------------------------------------------
\* "ok" stands for the success of the route: 200, 201 or 204.
Answer(route, c, code) ==
    answer' = [route |-> route, call |-> c, code |-> code]

Unwritten == UNCHANGED <<rows, now, tokens>>

\* A check failed.
Refuse(route, c, checks) ==
    /\ FirstFailure(checks) # "ok"
    /\ Answer(route, c, FirstFailure(checks))
    /\ Unwritten

\* The checks passed, the database call failed and changed nothing.
DbFailure(route, c, checks) ==
    /\ FirstFailure(checks) = "ok"
    /\ \E e \in DbErrors : Answer(route, c, DbCode(e))
    /\ Unwritten

-----------------------------------------------------------------------------
\* TAC-1 shows a page of the listed rows.
ListPage(c) ==
    /\ FirstFailure(ListChecks(c)) = "ok"
    /\ \E page \in SUBSET Listed(rows, c.tenant, c.tender) :
        tokens' = tokens \cup {<<r.key, r.version>> : r \in page}
    /\ Answer("list", c, "ok")
    /\ UNCHANGED <<rows, now>>

List(c) ==
    \/ Refuse("list", c, ListChecks(c))
    \/ ListPage(c)
    \/ DbFailure("list", c, ListChecks(c))

\* Core cannot be asked, or says that the grantee is no active member.
GrantUnverified(c) ==
    /\ FirstFailure(GrantChecks(c)) = "ok"
    /\ \E code \in {"core_unavailable", "grantee_not_active_member"} :
        Answer("grant", c, code)
    /\ Unwritten

GrantDuplicate(c) ==
    /\ FirstFailure(GrantChecks(c)) = "ok"
    /\ Blocked(rows, Key(c))
    /\ Answer("grant", c, "duplicate_grant")
    /\ Unwritten

\* The row is inserted, and shown unless the answer to COMMIT was lost.
GrantInserted(c) ==
    /\ FirstFailure(GrantChecks(c)) = "ok"
    /\ ~Blocked(rows, Key(c))
    /\ Cardinality(rows) < MaxRows
    /\ LET r == Inserted(Cardinality(rows), Key(c), c.level, c.expires)
       IN  /\ rows' = rows \cup {r}
           /\ \/ /\ Answer("grant", c, "ok")
                 /\ tokens' = tokens \cup {<<r.key, r.version>>}
              \/ /\ \E e \in Ambiguous : Answer("grant", c, DbCode(e))
                 /\ UNCHANGED tokens
    /\ UNCHANGED now

Grant(c) ==
    \/ Refuse("grant", c, GrantChecks(c))
    \/ GrantUnverified(c)
    \/ GrantDuplicate(c)
    \/ GrantInserted(c)
    \/ DbFailure("grant", c, GrantChecks(c))

RevokeConflict(c) ==
    /\ FirstFailure(RevokeChecks(c)) = "ok"
    /\ RevokeMatches(rows, Key(c), c.version) = {}
    /\ Answer("revoke", c, "optimistic_lock_conflict")
    /\ Unwritten

RevokeDone(c) ==
    /\ FirstFailure(RevokeChecks(c)) = "ok"
    /\ RevokeMatches(rows, Key(c), c.version) # {}
    /\ rows' = SoftDelete(rows, RevokeMatches(rows, Key(c), c.version))
    /\ \/ Answer("revoke", c, "ok")
       \/ \E e \in Ambiguous : Answer("revoke", c, DbCode(e))
    /\ UNCHANGED <<now, tokens>>

\* Mutant: Revoke looks at the number of rows before it looks at the error.
RevokeFailed_AsConflict(c) ==
    /\ FirstFailure(RevokeChecks(c)) = "ok"
    /\ Answer("revoke", c, "optimistic_lock_conflict")
    /\ Unwritten

\* The UPDATE fails: its error is returned before RowsAffected is looked at.
RevokeFailed(c) == DbFailure("revoke", c, RevokeChecks(c))

Revoke(c) ==
    \/ Refuse("revoke", c, RevokeChecks(c))
    \/ RevokeConflict(c)
    \/ RevokeDone(c)
    \/ RevokeFailed(c)

\* TAC-4 answers has_access true or false with 200, never 404.
CheckAnswered(c) ==
    /\ FirstFailure(CheckChecks(c)) = "ok"
    /\ Answer("check", c, "ok")
    /\ Unwritten

CheckAccess(c) ==
    \/ Refuse("check", c, CheckChecks(c))
    \/ CheckAnswered(c)
    \/ DbFailure("check", c, CheckChecks(c))

Tick ==
    /\ now < MaxTime
    /\ now' = now + 1
    /\ UNCHANGED <<rows, tokens, answer>>

Next ==
    \/ \E c \in Calls : List(c) \/ Grant(c) \/ Revoke(c) \/ CheckAccess(c)
    \/ Tick

Spec == Init /\ [][Next]_vars

-----------------------------------------------------------------------------
\* The variables have their types; an id is used once.
HTypeOK ==
    /\ rows \subseteq Rows
    /\ \A r, s \in rows : r.id = s.id => r = s
    /\ now \in 0..MaxTime
    /\ tokens \subseteq Keys \X Nat
    /\ answer # NoAnswer =>
        answer \in [route : {"list", "grant", "revoke", "check"},
                    call : Calls, code : Codes]

\* A step that answers a call answers it truthfully.
AnswerHolds ==
    answer' # NoAnswer =>
        LET a == answer'
            live == Blocked(rows', Key(a.call))
        IN  /\ a.route = "grant" /\ a.code \in {"ok", "duplicate_grant"}
                 => live
            /\ a.route = "revoke" /\ a.code \in {"ok", "optimistic_lock_conflict"}
                 => (<<Key(a.call), a.call.version>> \in tokens => ~live)

\* A 201 or a 409 of TAC-2 says that the key now has a live row; a 204 or a
\* 409 of TAC-3 says that it has none, if the caller sent a record_version it
\* was shown.  So a caller that retries until it has one of these answers has
\* what it asked for, whatever was lost on the way (Grant and Revoke of
\* handler.go over the index and the version guard).
SettledAnswers == [][AnswerHolds]_<<rows, answer>>

\* A step that answers 4xx leaves the table as it was.
RefusalIsHarmless ==
    answer' # NoAnswer => (Status(answer'.code) \in 400..499 => rows' = rows)

\* A 4xx wrote nothing.  Only a 5xx leaves open whether the transaction
\* committed (respondACLError and wrapConnErr, with the answer to COMMIT
\* lost).
RefusedWroteNothing == [][RefusalIsHarmless]_<<rows, answer>>

\* A step that answers an outsider refuses, and shows and changes nothing.
OutsiderIsRefused ==
    answer' # NoAnswer =>
        (answer'.route # "check" /\ ~SameTenant(answer'.call)
            => /\ Status(answer'.code) \in {400, 403}
               /\ rows' = rows
               /\ tokens' = tokens)

\* A caller of another tenant or without a required role changes nothing and
\* learns nothing: the answer is 400 or 403 whatever the table and Core hold
\* (requireSameTenant comes before every check that looks at either).
OutsidersGetNothing == [][OutsiderIsRefused]_<<rows, tokens, answer>>

Access == INSTANCE AccessTable WITH live <- LiveGrants(rows),
                                    past <- PastGrants(rows)

\* Over HTTP a caller can do no more to the table than AccessTable allows: an
\* answer, truthful, wrong or lost, goes with one grant on a free key, with
\* the revoke of the one grant of a key, or with no change.
ImplementsAccessTable == Access!Spec
=============================================================================

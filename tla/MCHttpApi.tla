----------------------------- MODULE MCHttpApi -----------------------------
(***************************************************************************)
(* HttpApi for TLC: one tender of tenant t1, callers of t1 and t2, requests *)
(* without a fault for every user and requests with one fault each.        *)
(***************************************************************************)
EXTENDS HttpApi, Integers

CONSTANTS t1, t2, u0

MCTenants == {t1, t2}

Admin(tenant) == [tenant |-> tenant, user |-> u0, roles |-> {"tender_admin"}]

\* The requests for user u that pass every check.
GoodCall(u) ==
    [tenant |-> t1, tender |-> CHOOSE d \in Tenders : TRUE, user |-> u,
     caller |-> Admin(t1), body |-> TRUE, level |-> "view",
     reasonFits |-> TRUE, expires |-> NoExpiry, version |-> 1,
     limit |-> NoLimit, offset |-> 0]

\* The same requests with one field changed.
Faults(c) ==
    {[c EXCEPT !.tenant = Malformed], [c EXCEPT !.tender = Malformed],
     [c EXCEPT !.user = Malformed],   [c EXCEPT !.caller = NoCaller],
     [c EXCEPT !.caller = Admin(t2)], [c EXCEPT !.caller.roles = {"viewer"}],
     [c EXCEPT !.caller.user = Malformed], [c EXCEPT !.body = FALSE],
     [c EXCEPT !.level = "owner"],    [c EXCEPT !.reasonFits = FALSE],
     [c EXCEPT !.expires = 1],        [c EXCEPT !.version = 0],
     [c EXCEPT !.version = 2],        [c EXCEPT !.limit = 0],
     [c EXCEPT !.limit = 3],          [c EXCEPT !.offset = -1]}

MCCalls == UNION {{GoodCall(u)} \cup Faults(GoodCall(u)) : u \in Users}

=============================================================================

------------------------- MODULE MembershipCascade --------------------------
(***************************************************************************)
(* Core's memberships, the Grant requests that check them and the          *)
(* consumers that clean up after them.  fk_tae_tenant_membership was       *)
(* replaced by one call to Core before the INSERT (TAC-D2) and by the      *)
(* member-removal and offboarding cascades after it (TAC-D10, TAC-D7);     *)
(* this module puts the three together.                                    *)
(*                                                                         *)
(* Core is outside the repository: it is known here by the answers of its  *)
(* "exists" endpoint and by the events it sends, which its outbox writes   *)
(* in the transaction that ends the membership.  Time and TAC-3 are left   *)
(* out: pruning and revocation are CascadeConsumers' own subject.          *)
(***************************************************************************)
EXTENDS CascadeConsumers

VARIABLES
    member,    \* Core: the <<tenant, user>> pairs with an active membership
    checked,   \* Grant requests between checker.Exists and repo.Grant
    overdue,   \* history: ids of the rows whose member had been removed
               \* between the check and the INSERT
    quiet      \* history: ids of the rows inserted when no event was under
               \* way, whose member has not been removed since

mvars == <<member, checked, overdue, quiet>>
allVars == <<vars, mvars>>

Membership(k) == <<k.tenant, k.user>>

\* "removed" tells whether the membership has ended since the check.
GrantRequests == [key : Keys, removed : BOOLEAN]

\* What the composed state looks like.
MTypeOK ==
    /\ TypeOK
    /\ member \subseteq Tenants \X Users
    /\ checked \subseteq GrantRequests
    /\ overdue \cup quiet \subseteq 0..MaxRows

MInit ==
    /\ Init
    /\ member = Tenants \X Users
    /\ checked = {}
    /\ overdue = {}
    /\ quiet = {}

\* The memberships the event e ends.
Ended(e) == {m \in Tenants \X Users :
                /\ m[1] = e.tenant
                /\ e.consumer = MemberRemovalConsumer => m[2] = e.user}

\* Core ends memberships and sends the event that says so.
EndMembership(e) ==
    /\ Valid(e)
    /\ Ended(e) \cap member # {}
    /\ Send(e)
    /\ member' = member \ Ended(e)
    /\ checked' = {IF Membership(g.key) \in Ended(e)
                   THEN [g EXCEPT !.removed = TRUE] ELSE g : g \in checked}
    /\ quiet' = quiet \ {r.id : r \in {s \in rows : Membership(s.key) \in Ended(e)}}
    /\ UNCHANGED overdue

\* The user is invited again.
Join(m) ==
    /\ m \notin member
    /\ member' = member \cup {m}
    /\ UNCHANGED <<vars, checked, overdue, quiet>>

\* Mutant: an answer that is not "active" is taken for one that is.
Exists_FailsOpen(k) ==
    /\ checked' = checked \cup {[key |-> k, removed |-> FALSE]}
    /\ UNCHANGED <<vars, member, overdue, quiet>>

\* checker.Exists: only "active", with a membership id, lets Grant go on.
Exists(k) ==
    /\ Membership(k) \in member
    /\ checked' = checked \cup {[key |-> k, removed |-> FALSE]}
    /\ UNCHANGED <<vars, member, overdue, quiet>>

\* Every event about membership m that has been sent has been carried out.
Settled(m) ==
    \A e \in Envelopes :
        Valid(e) /\ m \in Ended(e) /\ msg[e].status # "unsent" => e \in committed

\* The membership is active, and no event about it is still to be carried out
\* or being replayed by a delivery that is past the probe.
Quiet(m) ==
    /\ m \in member
    /\ Settled(m)
    /\ \A w \in Workers :
          worker[w] # Idle /\ m \in Ended(worker[w].env)
              => worker[w].pc \in {"probe", "ack"}

\* repo.Grant inserts the row of a request that has been checked.
InsertGrant(g) ==
    /\ Grant(g.key)
    /\ checked' = checked \ {g}
    /\ overdue' = IF g.removed THEN overdue \cup {nextId} ELSE overdue
    /\ quiet' = IF Quiet(Membership(g.key)) THEN quiet \cup {nextId} ELSE quiet
    /\ UNCHANGED member

\* repo.Grant fails (a duplicate, a lost connection), or the request ends.
DropGrant(g) ==
    /\ checked' = checked \ {g}
    /\ UNCHANGED <<vars, member, overdue, quiet>>

MNext ==
    \/ \E e \in Envelopes : EndMembership(e)
    \/ \E m \in Tenants \X Users : Join(m)
    \/ \E k \in Keys : Exists(k)
    \/ \E g \in checked : InsertGrant(g) \/ DropGrant(g)
    \/ /\ \/ \E w \in Workers : Handle(w) \/ Deadlock(w) \/ Fail(w)
          \/ \E w \in Workers, e \in Envelopes : Receive(w, e)
          \/ \E e \in Envelopes : Redrive(e)
       /\ UNCHANGED mvars

MSpec == MInit /\ [][MNext]_allVars

-----------------------------------------------------------------------------
(* Properties.                                                              *)

\* The cascades leave no grant of a former member behind, however often the
\* user left and came back, except those that were between the check and the
\* INSERT when the membership ended.
OnlyOverdueOrphans ==
    \A r \in rows :
        /\ ~r.deleted
        /\ Membership(r.key) \notin member
        /\ Settled(Membership(r.key))
        => r.id \in overdue

\* SoftDeleteForUser has no bound on the age of a grant, so an event that is
\* late also deletes what was granted after it was sent.  It does so only
\* while an event about the membership is under way: a grant made when all of
\* them have been carried out stays until the membership ends again, whatever
\* SQS delivers once more.
QuietGrantsStay ==
    \A id \in quiet : \E r \in rows : r.id = id /\ ~r.deleted
=============================================================================

---------------------------- MODULE AccessTable ----------------------------
(***************************************************************************)
(* What the service promises about its table, without rows, flags,         *)
(* versions, caches, requests or events: grants that are in force, at most *)
(* one per key, and grants that were taken back and are kept for audit.    *)
(*                                                                         *)
(* AclService and CascadeConsumers implement it, each with its own mapping *)
(* of the rows (see EntryTable).  The steps are those the LLD allows: one  *)
(* grant, one revoke, the removal of a user or the purge of a tenant; the  *)
(* last two leave out what was granted while they were under way.          *)
(***************************************************************************)
EXTENDS EntryTable

VARIABLES
    live,   \* the grants in force, expired ones included
    past    \* the grants taken back

avars == <<live, past>>

Init == live = {} /\ past = {}

\* Of the grants T those of S and no later ones.
OldestOf(S, T) == S \subseteq T /\ \A g \in S, h \in T \ S : g.id < h.id

\* TAC-2: a new grant, on a key that has none in force.
Grant ==
    /\ past' = past
    /\ \E g \in live' :
          /\ live' = live \cup {g}
          /\ \A h \in live : h.key # g.key
          /\ \A h \in live \cup past : h.id # g.id

\* The grants of S are taken back and stay on record.
TakeBack(S) ==
    /\ S # {}
    /\ live' = live \ S
    /\ past' = past \cup S

\* TAC-3: the one grant of a key.
Revoke(k) == TakeBack({g \in live : g.key = k})

\* TAC-D10: the grants of a user, all or the oldest of them.
RemoveUser(t, u) ==
    \E S \in SUBSET live :
        /\ OldestOf(S, {g \in live : g.key.tenant = t /\ g.key.user = u})
        /\ TakeBack(S)

\* TAC-D7: the grants of a tenant, in force or not, all or the oldest of them.
Purge(t) ==
    \E S \in SUBSET (live \cup past) :
        /\ OldestOf(S, {g \in live \cup past : g.key.tenant = t})
        /\ live' = live \ S
        /\ past' = past \ S

Next ==
    \/ Grant
    \/ \E k \in Keys : Revoke(k)
    \/ \E t \in Tenants, u \in Users : RemoveUser(t, u)
    \/ \E t \in Tenants : Purge(t)

Spec == Init /\ [][Next]_avars
=============================================================================

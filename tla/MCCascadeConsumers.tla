------------------------- MODULE MCCascadeConsumers -------------------------
(* CascadeConsumers for TLC.                                                *)
EXTENDS CascadeConsumers, TLC

CONSTANTS t1, d1, u1, w1, w2

Symmetry == Permutations(Workers)

\* Unrelated relays may use one event id (LLD section 7.2.2): Purge has the
\* id of Removal.
Removal == [consumer |-> MemberRemovalConsumer, known |-> TRUE, id |-> "e1",
            tenant |-> t1, user |-> u1]
Purge == [consumer |-> OffboardingConsumer, known |-> TRUE, id |-> "e1",
          tenant |-> t1, user |-> Malformed]

\* The other ways through Handle: a type that is not known, with and without
\* an id that can be stored, and a subject that is missing.
Stray == [Removal EXCEPT !.known = FALSE, !.id = "e2"]
StrayNoId == [Removal EXCEPT !.known = FALSE, !.id = Malformed]
NoSubject == [Removal EXCEPT !.id = "e3", !.user = Malformed]

BothCascades == {Removal, Purge}
RemovalOnly == {Removal}
AllKinds == {Removal, Purge, Stray, StrayNoId, NoSubject}
=============================================================================

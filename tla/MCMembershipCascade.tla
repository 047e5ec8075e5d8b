------------------------ MODULE MCMembershipCascade -------------------------
(* MembershipCascade for TLC: one user who leaves twice, or whose tenant is *)
(* purged.                                                                  *)
EXTENDS MembershipCascade, TLC

CONSTANTS t1, d1, u1, w1, w2

Symmetry == Permutations(Workers)

Removal == [consumer |-> MemberRemovalConsumer, known |-> TRUE, id |-> "e1",
            tenant |-> t1, user |-> u1]
SecondRemoval == [Removal EXCEPT !.id = "e2"]
Purge == [Removal EXCEPT !.consumer = OffboardingConsumer, !.id = "e3"]

LeavesTwiceOrPurged == {Removal, SecondRemoval, Purge}
=============================================================================

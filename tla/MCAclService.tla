---------------------------- MODULE MCAclService ----------------------------
(* AclService for TLC.                                                      *)
EXTENDS AclService, TLC

CONSTANTS t1, d1, u1, c1, c2

Symmetry == Permutations(Clients)

\* Nothing fails: every request goes on, and there is no crash, no failed
\* call, no cascade and no eviction.
HealthySpec == Init /\ [][(\E c \in Clients : Proceed(c)) \/ Tick]_vars
=============================================================================

----------------------------- MODULE MCTenantTx -----------------------------
(* TenantTx for TLC.                                                        *)
EXTENDS TenantTx, TLC

CONSTANTS t1, t2, k1, k2, c1, c2, c3

Symmetry == Permutations(Tenants) \cup Permutations(Conns)
              \cup Permutations(Callers)
=============================================================================

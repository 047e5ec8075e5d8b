---------------------------- MODULE MCListPaging ----------------------------
(***************************************************************************)
(* ListPaging for TLC.                                                     *)
(***************************************************************************)
EXTENDS ListPaging, TLC

\* The default limit, and one above the ceiling.
MCWindows == {NoLimit, MaxLimit + 1}

MCSymmetry == Permutations(Users)
=============================================================================

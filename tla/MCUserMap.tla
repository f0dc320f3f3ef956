------------------------------ MODULE MCUserMap -------------------------------
(* UserMap for TLC: users with a name are interchangeable. *)
EXTENDS UserMap, TLC

UserSymmetry == Permutations(Named)
=============================================================================

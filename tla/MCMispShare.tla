---------------------------- MODULE MCMispShare ----------------------------
(***************************************************************************)
(* Instances of MispShare for TLC. Objects and runs are interchangeable: no *)
(* action and no property tells them apart.                                 *)
(***************************************************************************)
EXTENDS MispShare, TLC

CONSTANTS d1, d2, w1, ci, s1, s2

Symmetry == Permutations(Documents) \cup Permutations(Runs)
=============================================================================

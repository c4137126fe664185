---------------------------- MODULE MCStateFiles ----------------------------
(***************************************************************************)
(* Instances of StateFiles for TLC: two rule files of one rule, by mistake,  *)
(* so that a migration meets what it wrote itself.                         *)
(***************************************************************************)
EXTENDS StateFiles, TLC

CONSTANTS f1, f2, u1, t1, t2

OneUuid == [f \in {f1, f2} |-> u1]

Symmetry == Permutations(Files) \cup Permutations(Tenants)
=============================================================================

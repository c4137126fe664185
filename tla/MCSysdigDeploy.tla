--------------------------- MODULE MCSysdigDeploy ---------------------------
(***************************************************************************)
(* Instances of SysdigDeploy for TLC.                                       *)
(***************************************************************************)
EXTENDS SysdigDeploy, TLC

CONSTANTS r1, r2, p1, p2, t1, t2

Symmetry == Permutations(Policies) \cup Permutations(Tenants)
=============================================================================

------------------------- MODULE MCProductionDeploy -------------------------
(***************************************************************************)
(* Instances of ProductionDeploy for TLC: which merges are tried is the only *)
(* thing left to bound beyond the constants, so a run keeps the full Spec.   *)
(***************************************************************************)
EXTENDS ProductionDeploy

CONSTANTS r1, r2, t1, t2, mr

=============================================================================

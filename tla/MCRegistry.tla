----------------------------- MODULE MCRegistry -----------------------------
(***************************************************************************)
(* Instances of Registry for TLC. Workspaces are interchangeable.           *)
(***************************************************************************)
EXTENDS Registry, TLC

CONSTANTS w1, w2

Symmetry == Permutations(Workspaces)
=============================================================================

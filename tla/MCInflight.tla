----------------------------- MODULE MCInflight -----------------------------
(***************************************************************************)
(* Instances of Inflight for TLC. Objects are interchangeable and so are    *)
(* requests: no action and no property tells them apart.                    *)
(***************************************************************************)
EXTENDS Inflight, TLC

CONSTANTS o1, o2, p1, p2

Symmetry == Permutations(Objects) \cup Permutations(Requests)
=============================================================================

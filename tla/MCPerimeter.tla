---------------------------- MODULE MCPerimeter ----------------------------
(* Symmetry for the run of Perimeter. *)
EXTENDS Perimeter, TLC

Symmetry == Permutations(Req) \cup Permutations(Fp)
=============================================================================

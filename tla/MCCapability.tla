---------------------------- MODULE MCCapability ----------------------------
(* Symmetry for the run of Capability. *)
EXTENDS Capability, TLC

Symmetry == Permutations(App) \cup Permutations(Namespace) \cup Permutations(Client)
=============================================================================

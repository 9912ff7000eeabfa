------------------------------ MODULE MCQuota ------------------------------
(* Symmetry for the runs of Quota. *)
EXTENDS Quota, TLC

Symmetry == Permutations(Client) \cup Permutations(Blob)
=============================================================================

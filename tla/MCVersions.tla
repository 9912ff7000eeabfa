----------------------------- MODULE MCVersions -----------------------------
(* Tags and symmetry for the runs of Versions. *)
EXTENDS Versions, TLC

\* Every blob is a version of the same file, and named with its object id.
OneFile == [b \in Blob |-> Object]

Symmetry == Permutations(Client) \cup Permutations(Blob)
=============================================================================

----------------------------- MODULE MCFsAnchor -----------------------------
(* Symmetry for the runs of FsAnchor. *)
EXTENDS FsAnchor, TLC

Symmetry == Permutations(Writer) \cup Permutations(Inode)
=============================================================================

-------------------------- MODULE MCBlobLifecycle --------------------------
(* Topologies and symmetry for the runs of BlobLifecycle. *)
EXTENDS BlobLifecycle, TLC

CONSTANTS n1, n2, s1

\* Each node has its own anchor (blob-fs), named after it.
OwnAnchors == [n \in Node |-> n]
\* All nodes share one bucket (RustFS); its name is n1.
OneBucket == [n \in Node |-> n1]

NoPeers == [n \in Node |-> {}]
\* n1 replicates to n2, n2 to nobody.
FirstToSecond == [n \in Node |-> IF n = n1 THEN {n2} ELSE {}]
FullMesh == [n \in Node |-> Node \ {n}]

SweepOnFirst == [s \in Sweeper |-> n1]

Symmetry == Permutations(Client)
=============================================================================

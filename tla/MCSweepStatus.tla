--------------------------- MODULE MCSweepStatus ---------------------------
(* The topology of the run of SweepStatus: one node, one bucket. *)
EXTENDS SweepStatus

CONSTANTS n1, s1

OneBucket == [n \in Node |-> n1]
NoPeers == [n \in Node |-> {}]
SweepOnFirst == [s \in Sweeper |-> n1]
=============================================================================

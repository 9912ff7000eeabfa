------------------------------ MODULE MCCalls ------------------------------
(* Key bytes and symmetry for the run of Calls. *)
EXTENDS Calls, TLC

CONSTANTS b1, b2

Small == <<7>>
\* The second one does not fit a QUIC frame when it is sent, but does in an answer.
Payloads == {Small, <<7, 7>>}
Bytes == [k \in PeerKeys |-> IF k = PeerKey(b1) THEN <<1>> ELSE <<1, 1>>]
Indices == 1..2

Symmetry == Permutations(Caller)
=============================================================================

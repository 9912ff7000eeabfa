----------------------------- MODULE MCErasure -----------------------------
(* Payloads and a toy cipher for the runs of Erasure. *)
EXTENDS Erasure

Nonces == {<<5>>}
Texts == {<<>>, <<1, 2>>, <<1, 2, 3, 4>>}
Others == {<<>>, <<9>>, <<0, 0, 9>>}

\* A ciphertext byte per byte, and one byte of tag.
Toy(ns, nonce, p) ==
    LET key == IF ns = "ns1" THEN 10 ELSE 20
    IN  [i \in 1..(Len(p) + 1) |-> (IF i <= Len(p) THEN p[i] ELSE 0) + key + nonce[1]]
=============================================================================

--------------------------- MODULE MCDataSession ---------------------------
(* DataSession on small instances. *)
EXTENDS SessionStream, MCRetransScan

Windows(c, s) == [p \in Peer |-> IF p = "client" THEN c ELSE s]

Window22 == Windows(2, 2)
Window21 == Windows(2, 1)
MaxMsg20 == Windows(2, 0)
MaxMsg21 == Windows(2, 1)
MaxMsg40 == Windows(4, 0)
=============================================================================

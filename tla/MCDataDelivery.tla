--------------------------- MODULE MCDataDelivery ---------------------------
(* DataDelivery on a small instance. *)
EXTENDS DataDelivery

Window22 == [p \in Peer |-> 2]
MaxMsg30 == [p \in Peer |-> IF p = "client" THEN 3 ELSE 0]
=============================================================================

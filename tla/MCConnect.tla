----------------------------- MODULE MCConnect -----------------------------
(* Connect on small instances. *)
EXTENDS Connect

Both(c, s) == [p \in Peer |-> IF p = "client" THEN c ELSE s]

\* Every rule of the client context is in client mode.
OneWay == [v \in Services |-> "client"]
\* Each context has rules of both modes.
TwoWay == [v \in Services |-> IF v = 1 THEN "client" ELSE "server"]

MaxSessions11 == Both(1, 1)
MaxSessions12 == Both(1, 2)
MaxSessions22 == Both(2, 2)
MaxSessions23 == Both(2, 3)
=============================================================================

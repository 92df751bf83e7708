--------------------------- MODULE SessionStream ---------------------------
(* A DataSession is a pair of Streams, one for each direction. *)
EXTENDS DataSession

Upstream == INSTANCE Stream WITH
    sent <- log["client"], received <- delivered["server"],
    sending <- Live("client"), receiving <- Live("server")

Downstream == INSTANCE Stream WITH
    sent <- log["server"], received <- delivered["client"],
    sending <- Live("server"), receiving <- Live("client")

\* A session implements a Stream each way: its handlers, timers, queues and
\* retransmissions amount to appending what is read at one end and writing
\* longer and longer prefixes of it at the other, until either end is deleted.
ImplementsStreams == Upstream!Spec /\ Downstream!Spec
=============================================================================

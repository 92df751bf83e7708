--------------------------- MODULE MCRetransScan ---------------------------
(* RetransScan against the loop it stands for, over all inputs that a       *)
(* session with windows of up to ScanWindow can meet.                       *)
EXTENDS RetransScan

ScanWindow == SeqSpan \div 2

\* Held messages may lie beyond a window that has shrunk, and the arriving one
\* may find no room.
ScanInputs ==
    [recv_seq : SeqNum, ahead : SUBSET (2 .. ScanWindow),
     arrived : 2 .. ScanWindow, retry_seq : SeqNum, w : 1 .. ScanWindow]

HeldOf(i) == {[seq |-> SeqAdd(i.recv_seq, k)] : k \in i.ahead}
ArrivedOf(i) == SeqAdd(i.recv_seq, i.arrived)

\* The loop, from its k-th time on.
RECURSIVE ScanLoop(_, _, _)
ScanLoop(i, k, state) ==
    IF k = i.w THEN state
    ELSE ScanLoop(i, k + 1, ScanBody(i.recv_seq, HeldOf(i), ArrivedOf(i), i.w, k, state))

\* The closed form asks for what the loop asks for and leaves retry_seq_ as the
\* loop does, wherever the window lies in the sequence space and whatever was
\* asked for before.
ASSUME ScanAgrees ==
    \A i \in ScanInputs :
        LET loop == ScanLoop(i, 0, [retry_seq |-> i.retry_seq, asked |-> {}])
            asked == Asked(i.recv_seq, HeldOf(i), ArrivedOf(i), i.retry_seq, i.w)
        IN  /\ asked = loop.asked
            /\ RetrySeq(i.recv_seq, asked, i.retry_seq) = loop.retry_seq
=============================================================================

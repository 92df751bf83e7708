---------------------------- MODULE RetransScan ----------------------------
(***************************************************************************)
(* What a receiver asks its peer to send again: the loop that ends         *)
(* t2u_session_handle_data_request, in closed form.  held are the entries  *)
(* of recv_mess_, seq is the arriving number and w is udp_slide_window_.   *)
(***************************************************************************)
EXTENDS SeqSpace

\* The sequence numbers missing from held that lie within the window of both
\* recv_seq and the arriving seq: the candidates of the retransmission scan.
Gaps(recv_seq, held, seq, w) ==
    {t \in {SeqAdd(recv_seq, i) : i \in 1 .. w} :
        /\ \A h \in held : h.seq # t
        /\ SeqDiff(seq, t) <= w}

\* The scan asks for every candidate from the first one that retry_seq does
\* not cover; the last one asked becomes the new retry_seq.
Asked(recv_seq, held, seq, retry_seq, w) ==
    LET gaps == Gaps(recv_seq, held, seq, w)
    IN  {t \in gaps : \E u \in gaps :
            /\ SeqDiff(u, recv_seq) <= SeqDiff(t, recv_seq)
            /\ SeqDiff(retry_seq, u) > w}

RetrySeq(recv_seq, asked, retry_seq) ==
    LET last == {t \in asked :
                    \A u \in asked : SeqDiff(u, recv_seq) <= SeqDiff(t, recv_seq)}
    IN  CHOOSE t \in IF last = {} THEN {retry_seq} ELSE last : TRUE

\* The body of the loop as it is written, for the i-th number after the next
\* one: retry_seq_ is compared and assigned on the way.  state has retry_seq_
\* and what was asked for so far.
ScanBody(recv_seq, held, seq, w, i, state) ==
    LET test_seq == SeqAdd(recv_seq, 1 + i)
        send == /\ \A h \in held : h.seq # test_seq
                /\ SeqDiff(seq, test_seq) <= w
                /\ SeqDiff(state.retry_seq, test_seq) > w
    IN  IF send THEN [retry_seq |-> test_seq, asked |-> state.asked \cup {test_seq}]
                ELSE state
=============================================================================

---------------------------- MODULE DataDelivery ----------------------------
(***************************************************************************)
(* What a session gets done in the end.  The steps are those of            *)
(* DataSession; what surrounds them is no longer arbitrary.  The network   *)
(* carries a datagram once or drops it, and drops MaxLoss of them.  The    *)
(* timeout of a message, utimeout_, is longer than a round trip and stays  *)
(* the same.                                                               *)
(***************************************************************************)
EXTENDS DataSession

CONSTANT MaxLoss   \* bound: datagrams the network drops

ASSUME MaxLossAssumption == MaxLoss \in Nat

VARIABLES
    arrived,    \* the datagram that process_udp_cb_ reads next, if any
    losses,     \* datagrams dropped so far
    unheard     \* <<p, seq>>: an answer that would have confirmed it was dropped

allVars == <<vars, arrived, losses, unheard>>

\* A callback other than process_udp_cb_.  A datagram that has arrived is served
\* first: until then it is as good as under way.
Callback(action) == arrived = {} /\ action /\ UNCHANGED <<arrived, losses, unheard>>

ReadTcp(p) == Callback(ProcessTcpFull(p) \/ ProcessTcpRead(p))

\* Message m of p, or an answer to it, is under way.
UnderWay(p, m) ==
    \E d \in net :
        /\ d.seq = m.seq
        /\ \/ d.oper = "data_request" /\ d.to = Other(p)
           \/ d.oper = "data_response" /\ d.to = p

\* Timers of one period expire in the order in which they were armed: before
\* that of m does once more, those of the messages before it have.
EarlierFirst(p, m) ==
    \A e \in sess[p].send_mess :
        e.armed /\ SeqDiff(m.seq, e.seq) \in 1 .. MaxWindow => e.send_retries > m.send_retries

\* RequestTimeout changes the entry of the message whose timer expires.
Timeout(p) ==
    \E m \in sess[p].send_mess :
        /\ ~UnderWay(p, m) /\ EarlierFirst(p, m)
        /\ Callback(RequestTimeout(p))
        /\ m \notin sess'[p].send_mess

\* The sessions end as they may in DataSession.
End(p) == Callback(ProcessTcpEof(p) \/ SessionTimeout(p))

Arrive(p) ==
    /\ arrived = {}
    /\ \E d \in net :
         /\ d.to = p
         /\ arrived' = {d}
         /\ net' = net \ {d}
    /\ UNCHANGED <<sess, log, delivered, window, losses, unheard>>

\* process_udp_cb_ finds no session, or no message of that number.
Ignored(d) ==
    \/ ~Live(d.to)
    \/ /\ d.oper \in {"data_response", "retrans_request"}
       /\ \A m \in sess[d.to].send_mess : m.seq # d.seq

Serve ==
    /\ \E d \in arrived : ProcessUdp(d.to, d) \/ (Ignored(d) /\ UNCHANGED vars)
    /\ arrived' = {}
    /\ UNCHANGED <<losses, unheard>>

Lose(d) ==
    /\ arrived = {} /\ losses < MaxLoss
    /\ losses' = losses + 1
    /\ net' = net \ {d}
    /\ unheard' = IF d.oper = "data_response" /\ d.value > 0
                  THEN unheard \cup {<<d.to, d.seq>>} ELSE unheard
    /\ UNCHANGED <<sess, log, delivered, window, arrived>>

-----------------------------------------------------------------------------
DeliveryInit == Init /\ arrived = {} /\ losses = 0 /\ unheard = {}

DeliveryNext ==
    \/ \E p \in Peer : ReadTcp(p) \/ Timeout(p) \/ End(p) \/ Arrive(p)
    \/ Serve
    \/ \E d \in net : Lose(d)

\* The runner thread serves every readable TCP socket, every expired timer and
\* every datagram, and a datagram that is not dropped arrives.  That a session
\* ends or a datagram is dropped is not forced.
Fairness ==
    /\ \A p \in Peer : WF_allVars(ReadTcp(p)) /\ WF_allVars(Timeout(p)) /\ WF_allVars(Arrive(p))
    /\ WF_allVars(Serve)

FairSpec == DeliveryInit /\ [][DeliveryNext]_allVars /\ Fairness

-----------------------------------------------------------------------------
(* Properties *)

\* Every payload read is written at the other end, unless a session ends: the
\* timer of process_request_timeout_cb_ sends a message again, once more than the
\* network drops it, however other messages overtake it, whatever retry_seq_ hides
\* from the scan for missing ones, and also when a session is closing.
Delivery ==
    \A p \in Peer : \A n \in 1 .. MaxMsg[p] :
        Len(log[p]) >= n ~>
            Len(delivered[Other(p)]) >= n \/ ~Live(p) \/ ~Live(Other(p))

\* The window of p is full of messages whose confirmations were dropped; a
\* duplicate gets no other one (see SuccessConfirms).
Unconfirmable(p) ==
    /\ sess[p].send_buffer_count >= window[p]
    /\ \A m \in sess[p].send_mess : <<p, m.seq>> \in unheard

\* A session that has stopped reading its TCP socket reads it again, once
\* t2u_session_handle_data_request answers one of the queued messages with its
\* length and t2u_delete_request_message takes it off the queue, unless no such
\* answer comes through or a session ends.
ReadsOn ==
    \A p \in Peer :
        Live(p) /\ ~sess[p].reading ~>
            sess[p].reading \/ Unconfirmable(p) \/ ~Live(p) \/ ~Live(Other(p))
=============================================================================

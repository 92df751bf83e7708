---------------------------- MODULE DataSession ----------------------------
(***************************************************************************)
(* One established t2u session: two peers that carry the bytes of a TCP    *)
(* connection over UDP.  Each peer reads payloads from its TCP socket,     *)
(* numbers them, keeps them in send_mess_ until they are confirmed, and    *)
(* writes what it receives, in order, to its own TCP socket.               *)
(*                                                                         *)
(* Every action is one libevent callback, run to completion on the runner  *)
(* thread.  The red-black trees of the code (send_mess_, recv_mess_) are   *)
(* sets of entries keyed by seq.  All datagrams carry the handle of this   *)
(* session; a datagram that meets no live session is ignored.              *)
(***************************************************************************)
EXTENDS RetransScan, SequencesExt, FiniteSets

CONSTANTS
    Window,        \* udp_slide_window_ of each peer's context at Init
    MaxWindow,     \* the largest window set_context_option accepts
    NewWindows,    \* the windows the applications ask for later
    StartSeq,      \* messages already carried each way (mod SeqSpan) at Init
    ReadSizes,     \* what recv() on the TCP socket may return
    WriteResults,  \* what send() on the TCP socket may do besides writing all
    SizeofInt,     \* sizeof(int): the size memcpy is given on a partial write
    MaxMsg,        \* bound: payloads each TCP application supplies
    MaxDebt,       \* bound: how far below zero partial writes take a length
    MaxChunks      \* bound: writes of a peer after which none is partial

Peer == {"client", "server"}
Other(p) == IF p = "client" THEN "server" ELSE "client"

ASSUME WindowAssumption ==
    /\ MaxWindow \in Nat \ {0} /\ 2 * MaxWindow <= SeqSpan
    /\ Window \in [Peer -> 1 .. MaxWindow]
    /\ NewWindows \subseteq Nat
ASSUME StartSeqAssumption == StartSeq \in SeqNum
ASSUME ReadSizesAssumption == ReadSizes \subseteq Nat \ {0}
ASSUME WriteResultsAssumption == WriteResults \subseteq {"partial", "block", "error"}
ASSUME SizeofIntAssumption == SizeofInt \in Nat
ASSUME BoundsAssumption ==
    MaxMsg \in [Peer -> Nat] /\ MaxDebt \in Nat /\ MaxChunks \in Nat

VARIABLES
    sess,       \* t2u_session of each peer
    net,        \* datagrams in flight: never consumed, so any order, any number
    log,        \* history: payloads each peer has read from its TCP socket
    delivered,  \* history: chunks each peer has written to its TCP socket
    window      \* udp_slide_window_ of each peer's context

vars == <<sess, net, log, delivered, window>>

-----------------------------------------------------------------------------
Payload == Seq(Nat) \ {<<>>}

\* An entry of send_mess_ (t2u_message).  len is len_ minus the header: the
\* subtraction of a late partial write can take it below zero, and then no
\* well-formed datagram leaves any more.  armed: the timeout event is pending.
Message ==
    {m \in [seq : SeqNum, payload : Seq(Nat), len : Int,
            send_retries : Nat, armed : BOOLEAN] : m.len <= Len(m.payload)}

\* An entry of recv_mess_: a payload that arrived ahead of its turn.
Held == [seq : SeqNum, payload : Payload]

Life == {"live", "eof", "peer", "error", "closing", "idle", "corrupt"}

\* life is "live" while the session is in rule->sessions_, otherwise why it
\* was freed; "corrupt" is a freed session that the code goes on using.
\* reading: ev_->event_ is not NULL, so the TCP socket is being read.
Session == [life : Life, status : 0 .. 3, send_seq : SeqNum,
            send_mess : SUBSET Message, send_buffer_count : Int,
            recv_seq : SeqNum, recv_mess : SUBSET Held,
            recv_buffer_count : Int, retry_seq : SeqNum, reading : BOOLEAN]

Datagram ==
    {d \in [to : Peer,
            oper : {"data_request", "data_response", "retrans_request",
                    "close_request"},
            seq : SeqNum, payload : Seq(Nat), value : Int] :
        d.oper = "data_request" => d.payload # <<>>}

DataRequest(p, seq, payload) ==
    [to |-> p, oper |-> "data_request", seq |-> seq, payload |-> payload, value |-> 0]
DataResponse(p, seq, value) ==
    [to |-> p, oper |-> "data_response", seq |-> seq, payload |-> <<>>, value |-> value]
RetransRequest(p, seq) ==
    [to |-> p, oper |-> "retrans_request", seq |-> seq, payload |-> <<>>, value |-> 0]
CloseRequest(p) ==
    [to |-> p, oper |-> "close_request", seq |-> 0, payload |-> <<>>, value |-> 0]

-----------------------------------------------------------------------------
(* Sessions *)

\* An established session whose queues are empty.
Established ==
    [life |-> "live", status |-> 2, send_seq |-> StartSeq, send_mess |-> {},
     send_buffer_count |-> 0, recv_seq |-> StartSeq, recv_mess |-> {},
     recv_buffer_count |-> 0, retry_seq |-> 0, reading |-> TRUE]

\* What is left of a session t2u_delete_connected_session has freed: no
\* event, no timer, no queued message.
Freed(why) ==
    [life |-> why, status |-> 0, send_seq |-> 0, send_mess |-> {},
     send_buffer_count |-> 0, recv_seq |-> 0, recv_mess |-> {},
     recv_buffer_count |-> 0, retry_seq |-> 0, reading |-> FALSE]

\* t2u_delete_connected_session(session, 0): free, and tell the peer.
DeleteSession(p, why) ==
    /\ sess' = [sess EXCEPT ![p] = Freed(why)]
    /\ net' = net \cup {CloseRequest(Other(p))}

\* t2u_try_delete_connected_session: a closing session with nothing queued.
Deletable(s) == s.status = 3 /\ s.send_mess = {} /\ s.recv_mess = {}

\* Peer p's session becomes s, the datagrams out leave, and the session is
\* deleted when it is closing and has nothing left to do.
SettleSession(p, s, out) ==
    IF Deletable(s)
    THEN /\ sess' = [sess EXCEPT ![p] = Freed("closing")]
         /\ net' = net \cup out \cup {CloseRequest(Other(p))}
    ELSE /\ sess' = [sess EXCEPT ![p] = s]
         /\ net' = net \cup out

\* The datagram that (re)sends message m of p: send() of a length below the
\* header gives nothing the peer's process_udp_cb_ accepts.
Transmission(p, m) ==
    IF m.len > 0 THEN {DataRequest(Other(p), m.seq, m.payload)} ELSE {}

-----------------------------------------------------------------------------
(* set_context_option, called by a thread of the application *)

\* Mutant: a window of 0 is accepted.
SettableUnclamped == {IF v > MaxWindow THEN MaxWindow ELSE v : v \in NewWindows}

\* What the windows asked for become: 1 at least, MaxWindow at most.
Settable == {IF v < 1 THEN 1 ELSE IF v > MaxWindow THEN MaxWindow ELSE v : v \in NewWindows}

SetContextOption(p) ==
    /\ \E w \in Settable : window' = [window EXCEPT ![p] = w]
    /\ UNCHANGED <<sess, net, log, delivered>>

-----------------------------------------------------------------------------
(* The sending side: t2u_session_process_tcp and t2u_message.c *)

LastByte(l) ==
    IF l = <<>> THEN 0 ELSE LET c == l[Len(l)] IN c[Len(c)]

\* The window is full: the read event is freed until a message is confirmed.
ProcessTcpFull(p) ==
    /\ sess[p].life = "live" /\ sess[p].reading
    /\ sess[p].send_buffer_count >= window[p]
    /\ sess' = [sess EXCEPT ![p].reading = FALSE]
    /\ UNCHANGED <<net, log, delivered, window>>

\* Mutant: the sequence number does not wrap.
AddRequestMessageNoWrap(s, payload) ==
    LET m == [seq |-> s.send_seq + 1, payload |-> payload,
              len |-> Len(payload), send_retries |-> 0, armed |-> TRUE]
    IN  [s EXCEPT !.send_seq = m.seq,
                  !.send_mess = @ \cup {m},
                  !.send_buffer_count = @ + 1]

\* Mutant: the message is numbered before the counter is incremented.
AddRequestMessagePostIncrement(s, payload) ==
    LET m == [seq |-> s.send_seq, payload |-> payload,
              len |-> Len(payload), send_retries |-> 0, armed |-> TRUE]
    IN  [s EXCEPT !.send_seq = SeqAdd(@, 1),
                  !.send_mess = @ \cup {m},
                  !.send_buffer_count = @ + 1]

\* t2u_add_request_message: number the payload, queue it, arm its timer and
\* send it.
AddRequestMessage(s, payload) ==
    LET m == [seq |-> SeqAdd(s.send_seq, 1), payload |-> payload,
              len |-> Len(payload), send_retries |-> 0, armed |-> TRUE]
    IN  [s EXCEPT !.send_seq = m.seq,
                  !.send_mess = @ \cup {m},
                  !.send_buffer_count = @ + 1]

\* recv() returned k bytes of the TCP stream; bytes are numbered 1, 2, ...
ProcessTcpRead(p) ==
    LET s == sess[p]
    IN  /\ s.life = "live" /\ s.reading
        /\ s.send_buffer_count < window[p]
        /\ Len(log[p]) < MaxMsg[p]
        /\ \E k \in ReadSizes :
             LET payload == [i \in 1 .. k |-> LastByte(log[p]) + i]
             IN  /\ sess' = [sess EXCEPT ![p] = AddRequestMessage(s, payload)]
                 /\ net' = net \cup {DataRequest(Other(p), SeqAdd(s.send_seq, 1), payload)}
                 /\ log' = [log EXCEPT ![p] = Append(@, payload)]
        /\ UNCHANGED <<delivered, window>>

\* recv() returned 0 or a fatal error: the session is deleted at once.
ProcessTcpEof(p) ==
    /\ sess[p].life = "live" /\ sess[p].reading
    /\ sess[p].send_buffer_count < window[p]
    /\ DeleteSession(p, "eof")
    /\ UNCHANGED <<log, delivered, window>>

\* Mutant: the timer is armed again, but nothing is sent.
RequestTimeoutSilent(p) ==
    LET s == sess[p]
    IN  /\ s.life = "live"
        /\ \E m \in s.send_mess :
             LET again == m.send_retries <= window[p]
                 m2 == [m EXCEPT !.send_retries = @ + 1, !.armed = again]
                 s2 == [s EXCEPT !.send_mess = (@ \ {m}) \cup {m2}]
             IN  /\ m.armed
                 /\ IF again
                    THEN /\ sess' = [sess EXCEPT ![p] = s2]
                         /\ UNCHANGED net
                    ELSE SettleSession(p, [s2 EXCEPT !.status = 3], {})
        /\ UNCHANGED <<log, delivered, window>>

\* process_request_timeout_cb_: send again, or give the session up when the
\* message was already sent again udp_slide_window_ + 1 times.
RequestTimeout(p) ==
    LET s == sess[p]
    IN  /\ s.life = "live"
        /\ \E m \in s.send_mess :
             LET again == m.send_retries <= window[p]
                 m2 == [m EXCEPT !.send_retries = @ + 1, !.armed = again]
                 s2 == [s EXCEPT !.send_mess = (@ \ {m}) \cup {m2}]
             IN  /\ m.armed
                 /\ IF again
                    THEN /\ sess' = [sess EXCEPT ![p] = s2]
                         /\ net' = net \cup Transmission(p, m)
                    ELSE SettleSession(p, [s2 EXCEPT !.status = 3], {})
        /\ UNCHANGED <<log, delivered, window>>

\* Mutant: the read event is not added again.
DeleteRequestMessageAsleep(s, m) ==
    [s EXCEPT !.send_mess = @ \ {m}, !.send_buffer_count = @ - 1]

\* The message that confirms: t2u_delete_request_message takes it off the
\* queue and makes the TCP socket readable again if the window had closed.
DeleteRequestMessage(s, m) ==
    [s EXCEPT !.send_mess = @ \ {m},
              !.send_buffer_count = @ - 1,
              !.reading = TRUE]

\* A partial write of v bytes: len_ shrinks and memcpy moves sizeof(int)
\* bytes to the front, however many are left.
Shrink(m, v) ==
    [m EXCEPT !.len = @ - v,
              !.payload = [i \in 1 .. (IF m.len > v THEN m.len - v ELSE 0) |->
                              IF i <= SizeofInt THEN m.payload[v + i]
                                                ELSE m.payload[i]]]

\* Mutant: any answer that is not an error confirms the message.
HandleDataResponseLenient(p, d) ==
    LET s == sess[p]
    IN  /\ d.oper = "data_response"
        /\ s.life = "live"
        /\ \E m \in s.send_mess :
             /\ m.seq = d.seq
             /\ \/ /\ d.value >= 0
                   /\ SettleSession(p, DeleteRequestMessage(s, m), {})
                \/ /\ d.value < 0
                   /\ DeleteSession(p, "error")
        /\ UNCHANGED <<log, delivered, window>>

\* t2u_message_handle_data_response for the message d answers.
HandleDataResponse(p, d) ==
    LET s == sess[p]
    IN  /\ d.oper = "data_response"
        /\ s.life = "live"
        /\ \E m \in s.send_mess :
             /\ m.seq = d.seq
             /\ \/ /\ d.value = m.len
                   /\ SettleSession(p, DeleteRequestMessage(s, m), {})
                \/ /\ d.value # m.len /\ d.value >= 0
                   /\ d.value > 0 => d.value - m.len <= MaxDebt
                   /\ LET m2 == IF d.value > 0 THEN Shrink(m, d.value) ELSE m
                      IN SettleSession(p, [s EXCEPT !.send_mess = (@ \ {m}) \cup {m2}], {})
                \/ /\ d.value # m.len /\ d.value < 0
                   /\ DeleteSession(p, "error")
        /\ UNCHANGED <<log, delivered, window>>

\* t2u_message_handle_retrans_request: send the message again if still queued.
HandleRetransRequest(p, d) ==
    /\ d.oper = "retrans_request"
    /\ sess[p].life = "live"
    /\ \E m \in sess[p].send_mess :
         /\ m.seq = d.seq
         /\ net' = net \cup Transmission(p, m)
    /\ UNCHANGED <<sess, log, delivered, window>>

-----------------------------------------------------------------------------
(* The receiving side: t2u_session_handle_data_request *)

\* Already delivered, or out of the window: answered with value 0.
HandleDataRequestOld(p, d) ==
    LET diff == SeqDiff(d.seq, sess[p].recv_seq)
    IN  /\ d.oper = "data_request"
        /\ sess[p].life = "live"
        /\ diff > window[p] \/ diff = 0
        /\ net' = net \cup {DataResponse(Other(p), d.seq, 0)}
        /\ UNCHANGED <<sess, log, delivered, window>>

\* Mutant: a message is confirmed as soon as it is held.
HandleDataRequestAheadConfirms(p, d) ==
    LET s == sess[p]
        keep == (\A h \in s.recv_mess : h.seq # d.seq) /\ s.recv_buffer_count < window[p]
        held == IF keep THEN s.recv_mess \cup {[seq |-> d.seq, payload |-> d.payload]}
                        ELSE s.recv_mess
    IN  /\ d.oper = "data_request"
        /\ s.life = "live"
        /\ SeqDiff(d.seq, s.recv_seq) \in 2 .. window[p]
        /\ sess' = [sess EXCEPT ![p] =
                      [s EXCEPT !.recv_mess = held,
                                !.recv_buffer_count = IF keep THEN @ + 1 ELSE @]]
        /\ net' = net \cup {DataResponse(Other(p), d.seq, Len(d.payload))}
        /\ UNCHANGED <<log, delivered, window>>

\* In the window but not next: keep it, and ask for what is missing.  The window
\* is read again for each of the two, and may have been set in between, to v for
\* the first and to w for the second.  The scan reads it in every turn of its loop;
\* it is w in all of them.
HandleDataRequestAhead(p, d) ==
    LET s == sess[p]
        diff == SeqDiff(d.seq, s.recv_seq)
        Keep(v) == (\A h \in s.recv_mess : h.seq # d.seq) /\ s.recv_buffer_count < v
        HeldThen(v) == IF Keep(v) THEN s.recv_mess \cup {[seq |-> d.seq, payload |-> d.payload]}
                                  ELSE s.recv_mess
        AskedFor(v, w) == Asked(s.recv_seq, HeldThen(v), d.seq, s.retry_seq, w)
    IN  /\ d.oper = "data_request"
        /\ s.life = "live"
        /\ diff \in 2 .. window[p]
        /\ \E v \in {window[p]} \cup Settable : \E w \in {v} \cup Settable :
             /\ window' = [window EXCEPT ![p] = w]
             /\ sess' = [sess EXCEPT ![p] =
                           [s EXCEPT !.recv_mess = HeldThen(v),
                                     !.recv_buffer_count = IF Keep(v) THEN @ + 1 ELSE @,
                                     !.retry_seq = RetrySeq(s.recv_seq, AskedFor(v, w), @)]]
             /\ net' = net \cup {RetransRequest(Other(p), t) : t \in AskedFor(v, w)}
        /\ UNCHANGED <<log, delivered>>

(* d is next.  The loop writes d (message 1), then the held messages that   *)
(* follow it (message 2, 3, ...) for as long as there is one and each is    *)
(* written completely.  A message is taken off recv_mess_ before it is      *)
(* written.                                                                 *)

Available(s, i) == i = 1 \/ \E h \in s.recv_mess : h.seq = SeqAdd(s.recv_seq, i)

Item(s, d, i) ==
    IF i = 1 THEN d.payload
    ELSE (CHOOSE h \in s.recv_mess : h.seq = SeqAdd(s.recv_seq, i)).payload

\* The entries of recv_mess_ fetched when the loop has reached message n.
Fetched(s, n) ==
    {h \in s.recv_mess : \E i \in 2 .. n : h.seq = SeqAdd(s.recv_seq, i)}

\* Mutant: recv_seq_ counts the message in hand before it is written.
AdvanceEarly(s, n, fetched) ==
    [s EXCEPT !.recv_seq = SeqAdd(@, fetched),
              !.recv_mess = @ \ Fetched(s, fetched),
              !.recv_buffer_count = @ - (fetched - 1)]

\* Mutant: recv_buffer_count_ is not decremented.
AdvanceNoCount(s, n, fetched) ==
    [s EXCEPT !.recv_seq = SeqAdd(@, n),
              !.recv_mess = @ \ Fetched(s, fetched)]

\* The session after n complete writes, with n or n + 1 messages fetched.
Advance(s, n, fetched) ==
    [s EXCEPT !.recv_seq = SeqAdd(@, n),
              !.recv_mess = @ \ Fetched(s, fetched),
              !.recv_buffer_count = @ - (fetched - 1)]

Written(s, d, n) == [i \in 1 .. n |-> Item(s, d, i)]

\* The responses to the first n messages, all written completely.
Responses(p, s, d, n) ==
    {DataResponse(Other(p), SeqAdd(s.recv_seq, i), Len(Item(s, d, i))) : i \in 1 .. n}

\* Fetching message n empties a closing session's queues: the try-delete in
\* the loop frees the session, and the loop goes on with it.
FreedInLoop(s, n) ==
    n > 1 /\ Deletable([s EXCEPT !.recv_mess = @ \ Fetched(s, n)])

\* Mutant: the message written last is taken for the next one.
IsNextOrLast(p, d) ==
    /\ d.oper = "data_request"
    /\ sess[p].life = "live"
    /\ SeqDiff(d.seq, sess[p].recv_seq) \in {0, 1}

IsNext(p, d) ==
    /\ d.oper = "data_request"
    /\ sess[p].life = "live"
    /\ SeqDiff(d.seq, sess[p].recv_seq) = 1

\* All that is available is written: the loop ends at the first gap.
HandleDataRequestNext(p, d) ==
    LET s == sess[p]
    IN  /\ IsNext(p, d)
        /\ \E n \in 1 .. MaxWindow :
             /\ \A i \in 1 .. n : Available(s, i)
             /\ ~Available(s, n + 1)
             /\ ~FreedInLoop(s, n)
             /\ sess' = [sess EXCEPT ![p] = Advance(s, n, n)]
             /\ net' = net \cup Responses(p, s, d, n)
             /\ delivered' = [delivered EXCEPT ![p] = @ \o Written(s, d, n)]
        /\ UNCHANGED <<log, window>>

\* Message n + 1 is not written completely.  A full socket answers r = -1,
\* like an error, but leaves the session open.
HandleDataRequestStuck(p, d) ==
    LET s == sess[p]
    IN  /\ IsNext(p, d)
        /\ \E n \in 0 .. MaxWindow - 1 :
             LET s2 == Advance(s, n, n + 1)
                 item == Item(s, d, n + 1)
                 Answer(v) == Responses(p, s, d, n)
                                \cup {DataResponse(Other(p), SeqAdd(s.recv_seq, n + 1), v)}
             IN  /\ \A i \in 1 .. n + 1 : Available(s, i)
                 /\ ~FreedInLoop(s, n + 1)
                 /\ \/ /\ "partial" \in WriteResults
                       /\ Len(delivered[p]) + n < MaxChunks
                       /\ \E r \in 1 .. Len(item) - 1 :
                            /\ sess' = [sess EXCEPT ![p] = s2]
                            /\ net' = net \cup Answer(r)
                            /\ delivered' = [delivered EXCEPT ![p] =
                                   @ \o Append(Written(s, d, n), SubSeq(item, 1, r))]
                    \/ /\ "block" \in WriteResults
                       /\ sess' = [sess EXCEPT ![p] = s2]
                       /\ net' = net \cup Answer(-1)
                       /\ delivered' = [delivered EXCEPT ![p] = @ \o Written(s, d, n)]
                    \/ /\ "error" \in WriteResults
                       /\ SettleSession(p, [s2 EXCEPT !.status = 3], Answer(-1))
                       /\ delivered' = [delivered EXCEPT ![p] = @ \o Written(s, d, n)]
        /\ UNCHANGED <<log, window>>

\* The session is freed inside the loop and used again: undefined behaviour,
\* so peer p does nothing we can rely on from here.
HandleDataRequestFreed(p, d) ==
    LET s == sess[p]
    IN  /\ IsNext(p, d)
        /\ \E n \in 1 .. MaxWindow - 1 :
             /\ \A i \in 1 .. n + 1 : Available(s, i)
             /\ FreedInLoop(s, n + 1)
             /\ sess' = [sess EXCEPT ![p] = Freed("corrupt")]
             /\ net' = net \cup Responses(p, s, d, n) \cup {CloseRequest(Other(p))}
             /\ delivered' = [delivered EXCEPT ![p] = @ \o Written(s, d, n)]
        /\ UNCHANGED <<log, window>>

\* close_request: delete without answering (sync_from_pair = 1).
HandleCloseRequest(p, d) ==
    /\ d.oper = "close_request"
    /\ sess[p].life = "live"
    /\ sess' = [sess EXCEPT ![p] = Freed("peer")]
    /\ UNCHANGED <<net, log, delivered, window>>

\* session_timeout_check_cb_: nothing was sent for session_timeout_ seconds.
\* utimeout_ may exceed session_timeout_, so this can come in any state.
SessionTimeout(p) ==
    /\ sess[p].life = "live"
    /\ DeleteSession(p, "idle")
    /\ UNCHANGED <<log, delivered, window>>

-----------------------------------------------------------------------------
Init ==
    /\ sess = [p \in Peer |-> Established]
    /\ net = {}
    /\ log = [p \in Peer |-> <<>>]
    /\ delivered = [p \in Peer |-> <<>>]
    /\ window = Window

\* process_udp_cb_: dispatch on the operation code.
ProcessUdp(p, d) ==
    /\ d.to = p
    /\ \/ HandleDataRequestOld(p, d)
       \/ HandleDataRequestAhead(p, d)
       \/ HandleDataRequestNext(p, d)
       \/ HandleDataRequestStuck(p, d)
       \/ HandleDataRequestFreed(p, d)
       \/ HandleDataResponse(p, d)
       \/ HandleRetransRequest(p, d)
       \/ HandleCloseRequest(p, d)

Next ==
    \/ \E p \in Peer :
         \/ ProcessTcpFull(p)
         \/ ProcessTcpRead(p)
         \/ ProcessTcpEof(p)
         \/ RequestTimeout(p)
         \/ SessionTimeout(p)
         \/ SetContextOption(p)
    \/ \E p \in Peer, d \in net : ProcessUdp(p, d)

Spec == Init /\ [][Next]_vars

-----------------------------------------------------------------------------
(* Properties *)

TypeOK ==
    /\ sess \in [Peer -> Session]
    /\ net \subseteq Datagram
    /\ log \in [Peer -> Seq(Payload)]
    /\ delivered \in [Peer -> Seq(Payload)]
    /\ window \in [Peer -> 1 .. MaxWindow]

Live(p) == sess[p].life = "live"

\* The sequence number of the n-th payload of a direction.
NthSeq(n) == SeqAdd(StartSeq, n)

\* What a peer has written to its TCP socket is, payload by payload, a prefix
\* of what the other peer has read from its own: nothing is lost, repeated,
\* reordered or altered across t2u_session_handle_data_request's window,
\* reorder queue and write loop.  It needs writes that are all or nothing.
InOrder == \A p \in Peer : IsPrefix(delivered[Other(p)], log[p])

Remembers(p, s) ==
    \A n \in Len(delivered[Other(p)]) + 1 .. Len(log[p]) :
        \E m \in s.send_mess : m.seq = NthSeq(n)

\* A payload that the peer has not written yet is still queued at its sender,
\* so the timer can send it again: t2u_message_handle_data_response takes a
\* message off send_mess_ for no answer but that of a complete write.
NothingForgotten == \A p \in Peer : Live(p) => Remembers(p, sess[p])

\* A live session that has stopped reading its TCP socket has a message queued,
\* so the confirmation that makes the socket readable again is still to come,
\* however set_context_option has changed the window since.
NoLostWakeup ==
    \A p \in Peer : Live(p) /\ ~sess[p].reading => sess[p].send_mess # {}

\* The buffer counters are the sizes of the trees they stand for, no key is in
\* a tree twice, and neither tree outgrows the largest window; what is held back
\* lies strictly ahead of the next message, where the write loop will find it.
QueuesAgree ==
    \A p \in Peer : Live(p) =>
        LET s == sess[p]
        IN  /\ s.send_buffer_count = Cardinality(s.send_mess)
            /\ s.send_buffer_count <= MaxWindow
            /\ \A m1, m2 \in s.send_mess : m1.seq = m2.seq => m1 = m2
            /\ s.recv_buffer_count = Cardinality(s.recv_mess)
            /\ \A h1, h2 \in s.recv_mess : h1.seq = h2.seq => h1 = h2
            /\ \A h \in s.recv_mess : SeqDiff(h.seq, s.recv_seq) \in 2 .. MaxWindow

-----------------------------------------------------------------------------
(* What the comments of the code say of a session, which it does not do in  *)
(* every run.                                                               *)

\* An answer that reports no error, about a message the peer has written,
\* confirms it: its value is the one t2u_message_handle_data_response takes for
\* a complete write.  A duplicate is answered with "success for default"
\* (t2u_session.c:216).
SuccessConfirms ==
    \A p \in Peer : \A d \in net : \A m \in sess[p].send_mess :
        /\ d.oper = "data_response" /\ d.to = p /\ d.value >= 0 /\ d.seq = m.seq
        /\ \E n \in 1 .. Len(delivered[Other(p)]) : d.seq = NthSeq(n)
        => d.value = m.len

\* A closing session is deleted only once its queues are flushed
\* (t2u_session.h:13), so nothing it still has to write is in hand.
DeletedWhenFlushed == \A p \in Peer : sess[p].life # "corrupt"

-----------------------------------------------------------------------------
(* The inductive invariant behind QueuesAgree and NoLostWakeup: numbers are *)
(* given out one after the other, and none is given out again.              *)

\* s has given out the numbers of the first N payloads.
SendQueue(s, N) ==
    /\ s.send_seq = NthSeq(N)
    /\ \A m \in s.send_mess : \E n \in 1 .. N : m.seq = NthSeq(n)
    /\ \A m1, m2 \in s.send_mess : m1.seq = m2.seq => m1 = m2
    /\ IsFiniteSet(s.send_mess)
    /\ s.send_buffer_count = Cardinality(s.send_mess)
    /\ s.send_buffer_count <= MaxWindow
    /\ ~s.reading => s.send_mess # {}

RecvQueue(s) ==
    /\ \A h \in s.recv_mess : SeqDiff(h.seq, s.recv_seq) \in 2 .. MaxWindow
    /\ \A h1, h2 \in s.recv_mess : h1.seq = h2.seq => h1 = h2
    /\ IsFiniteSet(s.recv_mess)
    /\ s.recv_buffer_count = Cardinality(s.recv_mess)

QueuesInv ==
    \A p \in Peer :
        /\ Len(log[p]) <= MaxMsg[p]
        /\ Live(p) => SendQueue(sess[p], Len(log[p])) /\ RecvQueue(sess[p])

-----------------------------------------------------------------------------
(* The inductive invariant behind InOrder and NothingForgotten: whatever    *)
(* has a sequence number, wherever it is, is the payload of that number.    *)

\* x is the n-th payload that peer p has read from its TCP socket.
Carries(p, x, n) == x.seq = NthSeq(n) /\ x.payload = log[p][n]

SenderAgrees(p, s) ==
    /\ s.send_seq = NthSeq(Len(log[p]))
    /\ \A m \in s.send_mess :
         /\ m.len = Len(m.payload)
         /\ \E n \in 1 .. Len(log[p]) : Carries(p, m, n)

ReceiverAgrees(p, s) ==
    /\ s.recv_seq = NthSeq(Len(delivered[p]))
    /\ \A h \in s.recv_mess :
         \E n \in Len(delivered[p]) + 2 .. Len(log[Other(p)]) : Carries(Other(p), h, n)

DatagramAgrees(d) ==
    /\ d.oper = "data_request" =>
         \E n \in 1 .. Len(log[Other(d.to)]) : Carries(Other(d.to), d, n)
    /\ d.oper = "data_response" /\ d.value > 0 =>
         \E n \in 1 .. Len(delivered[Other(d.to)]) :
            d.seq = NthSeq(n) /\ d.value = Len(log[d.to][n])

HistoryAgrees(p) ==
    /\ Len(log[p]) <= MaxMsg[p]
    /\ Len(delivered[Other(p)]) <= Len(log[p])
    /\ \A n \in 1 .. Len(delivered[Other(p)]) : delivered[Other(p)][n] = log[p][n]

\* Every number on the wire, in a queue or in a history agrees with the log
\* of the peer that gave it out; and nothing unwritten has left send_mess_.
Agreement ==
    /\ \A p \in Peer : HistoryAgrees(p)
    /\ \A p \in Peer : Live(p) =>
         /\ SenderAgrees(p, sess[p])
         /\ ReceiverAgrees(p, sess[p])
         /\ Remembers(p, sess[p])
    /\ \A d \in net : DatagramAgrees(d)

\* What it takes: send() on the TCP socket writes all of a payload or none of
\* it, and no sequence number comes round again within a session.
AllOrNothing == "partial" \notin WriteResults
NoReuse == \A p \in Peer : MaxMsg[p] + MaxWindow < SeqSpan
=============================================================================

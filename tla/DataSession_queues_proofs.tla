--------------------- MODULE DataSession_queues_proofs ---------------------
(***************************************************************************)
(* What TLAPS proves of the queues of a session: the counters are the      *)
(* sizes of the trees, and no session sleeps with nothing to wake it.      *)
(***************************************************************************)
EXTENDS DataSession_proofs, FiniteSetTheorems

-----------------------------------------------------------------------------
(* Sequence numbers *)

LEMMA SeqDiffFacts ==
    ASSUME NEW r \in SeqNum
    PROVE  /\ \A h \in SeqNum : SeqAdd(r, SeqDiff(h, r)) = h
           /\ \A k \in 0 .. SeqSpan - 1 : SeqDiff(SeqAdd(r, k), r) = k
           /\ \A h \in SeqNum : \A n \in 0 .. SeqDiff(h, r) :
                SeqDiff(h, SeqAdd(r, n)) = SeqDiff(h, r) - n
BY SeqSpanAssumption DEF SeqNum, SeqAdd, SeqDiff

-----------------------------------------------------------------------------
(* Steps of one peer *)

\* A step that reads nothing from TCP: peer p's session becomes s2, and its
\* queues are in order if it lives.
LEMMA QueueStep ==
    ASSUME NEW p \in Peer, NEW s2, TypeOK, QueuesInv, UNCHANGED log,
           sess' = [sess EXCEPT ![p] = s2],
           s2.life = "live" => SendQueue(s2, Len(log[p])) /\ RecvQueue(s2)
    PROVE  QueuesInv'
<1> SUFFICES ASSUME NEW r \in Peer
             PROVE  /\ Len(log'[r]) <= MaxMsg[r]
                    /\ Live(r)' => SendQueue(sess'[r], Len(log'[r])) /\ RecvQueue(sess'[r])
  BY DEF QueuesInv
<1>1. Len(log'[r]) <= MaxMsg[r]
  BY DEF QueuesInv
<1>2. ASSUME Live(r)' PROVE SendQueue(sess'[r], Len(log[r])) /\ RecvQueue(sess'[r])
  <2>1. CASE r = p
    BY <1>2, <2>1 DEF Live, TypeOK
  <2>2. CASE r # p
    BY <1>2, <2>2 DEF Live, TypeOK, QueuesInv
  <2> QED
    BY <2>1, <2>2
<1> QED
  BY <1>1, <1>2 DEF SendQueue, RecvQueue

LEMMA SameSendQueue ==
    ASSUME NEW N, NEW s, NEW s2, SendQueue(s, N),
           s2.send_seq = s.send_seq, s2.send_mess = s.send_mess,
           s2.send_buffer_count = s.send_buffer_count, s2.reading = s.reading
    PROVE  SendQueue(s2, N)
BY DEF SendQueue

LEMMA SameRecvQueue ==
    ASSUME NEW s, NEW s2, RecvQueue(s),
           s2.recv_seq = s.recv_seq, s2.recv_mess = s.recv_mess,
           s2.recv_buffer_count = s.recv_buffer_count
    PROVE  RecvQueue(s2)
BY DEF RecvQueue

LEMMA FreedQueues ==
    ASSUME NEW p \in Peer, NEW why \in Life \ {"live"}, TypeOK, QueuesInv, UNCHANGED log,
           sess' = [sess EXCEPT ![p] = Freed(why)]
    PROVE  QueuesInv'
<1>1. Freed(why).life # "live"
  BY DEF Freed
<1> QED
  BY <1>1, QueueStep

LEMMA SettleQueues ==
    ASSUME NEW p \in Peer, NEW s2, NEW out, TypeOK, QueuesInv, UNCHANGED log,
           SettleSession(p, s2, out), SendQueue(s2, Len(log[p])), RecvQueue(s2)
    PROVE  QueuesInv'
<1>1. CASE sess' = [sess EXCEPT ![p] = s2]
  BY <1>1, QueueStep
<1>2. CASE sess' = [sess EXCEPT ![p] = Freed("closing")]
  BY <1>2, FreedQueues DEF Life
<1> QED
  BY <1>1, <1>2 DEF SettleSession

-----------------------------------------------------------------------------
(* The sending side *)

LEMMA FullQueues ==
    ASSUME NEW p \in Peer, TypeOK, QueuesInv, ProcessTcpFull(p)
    PROVE  QueuesInv'
<1> DEFINE s == sess[p]
           s2 == [s EXCEPT !.reading = FALSE]
<1>1. /\ s \in Session /\ s.send_buffer_count >= window[p] /\ window[p] \in 1 .. MaxWindow
      /\ SendQueue(s, Len(log[p])) /\ RecvQueue(s)
      /\ sess' = [sess EXCEPT ![p] = s2] /\ UNCHANGED log
  BY DEF ProcessTcpFull, TypeOK, QueuesInv, Live
<1>2. /\ s2.send_seq = s.send_seq /\ s2.send_mess = s.send_mess
      /\ s2.send_buffer_count = s.send_buffer_count
      /\ s2.recv_seq = s.recv_seq /\ s2.recv_mess = s.recv_mess
      /\ s2.recv_buffer_count = s.recv_buffer_count
  BY <1>1 DEF Session
<1> HIDE DEF s2, s
<1>3. s.send_mess # {}
  BY <1>1, FS_EmptySet DEF SendQueue
<1>4. SendQueue(s2, Len(log[p]))
  BY <1>1, <1>2, <1>3 DEF SendQueue
<1>5. RecvQueue(s2)
  BY <1>1, <1>2, SameRecvQueue
<1> QED
  BY <1>1, <1>4, <1>5, QueueStep

LEMMA ReadQueues ==
    ASSUME NEW p \in Peer, TypeOK, NoReuse, QueuesInv, ProcessTcpRead(p)
    PROVE  QueuesInv'
<1> DEFINE s == sess[p]
           N == Len(log[p])
<1>1. /\ s \in Session /\ s.send_buffer_count < window[p] /\ window[p] \in 1 .. MaxWindow
      /\ SendQueue(s, Len(log[p])) /\ RecvQueue(s) /\ N < MaxMsg[p]
      /\ log \in [Peer -> Seq(Payload)]
  BY DEF ProcessTcpRead, TypeOK, QueuesInv, Live
<1>2. PICK k \in ReadSizes :
        LET payload == [i \in 1 .. k |-> LastByte(log[p]) + i]
        IN  /\ sess' = [sess EXCEPT ![p] = AddRequestMessage(s, payload)]
            /\ log' = [log EXCEPT ![p] = Append(@, payload)]
  BY DEF ProcessTcpRead
<1> DEFINE payload == [i \in 1 .. k |-> LastByte(log[p]) + i]
           m == [seq |-> SeqAdd(s.send_seq, 1), payload |-> payload,
                 len |-> Len(payload), send_retries |-> 0, armed |-> TRUE]
           s2 == AddRequestMessage(s, payload)
<1>3. sess' = [sess EXCEPT ![p] = s2] /\ log' = [log EXCEPT ![p] = Append(@, payload)]
  BY <1>2
<1>4. m.seq = SeqAdd(s.send_seq, 1)
  OBVIOUS
<1>5. /\ s2.send_seq = m.seq /\ s2.send_mess = s.send_mess \cup {m}
      /\ s2.send_buffer_count = s.send_buffer_count + 1
      /\ s2.recv_seq = s.recv_seq /\ s2.recv_mess = s.recv_mess
      /\ s2.recv_buffer_count = s.recv_buffer_count /\ s2.reading = s.reading
  <2>1. s2 = [s EXCEPT !.send_seq = m.seq, !.send_mess = @ \cup {m}, !.send_buffer_count = @ + 1]
    BY DEF AddRequestMessage
  <2> HIDE DEF s, m, payload, s2
  <2> QED
    BY <1>1, <2>1 DEF Session
<1> HIDE DEF m, s2, payload, s
<1>6. log' \in [Peer -> Seq(Payload)]
      /\ Len(log'[p]) = N + 1 /\ \A r \in Peer \ {p} : log'[r] = log[r]
  <2>1. ProcessTcpRead(p) => TypeOK'
    BY ProcessTcpReadType
  <2>2. log' \in [Peer -> Seq(Payload)]
    BY <2>1 DEF TypeOK
  <2>3. log'[p] = Append(log[p], payload) /\ \A r \in Peer \ {p} : log'[r] = log[r]
    BY <1>1, <1>3
  <2>4. Len(Append(log[p], payload)) = N + 1
    BY <1>1
  <2> QED
    BY <2>2, <2>3, <2>4
<1>7. /\ N \in Nat /\ MaxMsg[p] \in Nat /\ MaxMsg[p] + MaxWindow < SeqSpan
      /\ MaxWindow \in Nat /\ MaxWindow >= 1 /\ SeqSpan \in Nat
  BY <1>1, BoundsAssumption, WindowType, SeqSpanAssumption DEF NoReuse
<1>8. N \in 0 .. SeqSpan - 1 /\ N + 1 \in 0 .. SeqSpan - 1 /\ N + 1 < SeqSpan
  <2> HIDE DEF N
  <2> QED
    BY <1>1, <1>7
<1>9. m.seq = NthSeq(N + 1)
  BY <1>1, <1>4, <1>8, NthSeqFacts DEF SendQueue
<1>10. ASSUME NEW x \in s.send_mess PROVE x.seq # m.seq
  <2>1. PICK n \in 1 .. N : x.seq = NthSeq(n)
    BY <1>1 DEF SendQueue
  <2>2. n \in 0 .. SeqSpan - 1 /\ n # N + 1
    <3> HIDE DEF N
    <3> QED
      BY <1>7, <1>8
  <2> QED
    BY <1>8, <1>9, <2>1, <2>2, NthSeqFacts
<1>11. SendQueue(s2, N + 1)
  <2>1. s2.send_seq = NthSeq(N + 1)
    BY <1>5, <1>9
  <2>2. ASSUME NEW x \in s2.send_mess
        PROVE  \E n \in 1 .. N + 1 : x.seq = NthSeq(n)
    <3>1. CASE x = m
      BY <3>1, <1>7, <1>9
    <3>2. CASE x \in s.send_mess
      <4>1. PICK n \in 1 .. N : x.seq = NthSeq(n)
        BY <1>1, <3>2 DEF SendQueue
      <4>2. n \in 1 .. N + 1
        BY <1>7
      <4> QED
        BY <4>1, <4>2
    <3> QED
      BY <1>5, <3>1, <3>2
  <2>3. \A x, y \in s2.send_mess : x.seq = y.seq => x = y
    BY <1>1, <1>5, <1>10 DEF SendQueue
  <2>4. m \notin s.send_mess
    BY <1>10
  <2>5. /\ IsFiniteSet(s2.send_mess)
        /\ Cardinality(s2.send_mess) = Cardinality(s.send_mess) + 1
    <3>1. IsFiniteSet(s.send_mess) /\ s2.send_mess = s.send_mess \cup {m}
      BY <1>1, <1>5 DEF SendQueue
    <3> QED
      BY <2>4, <3>1, FS_AddElement
  <2>6. /\ s2.send_buffer_count = Cardinality(s2.send_mess)
        /\ s2.send_buffer_count <= MaxWindow
    <3>1. s.send_buffer_count = Cardinality(s.send_mess) /\ s.send_buffer_count \in Int
      BY <1>1 DEF SendQueue, Session
    <3>2. s.send_buffer_count + 1 <= MaxWindow
      BY <1>1, <1>7, <3>1
    <3> QED
      BY <1>5, <2>5, <3>1, <3>2
  <2>7. s2.send_mess # {}
    BY <1>5
  <2> QED
    BY <2>1, <2>2, <2>3, <2>5, <2>6, <2>7 DEF SendQueue
<1>12. RecvQueue(s2)
  BY <1>1, <1>5, SameRecvQueue
<1>13. ASSUME NEW r \in Peer
       PROVE  /\ Len(log'[r]) <= MaxMsg[r]
              /\ Live(r)' => SendQueue(sess'[r], Len(log'[r])) /\ RecvQueue(sess'[r])
  <2>1. CASE r = p
    <3>1. sess'[r] = s2 /\ Len(log'[r]) = N + 1
      BY <1>3, <1>6, <2>1 DEF TypeOK
    <3>2. N + 1 <= MaxMsg[p]
      BY <1>1, <1>7
    <3> QED
      BY <1>11, <1>12, <2>1, <3>1, <3>2
  <2>2. CASE r # p
    <3>1. sess'[r] = sess[r] /\ log'[r] = log[r]
      BY <1>3, <1>6, <2>2 DEF TypeOK
    <3> QED
      BY <3>1 DEF QueuesInv, Live
  <2> QED
    BY <2>1, <2>2
<1> QED
  BY <1>13 DEF QueuesInv, SendQueue, RecvQueue, NthSeq

\* A queued message is replaced by one of the same number.
LEMMA ReplaceQueue ==
    ASSUME NEW s, NEW s2, NEW N, NEW m \in s.send_mess, NEW m2, SendQueue(s, N),
           s2.send_seq = s.send_seq, s2.send_mess = (s.send_mess \ {m}) \cup {m2},
           s2.send_buffer_count = s.send_buffer_count, m2.seq = m.seq
    PROVE  SendQueue(s2, N)
<1> DEFINE rest == s.send_mess \ {m}
<1>1. m2 \notin rest
  BY DEF SendQueue
<1>2. IsFiniteSet(rest) /\ Cardinality(rest) = Cardinality(s.send_mess) - 1
  BY FS_RemoveElement DEF SendQueue
<1>3. IsFiniteSet(rest \cup {m2}) /\ Cardinality(rest \cup {m2}) = Cardinality(rest) + 1
  BY <1>1, <1>2, FS_AddElement
<1>4. Cardinality(s.send_mess) \in Nat
  BY FS_CardinalityType DEF SendQueue
<1>5. Cardinality(s2.send_mess) = Cardinality(s.send_mess)
  <2> HIDE DEF rest
  <2>1. Cardinality(rest \cup {m2}) = Cardinality(s.send_mess)
    BY <1>2, <1>3, <1>4
  <2> QED
    BY <2>1 DEF rest
<1>6. s2.send_mess # {}
  OBVIOUS
<1>7. \A x, y \in s2.send_mess : x.seq = y.seq => x = y
  BY DEF SendQueue
<1>8. \A x \in s2.send_mess : \E n \in 1 .. N : x.seq = NthSeq(n)
  BY DEF SendQueue
<1> QED
  BY <1>3, <1>5, <1>6, <1>7, <1>8 DEF SendQueue

LEMMA TimeoutQueues ==
    ASSUME NEW p \in Peer, TypeOK, QueuesInv, RequestTimeout(p)
    PROVE  QueuesInv'
<1> DEFINE s == sess[p]
<1>1. s \in Session /\ SendQueue(s, Len(log[p])) /\ RecvQueue(s) /\ UNCHANGED log
  BY DEF TypeOK, QueuesInv, RequestTimeout, Live
<1>2. PICK m \in s.send_mess :
        LET again == m.send_retries <= window[p]
            m2 == [m EXCEPT !.send_retries = @ + 1, !.armed = again]
            s2 == [s EXCEPT !.send_mess = (@ \ {m}) \cup {m2}]
        IN  IF again
            THEN /\ sess' = [sess EXCEPT ![p] = s2]
                 /\ net' = net \cup Transmission(p, m)
            ELSE SettleSession(p, [s2 EXCEPT !.status = 3], {})
  BY DEF RequestTimeout
<1> DEFINE again == m.send_retries <= window[p]
           m2 == [m EXCEPT !.send_retries = @ + 1, !.armed = again]
           s2 == [s EXCEPT !.send_mess = (@ \ {m}) \cup {m2}]
           s3 == [s2 EXCEPT !.status = 3]
<1>3. m \in Message
  BY <1>1 DEF Session
<1>4. m2.seq = m.seq
  <2> HIDE DEF again
  <2> QED
    BY <1>3 DEF Message
<1>5. \A x \in {s2, s3} :
        /\ x.send_seq = s.send_seq /\ x.send_mess = (s.send_mess \ {m}) \cup {m2}
        /\ x.send_buffer_count = s.send_buffer_count
        /\ x.recv_seq = s.recv_seq /\ x.recv_mess = s.recv_mess
        /\ x.recv_buffer_count = s.recv_buffer_count
  <2> HIDE DEF m2, s
  <2> QED
    BY <1>1 DEF Session
<1>6. sess' = [sess EXCEPT ![p] = s2] \/ SettleSession(p, s3, {})
  BY <1>2
<1> HIDE DEF m2, s2, s3, s
<1>7. \A x \in {s2, s3} : SendQueue(x, Len(log[p])) /\ RecvQueue(x)
  BY <1>1, <1>4, <1>5, ReplaceQueue, SameRecvQueue
<1> QED
  BY <1>1, <1>6, <1>7, QueueStep, SettleQueues

LEMMA ResponseQueues ==
    ASSUME NEW p \in Peer, NEW d \in net, TypeOK, QueuesInv, HandleDataResponse(p, d)
    PROVE  QueuesInv'
<1> DEFINE s == sess[p]
           N == Len(log[p])
<1>1. s \in Session /\ SendQueue(s, N) /\ RecvQueue(s) /\ UNCHANGED log
  BY DEF TypeOK, QueuesInv, HandleDataResponse, Live
<1>2. PICK m \in s.send_mess :
        \/ SettleSession(p, DeleteRequestMessage(s, m), {})
        \/ LET m2 == IF d.value > 0 THEN Shrink(m, d.value) ELSE m
           IN SettleSession(p, [s EXCEPT !.send_mess = (@ \ {m}) \cup {m2}], {})
        \/ DeleteSession(p, "error")
  BY DEF HandleDataResponse
<1>3. CASE SettleSession(p, DeleteRequestMessage(s, m), {})
  <2> DEFINE s2 == DeleteRequestMessage(s, m)
  <2>1. /\ s2.send_seq = s.send_seq /\ s2.send_mess = s.send_mess \ {m}
        /\ s2.send_buffer_count = s.send_buffer_count - 1 /\ s2.reading = TRUE
        /\ s2.recv_seq = s.recv_seq /\ s2.recv_mess = s.recv_mess
        /\ s2.recv_buffer_count = s.recv_buffer_count
    <3> HIDE DEF s
    <3> QED
      BY <1>1 DEF DeleteRequestMessage, Session
  <2>2. SettleSession(p, s2, {})
    BY <1>3
  <2> HIDE DEF s2, s, N
  <2>3. /\ IsFiniteSet(s2.send_mess)
        /\ Cardinality(s2.send_mess) = Cardinality(s.send_mess) - 1
    <3>1. IsFiniteSet(s.send_mess) /\ s2.send_mess = s.send_mess \ {m} /\ m \in s.send_mess
      BY <1>1, <2>1 DEF SendQueue, s
    <3> QED
      BY <3>1, FS_RemoveElement
  <2>4. s2.send_buffer_count <= MaxWindow
    BY <1>1, <2>1, WindowType DEF SendQueue, Session
  <2>5. SendQueue(s2, N)
    BY <1>1, <2>1, <2>3, <2>4 DEF SendQueue
  <2>6. RecvQueue(s2)
    BY <1>1, <2>1, SameRecvQueue
  <2> QED
    BY <1>1, <2>2, <2>5, <2>6, SettleQueues DEF N
<1>4. CASE LET m2 == IF d.value > 0 THEN Shrink(m, d.value) ELSE m
           IN SettleSession(p, [s EXCEPT !.send_mess = (@ \ {m}) \cup {m2}], {})
  <2> DEFINE m2 == IF d.value > 0 THEN Shrink(m, d.value) ELSE m
             s2 == [s EXCEPT !.send_mess = (@ \ {m}) \cup {m2}]
  <2>1. m2.seq = m.seq
    <3>1. m \in Message
      BY <1>1 DEF Session
    <3>2. Shrink(m, d.value).seq = m.seq
      BY <3>1 DEF Shrink, Message
    <3> QED
      BY <3>2
  <2>2. SettleSession(p, s2, {})
    BY <1>4
  <2> HIDE DEF m2
  <2>3. /\ s2.send_seq = s.send_seq /\ s2.send_mess = (s.send_mess \ {m}) \cup {m2}
        /\ s2.send_buffer_count = s.send_buffer_count
        /\ s2.recv_seq = s.recv_seq /\ s2.recv_mess = s.recv_mess
        /\ s2.recv_buffer_count = s.recv_buffer_count
    <3> HIDE DEF s
    <3> QED
      BY <1>1 DEF Session
  <2> HIDE DEF s2, s
  <2>4. SendQueue(s2, N)
    BY <1>1, <2>1, <2>3, ReplaceQueue
  <2>5. RecvQueue(s2)
    BY <1>1, <2>3, SameRecvQueue
  <2> QED
    BY <1>1, <2>2, <2>4, <2>5, SettleQueues
<1>5. CASE DeleteSession(p, "error")
  BY <1>1, <1>5, FreedQueues DEF DeleteSession, Life
<1> QED
  BY <1>2, <1>3, <1>4, <1>5

-----------------------------------------------------------------------------
(* The receiving side *)

LEMMA AheadQueues ==
    ASSUME NEW p \in Peer, NEW d \in net, TypeOK, QueuesInv, HandleDataRequestAhead(p, d)
    PROVE  QueuesInv'
<1> DEFINE s == sess[p]
           new == [seq |-> d.seq, payload |-> d.payload]
           Keep(v) == (\A h \in s.recv_mess : h.seq # d.seq) /\ s.recv_buffer_count < v
           HeldThen(v) == IF Keep(v) THEN s.recv_mess \cup {new} ELSE s.recv_mess
           AskedFor(v, w) == Asked(s.recv_seq, HeldThen(v), d.seq, s.retry_seq, w)
<1> DEFINE Ahead(v, w) ==
        sess' = [sess EXCEPT ![p] =
                   [s EXCEPT !.recv_mess = HeldThen(v),
                             !.recv_buffer_count = IF Keep(v) THEN @ + 1 ELSE @,
                             !.retry_seq = RetrySeq(s.recv_seq, AskedFor(v, w), @)]]
<1>a. PICK v \in {window[p]} \cup Settable : \E w \in {v} \cup Settable : Ahead(v, w)
  BY DEF HandleDataRequestAhead
<1>1. PICK w \in {v} \cup Settable : Ahead(v, w)
  BY <1>a
<1> DEFINE held == HeldThen(v)
           count == IF Keep(v) THEN s.recv_buffer_count + 1 ELSE s.recv_buffer_count
           retry == RetrySeq(s.recv_seq, AskedFor(v, w), s.retry_seq)
           s2 == [s EXCEPT !.recv_mess = held, !.recv_buffer_count = count, !.retry_seq = retry]
<1>2. /\ s \in Session /\ SendQueue(s, Len(log[p])) /\ RecvQueue(s) /\ UNCHANGED log
      /\ SeqDiff(d.seq, s.recv_seq) \in 2 .. window[p] /\ window[p] \in 1 .. MaxWindow
  BY DEF TypeOK, QueuesInv, HandleDataRequestAhead, Live
<1>3. sess' = [sess EXCEPT ![p] = s2]
  BY <1>1
<1>4. new.seq = d.seq /\ SeqDiff(new.seq, s.recv_seq) \in 2 .. MaxWindow
  BY <1>2, WindowType
<1>5. \/ held = s.recv_mess /\ count = s.recv_buffer_count
      \/ /\ held = s.recv_mess \cup {new} /\ count = s.recv_buffer_count + 1
         /\ \A h \in s.recv_mess : h.seq # new.seq
  BY <1>4
<1> HIDE DEF held, count, retry, new, Keep, HeldThen, AskedFor, Ahead
<1>6. /\ s2.send_seq = s.send_seq /\ s2.send_mess = s.send_mess
      /\ s2.send_buffer_count = s.send_buffer_count /\ s2.reading = s.reading
      /\ s2.recv_seq = s.recv_seq /\ s2.recv_mess = held /\ s2.recv_buffer_count = count
  <2> HIDE DEF s
  <2> QED
    BY <1>2 DEF Session
<1> HIDE DEF s2, s
<1>7. SendQueue(s2, Len(log[p]))
  BY <1>2, <1>6, SameSendQueue
<1>8. CASE held = s.recv_mess /\ count = s.recv_buffer_count
  <2>1. RecvQueue(s2)
    BY <1>2, <1>6, <1>8, SameRecvQueue
  <2> QED
    BY <1>2, <1>3, <1>7, <2>1, QueueStep
<1>9. CASE /\ held = s.recv_mess \cup {new} /\ count = s.recv_buffer_count + 1
           /\ \A h \in s.recv_mess : h.seq # new.seq
  <2>1. new \notin s.recv_mess /\ IsFiniteSet(s.recv_mess)
    BY <1>2, <1>9 DEF RecvQueue
  <2>2. /\ IsFiniteSet(s.recv_mess \cup {new})
        /\ Cardinality(s.recv_mess \cup {new}) = Cardinality(s.recv_mess) + 1
    BY <2>1, FS_AddElement
  <2>3. RecvQueue(s2)
    BY <1>2, <1>4, <1>6, <1>9, <2>2 DEF RecvQueue
  <2> QED
    BY <1>2, <1>3, <1>7, <2>3, QueueStep
<1> QED
  BY <1>5, <1>8, <1>9

\* The write loop has written n messages and fetched k: the held ones that are
\* left are still ahead of the next, and are as many as are counted.
LEMMA AdvanceQueue ==
    ASSUME NEW s \in Session, NEW s2, NEW n \in 0 .. MaxWindow, NEW k \in 1 .. MaxWindow,
           RecvQueue(s), \A i \in 1 .. k : Available(s, i),
           k = n + 1 \/ (k = n /\ ~Available(s, n + 1)),
           s2.recv_seq = SeqAdd(s.recv_seq, n),
           s2.recv_mess = s.recv_mess \ Fetched(s, k),
           s2.recv_buffer_count = s.recv_buffer_count - (k - 1)
    PROVE  RecvQueue(s2)
<1> DEFINE r == s.recv_seq
           D(h) == SeqDiff(h.seq, r)
<1>1. /\ r \in SeqNum /\ \A h \in s.recv_mess : h.seq \in SeqNum
      /\ s.recv_buffer_count \in Int
  BY DEF Session, Held
<1>2. /\ MaxWindow \in Nat /\ MaxWindow < SeqSpan /\ SeqSpan \in Nat
      /\ n \in Nat /\ k \in Nat /\ n <= MaxWindow /\ k <= MaxWindow /\ k >= 1
  BY WindowType, SeqSpanAssumption
<1>3. ASSUME NEW h \in s.recv_mess
      PROVE  D(h) \in 2 .. MaxWindow /\ h.seq = SeqAdd(r, D(h))
  BY <1>1, SeqDiffFacts DEF RecvQueue
<1>4. ASSUME NEW h \in s.recv_mess
      PROVE  h \in Fetched(s, k) <=> D(h) \in 2 .. k
  <2>1. ASSUME NEW i \in 2 .. k, h.seq = SeqAdd(r, i) PROVE D(h) = i
    <3>1. i \in 0 .. SeqSpan - 1
      BY <1>2
    <3> QED
      BY <1>1, <2>1, <3>1, SeqDiffFacts
  <2> QED
    BY <1>3, <2>1 DEF Fetched
<1>5. ASSUME NEW h \in s2.recv_mess
      PROVE  SeqDiff(h.seq, s2.recv_seq) \in 2 .. MaxWindow
  <2>1. h \in s.recv_mess /\ D(h) \notin 2 .. k
    BY <1>4
  <2>2. D(h) \in 2 .. MaxWindow /\ h.seq = SeqAdd(r, D(h)) /\ h.seq \in SeqNum
    BY <1>1, <1>3, <2>1
  <2>3. D(h) # n + 1
    <3>1. CASE k = n + 1
      BY <1>2, <2>1, <2>2, <3>1
    <3>2. CASE ~Available(s, n + 1)
      BY <2>1, <2>2, <3>2 DEF Available
    <3> QED
      BY <3>1, <3>2
  <2>4. D(h) >= n + 2
    <3> HIDE DEF D
    <3> QED
      BY <1>2, <2>1, <2>2, <2>3
  <2>5. n \in 0 .. D(h)
    <3> HIDE DEF D
    <3> QED
      BY <1>2, <2>2, <2>4
  <2>6. SeqDiff(h.seq, SeqAdd(r, n)) = D(h) - n
    BY <1>1, <2>2, <2>5, SeqDiffFacts
  <2>7. D(h) - n \in 2 .. MaxWindow
    <3> HIDE DEF D
    <3> QED
      BY <1>2, <2>2, <2>4
  <2> QED
    BY <2>6, <2>7
<1>6. IsFiniteSet(s.recv_mess) /\ Fetched(s, k) \in SUBSET s.recv_mess
  BY DEF RecvQueue, Fetched
<1>7. IsFiniteSet(Fetched(s, k)) /\ Cardinality(Fetched(s, k)) = k - 1
  <2> DEFINE f == [h \in Fetched(s, k) |-> D(h)]
  <2>1. f \in [Fetched(s, k) -> 2 .. k]
    BY <1>4, <1>6
  <2>2. ASSUME NEW g \in Fetched(s, k), NEW h \in Fetched(s, k), f[g] = f[h]
        PROVE  g = h
    <3>1. g \in s.recv_mess /\ h \in s.recv_mess /\ D(g) = D(h)
      BY <1>6, <2>2
    <3>2. g.seq = h.seq
      BY <1>3, <3>1
    <3> QED
      BY <3>1, <3>2 DEF RecvQueue
  <2>3. ASSUME NEW i \in 2 .. k
        PROVE  \E h \in Fetched(s, k) : f[h] = i
    <3>1. i \in 1 .. k /\ i # 1 /\ i \in 0 .. SeqSpan - 1
      BY <1>2
    <3>2. PICK h \in s.recv_mess : h.seq = SeqAdd(r, i)
      BY <3>1 DEF Available
    <3>3. D(h) = i
      BY <1>1, <3>1, <3>2, SeqDiffFacts
    <3>4. h \in Fetched(s, k)
      BY <1>4, <3>3
    <3> QED
      BY <3>3, <3>4
  <2>4. f \in Bijection(Fetched(s, k), 2 .. k)
    <3> HIDE DEF f
    <3> QED
      BY <2>1, <2>2, <2>3 DEF Bijection, Injection, Surjection, IsInjective
  <2>5. ExistsBijection(Fetched(s, k), 2 .. k)
    BY <2>4 DEF ExistsBijection
  <2>6. IsFiniteSet(Fetched(s, k))
    BY <1>6, FS_Subset
  <2>7. Cardinality(2 .. k) = Cardinality(Fetched(s, k))
    BY <2>5, <2>6, FS_Bijection
  <2>8. 2 \in Int /\ k \in Int
    BY <1>2
  <2>9. Cardinality(2 .. k) = IF 2 > k THEN 0 ELSE k - 2 + 1
    BY <2>8, FS_Interval
  <2> QED
    BY <1>2, <2>6, <2>7, <2>9
<1>8. /\ IsFiniteSet(s2.recv_mess)
      /\ Cardinality(s2.recv_mess) = Cardinality(s.recv_mess) - (k - 1)
  <2>1. /\ IsFiniteSet(s.recv_mess \ Fetched(s, k))
        /\ Cardinality(s.recv_mess \ Fetched(s, k))
             = Cardinality(s.recv_mess) - Cardinality(s.recv_mess \cap Fetched(s, k))
    BY <1>6, FS_Difference
  <2>2. s.recv_mess \cap Fetched(s, k) = Fetched(s, k)
    BY <1>6
  <2> QED
    BY <1>7, <2>1, <2>2
<1>9. \A g, h \in s2.recv_mess : g.seq = h.seq => g = h
  BY DEF RecvQueue
<1>10. s2.recv_buffer_count = Cardinality(s2.recv_mess)
  BY <1>1, <1>8 DEF RecvQueue
<1> QED
  BY <1>5, <1>8, <1>9, <1>10 DEF RecvQueue

\* The fields of the session that the loop leaves.
LEMMA AdvanceQueueFields ==
    ASSUME NEW s \in Session, NEW n, NEW k, NEW x \in {Advance(s, n, k), [Advance(s, n, k) EXCEPT !.status = 3]}
    PROVE  /\ x.send_seq = s.send_seq /\ x.send_mess = s.send_mess
           /\ x.send_buffer_count = s.send_buffer_count /\ x.reading = s.reading
           /\ x.recv_seq = SeqAdd(s.recv_seq, n)
           /\ x.recv_mess = s.recv_mess \ Fetched(s, k)
           /\ x.recv_buffer_count = s.recv_buffer_count - (k - 1)
BY DEF Advance, Session

LEMMA NextQueues ==
    ASSUME NEW p \in Peer, NEW d \in net, TypeOK, QueuesInv, HandleDataRequestNext(p, d)
    PROVE  QueuesInv'
<1> DEFINE s == sess[p]
<1>1. s \in Session /\ SendQueue(s, Len(log[p])) /\ RecvQueue(s) /\ UNCHANGED log
  BY DEF TypeOK, QueuesInv, HandleDataRequestNext, IsNext, Live
<1>2. PICK n \in 1 .. MaxWindow :
        /\ \A i \in 1 .. n : Available(s, i)
        /\ ~Available(s, n + 1)
        /\ sess' = [sess EXCEPT ![p] = Advance(s, n, n)]
  BY DEF HandleDataRequestNext
<1> DEFINE s2 == Advance(s, n, n)
<1>3. n \in 0 .. MaxWindow
  BY WindowType
<1>4. /\ s2.send_seq = s.send_seq /\ s2.send_mess = s.send_mess
      /\ s2.send_buffer_count = s.send_buffer_count /\ s2.reading = s.reading
      /\ s2.recv_seq = SeqAdd(s.recv_seq, n)
      /\ s2.recv_mess = s.recv_mess \ Fetched(s, n)
      /\ s2.recv_buffer_count = s.recv_buffer_count - (n - 1)
  BY <1>1, AdvanceQueueFields
<1>5. sess' = [sess EXCEPT ![p] = s2]
  BY <1>2
<1> HIDE DEF s2, s
<1>6. RecvQueue(s2)
  BY <1>1, <1>2, <1>3, <1>4, AdvanceQueue
<1>7. SendQueue(s2, Len(log[p]))
  BY <1>1, <1>4, SameSendQueue
<1> QED
  BY <1>1, <1>5, <1>6, <1>7, QueueStep

LEMMA StuckQueues ==
    ASSUME NEW p \in Peer, NEW d \in net, TypeOK, QueuesInv, HandleDataRequestStuck(p, d)
    PROVE  QueuesInv'
<1> DEFINE s == sess[p]
<1>1. s \in Session /\ SendQueue(s, Len(log[p])) /\ RecvQueue(s) /\ UNCHANGED log
  BY DEF TypeOK, QueuesInv, HandleDataRequestStuck, IsNext, Live
<1>2. PICK n \in 0 .. MaxWindow - 1 :
        /\ \A i \in 1 .. n + 1 : Available(s, i)
        /\ \/ sess' = [sess EXCEPT ![p] = Advance(s, n, n + 1)]
           \/ \E out : SettleSession(p, [Advance(s, n, n + 1) EXCEPT !.status = 3], out)
  BY DEF HandleDataRequestStuck
<1> DEFINE s2 == Advance(s, n, n + 1)
           s3 == [s2 EXCEPT !.status = 3]
<1>3. n \in 0 .. MaxWindow /\ n + 1 \in 1 .. MaxWindow
  BY WindowType
<1>4. \A x \in {s2, s3} :
        /\ x.send_seq = s.send_seq /\ x.send_mess = s.send_mess
        /\ x.send_buffer_count = s.send_buffer_count /\ x.reading = s.reading
        /\ x.recv_seq = SeqAdd(s.recv_seq, n)
        /\ x.recv_mess = s.recv_mess \ Fetched(s, n + 1)
        /\ x.recv_buffer_count = s.recv_buffer_count - ((n + 1) - 1)
  BY <1>1, AdvanceQueueFields
<1>5. \/ sess' = [sess EXCEPT ![p] = s2]
      \/ \E out : SettleSession(p, s3, out)
  BY <1>2
<1> HIDE DEF s2, s3, s
<1>6. \A x \in {s2, s3} : RecvQueue(x)
  BY <1>1, <1>2, <1>3, <1>4, AdvanceQueue
<1>7. \A x \in {s2, s3} : SendQueue(x, Len(log[p]))
  BY <1>1, <1>4, SameSendQueue
<1> QED
  BY <1>1, <1>5, <1>6, <1>7, QueueStep, SettleQueues

-----------------------------------------------------------------------------
LEMMA QueuesInit == Init => QueuesInv
<1> SUFFICES ASSUME Init, NEW p \in Peer
             PROVE  /\ Len(log[p]) <= MaxMsg[p]
                    /\ SendQueue(sess[p], Len(log[p])) /\ RecvQueue(sess[p])
  BY DEF QueuesInv
<1>1. Len(log[p]) = 0 /\ sess[p] = Established /\ MaxMsg[p] \in Nat
  BY BoundsAssumption DEF Init
<1>2. NthSeq(0) = StartSeq
  BY SeqSpanAssumption, StartSeqAssumption DEF NthSeq, SeqAdd, SeqNum
<1>3. /\ Established.send_seq = StartSeq /\ Established.send_mess = {}
      /\ Established.send_buffer_count = 0 /\ Established.reading = TRUE
      /\ Established.recv_mess = {} /\ Established.recv_buffer_count = 0
  BY DEF Established
<1>4. SendQueue(Established, 0)
  BY <1>2, <1>3, WindowType, FS_EmptySet DEF SendQueue
<1>5. RecvQueue(Established)
  BY <1>3, FS_EmptySet DEF RecvQueue
<1> QED
  BY <1>1, <1>4, <1>5

LEMMA QueuesStep ==
    ASSUME NoReuse, TypeOK, QueuesInv, [Next]_vars
    PROVE  QueuesInv'
<1>1. CASE UNCHANGED <<sess, log>>
  BY <1>1 DEF QueuesInv, Live
<1>2. ASSUME NEW p \in Peer, ProcessTcpFull(p) PROVE QueuesInv'
  BY <1>2, FullQueues
<1>3. ASSUME NEW p \in Peer, ProcessTcpRead(p) PROVE QueuesInv'
  BY <1>3, ReadQueues
<1>4. ASSUME NEW p \in Peer, ProcessTcpEof(p) PROVE QueuesInv'
  BY <1>4, FreedQueues DEF ProcessTcpEof, DeleteSession, Life
<1>5. ASSUME NEW p \in Peer, RequestTimeout(p) PROVE QueuesInv'
  BY <1>5, TimeoutQueues
<1>6. ASSUME NEW p \in Peer, SessionTimeout(p) PROVE QueuesInv'
  BY <1>6, FreedQueues DEF SessionTimeout, DeleteSession, Life
<1>7. ASSUME NEW p \in Peer, SetContextOption(p) PROVE QueuesInv'
  BY <1>1, <1>7 DEF SetContextOption
<1>8. ASSUME NEW p \in Peer, NEW d \in net, ProcessUdp(p, d) PROVE QueuesInv'
  <2>1. CASE HandleDataRequestOld(p, d)
    BY <1>1, <2>1 DEF HandleDataRequestOld
  <2>2. CASE HandleDataRequestAhead(p, d)
    BY <2>2, AheadQueues
  <2>3. CASE HandleDataRequestNext(p, d)
    BY <2>3, NextQueues
  <2>4. CASE HandleDataRequestStuck(p, d)
    BY <2>4, StuckQueues
  <2>5. CASE HandleDataRequestFreed(p, d)
    <3>1. sess' = [sess EXCEPT ![p] = Freed("corrupt")] /\ UNCHANGED log
      BY <2>5 DEF HandleDataRequestFreed
    <3> QED
      BY <3>1, FreedQueues DEF Life
  <2>6. CASE HandleDataResponse(p, d)
    BY <2>6, ResponseQueues
  <2>7. CASE HandleRetransRequest(p, d)
    BY <1>1, <2>7 DEF HandleRetransRequest
  <2>8. CASE HandleCloseRequest(p, d)
    BY <2>8, FreedQueues DEF HandleCloseRequest, Life
  <2> QED
    BY <1>8, <2>1, <2>2, <2>3, <2>4, <2>5, <2>6, <2>7, <2>8 DEF ProcessUdp
<1>9. CASE UNCHANGED vars
  BY <1>1, <1>9 DEF vars
<1> QED
  BY <1>2, <1>3, <1>4, <1>5, <1>6, <1>7, <1>8, <1>9 DEF Next

\* The queues of a session stay in order for every window, whatever the TCP
\* sockets do and however set_context_option changes the window.
THEOREM QueuesInvariant ==
    ASSUME NoReuse
    PROVE  Spec => []QueuesInv
<1>1. TypeOK /\ QueuesInv /\ [Next]_vars => QueuesInv'
  BY QueuesStep
<1> QED
  BY <1>1, QueuesInit, TypeCorrect, PTL DEF Spec

\* send_buffer_count_ and recv_buffer_count_ are the sizes of send_mess_ and
\* recv_mess_, no number is queued twice, and what is held is ahead of the next.
THEOREM CountersAgree ==
    ASSUME NoReuse
    PROVE  Spec => []QueuesAgree
<1>1. QueuesInv => QueuesAgree
  BY DEF QueuesInv, QueuesAgree, SendQueue, RecvQueue
<1> QED
  BY <1>1, QueuesInvariant, PTL

\* A session that t2u_session_process_tcp has stopped reading has a message
\* queued, whose confirmation or timeout will come.
THEOREM NoSessionSleeps ==
    ASSUME NoReuse
    PROVE  Spec => []NoLostWakeup
<1>1. QueuesInv => NoLostWakeup
  BY DEF QueuesInv, NoLostWakeup, SendQueue
<1> QED
  BY <1>1, QueuesInvariant, PTL
=============================================================================

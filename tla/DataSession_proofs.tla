------------------------ MODULE DataSession_proofs ------------------------
(***************************************************************************)
(* What TLAPS proves of DataSession for every window, every sequence space *)
(* and every number of messages.                                           *)
(***************************************************************************)
EXTENDS DataSession, TLAPS

-----------------------------------------------------------------------------
(* Sequence numbers *)

\* Adding up to a whole turn keeps a number a uint32_t.
LEMMA SeqAddType ==
    ASSUME NEW s \in SeqNum, NEW k \in 0 .. SeqSpan
    PROVE  SeqAdd(s, k) \in SeqNum
BY SeqSpanAssumption DEF SeqAdd, SeqNum

\* So does subtracting.
LEMMA SeqDiffType ==
    ASSUME NEW a \in SeqNum, NEW b \in SeqNum
    PROVE  SeqDiff(a, b) \in SeqNum
BY SeqSpanAssumption DEF SeqDiff, SeqNum

\* The largest window is at least one message and at most half the sequence space.
LEMMA WindowType == MaxWindow \in Nat /\ MaxWindow >= 1 /\ 2 * MaxWindow <= SeqSpan
BY WindowAssumption

\* set_context_option clamps what it is given.
LEMMA SettableType == Settable \subseteq 1 .. MaxWindow
BY WindowAssumption DEF Settable

LEMMA OtherType ==
    ASSUME NEW p \in Peer
    PROVE  Other(p) \in Peer /\ Other(p) # p /\ Other(Other(p)) = p
BY DEF Other, Peer

-----------------------------------------------------------------------------
(* Type correctness *)

LEMMA FreedType ==
    ASSUME NEW why \in Life
    PROVE  Freed(why) \in Session
BY SeqSpanAssumption DEF Freed, Session, SeqNum

LEMMA DatagramTypes ==
    ASSUME NEW p \in Peer, NEW seq \in SeqNum
    PROVE  /\ \A payload \in Payload : DataRequest(p, seq, payload) \in Datagram
           /\ \A value \in Int : DataResponse(p, seq, value) \in Datagram
           /\ RetransRequest(p, seq) \in Datagram
           /\ CloseRequest(p) \in Datagram
<1>1. 0 \in SeqNum
  BY SeqSpanAssumption DEF SeqNum
<1>2. <<>> \in Seq(Nat)
  OBVIOUS
<1>3. \A payload \in Payload : DataRequest(p, seq, payload) \in Datagram
  BY DEF DataRequest, Datagram, Payload
<1>4. \A value \in Int : DataResponse(p, seq, value) \in Datagram
  BY <1>2 DEF DataResponse, Datagram
<1>5. RetransRequest(p, seq) \in Datagram
  BY <1>2 DEF RetransRequest, Datagram
<1>6. CloseRequest(p) \in Datagram
  BY <1>1, <1>2 DEF CloseRequest, Datagram
<1> QED
  BY <1>3, <1>4, <1>5, <1>6

\* Deleting a session, now or if it is closing and idle, keeps the types.
LEMMA DeleteSessionType ==
    ASSUME NEW p \in Peer, NEW why \in Life, TypeOK, DeleteSession(p, why)
    PROVE  sess' \in [Peer -> Session] /\ net' \subseteq Datagram
<1>1. CloseRequest(Other(p)) \in Datagram
  BY OtherType, DatagramTypes, StartSeqAssumption
<1> QED
  BY <1>1, FreedType DEF DeleteSession, TypeOK

LEMMA SettleSessionType ==
    ASSUME NEW p \in Peer, NEW s \in Session, NEW out \in SUBSET Datagram,
           TypeOK, SettleSession(p, s, out)
    PROVE  sess' \in [Peer -> Session] /\ net' \subseteq Datagram
<1>1. CloseRequest(Other(p)) \in Datagram
  BY OtherType, DatagramTypes, StartSeqAssumption
<1>2. Freed("closing") \in Session
  BY FreedType DEF Life
<1> QED
  BY <1>1, <1>2 DEF SettleSession, TypeOK

LEMMA TransmissionType ==
    ASSUME NEW p \in Peer, NEW m \in Message
    PROVE  Transmission(p, m) \in SUBSET Datagram
<1>1. m.len > 0 => m.payload \in Payload
  BY DEF Message, Payload
<1>2. m.seq \in SeqNum
  BY DEF Message
<1> QED
  BY <1>1, <1>2, DatagramTypes, OtherType DEF Transmission

\* Confirming, shrinking and numbering a message.
LEMMA MessageUpdates ==
    ASSUME NEW s \in Session, NEW m \in s.send_mess
    PROVE  /\ DeleteRequestMessage(s, m) \in Session
           /\ \A m2 \in Message : [s EXCEPT !.send_mess = (@ \ {m}) \cup {m2}] \in Session
           /\ \A v \in Nat \ {0} : Shrink(m, v) \in Message
<1>1. m \in Message
  BY DEF Session
<1>2. DeleteRequestMessage(s, m) \in Session
  <2>1. s.send_buffer_count - 1 \in Int
    BY DEF Session
  <2> QED
    BY <2>1 DEF DeleteRequestMessage, Session
<1>3. \A m2 \in Message : [s EXCEPT !.send_mess = (@ \ {m}) \cup {m2}] \in Session
  BY DEF Session
<1>4. ASSUME NEW v \in Nat \ {0}
      PROVE  Shrink(m, v) \in Message
  <2> DEFINE k == IF m.len > v THEN m.len - v ELSE 0
             rest == [i \in 1 .. k |-> IF i <= SizeofInt THEN m.payload[v + i]
                                                       ELSE m.payload[i]]
  <2>1. m.len \in Int /\ m.payload \in Seq(Nat) /\ m.len <= Len(m.payload)
    BY <1>1 DEF Message
  <2>2. k \in Nat /\ m.len - v <= k /\ (k > 0 => v + k <= Len(m.payload))
    BY <2>1
  <2>3. rest \in Seq(Nat) /\ Len(rest) = k
    <3> HIDE DEF k
    <3>1. \A i \in 1 .. k : v + i \in 1 .. Len(m.payload) /\ i \in 1 .. Len(m.payload)
      <4>1. Len(m.payload) \in Nat
        BY <2>1
      <4> QED
        BY <2>2, <4>1
    <3>2. \A i \in 1 .. k : m.payload[v + i] \in Nat /\ m.payload[i] \in Nat
      BY <2>1, <3>1
    <3>3. rest \in [1 .. k -> Nat]
      BY <3>2
    <3> QED
      BY <2>2, <3>3
  <2>4. Shrink(m, v) = [m EXCEPT !.len = m.len - v, !.payload = rest]
    BY DEF Shrink
  <2> HIDE DEF rest, k
  <2>5. m.len - v \in Int /\ m.len - v <= Len(rest)
    BY <2>1, <2>2, <2>3
  <2>6. Shrink(m, v).len = m.len - v /\ Shrink(m, v).payload = rest
    BY <1>1, <2>4 DEF Message
  <2> QED
    BY <1>1, <2>3, <2>4, <2>5, <2>6 DEF Message
<1> QED
  BY <1>2, <1>3, <1>4

\* The write loop: what it takes from a session and what it leaves.
LEMMA ItemType ==
    ASSUME NEW p \in Peer, NEW s \in Session, NEW d \in Datagram, NEW i \in Nat \ {0},
           d.oper = "data_request", Available(s, i)
    PROVE  Item(s, d, i) \in Payload
<1>1. d.payload \in Payload
  BY DEF Datagram, Payload
<1>2. \A h \in s.recv_mess : h.payload \in Payload
  BY DEF Session, Held
<1> QED
  BY <1>1, <1>2 DEF Item, Available

LEMMA LoopTypes ==
    ASSUME NEW p \in Peer, NEW s \in Session, NEW d \in Datagram, NEW n \in 0 .. MaxWindow,
           d.oper = "data_request", \A i \in 1 .. n : Available(s, i)
    PROVE  /\ \A k \in Int : Advance(s, n, k) \in Session
           /\ Written(s, d, n) \in Seq(Payload)
           /\ Responses(p, s, d, n) \in SUBSET Datagram
           /\ \A i \in 0 .. MaxWindow : SeqAdd(s.recv_seq, i) \in SeqNum
<1>1. \A i \in 0 .. MaxWindow : SeqAdd(s.recv_seq, i) \in SeqNum
  BY SeqAddType, WindowType, SeqSpanAssumption DEF Session
<1>2. ASSUME NEW k \in Int
      PROVE  Advance(s, n, k) \in Session
  <2>1. SeqAdd(s.recv_seq, n) \in SeqNum
    BY <1>1
  <2>2. s.recv_buffer_count - (k - 1) \in Int
    BY DEF Session
  <2>3. s.recv_mess \ Fetched(s, k) \in SUBSET Held
    BY DEF Session
  <2> QED
    BY <2>1, <2>2, <2>3 DEF Advance, Session
<1>3. n \in Nat
  BY WindowType
<1>4. \A i \in 1 .. n : Item(s, d, i) \in Payload
  BY <1>3, ItemType
<1>5. Written(s, d, n) \in Seq(Payload)
  BY <1>3, <1>4 DEF Written
<1>6. Responses(p, s, d, n) \in SUBSET Datagram
  <2> SUFFICES ASSUME NEW i \in 1 .. n
               PROVE  DataResponse(Other(p), SeqAdd(s.recv_seq, i), Len(Item(s, d, i))) \in Datagram
    BY DEF Responses
  <2>1. Len(Item(s, d, i)) \in Int
    BY <1>4 DEF Payload
  <2>2. SeqAdd(s.recv_seq, i) \in SeqNum
    BY <1>1, WindowType
  <2> QED
    BY <2>1, <2>2, DatagramTypes, OtherType
<1> QED
  BY <1>1, <1>2, <1>5, <1>6

\* One lemma per handler whose step is not plain.
LEMMA ProcessTcpReadType ==
    ASSUME NEW p \in Peer, TypeOK, ProcessTcpRead(p)
    PROVE  TypeOK'
<1> DEFINE s == sess[p]
<1>1. s \in Session /\ log[p] \in Seq(Payload)
  BY DEF TypeOK
<1>2. LastByte(log[p]) \in Nat
  <2> DEFINE l == log[p]
  <2>1. CASE l = <<>>
    BY <2>1 DEF LastByte
  <2>2. CASE l # <<>>
    <3>1. l[Len(l)] \in Payload
      BY <1>1, <2>2
    <3>2. \A c \in Payload : c[Len(c)] \in Nat
      BY DEF Payload
    <3> QED
      BY <2>2, <3>1, <3>2 DEF LastByte
  <2> QED
    BY <2>1, <2>2
<1>3. PICK k \in ReadSizes :
        LET payload == [i \in 1 .. k |-> LastByte(log[p]) + i]
        IN  /\ sess' = [sess EXCEPT ![p] = AddRequestMessage(s, payload)]
            /\ net' = net \cup {DataRequest(Other(p), SeqAdd(s.send_seq, 1), payload)}
            /\ log' = [log EXCEPT ![p] = Append(@, payload)]
  BY DEF ProcessTcpRead
<1> DEFINE payload == [i \in 1 .. k |-> LastByte(log[p]) + i]
           seq == SeqAdd(s.send_seq, 1)
           m == [seq |-> seq, payload |-> payload, len |-> Len(payload),
                 send_retries |-> 0, armed |-> TRUE]
<1>4. k \in Nat \ {0}
  BY ReadSizesAssumption
<1>5. payload \in Payload /\ Len(payload) = k
  <2>1. payload \in [1 .. k -> Nat]
    BY <1>2, <1>4
  <2> QED
    BY <1>4, <2>1 DEF Payload
<1>6. seq \in SeqNum
  BY <1>1, SeqAddType, SeqSpanAssumption DEF Session
<1>7. m \in Message
  <2> HIDE DEF payload, seq
  <2> QED
    BY <1>4, <1>5, <1>6 DEF Message, Payload
<1>8. AddRequestMessage(s, payload) \in Session
  <2>1. s.send_buffer_count + 1 \in Int
    BY <1>1 DEF Session
  <2>2. AddRequestMessage(s, payload)
          = [s EXCEPT !.send_seq = seq, !.send_mess = @ \cup {m}, !.send_buffer_count = @ + 1]
    BY DEF AddRequestMessage
  <2> HIDE DEF m, seq, payload, s
  <2>3. s.send_mess \cup {m} \in SUBSET Message
    BY <1>1, <1>7 DEF Session
  <2> QED
    BY <1>1, <1>6, <2>1, <2>2, <2>3 DEF Session
<1>9. DataRequest(Other(p), seq, payload) \in Datagram
  BY <1>5, <1>6, DatagramTypes, OtherType
<1>10. /\ sess' = [sess EXCEPT ![p] = AddRequestMessage(s, payload)]
       /\ net' = net \cup {DataRequest(Other(p), seq, payload)}
       /\ log' = [log EXCEPT ![p] = Append(@, payload)]
       /\ UNCHANGED <<delivered, window>>
  BY <1>3 DEF ProcessTcpRead
<1> HIDE DEF payload, seq, m, s
<1>11. Append(log[p], payload) \in Seq(Payload)
  BY <1>1, <1>5
<1> QED
  BY <1>8, <1>9, <1>10, <1>11 DEF TypeOK

LEMMA RequestTimeoutType ==
    ASSUME NEW p \in Peer, TypeOK, RequestTimeout(p)
    PROVE  TypeOK'
<1> DEFINE s == sess[p]
<1>1. s \in Session
  BY DEF TypeOK
<1>2. PICK m \in s.send_mess :
        LET again == m.send_retries <= window[p]
            m2 == [m EXCEPT !.send_retries = @ + 1, !.armed = again]
            s2 == [s EXCEPT !.send_mess = (@ \ {m}) \cup {m2}]
        IN  IF again
            THEN /\ sess' = [sess EXCEPT ![p] = s2]
                 /\ net' = net \cup Transmission(p, m)
            ELSE SettleSession(p, [s2 EXCEPT !.status = 3], {})
  BY DEF RequestTimeout
<1> DEFINE again == m.send_retries <= window[p]
           m2 == [m EXCEPT !.send_retries = @ + 1, !.armed = again]
           s2 == [s EXCEPT !.send_mess = (@ \ {m}) \cup {m2}]
<1>3. m \in Message
  BY <1>1 DEF Session
<1>4. m2 \in Message
  <2>1. m.send_retries + 1 \in Nat /\ again \in BOOLEAN
    BY <1>3 DEF Message
  <2>2. m2.len = m.len /\ m2.payload = m.payload
    BY <1>3 DEF Message
  <2> HIDE DEF again
  <2> QED
    BY <1>3, <2>1, <2>2 DEF Message
<1>5. s2 \in Session
  <2> HIDE DEF m2, s
  <2> QED
    BY <1>1, <1>4, MessageUpdates
<1>6. [s2 EXCEPT !.status = 3] \in Session
  <2> HIDE DEF s2
  <2> QED
    BY <1>5 DEF Session
<1>7. sess' \in [Peer -> Session] /\ net' \subseteq Datagram
  <2>1. CASE again
    <3>1. sess' = [sess EXCEPT ![p] = s2] /\ net' = net \cup Transmission(p, m)
      BY <1>2, <2>1
    <3> QED
      BY <1>3, <1>5, <3>1, TransmissionType DEF TypeOK
  <2>2. CASE ~again
    <3>1. SettleSession(p, [s2 EXCEPT !.status = 3], {})
      BY <1>2, <2>2
    <3> HIDE DEF s2
    <3> QED
      BY <1>6, <3>1, SettleSessionType
  <2> QED
    BY <2>1, <2>2
<1>8. UNCHANGED <<log, delivered, window>>
  BY DEF RequestTimeout
<1> QED
  BY <1>7, <1>8 DEF TypeOK

LEMMA HandleDataResponseType ==
    ASSUME NEW p \in Peer, NEW d \in net, TypeOK, HandleDataResponse(p, d)
    PROVE  TypeOK'
<1> DEFINE s == sess[p]
<1>1. s \in Session /\ d.value \in Int
  BY DEF TypeOK, Datagram
<1>2. PICK m \in s.send_mess :
        \/ SettleSession(p, DeleteRequestMessage(s, m), {})
        \/ /\ d.value >= 0
           /\ LET m2 == IF d.value > 0 THEN Shrink(m, d.value) ELSE m
              IN SettleSession(p, [s EXCEPT !.send_mess = (@ \ {m}) \cup {m2}], {})
        \/ DeleteSession(p, "error")
  BY DEF HandleDataResponse
<1> DEFINE m2 == IF d.value > 0 THEN Shrink(m, d.value) ELSE m
           s2 == [s EXCEPT !.send_mess = (@ \ {m}) \cup {m2}]
<1>3. m \in Message
  BY <1>1 DEF Session
<1>4. d.value >= 0 => s2 \in Session
  BY <1>1, <1>3, MessageUpdates
<1>5. DeleteRequestMessage(s, m) \in Session
  BY <1>1, MessageUpdates
<1>6. sess' \in [Peer -> Session] /\ net' \subseteq Datagram
  <2>1. CASE SettleSession(p, DeleteRequestMessage(s, m), {})
    BY <1>5, <2>1, SettleSessionType
  <2>2. CASE d.value >= 0 /\ SettleSession(p, s2, {})
    <3> HIDE DEF s2
    <3> QED
      BY <1>4, <2>2, SettleSessionType
  <2>3. CASE DeleteSession(p, "error")
    BY <2>3, DeleteSessionType DEF Life
  <2> QED
    BY <1>2, <2>1, <2>2, <2>3
<1>7. UNCHANGED <<log, delivered, window>>
  BY DEF HandleDataResponse
<1> QED
  BY <1>6, <1>7 DEF TypeOK

LEMMA HandleDataRequestAheadType ==
    ASSUME NEW p \in Peer, NEW d \in net, TypeOK, HandleDataRequestAhead(p, d)
    PROVE  TypeOK'
<1> DEFINE s == sess[p]
           Keep(v) == (\A h \in s.recv_mess : h.seq # d.seq) /\ s.recv_buffer_count < v
           HeldThen(v) == IF Keep(v) THEN s.recv_mess \cup {[seq |-> d.seq, payload |-> d.payload]}
                                     ELSE s.recv_mess
           AskedFor(v, w) == Asked(s.recv_seq, HeldThen(v), d.seq, s.retry_seq, w)
<1> DEFINE Ahead(v, w) ==
        /\ window' = [window EXCEPT ![p] = w]
        /\ sess' = [sess EXCEPT ![p] =
                      [s EXCEPT !.recv_mess = HeldThen(v),
                                !.recv_buffer_count = IF Keep(v) THEN @ + 1 ELSE @,
                                !.retry_seq = RetrySeq(s.recv_seq, AskedFor(v, w), @)]]
        /\ net' = net \cup {RetransRequest(Other(p), t) : t \in AskedFor(v, w)}
<1>a. PICK v \in {window[p]} \cup Settable : \E w \in {v} \cup Settable : Ahead(v, w)
  BY DEF HandleDataRequestAhead
<1>0. PICK w \in {v} \cup Settable : Ahead(v, w)
  BY <1>a
<1> DEFINE keep == Keep(v)
           held == IF keep THEN s.recv_mess \cup {[seq |-> d.seq, payload |-> d.payload]}
                           ELSE s.recv_mess
           asked == Asked(s.recv_seq, held, d.seq, s.retry_seq, w)
           count == IF keep THEN s.recv_buffer_count + 1 ELSE s.recv_buffer_count
           retry == RetrySeq(s.recv_seq, asked, s.retry_seq)
<1>1. s \in Session /\ d \in Datagram
  BY DEF TypeOK
<1>2. d.oper = "data_request"
  BY DEF HandleDataRequestAhead
<1>10. w \in 1 .. MaxWindow /\ window' \in [Peer -> 1 .. MaxWindow]
  BY <1>0, SettableType DEF TypeOK
<1>3. held \in SUBSET Held
  <2>1. [seq |-> d.seq, payload |-> d.payload] \in Held
    BY <1>1, <1>2 DEF Held, Datagram, Payload
  <2> QED
    BY <1>1, <2>1 DEF Session
<1>4. count \in Int
  BY <1>1 DEF Session
<1>5. asked \in SUBSET SeqNum
  <2>1. \A i \in 1 .. w : SeqAdd(s.recv_seq, i) \in SeqNum
    BY <1>1, <1>10, SeqAddType, WindowType, SeqSpanAssumption DEF Session
  <2> QED
    BY <2>1 DEF Asked, Gaps
<1>6. retry \in SeqNum
  BY <1>1, <1>5 DEF RetrySeq, Session
<1>7. /\ sess' = [sess EXCEPT ![p] = [s EXCEPT !.recv_mess = held,
                                              !.recv_buffer_count = count,
                                              !.retry_seq = retry]]
      /\ net' = net \cup {RetransRequest(Other(p), t) : t \in asked}
      /\ UNCHANGED <<log, delivered>>
  BY <1>0 DEF HandleDataRequestAhead
<1>8. {RetransRequest(Other(p), t) : t \in asked} \in SUBSET Datagram
  BY <1>5, DatagramTypes, OtherType
<1> HIDE DEF s, held, asked, count, retry
<1>9. [s EXCEPT !.recv_mess = held, !.recv_buffer_count = count, !.retry_seq = retry]
        \in Session
  BY <1>1, <1>3, <1>4, <1>6 DEF Session
<1> QED
  BY <1>7, <1>8, <1>9, <1>10 DEF TypeOK

LEMMA HandleDataRequestNextType ==
    ASSUME NEW p \in Peer, NEW d \in net, TypeOK, HandleDataRequestNext(p, d)
    PROVE  TypeOK'
<1> DEFINE s == sess[p]
<1>1. s \in Session /\ d \in Datagram /\ delivered[p] \in Seq(Payload)
  BY DEF TypeOK
<1>2. PICK n \in 1 .. MaxWindow :
        /\ \A i \in 1 .. n : Available(s, i)
        /\ sess' = [sess EXCEPT ![p] = Advance(s, n, n)]
        /\ net' = net \cup Responses(p, s, d, n)
        /\ delivered' = [delivered EXCEPT ![p] = @ \o Written(s, d, n)]
  BY DEF HandleDataRequestNext
<1>3. d.oper = "data_request" /\ UNCHANGED <<log, window>>
  BY DEF HandleDataRequestNext, IsNext
<1>4. n \in 0 .. MaxWindow /\ n \in Int
  BY WindowType
<1>5. /\ Advance(s, n, n) \in Session
      /\ Written(s, d, n) \in Seq(Payload)
      /\ Responses(p, s, d, n) \in SUBSET Datagram
  BY <1>1, <1>2, <1>3, <1>4, LoopTypes
<1>6. delivered[p] \o Written(s, d, n) \in Seq(Payload)
  BY <1>1, <1>5
<1> QED
  BY <1>2, <1>3, <1>5, <1>6 DEF TypeOK

LEMMA HandleDataRequestFreedType ==
    ASSUME NEW p \in Peer, NEW d \in net, TypeOK, HandleDataRequestFreed(p, d)
    PROVE  TypeOK'
<1> DEFINE s == sess[p]
<1>1. s \in Session /\ d \in Datagram /\ delivered[p] \in Seq(Payload)
  BY DEF TypeOK
<1>2. PICK n \in 1 .. MaxWindow - 1 :
        /\ \A i \in 1 .. n + 1 : Available(s, i)
        /\ sess' = [sess EXCEPT ![p] = Freed("corrupt")]
        /\ net' = net \cup Responses(p, s, d, n) \cup {CloseRequest(Other(p))}
        /\ delivered' = [delivered EXCEPT ![p] = @ \o Written(s, d, n)]
  BY DEF HandleDataRequestFreed
<1>3. d.oper = "data_request" /\ UNCHANGED <<log, window>>
  BY DEF HandleDataRequestFreed, IsNext
<1>4. n \in 0 .. MaxWindow /\ n \in Int /\ \A i \in 1 .. n : Available(s, i)
  BY <1>2, WindowType
<1>5. /\ Written(s, d, n) \in Seq(Payload)
      /\ Responses(p, s, d, n) \in SUBSET Datagram
  BY <1>1, <1>3, <1>4, LoopTypes
<1>6. delivered[p] \o Written(s, d, n) \in Seq(Payload)
  BY <1>1, <1>5
<1>7. CloseRequest(Other(p)) \in Datagram
  BY OtherType, DatagramTypes, StartSeqAssumption
<1>8. Freed("corrupt") \in Session
  BY FreedType DEF Life
<1> QED
  BY <1>2, <1>3, <1>5, <1>6, <1>7, <1>8 DEF TypeOK

LEMMA HandleDataRequestStuckType ==
    ASSUME NEW p \in Peer, NEW d \in net, TypeOK, HandleDataRequestStuck(p, d)
    PROVE  TypeOK'
<1> DEFINE s == sess[p]
<1>1. s \in Session /\ d \in Datagram /\ delivered[p] \in Seq(Payload)
  BY DEF TypeOK
<1>2. PICK n \in 0 .. MaxWindow - 1 :
        LET s2 == Advance(s, n, n + 1)
            item == Item(s, d, n + 1)
            Answer(v) == Responses(p, s, d, n)
                           \cup {DataResponse(Other(p), SeqAdd(s.recv_seq, n + 1), v)}
        IN  /\ \A i \in 1 .. n + 1 : Available(s, i)
            /\ \/ \E r \in 1 .. Len(item) - 1 :
                    /\ sess' = [sess EXCEPT ![p] = s2]
                    /\ net' = net \cup Answer(r)
                    /\ delivered' = [delivered EXCEPT ![p] =
                           @ \o Append(Written(s, d, n), SubSeq(item, 1, r))]
               \/ /\ sess' = [sess EXCEPT ![p] = s2]
                  /\ net' = net \cup Answer(-1)
                  /\ delivered' = [delivered EXCEPT ![p] = @ \o Written(s, d, n)]
               \/ /\ SettleSession(p, [s2 EXCEPT !.status = 3], Answer(-1))
                  /\ delivered' = [delivered EXCEPT ![p] = @ \o Written(s, d, n)]
  BY DEF HandleDataRequestStuck
<1> DEFINE s2 == Advance(s, n, n + 1)
           item == Item(s, d, n + 1)
           Answer(v) == Responses(p, s, d, n)
                          \cup {DataResponse(Other(p), SeqAdd(s.recv_seq, n + 1), v)}
<1>3. d.oper = "data_request" /\ UNCHANGED <<log, window>>
  BY DEF HandleDataRequestStuck, IsNext
<1>4. /\ n \in 0 .. MaxWindow /\ n + 1 \in 0 .. MaxWindow /\ n + 1 \in Int
      /\ \A i \in 1 .. n : Available(s, i)
      /\ Available(s, n + 1)
  BY <1>2, WindowType
<1>5. /\ s2 \in Session
      /\ Written(s, d, n) \in Seq(Payload)
      /\ Responses(p, s, d, n) \in SUBSET Datagram
      /\ SeqAdd(s.recv_seq, n + 1) \in SeqNum
  BY <1>1, <1>3, <1>4, LoopTypes
<1>6. item \in Payload
  BY <1>1, <1>3, <1>4, ItemType, WindowType
<1>7. \A v \in Int : Answer(v) \in SUBSET Datagram
  BY <1>5, DatagramTypes, OtherType
<1>8. [s2 EXCEPT !.status = 3] \in Session
  <2> HIDE DEF s2
  <2> QED
    BY <1>5 DEF Session
<1>9. delivered[p] \o Written(s, d, n) \in Seq(Payload)
  BY <1>1, <1>5
<1>10. CASE \E r \in 1 .. Len(item) - 1 :
              /\ sess' = [sess EXCEPT ![p] = s2]
              /\ net' = net \cup Answer(r)
              /\ delivered' = [delivered EXCEPT ![p] =
                     @ \o Append(Written(s, d, n), SubSeq(item, 1, r))]
  <2>1. PICK r \in 1 .. Len(item) - 1 :
              /\ sess' = [sess EXCEPT ![p] = s2]
              /\ net' = net \cup Answer(r)
              /\ delivered' = [delivered EXCEPT ![p] =
                     @ \o Append(Written(s, d, n), SubSeq(item, 1, r))]
    BY <1>10
  <2> HIDE DEF s2, item, Answer
  <2>2. SubSeq(item, 1, r) \in Payload
    BY <1>6 DEF Payload
  <2>3. delivered[p] \o Append(Written(s, d, n), SubSeq(item, 1, r)) \in Seq(Payload)
    BY <1>1, <1>5, <2>2
  <2>4. Answer(r) \in SUBSET Datagram
    BY <1>6, <1>7 DEF Payload
  <2> QED
    BY <1>3, <1>5, <2>1, <2>3, <2>4 DEF TypeOK
<1>11. CASE /\ sess' = [sess EXCEPT ![p] = s2]
            /\ net' = net \cup Answer(-1)
            /\ delivered' = [delivered EXCEPT ![p] = @ \o Written(s, d, n)]
  <2> HIDE DEF s2, Answer
  <2> QED
    BY <1>3, <1>5, <1>7, <1>9, <1>11 DEF TypeOK
<1>12. CASE /\ SettleSession(p, [s2 EXCEPT !.status = 3], Answer(-1))
            /\ delivered' = [delivered EXCEPT ![p] = @ \o Written(s, d, n)]
  <2> HIDE DEF s2, Answer
  <2>1. sess' \in [Peer -> Session] /\ net' \subseteq Datagram
    BY <1>7, <1>8, <1>12, SettleSessionType
  <2> QED
    BY <1>3, <1>9, <1>12, <2>1 DEF TypeOK
<1> QED
  BY <1>2, <1>10, <1>11, <1>12

LEMMA TypeInit == Init => TypeOK
<1>1. Established \in Session
  BY StartSeqAssumption, SeqSpanAssumption DEF Established, Session, Life, SeqNum
<1> QED
  BY <1>1, BoundsAssumption, WindowAssumption DEF Init, TypeOK

LEMMA TypeStep == TypeOK /\ [Next]_vars => TypeOK'
<1> SUFFICES ASSUME TypeOK, [Next]_vars PROVE TypeOK'
  OBVIOUS
<1>1. CASE UNCHANGED vars
  BY <1>1 DEF vars, TypeOK
<1>2. ASSUME NEW p \in Peer, ProcessTcpFull(p) PROVE TypeOK'
  <2>1. [sess[p] EXCEPT !.reading = FALSE] \in Session
    BY DEF TypeOK, Session
  <2>2. sess' = [sess EXCEPT ![p] = [sess[p] EXCEPT !.reading = FALSE]]
    BY <1>2 DEF ProcessTcpFull, TypeOK
  <2> QED
    BY <1>2, <2>1, <2>2 DEF ProcessTcpFull, TypeOK
<1>3. ASSUME NEW p \in Peer, ProcessTcpRead(p) PROVE TypeOK'
  BY <1>3, ProcessTcpReadType
<1>4. ASSUME NEW p \in Peer, ProcessTcpEof(p) PROVE TypeOK'
  BY <1>4, DeleteSessionType DEF ProcessTcpEof, TypeOK, Life
<1>5. ASSUME NEW p \in Peer, RequestTimeout(p) PROVE TypeOK'
  BY <1>5, RequestTimeoutType
<1>6. ASSUME NEW p \in Peer, SessionTimeout(p) PROVE TypeOK'
  BY <1>6, DeleteSessionType DEF SessionTimeout, TypeOK, Life
<1>9. ASSUME NEW p \in Peer, SetContextOption(p) PROVE TypeOK'
  BY <1>9, SettableType DEF SetContextOption, TypeOK
<1>7. ASSUME NEW p \in Peer, NEW d \in net, ProcessUdp(p, d) PROVE TypeOK'
  <2>1. d \in Datagram /\ d.seq \in SeqNum
    BY DEF TypeOK, Datagram
  <2>2. CASE HandleDataRequestOld(p, d)
    <3>1. DataResponse(Other(p), d.seq, 0) \in Datagram
      BY <2>1, DatagramTypes, OtherType
    <3> QED
      BY <2>2, <3>1 DEF HandleDataRequestOld, TypeOK
  <2>3. CASE HandleDataRequestAhead(p, d)
    BY <2>3, HandleDataRequestAheadType
  <2>4. CASE HandleDataRequestNext(p, d)
    BY <2>4, HandleDataRequestNextType
  <2>5. CASE HandleDataRequestStuck(p, d)
    BY <2>5, HandleDataRequestStuckType
  <2>6. CASE HandleDataRequestFreed(p, d)
    BY <2>6, HandleDataRequestFreedType
  <2>7. CASE HandleDataResponse(p, d)
    BY <2>7, HandleDataResponseType
  <2>8. CASE HandleRetransRequest(p, d)
    <3>1. PICK m \in sess[p].send_mess : net' = net \cup Transmission(p, m)
      BY <2>8 DEF HandleRetransRequest
    <3>2. m \in Message
      BY DEF TypeOK, Session
    <3> QED
      BY <2>8, <3>1, <3>2, TransmissionType DEF HandleRetransRequest, TypeOK
  <2>9. CASE HandleCloseRequest(p, d)
    BY <2>9, FreedType DEF HandleCloseRequest, TypeOK, Life
  <2> QED
    BY <1>7, <2>2, <2>3, <2>4, <2>5, <2>6, <2>7, <2>8, <2>9 DEF ProcessUdp
<1> QED
  BY <1>1, <1>2, <1>3, <1>4, <1>5, <1>6, <1>7, <1>9 DEF Next

\* Every reachable state is well typed, for all windows, sequence spaces and
\* write results.  In particular the memcpy of a partial write (Shrink) never
\* reads past the payload it shortens, and no data request is empty.
THEOREM TypeCorrect == Spec => []TypeOK
BY TypeInit, TypeStep, PTL DEF Spec

-----------------------------------------------------------------------------
(* Order: the numbers of a session stand for positions in its history *)

LEMMA NthSeqFacts ==
    ASSUME NEW n \in 0 .. SeqSpan - 1
    PROVE  /\ NthSeq(n) \in SeqNum
           /\ \A k \in Nat : n + k < SeqSpan => SeqAdd(NthSeq(n), k) = NthSeq(n + k)
           /\ \A m \in 0 .. SeqSpan - 1 :
                /\ NthSeq(m) = NthSeq(n) => m = n
                /\ SeqDiff(NthSeq(m), NthSeq(n)) = IF m >= n THEN m - n ELSE m - n + SeqSpan
BY SeqSpanAssumption, StartSeqAssumption DEF NthSeq, SeqAdd, SeqDiff, SeqNum

\* All positions that can be named stay within one turn of the counter.
LEMMA Positions ==
    ASSUME NEW p \in Peer, TypeOK, NoReuse, HistoryAgrees(p)
    PROVE  /\ Len(log[p]) \in Nat /\ Len(delivered[Other(p)]) \in Nat
           /\ Len(delivered[Other(p)]) <= Len(log[p])
           /\ MaxWindow \in Nat
           /\ Len(log[p]) + MaxWindow < SeqSpan
<1>1. MaxMsg[p] \in Nat /\ MaxWindow \in Nat
  BY BoundsAssumption, WindowType, OtherType
<1>2. Len(log[p]) \in Nat /\ Len(delivered[Other(p)]) \in Nat
  BY OtherType DEF TypeOK
<1> QED
  BY <1>1, <1>2, SeqSpanAssumption DEF HistoryAgrees, NoReuse

\* A step that appends to no history: peer p's session becomes s2, which
\* agrees if it lives, and the new datagrams agree.
LEMMA QuietStep ==
    ASSUME NEW p \in Peer, NEW s2, NEW out, TypeOK, Agreement,
           UNCHANGED <<log, delivered>>,
           sess' = [sess EXCEPT ![p] = s2],
           net' \subseteq net \cup out,
           s2.life = "live" =>
             SenderAgrees(p, s2) /\ ReceiverAgrees(p, s2) /\ Remembers(p, s2),
           \A d \in out : DatagramAgrees(d)
    PROVE  Agreement'
<1>1. \A r \in Peer : HistoryAgrees(r)'
  BY DEF Agreement, HistoryAgrees
<1>2. \A d : DatagramAgrees(d) <=> DatagramAgrees(d)'
  BY DEF DatagramAgrees, Carries
<1>3. \A d \in net' : DatagramAgrees(d)'
  BY <1>2 DEF Agreement
<1>4. ASSUME NEW r \in Peer, Live(r)'
      PROVE  (SenderAgrees(r, sess[r]) /\ ReceiverAgrees(r, sess[r]) /\ Remembers(r, sess[r]))'
  <2>1. SenderAgrees(r, sess'[r]) /\ ReceiverAgrees(r, sess'[r]) /\ Remembers(r, sess'[r])
    <3>1. CASE r = p
      BY <1>4, <3>1 DEF Live, TypeOK
    <3>2. CASE r # p
      BY <1>4, <3>2 DEF Live, TypeOK, Agreement
    <3> QED
      BY <3>1, <3>2
  <2> QED
    BY <2>1 DEF SenderAgrees, ReceiverAgrees, Remembers, Carries
<1> QED
  BY <1>1, <1>3, <1>4 DEF Agreement

\* The messages the write loop takes are the next ones of the sender's log.
LEMMA LoopItems ==
    ASSUME NEW p \in Peer, NEW d \in net, NEW n \in 0 .. MaxWindow,
           TypeOK, NoReuse, Agreement, IsNext(p, d), d.to = p,
           \A i \in 1 .. n : Available(sess[p], i)
    PROVE  /\ \A i \in 1 .. n : Item(sess[p], d, i) = log[Other(p)][Len(delivered[p]) + i]
           /\ \A i \in 0 .. MaxWindow :
                SeqAdd(sess[p].recv_seq, i) = NthSeq(Len(delivered[p]) + i)
           /\ Len(delivered[p]) + n <= Len(log[Other(p)])
<1> DEFINE s == sess[p]
           q == Other(p)
           R == Len(delivered[p])
           N == Len(log[q])
<1>1. q \in Peer /\ Other(q) = p
  BY OtherType
<1>2. R \in Nat /\ N \in Nat /\ R <= N /\ MaxWindow \in Nat /\ N + MaxWindow < SeqSpan
  BY <1>1, Positions DEF Agreement
<1>3. Live(p) /\ ReceiverAgrees(p, s) /\ d.oper = "data_request" /\ d.to \in Peer
  BY DEF IsNext, Live, Agreement, TypeOK, Datagram
<1>4. ASSUME NEW i \in 0 .. MaxWindow
      PROVE  SeqAdd(s.recv_seq, i) = NthSeq(R + i)
  <2>1. s.recv_seq = NthSeq(R)
    BY <1>3 DEF ReceiverAgrees
  <2>2. R \in 0 .. SeqSpan - 1 /\ i \in Nat /\ R + i < SeqSpan
    BY <1>2, SeqSpanAssumption
  <2> QED
    BY <2>1, <2>2, NthSeqFacts
<1>5. ASSUME NEW i \in 2 .. n
      PROVE  R + i <= N /\ Item(s, d, i) = log[q][R + i]
  <2>1. i \in 0 .. MaxWindow /\ i \in 1 .. n /\ i # 1
    BY <1>2
  <2>2. SeqAdd(s.recv_seq, i) = NthSeq(R + i)
    BY <1>4, <2>1
  <2>3. \E h \in s.recv_mess : h.seq = NthSeq(R + i)
    BY <2>1, <2>2 DEF Available
  <2>4. ASSUME NEW h \in s.recv_mess, h.seq = NthSeq(R + i)
        PROVE  R + i <= N /\ h.payload = log[q][R + i]
    <3>1. PICK k \in R + 2 .. N : h.seq = NthSeq(k) /\ h.payload = log[q][k]
      BY <1>3 DEF ReceiverAgrees, Carries
    <3>2. k \in 0 .. SeqSpan - 1 /\ R + i \in 0 .. SeqSpan - 1
      <4>1. k \in Nat /\ k <= N /\ i \in Nat /\ i <= MaxWindow /\ SeqSpan \in Nat
        BY <1>2, <2>1, SeqSpanAssumption
      <4> HIDE DEF N, R
      <4> QED
        BY <1>2, <4>1
    <3>3. k = R + i
      BY <2>4, <3>1, <3>2, NthSeqFacts
    <3> QED
      BY <3>1, <3>3, <1>2, <2>1
  <2>5. Item(s, d, i) = (CHOOSE h \in s.recv_mess : h.seq = NthSeq(R + i)).payload
    BY <2>1, <2>2 DEF Item
  <2> QED
    BY <2>3, <2>4, <2>5
<1>6. R + 1 <= N /\ Item(s, d, 1) = log[q][R + 1]
  <2>1. PICK k \in 1 .. N : d.seq = NthSeq(k) /\ d.payload = log[q][k]
    BY <1>3 DEF Agreement, DatagramAgrees, Carries
  <2>2. k \in 0 .. SeqSpan - 1 /\ R \in 0 .. SeqSpan - 1
    BY <1>2, SeqSpanAssumption
  <2>3. SeqDiff(NthSeq(k), NthSeq(R)) = 1
    BY <1>3, <2>1 DEF IsNext, ReceiverAgrees
  <2>4. 1 = IF k >= R THEN k - R ELSE k - R + SeqSpan
    BY <2>2, <2>3, NthSeqFacts
  <2>5. k = R + 1
    <3>1. R \in Nat /\ N \in Nat /\ R <= N /\ N < SeqSpan /\ SeqSpan \in Nat
      BY <1>2, SeqSpanAssumption
    <3> HIDE DEF R, N
    <3>2. k \in Nat /\ k <= N /\ k - R # 1 - SeqSpan
      BY <2>1, <3>1
    <3> QED
      BY <2>4, <3>1, <3>2
  <2> QED
    BY <2>1, <2>5, <1>2 DEF Item
<1>7. ASSUME NEW i \in 1 .. n
      PROVE  Item(s, d, i) = log[q][R + i]
  <2>1. CASE i = 1
    BY <1>6, <2>1
  <2>2. CASE i # 1
    <3>1. i \in 2 .. n
      BY <2>2, <1>2
    <3> QED
      BY <1>5, <3>1
  <2> QED
    BY <2>1, <2>2
<1>8. R + n <= N
  <2>1. CASE n = 0
    BY <1>2, <2>1
  <2>2. CASE n = 1
    BY <1>6, <2>2
  <2>3. CASE n # 0 /\ n # 1
    <3>1. n \in 2 .. n
      BY <1>2, <2>3
    <3> QED
      BY <1>5, <3>1
  <2> QED
    BY <2>1, <2>2, <2>3
<1> HIDE DEF s, q, R, N
<1>9. /\ \A i \in 1 .. n : Item(s, d, i) = log[q][R + i]
      /\ \A i \in 0 .. MaxWindow : SeqAdd(s.recv_seq, i) = NthSeq(R + i)
  BY <1>4, <1>7
<1> QED
  BY <1>8, <1>9 DEF s, q, R, N

\* What a step leaves alone keeps agreeing.
LEMMA SenderFrame ==
    ASSUME NEW r \in Peer, log'[r] = log[r],
           sess'[r].send_seq = sess[r].send_seq, sess'[r].send_mess = sess[r].send_mess,
           SenderAgrees(r, sess[r])
    PROVE  SenderAgrees(r, sess[r])'
BY DEF SenderAgrees, Carries

LEMMA ReceiverFrame ==
    ASSUME NEW r \in Peer, delivered'[r] = delivered[r],
           sess'[r].recv_seq = sess[r].recv_seq, sess'[r].recv_mess = sess[r].recv_mess,
           Len(log[Other(r)]) \in Nat, Len(log'[Other(r)]) \in Nat,
           Len(log[Other(r)]) <= Len(log'[Other(r)]), Len(delivered[r]) \in Nat,
           \A n \in 1 .. Len(log[Other(r)]) : log'[Other(r)][n] = log[Other(r)][n],
           ReceiverAgrees(r, sess[r])
    PROVE  ReceiverAgrees(r, sess[r])'
<1> SUFFICES ASSUME NEW h \in sess[r].recv_mess
             PROVE  \E n \in Len(delivered[r]) + 2 .. Len(log'[Other(r)]) :
                       h.seq = NthSeq(n) /\ h.payload = log'[Other(r)][n]
  BY DEF ReceiverAgrees, Carries
<1>1. PICK n \in Len(delivered[r]) + 2 .. Len(log[Other(r)]) :
        h.seq = NthSeq(n) /\ h.payload = log[Other(r)][n]
  BY DEF ReceiverAgrees, Carries
<1>2. n \in 1 .. Len(log[Other(r)]) /\ n \in Len(delivered[r]) + 2 .. Len(log'[Other(r)])
  OBVIOUS
<1> QED
  BY <1>1, <1>2

LEMMA RemembersFrame ==
    ASSUME NEW r \in Peer, log'[r] = log[r], sess'[r].send_mess = sess[r].send_mess,
           Len(delivered[Other(r)]) \in Nat, Len(delivered'[Other(r)]) \in Nat,
           Len(delivered[Other(r)]) <= Len(delivered'[Other(r)]), Len(log[r]) \in Nat,
           Remembers(r, sess[r])
    PROVE  Remembers(r, sess[r])'
<1> SUFFICES ASSUME NEW n \in Len(delivered'[Other(r)]) + 1 .. Len(log[r])
             PROVE  \E m \in sess[r].send_mess : m.seq = NthSeq(n)
  BY DEF Remembers
<1>1. n \in Len(delivered[Other(r)]) + 1 .. Len(log[r])
  OBVIOUS
<1> QED
  BY <1>1 DEF Remembers

\* Histories only grow at the end.
HistoryGrows ==
    \A r \in Peer :
        /\ Len(log[r]) \in Nat /\ Len(log'[r]) \in Nat /\ Len(log[r]) <= Len(log'[r])
        /\ \A n \in 1 .. Len(log[r]) : log'[r][n] = log[r][n]
        /\ Len(delivered[r]) \in Nat /\ Len(delivered'[r]) \in Nat
        /\ Len(delivered[r]) <= Len(delivered'[r])

LEMMA DatagramFrame ==
    ASSUME NEW d \in Datagram, HistoryGrows, DatagramAgrees(d),
           Len(delivered[Other(d.to)]) <= Len(log[d.to])
    PROVE  DatagramAgrees(d)'
<1>1. d.to \in Peer /\ Other(d.to) \in Peer
  BY OtherType DEF Datagram
<1>2. ASSUME d.oper = "data_request"
      PROVE  \E n \in 1 .. Len(log'[Other(d.to)]) :
                d.seq = NthSeq(n) /\ d.payload = log'[Other(d.to)][n]
  <2>1. PICK n \in 1 .. Len(log[Other(d.to)]) :
          d.seq = NthSeq(n) /\ d.payload = log[Other(d.to)][n]
    BY <1>2 DEF DatagramAgrees, Carries
  <2>2. n \in 1 .. Len(log'[Other(d.to)]) /\ log'[Other(d.to)][n] = log[Other(d.to)][n]
    BY <1>1 DEF HistoryGrows
  <2> QED
    BY <2>1, <2>2
<1>3. ASSUME d.oper = "data_response", d.value > 0
      PROVE  \E n \in 1 .. Len(delivered'[Other(d.to)]) :
                d.seq = NthSeq(n) /\ d.value = Len(log'[d.to][n])
  <2>1. PICK n \in 1 .. Len(delivered[Other(d.to)]) :
          d.seq = NthSeq(n) /\ d.value = Len(log[d.to][n])
    BY <1>3 DEF DatagramAgrees
  <2>2. n \in 1 .. Len(delivered'[Other(d.to)]) /\ log'[d.to][n] = log[d.to][n]
    BY <1>1 DEF HistoryGrows
  <2> QED
    BY <2>1, <2>2
<1> QED
  BY <1>2, <1>3 DEF DatagramAgrees, Carries

LEMMA ConcatFacts ==
    ASSUME NEW S, NEW a \in Seq(S), NEW b \in Seq(S)
    PROVE  /\ Len(a \o b) = Len(a) + Len(b)
           /\ \A i \in 1 .. Len(a) : (a \o b)[i] = a[i]
           /\ \A i \in Len(a) + 1 .. Len(a) + Len(b) : (a \o b)[i] = b[i - Len(a)]
OBVIOUS

\* A run of the write loop on d: n messages are written,
LoopWrites(p, d, n) ==
    /\ n \in 0 .. MaxWindow
    /\ IsNext(p, d) /\ d.to = p
    /\ \A i \in 1 .. n : Available(sess[p], i)
    /\ UNCHANGED log
    /\ delivered' = [delivered EXCEPT ![p] = @ \o Written(sess[p], d, n)]

\* the session becomes s2, with what follows the n messages taken off,
LoopLeaves(p, n, s2) ==
    /\ sess' = [sess EXCEPT ![p] = s2]
    /\ s2.life = "live" =>
         /\ s2.send_seq = sess[p].send_seq
         /\ s2.send_mess = sess[p].send_mess
         /\ s2.recv_seq = SeqAdd(sess[p].recv_seq, n)
         /\ \A h \in s2.recv_mess :
              /\ h \in sess[p].recv_mess
              /\ \A i \in 2 .. n + 1 : h.seq # NthSeq(Len(delivered[p]) + i)

\* and besides the n responses only datagrams that agree leave.
LoopSends(p, d, n, out) ==
    /\ net' = net \cup Responses(p, sess[p], d, n) \cup out
    /\ \A x \in out : DatagramAgrees(x)'

LEMMA LoopStep ==
    ASSUME NEW p \in Peer, NEW d \in net, NEW n, NEW s2, NEW out,
           TypeOK, TypeOK', NoReuse, Agreement,
           LoopWrites(p, d, n), LoopLeaves(p, n, s2), LoopSends(p, d, n, out)
    PROVE  Agreement'
<1> USE DEF LoopWrites, LoopLeaves, LoopSends
<1> DEFINE s == sess[p]
           q == Other(p)
           R == Len(delivered[p])
           N == Len(log[q])
<1>1. q \in Peer /\ Other(q) = p /\ q # p
  BY OtherType
<1>2. /\ R \in Nat /\ N \in Nat /\ R <= N /\ MaxWindow \in Nat
      /\ N + MaxWindow < SeqSpan /\ n \in Nat
  BY <1>1, Positions DEF Agreement
<1>3. /\ \A i \in 1 .. n : Item(s, d, i) = log[q][R + i]
      /\ \A i \in 0 .. MaxWindow : SeqAdd(s.recv_seq, i) = NthSeq(R + i)
      /\ R + n <= N
  BY LoopItems
<1>4. Live(p) /\ SenderAgrees(p, s) /\ ReceiverAgrees(p, s) /\ Remembers(p, s)
  BY DEF IsNext, Live, Agreement
<1>5. /\ delivered'[q] = delivered[q]
      /\ delivered'[p] = delivered[p] \o Written(s, d, n)
      /\ Written(s, d, n) \in Seq(Payload) /\ Len(Written(s, d, n)) = n
      /\ \A i \in 1 .. n : Written(s, d, n)[i] = log[q][R + i]
  <2>1. Written(s, d, n) \in Seq(Payload)
    BY LoopTypes DEF TypeOK, IsNext
  <2>2. \A i \in 1 .. n : Written(s, d, n)[i] = log[q][R + i]
    BY <1>3 DEF Written
  <2>3. Len(Written(s, d, n)) = n
    BY <1>2 DEF Written
  <2> QED
    BY <1>1, <2>1, <2>2, <2>3 DEF TypeOK
<1>6. /\ Len(delivered'[p]) = R + n
      /\ \A i \in 1 .. R : delivered'[p][i] = delivered[p][i]
      /\ \A i \in R + 1 .. R + n : delivered'[p][i] = log[q][i]
  <2>1. delivered[p] \in Seq(Payload)
    BY DEF TypeOK
  <2>2. ASSUME NEW i \in R + 1 .. R + n
        PROVE  delivered'[p][i] = log[q][i]
    <3>1. i - R \in 1 .. n /\ R + (i - R) = i
      BY <1>2
    <3>2. delivered'[p][i] = Written(s, d, n)[i - R]
      <4>1. /\ Written(s, d, n) \in Seq(Payload) /\ i \in R + 1 .. R + Len(Written(s, d, n))
            /\ delivered'[p] = delivered[p] \o Written(s, d, n)
        BY <1>5
      <4>2. (delivered[p] \o Written(s, d, n))[i] = Written(s, d, n)[i - R]
        <5> HIDE DEF s
        <5> QED
          BY <2>1, <4>1, ConcatFacts
      <4> QED
        BY <4>1, <4>2
    <3> QED
      BY <1>5, <3>1, <3>2
  <2>3. Len(delivered'[p]) = R + n
    <3>1. Len(delivered[p] \o Written(s, d, n)) = Len(delivered[p]) + Len(Written(s, d, n))
      <4>1. Written(s, d, n) \in Seq(Payload)
        BY <1>5
      <4> HIDE DEF s, R
      <4> QED
        BY <2>1, <4>1, ConcatFacts
    <3> QED
      BY <1>5, <3>1
  <2>4. \A i \in 1 .. R : delivered'[p][i] = delivered[p][i]
    BY <1>5, <2>1, ConcatFacts
  <2> QED
    BY <2>2, <2>3, <2>4
<1>7. \A r \in Peer : HistoryAgrees(r)'
  <2>1. HistoryAgrees(q)'
    <3>1. \A i \in 1 .. R : delivered[p][i] = log[q][i]
      BY <1>1 DEF Agreement, HistoryAgrees
    <3> QED
      BY <1>1, <1>2, <1>3, <1>6, <3>1 DEF Agreement, HistoryAgrees
  <2>2. HistoryAgrees(p)'
    BY <1>1, <1>5 DEF Agreement, HistoryAgrees
  <2> QED
    BY <1>1, <2>1, <2>2 DEF Peer
<1>8. HistoryGrows
  <2>1. \A r \in Peer : Len(log[r]) \in Nat /\ Len(delivered[r]) \in Nat
    BY DEF TypeOK
  <2>2. \A r \in Peer : r = p \/ r = q
    BY <1>1 DEF Peer
  <2>3. /\ Len(delivered'[p]) \in Nat /\ Len(delivered[p]) <= Len(delivered'[p])
        /\ delivered'[q] = delivered[q]
    BY <1>2, <1>5, <1>6
  <2>4. ASSUME NEW r \in Peer
        PROVE  Len(delivered'[r]) \in Nat /\ Len(delivered[r]) <= Len(delivered'[r])
    <3>1. CASE r = p
      BY <2>3, <3>1
    <3>2. CASE r = q
      <4>1. r # p
        BY <1>1, <3>2
      <4>2. Len(delivered[r]) \in Nat
        BY <2>1
      <4> QED
        BY <4>1, <4>2 DEF TypeOK
    <3> QED
      BY <2>2, <3>1, <3>2
  <2>5. log' = log
    OBVIOUS
  <2>6. \A r \in Peer :
          /\ Len(log[r]) \in Nat /\ Len(log'[r]) \in Nat /\ Len(log[r]) <= Len(log'[r])
          /\ \A i \in 1 .. Len(log[r]) : log'[r][i] = log[r][i]
    BY <2>1, <2>5
  <2> QED
    BY <2>1, <2>4, <2>6 DEF HistoryGrows
<1>9. \A x \in net' : DatagramAgrees(x)'
  <2>1. ASSUME NEW x \in net PROVE DatagramAgrees(x)'
    <3>1. x \in Datagram /\ x.to \in Peer
      BY DEF TypeOK, Datagram
    <3>2. DatagramAgrees(x) /\ Len(delivered[Other(x.to)]) <= Len(log[x.to])
      BY <3>1 DEF Agreement, HistoryAgrees
    <3> QED
      BY <1>8, <3>1, <3>2, DatagramFrame
  <2>2. ASSUME NEW x \in Responses(p, s, d, n) PROVE DatagramAgrees(x)'
    <3>1. PICK i \in 1 .. n : x = DataResponse(q, SeqAdd(s.recv_seq, i), Len(Item(s, d, i)))
      BY DEF Responses
    <3>2. i \in 0 .. MaxWindow /\ R + i \in 1 .. Len(delivered'[p])
      BY <1>2, <1>6
    <3>3. SeqAdd(s.recv_seq, i) = NthSeq(R + i) /\ Item(s, d, i) = log'[q][R + i]
      BY <1>3, <3>2
    <3>4. /\ x.oper = "data_response" /\ x.to = q /\ x.seq = NthSeq(R + i)
          /\ x.value = Len(log'[q][R + i])
      BY <3>1, <3>3 DEF DataResponse
    <3> QED
      BY <1>1, <3>2, <3>4 DEF DatagramAgrees
  <2> QED
    BY <2>1, <2>2
<1>10. ASSUME NEW r \in Peer, Live(r)'
       PROVE  (SenderAgrees(r, sess[r]) /\ ReceiverAgrees(r, sess[r]) /\ Remembers(r, sess[r]))'
  <2>1. CASE r = q
    <3>1. sess'[q] = sess[q] /\ Live(q)
      BY <1>1, <1>10, <2>1 DEF Live, TypeOK
    <3>2. SenderAgrees(q, sess[q]) /\ ReceiverAgrees(q, sess[q]) /\ Remembers(q, sess[q])
      BY <1>1, <3>1 DEF Agreement
    <3>3. SenderAgrees(q, sess[q])'
      BY <1>1, <3>1, <3>2, SenderFrame
    <3>4. ReceiverAgrees(q, sess[q])'
      BY <1>1, <1>5, <1>8, <3>1, <3>2, ReceiverFrame DEF HistoryGrows
    <3>5. Remembers(q, sess[q])'
      BY <1>1, <1>8, <3>1, <3>2, RemembersFrame DEF HistoryGrows
    <3> QED
      BY <2>1, <3>3, <3>4, <3>5
  <2>2. CASE r = p
    <3>1. sess'[p] = s2 /\ s2.life = "live"
      BY <1>10, <2>2 DEF Live, TypeOK
    <3>2. SenderAgrees(p, sess[p])' /\ Remembers(p, sess[p])'
      BY <1>1, <1>4, <1>8, <3>1, SenderFrame, RemembersFrame DEF HistoryGrows
    <3>3. s2.recv_seq = NthSeq(R + n)
      BY <1>3, <3>1
    <3>4. ASSUME NEW h \in s2.recv_mess
          PROVE  \E k \in R + n + 2 .. N : Carries(q, h, k)
      <4>1. h \in s.recv_mess /\ \A i \in 2 .. n + 1 : h.seq # NthSeq(R + i)
        BY <3>1
      <4>2. PICK k \in R + 2 .. N : Carries(q, h, k)
        BY <1>4, <4>1 DEF ReceiverAgrees
      <4>3. ~(k <= R + n + 1)
        <5> SUFFICES ASSUME k <= R + n + 1 PROVE FALSE
          OBVIOUS
        <5>1. k - R \in 2 .. n + 1 /\ R + (k - R) = k
          BY <1>2
        <5> QED
          BY <4>1, <4>2, <5>1 DEF Carries
      <4>4. n \in Nat /\ N \in Nat /\ R \in Nat
        BY <1>2
      <4> HIDE DEF N, R
      <4>5. k \in R + n + 2 .. N
        BY <4>2, <4>3, <4>4
      <4> QED
        BY <4>2, <4>5
    <3>5. ReceiverAgrees(p, sess[p])'
      BY <1>6, <3>1, <3>3, <3>4 DEF ReceiverAgrees, Carries
    <3> QED
      BY <2>2, <3>2, <3>5
  <2> QED
    BY <1>1, <2>1, <2>2 DEF Peer
<1> QED
  BY <1>7, <1>9, <1>10 DEF Agreement

\* Reading a payload numbers it with its position in the log.
LEMMA ReadAgreement ==
    ASSUME NEW p \in Peer, TypeOK, TypeOK', NoReuse, Agreement, ProcessTcpRead(p)
    PROVE  Agreement'
<1> DEFINE s == sess[p]
           q == Other(p)
           N == Len(log[p])
<1>1. q \in Peer /\ Other(q) = p /\ q # p /\ \A r \in Peer : r = p \/ r = q
  BY OtherType DEF Peer
<1>2. /\ N \in Nat /\ Len(delivered[q]) \in Nat /\ Len(delivered[q]) <= N
      /\ N + 1 \in 0 .. SeqSpan - 1 /\ N \in 0 .. SeqSpan - 1 /\ N + 1 <= MaxMsg[p]
  <2>1. N < MaxMsg[p] /\ MaxMsg[p] \in Nat /\ MaxMsg[p] + MaxWindow < SeqSpan
    BY BoundsAssumption DEF ProcessTcpRead, NoReuse
  <2>2. N \in Nat /\ Len(delivered[q]) \in Nat /\ Len(delivered[q]) <= N /\ MaxWindow \in Nat
    BY Positions DEF Agreement
  <2> QED
    BY <2>1, <2>2, SeqSpanAssumption
<1>3. Live(p) /\ SenderAgrees(p, s) /\ ReceiverAgrees(p, s) /\ Remembers(p, s)
  BY DEF ProcessTcpRead, Live, Agreement
<1>4. PICK payload :
        /\ sess' = [sess EXCEPT ![p] = AddRequestMessage(s, payload)]
        /\ net' = net \cup {DataRequest(q, SeqAdd(s.send_seq, 1), payload)}
        /\ log' = [log EXCEPT ![p] = Append(@, payload)]
        /\ UNCHANGED <<delivered, window>>
  BY DEF ProcessTcpRead
<1>5. SeqAdd(s.send_seq, 1) = NthSeq(N + 1)
  <2>1. s.send_seq = NthSeq(N)
    BY <1>3 DEF SenderAgrees
  <2>2. N + 1 < SeqSpan
    BY <1>2, SeqSpanAssumption
  <2>3. SeqAdd(NthSeq(N), 1) = NthSeq(N + 1)
    <3> HIDE DEF N
    <3> QED
      BY <1>2, <2>2, NthSeqFacts
  <2> QED
    BY <2>1, <2>3
<1>6. /\ Len(log'[p]) = N + 1 /\ log'[p][N + 1] = payload
      /\ \A n \in 1 .. N : log'[p][n] = log[p][n]
      /\ log'[q] = log[q] /\ sess'[q] = sess[q]
  BY <1>1, <1>2, <1>4 DEF TypeOK
<1> DEFINE m == [seq |-> SeqAdd(s.send_seq, 1), payload |-> payload,
                 len |-> Len(payload), send_retries |-> 0, armed |-> TRUE]
<1>7. /\ sess'[p].send_seq = NthSeq(N + 1)
      /\ sess'[p].send_mess = s.send_mess \cup {m}
      /\ sess'[p].recv_seq = s.recv_seq /\ sess'[p].recv_mess = s.recv_mess
  <2>1. sess'[p] = [s EXCEPT !.send_seq = m.seq, !.send_mess = @ \cup {m},
                             !.send_buffer_count = @ + 1]
    BY <1>4 DEF AddRequestMessage, TypeOK
  <2>2. s \in Session
    BY DEF TypeOK
  <2>3. m.seq = NthSeq(N + 1)
    BY <1>5
  <2> HIDE DEF m, s
  <2> QED
    BY <2>1, <2>2, <2>3 DEF Session
<1>8. HistoryGrows
  <2>1. \A r \in Peer : Len(log[r]) \in Nat /\ Len(delivered[r]) \in Nat
    BY DEF TypeOK
  <2> SUFFICES ASSUME NEW r \in Peer
               PROVE  /\ Len(log'[r]) \in Nat /\ Len(log[r]) <= Len(log'[r])
                      /\ \A n \in 1 .. Len(log[r]) : log'[r][n] = log[r][n]
    BY <1>4, <2>1 DEF HistoryGrows
  <2>2. CASE r = p
    BY <1>2, <1>6, <2>2
  <2>3. CASE r = q
    BY <1>1, <1>6, <2>1, <2>3
  <2> QED
    BY <1>1, <2>2, <2>3
<1>9. \A r \in Peer : HistoryAgrees(r)'
  <2>1. HistoryAgrees(p)'
    BY <1>1, <1>2, <1>4, <1>6 DEF Agreement, HistoryAgrees
  <2>2. HistoryAgrees(q)'
    BY <1>1, <1>4, <1>6 DEF Agreement, HistoryAgrees
  <2> QED
    BY <1>1, <2>1, <2>2
<1>10. \A x \in net' : DatagramAgrees(x)'
  <2>1. ASSUME NEW x \in net PROVE DatagramAgrees(x)'
    <3>1. x \in Datagram /\ x.to \in Peer
      BY DEF TypeOK, Datagram
    <3>2. DatagramAgrees(x) /\ Len(delivered[Other(x.to)]) <= Len(log[x.to])
      BY <3>1 DEF Agreement, HistoryAgrees
    <3> QED
      BY <1>8, <3>1, <3>2, DatagramFrame
  <2>2. ASSUME NEW x, x = DataRequest(q, SeqAdd(s.send_seq, 1), payload)
        PROVE  DatagramAgrees(x)'
    <3>1. /\ x.oper = "data_request" /\ x.to = q /\ x.seq = NthSeq(N + 1)
          /\ x.payload = log'[p][N + 1]
      BY <1>5, <1>6, <2>2 DEF DataRequest
    <3>2. N + 1 \in 1 .. Len(log'[p])
      BY <1>2, <1>6
    <3> QED
      BY <1>1, <3>1, <3>2 DEF DatagramAgrees, Carries
  <2> QED
    BY <1>4, <2>1, <2>2
<1>11. SenderAgrees(p, sess[p])'
  <2>1. ASSUME NEW x \in sess'[p].send_mess
        PROVE  x.len = Len(x.payload)
               /\ \E n \in 1 .. N + 1 : x.seq = NthSeq(n) /\ x.payload = log'[p][n]
    <3>1. CASE x = m
      <4>1. x.len = Len(x.payload) /\ x.seq = NthSeq(N + 1) /\ x.payload = log'[p][N + 1]
        BY <1>5, <1>6, <3>1
      <4>2. N + 1 \in 1 .. N + 1
        BY <1>2
      <4> QED
        BY <4>1, <4>2
    <3>2. CASE x \in s.send_mess
      <4>1. x.len = Len(x.payload)
        BY <1>3, <3>2 DEF SenderAgrees
      <4>2. PICK n \in 1 .. N : x.seq = NthSeq(n) /\ x.payload = log[p][n]
        BY <1>3, <3>2 DEF SenderAgrees, Carries
      <4>3. n \in 1 .. N + 1 /\ log'[p][n] = log[p][n]
        BY <1>2, <1>6
      <4> QED
        BY <4>1, <4>2, <4>3
    <3> HIDE DEF m
    <3> QED
      BY <1>7, <3>1, <3>2
  <2> QED
    BY <1>6, <1>7, <2>1 DEF SenderAgrees, Carries
<1>12. Remembers(p, sess[p])'
  <2> SUFFICES ASSUME NEW n \in Len(delivered[q]) + 1 .. N + 1
               PROVE  \E x \in sess'[p].send_mess : x.seq = NthSeq(n)
    BY <1>4, <1>6 DEF Remembers
  <2>1. CASE n = N + 1
    <3>1. m.seq = NthSeq(n)
      BY <1>5, <2>1
    <3> HIDE DEF m
    <3> QED
      BY <1>7, <3>1
  <2>2. CASE n # N + 1
    <3>1. n \in Len(delivered[q]) + 1 .. N
      BY <1>2, <2>2
    <3>2. \E x \in s.send_mess : x.seq = NthSeq(n)
      BY <1>3, <3>1 DEF Remembers
    <3> HIDE DEF m
    <3> QED
      BY <1>7, <3>2
  <2> QED
    BY <2>1, <2>2
<1>13. ReceiverAgrees(p, sess[p])'
  BY <1>1, <1>3, <1>4, <1>7, <1>8, ReceiverFrame DEF HistoryGrows
<1>14. ASSUME Live(q)'
       PROVE  (SenderAgrees(q, sess[q]) /\ ReceiverAgrees(q, sess[q]) /\ Remembers(q, sess[q]))'
  <2>1. SenderAgrees(q, sess[q]) /\ ReceiverAgrees(q, sess[q]) /\ Remembers(q, sess[q])
    BY <1>1, <1>6, <1>14 DEF Live, Agreement
  <2>2. SenderAgrees(q, sess[q])'
    BY <1>1, <1>6, <2>1, SenderFrame
  <2>3. ReceiverAgrees(q, sess[q])'
    BY <1>1, <1>4, <1>6, <1>8, <2>1, ReceiverFrame DEF HistoryGrows
  <2>4. Remembers(q, sess[q])'
    BY <1>1, <1>4, <1>6, <1>8, <2>1, RemembersFrame DEF HistoryGrows
  <2> QED
    BY <2>2, <2>3, <2>4
<1> QED
  BY <1>1, <1>9, <1>10, <1>11, <1>12, <1>13, <1>14 DEF Agreement

\* Datagrams that claim nothing.
LEMMA SilentDatagrams ==
    ASSUME NEW p, NEW seq
    PROVE  /\ DatagramAgrees(CloseRequest(p))
           /\ DatagramAgrees(RetransRequest(p, seq))
           /\ DatagramAgrees(DataResponse(p, seq, 0))
           /\ DatagramAgrees(DataResponse(p, seq, -1))
BY DEF DatagramAgrees, CloseRequest, RetransRequest, DataResponse

LEMMA SilentStep ==
    ASSUME NEW p \in Peer, NEW s2, TypeOK, Agreement,
           UNCHANGED <<log, delivered>>,
           sess' = [sess EXCEPT ![p] = s2],
           net' \subseteq net,
           s2.life = "live" =>
             SenderAgrees(p, s2) /\ ReceiverAgrees(p, s2) /\ Remembers(p, s2)
    PROVE  Agreement'
<1> DEFINE out == {CloseRequest(p)}
<1>1. net' \subseteq net \cup out
  OBVIOUS
<1>2. \A d \in out : DatagramAgrees(d)
  BY SilentDatagrams
<1> HIDE DEF out
<1> QED
  BY <1>1, <1>2, QuietStep

LEMMA FreedLife ==
    ASSUME NEW why
    PROVE  Freed(why).life = why
BY DEF Freed

\* A message on the queue transmits the payload of its number.
LEMMA TransmissionAgrees ==
    ASSUME NEW p \in Peer, NEW s, NEW m \in s.send_mess, SenderAgrees(p, s)
    PROVE  \A d \in Transmission(p, m) : DatagramAgrees(d)
<1>1. Other(Other(p)) = p
  BY OtherType
<1>2. PICK n \in 1 .. Len(log[p]) : m.seq = NthSeq(n) /\ m.payload = log[p][n]
  BY DEF SenderAgrees, Carries
<1>3. DatagramAgrees(DataRequest(Other(p), m.seq, m.payload))
  BY <1>1, <1>2 DEF DatagramAgrees, DataRequest, Carries
<1> QED
  BY <1>3 DEF Transmission

LEMMA DeleteAgreement ==
    ASSUME NEW p \in Peer, NEW why \in Life \ {"live"}, TypeOK, Agreement,
           DeleteSession(p, why), UNCHANGED <<log, delivered>>
    PROVE  Agreement'
<1>1. Freed(why).life # "live"
  BY FreedLife
<1>2. /\ sess' = [sess EXCEPT ![p] = Freed(why)]
      /\ net' \subseteq net \cup {CloseRequest(Other(p))}
  BY DEF DeleteSession
<1>3. \A d \in {CloseRequest(Other(p))} : DatagramAgrees(d)
  BY SilentDatagrams
<1> QED
  BY <1>1, <1>2, <1>3, QuietStep

LEMMA SettleAgreement ==
    ASSUME NEW p \in Peer, NEW s, NEW out, TypeOK, Agreement,
           SettleSession(p, s, out), UNCHANGED <<log, delivered>>,
           SenderAgrees(p, s), ReceiverAgrees(p, s), Remembers(p, s),
           \A d \in out : DatagramAgrees(d)
    PROVE  Agreement'
<1>1. CASE Deletable(s)
  <2>1. Freed("closing").life # "live"
    BY FreedLife
  <2>2. /\ sess' = [sess EXCEPT ![p] = Freed("closing")]
        /\ net' \subseteq net \cup (out \cup {CloseRequest(Other(p))})
    BY <1>1 DEF SettleSession
  <2>3. \A d \in out \cup {CloseRequest(Other(p))} : DatagramAgrees(d)
    BY SilentDatagrams
  <2> QED
    BY <2>1, <2>2, <2>3, QuietStep
<1>2. CASE ~Deletable(s)
  <2>1. sess' = [sess EXCEPT ![p] = s] /\ net' \subseteq net \cup out
    BY <1>2 DEF SettleSession
  <2> QED
    BY <2>1, QuietStep
<1> QED
  BY <1>1, <1>2

\* Replacing a queued message by one of the same number, payload and length.
LEMMA ReplaceAgrees ==
    ASSUME NEW p \in Peer, NEW s, NEW s2, NEW m \in s.send_mess, NEW m2,
           SenderAgrees(p, s), ReceiverAgrees(p, s), Remembers(p, s),
           m2.seq = m.seq, m2.payload = m.payload, m2.len = m.len,
           s2.send_seq = s.send_seq, s2.send_mess = (s.send_mess \ {m}) \cup {m2},
           s2.recv_seq = s.recv_seq, s2.recv_mess = s.recv_mess
    PROVE  SenderAgrees(p, s2) /\ ReceiverAgrees(p, s2) /\ Remembers(p, s2)
<1>1. SenderAgrees(p, s2)
  BY DEF SenderAgrees, Carries
<1>2. ReceiverAgrees(p, s2)
  BY DEF ReceiverAgrees
<1>3. Remembers(p, s2)
  BY DEF Remembers
<1> QED
  BY <1>1, <1>2, <1>3

LEMMA TimeoutAgreement ==
    ASSUME NEW p \in Peer, TypeOK, Agreement, RequestTimeout(p)
    PROVE  Agreement'
<1> DEFINE s == sess[p]
<1>1. s \in Session /\ SenderAgrees(p, s) /\ ReceiverAgrees(p, s) /\ Remembers(p, s)
  BY DEF TypeOK, Agreement, RequestTimeout, Live
<1>2. PICK m \in s.send_mess :
        LET again == m.send_retries <= window[p]
            m2 == [m EXCEPT !.send_retries = @ + 1, !.armed = again]
            s2 == [s EXCEPT !.send_mess = (@ \ {m}) \cup {m2}]
        IN  IF again
            THEN /\ sess' = [sess EXCEPT ![p] = s2]
                 /\ net' = net \cup Transmission(p, m)
            ELSE SettleSession(p, [s2 EXCEPT !.status = 3], {})
  BY DEF RequestTimeout
<1> DEFINE again == m.send_retries <= window[p]
           m2 == [m EXCEPT !.send_retries = @ + 1, !.armed = again]
           s2 == [s EXCEPT !.send_mess = (@ \ {m}) \cup {m2}]
           s3 == [s2 EXCEPT !.status = 3]
<1>3. m \in Message
  BY <1>1 DEF Session
<1>4. m2.seq = m.seq /\ m2.payload = m.payload /\ m2.len = m.len
  <2> HIDE DEF again
  <2> QED
    BY <1>3 DEF Message
<1>5. /\ s2.send_seq = s.send_seq /\ s2.send_mess = (s.send_mess \ {m}) \cup {m2}
      /\ s2.recv_seq = s.recv_seq /\ s2.recv_mess = s.recv_mess
      /\ s3.send_seq = s.send_seq /\ s3.send_mess = (s.send_mess \ {m}) \cup {m2}
      /\ s3.recv_seq = s.recv_seq /\ s3.recv_mess = s.recv_mess
  <2> HIDE DEF m2, s
  <2> QED
    BY <1>1 DEF Session
<1>6. UNCHANGED <<log, delivered>>
  BY DEF RequestTimeout
<1>7. CASE again
  <2>1. sess' = [sess EXCEPT ![p] = s2] /\ net' \subseteq net \cup Transmission(p, m)
    BY <1>2, <1>7
  <2> HIDE DEF m2, s2, s
  <2>2. SenderAgrees(p, s2) /\ ReceiverAgrees(p, s2) /\ Remembers(p, s2)
    BY <1>1, <1>4, <1>5, ReplaceAgrees
  <2>3. \A d \in Transmission(p, m) : DatagramAgrees(d)
    BY <1>1, TransmissionAgrees
  <2> QED
    BY <1>6, <2>1, <2>2, <2>3, QuietStep
<1>8. CASE ~again
  <2>1. SettleSession(p, s3, {})
    BY <1>2, <1>8
  <2> HIDE DEF m2, s2, s, s3
  <2>2. SenderAgrees(p, s3) /\ ReceiverAgrees(p, s3) /\ Remembers(p, s3)
    BY <1>1, <1>4, <1>5, ReplaceAgrees
  <2> QED
    BY <1>6, <2>1, <2>2, SettleAgreement
<1> QED
  BY <1>7, <1>8

\* A positive answer is that of a complete write of the same payload.
LEMMA AnswerMeansWritten ==
    ASSUME NEW p \in Peer, NEW d \in net, NEW m \in sess[p].send_mess,
           TypeOK, NoReuse, Agreement, Live(p), d.to = p,
           d.oper = "data_response", d.value > 0, m.seq = d.seq
    PROVE  /\ d.value = m.len
           /\ \E n \in 1 .. Len(delivered[Other(p)]) : m.seq = NthSeq(n)
<1>1. PICK n \in 1 .. Len(delivered[Other(p)]) : d.seq = NthSeq(n) /\ d.value = Len(log[p][n])
  BY DEF Agreement, DatagramAgrees
<1>2. PICK k \in 1 .. Len(log[p]) : m.seq = NthSeq(k) /\ m.payload = log[p][k]
  BY DEF Agreement, SenderAgrees, Carries
<1>3. m.len = Len(m.payload)
  BY DEF Agreement, SenderAgrees
<1>4. k \in 0 .. SeqSpan - 1 /\ n \in 0 .. SeqSpan - 1
  BY Positions, SeqSpanAssumption DEF Agreement
<1>5. n = k
  BY <1>1, <1>2, <1>4, NthSeqFacts
<1> QED
  BY <1>1, <1>2, <1>3, <1>5

LEMMA ResponseAgreement ==
    ASSUME NEW p \in Peer, NEW d \in net, TypeOK, NoReuse, Agreement, d.to = p,
           HandleDataResponse(p, d)
    PROVE  Agreement'
<1> DEFINE s == sess[p]
<1>1. /\ s \in Session /\ Live(p)
      /\ SenderAgrees(p, s) /\ ReceiverAgrees(p, s) /\ Remembers(p, s)
      /\ d.oper = "data_response" /\ d.value \in Int
      /\ UNCHANGED <<log, delivered>>
  BY DEF TypeOK, Datagram, Agreement, HandleDataResponse, Live
<1>2. PICK m \in s.send_mess :
        /\ m.seq = d.seq
        /\ \/ /\ d.value = m.len
              /\ SettleSession(p, DeleteRequestMessage(s, m), {})
           \/ /\ d.value # m.len /\ d.value >= 0
              /\ LET m2 == IF d.value > 0 THEN Shrink(m, d.value) ELSE m
                 IN SettleSession(p, [s EXCEPT !.send_mess = (@ \ {m}) \cup {m2}], {})
           \/ DeleteSession(p, "error")
  BY DEF HandleDataResponse
<1>3. d.value > 0 => /\ d.value = m.len
                     /\ \E n \in 1 .. Len(delivered[Other(p)]) : m.seq = NthSeq(n)
  BY <1>1, <1>2, AnswerMeansWritten
<1>4. CASE d.value = m.len /\ SettleSession(p, DeleteRequestMessage(s, m), {})
  <2> DEFINE s2 == DeleteRequestMessage(s, m)
  <2>1. /\ s2.send_seq = s.send_seq /\ s2.send_mess = s.send_mess \ {m}
        /\ s2.recv_seq = s.recv_seq /\ s2.recv_mess = s.recv_mess
    BY <1>1 DEF DeleteRequestMessage, Session
  <2>2. m.len > 0
    <3>1. PICK k \in 1 .. Len(log[p]) : m.payload = log[p][k]
      BY <1>1 DEF SenderAgrees, Carries
    <3>2. log[p][k] \in Payload
      BY DEF TypeOK
    <3>3. m.len = Len(m.payload)
      BY <1>1 DEF SenderAgrees
    <3> QED
      BY <3>1, <3>2, <3>3 DEF Payload
  <2>3. PICK n \in 1 .. Len(delivered[Other(p)]) : m.seq = NthSeq(n)
    BY <1>3, <1>4, <2>2
  <2>4. Remembers(p, s2)
    <3> SUFFICES ASSUME NEW k \in Len(delivered[Other(p)]) + 1 .. Len(log[p])
                 PROVE  \E x \in s2.send_mess : x.seq = NthSeq(k)
      BY DEF Remembers
    <3>1. PICK x \in s.send_mess : x.seq = NthSeq(k)
      BY <1>1 DEF Remembers
    <3>2. k \in 0 .. SeqSpan - 1 /\ n \in 0 .. SeqSpan - 1 /\ k # n
      BY Positions, SeqSpanAssumption DEF Agreement
    <3>3. x # m
      BY <2>3, <3>1, <3>2, NthSeqFacts
    <3> QED
      BY <2>1, <3>1, <3>3
  <2>5. SenderAgrees(p, s2) /\ ReceiverAgrees(p, s2)
    BY <1>1, <2>1 DEF SenderAgrees, ReceiverAgrees
  <2> HIDE DEF s2
  <2> QED
    BY <1>1, <1>4, <2>4, <2>5, SettleAgreement DEF s2
<1>5. CASE /\ d.value # m.len /\ d.value >= 0
           /\ LET m2 == IF d.value > 0 THEN Shrink(m, d.value) ELSE m
              IN SettleSession(p, [s EXCEPT !.send_mess = (@ \ {m}) \cup {m2}], {})
  <2> DEFINE s2 == [s EXCEPT !.send_mess = (@ \ {m}) \cup {m}]
  <2>1. ~(d.value > 0)
    BY <1>3, <1>5
  <2>2. SettleSession(p, s2, {})
    BY <1>5, <2>1
  <2>3. /\ s2.send_seq = s.send_seq /\ s2.send_mess = (s.send_mess \ {m}) \cup {m}
        /\ s2.recv_seq = s.recv_seq /\ s2.recv_mess = s.recv_mess
    BY <1>1 DEF Session
  <2> HIDE DEF s2, s
  <2>4. SenderAgrees(p, s2) /\ ReceiverAgrees(p, s2) /\ Remembers(p, s2)
    BY <1>1, <2>3, ReplaceAgrees
  <2> QED
    BY <1>1, <2>2, <2>4, SettleAgreement
<1>6. CASE DeleteSession(p, "error")
  BY <1>1, <1>6, DeleteAgreement DEF Life
<1> QED
  BY <1>2, <1>4, <1>5, <1>6

LEMMA AheadAgreement ==
    ASSUME NEW p \in Peer, NEW d \in net, TypeOK, NoReuse, Agreement, d.to = p,
           HandleDataRequestAhead(p, d)
    PROVE  Agreement'
<1> DEFINE s == sess[p]
           q == Other(p)
           R == Len(delivered[p])
           new == [seq |-> d.seq, payload |-> d.payload]
<1>1. /\ s \in Session
      /\ SenderAgrees(p, s) /\ ReceiverAgrees(p, s) /\ Remembers(p, s)
      /\ d.oper = "data_request" /\ SeqDiff(d.seq, s.recv_seq) \in 2 .. MaxWindow
      /\ UNCHANGED <<log, delivered>>
  <2>1. window[p] \in 1 .. MaxWindow /\ SeqDiff(d.seq, s.recv_seq) \in 2 .. window[p]
    BY DEF TypeOK, HandleDataRequestAhead
  <2>2. SeqDiff(d.seq, s.recv_seq) \in 2 .. MaxWindow
    BY <2>1, WindowType
  <2> QED
    BY <2>2 DEF TypeOK, Agreement, HandleDataRequestAhead, Live
<1> DEFINE Keep(v) == (\A h \in s.recv_mess : h.seq # d.seq) /\ s.recv_buffer_count < v
           HeldThen(v) == IF Keep(v) THEN s.recv_mess \cup {new} ELSE s.recv_mess
           AskedFor(v, w) == Asked(s.recv_seq, HeldThen(v), d.seq, s.retry_seq, w)
<1> DEFINE Ahead(v, w) ==
        /\ window' = [window EXCEPT ![p] = w]
        /\ sess' = [sess EXCEPT ![p] =
                      [s EXCEPT !.recv_mess = HeldThen(v),
                                !.recv_buffer_count = IF Keep(v) THEN @ + 1 ELSE @,
                                !.retry_seq = RetrySeq(s.recv_seq, AskedFor(v, w), @)]]
        /\ net' = net \cup {RetransRequest(q, t) : t \in AskedFor(v, w)}
<1>a. PICK v \in {window[p]} \cup Settable : \E w \in {v} \cup Settable : Ahead(v, w)
  BY DEF HandleDataRequestAhead
<1>0. PICK w \in {v} \cup Settable : Ahead(v, w)
  BY <1>a
<1> DEFINE keep == Keep(v)
           held == IF keep THEN s.recv_mess \cup {new} ELSE s.recv_mess
           asked == Asked(s.recv_seq, held, d.seq, s.retry_seq, w)
           count == IF keep THEN s.recv_buffer_count + 1 ELSE s.recv_buffer_count
           retry == RetrySeq(s.recv_seq, asked, s.retry_seq)
           s2 == [s EXCEPT !.recv_mess = held, !.recv_buffer_count = count,
                           !.retry_seq = retry]
           out == {RetransRequest(q, t) : t \in asked}
<1>2. /\ held \subseteq s.recv_mess \cup {new}
      /\ sess' = [sess EXCEPT ![p] = s2]
      /\ net' = net \cup out
  BY <1>0
<1> HIDE DEF held, asked, count, retry
<1>3. /\ s2.send_seq = s.send_seq /\ s2.send_mess = s.send_mess
      /\ s2.recv_seq = s.recv_seq /\ s2.recv_mess = held
  <2>1. s \in Session
    BY <1>1
  <2> HIDE DEF s
  <2> QED
    BY <2>1 DEF Session
<1>4. \E k \in R + 2 .. Len(log[q]) : new.seq = NthSeq(k) /\ new.payload = log[q][k]
  <2>1. PICK k \in 1 .. Len(log[q]) : d.seq = NthSeq(k) /\ d.payload = log[q][k]
    BY <1>1 DEF Agreement, DatagramAgrees, Carries
  <2>2. /\ R \in Nat /\ Len(log[q]) \in Nat /\ R <= Len(log[q])
        /\ MaxWindow \in Nat /\ Len(log[q]) + MaxWindow < SeqSpan
    BY OtherType, Positions DEF Agreement
  <2>3. k \in 0 .. SeqSpan - 1 /\ R \in 0 .. SeqSpan - 1
    BY <2>2, SeqSpanAssumption
  <2>4. SeqDiff(NthSeq(k), NthSeq(R)) \in 2 .. MaxWindow
    BY <1>1, <2>1 DEF ReceiverAgrees
  <2>5. (IF k >= R THEN k - R ELSE k - R + SeqSpan) \in 2 .. MaxWindow
    BY <2>3, <2>4, NthSeqFacts
  <2>6. k \in R + 2 .. Len(log[q])
    <3> DEFINE N == Len(log[q])
               W == MaxWindow
    <3>1. k \in 1 .. N /\ N \in Nat /\ R \in Nat /\ R <= N /\ W \in Nat /\ N + W < SeqSpan
      BY <2>1, <2>2
    <3>2. (IF k >= R THEN k - R ELSE k - R + SeqSpan) \in 2 .. W
      BY <2>5
    <3> HIDE DEF N, W, R
    <3>3. k \in R + 2 .. N
      BY <3>1, <3>2, SeqSpanAssumption
    <3> QED
      BY <3>3 DEF N, R
  <2> QED
    BY <2>1, <2>6
<1>5. ReceiverAgrees(p, s2)
  <2> HIDE DEF s2, new
  <2> QED
    BY <1>1, <1>2, <1>3, <1>4 DEF ReceiverAgrees, Carries
<1>6. SenderAgrees(p, s2) /\ Remembers(p, s2)
  <2> HIDE DEF s2
  <2> QED
    BY <1>1, <1>3 DEF SenderAgrees, Remembers
<1>7. \A x \in out : DatagramAgrees(x)
  BY SilentDatagrams
<1>8. sess' = [sess EXCEPT ![p] = s2] /\ net' \subseteq net \cup out
  BY <1>2
<1> HIDE DEF s2, out
<1> QED
  BY <1>1, <1>5, <1>6, <1>7, <1>8, QuietStep

\* What the loop leaves of the session after n writes and the given fetches.
LEMMA AdvanceFields ==
    ASSUME NEW s \in Session, NEW n, NEW k
    PROVE  /\ Advance(s, n, k).send_seq = s.send_seq
           /\ Advance(s, n, k).send_mess = s.send_mess
           /\ Advance(s, n, k).recv_seq = SeqAdd(s.recv_seq, n)
           /\ Advance(s, n, k).recv_mess = s.recv_mess \ Fetched(s, k)
           /\ [Advance(s, n, k) EXCEPT !.status = 3].send_seq = s.send_seq
           /\ [Advance(s, n, k) EXCEPT !.status = 3].send_mess = s.send_mess
           /\ [Advance(s, n, k) EXCEPT !.status = 3].recv_seq = SeqAdd(s.recv_seq, n)
           /\ [Advance(s, n, k) EXCEPT !.status = 3].recv_mess = s.recv_mess \ Fetched(s, k)
BY DEF Advance, Session

LEMMA NextAgreement ==
    ASSUME NEW p \in Peer, NEW d \in net, TypeOK, TypeOK', NoReuse, Agreement, d.to = p,
           HandleDataRequestNext(p, d)
    PROVE  Agreement'
<1> DEFINE s == sess[p]
           R == Len(delivered[p])
<1>1. PICK n \in 1 .. MaxWindow :
        /\ \A i \in 1 .. n : Available(s, i)
        /\ ~Available(s, n + 1)
        /\ sess' = [sess EXCEPT ![p] = Advance(s, n, n)]
        /\ net' = net \cup Responses(p, s, d, n)
        /\ delivered' = [delivered EXCEPT ![p] = @ \o Written(s, d, n)]
  BY DEF HandleDataRequestNext
<1>2. IsNext(p, d) /\ UNCHANGED log /\ s \in Session
  BY DEF HandleDataRequestNext, TypeOK
<1>3. MaxWindow \in Nat /\ MaxWindow >= 1 /\ n \in 0 .. MaxWindow /\ n \in Nat /\ n + 1 # 1
  BY WindowType
<1>4. /\ \A i \in 0 .. MaxWindow : SeqAdd(s.recv_seq, i) = NthSeq(R + i)
      /\ R + n <= Len(log[Other(p)])
  BY <1>1, <1>2, <1>3, LoopItems
<1>5. SeqAdd(s.recv_seq, n + 1) = NthSeq(R + (n + 1))
  <2>1. /\ R \in Nat /\ Len(log[Other(p)]) \in Nat
        /\ Len(log[Other(p)]) + MaxWindow < SeqSpan
    BY OtherType, Positions DEF Agreement
  <2>2. s.recv_seq = NthSeq(R)
    BY <1>2 DEF IsNext, Live, Agreement, ReceiverAgrees
  <2>3. R \in 0 .. SeqSpan - 1 /\ n + 1 \in Nat /\ R + (n + 1) < SeqSpan
    <3> DEFINE N == Len(log[Other(p)])
    <3>1. R \in Nat /\ N \in Nat /\ N + MaxWindow < SeqSpan /\ R + n <= N
      BY <1>4, <2>1
    <3>2. MaxWindow \in Nat /\ MaxWindow >= 1 /\ n \in Nat /\ SeqSpan \in Nat
      BY <1>3, SeqSpanAssumption
    <3> HIDE DEF R, N
    <3> QED
      BY <3>1, <3>2
  <2> QED
    BY <2>2, <2>3, NthSeqFacts
<1>6. ASSUME NEW h \in Advance(s, n, n).recv_mess
      PROVE  h \in s.recv_mess /\ \A i \in 2 .. n + 1 : h.seq # NthSeq(R + i)
  <2>1. h \in s.recv_mess /\ h \notin Fetched(s, n)
    BY <1>2, AdvanceFields
  <2>2. ASSUME NEW i \in 2 .. n PROVE h.seq # NthSeq(R + i)
    <3>1. i \in 0 .. MaxWindow
      BY <1>3
    <3>2. h.seq # SeqAdd(s.recv_seq, i)
      BY <2>1 DEF Fetched
    <3> QED
      BY <1>4, <3>1, <3>2
  <2>3. h.seq # NthSeq(R + (n + 1))
    BY <1>1, <1>3, <1>5, <2>1 DEF Available
  <2>4. \A i \in 2 .. n + 1 : i \in 2 .. n \/ i = n + 1
    BY <1>3
  <2> QED
    BY <2>1, <2>2, <2>3, <2>4
<1>7. LoopWrites(p, d, n)
  BY <1>1, <1>2, <1>3 DEF LoopWrites
<1>8. LoopLeaves(p, n, Advance(s, n, n))
  BY <1>1, <1>2, <1>6, AdvanceFields DEF LoopLeaves
<1>9. LoopSends(p, d, n, {})
  BY <1>1 DEF LoopSends
<1> QED
  BY <1>7, <1>8, <1>9, LoopStep

LEMMA FreedAgreement ==
    ASSUME NEW p \in Peer, NEW d \in net, TypeOK, TypeOK', NoReuse, Agreement, d.to = p,
           HandleDataRequestFreed(p, d)
    PROVE  Agreement'
<1> DEFINE s == sess[p]
<1>1. PICK n \in 1 .. MaxWindow - 1 :
        /\ \A i \in 1 .. n + 1 : Available(s, i)
        /\ sess' = [sess EXCEPT ![p] = Freed("corrupt")]
        /\ net' = net \cup Responses(p, s, d, n) \cup {CloseRequest(Other(p))}
        /\ delivered' = [delivered EXCEPT ![p] = @ \o Written(s, d, n)]
  BY DEF HandleDataRequestFreed
<1>2. IsNext(p, d) /\ UNCHANGED log
  BY DEF HandleDataRequestFreed
<1>3. n \in 0 .. MaxWindow /\ \A i \in 1 .. n : Available(s, i)
  BY <1>1, WindowType
<1>4. Freed("corrupt").life # "live"
  BY FreedLife
<1>5. \A x \in {CloseRequest(Other(p))} : DatagramAgrees(x)'
  BY DEF CloseRequest, DatagramAgrees
<1>6. LoopWrites(p, d, n)
  BY <1>1, <1>2, <1>3 DEF LoopWrites
<1>7. LoopLeaves(p, n, Freed("corrupt"))
  BY <1>1, <1>4 DEF LoopLeaves
<1>8. LoopSends(p, d, n, {CloseRequest(Other(p))})
  BY <1>1, <1>5 DEF LoopSends
<1> QED
  BY <1>6, <1>7, <1>8, LoopStep

LEMMA StuckAgreement ==
    ASSUME NEW p \in Peer, NEW d \in net, TypeOK, TypeOK', AllOrNothing, NoReuse, Agreement,
           d.to = p, HandleDataRequestStuck(p, d)
    PROVE  Agreement'
<1> DEFINE s == sess[p]
           R == Len(delivered[p])
<1>1. PICK n \in 0 .. MaxWindow - 1 :
        LET s2 == Advance(s, n, n + 1)
            out == {DataResponse(Other(p), SeqAdd(s.recv_seq, n + 1), -1)}
        IN  /\ \A i \in 1 .. n + 1 : Available(s, i)
            /\ \/ /\ sess' = [sess EXCEPT ![p] = s2]
                  /\ net' = net \cup (Responses(p, s, d, n) \cup out)
               \/ SettleSession(p, [s2 EXCEPT !.status = 3], Responses(p, s, d, n) \cup out)
            /\ delivered' = [delivered EXCEPT ![p] = @ \o Written(s, d, n)]
  BY DEF HandleDataRequestStuck, AllOrNothing
<1> DEFINE s2 == Advance(s, n, n + 1)
           s3 == [s2 EXCEPT !.status = 3]
           reply == DataResponse(Other(p), SeqAdd(s.recv_seq, n + 1), -1)
           bye == CloseRequest(Other(p))
<1>2. IsNext(p, d) /\ UNCHANGED log /\ s \in Session
  BY DEF HandleDataRequestStuck, TypeOK
<1>3. /\ MaxWindow \in Nat /\ n \in 0 .. MaxWindow
      /\ \A i \in 1 .. n : Available(s, i)
  BY <1>1, WindowType
<1>4. \A i \in 0 .. MaxWindow : SeqAdd(s.recv_seq, i) = NthSeq(R + i)
  BY <1>2, <1>3, LoopItems
<1>5. \A h \in s.recv_mess \ Fetched(s, n + 1) :
        h \in s.recv_mess /\ \A i \in 2 .. n + 1 : h.seq # NthSeq(R + i)
  <2>1. ASSUME NEW h \in s.recv_mess \ Fetched(s, n + 1), NEW i \in 2 .. n + 1
        PROVE  h.seq # NthSeq(R + i)
    <3>1. h.seq # SeqAdd(s.recv_seq, i)
      BY DEF Fetched
    <3>2. i \in 0 .. MaxWindow
      BY <1>1, <1>3
    <3> QED
      BY <1>4, <3>1, <3>2
  <2> QED
    BY <2>1
<1>6. \A x \in {reply} : DatagramAgrees(x)'
  BY DEF DataResponse, DatagramAgrees
<1>7. \A x \in {reply, bye} : DatagramAgrees(x)'
  <2>1. DatagramAgrees(bye)'
    BY DEF CloseRequest, DatagramAgrees
  <2> HIDE DEF reply, bye
  <2> QED
    BY <1>6, <2>1
<1>8. /\ s2.send_seq = s.send_seq /\ s2.send_mess = s.send_mess
      /\ s2.recv_seq = SeqAdd(s.recv_seq, n)
      /\ s2.recv_mess = s.recv_mess \ Fetched(s, n + 1)
      /\ s3.send_seq = s.send_seq /\ s3.send_mess = s.send_mess
      /\ s3.recv_seq = SeqAdd(s.recv_seq, n)
      /\ s3.recv_mess = s.recv_mess \ Fetched(s, n + 1)
  BY <1>2, AdvanceFields
<1>9. LoopWrites(p, d, n)
  BY <1>1, <1>2, <1>3 DEF LoopWrites
<1> HIDE DEF s2, s3, reply, bye
<1>10. CASE sess' = [sess EXCEPT ![p] = s2] /\ net' = net \cup (Responses(p, s, d, n) \cup {reply})
  <2>1. LoopLeaves(p, n, s2)
    BY <1>5, <1>8, <1>10 DEF LoopLeaves
  <2>2. LoopSends(p, d, n, {reply})
    BY <1>6, <1>10 DEF LoopSends
  <2> QED
    BY <1>9, <2>1, <2>2, LoopStep
<1>11. CASE SettleSession(p, s3, Responses(p, s, d, n) \cup {reply})
  <2>1. CASE ~Deletable(s3)
    <3>1. /\ sess' = [sess EXCEPT ![p] = s3]
          /\ net' = net \cup Responses(p, s, d, n) \cup {reply}
      BY <1>11, <2>1 DEF SettleSession
    <3>2. LoopLeaves(p, n, s3)
      BY <1>5, <1>8, <3>1 DEF LoopLeaves
    <3>3. LoopSends(p, d, n, {reply})
      BY <1>6, <3>1 DEF LoopSends
    <3> QED
      BY <1>9, <3>2, <3>3, LoopStep
  <2>2. CASE Deletable(s3)
    <3>1. /\ sess' = [sess EXCEPT ![p] = Freed("closing")]
          /\ net' = net \cup Responses(p, s, d, n) \cup {reply, bye}
      BY <1>11, <2>2 DEF SettleSession, bye
    <3>2. Freed("closing").life # "live"
      BY FreedLife
    <3>3. LoopLeaves(p, n, Freed("closing"))
      BY <3>1, <3>2 DEF LoopLeaves
    <3>4. LoopSends(p, d, n, {reply, bye})
      BY <1>7, <3>1 DEF LoopSends
    <3> QED
      BY <1>9, <3>3, <3>4, LoopStep
  <2> QED
    BY <2>1, <2>2
<1> QED
  BY <1>1, <1>10, <1>11 DEF s2, s3, reply

LEMMA AgreementInit == Init => Agreement
<1> SUFFICES ASSUME Init PROVE Agreement
  OBVIOUS
<1>1. ASSUME NEW p \in Peer
      PROVE  log[p] = <<>> /\ delivered[p] = <<>> /\ delivered[Other(p)] = <<>>
  BY OtherType DEF Init
<1>2. \A p \in Peer : HistoryAgrees(p)
  BY <1>1, BoundsAssumption DEF HistoryAgrees
<1>3. NthSeq(0) = StartSeq
  BY SeqSpanAssumption, StartSeqAssumption DEF NthSeq, SeqAdd, SeqNum
<1>4. ASSUME NEW p \in Peer
      PROVE  SenderAgrees(p, sess[p]) /\ ReceiverAgrees(p, sess[p]) /\ Remembers(p, sess[p])
  <2>1. sess[p] = Established /\ Len(log[p]) = 0 /\ Len(delivered[p]) = 0
        /\ Len(delivered[Other(p)]) = 0
    BY <1>1 DEF Init
  <2> QED
    BY <1>3, <2>1 DEF Established, SenderAgrees, ReceiverAgrees, Remembers
<1> QED
  BY <1>2, <1>4 DEF Agreement, Init

LEMMA AgreementStep ==
    ASSUME AllOrNothing, NoReuse, TypeOK, TypeOK', Agreement, [Next]_vars
    PROVE  Agreement'
<1>1. CASE UNCHANGED vars
  BY <1>1 DEF vars, Agreement, HistoryAgrees, Live, SenderAgrees, ReceiverAgrees,
              Remembers, DatagramAgrees, Carries
<1>2. ASSUME NEW p \in Peer, ProcessTcpFull(p) PROVE Agreement'
  <2> DEFINE s2 == [sess[p] EXCEPT !.reading = FALSE]
  <2>1. /\ sess' = [sess EXCEPT ![p] = s2] /\ net' \subseteq net
        /\ UNCHANGED <<log, delivered>>
    BY <1>2 DEF ProcessTcpFull, TypeOK
  <2>2. SenderAgrees(p, sess[p]) /\ ReceiverAgrees(p, sess[p]) /\ Remembers(p, sess[p])
    BY <1>2 DEF ProcessTcpFull, Live, Agreement
  <2>3. /\ s2.send_seq = sess[p].send_seq /\ s2.send_mess = sess[p].send_mess
        /\ s2.recv_seq = sess[p].recv_seq /\ s2.recv_mess = sess[p].recv_mess
    BY DEF TypeOK, Session
  <2> HIDE DEF s2
  <2>4. SenderAgrees(p, s2) /\ ReceiverAgrees(p, s2) /\ Remembers(p, s2)
    BY <2>2, <2>3 DEF SenderAgrees, ReceiverAgrees, Remembers
  <2> QED
    BY <2>1, <2>4, SilentStep
<1>3. ASSUME NEW p \in Peer, ProcessTcpRead(p) PROVE Agreement'
  BY <1>3, ReadAgreement
<1>4. ASSUME NEW p \in Peer, ProcessTcpEof(p) PROVE Agreement'
  BY <1>4, DeleteAgreement DEF ProcessTcpEof, Life
<1>5. ASSUME NEW p \in Peer, RequestTimeout(p) PROVE Agreement'
  BY <1>5, TimeoutAgreement
<1>6. ASSUME NEW p \in Peer, SessionTimeout(p) PROVE Agreement'
  BY <1>6, DeleteAgreement DEF SessionTimeout, Life
<1>9. ASSUME NEW p \in Peer, SetContextOption(p) PROVE Agreement'
  <2>1. UNCHANGED <<sess, net, log, delivered>>
    BY <1>9 DEF SetContextOption
  <2> QED
    BY <2>1 DEF Agreement, HistoryAgrees, Live, SenderAgrees, ReceiverAgrees,
                Remembers, DatagramAgrees, Carries
<1>7. ASSUME NEW p \in Peer, NEW d \in net, ProcessUdp(p, d) PROVE Agreement'
  <2>1. d.to = p /\ sess = [sess EXCEPT ![p] = sess[p]]
    BY <1>7 DEF ProcessUdp, TypeOK
  <2>2. CASE HandleDataRequestOld(p, d)
    <3>1. /\ sess' = [sess EXCEPT ![p] = sess[p]] /\ UNCHANGED <<log, delivered>>
          /\ net' \subseteq net \cup {DataResponse(Other(p), d.seq, 0)}
      BY <2>1, <2>2 DEF HandleDataRequestOld
    <3>2. \A x \in {DataResponse(Other(p), d.seq, 0)} : DatagramAgrees(x)
      BY SilentDatagrams
    <3> QED
      BY <3>1, <3>2, QuietStep DEF Agreement, Live
  <2>3. CASE HandleDataRequestAhead(p, d)
    BY <2>1, <2>3, AheadAgreement
  <2>4. CASE HandleDataRequestNext(p, d)
    BY <2>1, <2>4, NextAgreement
  <2>5. CASE HandleDataRequestStuck(p, d)
    BY <2>1, <2>5, StuckAgreement
  <2>6. CASE HandleDataRequestFreed(p, d)
    BY <2>1, <2>6, FreedAgreement
  <2>7. CASE HandleDataResponse(p, d)
    BY <2>1, <2>7, ResponseAgreement
  <2>8. CASE HandleRetransRequest(p, d)
    <3>1. PICK m \in sess[p].send_mess : net' = net \cup Transmission(p, m)
      BY <2>8 DEF HandleRetransRequest
    <3>2. sess' = [sess EXCEPT ![p] = sess[p]] /\ UNCHANGED <<log, delivered>>
      BY <2>1, <2>8 DEF HandleRetransRequest
    <3>3. SenderAgrees(p, sess[p]) /\ ReceiverAgrees(p, sess[p]) /\ Remembers(p, sess[p])
      BY <2>8 DEF HandleRetransRequest, Live, Agreement
    <3>4. \A x \in Transmission(p, m) : DatagramAgrees(x)
      BY <3>3, TransmissionAgrees
    <3> QED
      BY <3>1, <3>2, <3>3, <3>4, QuietStep
  <2>9. CASE HandleCloseRequest(p, d)
    <3>1. /\ sess' = [sess EXCEPT ![p] = Freed("peer")] /\ UNCHANGED <<log, delivered>>
          /\ net' \subseteq net /\ Freed("peer").life # "live"
      BY <2>9, FreedLife DEF HandleCloseRequest
    <3> QED
      BY <3>1, SilentStep
  <2> QED
    BY <1>7, <2>2, <2>3, <2>4, <2>5, <2>6, <2>7, <2>8, <2>9 DEF ProcessUdp
<1> QED
  BY <1>1, <1>2, <1>3, <1>4, <1>5, <1>6, <1>7, <1>9 DEF Next

\* Agreement is inductive: whatever is on the wire, in send_mess_ or in
\* recv_mess_ under a sequence number is the payload that number stands for.
THEOREM AgreementInvariant ==
    ASSUME AllOrNothing, NoReuse
    PROVE  Spec => []Agreement
<1>1. TypeOK /\ TypeOK' /\ Agreement /\ [Next]_vars => Agreement'
  BY AgreementStep
<1> QED
  BY <1>1, AgreementInit, TypeCorrect, PTL DEF Spec

\* The byte stream: for every window, every loss, duplication and reordering
\* of datagrams, what t2u_session_handle_data_request writes to a TCP socket
\* is a prefix of what t2u_session_process_tcp has read from the other one.
THEOREM InOrderDelivery ==
    ASSUME AllOrNothing, NoReuse
    PROVE  Spec => []InOrder
<1>1. TypeOK /\ Agreement => InOrder
  <2> SUFFICES ASSUME TypeOK, Agreement, NEW p \in Peer
               PROVE  IsPrefix(delivered[Other(p)], log[p])
    BY DEF InOrder
  <2>1. delivered[Other(p)] \in Seq(Payload) /\ log[p] \in Seq(Payload)
    BY OtherType DEF TypeOK
  <2>2. /\ Len(delivered[Other(p)]) <= Len(log[p])
        /\ \A n \in 1 .. Len(delivered[Other(p)]) : delivered[Other(p)][n] = log[p][n]
    BY DEF Agreement, HistoryAgrees
  <2> QED
    BY <2>1, <2>2 DEF IsPrefix
<1> QED
  BY <1>1, TypeCorrect, AgreementInvariant, PTL

\* No payload is lost while its sender lives: one that the peer has not yet
\* written is still in send_mess_, whatever answers have come back.
THEOREM NothingIsForgotten ==
    ASSUME AllOrNothing, NoReuse
    PROVE  Spec => []NothingForgotten
<1>1. Agreement => NothingForgotten
  BY DEF Agreement, NothingForgotten
<1> QED
  BY <1>1, AgreementInvariant, PTL
=============================================================================

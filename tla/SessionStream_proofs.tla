------------------------ MODULE SessionStream_proofs ------------------------
(***************************************************************************)
(* A DataSession implements a Stream each way, for every value of the      *)
(* constants: every step is a step of the stream or leaves it alone.       *)
(***************************************************************************)
EXTENDS SessionStream, DataSession_proofs, SequenceTheorems

\* What a step of peer p may do to the two histories and the two lives.
Closes(p) == UNCHANGED <<log, delivered>> /\ (Live(p)' => Live(p))

Reads(p) ==
    /\ Live(p) /\ Live(p)' /\ UNCHANGED delivered
    /\ \E x \in Payload : log'[p] = Append(log[p], x)

Writes(p) ==
    /\ Live(p) /\ UNCHANGED log
    /\ \E w \in Seq(Payload) : delivered'[p] = delivered[p] \o w

StepOf(p) ==
    /\ Live(Other(p))' = Live(Other(p))
    /\ log'[Other(p)] = log[Other(p)] /\ delivered'[Other(p)] = delivered[Other(p)]
    /\ Closes(p) \/ Reads(p) \/ Writes(p)

\* A handler that writes nothing to the TCP socket leaves the histories alone.
LEMMA QuietStepOf ==
    ASSUME NEW p \in Peer, TypeOK, Live(p), UNCHANGED <<log, delivered>>, NEW s2,
           sess' = [sess EXCEPT ![p] = s2]
    PROVE  StepOf(p)
BY OtherType DEF StepOf, Closes, Live, TypeOK

LEMMA LoopStepOf ==
    ASSUME NEW p \in Peer, TypeOK, NEW d \in net, IsNext(p, d), UNCHANGED log,
           NEW n \in 0 .. MaxWindow, \A i \in 1 .. n : Available(sess[p], i),
           delivered' = [delivered EXCEPT ![p] = @ \o Written(sess[p], d, n)],
           NEW s2, sess' = [sess EXCEPT ![p] = s2]
    PROVE  StepOf(p)
<1>1. Written(sess[p], d, n) \in Seq(Payload)
  BY LoopTypes DEF TypeOK, IsNext
<1>2. Live(Other(p))' = Live(Other(p)) /\ delivered'[Other(p)] = delivered[Other(p)]
  BY OtherType DEF Live, TypeOK
<1>3. delivered'[p] = delivered[p] \o Written(sess[p], d, n) /\ Live(p)
  BY DEF TypeOK, IsNext, Live
<1> HIDE DEF Written
<1> QED
  BY <1>1, <1>2, <1>3 DEF StepOf, Writes

LEMMA ReadStepOf ==
    ASSUME NEW p \in Peer, TypeOK, TypeOK', ProcessTcpRead(p)
    PROVE  StepOf(p)
<1>1. PICK x :
        /\ sess' = [sess EXCEPT ![p] = AddRequestMessage(sess[p], x)]
        /\ log' = [log EXCEPT ![p] = Append(@, x)]
        /\ Live(p) /\ UNCHANGED delivered
  BY DEF ProcessTcpRead, Live
<1>2. AddRequestMessage(sess[p], x).life = sess[p].life
  BY DEF AddRequestMessage, TypeOK, Session
<1>3. Live(p)' /\ Live(Other(p))' = Live(Other(p)) /\ log'[Other(p)] = log[Other(p)]
  BY <1>1, <1>2, OtherType DEF Live, TypeOK
<1>4. log'[p] = Append(log[p], x)
  BY <1>1 DEF TypeOK
<1>5. x \in Payload
  <2>1. log[p] \in Seq(Payload) /\ Append(log[p], x) \in Seq(Payload)
    BY <1>4 DEF TypeOK
  <2>2. /\ Len(log[p]) + 1 \in 1 .. Len(Append(log[p], x))
        /\ Append(log[p], x)[Len(log[p]) + 1] = x
    BY <2>1, AppendProperties
  <2>3. Append(log[p], x)[Len(log[p]) + 1] \in Payload
    BY <2>1, <2>2, ElementOfSeq
  <2> QED
    BY <2>2, <2>3
<1> QED
  BY <1>1, <1>3, <1>4, <1>5 DEF StepOf, Reads

LEMMA ResponseStepOf ==
    ASSUME NEW p \in Peer, TypeOK, NEW d \in net, HandleDataResponse(p, d)
    PROVE  StepOf(p)
<1>1. \E s2 : sess' = [sess EXCEPT ![p] = s2]
  BY DEF HandleDataResponse, SettleSession, DeleteSession
<1> QED
  BY <1>1, QuietStepOf DEF HandleDataResponse, Live

LEMMA TimeoutStepOf ==
    ASSUME NEW p \in Peer, TypeOK, RequestTimeout(p)
    PROVE  StepOf(p)
<1>1. \E s2 : sess' = [sess EXCEPT ![p] = s2]
  BY DEF RequestTimeout, SettleSession
<1> QED
  BY <1>1, QuietStepOf DEF RequestTimeout, Live

\* The write loop has written n messages.
LoopRun(p, d, n) ==
    /\ \A i \in 1 .. n : Available(sess[p], i)
    /\ delivered' = [delivered EXCEPT ![p] = @ \o Written(sess[p], d, n)]
    /\ \E s2 : sess' = [sess EXCEPT ![p] = s2]

LEMMA RequestStepOf ==
    ASSUME AllOrNothing, NEW p \in Peer, TypeOK, NEW d \in net,
           \/ HandleDataRequestNext(p, d)
           \/ HandleDataRequestStuck(p, d)
           \/ HandleDataRequestFreed(p, d)
    PROVE  StepOf(p)
<1>1. IsNext(p, d) /\ UNCHANGED log
  BY DEF HandleDataRequestNext, HandleDataRequestStuck, HandleDataRequestFreed
<1>2. PICK n \in 0 .. MaxWindow : LoopRun(p, d, n)
  <2>1. CASE HandleDataRequestNext(p, d)
    <3>1. PICK n \in 1 .. MaxWindow : LoopRun(p, d, n)
      BY <2>1 DEF HandleDataRequestNext, LoopRun
    <3>2. n \in 0 .. MaxWindow
      BY WindowType
    <3> QED
      BY <3>1, <3>2
  <2>2. CASE HandleDataRequestStuck(p, d)
    <3>1. PICK n \in 0 .. MaxWindow - 1 :
            /\ \A i \in 1 .. n + 1 : Available(sess[p], i)
            /\ delivered' = [delivered EXCEPT ![p] = @ \o Written(sess[p], d, n)]
            /\ \E s2 : sess' = [sess EXCEPT ![p] = s2]
      BY <2>2 DEF HandleDataRequestStuck, SettleSession, AllOrNothing
    <3>2. n \in 0 .. MaxWindow /\ \A i \in 1 .. n : i \in 1 .. n + 1
      BY WindowType
    <3> QED
      BY <3>1, <3>2 DEF LoopRun
  <2>3. CASE HandleDataRequestFreed(p, d)
    <3>1. PICK n \in 1 .. MaxWindow - 1 :
            /\ \A i \in 1 .. n + 1 : Available(sess[p], i)
            /\ delivered' = [delivered EXCEPT ![p] = @ \o Written(sess[p], d, n)]
            /\ \E s2 : sess' = [sess EXCEPT ![p] = s2]
      BY <2>3 DEF HandleDataRequestFreed
    <3>2. n \in 0 .. MaxWindow /\ \A i \in 1 .. n : i \in 1 .. n + 1
      BY WindowType
    <3> QED
      BY <3>1, <3>2 DEF LoopRun
  <2> QED
    BY <2>1, <2>2, <2>3
<1> QED
  BY <1>1, <1>2, LoopStepOf DEF LoopRun

LEMMA EveryStep ==
    ASSUME AllOrNothing, TypeOK, TypeOK', [Next]_vars
    PROVE  \/ UNCHANGED <<sess, log, delivered>>
           \/ \E p \in Peer : StepOf(p)
<1>1. ASSUME NEW p \in Peer, ProcessTcpFull(p) PROVE StepOf(p)
  <2>1. \E s2 : sess' = [sess EXCEPT ![p] = s2]
    BY <1>1 DEF ProcessTcpFull
  <2> QED
    BY <1>1, <2>1, QuietStepOf DEF ProcessTcpFull, Live
<1>2. ASSUME NEW p \in Peer, ProcessTcpEof(p) \/ SessionTimeout(p) PROVE StepOf(p)
  BY <1>2, QuietStepOf DEF ProcessTcpEof, SessionTimeout, DeleteSession, Live
<1>3. ASSUME NEW p \in Peer, NEW d \in net, ProcessUdp(p, d)
      PROVE  UNCHANGED <<sess, log, delivered>> \/ StepOf(p)
  <2>1. CASE HandleDataRequestOld(p, d) \/ HandleRetransRequest(p, d)
    BY <2>1 DEF HandleDataRequestOld, HandleRetransRequest
  <2>2. CASE HandleDataRequestAhead(p, d)
    <3>1. \E s2 : sess' = [sess EXCEPT ![p] = s2]
      BY <2>2 DEF HandleDataRequestAhead
    <3> QED
      BY <2>2, <3>1, QuietStepOf DEF HandleDataRequestAhead, Live
  <2>3. CASE HandleCloseRequest(p, d)
    BY <2>3, QuietStepOf DEF HandleCloseRequest, Live
  <2> QED
    BY <1>3, <2>1, <2>2, <2>3, RequestStepOf, ResponseStepOf DEF ProcessUdp
<1>4. ASSUME NEW p \in Peer, SetContextOption(p) PROVE UNCHANGED <<sess, log, delivered>>
  BY <1>4 DEF SetContextOption
<1>5. CASE UNCHANGED vars
  BY <1>5 DEF vars
<1> QED
  BY <1>1, <1>2, <1>3, <1>4, <1>5, ReadStepOf, TimeoutStepOf DEF Next

-----------------------------------------------------------------------------
LEMMA PrefixOfAppend ==
    ASSUME NEW S, NEW a \in Seq(S), NEW x \in S
    PROVE  Len(Append(a, x)) = Len(a) + 1 /\ IsPrefix(a, Append(a, x))
BY DEF IsPrefix

LEMMA PrefixOfConcat ==
    ASSUME NEW S, NEW a \in Seq(S), NEW b \in Seq(S)
    PROVE  IsPrefix(a, a \o b) /\ (a \o b = a \/ Len(a) < Len(a \o b))
<1>1. Len(b) \in Nat /\ Len(a \o b) = Len(a) + Len(b)
  OBVIOUS
<1>2. IsPrefix(a, a \o b)
  BY DEF IsPrefix
<1>3. CASE Len(b) = 0
  BY <1>2, <1>3
<1>4. CASE Len(b) > 0
  BY <1>1, <1>2, <1>4
<1> QED
  BY <1>1, <1>3, <1>4

\* A step of p, seen in the direction from p ...
LEMMA SenderStep ==
    ASSUME TypeOK, NEW p \in Peer, StepOf(p)
    PROVE  \/ /\ Live(p) /\ Len(log'[p]) = Len(log[p]) + 1 /\ IsPrefix(log[p], log'[p])
              /\ UNCHANGED <<delivered[Other(p)], Live(p), Live(Other(p))>>
           \/ /\ Live(p) /\ ~Live(p)'
              /\ UNCHANGED <<log[p], delivered[Other(p)], Live(Other(p))>>
           \/ UNCHANGED <<log[p], delivered[Other(p)], Live(p), Live(Other(p))>>
<1>1. Live(p) \in BOOLEAN /\ Live(p)' \in BOOLEAN
  BY DEF Live
<1>2. CASE Closes(p)
  BY <1>1, <1>2 DEF StepOf, Closes
<1>3. CASE Reads(p)
  <2>1. PICK x \in Payload : log'[p] = Append(log[p], x)
    BY <1>3 DEF Reads
  <2>2. Len(log'[p]) = Len(log[p]) + 1 /\ IsPrefix(log[p], log'[p])
    BY <2>1, PrefixOfAppend DEF TypeOK
  <2> QED
    BY <1>3, <2>2 DEF Reads, StepOf
<1>4. CASE Writes(p)
  BY <1>1, <1>4 DEF Writes, StepOf
<1> QED
  BY <1>2, <1>3, <1>4 DEF StepOf

\* ... and in the direction to p.
LEMMA ReceiverStep ==
    ASSUME TypeOK, InOrder', NEW p \in Peer, StepOf(p)
    PROVE  \/ /\ Live(p) /\ IsPrefix(delivered[p], delivered'[p])
              /\ Len(delivered[p]) < Len(delivered'[p])
              /\ IsPrefix(delivered'[p], log[Other(p)])
              /\ Live(p)' \in BOOLEAN
              /\ UNCHANGED <<log[Other(p)], Live(Other(p))>>
           \/ /\ Live(p) /\ ~Live(p)'
              /\ UNCHANGED <<log[Other(p)], delivered[p], Live(Other(p))>>
           \/ UNCHANGED <<log[Other(p)], delivered[p], Live(p), Live(Other(p))>>
<1>1. Live(p) \in BOOLEAN /\ Live(p)' \in BOOLEAN
  BY DEF Live
<1>2. CASE Closes(p)
  BY <1>1, <1>2 DEF StepOf, Closes
<1>3. CASE Reads(p)
  BY <1>3 DEF Reads, StepOf
<1>4. CASE Writes(p)
  <2>1. PICK w \in Seq(Payload) : delivered'[p] = delivered[p] \o w
    BY <1>4 DEF Writes
  <2>2. /\ IsPrefix(delivered[p], delivered'[p])
        /\ delivered'[p] = delivered[p] \/ Len(delivered[p]) < Len(delivered'[p])
    BY <2>1, PrefixOfConcat DEF TypeOK
  <2>3. IsPrefix(delivered'[p], log'[Other(p)])
    BY OtherType DEF InOrder
  <2>4. log'[Other(p)] = log[Other(p)] /\ Live(Other(p))' = Live(Other(p)) /\ Live(p)
    BY <1>4 DEF StepOf, Writes
  <2>5. IsPrefix(delivered'[p], log[Other(p)])
    BY <2>3, <2>4
  <2> QED
    BY <1>1, <2>2, <2>4, <2>5
<1> QED
  BY <1>2, <1>3, <1>4 DEF StepOf

LEMMA UpstreamStep ==
    ASSUME AllOrNothing, TypeOK, TypeOK', InOrder', [Next]_vars
    PROVE  [Upstream!Next]_(Upstream!vars)
<1> USE DEF Upstream!Next, Upstream!vars, Upstream!Send, Upstream!Receive,
            Upstream!CloseSender, Upstream!CloseReceiver
<1>1. Other("client") = "server" /\ Other("server") = "client"
  BY DEF Other
<1>2. \A a, b : Upstream!IsPrefix(a, b) = IsPrefix(a, b)
  BY DEF Upstream!IsPrefix, IsPrefix
<1>3. CASE UNCHANGED <<sess, log, delivered>>
  BY <1>3 DEF Live
<1>4. CASE StepOf("client")
  BY <1>2, <1>1, <1>4, SenderStep DEF Peer
<1>5. CASE StepOf("server")
  BY <1>2, <1>1, <1>5, ReceiverStep DEF Peer
<1> QED
  BY <1>3, <1>4, <1>5, EveryStep DEF Peer

LEMMA DownstreamStep ==
    ASSUME AllOrNothing, TypeOK, TypeOK', InOrder', [Next]_vars
    PROVE  [Downstream!Next]_(Downstream!vars)
<1> USE DEF Downstream!Next, Downstream!vars, Downstream!Send, Downstream!Receive,
            Downstream!CloseSender, Downstream!CloseReceiver
<1>1. Other("client") = "server" /\ Other("server") = "client"
  BY DEF Other
<1>2. \A a, b : Downstream!IsPrefix(a, b) = IsPrefix(a, b)
  BY DEF Downstream!IsPrefix, IsPrefix
<1>3. CASE UNCHANGED <<sess, log, delivered>>
  BY <1>3 DEF Live
<1>4. CASE StepOf("client")
  BY <1>2, <1>1, <1>4, ReceiverStep DEF Peer
<1>5. CASE StepOf("server")
  BY <1>2, <1>1, <1>5, SenderStep DEF Peer
<1> QED
  BY <1>3, <1>4, <1>5, EveryStep DEF Peer

\* The two directions of a session are streams: reading a TCP socket appends,
\* the write loop of t2u_session_handle_data_request extends the prefix written
\* at the other end, deletion ends it, and every other handler, timer or
\* change of the window is invisible.
THEOREM SessionImplementsStreams ==
    ASSUME AllOrNothing, NoReuse
    PROVE  Spec => ImplementsStreams
<1>1. Init => Upstream!Init /\ Downstream!Init
  BY DEF Init, Upstream!Init, Downstream!Init, Established, Live, Peer
<1>2. TypeOK /\ TypeOK' /\ InOrder' /\ [Next]_vars => [Upstream!Next]_(Upstream!vars)
  BY UpstreamStep
<1>3. TypeOK /\ TypeOK' /\ InOrder' /\ [Next]_vars => [Downstream!Next]_(Downstream!vars)
  BY DownstreamStep
<1> QED
  BY <1>1, <1>2, <1>3, TypeCorrect, InOrderDelivery, PTL
     DEF Spec, ImplementsStreams, Upstream!Spec, Downstream!Spec
=============================================================================

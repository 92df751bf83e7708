------------------------- MODULE RetransScan_proofs -------------------------
(***************************************************************************)
(* The closed form of the retransmission scan is the loop of the code, for *)
(* every window and wherever it lies in the sequence space.                *)
(***************************************************************************)
EXTENDS RetransScan, TLAPS, WellFoundedInduction

\* The i-th number after recv_seq is at distance i.
LEMMA Distance ==
    ASSUME NEW s \in SeqNum, NEW i \in Nat, i < SeqSpan
    PROVE  SeqAdd(s, i) \in SeqNum /\ SeqDiff(SeqAdd(s, i), s) = i
BY SeqSpanAssumption DEF SeqNum, SeqAdd, SeqDiff

\* A number in a window is more than a window behind an earlier one: the wrapped
\* difference that the scan compares with the window.
LEMMA Behind ==
    ASSUME NEW s \in SeqNum, NEW w \in Nat, 2 * w <= SeqSpan,
           NEW i \in 1 .. w, NEW j \in 1 .. w, i < j
    PROVE  SeqDiff(SeqAdd(s, i), SeqAdd(s, j)) > w
BY SeqSpanAssumption DEF SeqNum, SeqAdd, SeqDiff

\* A set with 0 and with the successor of each member below w has w: there is
\* no least number that it lacks.
LEMMA UpTo ==
    ASSUME NEW w \in Nat, NEW S, 0 \in S,
           \A k \in 0 .. w - 1 : k \in S => k + 1 \in S
    PROVE  w \in S
<1> SUFFICES ASSUME w \notin S
             PROVE  FALSE
  OBVIOUS
<1> DEFINE Bad == {k \in 0 .. w : k \notin S}
           R == OpToRel(<, Nat)
<1>1. IsWellFoundedOn(R, Nat)
  BY NatLessThanWellFounded
<1>2. \A j, k \in Nat : <<j, k>> \in R <=> j < k
  BY DEF OpToRel
<1>3. Bad \subseteq Nat /\ w \in Bad
  OBVIOUS
<1> HIDE DEF R
<1>4. PICK k \in Bad : \A j \in Bad : ~(<<j, k>> \in R)
  <2> HIDE DEF Bad
  <2> QED
    BY <1>1, <1>3, WFMin
<1>5. k \in 0 .. w /\ k \notin S /\ k # 0
  OBVIOUS
<1>6. ~(k - 1 \in Bad /\ k - 1 < k)
  BY <1>2, <1>3, <1>4
<1>7. k - 1 \in 0 .. w - 1 /\ k - 1 < k /\ (k - 1) + 1 = k
  BY <1>5
<1>8. k - 1 \in S
  BY <1>6, <1>7
<1> QED
  BY <1>5, <1>7, <1>8

\* Take any run of the loop: st[k] is retry_seq_ and what was asked for after k
\* times round.  In the end the loop has asked for Asked, and retry_seq_ is
\* RetrySeq.  The window is at most half of the sequence space, as 64 of 2^32.
THEOREM LoopIsScan ==
    ASSUME NEW recv_seq \in SeqNum, NEW seq \in SeqNum, NEW retry_seq \in SeqNum,
           NEW held, NEW w \in Nat, 2 * w <= SeqSpan,
           NEW st, st[0] = [retry_seq |-> retry_seq, asked |-> {}],
           \A k \in 0 .. w - 1 : st[k + 1] = ScanBody(recv_seq, held, seq, w, k, st[k])
    PROVE  LET asked == Asked(recv_seq, held, seq, retry_seq, w)
           IN  /\ st[w].asked = asked
               /\ st[w].retry_seq = RetrySeq(recv_seq, asked, retry_seq)
<1> DEFINE At(i) == SeqAdd(recv_seq, i)
           gaps == Gaps(recv_seq, held, seq, w)
           A == Asked(recv_seq, held, seq, retry_seq, w)
           Missing(i) == (\A h \in held : h.seq # At(i)) /\ SeqDiff(seq, At(i)) <= w
           Again(i) == Missing(i) /\ \E j \in 1 .. i : Missing(j) /\ SeqDiff(retry_seq, At(j)) > w
           Done(k) == /\ st[k].asked = {At(i) : i \in {i \in 1 .. k : Again(i)}}
                      /\ \/ st[k].retry_seq = retry_seq /\ \A i \in 1 .. k : ~Again(i)
                         \/ \E i \in 1 .. k : /\ st[k].retry_seq = At(i) /\ Again(i)
                                              /\ \A j \in i + 1 .. k : ~Again(j)
<1>1. w < SeqSpan \/ w = 0
  BY SeqSpanAssumption
<1>2. \A i \in 1 .. w : At(i) \in SeqNum /\ SeqDiff(At(i), recv_seq) = i
  <2>1. \A i \in 1 .. w : i \in Nat /\ i < SeqSpan
    BY <1>1, SeqSpanAssumption
  <2> QED
    BY <2>1, Distance
<1>3. A = {At(i) : i \in {i \in 1 .. w : Again(i)}}
  <2>1. \A t : t \in gaps <=> \E i \in 1 .. w : t = At(i) /\ Missing(i)
    BY DEF Gaps
  <2>2. \A t : t \in A <=> \E i \in 1 .. w : t = At(i) /\ Again(i)
    BY <1>2, <2>1 DEF Asked
  <2> QED
    BY <2>2
<1>4. Done(0)
  OBVIOUS
<1>5. ASSUME NEW k \in 0 .. w - 1, Done(k)
      PROVE  Done(k + 1)
  <2> DEFINE send == Missing(k + 1) /\ SeqDiff(st[k].retry_seq, At(k + 1)) > w
  <2>1. st[k + 1] = IF send THEN [retry_seq |-> At(k + 1), asked |-> st[k].asked \cup {At(k + 1)}]
                            ELSE st[k]
    BY DEF ScanBody
  <2>2. send <=> Again(k + 1)
    <3>1. CASE st[k].retry_seq = retry_seq /\ \A i \in 1 .. k : ~Again(i)
      <4>1. \A j \in 1 .. k : Missing(j) => ~(SeqDiff(retry_seq, At(j)) > w)
        BY <3>1
      <4> QED
        BY <3>1, <4>1
    <3>2. ASSUME NEW i \in 1 .. k, st[k].retry_seq = At(i), Again(i)
          PROVE  send <=> Again(k + 1)
      <4>1. SeqDiff(At(i), At(k + 1)) > w
        BY Behind
      <4> QED
        BY <3>2, <4>1
    <3> QED
      BY <1>5, <3>1, <3>2
  <2> QED
    BY <1>5, <2>1, <2>2
<1>6. Done(w)
  <2> DEFINE S == {k \in 0 .. w : Done(k)}
  <2>1. 0 \in S
    BY <1>4
  <2>2. ASSUME NEW k \in 0 .. w - 1, k \in S
        PROVE  k + 1 \in S
    <3> HIDE DEF Done
    <3>1. Done(k) /\ k + 1 \in 0 .. w
      BY <2>2
    <3> QED
      BY <1>5, <3>1
  <2>3. w \in S
    <3> HIDE DEF S
    <3> QED
      BY <2>1, <2>2, UpTo
  <2> QED
    BY <2>3
<1>7. st[w].asked = A
  BY <1>3, <1>6
<1>8. st[w].retry_seq = RetrySeq(recv_seq, A, retry_seq)
  <2> DEFINE last == {t \in A : \A u \in A : SeqDiff(u, recv_seq) <= SeqDiff(t, recv_seq)}
  <2>1. CASE st[w].retry_seq = retry_seq /\ \A i \in 1 .. w : ~Again(i)
    <3>1. A = {}
      BY <1>3, <2>1
    <3> QED
      BY <2>1, <3>1 DEF RetrySeq
  <2>2. ASSUME NEW i \in 1 .. w, st[w].retry_seq = At(i), Again(i),
               \A j \in i + 1 .. w : ~Again(j)
        PROVE  st[w].retry_seq = RetrySeq(recv_seq, A, retry_seq)
    <3>1. \A u \in A : \E j \in 1 .. i : u = At(j) /\ SeqDiff(u, recv_seq) = j
      BY <1>2, <1>3, <2>2
    <3>2. At(i) \in A /\ SeqDiff(At(i), recv_seq) = i
      BY <1>2, <1>3, <2>2
    <3>3. last = {At(i)}
      BY <3>1, <3>2
    <3> QED
      BY <2>2, <3>3 DEF RetrySeq
  <2> QED
    BY <1>6, <2>1, <2>2
<1> QED
  BY <1>7, <1>8
=============================================================================

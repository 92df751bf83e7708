--------------------------- MODULE Connect_proofs ---------------------------
(***************************************************************************)
(* What TLAPS proves of Connect for any number of services, sessions and   *)
(* retries.                                                                *)
(***************************************************************************)
EXTENDS Connect, TLAPS, WellFoundedInduction

LEMMA OtherType ==
    ASSUME NEW p \in Peer
    PROVE  Other(p) \in Peer /\ Other(p) # p /\ Other(Other(p)) = p
BY DEF Other, Peer

LEMMA PeerCases == \A p \in Peer : p = "client" \/ p = "server"
BY DEF Peer

\* The search in the order of the names finds a session if there is one.
LEMMA FirstFound ==
    ASSUME NEW found \in SUBSET Session, found # {}
    PROVE  First(found) \in found
<1> DEFINE names == {s.service : s \in found}
<1>1. names \subseteq Nat /\ names # {}
  BY ServicesAssumption DEF Session
<1>2. PICK v \in names : \A w \in names : v <= w
  <2> DEFINE R == OpToRel(<, Nat)
  <2>1. IsWellFoundedOn(R, Nat)
    BY NatLessThanWellFounded
  <2>2. \A v, w \in Nat : <<w, v>> \in R <=> w < v
    BY DEF OpToRel
  <2> HIDE DEF R, names
  <2>3. PICK v \in names : \A w \in names : ~(<<w, v>> \in R)
    BY <1>1, <2>1, WFMin
  <2>4. ASSUME NEW w \in names PROVE v <= w
    <3>1. v \in Nat /\ w \in Nat
      BY <1>1
    <3>2. ~(w < v)
      BY <2>2, <2>3, <3>1
    <3> QED
      BY <3>1, <3>2
  <2> QED
    BY <2>4
<1>3. PICK s \in found : s.service = v
  BY <1>2
<1>4. \A t \in found : s.service <= t.service
  BY <1>2, <1>3
<1> QED
  BY <1>3, <1>4 DEF First

-----------------------------------------------------------------------------
(* Type correctness *)

LEMMA SendType ==
    ASSUME NEW p \in Peer, NEW s \in Session,
           NEW oper \in {"connect_request", "connect_response", "data", "close_request"}
    PROVE  Send(p, oper, s) \in Datagram
<1>1. 0 \in HandleSeq
  BY HandleAssumption DEF HandleSeq, Peer
<1>2. Wire(s.handle) \in Handle
  BY <1>1 DEF Wire, Session, Handle
<1> QED
  BY <1>2, OtherType DEF Send, Datagram, Session

\* A handle is given out below the bound, where the counter does not wrap.
LEMMA NextHandleIs ==
    ASSUME NEW p \in Peer, TypeOK, handle_seq[p] < MaxSessions[p]
    PROVE  /\ NextHandle(p) = handle_seq[p] + 1
           /\ NextHandle(p) \in HandleSeq /\ 0 \in HandleSeq
           /\ NextHandle(p) <= MaxSessions[p]
           /\ handle_seq[p] \in Nat
BY HandleAssumption DEF TypeOK, NextHandle, HandleSeq

LEMMA NewSessionType ==
    ASSUME NEW p \in Peer, NEW v \in Services, NEW h \in Handle, NEW o \in Origin,
           NextHandle(p) \in HandleSeq, 0 \in HandleSeq
    PROVE  NewSession(p, v, h, o) \in Session
BY DEF NewSession, Session, Handle

LEMMA DropRulesType ==
    ASSUME NEW p \in Peer, NEW gone, TypeOK, DropRules(p, gone)
    PROVE  /\ rules' \in [Peer -> SUBSET Services]
           /\ handle_seq' \in [Peer -> HandleSeq]
           /\ connecting' \in [Peer -> SUBSET Session]
           /\ sessions' \in [Peer -> SUBSET Session]
           /\ net' \subseteq Datagram
           /\ joined' \subseteq Handle
<1> DEFINE closed == {s \in sessions[p] : s.service \in gone}
<1>1. \A s \in closed : Send(p, "close_request", s) \in Datagram
  BY SendType DEF TypeOK
<1>2. net' \subseteq Datagram
  BY <1>1 DEF DropRules, TypeOK
<1> QED
  BY <1>2 DEF DropRules, TypeOK

LEMMA AcceptType ==
    ASSUME NEW p \in Peer, NEW v \in Services, TypeOK, Accept(p, v)
    PROVE  TypeOK'
<1> DEFINE s == NewSession(p, v, [client |-> 0, server |-> 0], <<p, NextHandle(p)>>)
<1>1. NextHandle(p) \in HandleSeq /\ 0 \in HandleSeq
  BY NextHandleIs DEF Accept
<1>2. [client |-> 0, server |-> 0] \in Handle /\ <<p, NextHandle(p)>> \in Origin
  BY <1>1 DEF Handle, Origin
<1>3. s \in Session
  BY <1>1, <1>2, NewSessionType
<1>4. Send(p, "connect_request", s) \in Datagram
  BY <1>3, SendType
<1>5. /\ handle_seq' = [handle_seq EXCEPT ![p] = NextHandle(p)]
      /\ connecting' = [connecting EXCEPT ![p] = @ \cup {s}]
      /\ net' = net \cup {Send(p, "connect_request", s)}
      /\ UNCHANGED <<contexts, rules, sessions, joined>>
  BY DEF Accept
<1> HIDE DEF s
<1> QED
  BY <1>1, <1>3, <1>4, <1>5 DEF TypeOK

LEMMA RetriedType ==
    ASSUME NEW s \in Session
    PROVE  [s EXCEPT !.connect_retries = @ + 1] \in Session
BY DEF Session

LEMMA ConnectTimeoutType ==
    ASSUME NEW p \in Peer, NEW s \in connecting[p], TypeOK, ConnectTimeout(p, s)
    PROVE  TypeOK'
<1> DEFINE s2 == [s EXCEPT !.connect_retries = @ + 1]
<1>1. s \in Session /\ s2 \in Session
  BY RetriedType DEF TypeOK
<1>2. Send(p, "connect_request", s) \in Datagram
  BY <1>1, SendType
<1>3. /\ \/ connecting' = [connecting EXCEPT ![p] = @ \ {s}]
         \/ connecting' = [connecting EXCEPT ![p] = (@ \ {s}) \cup {s2}]
      /\ net' \subseteq net \cup {Send(p, "connect_request", s)}
      /\ UNCHANGED <<contexts, rules, handle_seq, sessions, joined>>
  BY DEF ConnectTimeout, DeleteConnecting
<1> HIDE DEF s2
<1>4. net' \subseteq Datagram
  BY <1>2, <1>3 DEF TypeOK
<1> QED
  BY <1>1, <1>3, <1>4 DEF TypeOK

LEMMA ConnectRequestType ==
    ASSUME NEW p \in Peer, NEW d \in net, TypeOK, HandleConnectRequest(p, d)
    PROVE  TypeOK'
<1> DEFINE old == {s \in WithHandle(sessions[p], d.handle) : s.service = d.service}
           oldc == {s \in WithHandle(connecting[p], d.handle) : s.service = d.service}
           s == NewSession(p, d.service, d.handle, d.origin)
<1>1. d.service \in Services /\ d.handle \in Handle /\ d.origin \in Origin
  BY DEF TypeOK, Datagram
<1>2. old \subseteq Session /\ \A t \in old : Send(p, "close_request", t) \in Datagram
  BY SendType DEF TypeOK, WithHandle
<1>3. /\ sessions' = [sessions EXCEPT ![p] = @ \ old]
      /\ net' = net \cup {Send(p, "close_request", t) : t \in old}
      /\ UNCHANGED <<contexts, rules, joined>>
      /\ \/ /\ connecting' = [connecting EXCEPT ![p] = @ \ oldc]
            /\ UNCHANGED handle_seq
         \/ /\ handle_seq[p] < MaxSessions[p]
            /\ handle_seq' = [handle_seq EXCEPT ![p] = NextHandle(p)]
            /\ \/ connecting' = [connecting EXCEPT ![p] = @ \ oldc]
               \/ connecting' = [connecting EXCEPT ![p] = (@ \ oldc) \cup {s}]
  BY DEF HandleConnectRequest
<1>4. handle_seq[p] < MaxSessions[p] => NextHandle(p) \in HandleSeq /\ s \in Session
  BY <1>1, NextHandleIs, NewSessionType
<1>5. net' \subseteq Datagram
  BY <1>2, <1>3 DEF TypeOK
<1>6. handle_seq' \in [Peer -> HandleSeq]
  BY <1>3, <1>4 DEF TypeOK
<1> HIDE DEF s, oldc, old
<1>7. connecting' \in [Peer -> SUBSET Session]
  BY <1>3, <1>4 DEF TypeOK
<1>8. sessions' \in [Peer -> SUBSET Session]
  BY <1>3 DEF TypeOK
<1> QED
  BY <1>3, <1>5, <1>6, <1>7, <1>8 DEF TypeOK

\* The session that a response finds, and what it becomes.
LEMMA ResponseFinds ==
    ASSUME NEW p \in Peer, NEW d \in net, TypeOK, HandleConnectResponse(p, d)
    PROVE  \E s \in connecting[p] :
             /\ s.handle = [d.handle EXCEPT !.server = 0]
             /\ [s EXCEPT !.handle = d.handle] \in Session
             /\ connecting' = [connecting EXCEPT ![p] = @ \ {s}]
             /\ sessions' = [sessions EXCEPT ![p] = @ \cup {[s EXCEPT !.handle = d.handle]}]
<1> DEFINE found == WithHandle(connecting[p], [d.handle EXCEPT !.server = 0])
           s == First(found)
<1>1. found \in SUBSET Session /\ found # {} /\ d.handle \in Handle
  BY DEF TypeOK, WithHandle, HandleConnectResponse, Datagram
<1>2. s \in found
  BY <1>1, FirstFound
<1>3. s \in connecting[p] /\ s.handle = [d.handle EXCEPT !.server = 0] /\ s \in Session
  BY <1>1, <1>2 DEF WithHandle
<1>4. /\ connecting' = [connecting EXCEPT ![p] = @ \ {s}]
      /\ sessions' = [sessions EXCEPT ![p] = @ \cup {[s EXCEPT !.handle = d.handle]}]
  BY DEF HandleConnectResponse
<1> HIDE DEF s
<1>5. [s EXCEPT !.handle = d.handle] \in Session
  BY <1>1, <1>3 DEF Session
<1> QED
  BY <1>3, <1>4, <1>5

LEMMA TypeInit == Init => TypeOK
<1> SUFFICES ASSUME Init PROVE TypeOK
  OBVIOUS
<1>1. 0 \in HandleSeq
  BY HandleAssumption DEF HandleSeq, Peer
<1> QED
  BY <1>1 DEF Init, TypeOK

LEMMA TypeStep == TypeOK /\ [Next]_vars => TypeOK'
<1> SUFFICES ASSUME TypeOK, [Next]_vars PROVE TypeOK'
  OBVIOUS
<1>1. CASE UNCHANGED vars
  BY <1>1 DEF vars, TypeOK
<1>2. ASSUME NEW p \in Peer, AddContext(p) PROVE TypeOK'
  BY <1>2 DEF AddContext, TypeOK
<1>3. ASSUME NEW p \in Peer, DeleteContext(p) PROVE TypeOK'
  <2>1. DropRules(p, rules[p]) /\ contexts' \subseteq Peer
    BY <1>3 DEF DeleteContext, TypeOK
  <2> QED
    BY <2>1, DropRulesType DEF TypeOK
<1>4. ASSUME NEW p \in Peer, NEW v \in Services, AddRule(p, v) PROVE TypeOK'
  BY <1>4 DEF AddRule, TypeOK
<1>5. ASSUME NEW p \in Peer, NEW v \in Services, DeleteRule(p, v) PROVE TypeOK'
  <2>1. DropRules(p, {v}) /\ contexts' \subseteq Peer
    BY <1>5 DEF DeleteRule, TypeOK
  <2> QED
    BY <2>1, DropRulesType DEF TypeOK
<1>6. ASSUME NEW p \in Peer, NEW v \in Services, Accept(p, v) PROVE TypeOK'
  BY <1>6, AcceptType
<1>7. ASSUME NEW p \in Peer, NEW s \in connecting[p], ConnectTimeout(p, s) PROVE TypeOK'
  BY <1>7, ConnectTimeoutType
<1>8. ASSUME NEW p \in Peer, NEW s \in connecting[p], ConnectSuccess(p, s) PROVE TypeOK'
  <2>1. s \in Session /\ Send(p, "connect_response", s) \in Datagram
    BY SendType DEF TypeOK
  <2> QED
    BY <1>8, <2>1 DEF ConnectSuccess, TypeOK
<1>9. ASSUME NEW p \in Peer, NEW s \in connecting[p], ConnectFailure(p, s) PROVE TypeOK'
  BY <1>9 DEF ConnectFailure, DeleteConnecting, TypeOK
<1>10. ASSUME NEW p \in Peer, NEW s \in sessions[p], CloseSession(p, s) PROVE TypeOK'
  <2>1. s \in Session /\ Send(p, "close_request", s) \in Datagram
    BY SendType DEF TypeOK
  <2> QED
    BY <1>10, <2>1 DEF CloseSession, TypeOK
<1>11. ASSUME NEW p \in Peer, NEW s \in sessions[p], SendData(p, s) PROVE TypeOK'
  <2>1. s \in Session /\ Send(p, "data", s) \in Datagram
    BY SendType DEF TypeOK
  <2> QED
    BY <1>11, <2>1 DEF SendData, TypeOK
<1>12. ASSUME NEW p \in Peer, NEW d \in net, ProcessUdp(p, d) PROVE TypeOK'
  <2>1. CASE HandleConnectRequest(p, d)
    BY <2>1, ConnectRequestType
  <2>2. CASE HandleConnectResponse(p, d)
    <3>1. PICK s \in connecting[p] :
            /\ s.handle = [d.handle EXCEPT !.server = 0]
            /\ [s EXCEPT !.handle = d.handle] \in Session
            /\ connecting' = [connecting EXCEPT ![p] = @ \ {s}]
            /\ sessions' = [sessions EXCEPT ![p] = @ \cup {[s EXCEPT !.handle = d.handle]}]
      BY <2>2, ResponseFinds
    <3> DEFINE s2 == [s EXCEPT !.handle = d.handle]
    <3>2. s2 \in Session /\ sessions' = [sessions EXCEPT ![p] = @ \cup {s2}]
      BY <3>1
    <3> HIDE DEF s2
    <3>3. /\ sessions' \in [Peer -> SUBSET Session]
          /\ connecting' \in [Peer -> SUBSET Session]
      BY <3>1, <3>2 DEF TypeOK
    <3>4. /\ joined' = joined \cup {d.handle} /\ d.handle \in Handle
          /\ UNCHANGED <<contexts, rules, handle_seq, net>>
      BY <2>2 DEF HandleConnectResponse, TypeOK, Datagram
    <3> QED
      BY <3>3, <3>4 DEF TypeOK
  <2>3. CASE HandleCloseRequest(p, d)
    BY <2>3 DEF HandleCloseRequest, TypeOK
  <2> QED
    BY <1>12, <2>1, <2>2, <2>3 DEF ProcessUdp
<1> QED
  BY <1>1, <1>2, <1>3, <1>4, <1>5, <1>6, <1>7, <1>8, <1>9, <1>10, <1>11, <1>12 DEF Next

\* Every reachable state of the two contexts is well typed: the handle counter
\* stays a uint32_t and every datagram has its fields.
THEOREM TypeCorrect == Spec => []TypeOK
BY TypeInit, TypeStep, PTL DEF Spec

-----------------------------------------------------------------------------
(* Rules and their sessions *)

LEMMA RuleStep ==
    ASSUME TypeOK, NoSessionWithoutRule, [Next]_vars
    PROVE  NoSessionWithoutRule'
<1>1. CASE UNCHANGED vars
  BY <1>1 DEF vars, NoSessionWithoutRule
<1>2. ASSUME NEW p \in Peer, AddContext(p) PROVE NoSessionWithoutRule'
  BY <1>2 DEF AddContext, NoSessionWithoutRule
<1>3. ASSUME NEW p \in Peer, DeleteContext(p) PROVE NoSessionWithoutRule'
  BY <1>3 DEF DeleteContext, DropRules, NoSessionWithoutRule, TypeOK
<1>4. ASSUME NEW p \in Peer, NEW v \in Services, AddRule(p, v) PROVE NoSessionWithoutRule'
  BY <1>4 DEF AddRule, NoSessionWithoutRule, TypeOK
<1>5. ASSUME NEW p \in Peer, NEW v \in Services, DeleteRule(p, v) PROVE NoSessionWithoutRule'
  BY <1>5 DEF DeleteRule, DropRules, NoSessionWithoutRule, TypeOK
<1>6. ASSUME NEW p \in Peer, NEW v \in Services, Accept(p, v) PROVE NoSessionWithoutRule'
  <2> DEFINE s == NewSession(p, v, [client |-> 0, server |-> 0], <<p, NextHandle(p)>>)
  <2>1. s.service = v
    BY DEF NewSession
  <2>2. /\ p \in contexts /\ v \in rules[p]
        /\ connecting' = [connecting EXCEPT ![p] = @ \cup {s}]
        /\ UNCHANGED <<contexts, rules, sessions>>
    BY <1>6 DEF Accept
  <2> HIDE DEF s
  <2> QED
    BY <2>1, <2>2 DEF NoSessionWithoutRule, TypeOK
<1>7. ASSUME NEW p \in Peer, NEW s \in connecting[p], ConnectTimeout(p, s)
      PROVE  NoSessionWithoutRule'
  <2> DEFINE s2 == [s EXCEPT !.connect_retries = @ + 1]
  <2>1. s2.service = s.service
    BY DEF TypeOK, Session
  <2>2. /\ \/ connecting' = [connecting EXCEPT ![p] = @ \ {s}]
           \/ connecting' = [connecting EXCEPT ![p] = (@ \ {s}) \cup {s2}]
        /\ UNCHANGED <<contexts, rules, sessions>>
    BY <1>7 DEF ConnectTimeout, DeleteConnecting
  <2> HIDE DEF s2
  <2> QED
    BY <2>1, <2>2 DEF NoSessionWithoutRule, TypeOK
<1>8. ASSUME NEW p \in Peer, NEW s \in connecting[p], ConnectSuccess(p, s)
      PROVE  NoSessionWithoutRule'
  BY <1>8 DEF ConnectSuccess, NoSessionWithoutRule, TypeOK
<1>9. ASSUME NEW p \in Peer, NEW s \in connecting[p], ConnectFailure(p, s)
      PROVE  NoSessionWithoutRule'
  BY <1>9 DEF ConnectFailure, DeleteConnecting, NoSessionWithoutRule, TypeOK
<1>10. ASSUME NEW p \in Peer, NEW s \in sessions[p], CloseSession(p, s)
       PROVE  NoSessionWithoutRule'
  BY <1>10 DEF CloseSession, NoSessionWithoutRule, TypeOK
<1>11. ASSUME NEW p \in Peer, NEW s \in sessions[p], SendData(p, s)
       PROVE  NoSessionWithoutRule'
  BY <1>11 DEF SendData, NoSessionWithoutRule
<1>12. ASSUME NEW p \in Peer, NEW d \in net, ProcessUdp(p, d) PROVE NoSessionWithoutRule'
  <2>1. CASE HandleConnectRequest(p, d)
    <3> DEFINE s == NewSession(p, d.service, d.handle, d.origin)
    <3>1. s.service = d.service
      BY DEF NewSession
    <3>2. /\ p \in contexts /\ d.service \in rules[p] /\ UNCHANGED <<contexts, rules>>
          /\ \E gone : sessions' = [sessions EXCEPT ![p] = @ \ gone]
          /\ \E gone : \/ connecting' = [connecting EXCEPT ![p] = @ \ gone]
                       \/ connecting' = [connecting EXCEPT ![p] = (@ \ gone) \cup {s}]
      BY <2>1 DEF HandleConnectRequest
    <3> HIDE DEF s
    <3> QED
      BY <3>1, <3>2 DEF NoSessionWithoutRule, TypeOK
  <2>2. CASE HandleConnectResponse(p, d)
    <3>1. PICK s \in connecting[p] :
            /\ s.handle = [d.handle EXCEPT !.server = 0]
            /\ [s EXCEPT !.handle = d.handle] \in Session
            /\ connecting' = [connecting EXCEPT ![p] = @ \ {s}]
            /\ sessions' = [sessions EXCEPT ![p] = @ \cup {[s EXCEPT !.handle = d.handle]}]
      BY <2>2, ResponseFinds
    <3> DEFINE s2 == [s EXCEPT !.handle = d.handle]
    <3>2. s2.service = s.service /\ UNCHANGED <<contexts, rules>>
      BY <2>2 DEF TypeOK, Session, HandleConnectResponse
    <3>3. sessions' = [sessions EXCEPT ![p] = @ \cup {s2}]
      BY <3>1
    <3> HIDE DEF s2
    <3> QED
      BY <3>1, <3>2, <3>3 DEF NoSessionWithoutRule, TypeOK
  <2>3. CASE HandleCloseRequest(p, d)
    BY <2>3 DEF HandleCloseRequest, NoSessionWithoutRule, TypeOK
  <2> QED
    BY <1>12, <2>1, <2>2, <2>3 DEF ProcessUdp
<1> QED
  BY <1>1, <1>2, <1>3, <1>4, <1>5, <1>6, <1>7, <1>8, <1>9, <1>10, <1>11, <1>12 DEF Next

\* delete_rule_cb_ and delete_context_cb_ leave no session behind, and no
\* handler adds one to a rule or a context that is gone.
THEOREM SessionsHaveRules == Spec => []NoSessionWithoutRule
<1>1. Init => NoSessionWithoutRule
  BY DEF Init, NoSessionWithoutRule
<1>2. TypeOK /\ NoSessionWithoutRule /\ [Next]_vars => NoSessionWithoutRule'
  BY RuleStep
<1> QED
  BY <1>1, <1>2, TypeCorrect, PTL DEF Spec

-----------------------------------------------------------------------------
(* Handles *)

\* With 64-bit handles on the wire a datagram has the handle of its session.
LEMMA SendFields ==
    ASSUME OneWayRules, NEW p, NEW oper, NEW s
    PROVE  /\ Send(p, oper, s).to = Other(p) /\ Send(p, oper, s).oper = oper
           /\ Send(p, oper, s).handle = s.handle /\ Send(p, oper, s).origin = s.origin
BY DEF OneWayRules, Send, Wire

\* What was given out stays given out.
CountersGrow ==
    \A r \in Peer : handle_seq[r] <= handle_seq'[r] /\ handle_seq'[r] <= MaxSessions[r]

LEMMA WordsGrow ==
    ASSUME TypeOK, TypeOK', CountersGrow
    PROVE  /\ \A h : ClientWord(h) => ClientWord(h)'
           /\ \A h : ServerWord(h) => ServerWord(h)'
           /\ \A x : OfClient(x) => OfClient(x)'
<1>1. ASSUME NEW r \in Peer, NEW n \in 1 .. handle_seq[r] PROVE n \in 1 .. handle_seq'[r]
  BY DEF TypeOK, CountersGrow, HandleSeq
<1>2. \A h : ClientWord(h) => ClientWord(h)'
  BY <1>1 DEF ClientWord, Peer
<1>3. \A h : ServerWord(h) => ServerWord(h)'
  BY <1>1 DEF ServerWord, Peer
<1> QED
  BY <1>2, <1>3 DEF OfClient

LEMMA ToldGrows ==
    ASSUME net \subseteq net', NEW p, NEW oper, NEW h, Told(p, oper, h)
    PROVE  Told(p, oper, h)'
BY DEF Told

\* Sessions go at peer p: those in removed, of which it sends close_request for
\* those in sent and was sent one for the others; connecting ones silently.
Removes(p, removed, sent) ==
    /\ removed \subseteq sessions[p] /\ sent \subseteq removed
    /\ \A s \in removed : s \in sent \/ Told(p, "close_request", s.handle)
    /\ sessions' = [sessions EXCEPT ![p] = @ \ removed]
    /\ \E gone : connecting' = [connecting EXCEPT ![p] = @ \ gone]
    /\ net' = net \cup {Send(p, "close_request", s) : s \in sent}
    /\ UNCHANGED joined
    /\ CountersGrow

LEMMA RemovalStep ==
    ASSUME OneWayRules, TypeOK, TypeOK', ConnectInv,
           NEW p \in Peer, NEW removed, NEW sent, Removes(p, removed, sent)
    PROVE  ConnectInv'
<1>1. ASSUME NEW r \in Peer
      PROVE  /\ sessions'[r] \subseteq sessions[r] /\ connecting'[r] \subseteq connecting[r]
             /\ \A s \in sessions[r] \ sessions'[r] : r = p /\ s \in removed
  BY DEF Removes, TypeOK
<1>2. \A s \in removed : s \notin sessions'[p] /\ s \in sessions[p]
  BY DEF Removes, TypeOK
<1>3. \A r \in Peer : All(r)' \subseteq All(r)
  BY <1>1 DEF All
<1>4. \A d \in net' : d \in net \/ \E s \in sent : d = Send(p, "close_request", s)
  BY DEF Removes
<1>5. net \subseteq net' /\ CountersGrow
  BY DEF Removes
<1>6. "client" \in Peer /\ "server" \in Peer
  BY DEF Peer
<1>7. WordsUnique'
  BY <1>1, <1>3, <1>6 DEF WordsUnique, ConnectInv
<1>8. SessionsOrdered'
  <2>1. \A r \in Peer : handle_seq'[r] <= MaxSessions[r]
    BY <1>5 DEF CountersGrow
  <2>2. \A s \in (All("client") \cup All("server"))' : OfClient(s)'
    BY <1>3, <1>5, <1>6, WordsGrow DEF ConnectInv, SessionsOrdered
  <2>3. \A s \in connecting'["client"] : s.handle.server = 0
    BY <1>1, <1>6 DEF ConnectInv, SessionsOrdered
  <2>4. \A s \in sessions'["client"] \cup All("server")' : ServerWord(s.handle)'
    BY <1>1, <1>3, <1>5, <1>6, WordsGrow DEF ConnectInv, SessionsOrdered
  <2> QED
    BY <2>1, <2>2, <2>3, <2>4 DEF SessionsOrdered
<1>9. \A s \in sessions[p] : OfClient(s) /\ ServerWord(s.handle)
  BY PeerCases DEF ConnectInv, SessionsOrdered, All
<1>10. NetOrdered'
  <2> SUFFICES ASSUME NEW d \in net'
               PROVE  (/\ OfClient(d)
                       /\ d.oper = "connect_request" => d.to = "server" /\ d.handle.server = 0
                       /\ d.oper = "connect_response" => d.to = "client" /\ ServerWord(d.handle)
                       /\ d.oper = "close_request" => ServerWord(d.handle))'
    BY DEF NetOrdered
  <2>1. CASE d \in net
    BY <1>5, <2>1, WordsGrow DEF ConnectInv, NetOrdered
  <2>2. ASSUME NEW s \in sent, d = Send(p, "close_request", s)
        PROVE  d.oper = "close_request" /\ OfClient(d)' /\ ServerWord(d.handle)'
    <3>1. s \in sessions[p]
      BY DEF Removes
    <3>2. OfClient(s) /\ ServerWord(s.handle)
      BY <1>9, <3>1
    <3>3. d.oper = "close_request" /\ d.handle = s.handle /\ d.origin = s.origin
      BY <2>2, SendFields
    <3>4. OfClient(d) /\ ServerWord(d.handle)
      BY <3>2, <3>3 DEF OfClient
    <3> QED
      BY <1>5, <3>3, <3>4, WordsGrow
  <2> QED
    BY <1>4, <2>1, <2>2
<1>11. ClosedIsGone'
  <2> SUFFICES ASSUME NEW d \in net', d.oper = "close_request"
               PROVE  /\ d.to = "server" =>
                           \A t \in All("client")' : t.handle.client # d.handle.client
                      /\ d.to = "client" => \A t \in All("server")' : t.handle # d.handle
    BY DEF ClosedIsGone
  <2>1. CASE d \in net
    BY <1>3, <1>6, <2>1 DEF ConnectInv, ClosedIsGone
  <2>2. ASSUME NEW s \in sent, d = Send(p, "close_request", s)
        PROVE  /\ d.to = "server" =>
                    \A t \in All("client")' : t.handle.client # d.handle.client
               /\ d.to = "client" => \A t \in All("server")' : t.handle # d.handle
    <3>1. d.to = Other(p) /\ d.handle = s.handle
      BY <2>2, SendFields
    <3>2. s \in sessions[p] /\ s \in All(p) /\ s \notin All(p)'
      <4>1. s \in sessions[p] /\ s \notin sessions'[p]
        BY <1>2 DEF Removes
      <4>2. s \notin connecting'[p]
        BY <1>1, <4>1 DEF ConnectInv, WordsUnique
      <4> QED
        BY <4>1, <4>2 DEF All
    <3>3. CASE p = "client"
      BY <1>3, <1>6, <3>1, <3>2, <3>3 DEF Other, ConnectInv, WordsUnique
    <3>4. CASE p = "server"
      BY <1>3, <1>6, <3>1, <3>2, <3>4 DEF Other, ConnectInv, WordsUnique
    <3> QED
      BY <3>3, <3>4, PeerCases
  <2> QED
    BY <1>4, <2>1, <2>2
<1>12. ASSUME NEW r \in Peer, NEW s \in sessions[r], s \notin sessions'[r]
       PROVE  \/ r = "client" /\ Told("client", "close_request", s.handle)'
              \/ r = "client" /\ Told("server", "close_request", s.handle)'
              \/ r = "server" /\ Told("client", "close_request", s.handle)'
              \/ r = "server" /\ Told("server", "close_request", s.handle)'
  <2>1. r = p /\ s \in removed
    BY <1>1, <1>12
  <2>2. CASE Told(p, "close_request", s.handle)
    BY <1>5, <2>1, <2>2, ToldGrows, PeerCases
  <2>3. CASE s \in sent
    <3>1. Send(p, "close_request", s) \in net'
      BY <2>3 DEF Removes
    <3>2. Told(Other(p), "close_request", s.handle)'
      BY <3>1, SendFields DEF Told
    <3> QED
      BY <2>1, <3>2, PeerCases DEF Other
  <2> QED
    BY <2>1, <2>2, <2>3 DEF Removes
<1>13. GoneIsClosed'
  <2>1. \A s \in sessions'["client"] : Told("client", "connect_response", s.handle)'
    BY <1>1, <1>5, <1>6, ToldGrows DEF ConnectInv, GoneIsClosed
  <2>2. ASSUME NEW d \in net', d.oper = "connect_response"
        PROVE  \/ \E s \in sessions'["server"] : s.handle = d.handle
               \/ Told("client", "close_request", d.handle)'
               \/ Told("server", "close_request", d.handle)'
    <3>1. d \in net
      BY <1>4, <2>2, SendFields
    <3>2. CASE \E s \in sessions["server"] : s.handle = d.handle
      BY <1>6, <1>12, <3>2
    <3>3. CASE Told("client", "close_request", d.handle) \/ Told("server", "close_request", d.handle)
      BY <1>5, <3>3, ToldGrows
    <3> QED
      BY <2>2, <3>1, <3>2, <3>3 DEF ConnectInv, GoneIsClosed
  <2>3. ASSUME NEW h \in joined'
        PROVE  \/ \E s \in sessions'["client"] : s.handle = h
               \/ Told("client", "close_request", h)'
               \/ Told("server", "close_request", h)'
    <3>1. h \in joined
      BY DEF Removes
    <3>2. CASE \E s \in sessions["client"] : s.handle = h
      BY <1>6, <1>12, <3>2
    <3>3. CASE Told("client", "close_request", h) \/ Told("server", "close_request", h)
      BY <1>5, <3>3, ToldGrows
    <3> QED
      BY <3>1, <3>2, <3>3 DEF ConnectInv, GoneIsClosed
  <2> QED
    BY <2>1, <2>2, <2>3 DEF GoneIsClosed
<1> QED
  BY <1>7, <1>8, <1>10, <1>11, <1>13 DEF ConnectInv

\* Peer p gets session s, new or in place of those in gone; no established
\* session goes and no close_request is sent.
NewPlace(p, gone, s) ==
    /\ \A r \in Peer : sessions[r] \subseteq sessions'[r]
    /\ \A r \in Peer : connecting'[r] \cap sessions'[r] = {}
    /\ \A r \in Peer \ {p} : connecting'[r] = connecting[r] /\ sessions'[r] = sessions[r]
    /\ \A t \in connecting'[p] : t = s \/ (t \in connecting[p] /\ t \notin gone)
    /\ \A t \in sessions'[p] : t = s \/ (t \in sessions[p] /\ t \notin gone)

\* The handle of s is its own: no other session has its word, nor has a
\* close_request of p.
NewWord(p, gone, s) ==
    /\ OfClient(s)'
    /\ p = "server" => ServerWord(s.handle)'
    /\ p = "client" => /\ s \in connecting'[p] => s.handle.server = 0
                       /\ s \in sessions'[p] => ServerWord(s.handle)'
    /\ p = "client" => \A t \in All(p) : t \notin gone => t.handle.client # s.handle.client
    /\ p = "server" => \A t \in All(p) : t \notin gone => t.handle.server # s.handle.server
    /\ \A d \in net : d.oper = "close_request" =>
         /\ p = "client" /\ d.to = "server" => s.handle.client # d.handle.client
         /\ p = "server" /\ d.to = "client" => s.handle # d.handle

\* What is sent, and what the client gets to know.
NewMessages ==
    /\ net \subseteq net'
    /\ \A d \in net' : d \notin net =>
         /\ OfClient(d)' /\ d.oper # "close_request"
         /\ d.oper = "connect_request" => d.to = "server" /\ d.handle.server = 0
         /\ d.oper = "connect_response" =>
              /\ d.to = "client" /\ ServerWord(d.handle)'
              /\ \E t \in sessions'["server"] : t.handle = d.handle
    /\ \A t \in sessions'["client"] :
         t \in sessions["client"] \/ Told("client", "connect_response", t.handle)'
    /\ \A h \in joined' : h \in joined \/ \E t \in sessions'["client"] : t.handle = h

LEMMA AdditionStep ==
    ASSUME OneWayRules, TypeOK, TypeOK', ConnectInv, CountersGrow, NEW p \in Peer,
           NEW gone, NEW s, NewPlace(p, gone, s), NewWord(p, gone, s), NewMessages
    PROVE  ConnectInv'
<1>1. "client" \in Peer /\ "server" \in Peer
  BY DEF Peer
<1>2. ASSUME NEW r \in Peer, NEW t \in All(r)'
      PROVE  (r = p /\ t = s) \/ (t \in All(r) /\ (r = p => t \notin gone))
  BY DEF All, NewPlace
<1>3. net \subseteq net'
  BY DEF NewMessages
<1>4. WordsUnique'
  <2>1. \A r \in Peer : connecting'[r] \cap sessions'[r] = {}
    BY DEF NewPlace
  <2>2. ASSUME NEW t \in All("client")', NEW u \in All("client")',
               t.handle.client = u.handle.client
        PROVE  t = u
    BY <1>1, <1>2, <2>2 DEF NewWord, ConnectInv, WordsUnique
  <2>3. ASSUME NEW t \in All("server")', NEW u \in All("server")',
               t.handle.server = u.handle.server
        PROVE  t = u
    BY <1>1, <1>2, <2>3 DEF NewWord, ConnectInv, WordsUnique
  <2> QED
    BY <2>1, <2>2, <2>3 DEF WordsUnique
<1>5. SessionsOrdered'
  <2>1. \A r \in Peer : handle_seq'[r] <= MaxSessions[r]
    BY DEF CountersGrow
  <2>2. \A t \in (All("client") \cup All("server"))' : OfClient(t)'
    BY <1>1, <1>2, WordsGrow DEF ConnectInv, SessionsOrdered, NewWord
  <2>3. \A t \in connecting'["client"] : t.handle.server = 0
    BY <1>1 DEF ConnectInv, SessionsOrdered, NewWord, NewPlace
  <2>4. \A t \in sessions'["client"] : ServerWord(t.handle)'
    BY <1>1, WordsGrow DEF ConnectInv, SessionsOrdered, NewWord, NewPlace
  <2>5. \A t \in All("server")' : ServerWord(t.handle)'
    BY <1>1, <1>2, WordsGrow DEF ConnectInv, SessionsOrdered, NewWord
  <2> QED
    BY <2>1, <2>2, <2>3, <2>4, <2>5 DEF SessionsOrdered
<1>6. NetOrdered'
  <2> SUFFICES ASSUME NEW d \in net'
               PROVE  (/\ OfClient(d)
                       /\ d.oper = "connect_request" => d.to = "server" /\ d.handle.server = 0
                       /\ d.oper = "connect_response" => d.to = "client" /\ ServerWord(d.handle)
                       /\ d.oper = "close_request" => ServerWord(d.handle))'
    BY DEF NetOrdered
  <2>1. CASE d \in net
    BY <2>1, WordsGrow DEF ConnectInv, NetOrdered
  <2>2. CASE d \notin net
    BY <2>2 DEF NewMessages
  <2> QED
    BY <2>1, <2>2
<1>7. ClosedIsGone'
  <2> SUFFICES ASSUME NEW d \in net', d.oper = "close_request"
               PROVE  /\ d.to = "server" =>
                           \A t \in All("client")' : t.handle.client # d.handle.client
                      /\ d.to = "client" => \A t \in All("server")' : t.handle # d.handle
    BY DEF ClosedIsGone
  <2>1. d \in net
    BY DEF NewMessages
  <2>2. ASSUME d.to = "server", NEW t \in All("client")'
        PROVE  t.handle.client # d.handle.client
    BY <1>1, <1>2, <2>1, <2>2 DEF ConnectInv, ClosedIsGone, NewWord
  <2>3. ASSUME d.to = "client", NEW t \in All("server")'
        PROVE  t.handle # d.handle
    BY <1>1, <1>2, <2>1, <2>3 DEF ConnectInv, ClosedIsGone, NewWord
  <2> QED
    BY <2>2, <2>3
<1>8. GoneIsClosed'
  <2>1. \A t \in sessions'["client"] : Told("client", "connect_response", t.handle)'
    BY <1>3, ToldGrows DEF ConnectInv, GoneIsClosed, NewMessages
  <2>2. ASSUME NEW d \in net', d.oper = "connect_response"
        PROVE  \/ \E t \in sessions'["server"] : t.handle = d.handle
               \/ Told("client", "close_request", d.handle)'
               \/ Told("server", "close_request", d.handle)'
    <3>1. CASE d \in net
      BY <1>1, <1>3, <2>2, <3>1, ToldGrows DEF ConnectInv, GoneIsClosed, NewPlace
    <3>2. CASE d \notin net
      BY <2>2, <3>2 DEF NewMessages
    <3> QED
      BY <3>1, <3>2
  <2>3. ASSUME NEW h \in joined'
        PROVE  \/ \E t \in sessions'["client"] : t.handle = h
               \/ Told("client", "close_request", h)'
               \/ Told("server", "close_request", h)'
    <3>1. CASE h \in joined
      BY <1>1, <1>3, <3>1, ToldGrows DEF ConnectInv, GoneIsClosed, NewPlace
    <3>2. CASE h \notin joined
      BY <3>2 DEF NewMessages
    <3> QED
      BY <3>1, <3>2
  <2> QED
    BY <2>1, <2>2, <2>3 DEF GoneIsClosed
<1> QED
  BY <1>4, <1>5, <1>6, <1>7, <1>8 DEF ConnectInv

\* A step that gives out no handle leaves the counters in their bounds.
LEMMA CountersStay ==
    ASSUME TypeOK, ConnectInv, UNCHANGED handle_seq
    PROVE  CountersGrow
BY DEF TypeOK, ConnectInv, SessionsOrdered, CountersGrow, HandleSeq

LEMMA CountersNext ==
    ASSUME TypeOK, ConnectInv, NEW p \in Peer, handle_seq[p] < MaxSessions[p],
           handle_seq' = [handle_seq EXCEPT ![p] = NextHandle(p)]
    PROVE  /\ CountersGrow
           /\ handle_seq'[p] = handle_seq[p] + 1 /\ handle_seq[p] \in Nat
<1>1. \A r \in Peer : handle_seq[r] \in Nat /\ handle_seq[r] <= MaxSessions[r]
  BY DEF TypeOK, ConnectInv, SessionsOrdered, HandleSeq
<1>2. handle_seq'[p] = handle_seq[p] + 1 /\ handle_seq'[p] <= MaxSessions[p]
  BY NextHandleIs DEF TypeOK
<1>3. \A r \in Peer : r # p => handle_seq'[r] = handle_seq[r]
  BY DEF TypeOK
<1> QED
  BY <1>1, <1>2, <1>3 DEF CountersGrow

\* A connecting session goes, and nobody is told.
LEMMA ForgetStep ==
    ASSUME OneWayRules, TypeOK, TypeOK', ConnectInv, CountersGrow, NEW p \in Peer, NEW gone,
           connecting' = [connecting EXCEPT ![p] = @ \ gone],
           UNCHANGED <<sessions, net, joined>>
    PROVE  ConnectInv'
<1>1. sessions' = [sessions EXCEPT ![p] = @ \ {}]
  BY DEF TypeOK
<1>2. net' = net \cup {Send(p, "close_request", s) : s \in {}}
  OBVIOUS
<1>3. Removes(p, {}, {})
  BY <1>1, <1>2 DEF Removes
<1> QED
  BY <1>3, RemovalStep

LEMMA AcceptStep ==
    ASSUME OneWayRules, TypeOK, TypeOK', ConnectInv,
           NEW p \in Peer, NEW v \in Services, Accept(p, v)
    PROVE  ConnectInv'
<1>0. PICK s : s = NewSession(p, v, [client |-> 0, server |-> 0], <<p, NextHandle(p)>>)
  OBVIOUS
<1> DEFINE new == Send(p, "connect_request", s)
<1>1. p = "client"
  BY DEF Accept, OneWayRules
<1>2. /\ handle_seq[p] < MaxSessions[p]
      /\ handle_seq' = [handle_seq EXCEPT ![p] = NextHandle(p)]
      /\ connecting' = [connecting EXCEPT ![p] = @ \cup {s}]
      /\ net' = net \cup {new}
      /\ UNCHANGED <<sessions, joined>>
  BY <1>0 DEF Accept
<1>3. /\ CountersGrow
      /\ NextHandle(p) = handle_seq'["client"]
      /\ handle_seq'["client"] = handle_seq["client"] + 1 /\ handle_seq["client"] \in Nat
  BY <1>1, <1>2, CountersNext DEF TypeOK
<1>4. /\ s.handle.client = handle_seq'["client"] /\ s.handle.server = 0
      /\ s.origin = <<"client", s.handle.client>>
  BY <1>0, <1>1, <1>3 DEF NewSession
<1>5. /\ new.to = "server" /\ new.oper = "connect_request"
      /\ new.handle = s.handle /\ new.origin = s.origin
  BY <1>1, SendFields DEF Other
<1> HIDE DEF new
<1>6. OfClient(s)'
  BY <1>3, <1>4 DEF OfClient, ClientWord
<1>7. OfClient(new)'
  BY <1>5, <1>6 DEF OfClient
<1>8. \A x : OfClient(x) => x.handle.client # s.handle.client
  BY <1>3, <1>4 DEF OfClient, ClientWord
<1>9. \A t \in All("client") : t.handle.client # s.handle.client
  BY <1>8 DEF ConnectInv, SessionsOrdered
<1>10. NewPlace(p, {}, s)
  <2>1. s \notin sessions[p]
    BY <1>1, <1>9 DEF All
  <2> QED
    BY <1>2, <2>1 DEF NewPlace, TypeOK, ConnectInv, WordsUnique
<1>11. NewWord(p, {}, s)
  <2>1. s \notin sessions'[p]
    BY <1>1, <1>2, <1>9 DEF All
  <2>2. \A d \in net : s.handle.client # d.handle.client
    BY <1>8 DEF ConnectInv, NetOrdered
  <2> QED
    BY <1>1, <1>4, <1>6, <1>9, <2>1, <2>2 DEF NewWord
<1>12. NewMessages
  BY <1>2, <1>4, <1>5, <1>7 DEF NewMessages
<1> QED
  BY <1>3, <1>10, <1>11, <1>12, AdditionStep

LEMMA RetryStep ==
    ASSUME OneWayRules, TypeOK, TypeOK', ConnectInv, NEW p \in Peer,
           NEW s \in connecting[p], ConnectTimeout(p, s)
    PROVE  ConnectInv'
<1> DEFINE s2 == [s EXCEPT !.connect_retries = @ + 1]
           new == Send(p, "connect_request", s)
<1>1. CountersGrow
  BY CountersStay DEF ConnectTimeout
<1>2. /\ \/ connecting' = [connecting EXCEPT ![p] = @ \ {s}] /\ net' = net
         \/ /\ connecting' = [connecting EXCEPT ![p] = (@ \ {s}) \cup {s2}]
            /\ net' = IF ClientOf[s.service] = p THEN net \cup {new} ELSE net
      /\ UNCHANGED <<sessions, joined, handle_seq>>
  BY DEF ConnectTimeout, DeleteConnecting
<1>3. s \in Session
  BY DEF TypeOK
<1>4. s2.handle = s.handle /\ s2.origin = s.origin
  BY <1>3 DEF Session
<1>5. /\ new.to = Other(p) /\ new.oper = "connect_request"
      /\ new.handle = s.handle /\ new.origin = s.origin
  BY SendFields
<1>6. CASE connecting' = [connecting EXCEPT ![p] = @ \ {s}] /\ net' = net
  BY <1>1, <1>2, <1>6, ForgetStep
<1>7. CASE /\ connecting' = [connecting EXCEPT ![p] = (@ \ {s}) \cup {s2}]
           /\ net' = IF ClientOf[s.service] = p THEN net \cup {new} ELSE net
  <2> HIDE DEF s2, new
  <2>1. s \in All(p) /\ OfClient(s)
    BY PeerCases DEF All, ConnectInv, SessionsOrdered
  <2>2. OfClient(s2)' /\ OfClient(new)'
    <3>1. OfClient(s)'
      BY <1>1, <2>1, WordsGrow
    <3> QED
      BY <1>4, <1>5, <3>1 DEF OfClient
  <2>3. \A t \in All(p) : t \notin {s} =>
          /\ p = "client" => t.handle.client # s.handle.client
          /\ p = "server" => t.handle.server # s.handle.server
    BY <2>1 DEF ConnectInv, WordsUnique
  <2>4. s2 \notin sessions[p]
    <3>1. s \notin sessions[p]
      BY DEF ConnectInv, WordsUnique
    <3> QED
      BY <1>4, <2>3, <3>1, PeerCases DEF All
  <2>5. NewPlace(p, {s}, s2)
    <3>1. s \notin sessions[p]
      BY DEF ConnectInv, WordsUnique
    <3> QED
      BY <1>2, <1>7, <2>4, <3>1 DEF NewPlace, TypeOK, ConnectInv, WordsUnique
  <2>6. NewWord(p, {s}, s2)
    <3>1. p = "client" => s2.handle.server = 0 /\ s2 \notin sessions'[p]
      BY <1>2, <1>4, <2>4 DEF ConnectInv, SessionsOrdered
    <3>2. p = "server" => ServerWord(s.handle)'
      BY <1>1, <2>1, WordsGrow DEF ConnectInv, SessionsOrdered
    <3>3. \A d \in net : d.oper = "close_request" =>
            /\ p = "client" /\ d.to = "server" => s.handle.client # d.handle.client
            /\ p = "server" /\ d.to = "client" => s.handle # d.handle
      BY <2>1 DEF ConnectInv, ClosedIsGone
    <3> QED
      BY <1>4, <2>2, <2>3, <3>1, <3>2, <3>3 DEF NewWord
  <2>7. NewMessages
    <3>1. ASSUME NEW d \in net', d \notin net
          PROVE  d = new /\ p = "client" /\ s.handle.server = 0
      <4>1. d = new /\ ClientOf[s.service] = p
        BY <1>7, <3>1
      <4>2. p = "client"
        BY <1>3, <4>1 DEF OneWayRules, Session
      <4> QED
        BY <4>1, <4>2 DEF ConnectInv, SessionsOrdered
    <3>2. net \subseteq net' /\ UNCHANGED <<sessions, joined>>
      BY <1>2, <1>7
    <3> QED
      BY <1>5, <2>2, <3>1, <3>2 DEF NewMessages, Other
  <2> QED
    BY <1>1, <2>5, <2>6, <2>7, AdditionStep
<1> QED
  BY <1>2, <1>6, <1>7

\* A connect_request carries no server's word, so there is nothing to replace.
LEMMA RequestStep ==
    ASSUME OneWayRules, TypeOK, TypeOK', ConnectInv,
           NEW p \in Peer, NEW d \in net, d.to = p, HandleConnectRequest(p, d)
    PROVE  ConnectInv'
<1>1. PICK s : s = NewSession(p, d.service, d.handle, d.origin)
  OBVIOUS
<1>2. /\ p = "server" /\ d.handle.server = 0 /\ OfClient(d) /\ d.handle \in Handle
  BY DEF HandleConnectRequest, ConnectInv, NetOrdered, TypeOK, Datagram
<1>3. \A t \in All("server") : ServerWord(t.handle)
  BY DEF ConnectInv, SessionsOrdered
<1>4. \A t \in All("server") : t.handle # d.handle
  <2>1. ~ServerWord(d.handle)
    BY <1>2 DEF ServerWord, TypeOK, HandleSeq
  <2> QED
    BY <1>3, <2>1
<1>5. WithHandle(sessions[p], d.handle) = {} /\ WithHandle(connecting[p], d.handle) = {}
  BY <1>2, <1>4 DEF WithHandle, All
<1>6. /\ sessions' = [sessions EXCEPT ![p] = @ \ {}]
      /\ net' = net \cup {Send(p, "close_request", t) : t \in {}}
      /\ UNCHANGED joined
      /\ \/ /\ connecting' = [connecting EXCEPT ![p] = @ \ {}]
            /\ UNCHANGED handle_seq
         \/ /\ handle_seq[p] < MaxSessions[p]
            /\ handle_seq' = [handle_seq EXCEPT ![p] = NextHandle(p)]
            /\ \/ connecting' = [connecting EXCEPT ![p] = @ \ {}]
               \/ connecting' = [connecting EXCEPT ![p] = (@ \ {}) \cup {s}]
  <2>1. /\ {t \in WithHandle(sessions[p], d.handle) : t.service = d.service} = {}
        /\ {t \in WithHandle(connecting[p], d.handle) : t.service = d.service} = {}
    BY <1>5
  <2> QED
    BY <1>1, <2>1 DEF HandleConnectRequest
<1>7. sessions' = sessions /\ net' = net
  BY <1>6 DEF TypeOK
<1>8. CASE UNCHANGED handle_seq /\ connecting' = [connecting EXCEPT ![p] = @ \ {}]
  BY <1>6, <1>7, <1>8, CountersStay, ForgetStep
<1>9. ASSUME handle_seq[p] < MaxSessions[p],
             handle_seq' = [handle_seq EXCEPT ![p] = NextHandle(p)]
      PROVE  /\ CountersGrow
             /\ NextHandle(p) = handle_seq'["server"]
             /\ handle_seq'["server"] = handle_seq["server"] + 1
             /\ handle_seq["server"] \in Nat
  BY <1>2, <1>9, CountersNext DEF TypeOK
<1>10. CASE /\ handle_seq[p] < MaxSessions[p]
            /\ handle_seq' = [handle_seq EXCEPT ![p] = NextHandle(p)]
            /\ connecting' = [connecting EXCEPT ![p] = @ \ {}]
  BY <1>6, <1>7, <1>9, <1>10, ForgetStep
<1>11. CASE /\ handle_seq[p] < MaxSessions[p]
            /\ handle_seq' = [handle_seq EXCEPT ![p] = NextHandle(p)]
            /\ connecting' = [connecting EXCEPT ![p] = (@ \ {}) \cup {s}]
  <2>1. d.handle.client # 0 /\ d.origin = <<"client", d.handle.client>>
    BY <1>2 DEF OfClient, ClientWord, TypeOK, HandleSeq
  <2>2. /\ s.handle.client = d.handle.client /\ s.origin = d.origin
        /\ s.handle.server = handle_seq'["server"]
    BY <1>1, <1>2, <1>9, <1>11, <2>1 DEF NewSession, Handle
  <2>3. OfClient(s)' /\ ServerWord(s.handle)'
    <3>1. OfClient(d)'
      BY <1>2, <1>9, <1>11, WordsGrow
    <3>2. ServerWord(s.handle)'
      BY <1>9, <1>11, <2>2 DEF ServerWord
    <3> QED
      BY <2>2, <3>1, <3>2 DEF OfClient, ClientWord
  <2>4. \A h : ServerWord(h) => h.server # s.handle.server
    BY <1>9, <1>11, <2>2 DEF ServerWord
  <2>5. \A t \in All("server") : t.handle.server # s.handle.server
    BY <1>3, <2>4
  <2>6. \A c \in net : c.oper = "close_request" => c.handle # s.handle
    BY <2>4 DEF ConnectInv, NetOrdered
  <2>7. NewPlace(p, {}, s)
    <3>1. s \notin sessions[p]
      BY <1>2, <2>5 DEF All
    <3> QED
      BY <1>7, <1>11, <3>1 DEF NewPlace, TypeOK, ConnectInv, WordsUnique
  <2>8. NewWord(p, {}, s)
    BY <1>2, <2>3, <2>5, <2>6 DEF NewWord
  <2>9. NewMessages
    BY <1>6, <1>7 DEF NewMessages
  <2> QED
    BY <1>9, <1>11, <2>7, <2>8, <2>9, AdditionStep
<1> QED
  BY <1>6, <1>8, <1>10, <1>11

LEMMA SuccessStep ==
    ASSUME OneWayRules, TypeOK, TypeOK', ConnectInv, NEW p \in Peer,
           NEW s \in connecting[p], ConnectSuccess(p, s)
    PROVE  ConnectInv'
<1> DEFINE new == Send(p, "connect_response", s)
<1>1. p = "server"
  <2>1. s.service \in Services
    BY DEF TypeOK, Session
  <2> QED
    BY <2>1, PeerCases DEF ConnectSuccess, OneWayRules
<1>2. /\ connecting' = [connecting EXCEPT ![p] = @ \ {s}]
      /\ sessions' = [sessions EXCEPT ![p] = @ \cup {s}]
      /\ net' = net \cup {new}
      /\ UNCHANGED <<handle_seq, joined>>
  BY DEF ConnectSuccess
<1>3. /\ new.to = "client" /\ new.oper = "connect_response"
      /\ new.handle = s.handle /\ new.origin = s.origin
  BY <1>1, SendFields DEF Other
<1> HIDE DEF new
<1>4. CountersGrow
  BY <1>2, CountersStay
<1>5. s \in All("server") /\ OfClient(s) /\ ServerWord(s.handle)
  BY <1>1 DEF All, ConnectInv, SessionsOrdered
<1>6. OfClient(s)' /\ ServerWord(s.handle)' /\ OfClient(new)' /\ ServerWord(new.handle)'
  <2>1. OfClient(s)' /\ ServerWord(s.handle)'
    BY <1>4, <1>5, WordsGrow
  <2> QED
    BY <1>3, <2>1 DEF OfClient
<1>7. NewPlace(p, {s}, s)
  BY <1>2 DEF NewPlace, TypeOK, ConnectInv, WordsUnique
<1>8. NewWord(p, {s}, s)
  <2>1. \A t \in All(p) : t \notin {s} => t.handle.server # s.handle.server
    BY <1>1, <1>5 DEF ConnectInv, WordsUnique
  <2>2. \A d \in net : d.oper = "close_request" /\ d.to = "client" => s.handle # d.handle
    BY <1>5 DEF ConnectInv, ClosedIsGone
  <2> QED
    BY <1>1, <1>6, <2>1, <2>2 DEF NewWord
<1>9. NewMessages
  <2>1. s \in sessions'["server"] /\ sessions'["client"] = sessions["client"]
    BY <1>1, <1>2 DEF TypeOK, Peer
  <2>2. \A d \in net' : d \notin net => d = new
    BY <1>2
  <2>3. net \subseteq net' /\ joined' = joined
    BY <1>2
  <2> QED
    BY <1>3, <1>6, <2>1, <2>2, <2>3 DEF NewMessages
<1> QED
  BY <1>4, <1>7, <1>8, <1>9, AdditionStep

\* Data is sent for a session that exists, and says no more than its handle.
LEMMA DataStep ==
    ASSUME OneWayRules, TypeOK, TypeOK', ConnectInv, NEW p \in Peer,
           NEW s \in sessions[p], SendData(p, s)
    PROVE  ConnectInv'
<1> DEFINE new == Send(p, "data", s)
<1>1. net' = net \cup {new} /\ UNCHANGED <<handle_seq, connecting, sessions, joined>>
  BY DEF SendData
<1>2. new.oper = "data" /\ new.handle = s.handle /\ new.origin = s.origin
  BY SendFields
<1> HIDE DEF new
<1>3. CountersGrow
  BY <1>1, CountersStay
<1>4. s \in All(p) /\ OfClient(s) /\ ServerWord(s.handle)
  BY PeerCases DEF All, ConnectInv, SessionsOrdered
<1>5. OfClient(s)' /\ ServerWord(s.handle)' /\ OfClient(new)'
  <2>1. OfClient(s)' /\ ServerWord(s.handle)'
    BY <1>3, <1>4, WordsGrow
  <2> QED
    BY <1>2, <2>1 DEF OfClient
<1>6. s \notin connecting[p]
  BY DEF ConnectInv, WordsUnique
<1>7. NewPlace(p, {s}, s)
  BY <1>1, <1>6 DEF NewPlace, ConnectInv, WordsUnique
<1>8. NewWord(p, {s}, s)
  <2>1. /\ p = "client" => \A t \in All(p) : t \notin {s} => t.handle.client # s.handle.client
        /\ p = "server" => \A t \in All(p) : t \notin {s} => t.handle.server # s.handle.server
    BY <1>4 DEF ConnectInv, WordsUnique
  <2>2. \A d \in net : d.oper = "close_request" =>
          /\ p = "client" /\ d.to = "server" => s.handle.client # d.handle.client
          /\ p = "server" /\ d.to = "client" => s.handle # d.handle
    BY <1>4 DEF ConnectInv, ClosedIsGone
  <2> QED
    BY <1>1, <1>5, <1>6, <2>1, <2>2 DEF NewWord
<1>9. NewMessages
  BY <1>1, <1>2, <1>5 DEF NewMessages
<1> QED
  BY <1>3, <1>7, <1>8, <1>9, AdditionStep

LEMMA ResponseStep ==
    ASSUME OneWayRules, TypeOK, TypeOK', ConnectInv,
           NEW p \in Peer, NEW d \in net, d.to = p, HandleConnectResponse(p, d)
    PROVE  ConnectInv'
<1>1. PICK s \in connecting[p] :
        /\ s.handle = [d.handle EXCEPT !.server = 0]
        /\ [s EXCEPT !.handle = d.handle] \in Session
        /\ connecting' = [connecting EXCEPT ![p] = @ \ {s}]
        /\ sessions' = [sessions EXCEPT ![p] = @ \cup {[s EXCEPT !.handle = d.handle]}]
  BY ResponseFinds
<1> DEFINE s2 == [s EXCEPT !.handle = d.handle]
<1>2. /\ d.oper = "connect_response" /\ UNCHANGED <<handle_seq, net>>
      /\ joined' = joined \cup {d.handle}
  BY DEF HandleConnectResponse
<1>3. p = "client" /\ ServerWord(d.handle) /\ d.handle \in Handle /\ s \in Session
  BY <1>2 DEF ConnectInv, NetOrdered, TypeOK, Datagram
<1>4. s2.handle = d.handle /\ s2.origin = s.origin
  BY <1>3 DEF Session
<1>5. s.handle.client = d.handle.client /\ s.handle.server = 0
  BY <1>1, <1>3 DEF Handle
<1>6. sessions' = [sessions EXCEPT ![p] = @ \cup {s2}]
  BY <1>1
<1> HIDE DEF s2
<1>7. CountersGrow
  BY <1>2, CountersStay
<1>8. s \in All("client") /\ OfClient(s)
  BY <1>3 DEF All, ConnectInv, SessionsOrdered
<1>9. OfClient(s2)' /\ ServerWord(s2.handle)'
  <2>1. OfClient(s)' /\ ServerWord(d.handle)'
    BY <1>3, <1>7, <1>8, WordsGrow
  <2> QED
    BY <1>4, <1>5, <2>1 DEF OfClient, ClientWord
<1>10. s2 \notin connecting[p]
  <2>1. s2.handle.server # 0
    BY <1>3, <1>4 DEF ServerWord, TypeOK, HandleSeq
  <2> QED
    BY <1>3, <2>1 DEF ConnectInv, SessionsOrdered
<1>11. NewPlace(p, {s}, s2)
  <2>1. s \notin sessions[p]
    BY DEF ConnectInv, WordsUnique
  <2> QED
    BY <1>1, <1>6, <1>10, <2>1 DEF NewPlace, TypeOK, ConnectInv, WordsUnique
<1>12. NewWord(p, {s}, s2)
  <2>1. s2 \notin connecting'[p]
    BY <1>1, <1>10 DEF TypeOK
  <2>2. \A t \in All(p) : t \notin {s} => t.handle.client # s2.handle.client
    BY <1>3, <1>4, <1>5, <1>8 DEF ConnectInv, WordsUnique
  <2>3. \A c \in net : c.oper = "close_request" /\ c.to = "server" =>
          s2.handle.client # c.handle.client
    BY <1>4, <1>5, <1>8 DEF ConnectInv, ClosedIsGone
  <2> QED
    BY <1>3, <1>9, <2>1, <2>2, <2>3 DEF NewWord
<1>13. NewMessages
  <2>1. Told("client", "connect_response", s2.handle)'
    BY <1>2, <1>3, <1>4 DEF Told
  <2>2. s2 \in sessions'["client"] /\ \A t \in sessions'["client"] : t \in sessions["client"] \/ t = s2
    BY <1>3, <1>6 DEF TypeOK
  <2> QED
    BY <1>2, <1>4, <2>1, <2>2 DEF NewMessages
<1> QED
  BY <1>7, <1>11, <1>12, <1>13, AdditionStep

LEMMA DropStep ==
    ASSUME OneWayRules, TypeOK, TypeOK', ConnectInv, NEW p \in Peer, NEW gone,
           DropRules(p, gone)
    PROVE  ConnectInv'
<1> DEFINE closed == {s \in sessions[p] : s.service \in gone}
           left == {s \in connecting[p] : s.service \in gone}
<1>1. /\ sessions' = [sessions EXCEPT ![p] = @ \ closed]
      /\ net' = net \cup {Send(p, "close_request", s) : s \in closed}
      /\ UNCHANGED <<handle_seq, joined>>
  BY DEF DropRules
<1>2. connecting' = [connecting EXCEPT ![p] = @ \ left]
  <2>1. {s \in connecting[p] : s.service \notin gone} = connecting[p] \ left
    OBVIOUS
  <2> QED
    BY <2>1 DEF DropRules
<1>3. closed \subseteq sessions[p] /\ CountersGrow
  BY <1>1, CountersStay
<1> HIDE DEF closed, left
<1>4. Removes(p, closed, closed)
  BY <1>1, <1>2, <1>3 DEF Removes
<1> QED
  BY <1>4, RemovalStep

LEMMA CloseStep ==
    ASSUME OneWayRules, TypeOK, TypeOK', ConnectInv, NEW p \in Peer,
           NEW s \in sessions[p], CloseSession(p, s)
    PROVE  ConnectInv'
<1>1. /\ sessions' = [sessions EXCEPT ![p] = @ \ {s}]
      /\ net' = net \cup {Send(p, "close_request", s)}
      /\ UNCHANGED <<handle_seq, connecting, joined>>
  BY DEF CloseSession
<1>2. net' = net \cup {Send(p, "close_request", t) : t \in {s}}
  BY <1>1
<1>3. connecting' = [connecting EXCEPT ![p] = @ \ {}]
  BY <1>1 DEF TypeOK
<1>4. {s} \subseteq sessions[p] /\ CountersGrow
  BY <1>1, CountersStay
<1>5. Removes(p, {s}, {s})
  BY <1>1, <1>2, <1>3, <1>4 DEF Removes
<1> QED
  BY <1>5, RemovalStep

LEMMA CloseRequestStep ==
    ASSUME OneWayRules, TypeOK, TypeOK', ConnectInv,
           NEW p \in Peer, NEW d \in net, d.to = p, HandleCloseRequest(p, d)
    PROVE  ConnectInv'
<1> DEFINE found == WithHandle(sessions[p], d.handle)
           s == First(found)
<1>1. /\ d.oper = "close_request" /\ found # {}
      /\ sessions' = [sessions EXCEPT ![p] = @ \ {s}]
      /\ UNCHANGED <<handle_seq, connecting, net, joined>>
  BY DEF HandleCloseRequest
<1>2. found \in SUBSET Session
  BY DEF WithHandle, TypeOK
<1>3. s \in found
  BY <1>1, <1>2, FirstFound
<1>4. s \in sessions[p] /\ s.handle = d.handle
  BY <1>3 DEF WithHandle
<1> HIDE DEF s, found
<1>5. net' = net \cup {Send(p, "close_request", t) : t \in {}}
  BY <1>1
<1>6. connecting' = [connecting EXCEPT ![p] = @ \ {}]
  BY <1>1 DEF TypeOK
<1>7. CountersGrow
  BY <1>1, CountersStay
<1>8. Told(p, "close_request", s.handle)
  BY <1>1, <1>4 DEF Told
<1>9. Removes(p, {s}, {})
  BY <1>1, <1>4, <1>5, <1>6, <1>7, <1>8 DEF Removes
<1> QED
  BY <1>9, RemovalStep

LEMMA SameConnect ==
    ASSUME ConnectInv, UNCHANGED <<handle_seq, connecting, sessions, net, joined>>
    PROVE  ConnectInv'
<1>1. WordsUnique' /\ SessionsOrdered'
  BY DEF ConnectInv, WordsUnique, SessionsOrdered, All, OfClient, ClientWord, ServerWord
<1>2. NetOrdered' /\ ClosedIsGone'
  BY DEF ConnectInv, NetOrdered, ClosedIsGone, All, OfClient, ClientWord, ServerWord
<1>3. GoneIsClosed'
  BY DEF ConnectInv, GoneIsClosed, Told
<1> QED
  BY <1>1, <1>2, <1>3 DEF ConnectInv

LEMMA ConnectInit == Init => ConnectInv
<1> SUFFICES ASSUME Init PROVE ConnectInv
  OBVIOUS
<1>1. \A p \in Peer : All(p) = {} /\ sessions[p] = {} /\ connecting[p] = {}
  BY DEF Init, All
<1>2. "client" \in Peer /\ "server" \in Peer
  BY DEF Peer
<1>3. WordsUnique
  BY <1>1, <1>2 DEF WordsUnique
<1>4. SessionsOrdered
  BY <1>1, <1>2, HandleAssumption DEF SessionsOrdered, Init
<1> QED
  BY <1>1, <1>2, <1>3, <1>4 DEF ConnectInv, NetOrdered, ClosedIsGone, GoneIsClosed, Init

LEMMA ConnectStep ==
    ASSUME OneWayRules, TypeOK, TypeOK', ConnectInv, [Next]_vars
    PROVE  ConnectInv'
<1>1. CASE UNCHANGED vars
  BY <1>1, SameConnect DEF vars
<1>2. ASSUME NEW p \in Peer, AddContext(p) PROVE ConnectInv'
  BY <1>2, SameConnect DEF AddContext
<1>3. ASSUME NEW p \in Peer, DeleteContext(p) PROVE ConnectInv'
  BY <1>3, DropStep DEF DeleteContext
<1>4. ASSUME NEW p \in Peer, NEW v \in Services, AddRule(p, v) PROVE ConnectInv'
  BY <1>4, SameConnect DEF AddRule
<1>5. ASSUME NEW p \in Peer, NEW v \in Services, DeleteRule(p, v) PROVE ConnectInv'
  BY <1>5, DropStep DEF DeleteRule
<1>6. ASSUME NEW p \in Peer, NEW v \in Services, Accept(p, v) PROVE ConnectInv'
  BY <1>6, AcceptStep
<1>7. ASSUME NEW p \in Peer, NEW s \in connecting[p], ConnectTimeout(p, s) PROVE ConnectInv'
  BY <1>7, RetryStep
<1>8. ASSUME NEW p \in Peer, NEW s \in connecting[p], ConnectSuccess(p, s) PROVE ConnectInv'
  BY <1>8, SuccessStep
<1>9. ASSUME NEW p \in Peer, NEW s \in connecting[p], ConnectFailure(p, s) PROVE ConnectInv'
  BY <1>9, CountersStay, ForgetStep DEF ConnectFailure, DeleteConnecting
<1>10. ASSUME NEW p \in Peer, NEW s \in sessions[p], CloseSession(p, s) PROVE ConnectInv'
  BY <1>10, CloseStep
<1>11. ASSUME NEW p \in Peer, NEW s \in sessions[p], SendData(p, s) PROVE ConnectInv'
  BY <1>11, DataStep
<1>12. ASSUME NEW p \in Peer, NEW d \in net, ProcessUdp(p, d) PROVE ConnectInv'
  BY <1>12, RequestStep, ResponseStep, CloseRequestStep DEF ProcessUdp
<1> QED
  BY <1>1, <1>2, <1>3, <1>4, <1>5, <1>6, <1>7, <1>8, <1>9, <1>10, <1>11, <1>12 DEF Next

\* Words of handles are given out once, what was closed stays closed, and what
\* both ends knew is at both ends or one of them has sent close_request.
THEOREM ConnectInvariant ==
    ASSUME OneWayRules
    PROVE  Spec => []ConnectInv
<1>1. TypeOK /\ TypeOK' /\ ConnectInv /\ [Next]_vars => ConnectInv'
  BY ConnectStep
<1> QED
  BY <1>1, ConnectInit, TypeCorrect, PTL DEF Spec

\* However often connect_requests are repeated, lost or late, and whatever
\* rules and contexts are deleted, a handle finds one session, of the
\* connection it was given to.
THEOREM HandlesPair ==
    ASSUME OneWayRules
    PROVE  Spec => []Paired
<1>1. ASSUME ConnectInv PROVE Paired
  <2>1. "client" \in Peer /\ "server" \in Peer
    BY DEF Peer
  <2>2. ASSUME NEW p \in Peer, NEW s \in sessions[p], NEW t \in sessions[p],
               s.handle = t.handle
        PROVE  s = t
    BY <1>1, <2>2, PeerCases DEF ConnectInv, WordsUnique, All
  <2>3. ASSUME NEW p \in Peer, NEW s \in sessions[p], NEW t \in sessions[Other(p)],
               s.handle = t.handle
        PROVE  s.origin = t.origin
    <3>1. OfClient(s) /\ OfClient(t)
      BY <1>1, PeerCases DEF ConnectInv, SessionsOrdered, All, Other
    <3> QED
      BY <2>3, <3>1 DEF OfClient
  <2> QED
    BY <2>2, <2>3 DEF Paired
<1> QED
  BY <1>1, ConnectInvariant, PTL

\* A datagram, however late, is never taken by a session of another connection.
THEOREM ConnectionsAreIsolated ==
    ASSUME OneWayRules
    PROVE  Spec => []Isolated
<1>1. ASSUME TypeOK, ConnectInv PROVE Isolated
  <2> SUFFICES ASSUME NEW d \in net, NEW s \in sessions[d.to], s.handle = d.handle
               PROVE  s.origin = d.origin
    BY DEF Isolated, WithHandle
  <2>1. d.to \in Peer
    BY <1>1 DEF TypeOK, Datagram
  <2>2. OfClient(d) /\ OfClient(s)
    BY <1>1, <2>1, PeerCases DEF ConnectInv, NetOrdered, SessionsOrdered, All
  <2> QED
    BY <2>2 DEF OfClient
<1> QED
  BY <1>1, TypeCorrect, ConnectInvariant, PTL

\* A session that both ends have established has its other end, or a
\* close_request from there is on its way: t2u_delete_connected_session never
\* leaves half a session behind without a word.
THEOREM HandlesMapSessions ==
    ASSUME OneWayRules
    PROVE  Spec => []HandleMapsSession
<1>1. ASSUME ConnectInv PROVE HandleMapsSession
  <2> SUFFICES ASSUME NEW p \in Peer, NEW s \in sessions[p], s.handle \in joined
               PROVE  \/ WithHandle(sessions[Other(p)], Wire(s.handle)) # {}
                      \/ \E d \in net : d.to = p /\ d.oper = "close_request" /\ d.handle = s.handle
    BY DEF HandleMapsSession
  <2>1. Wire(s.handle) = s.handle
    BY DEF Wire, OneWayRules
  <2>2. s \in All(p)
    BY DEF All
  <2>3. CASE p = "client"
    <3>1. \/ \E t \in sessions["server"] : t.handle = s.handle
          \/ Told("client", "close_request", s.handle)
          \/ Told("server", "close_request", s.handle)
      BY <1>1, <2>3 DEF ConnectInv, GoneIsClosed, Told
    <3>2. ~Told("server", "close_request", s.handle)
      BY <1>1, <2>2, <2>3 DEF ConnectInv, ClosedIsGone, Told
    <3> QED
      BY <2>1, <2>3, <3>1, <3>2 DEF WithHandle, Other, Told
  <2>4. CASE p = "server"
    <3>1. \/ \E t \in sessions["client"] : t.handle = s.handle
          \/ Told("client", "close_request", s.handle)
          \/ Told("server", "close_request", s.handle)
      BY <1>1 DEF ConnectInv, GoneIsClosed
    <3>2. ~Told("client", "close_request", s.handle)
      BY <1>1, <2>2, <2>4 DEF ConnectInv, ClosedIsGone, Told
    <3> QED
      BY <2>1, <2>4, <3>1, <3>2 DEF WithHandle, Other, Told
  <2> QED
    BY <2>3, <2>4, PeerCases
<1> QED
  BY <1>1, ConnectInvariant, PTL
=============================================================================

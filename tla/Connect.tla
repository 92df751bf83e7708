------------------------------ MODULE Connect ------------------------------
(***************************************************************************)
(* How sessions come and go between two t2u contexts joined by UDP: rules, *)
(* the connect handshake with its retries, the handles that map a datagram *)
(* to its session, and the close request.  What an established session     *)
(* carries is the subject of DataSession.                                  *)
(*                                                                         *)
(* Each context lives in a process of its own and keeps the handle counter *)
(* of that process.  Every action is one callback of the runner thread.    *)
(***************************************************************************)
EXTENDS Integers, FiniteSets

CONSTANTS
    Services,     \* rule names, numbered in the order of compare_name
    ClientOf,     \* the peer whose rule for a service is in client mode
    KeepsHandle,  \* hton64 keeps 64 bits; FALSE on __x86_64__ and _WIN64
    Retries,      \* uretries_
    HandleSpan,   \* the values of the uint32_t handle_seq_
    MaxSessions,  \* bound: sessions each process ever creates
    MaxData       \* bound: data datagrams of established sessions

Peer == {"client", "server"}
Other(p) == IF p = "client" THEN "server" ELSE "client"

ASSUME ServicesAssumption == Services \subseteq Nat /\ ClientOf \in [Services -> Peer]
ASSUME KeepsHandleAssumption == KeepsHandle \in BOOLEAN
ASSUME RetriesAssumption == Retries \in Nat /\ MaxData \in Nat
ASSUME HandleAssumption ==
    /\ HandleSpan \in Nat
    /\ MaxSessions \in [Peer -> Nat]
    /\ \A p \in Peer : MaxSessions[p] < HandleSpan

VARIABLES
    contexts,    \* the peers whose context exists
    rules,       \* context->rules_: the services each context has a rule for
    handle_seq,  \* the static counter of t2u_add_connecting_session
    connecting,  \* the connecting_sessions_ of all rules of a context
    sessions,    \* the sessions_ of all rules of a context
    net,         \* datagrams sent: never consumed, so any order, any number
    joined       \* history: handles that a client session was established with

vars == <<contexts, rules, handle_seq, connecting, sessions, net, joined>>

-----------------------------------------------------------------------------
HandleSeq == 0 .. HandleSpan - 1

\* The 64-bit handle: low word from the client, high word from the server.
Handle == [client : HandleSeq, server : HandleSeq]

\* origin is history: the accepted TCP connection that the session belongs to.
Origin == Peer \X HandleSeq

Session == [service : Services, handle : Handle, connect_retries : Nat, origin : Origin]

Datagram ==
    [to : Peer, oper : {"connect_request", "connect_response", "data", "close_request"},
     service : Services, handle : Handle, origin : Origin]

\* hton64 and ntoh64: on some builds they are htonl and ntohl.
Wire(h) == IF KeepsHandle THEN h ELSE [h EXCEPT !.server = 0]

\* Only a connect_request carries the service name; in the others it and the
\* origin are history.  "data" stands for data_request, data_response and
\* retrans_request.
Send(p, oper, s) ==
    [to |-> Other(p), oper |-> oper, service |-> s.service,
     handle |-> Wire(s.handle), origin |-> s.origin]

\* find_session_in_context: rules are searched in the order of their names.
First(found) == CHOOSE s \in found : \A t \in found : s.service <= t.service
WithHandle(set, h) == {s \in set : s.handle = h}

\* Mutant: the increment that skips 0 is unconditional.
NextHandleTwice(p) == handle_seq[p] + 2

\* The counter skips 0 when it wraps.
NextHandle(p) == IF handle_seq[p] + 1 = HandleSpan THEN 1 ELSE handle_seq[p] + 1

-----------------------------------------------------------------------------
(* Contexts and rules *)

AddContext(p) ==
    /\ p \notin contexts
    /\ contexts' = contexts \cup {p}
    /\ UNCHANGED <<rules, handle_seq, connecting, sessions, net, joined>>

AddRule(p, v) ==
    /\ p \in contexts /\ v \notin rules[p]
    /\ rules' = [rules EXCEPT ![p] = @ \cup {v}]
    /\ UNCHANGED <<contexts, handle_seq, connecting, sessions, net, joined>>

\* Mutant: the peer is not told of the sessions deleted.
DropRulesSilently(p, gone) ==
    /\ rules' = [rules EXCEPT ![p] = @ \ gone]
    /\ sessions' = [sessions EXCEPT ![p] = {s \in @ : s.service \notin gone}]
    /\ connecting' = [connecting EXCEPT ![p] = {s \in @ : s.service \notin gone}]
    /\ UNCHANGED <<net, handle_seq, joined>>

\* Mutant: connecting sessions are left behind.
DropRulesHalf(p, gone) ==
    LET closed == {s \in sessions[p] : s.service \in gone}
    IN  /\ rules' = [rules EXCEPT ![p] = @ \ gone]
        /\ sessions' = [sessions EXCEPT ![p] = @ \ closed]
        /\ net' = net \cup {Send(p, "close_request", s) : s \in closed}
        /\ UNCHANGED <<connecting, handle_seq, joined>>

\* delete_rule_cb_ for each rule of gone: established sessions are deleted
\* with a close_request, connecting ones without a word.
DropRules(p, gone) ==
    LET closed == {s \in sessions[p] : s.service \in gone}
    IN  /\ rules' = [rules EXCEPT ![p] = @ \ gone]
        /\ sessions' = [sessions EXCEPT ![p] = @ \ closed]
        /\ connecting' = [connecting EXCEPT ![p] = {s \in @ : s.service \notin gone}]
        /\ net' = net \cup {Send(p, "close_request", s) : s \in closed}
        /\ UNCHANGED <<handle_seq, joined>>

DeleteRule(p, v) ==
    /\ p \in contexts /\ v \in rules[p]
    /\ DropRules(p, {v})
    /\ UNCHANGED contexts

DeleteContext(p) ==
    /\ p \in contexts
    /\ DropRules(p, rules[p])
    /\ contexts' = contexts \ {p}

-----------------------------------------------------------------------------
(* The handshake *)

\* t2u_add_connecting_session: a handle of 0 asks for a new one, any other is
\* the client's and gets the server's word.
NewSession(p, v, handle, origin) ==
    [service |-> v, connect_retries |-> 0, origin |-> origin,
     handle |-> IF handle.client = 0 THEN [client |-> NextHandle(p), server |-> 0]
                                     ELSE [handle EXCEPT !.server = NextHandle(p)]]

\* t2u_delete_connecting_session: the peer is not told.
DeleteConnecting(p, s) == connecting' = [connecting EXCEPT ![p] = @ \ {s}]

\* rule_process_accept_cb_: a TCP connection arrives at a client-mode rule.
Accept(p, v) ==
    LET s == NewSession(p, v, [client |-> 0, server |-> 0], <<p, NextHandle(p)>>)
    IN  /\ p \in contexts /\ v \in rules[p] /\ ClientOf[v] = p
        /\ handle_seq[p] < MaxSessions[p]
        /\ handle_seq' = [handle_seq EXCEPT ![p] = NextHandle(p)]
        /\ connecting' = [connecting EXCEPT ![p] = @ \cup {s}]
        /\ net' = net \cup {Send(p, "connect_request", s)}
        /\ UNCHANGED <<contexts, rules, sessions, joined>>

\* Mutant: the firings of the timer are not counted.
ConnectTimeoutUncounted(p, s) ==
    /\ s \in connecting[p]
    /\ net' = IF ClientOf[s.service] = p
              THEN net \cup {Send(p, "connect_request", s)}
              ELSE net
    /\ UNCHANGED <<contexts, rules, handle_seq, connecting, sessions, joined>>

\* session_connect_timeout_cb_: give up, or arm the timer again and, in client
\* mode, ask again.
ConnectTimeout(p, s) ==
    LET s2 == [s EXCEPT !.connect_retries = @ + 1]
    IN  /\ s \in connecting[p]
        /\ \/ /\ s2.connect_retries >= Retries
              /\ DeleteConnecting(p, s)
              /\ UNCHANGED net
           \/ /\ s2.connect_retries < Retries
              /\ connecting' = [connecting EXCEPT ![p] = (@ \ {s}) \cup {s2}]
              /\ net' = IF ClientOf[s.service] = p
                        THEN net \cup {Send(p, "connect_request", s)}
                        ELSE net
        /\ UNCHANGED <<contexts, rules, handle_seq, sessions, joined>>

\* t2u_rule_handle_connect_request: sessions found under the handle of the
\* request are deleted, then a socket starts to connect.  socket() may fail,
\* and connect() may fail at once, which deletes the new session again.
HandleConnectRequest(p, d) ==
    LET old == {s \in WithHandle(sessions[p], d.handle) : s.service = d.service}
        oldc == {s \in WithHandle(connecting[p], d.handle) : s.service = d.service}
        s == NewSession(p, d.service, d.handle, d.origin)
    IN  /\ d.oper = "connect_request"
        /\ p \in contexts /\ d.service \in rules[p]
        /\ sessions' = [sessions EXCEPT ![p] = @ \ old]
        /\ net' = net \cup {Send(p, "close_request", t) : t \in old}
        /\ \/ /\ connecting' = [connecting EXCEPT ![p] = @ \ oldc]
              /\ UNCHANGED handle_seq
           \/ /\ handle_seq[p] < MaxSessions[p]
              /\ handle_seq' = [handle_seq EXCEPT ![p] = NextHandle(p)]
              /\ connecting' = [connecting EXCEPT ![p] = @ \ oldc]
           \/ /\ handle_seq[p] < MaxSessions[p]
              /\ handle_seq' = [handle_seq EXCEPT ![p] = NextHandle(p)]
              /\ connecting' = [connecting EXCEPT ![p] = (@ \ oldc) \cup {s}]
        /\ UNCHANGED <<contexts, rules, joined>>

\* session_connect_success_cb_ without an error: established, and say so.
ConnectSuccess(p, s) ==
    /\ s \in connecting[p] /\ ClientOf[s.service] # p
    /\ connecting' = [connecting EXCEPT ![p] = @ \ {s}]
    /\ sessions' = [sessions EXCEPT ![p] = @ \cup {s}]
    /\ net' = net \cup {Send(p, "connect_response", s)}
    /\ UNCHANGED <<contexts, rules, handle_seq, joined>>

\* ... and with one: the session is deleted and the client is not told.
ConnectFailure(p, s) ==
    /\ s \in connecting[p] /\ ClientOf[s.service] # p
    /\ DeleteConnecting(p, s)
    /\ UNCHANGED <<contexts, rules, handle_seq, sessions, net, joined>>

\* Mutant: the response goes to any session that waits for the service.
HandleConnectResponseAny(p, d) ==
    LET found == {s \in connecting[p] : s.service = d.service}
        s == First(found)
    IN  /\ d.oper = "connect_response"
        /\ p \in contexts /\ found # {}
        /\ connecting' = [connecting EXCEPT ![p] = @ \ {s}]
        /\ sessions' = [sessions EXCEPT ![p] = @ \cup {[s EXCEPT !.handle = d.handle]}]
        /\ joined' = joined \cup {d.handle}
        /\ UNCHANGED <<contexts, rules, handle_seq, net>>

\* t2u_session_handle_connect_response: found by the low word of the handle,
\* established under the whole of it.  Only success is ever reported.
HandleConnectResponse(p, d) ==
    LET found == WithHandle(connecting[p], [d.handle EXCEPT !.server = 0])
        s == First(found)
    IN  /\ d.oper = "connect_response"
        /\ p \in contexts /\ found # {}
        /\ connecting' = [connecting EXCEPT ![p] = @ \ {s}]
        /\ sessions' = [sessions EXCEPT ![p] = @ \cup {[s EXCEPT !.handle = d.handle]}]
        /\ joined' = joined \cup {d.handle}
        /\ UNCHANGED <<contexts, rules, handle_seq, net>>

-----------------------------------------------------------------------------
(* The data and the end of a session *)

\* An established session sends what DataSession has it send.  What the peer
\* does with it is up to the session it finds there, if any.
SendData(p, s) ==
    /\ s \in sessions[p]
    /\ Cardinality({d \in net : d.oper = "data"}) < MaxData
    /\ net' = net \cup {Send(p, "data", s)}
    /\ UNCHANGED <<contexts, rules, handle_seq, connecting, sessions, joined>>

\* t2u_delete_connected_session(session, 0), for any of its reasons: end of
\* file, an error, a message given up, session_timeout_ seconds of silence.
CloseSession(p, s) ==
    /\ s \in sessions[p]
    /\ sessions' = [sessions EXCEPT ![p] = @ \ {s}]
    /\ net' = net \cup {Send(p, "close_request", s)}
    /\ UNCHANGED <<contexts, rules, handle_seq, connecting, joined>>

\* close_request: the session found is deleted without an answer.
HandleCloseRequest(p, d) ==
    LET found == WithHandle(sessions[p], d.handle)
    IN  /\ d.oper = "close_request"
        /\ p \in contexts /\ found # {}
        /\ sessions' = [sessions EXCEPT ![p] = @ \ {First(found)}]
        /\ UNCHANGED <<contexts, rules, handle_seq, connecting, net, joined>>

-----------------------------------------------------------------------------
Init ==
    /\ contexts = Peer
    /\ rules = [p \in Peer |-> Services]
    /\ handle_seq = [p \in Peer |-> 0]
    /\ connecting = [p \in Peer |-> {}]
    /\ sessions = [p \in Peer |-> {}]
    /\ net = {}
    /\ joined = {}

ProcessUdp(p, d) ==
    /\ d.to = p
    /\ \/ HandleConnectRequest(p, d)
       \/ HandleConnectResponse(p, d)
       \/ HandleCloseRequest(p, d)

Next ==
    \E p \in Peer :
        \/ AddContext(p) \/ DeleteContext(p)
        \/ \E v \in Services : AddRule(p, v) \/ DeleteRule(p, v) \/ Accept(p, v)
        \/ \E s \in connecting[p] :
             ConnectTimeout(p, s) \/ ConnectSuccess(p, s) \/ ConnectFailure(p, s)
        \/ \E s \in sessions[p] : SendData(p, s) \/ CloseSession(p, s)
        \/ \E d \in net : ProcessUdp(p, d)

Spec == Init /\ [][Next]_vars

\* The connect timer of a session is armed for as long as it is connecting,
\* and the runner thread serves expired timers.
Fairness == \A p \in Peer : WF_vars(\E s \in connecting[p] : ConnectTimeout(p, s))

FairSpec == Spec /\ Fairness

-----------------------------------------------------------------------------
(* Properties *)

TypeOK ==
    /\ contexts \subseteq Peer
    /\ rules \in [Peer -> SUBSET Services]
    /\ handle_seq \in [Peer -> HandleSeq]
    /\ connecting \in [Peer -> SUBSET Session]
    /\ sessions \in [Peer -> SUBSET Session]
    /\ net \subseteq Datagram
    /\ joined \subseteq Handle

\* Two established sessions with the same handle are the two ends of one TCP
\* connection: find_session_in_context never hands a datagram of one
\* connection to another, however often connect_requests were repeated and
\* whatever sessions they left behind.  The handle is there "for mapping
\* session" (t2u_internal.h:129).
Paired ==
    \A p \in Peer : \A s \in sessions[p] :
        /\ \A t \in sessions[p] : s.handle = t.handle => s = t
        /\ \A t \in sessions[Other(p)] : s.handle = t.handle => s.origin = t.origin

\* A datagram of an established session, however late, is taken by no session
\* of another TCP connection: what find_session_in_context returns for its
\* handle belongs to the connection that it was sent for.  DataSession
\* relies on it when it gives each session a network of its own.
Isolated ==
    \A d \in net : d.oper \in {"data", "close_request"} =>
        \A s \in WithHandle(sessions[d.to], d.handle) : s.origin = d.origin

\* The handle of a session that both ends have established leads to a session
\* at the other end (t2u_internal.h:129), unless that end has deleted it and
\* has sent a close_request.
HandleMapsSession ==
    \A p \in Peer : \A s \in sessions[p] : s.handle \in joined =>
        \/ WithHandle(sessions[Other(p)], Wire(s.handle)) # {}
        \/ \E d \in net : d.to = p /\ d.oper = "close_request" /\ d.handle = s.handle

\* A deleted rule or context takes all of its sessions with it: nothing is
\* left that a late datagram or timer could find.
NoSessionWithoutRule ==
    \A p \in Peer : \A s \in sessions[p] \cup connecting[p] :
        p \in contexts /\ s.service \in rules[p]

\* No session is connecting for ever: session_connect_timeout_cb_ counts the
\* firings of its timer and deletes the session after uretries_ of them.  As
\* sessions are finitely many here, a time comes when none is left.
ConnectSettles == \A p \in Peer : []<>(connecting[p] = {})

-----------------------------------------------------------------------------
(* The inductive invariant behind Paired and HandleMapsSession, for a pair  *)
(* of contexts whose client-mode rules are all at one end.                  *)

\* All rules of the client's context are in client mode, and the wire keeps
\* the whole handle.
OneWayRules == KeepsHandle /\ \A v \in Services : ClientOf[v] = "client"

All(p) == connecting[p] \cup sessions[p]

\* The client's word of h was given out, and so was the server's.
ClientWord(h) == h.client \in 1 .. handle_seq["client"]
ServerWord(h) == h.server \in 1 .. handle_seq["server"]

\* Whatever has a handle belongs to the connection that its low word numbers.
OfClient(x) == ClientWord(x.handle) /\ x.origin = <<"client", x.handle.client>>

\* A process gives each word to one session, which is in one tree.
WordsUnique ==
    /\ \A p \in Peer : connecting[p] \cap sessions[p] = {}
    /\ \A s, t \in All("client") : s.handle.client = t.handle.client => s = t
    /\ \A s, t \in All("server") : s.handle.server = t.handle.server => s = t

SessionsOrdered ==
    /\ \A p \in Peer : handle_seq[p] <= MaxSessions[p]
    /\ \A s \in All("client") \cup All("server") : OfClient(s)
    /\ \A s \in connecting["client"] : s.handle.server = 0
    /\ \A s \in sessions["client"] \cup All("server") : ServerWord(s.handle)

NetOrdered ==
    \A d \in net :
        /\ OfClient(d)
        /\ d.oper = "connect_request" => d.to = "server" /\ d.handle.server = 0
        /\ d.oper = "connect_response" => d.to = "client" /\ ServerWord(d.handle)
        /\ d.oper = "close_request" => ServerWord(d.handle)

Told(p, oper, h) == \E d \in net : d.to = p /\ d.oper = oper /\ d.handle = h

\* A peer that has sent close_request has no session for it any more, ...
ClosedIsGone ==
    \A d \in net : d.oper = "close_request" =>
        /\ d.to = "server" => \A s \in All("client") : s.handle.client # d.handle.client
        /\ d.to = "client" => \A s \in All("server") : s.handle # d.handle

\* ... and a session both ends knew of is missing only where one has sent it.
GoneIsClosed ==
    /\ \A s \in sessions["client"] : Told("client", "connect_response", s.handle)
    /\ \A d \in net : d.oper = "connect_response" =>
         \/ \E s \in sessions["server"] : s.handle = d.handle
         \/ Told("client", "close_request", d.handle)
         \/ Told("server", "close_request", d.handle)
    /\ \A h \in joined :
         \/ \E s \in sessions["client"] : s.handle = h
         \/ Told("client", "close_request", h)
         \/ Told("server", "close_request", h)

ConnectInv ==
    /\ WordsUnique
    /\ SessionsOrdered
    /\ NetOrdered
    /\ ClosedIsGone
    /\ GoneIsClosed
=============================================================================

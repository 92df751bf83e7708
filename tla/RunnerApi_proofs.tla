-------------------------- MODULE RunnerApi_proofs --------------------------
(***************************************************************************)
(* The runner implements the Api, for any number of threads, runners,      *)
(* contexts, rules, names and calls: every step is a step of the Api or    *)
(* leaves what the application can see alone.                              *)
(***************************************************************************)
EXTENDS RunnerApi, Runner_proofs

\* A rule is in the tree of its context from the moment add_rule_cb_ has run to the
\* moment delete_rule_cb_ does, whoever waits for the answer.
RulesInTree ==
    /\ \A r \in held : r \in rules[rule[r].ctx]
    /\ \A t \in Threads :
         /\ call[t].op = "add_rule" => (Pending(t) <=> call[t].rule \notin rules[call[t].ctx])
         /\ call[t].op = "del_rule" /\ Pending(t) => call[t].rule \in rules[call[t].ctx]

\* A call has no other arguments than its own.
Arguments ==
    \A t \in Threads :
        /\ pc[t] = "idle" => call[t] = NoCall
        /\ call[t].op \in {"create", "free", "dump"} => call[t].rule = None
        /\ call[t].op = "dump" => call[t].ctx = None

ApiInv == RulesInTree /\ Arguments

-----------------------------------------------------------------------------
(* Trees and names *)

\* rbtree_insert finds no rule of the name ...
LEMMA RuleAdded ==
    ASSUME RunnerInv, NamesDiffer, NEW r \in Rules, rule[r] # None, r \notin rules[rule[r].ctx]
    PROVE  /\ rule[r].ctx \in Contexts
           /\ AddRuleTree(r) = [rules EXCEPT ![rule[r].ctx] = rules[rule[r].ctx] \cup {r}]
<1> DEFINE c == rule[r].ctx
<1>1. c \in Contexts
  BY DEF RunnerInv, TypeOK, Rule
<1>2. ASSUME NEW s \in rules[c], SameName(r, s)
      PROVE  FALSE
  <2>1. s \in Rules /\ rule[s] # None /\ rule[s].ctx = c
    BY <1>1 DEF RunnerInv, TypeOK, RuleOwners
  <2> QED
    BY <1>2, <2>1 DEF NamesDiffer, SameName
<1> QED
  BY <1>1, <1>2 DEF AddRuleTree

\* ... and rbtree_remove no other than the one it was called for.
LEMMA RuleRemoved ==
    ASSUME RunnerInv, NamesDiffer, NEW r \in Rules, rule[r] # None
    PROVE  /\ rule[r].ctx \in Contexts
           /\ {s \in rules[rule[r].ctx] : ~SameName(r, s)} = rules[rule[r].ctx] \ {r}
<1> DEFINE c == rule[r].ctx
<1>1. c \in Contexts
  BY DEF RunnerInv, TypeOK, Rule
<1>2. ASSUME NEW s \in rules[c]
      PROVE  SameName(r, s) <=> s = r
  <2>1. s \in Rules /\ rule[s] # None /\ rule[s].ctx = c
    BY <1>1 DEF RunnerInv, TypeOK, RuleOwners
  <2> QED
    BY <2>1 DEF NamesDiffer, SameName
<1> QED
  BY <1>1, <1>2

-----------------------------------------------------------------------------
(* Steps of a thread *)

\* The request of another thread stays where it is.
LEMMA PendingOfOther ==
    ASSUME OneAtATime, RunnerInv, NEW t \in Threads, NewCall(t) \/ Continue(t), NEW u \in Threads, u # t
    PROVE  pc'[u] = pc[u] /\ call'[u] = call[u] /\ (Pending(u)' <=> Pending(u))
<1>1. pc'[u] = pc[u] /\ call'[u] = call[u]
  BY NewCallMoves, ContinueMoves DEF Moves
<1>2. pc[u] = "recv" => runners'[call[u].runner].request = runners[call[u].runner].request
  BY RunnerOfOther
<1> QED
  BY <1>1, <1>2 DEF Pending

\* The answer is there, so the request is not.
LEMMA RecvServed ==
    ASSUME RunnerInv, NEW t \in Threads, ControlRecv(t)
    PROVE  pc[t] = "recv" /\ ~Pending(t)
<1>1. pc[t] = "recv" /\ runners[call[t].runner].reply
  BY DEF ControlRecv
<1>2. Socket(call[t].runner)
  BY <1>1, ControlRunner DEF RunnerInv, Channel
<1> QED
  BY <1>1, <1>2 DEF Socket, Pending

\* t2u_delete_runner finds the runner whose last context was deleted.
LEMMA DeleteRunnerCall ==
    ASSUME RunnerInv, NEW t \in Threads, DeleteRunner(t)
    PROVE  /\ pc'[t] = "control" /\ call'[t].func = "delete_runner"
           /\ call'[t].op = call[t].op /\ call'[t].rule = call[t].rule /\ call'[t].ctx = None
<1>1. g_runner # None /\ call[t] \in Call /\ call \in [Threads -> Call] /\ pc \in [Threads -> Label]
  BY InFree DEF DeleteRunner, RunnerInv, TypeOK, Locals
<1>2. /\ pc'[t] = "control"
      /\ call'[t] = [call[t] EXCEPT !.func = "delete_runner", !.runner = g_runner, !.ctx = None]
  BY <1>1 DEF DeleteRunner, Goto
<1> QED
  BY <1>1, <1>2 DEF Call

\* What a thread's own step does to its call.
LEMMA ArgumentsThread ==
    ASSUME RunnerInv, Arguments, NEW t \in Threads, NewCall(t) \/ Continue(t)
    PROVE  Arguments'
<1> DEFINE k == call'[t]
<1>0. Moves(t) /\ call[t] \in Call /\ call \in [Threads -> Call] /\ pc \in [Threads -> Label]
  BY NewCallMoves, ContinueMoves DEF RunnerInv, TypeOK
<1>1. /\ pc'[t] = "idle" => k = NoCall
      /\ k.op \in {"create", "free", "dump"} => k.rule = None
      /\ k.op = "dump" => k.ctx = None
  <2>1. CASE NewCall(t)
    BY <1>0, <2>1 DEF NewCall, Begin, Goto, CreateForward, FreeForward, AddForwardRule, DelForwardRule, DebugDump
  <2>2. CASE Return(t)
    BY <1>0, <2>2 DEF Return, NoCall
  <2>3. ASSUME call'[t] = call[t], pc'[t] # "idle"
        PROVE  <1>1!:
    BY <2>3 DEF Arguments
  <2>4. CASE InitMutex(t) \/ CreateLock(t) \/ CondWait(t) \/ CondReturn(t) \/ ControlSend(t) \/ FreeLock(t) \/ Join(t)
    BY <1>0, <2>3, <2>4 DEF InitMutex, CreateLock, CondWait, CondReturn, ControlSend, FreeLock, Join, Goto
  <2>5. CASE RunnerNew(t)
    BY <1>0, <2>5, InCreate DEF RunnerNew, Goto, Call, Arguments
  <2>6. CASE NewContext(t)
    BY <1>0, <2>6, InCreate DEF NewContext, Goto, Call, Arguments
  <2>7. CASE DeleteRunner(t)
    BY <1>0, <2>7, DeleteRunnerCall, InFree DEF DeleteRunner, Goto, Arguments, Freeing
  <2>8. CASE CreateUnlock(t) \/ FreeUnlock(t)
    BY <2>2, <2>8 DEF CreateUnlock, FreeUnlock
  <2>9. CASE FreeCheck(t)
    BY <1>0, <2>2, <2>3, <2>9 DEF FreeCheck, Goto
  <2>10. CASE ControlRecv(t)
    BY <1>0, <2>2, <2>3, <2>10 DEF ControlRecv, Goto
  <2> QED
    BY <2>1, <2>4, <2>5, <2>6, <2>7, <2>8, <2>9, <2>10 DEF Continue
<1> QED
  BY <1>0, <1>1 DEF Moves, Arguments

\* No thread changes a tree, and only add_forward_rule a rule, a new one.
LEMMA TreesThread ==
    ASSUME RunnerInv, NEW t \in Threads, NewCall(t) \/ Continue(t)
    PROVE  /\ UNCHANGED rules
           /\ \A r \in Rules : rule[r] # None => rule'[r] = rule[r]
<1>1. ~(\E c \in Contexts, v \in Names, mode \in {"client", "server"} : AddForwardRule(t, c, v, mode)) =>
        UNCHANGED <<rule, rules>>
  BY DEF NewCall, CreateForward, FreeForward, DelForwardRule, DebugDump, Continue, InitMutex, CreateLock,
         RunnerNew, CondWait, CondReturn, NewContext, CreateUnlock, ControlSend, ControlRecv, FreeCheck,
         FreeLock, DeleteRunner, Join, FreeUnlock, objVars
<1>2. ASSUME NEW c \in Contexts, NEW v \in Names, NEW mode \in {"client", "server"}, AddForwardRule(t, c, v, mode)
      PROVE  UNCHANGED rules /\ \A r \in Rules : rule[r] # None => rule'[r] = rule[r]
  BY <1>2 DEF AddForwardRule, RunnerInv, TypeOK
<1> QED
  BY <1>1, <1>2

\* What t's step adds to the rules of the application is in its tree.
LEMMA HeldThread ==
    ASSUME RunnerInv, RulesInTree, NEW t \in Threads, NewCall(t) \/ Continue(t)
    PROVE  \A r \in held' : r \in held \/ (rule[r] # None /\ r \in Rules /\ r \in rules[rule[r].ctx])
<1>1. CASE ControlRecv(t) /\ call[t].func = "add_rule"
  <2>1. pc[t] = "recv" /\ ~Pending(t)
    BY <1>1, RecvServed
  <2>2. call[t].op = "add_rule"
    BY <1>1, <2>1, ControlRunner DEF RunnerInv, Labels
  <2>3. HasRule(t, call[t].rule) /\ call[t].rule \in Rules
    BY <2>2 DEF HasRule, RunnerInv, Locals
  <2>4. /\ rule[call[t].rule] # None /\ rule[call[t].rule].ctx = call[t].ctx
        /\ call[t].rule \in rules[call[t].ctx]
    BY <2>1, <2>2, <2>3 DEF RunnerInv, RuleOwners, RulesInTree
  <2> QED
    BY <1>1, <2>3, <2>4 DEF ControlRecv
<1>2. CASE ~(ControlRecv(t) /\ call[t].func = "add_rule")
  <2>1. held' \subseteq held
    BY <1>2 DEF NewCall, CreateForward, FreeForward, AddForwardRule, DelForwardRule, DebugDump, Continue, InitMutex,
         CreateLock, RunnerNew, CondWait, CondReturn, NewContext, CreateUnlock, ControlSend, ControlRecv, FreeCheck,
         FreeLock, DeleteRunner, Join, FreeUnlock, appVars
  <2> QED
    BY <2>1
<1> QED
  BY <1>1, <1>2

LEMMA RulesInTreeThread ==
    ASSUME OneAtATime, RunnerInv, RunnerInv', RulesInTree, NEW t \in Threads, NewCall(t) \/ Continue(t)
    PROVE  RulesInTree'
<1>0. /\ UNCHANGED rules /\ \A r \in Rules : rule[r] # None => rule'[r] = rule[r]
      /\ call \in [Threads -> Call] /\ pc \in [Threads -> Label]
  BY TreesThread DEF RunnerInv, TypeOK
<1>1. \A r \in held' : r \in rules'[rule'[r].ctx]
  <2>1. \A r \in held : r \in Rules /\ rule[r] # None
    BY DEF RunnerInv, TypeOK, RuleOwners
  <2> QED
    BY <1>0, <2>1, HeldThread DEF RulesInTree
<1>2. ASSUME NEW u \in Threads, u # t
      PROVE  /\ call'[u].op = "add_rule" => (Pending(u)' <=> call'[u].rule \notin rules'[call'[u].ctx])
             /\ call'[u].op = "del_rule" /\ Pending(u)' => call'[u].rule \in rules'[call'[u].ctx]
  BY <1>0, <1>2, PendingOfOther DEF RulesInTree
<1>3. ASSUME call'[t].op \in {"add_rule", "del_rule"}
      PROVE  /\ call'[t].op = "add_rule" => (Pending(t)' <=> call'[t].rule \notin rules'[call'[t].ctx])
             /\ call'[t].op = "del_rule" /\ Pending(t)' => call'[t].rule \in rules'[call'[t].ctx]
  <2>1. CASE NewCall(t)
    <3>1. CASE \E c \in Contexts, v \in Names, mode \in {"client", "server"} : AddForwardRule(t, c, v, mode)
      <4>1. PICK c \in Contexts, v \in Names, mode \in {"client", "server"} : AddForwardRule(t, c, v, mode)
        BY <3>1
      <4>2. PICK r \in Rules : rule[r] = None /\ Begin(t, "add_rule", "add_rule", home[c], c, r)
        BY <4>1 DEF AddForwardRule
      <4>3. pc'[t] = "control" /\ call'[t].rule = r /\ call'[t].ctx = c /\ call'[t].op = "add_rule"
        BY <1>0, <4>1, <4>2 DEF AddForwardRule, Begin, Goto
      <4>4. r \notin rules[c]
        BY <4>2 DEF RunnerInv, RuleOwners
      <4> QED
        BY <1>0, <4>3, <4>4 DEF Pending
    <3>2. CASE \E r \in Rules : DelForwardRule(t, r)
      <4>1. PICK r \in Rules : DelForwardRule(t, r)
        BY <3>2
      <4>2. r \in held /\ call'[t].rule = r /\ call'[t].ctx = rule[r].ctx /\ call'[t].op = "del_rule"
        BY <1>0, <4>1 DEF DelForwardRule, Begin
      <4> QED
        BY <1>0, <4>2 DEF RulesInTree
    <3>3. CASE CreateForward(t) \/ DebugDump(t) \/ \E c \in Contexts : FreeForward(t, c)
      BY <1>0, <1>3, <3>3 DEF CreateForward, DebugDump, FreeForward, Begin
    <3> QED
      BY <2>1, <3>1, <3>2, <3>3 DEF NewCall
  <2>2. CASE Continue(t)
    <3>1. pc'[t] \in {"control", "recv"}
      BY <1>3 DEF RunnerInv, Labels
    <3>2. CASE ControlSend(t)
      <4>1. call' = call /\ Pending(t) /\ Pending(t)'
        BY <3>2, RequestSent DEF ControlSend, Pending
      <4> QED
        BY <1>0, <4>1 DEF RulesInTree
    <3>3. CASE NewContext(t) \/ DeleteRunner(t)
      <4>1. call[t].op \in {"create", "free"} /\ call[t] \in Call
        BY <1>0, <3>3, InCreate, InFree DEF NewContext, DeleteRunner, Freeing
      <4>2. call'[t].op = call[t].op
        <5>1. CASE NewContext(t)
          BY <1>0, <4>1, <5>1 DEF NewContext, Call
        <5>2. CASE DeleteRunner(t)
          BY <5>2, DeleteRunnerCall
        <5> QED
          BY <3>3, <5>1, <5>2
      <4> QED
        BY <1>3, <4>1, <4>2
    <3>4. ControlSend(t) \/ NewContext(t) \/ DeleteRunner(t)
      BY <1>0, <2>2, <3>1 DEF Continue, Goto, Return, InitMutex, CreateLock, RunnerNew, CondWait, CondReturn,
           CreateUnlock, ControlRecv, AfterControl, FreeCheck, FreeLock, Join, FreeUnlock
    <3> QED
      BY <3>2, <3>3, <3>4
  <2> QED
    BY <2>1, <2>2
<1> QED
  BY <1>1, <1>2, <1>3 DEF RulesInTree

-----------------------------------------------------------------------------
(* Steps of the runner thread *)

\* runner_control_cb_ serves the one thread that waits.
LEMMA Serves ==
    ASSUME RunnerInv, NEW n \in Runners, LoopProcess(n), NEW t, t = runners[n].mutex
    PROVE  /\ t \in Threads /\ pc[t] = "recv" /\ n = g_runner /\ g_runner # None
           /\ runners[n].request.func = call[t].func /\ runners[n].request.ctx = call[t].ctx
           /\ runners[n].request.rule = call[t].rule
           /\ UNCHANGED <<pc, call, g_runner, owned, held>>
           /\ Pending(t) /\ ~Pending(t)'
           /\ \A u \in Threads : u # t => (Pending(u)' <=> Pending(u))
<1>1. runners[n].request # None /\ UNCHANGED <<pc, call, g_runner, owned, held>>
  BY DEF LoopProcess, globVars, appVars
<1>2. /\ t \in Threads /\ pc[t] = "recv" /\ call[t].runner = n
      /\ n = g_runner /\ g_runner # None
      /\ runners[n].request.func = call[t].func /\ runners[n].request.ctx = call[t].ctx
      /\ runners[n].request.rule = call[t].rule
      /\ Pending(t) /\ \A u \in Threads : u # t => pc[u] # "recv"
  BY <1>1, Receiver
<1>3. runners'[n].request = None
  BY Processed
<1>4. ~Pending(t)' /\ \A u \in Threads : u # t => (Pending(u)' <=> Pending(u))
  BY <1>1, <1>2, <1>3 DEF Pending
<1> QED
  BY <1>1, <1>2, <1>4

\* The call whose function is run, by the function.
LEMMA ServedCall ==
    ASSUME RunnerInv, NEW t \in Threads, pc[t] = "recv"
    PROVE  /\ call[t].func = "add_context" <=> call[t].op = "create"
           /\ call[t].func = "delete_context" <=> Freeing(t)
           /\ call[t].func = "delete_runner" <=> Stopping(t)
           /\ call[t].func = "add_rule" <=> call[t].op = "add_rule"
           /\ call[t].func = "delete_rule" <=> call[t].op = "del_rule"
           /\ call[t].func = "debug_dump" <=> call[t].op = "dump"
<1>1. call[t].op \in {"create", "free", "add_rule", "del_rule", "dump"}
  BY ControlRunner
<1> QED
  BY <1>1 DEF RunnerInv, Labels, Freeing, Stopping

\* A rule in the tree is deleted, and nobody else has it.
LEMMA RuleLeaves ==
    ASSUME RunnerInv, RulesInTree, NEW r \in Rules, rule[r] # None,
           rules' = [rules EXCEPT ![rule[r].ctx] = rules[rule[r].ctx] \ {r}],
           rule' = [rule EXCEPT ![r] = None], held' = held \ {r}, UNCHANGED call,
           \A u \in Threads :
             /\ HasRule(u, r) => call[u].op = "del_rule" /\ ~Pending(u)'
             /\ ~HasRule(u, r) => (Pending(u)' <=> Pending(u))
    PROVE  RulesInTree'
<1>0. /\ rules \in [Contexts -> SUBSET Rules] /\ rule \in [Rules -> Rule \cup {None}] /\ held \subseteq Rules
      /\ rule[r].ctx \in Contexts
  BY DEF RunnerInv, TypeOK, Rule
<1>1. \A x : \A c \in Contexts : x # r => (x \in rules'[c] <=> x \in rules[c])
  BY <1>0
<1>2. ASSUME NEW s \in held'
      PROVE  s \in rules'[rule'[s].ctx]
  <2>1. s \in held /\ s \in Rules /\ s # r /\ rule'[s] = rule[s] /\ rule[s] # None
    BY <1>0 DEF RunnerInv, RuleOwners
  <2>2. rule[s].ctx \in Contexts
    BY <1>0, <2>1 DEF Rule
  <2> QED
    BY <1>1, <2>1, <2>2 DEF RulesInTree
<1>3. ASSUME NEW u \in Threads, call[u].op \in {"add_rule", "del_rule"}
      PROVE  /\ call'[u].op = "add_rule" => (Pending(u)' <=> call'[u].rule \notin rules'[call'[u].ctx])
             /\ call'[u].op = "del_rule" /\ Pending(u)' => call'[u].rule \in rules'[call'[u].ctx]
  <2>1. call[u].ctx \in Contexts /\ call[u].rule \in Rules
    BY <1>3 DEF RunnerInv, TypeOK, Locals
  <2>2. CASE HasRule(u, r)
    BY <2>2
  <2>3. CASE ~HasRule(u, r)
    BY <1>1, <1>3, <2>1, <2>3 DEF HasRule, RulesInTree
  <2> QED
    BY <2>2, <2>3
<1> QED
  BY <1>2, <1>3 DEF RulesInTree

LEMMA RulesInTreeAddRule ==
    ASSUME RunnerInv, NamesDiffer, RulesInTree, NEW n \in Runners, LoopProcess(n),
           runners[n].request.func = "add_rule", AddRuleCb(n, runners[n].request.rule)
    PROVE  RulesInTree'
<1>0. PICK t : t = runners[n].mutex
  OBVIOUS
<1> DEFINE r == call[t].rule
           c == call[t].ctx
<1>1. /\ t \in Threads /\ pc[t] = "recv" /\ runners[n].request.func = call[t].func
      /\ runners[n].request.rule = r
      /\ UNCHANGED <<call, held>> /\ Pending(t) /\ ~Pending(t)'
      /\ \A u \in Threads : u # t => (Pending(u)' <=> Pending(u))
  BY <1>0, Serves
<1>2. call[t].op = "add_rule"
  BY <1>1, ServedCall
<1>3. HasRule(t, r) /\ r \in Rules /\ c \in Contexts
  BY <1>1, <1>2 DEF HasRule, RunnerInv, TypeOK, Locals
<1>4. rule[r] # None /\ rule[r].ctx = c /\ r \notin rules[c] /\ \A u \in Threads : HasRule(u, r) => u = t
  BY <1>1, <1>2, <1>3 DEF RunnerInv, RuleOwners, RulesInTree
<1>5. rules' = [rules EXCEPT ![c] = rules[c] \cup {r}] /\ UNCHANGED rule
  BY <1>1, <1>3, <1>4, RuleAdded DEF AddRuleCb
<1>6. /\ rules \in [Contexts -> SUBSET Rules] /\ \A s \in held : rule[s] # None /\ rule[s].ctx \in Contexts
      /\ \A u \in Threads : call[u].op \in {"add_rule", "del_rule"} => call[u].ctx \in Contexts
  BY DEF RunnerInv, TypeOK, RuleOwners, Locals
<1>7. \A s \in held' : s \in rules'[rule'[s].ctx]
  BY <1>1, <1>5, <1>6 DEF RulesInTree
<1>8. ASSUME NEW u \in Threads, call[u].op \in {"add_rule", "del_rule"}, u # t
      PROVE  /\ call'[u].op = "add_rule" => (Pending(u)' <=> call'[u].rule \notin rules'[call'[u].ctx])
             /\ call'[u].op = "del_rule" /\ Pending(u)' => call'[u].rule \in rules'[call'[u].ctx]
  BY <1>1, <1>4, <1>5, <1>6, <1>8 DEF RulesInTree, HasRule
<1>9. call'[t].op = "add_rule" /\ ~Pending(t)' /\ r \in rules'[c]
  BY <1>1, <1>2, <1>3, <1>5, <1>6
<1> QED
  BY <1>1, <1>7, <1>8, <1>9 DEF RulesInTree

LEMMA RulesInTreeDeleteRule ==
    ASSUME RunnerInv, NamesDiffer, RulesInTree, NEW n \in Runners, LoopProcess(n),
           runners[n].request.func = "delete_rule", DeleteRuleCb(n, runners[n].request.rule)
    PROVE  RulesInTree'
<1>0. PICK t : t = runners[n].mutex
  OBVIOUS
<1> DEFINE r == call[t].rule
<1>1. /\ t \in Threads /\ pc[t] = "recv" /\ runners[n].request.func = call[t].func
      /\ runners[n].request.rule = r
      /\ UNCHANGED <<call, held>> /\ Pending(t) /\ ~Pending(t)'
      /\ \A u \in Threads : u # t => (Pending(u)' <=> Pending(u))
  BY <1>0, Serves
<1>2. call[t].op = "del_rule"
  BY <1>1, ServedCall
<1>3. HasRule(t, r) /\ r \in Rules
  BY <1>1, <1>2 DEF HasRule, RunnerInv, TypeOK, Locals
<1>4. rule[r] # None /\ r \notin held /\ \A u \in Threads : HasRule(u, r) => u = t
  BY <1>1, <1>3 DEF RunnerInv, RuleOwners
<1>5. /\ rules' = [rules EXCEPT ![rule[r].ctx] = rules[rule[r].ctx] \ {r}]
      /\ rule' = [rule EXCEPT ![r] = None]
  BY <1>1, <1>3, <1>4, RuleRemoved DEF DeleteRuleCb
<1>6. held' = held \ {r}
  BY <1>1, <1>4
<1> QED
  BY <1>1, <1>2, <1>3, <1>4, <1>5, <1>6, RuleLeaves

LEMMA RulesInTreeDeleteContext ==
    ASSUME RunnerInv, RulesInTree, NEW n \in Runners, LoopProcess(n),
           runners[n].request.func = "delete_context", DeleteContextCb(n, runners[n].request.ctx)
    PROVE  RulesInTree'
<1>0. PICK t : t = runners[n].mutex
  OBVIOUS
<1> DEFINE c == call[t].ctx
<1>1. /\ t \in Threads /\ pc[t] = "recv" /\ runners[n].request.func = call[t].func
      /\ runners[n].request.ctx = c /\ UNCHANGED <<call, held>>
      /\ \A u \in Threads : u # t => (Pending(u)' <=> Pending(u))
  BY <1>0, Serves
<1>2. Freeing(t)
  BY <1>1, ServedCall
<1>3. c \in Contexts /\ c \notin owned
  BY <1>1, <1>2 DEF RunnerInv, Locals
<1>4. /\ rules' = [d \in Contexts |-> IF d \in {c} THEN {} ELSE rules[d]]
      /\ rule' = [r \in Rules |-> IF r \in UNION {rules[d] : d \in {c}} THEN None ELSE rule[r]]
  BY <1>1 DEF DeleteContextCb, DeleteContexts
<1>5. \A d \in owned : d \in Contexts /\ rules'[d] = rules[d]
  BY <1>3, <1>4 DEF RunnerInv, TypeOK
<1>6. ASSUME NEW s \in held'
      PROVE  s \in rules'[rule'[s].ctx]
  <2>1. s \in held /\ s \in Rules /\ rule[s].ctx \in owned
    BY <1>1 DEF RunnerInv, TypeOK, RuleOwners
  <2>2. s \notin rules[c]
    BY <1>3, <2>1 DEF RunnerInv, RuleOwners
  <2>3. rule'[s] = rule[s]
    BY <1>4, <2>1, <2>2
  <2> QED
    BY <1>5, <2>1, <2>3 DEF RulesInTree
<1>7. ASSUME NEW u \in Threads, call[u].op \in {"add_rule", "del_rule"}
      PROVE  /\ call'[u].op = "add_rule" => (Pending(u)' <=> call'[u].rule \notin rules'[call'[u].ctx])
             /\ call'[u].op = "del_rule" /\ Pending(u)' => call'[u].rule \in rules'[call'[u].ctx]
  <2>1. u # t /\ call[u].ctx \in owned
    BY <1>2, <1>7 DEF RunnerInv, Locals, Freeing
  <2> QED
    BY <1>1, <1>5, <2>1 DEF RulesInTree
<1> QED
  BY <1>1, <1>6, <1>7 DEF RulesInTree

\* A thread stops the runner only when nothing is forwarded.
LEMMA NothingForwards ==
    ASSUME OneAtATime, RunnerInv, NEW t \in Threads, Stopping(t)
    PROVE  g_runner \in Runners /\ runners[g_runner].contexts = {}
<1>1. owned = {} /\ g_runner \in Runners
  BY DEF RunnerInv, TypeOK, Ownership, Locals
<1>2. \A u \in Threads : ~InTree(u)
  <2>1. \A u \in Threads : u # t => ~InTree(u)
    BY OthersQuiet DEF RunnerInv, Stopping
  <2>2. ~InTree(t)
    BY DEF InTree, Freeing, Stopping
  <2> QED
    BY <2>1, <2>2
<1> QED
  BY <1>1, <1>2, RunnerFields, NoneAssumption DEF RunnerInv, Ownership

\* delete_runner_cb_ deletes no context and no rule.
LEMMA DeleteRunnerChanges ==
    ASSUME OneAtATime, RunnerInv, NEW n \in Runners, LoopProcess(n),
           runners[n].request.func = "delete_runner", DeleteRunnerCb(n)
    PROVE  UNCHANGED <<rule, rules>> /\ runners'[n].contexts = {} /\ runners[n].contexts = {}
<1>0. PICK t : t = runners[n].mutex
  OBVIOUS
<1>1. t \in Threads /\ pc[t] = "recv" /\ n = g_runner /\ runners[n].request.func = call[t].func
  BY <1>0, Serves
<1>2. runners[n].contexts = {}
  BY <1>1, ServedCall, NothingForwards
<1>3. /\ rule \in [Rules -> Rule \cup {None}] /\ rules \in [Contexts -> SUBSET Rules]
      /\ runners[n] \in RunnerObject /\ runners \in [Runners -> RunnerObject]
  BY DEF RunnerInv, TypeOK
<1>4. UNION {rules[c] : c \in {}} = {}
  OBVIOUS
<1>5. /\ rule' = [r \in Rules |-> IF r \in {} THEN None ELSE rule[r]]
      /\ rules' = [d \in Contexts |-> IF d \in {} THEN {} ELSE rules[d]]
      /\ runners' = [runners EXCEPT ![n] =
               [runners[n] EXCEPT !.contexts = @ \ {}, !.events = @ \ ({} \cup {} \cup {"control"}),
                                  !.request = None, !.loop = "replying"]]
  BY <1>2, <1>4 DEF DeleteRunnerCb, DeleteContexts
<1> QED
  BY <1>2, <1>3, <1>5 DEF RunnerObject

\* Where no tree and no request changes nothing does.
LEMMA RulesInTreeFrame ==
    ASSUME RunnerInv, RulesInTree, UNCHANGED <<rule, rules, held, call>>,
           \A u \in Threads : call[u].op \in {"add_rule", "del_rule"} => (Pending(u)' <=> Pending(u))
    PROVE  RulesInTree'
BY DEF RulesInTree

LEMMA RulesInTreeProcess ==
    ASSUME OneAtATime, RunnerInv, NamesDiffer, RulesInTree, NEW n \in Runners, LoopProcess(n)
    PROVE  RulesInTree'
<1> DEFINE q == runners[n].request
<1>1. CASE \/ q.func = "add_context" /\ AddContextCb(n, q.ctx)
           \/ q.func = "delete_runner" /\ DeleteRunnerCb(n)
           \/ q.func = "debug_dump" /\ DebugDumpCb(n)
  <2>0. PICK t : t = runners[n].mutex
    OBVIOUS
  <2>1. /\ t \in Threads /\ pc[t] = "recv" /\ q.func = call[t].func /\ UNCHANGED <<call, held>>
        /\ \A u \in Threads : u # t => (Pending(u)' <=> Pending(u))
    BY <2>0, Serves
  <2>2. call[t].op \notin {"add_rule", "del_rule"}
    BY <1>1, <2>1, ServedCall
  <2>3. UNCHANGED <<rule, rules>>
    BY <1>1, DeleteRunnerChanges DEF AddContextCb, DebugDumpCb, objVars
  <2> QED
    BY <2>1, <2>2, <2>3, RulesInTreeFrame
<1> QED
  BY <1>1, RulesInTreeAddRule, RulesInTreeDeleteRule, RulesInTreeDeleteContext DEF LoopProcess

\* A callback of the application deletes a rule that no call has.
LEMMA RulesInTreeCallback ==
    ASSUME RunnerInv, NamesDiffer, RulesInTree, NEW n \in Runners, NEW r \in Rules, CallbackDeletesRule(n, r)
    PROVE  RulesInTree'
<1>1. /\ r \in held /\ rule[r] # None /\ UNCHANGED <<pc, call>>
      /\ \A u \in Threads : ~HasRule(u, r)
  BY DEF CallbackDeletesRule, RunnerInv, RuleOwners
<1>2. \A u \in Threads : Pending(u)' <=> Pending(u)
  <2>1. \A u \in Threads : pc[u] = "recv" => call[u].runner \in Runners
    BY ControlRunner
  <2> QED
    BY <1>1, <2>1, NotProcessed DEF Pending
<1>3. rules' = [rules EXCEPT ![rule[r].ctx] = rules[rule[r].ctx] \ {r}]
  BY <1>1, RuleRemoved DEF CallbackDeletesRule
<1> QED
  BY <1>1, <1>2, <1>3, RuleLeaves DEF CallbackDeletesRule

\* What is left of the loop changes no request.
LEMMA PendingLoop ==
    ASSUME RunnerInv, NEW n \in Runners, LoopStart(n) \/ LoopReply(n) \/ LoopEnd(n)
    PROVE  /\ UNCHANGED <<call, g_runner, rule, rules, owned, held>>
           /\ \A u \in Threads : Pending(u)' <=> Pending(u)
<1>1. UNCHANGED <<call, g_runner, rule, rules, owned, held>>
  BY DEF LoopStart, LoopReply, LoopEnd, globVars, objVars, appVars
<1>2. \A u \in Threads : pc'[u] = pc[u] \/ (pc[u] = "waiting" /\ pc'[u] = "woken")
  BY LoopMoves DEF Loop
<1>3. \A u \in Threads : pc[u] = "recv" => call[u].runner \in Runners
  BY ControlRunner
<1> QED
  BY <1>1, <1>2, <1>3, NotProcessed DEF Pending

-----------------------------------------------------------------------------
LEMMA InitApiInv ==
    ASSUME Init
    PROVE  ApiInv
BY DEF Init, NoCall, ApiInv, RulesInTree, Arguments

LEMMA NextApiInv ==
    ASSUME OneAtATime, RunnerInv, RunnerInv', NamesDiffer, ApiInv, [Next]_vars
    PROVE  ApiInv'
<1> USE DEF ApiInv
<1>1. ASSUME NEW t \in Threads, NewCall(t) \/ Continue(t)
      PROVE  ApiInv'
  BY <1>1, ArgumentsThread, RulesInTreeThread
<1>2. ASSUME NEW n \in Runners, Loop(n) \/ \E r \in Rules : CallbackDeletesRule(n, r)
      PROVE  ApiInv'
  <2>1. Arguments'
    BY <1>2, LoopMoves DEF Arguments
  <2>2. RulesInTree'
    <3>1. CASE LoopStart(n) \/ LoopReply(n) \/ LoopEnd(n)
      BY <3>1, PendingLoop, RulesInTreeFrame
    <3> QED
      BY <1>2, <3>1, RulesInTreeProcess, RulesInTreeCallback DEF Loop
  <2> QED
    BY <2>1, <2>2
<1>3. CASE UNCHANGED vars
  BY <1>3 DEF vars, RulesInTree, Arguments, Pending
<1> QED
  BY <1>1, <1>2, <1>3 DEF Next

\* All invariants together.
LEMMA ApiInvariant ==
    ASSUME OneAtATime, DistinctNames
    PROVE  Spec => [](RunnerInv /\ EventsInv /\ ApiInv)
<1>1. Init => RunnerInv /\ EventsInv /\ ApiInv
  BY InitRunnerInv, InitEventsInv, InitApiInv
<1>2. RunnerInv /\ EventsInv /\ ApiInv /\ [Next]_vars => (RunnerInv /\ EventsInv /\ ApiInv)'
  BY NextRunnerInv, NextEventsInv, NextApiInv DEF EventsInv
<1> QED
  BY <1>1, <1>2, PTL DEF Spec

\* A rule that add_forward_rule has returned is in the tree of its context until it is
\* deleted or the context is freed, whatever calls about other rules overlap with it.
THEOREM RulesLive ==
    ASSUME OneAtATime, DistinctNames
    PROVE  Spec => []HeldUntilDeleted
<1>1. RunnerInv /\ ApiInv => HeldUntilDeleted
  BY DEF RunnerInv, RuleOwners, ApiInv, RulesInTree, HeldUntilDeleted
<1> QED
  BY <1>1, ApiInvariant, PTL

-----------------------------------------------------------------------------
(* Every step is a step of the Api or none *)

LEMMA ViewSame ==
    ASSUME NEW u \in Threads, pc'[u] = pc[u], call'[u] = call[u], Pending(u)' <=> Pending(u)
    PROVE  View(u)' = View(u)
BY DEF View, Done

\* One call changes.
LEMMA OneCall ==
    ASSUME NEW t \in Threads, NEW x, View(t)' = x, \A u \in Threads : u # t => View(u)' = View(u)
    PROVE  ApiCall' = [ApiCall EXCEPT ![t] = x] /\ ApiCall[t] = View(t)
<1>1. ApiCall = [u \in Threads |-> View(u)] /\ ApiCall' = [u \in Threads |-> View(u)']
  BY DEF ApiCall
<1> QED
  BY <1>1

\* None does, and nothing else that the application sees.
LEMMA NoCallSeen ==
    ASSUME Forwarding' = Forwarding, UNCHANGED <<rules, owned, held>>, \A u \in Threads : View(u)' = View(u)
    PROVE  UNCHANGED A!vars
<1>1. ApiCall = [u \in Threads |-> View(u)] /\ ApiCall' = [u \in Threads |-> View(u)']
  BY DEF ApiCall
<1>2. ApiCall' = ApiCall
  BY <1>1
<1> QED
  BY <1>2 DEF A!vars

\* In a step of t the other calls look the same.
LEMMA OthersLookSame ==
    ASSUME OneAtATime, RunnerInv, NEW t \in Threads, NewCall(t) \/ Continue(t)
    PROVE  \A u \in Threads : u # t => View(u)' = View(u)
BY PendingOfOther, ViewSame

\* How a call looks while its function is to run, and after.
LEMMA ViewOf ==
    ASSUME NEW t \in Threads
    PROVE  /\ View(t).op = call[t].op /\ View(t).done = Done(t)
           /\ ~Done(t) => View(t) = [op |-> call[t].op, done |-> FALSE,
                                     ctx |-> IF call[t].op = "create" THEN None ELSE call[t].ctx,
                                     rule |-> IF call[t].op = "add_rule" THEN None ELSE call[t].rule]
           /\ Done(t) => View(t) = [op |-> call[t].op, done |-> TRUE,
                                    ctx |-> IF call[t].op = "free" THEN None ELSE call[t].ctx,
                                    rule |-> call[t].rule]
<1>1. Done(t) \in BOOLEAN
  BY DEF Done
<1> QED
  BY <1>1 DEF View

LEMMA ViewOfNext ==
    ASSUME NEW t \in Threads
    PROVE  /\ ~Done(t)' => View(t)' = [op |-> call'[t].op, done |-> FALSE,
                                      ctx |-> IF call'[t].op = "create" THEN None ELSE call'[t].ctx,
                                      rule |-> IF call'[t].op = "add_rule" THEN None ELSE call'[t].rule]
           /\ Done(t)' => View(t)' = [op |-> call'[t].op, done |-> TRUE,
                                     ctx |-> IF call'[t].op = "free" THEN None ELSE call'[t].ctx,
                                     rule |-> call'[t].rule]
<1>1. Done(t)' \in BOOLEAN
  BY DEF Done
<1> QED
  BY <1>1 DEF View

\* A thread begins a call.
LEMMA BeginApi ==
    ASSUME OneAtATime, RunnerInv, ApiInv, NEW t \in Threads, NewCall(t), NEW op, NEW func, NEW n, NEW c, NEW r,
           Begin(t, op, func, n, c, r), op \in Op, func # "delete_runner",
           op # "create" => pc'[t] = "control",
           op = "create" => pc'[t] \in {"init_mutex", "create_lock"}
    PROVE  A!Begin(t, op, IF op = "create" THEN None ELSE c, IF op = "add_rule" THEN None ELSE r)
<1>1. pc[t] = "idle" /\ UNCHANGED <<runners, rules>> /\ \A u \in Threads : u # t => View(u)' = View(u)
  BY NewCallMoves, TreesThread, OthersLookSame
<1>2. call[t] = NoCall /\ call \in [Threads -> Call]
  BY <1>1 DEF ApiInv, Arguments, RunnerInv, TypeOK
<1>3. ~Done(t)
  BY <1>2 DEF Done, NoCall
<1>4. View(t) = A!NoCall
  BY <1>2, <1>3, ViewOf DEF A!NoCall, NoCall
<1>5. call'[t] = [op |-> op, func |-> func, runner |-> n, ctx |-> c, rule |-> r]
  BY <1>2 DEF Begin
<1>6. ~Done(t)'
  BY <1>5 DEF Done, Pending
<1>7. View(t)' = [op |-> op, done |-> FALSE, ctx |-> IF op = "create" THEN None ELSE c,
                  rule |-> IF op = "add_rule" THEN None ELSE r]
  BY <1>5, <1>6, ViewOfNext
<1>8. Forwarding' = Forwarding
  <2>1. UNCHANGED g_runner
    BY DEF NewCall, CreateForward, FreeForward, AddForwardRule, DelForwardRule, DebugDump, globVars
  <2> QED
    BY <1>1, <2>1 DEF Forwarding
<1>9. ApiCall' = [ApiCall EXCEPT ![t] = View(t)'] /\ ApiCall[t] = View(t)
  BY <1>1, OneCall
<1> QED
  BY <1>1, <1>4, <1>7, <1>8, <1>9 DEF A!Begin

LEMMA NewCallApi ==
    ASSUME OneAtATime, RunnerInv, ApiInv, NEW t \in Threads, NewCall(t)
    PROVE  A!ThreadNext(t)
<1>0. pc \in [Threads -> Label] /\ call \in [Threads -> Call]
  BY DEF RunnerInv, TypeOK
<1>1. CASE CreateForward(t)
  <2>1. A!Begin(t, "create", None, None)
    BY <1>0, <1>1, BeginApi DEF CreateForward, Goto, Op
  <2> QED
    BY <1>1, <2>1 DEF A!ThreadNext, A!CreateForward, CreateForward, appVars
<1>2. ASSUME NEW c \in Contexts, FreeForward(t, c)
      PROVE  A!FreeForward(t, c)
  <2>1. A!Begin(t, "free", c, None)
    BY <1>0, <1>2, BeginApi DEF FreeForward, Goto, Op
  <2>2. \A u \in Threads : ApiCall[u].ctx # c
    <3>1. \A u \in Threads : ApiCall[u].ctx \in {None, call[u].ctx}
      BY DEF ApiCall, View
    <3> QED
      BY <1>2, <3>1, NoneAssumption DEF FreeForward
  <2>3. held' = held \ rules[c]
    <3>1. \A r \in held : rule[r].ctx = c <=> r \in rules[c]
      BY DEF RunnerInv, TypeOK, RuleOwners, ApiInv, RulesInTree
    <3> QED
      BY <1>2, <3>1 DEF FreeForward
  <2> QED
    BY <1>2, <2>1, <2>2, <2>3 DEF A!FreeForward, FreeForward
<1>3. ASSUME NEW c \in Contexts, NEW v \in Names, NEW mode \in {"client", "server"}, AddForwardRule(t, c, v, mode)
      PROVE  A!AddForwardRule(t, c)
  <2>1. PICK r \in Rules : Begin(t, "add_rule", "add_rule", home[c], c, r)
    BY <1>3 DEF AddForwardRule
  <2>2. A!Begin(t, "add_rule", c, None)
    BY <1>0, <1>3, <2>1, BeginApi DEF AddForwardRule, Goto, Op
  <2> QED
    BY <1>3, <2>2 DEF A!AddForwardRule, AddForwardRule, appVars
<1>4. ASSUME NEW r \in Rules, DelForwardRule(t, r)
      PROVE  rule[r].ctx \in Contexts /\ A!DelForwardRule(t, rule[r].ctx, r)
  <2>1. r \in held /\ rule[r].ctx \in Contexts /\ r \in rules[rule[r].ctx]
    BY <1>4 DEF DelForwardRule, RunnerInv, TypeOK, RuleOwners, ApiInv, RulesInTree
  <2>2. A!Begin(t, "del_rule", rule[r].ctx, r)
    BY <1>0, <1>4, BeginApi DEF DelForwardRule, Goto, Op
  <2> QED
    BY <1>4, <2>1, <2>2 DEF A!DelForwardRule, DelForwardRule
<1>5. CASE DebugDump(t)
  <2>1. A!Begin(t, "dump", None, None)
    BY <1>0, <1>5, BeginApi DEF DebugDump, Goto, Op
  <2> QED
    BY <1>5, <2>1 DEF A!ThreadNext, A!DebugDump, DebugDump, appVars
<1> QED
  BY <1>1, <1>2, <1>3, <1>4, <1>5 DEF NewCall, A!ThreadNext

\* No thread forwards anything by itself: a new runner has no contexts, and a
\* runner that is gone had none.
LEMMA ForwardingThread ==
    ASSUME OneAtATime, RunnerInv, NEW t \in Threads, Continue(t)
    PROVE  Forwarding' = Forwarding
<1>0. runners \in [Runners -> RunnerObject] /\ g_runner \in Runners \cup {None}
  BY DEF RunnerInv, TypeOK
<1>1. CASE RunnerNew(t)
  BY <1>1 DEF RunnerNew, globVars, RunnerInv, Locals, Forwarding
<1>2. CASE CondReturn(t)
  BY <1>2, NoneAssumption DEF CondReturn, RunnerInv, Fresh, Starting, Forwarding
<1>3. CASE FreeUnlock(t)
  <2>1. runners[g_runner].contexts = {}
    BY <1>3, InFree, NothingForwards DEF FreeUnlock
  <2> QED
    BY <1>3, <2>1 DEF FreeUnlock, Forwarding
<1>4. CASE CondWait(t)
  BY <1>0, <1>4 DEF CondWait, globVars, RunnerObject, Forwarding
<1>5. CASE ControlSend(t)
  BY <1>0, <1>5 DEF ControlSend, globVars, RunnerObject, Forwarding
<1>6. CASE ControlRecv(t)
  BY <1>0, <1>6 DEF ControlRecv, globVars, RunnerObject, Forwarding
<1>7. CASE Join(t)
  BY <1>0, <1>7 DEF Join, globVars, RunnerObject, Forwarding
<1>8. CASE InitMutex(t) \/ CreateLock(t) \/ NewContext(t) \/ CreateUnlock(t) \/ FreeCheck(t) \/ FreeLock(t)
           \/ DeleteRunner(t)
  BY <1>8 DEF InitMutex, CreateLock, NewContext, CreateUnlock, FreeCheck, FreeLock, DeleteRunner, globVars,
              Forwarding
<1> QED
  BY <1>1, <1>2, <1>3, <1>4, <1>5, <1>6, <1>7, <1>8 DEF Continue

\* A call whose function has run returns, with what it created.
LEMMA ReturnApi ==
    ASSUME OneAtATime, RunnerInv, NEW t \in Threads, Continue(t), Return(t), Done(t),
           owned' = owned \cup {c \in Contexts : call[t].op = "create" /\ call[t].ctx = c},
           held' = held \cup {r \in Rules : call[t].op = "add_rule" /\ call[t].rule = r}
    PROVE  A!Return(t)
<1>1. call'[t] = NoCall
  BY DEF Return, RunnerInv, TypeOK
<1>2. ~Done(t)'
  BY <1>1 DEF Done, NoCall
<1>3. View(t)' = A!NoCall
  BY <1>1, <1>2, ViewOfNext DEF A!NoCall, NoCall
<1>4. ApiCall' = [ApiCall EXCEPT ![t] = A!NoCall] /\ ApiCall[t] = View(t)
  BY <1>3, OthersLookSame, OneCall
<1>5. /\ View(t).done /\ View(t).op = call[t].op
      /\ call[t].op = "create" => View(t).ctx = call[t].ctx
      /\ View(t).rule = call[t].rule
  BY ViewOf
<1>6. UNCHANGED rules /\ Forwarding' = Forwarding
  BY TreesThread, ForwardingThread
<1> QED
  BY <1>4, <1>5, <1>6 DEF A!Return

\* A thread goes on in its call and the application sees nothing.
LEMMA SilentApi ==
    ASSUME OneAtATime, RunnerInv, NEW t \in Threads, Continue(t), UNCHANGED <<owned, held>>, View(t)' = View(t)
    PROVE  UNCHANGED A!vars
BY OthersLookSame, TreesThread, ForwardingThread, NoCallSeen

\* create_forward up to the control call.
LEMMA CreateApi ==
    ASSUME OneAtATime, RunnerInv, NEW t \in Threads, Continue(t),
           InitMutex(t) \/ CreateLock(t) \/ RunnerNew(t) \/ CondWait(t) \/ CondReturn(t) \/ NewContext(t)
    PROVE  UNCHANGED A!vars
<1>0. call[t] \in Call /\ pc \in [Threads -> Label] /\ call \in [Threads -> Call]
  BY DEF RunnerInv, TypeOK
<1>1. /\ call[t].op = "create" /\ call[t].func = "add_context" /\ UNCHANGED <<owned, held>>
      /\ pc[t] \notin {"recv", "create_unlock"} /\ pc'[t] \notin {"recv", "create_unlock"}
  BY <1>0, InCreate DEF InitMutex, CreateLock, RunnerNew, CondWait, CondReturn, NewContext, Goto, appVars
<1>2. call'[t].op = "create" /\ call'[t].rule = call[t].rule
  <2>1. CASE RunnerNew(t)
    BY <1>0, <1>1, <2>1 DEF RunnerNew, Call
  <2>2. CASE NewContext(t)
    <3>1. PICK c \in Contexts : call' = [call EXCEPT ![t] = [call[t] EXCEPT !.ctx = c, !.runner = g_runner]]
      BY <2>2 DEF NewContext
    <3>2. call'[t] = [call[t] EXCEPT !.ctx = c, !.runner = g_runner]
      BY <1>0, <3>1
    <3> QED
      BY <1>0, <1>1, <3>2 DEF Call
  <2>3. CASE InitMutex(t) \/ CreateLock(t) \/ CondWait(t) \/ CondReturn(t)
    BY <1>1, <2>3 DEF InitMutex, CreateLock, CondWait, CondReturn
  <2> QED
    BY <2>1, <2>2, <2>3
<1>3. ~Done(t) /\ ~Done(t)'
  BY <1>1, <1>2 DEF Done
<1>4. View(t)' = View(t)
  BY <1>1, <1>2, <1>3, ViewOf, ViewOfNext
<1> QED
  BY <1>1, <1>4, SilentApi

\* The request is sent: its function is still to run.
LEMMA ControlSendApi ==
    ASSUME OneAtATime, RunnerInv, NEW t \in Threads, Continue(t), ControlSend(t)
    PROVE  UNCHANGED A!vars
<1>1. /\ pc[t] = "control" /\ UNCHANGED <<call, owned, held>>
      /\ Pending(t) /\ Pending(t)' /\ pc'[t] = "recv"
  BY RequestSent DEF ControlSend, Pending, appVars
<1>2. Done(t)' <=> Done(t)
  BY <1>1 DEF Done, RunnerInv, Labels
<1>3. View(t)' = View(t)
  BY <1>1, <1>2, ViewOf, ViewOfNext
<1> QED
  BY <1>1, <1>3, SilentApi

\* The answer is received: its function has run.
LEMMA ControlRecvApi ==
    ASSUME OneAtATime, RunnerInv, NEW t \in Threads, Continue(t), ControlRecv(t)
    PROVE  A!Return(t) \/ UNCHANGED A!vars
<1>1. /\ pc[t] = "recv" /\ ~Pending(t) /\ UNCHANGED owned
      /\ held' = IF call[t].func = "add_rule" THEN held \cup {call[t].rule} ELSE held
  BY RecvServed DEF ControlRecv
<1>2. Done(t) /\ call[t].func \in Func
  BY <1>1, ControlRunner DEF Done
<1>3. CASE AfterControl(call[t].func) = "idle"
  <2>1. Return(t) /\ call[t].func \in {"add_rule", "delete_rule", "debug_dump"}
    BY <1>2, <1>3 DEF ControlRecv, AfterControl, Func
  <2>2. call[t].op # "create" /\ (call[t].func = "add_rule" <=> call[t].op = "add_rule")
    BY <1>1, <2>1, ServedCall
  <2>3. call[t].op = "add_rule" => call[t].rule \in Rules
    BY DEF RunnerInv, Locals
  <2>4. held' = held \cup {r \in Rules : call[t].op = "add_rule" /\ call[t].rule = r}
    BY <1>1, <2>2, <2>3
  <2>5. owned' = owned \cup {c \in Contexts : call[t].op = "create" /\ call[t].ctx = c}
    BY <1>1, <2>2
  <2> QED
    BY <1>2, <2>1, <2>4, <2>5, ReturnApi
<1>4. CASE AfterControl(call[t].func) # "idle"
  <2>1. /\ call' = call /\ pc'[t] = AfterControl(call[t].func)
        /\ call[t].func \in {"add_context", "delete_context", "delete_runner"}
    BY <1>2, <1>4 DEF ControlRecv, AfterControl, Goto, Func, RunnerInv, TypeOK
  <2>2. pc'[t] \in {"create_unlock", "free_check", "join"} /\ (call[t].op = "create" => pc'[t] = "create_unlock")
    BY <1>1, <2>1, ServedCall DEF AfterControl
  <2>3. Done(t)'
    BY <1>2, <2>1, <2>2 DEF Done, Pending
  <2>4. View(t)' = View(t)
    BY <1>2, <2>1, <2>3, ViewOf, ViewOfNext
  <2>5. held' = held
    BY <1>1, <2>1
  <2> QED
    BY <1>1, <2>4, <2>5, SilentApi
<1> QED
  BY <1>3, <1>4

\* create_forward returns the context.
LEMMA CreateUnlockApi ==
    ASSUME OneAtATime, RunnerInv, NEW t \in Threads, Continue(t), CreateUnlock(t)
    PROVE  A!Return(t)
<1>1. /\ pc[t] = "create_unlock" /\ call[t].op = "create" /\ Return(t)
      /\ owned' = owned \cup {call[t].ctx} /\ held' = held
  BY InCreate DEF CreateUnlock
<1>2. Done(t) /\ call[t].ctx \in Contexts
  BY <1>1 DEF Done, Pending, RunnerInv, Locals
<1>3. /\ owned' = owned \cup {c \in Contexts : call[t].op = "create" /\ call[t].ctx = c}
      /\ held' = held \cup {r \in Rules : call[t].op = "add_rule" /\ call[t].rule = r}
  BY <1>1, <1>2
<1> QED
  BY <1>1, <1>2, <1>3, ReturnApi

\* free_forward after the control call: the runner is stopped, or not, and nobody sees it.
LEMMA FreeApi ==
    ASSUME OneAtATime, RunnerInv, NEW t \in Threads, Continue(t),
           FreeCheck(t) \/ FreeLock(t) \/ DeleteRunner(t) \/ Join(t) \/ FreeUnlock(t)
    PROVE  A!Return(t) \/ UNCHANGED A!vars
<1>0. pc \in [Threads -> Label] /\ call \in [Threads -> Call]
  BY DEF RunnerInv, TypeOK
<1>1. /\ call[t].op = "free" /\ UNCHANGED <<owned, held>>
      /\ pc[t] \in {"free_check", "free_lock", "delete_runner", "join", "free_unlock"}
  BY InFree DEF FreeCheck, FreeLock, DeleteRunner, Join, FreeUnlock, Freeing, Stopping, appVars
<1>2. Done(t)
  BY <1>1 DEF Done, Pending
<1>3. CASE Return(t)
  <2>1. /\ owned' = owned \cup {c \in Contexts : call[t].op = "create" /\ call[t].ctx = c}
        /\ held' = held \cup {r \in Rules : call[t].op = "add_rule" /\ call[t].rule = r}
    BY <1>1
  <2> QED
    BY <1>2, <1>3, <2>1, ReturnApi
<1>4. CASE ~Return(t)
  <2>1. call'[t].op = "free" /\ call'[t].rule = call[t].rule /\ Done(t)'
    <3>1. CASE DeleteRunner(t)
      BY <1>1, <3>1, DeleteRunnerCall DEF Done
    <3>2. CASE ~DeleteRunner(t)
      <4>1. call' = call /\ pc'[t] \in {"free_lock", "delete_runner", "free_unlock"}
        BY <1>0, <1>4, <3>2 DEF FreeCheck, FreeLock, Join, FreeUnlock, Goto
      <4> QED
        BY <1>1, <4>1 DEF Done, Pending
    <3> QED
      BY <3>1, <3>2
  <2>2. View(t)' = View(t)
    BY <1>1, <1>2, <2>1, ViewOf, ViewOfNext
  <2> QED
    BY <1>1, <2>2, SilentApi
<1> QED
  BY <1>3, <1>4

LEMMA ContinueApi ==
    ASSUME OneAtATime, RunnerInv, NEW t \in Threads, Continue(t)
    PROVE  A!Return(t) \/ UNCHANGED A!vars
<1>1. CASE InitMutex(t) \/ CreateLock(t) \/ RunnerNew(t) \/ CondWait(t) \/ CondReturn(t) \/ NewContext(t)
  BY <1>1, CreateApi
<1>2. CASE FreeCheck(t) \/ FreeLock(t) \/ DeleteRunner(t) \/ Join(t) \/ FreeUnlock(t)
  BY <1>2, FreeApi
<1> QED
  BY <1>1, <1>2, ControlSendApi, ControlRecvApi, CreateUnlockApi DEF Continue

-----------------------------------------------------------------------------
(* The functions that the runner thread runs are the effects of the calls *)

\* The call of t is served: it looks done from here on.
LEMMA ServedView ==
    ASSUME RunnerInv, NEW n \in Runners, LoopProcess(n), NEW t, t = runners[n].mutex,
           call[t].func # "delete_runner"
    PROVE  /\ t \in Threads /\ ~Done(t) /\ Done(t)'
           /\ ApiCall[t] = View(t) /\ ApiCall' = [ApiCall EXCEPT ![t] = View(t)']
<1>1. /\ t \in Threads /\ pc[t] = "recv" /\ UNCHANGED <<pc, call>> /\ Pending(t) /\ ~Pending(t)'
      /\ \A u \in Threads : u # t => (Pending(u)' <=> Pending(u))
  BY Serves
<1>2. ~Done(t) /\ Done(t)'
  <2>1. call[t].op # "none"
    BY <1>1, ControlRunner
  <2> QED
    BY <1>1, <2>1 DEF Done
<1>3. \A u \in Threads : u # t => View(u)' = View(u)
  BY <1>1, ViewSame
<1> QED
  BY <1>1, <1>2, <1>3, OneCall

\* add_context_cb_.
LEMMA AddContextApi ==
    ASSUME OneAtATime, RunnerInv, ApiInv, NEW n \in Runners, LoopProcess(n),
           runners[n].request.func = "add_context", AddContextCb(n, runners[n].request.ctx)
    PROVE  \E t \in Threads, c \in Contexts : A!AddContext(t, c)
<1>0. PICK t : t = runners[n].mutex
  OBVIOUS
<1> DEFINE c == call[t].ctx
<1>1. /\ t \in Threads /\ pc[t] = "recv" /\ n = g_runner /\ g_runner # None
      /\ runners[n].request.func = call[t].func /\ runners[n].request.ctx = c
      /\ UNCHANGED <<call, g_runner, owned, held>> /\ Pending(t)
  BY <1>0, Serves
<1>2. call[t].op = "create" /\ call[t].rule = None
  BY <1>1, ServedCall DEF ApiInv, Arguments
<1>3. c \in Contexts /\ c \notin owned
  BY <1>1, <1>2 DEF RunnerInv, Locals
<1>4. /\ ~Done(t) /\ Done(t)' /\ ApiCall[t] = View(t) /\ ApiCall' = [ApiCall EXCEPT ![t] = View(t)']
  BY <1>0, <1>1, ServedView
<1>5. View(t)' = [op |-> "create", done |-> TRUE, ctx |-> c, rule |-> None]
  BY <1>1, <1>2, <1>4, ViewOfNext
<1>6. ApiCall[t].op = "create" /\ ~ApiCall[t].done
  BY <1>1, <1>2, <1>4, ViewOf
<1>7. c \notin Forwarding
  <2>1. \A u \in Threads : ~(InTree(u) /\ call[u].ctx = c)
    <3>1. \A u \in Threads : u # t => ~InTree(u)
      BY <1>1, <1>2, OthersQuiet DEF RunnerInv
    <3>2. ~InTree(t)
      BY <1>1, <1>2 DEF InTree, Freeing
    <3> QED
      BY <3>1, <3>2
  <2> QED
    BY <1>1, <1>3, <2>1 DEF RunnerInv, Ownership, Forwarding
<1>8. Forwarding' = Forwarding \cup {c} /\ UNCHANGED rules
  <2>1. runners[n] \in RunnerObject /\ runners \in [Runners -> RunnerObject]
    BY DEF RunnerInv, TypeOK
  <2>2. runners'[n].contexts = runners[n].contexts \cup {c} /\ UNCHANGED rules
    BY <1>1, <2>1 DEF AddContextCb, RunnerObject, objVars
  <2> QED
    BY <1>1, <2>2 DEF Forwarding
<1>9. A!AddContext(t, c)
  BY <1>1, <1>4, <1>5, <1>6, <1>7, <1>8 DEF A!AddContext, A!Perform
<1> QED
  BY <1>1, <1>3, <1>9

\* delete_context_cb_.
LEMMA DeleteContextApi ==
    ASSUME OneAtATime, RunnerInv, ApiInv, NEW n \in Runners, LoopProcess(n),
           runners[n].request.func = "delete_context", DeleteContextCb(n, runners[n].request.ctx)
    PROVE  \E t \in Threads, c \in Contexts : A!DeleteContext(t, c)
<1>0. PICK t : t = runners[n].mutex
  OBVIOUS
<1> DEFINE c == call[t].ctx
<1>1. /\ t \in Threads /\ pc[t] = "recv" /\ n = g_runner /\ g_runner # None
      /\ runners[n].request.func = call[t].func /\ runners[n].request.ctx = c
      /\ UNCHANGED <<call, g_runner, owned, held>> /\ Pending(t)
  BY <1>0, Serves
<1>2. Freeing(t) /\ call[t].op = "free" /\ call[t].rule = None
  BY <1>1, ServedCall DEF ApiInv, Arguments, Freeing
<1>3. c \in Contexts
  BY <1>1, <1>2 DEF RunnerInv, Locals
<1>4. /\ ~Done(t) /\ Done(t)' /\ ApiCall[t] = View(t) /\ ApiCall' = [ApiCall EXCEPT ![t] = View(t)']
  BY <1>0, <1>1, ServedView
<1>5. View(t)' = [op |-> "free", done |-> TRUE, ctx |-> None, rule |-> None]
  BY <1>1, <1>2, <1>4, ViewOfNext
<1>6. ApiCall[t].op = "free" /\ ~ApiCall[t].done /\ ApiCall[t].ctx = c
  BY <1>1, <1>2, <1>4, ViewOf
<1>7. c \in Forwarding
  <2>1. InTree(t)
    BY <1>1, <1>2 DEF InTree
  <2> QED
    BY <1>1, <1>3, <2>1 DEF RunnerInv, Ownership, Forwarding
<1>8. Forwarding' = Forwarding \ {c} /\ rules' = [rules EXCEPT ![c] = {}]
  <2>1. /\ runners[n] \in RunnerObject /\ runners \in [Runners -> RunnerObject]
        /\ rules \in [Contexts -> SUBSET Rules]
    BY DEF RunnerInv, TypeOK
  <2>2. /\ runners'[n].contexts = runners[n].contexts \ {c}
        /\ rules' = [d \in Contexts |-> IF d \in {c} THEN {} ELSE rules[d]]
    BY <1>1, <2>1 DEF DeleteContextCb, DeleteContexts, RunnerObject
  <2>3. rules' = [rules EXCEPT ![c] = {}]
    BY <1>3, <2>1, <2>2
  <2> QED
    BY <1>1, <2>2, <2>3 DEF Forwarding
<1>9. A!DeleteContext(t, c)
  BY <1>1, <1>4, <1>5, <1>6, <1>7, <1>8 DEF A!DeleteContext, A!Perform
<1> QED
  BY <1>1, <1>3, <1>9

\* The functions about rules leave the tree of contexts alone.
LEMMA ContextsStay ==
    ASSUME RunnerInv, NEW n \in Runners, NEW r, AddRuleCb(n, r) \/ DeleteRuleCb(n, r) \/ DebugDumpCb(n),
           UNCHANGED g_runner
    PROVE  Forwarding' = Forwarding
<1>1. runners[n] \in RunnerObject /\ runners \in [Runners -> RunnerObject] /\ g_runner \in Runners \cup {None}
  BY DEF RunnerInv, TypeOK
<1>2. \A m \in Runners : runners'[m].contexts = runners[m].contexts
  <2>1. CASE AddRuleCb(n, r)
    BY <1>1, <2>1 DEF AddRuleCb, RunnerObject
  <2>2. CASE DeleteRuleCb(n, r)
    BY <1>1, <2>2 DEF DeleteRuleCb, RunnerObject
  <2>3. CASE DebugDumpCb(n)
    BY <1>1, <2>3 DEF DebugDumpCb, RunnerObject
  <2> QED
    BY <2>1, <2>2, <2>3
<1> QED
  BY <1>1, <1>2 DEF Forwarding

\* add_rule_cb_.
LEMMA AddRuleApi ==
    ASSUME OneAtATime, RunnerInv, NamesDiffer, ApiInv, NEW n \in Runners, LoopProcess(n),
           runners[n].request.func = "add_rule", AddRuleCb(n, runners[n].request.rule)
    PROVE  \E t \in Threads, r \in Rules : A!AddRule(t, r)
<1>0. PICK t : t = runners[n].mutex
  OBVIOUS
<1> DEFINE r == call[t].rule
           c == call[t].ctx
<1>1. /\ t \in Threads /\ pc[t] = "recv" /\ n = g_runner /\ g_runner # None
      /\ runners[n].request.func = call[t].func /\ runners[n].request.rule = r
      /\ UNCHANGED <<call, g_runner, owned, held>> /\ Pending(t)
  BY <1>0, Serves
<1>2. call[t].op = "add_rule" /\ c \in owned /\ c \in Contexts /\ r \in Rules
  BY <1>1, ServedCall DEF RunnerInv, TypeOK, Locals
<1>3. HasRule(t, r)
  BY <1>2 DEF HasRule
<1>4. rule[r] # None /\ rule[r].ctx = c /\ r \notin rules[c]
  BY <1>1, <1>2, <1>3 DEF RunnerInv, RuleOwners, ApiInv, RulesInTree
<1>5. /\ ~Done(t) /\ Done(t)' /\ ApiCall[t] = View(t) /\ ApiCall' = [ApiCall EXCEPT ![t] = View(t)']
  BY <1>0, <1>1, ServedView
<1>6. View(t)' = [op |-> "add_rule", done |-> TRUE, ctx |-> c, rule |-> r]
  BY <1>1, <1>2, <1>5, ViewOfNext
<1>7. ApiCall[t].op = "add_rule" /\ ~ApiCall[t].done /\ ApiCall[t].ctx = c
  BY <1>1, <1>2, <1>5, ViewOf
<1>8. c \in Forwarding /\ Forwarding' = Forwarding
  BY <1>1, <1>2, ContextsStay DEF RunnerInv, Ownership, Forwarding
<1>9. \A b \in Contexts : r \notin rules[b]
  BY <1>4 DEF RunnerInv, RuleOwners
<1>10. rules' = [rules EXCEPT ![c] = rules[c] \cup {r}]
  BY <1>1, <1>2, <1>4, RuleAdded DEF AddRuleCb
<1>11. A!AddRule(t, r)
  BY <1>1, <1>5, <1>6, <1>7, <1>8, <1>9, <1>10 DEF A!AddRule, A!Perform
<1> QED
  BY <1>1, <1>2, <1>11

\* delete_rule_cb_.
LEMMA DeleteRuleApi ==
    ASSUME OneAtATime, RunnerInv, NamesDiffer, ApiInv, NEW n \in Runners, LoopProcess(n),
           runners[n].request.func = "delete_rule", DeleteRuleCb(n, runners[n].request.rule)
    PROVE  \E t \in Threads, c \in Contexts, r \in Rules : A!DeleteRule(t, c, r)
<1>0. PICK t : t = runners[n].mutex
  OBVIOUS
<1> DEFINE r == call[t].rule
           c == call[t].ctx
<1>1. /\ t \in Threads /\ pc[t] = "recv" /\ n = g_runner /\ g_runner # None
      /\ runners[n].request.func = call[t].func /\ runners[n].request.rule = r
      /\ UNCHANGED <<call, g_runner, owned, held>> /\ Pending(t)
  BY <1>0, Serves
<1>2. call[t].op = "del_rule" /\ c \in Contexts /\ r \in Rules
  BY <1>1, ServedCall DEF RunnerInv, TypeOK, Locals
<1>3. HasRule(t, r)
  BY <1>1, <1>2 DEF HasRule
<1>4. rule[r] # None /\ rule[r].ctx = c /\ r \in rules[c]
  BY <1>1, <1>2, <1>3 DEF RunnerInv, RuleOwners, ApiInv, RulesInTree
<1>5. /\ ~Done(t) /\ Done(t)' /\ ApiCall[t] = View(t) /\ ApiCall' = [ApiCall EXCEPT ![t] = View(t)']
  BY <1>0, <1>1, ServedView
<1>6. View(t)' = [op |-> "del_rule", done |-> TRUE, ctx |-> c, rule |-> r]
  BY <1>1, <1>2, <1>5, ViewOfNext
<1>7. ApiCall[t].op = "del_rule" /\ ~ApiCall[t].done /\ ApiCall[t].ctx = c /\ ApiCall[t].rule = r
  BY <1>1, <1>2, <1>5, ViewOf
<1>8. Forwarding' = Forwarding
  BY <1>1, ContextsStay
<1>9. rules' = [rules EXCEPT ![c] = rules[c] \ {r}]
  BY <1>1, <1>2, <1>4, RuleRemoved DEF DeleteRuleCb
<1>10. A!DeleteRule(t, c, r)
  BY <1>1, <1>4, <1>5, <1>6, <1>7, <1>8, <1>9 DEF A!DeleteRule, A!Perform
<1> QED
  BY <1>1, <1>2, <1>10

\* debug_dump.
LEMMA DumpApi ==
    ASSUME OneAtATime, RunnerInv, ApiInv, NEW n \in Runners, LoopProcess(n),
           runners[n].request.func = "debug_dump", DebugDumpCb(n)
    PROVE  \E t \in Threads : A!Dump(t)
<1>0. PICK t : t = runners[n].mutex
  OBVIOUS
<1>1. /\ t \in Threads /\ pc[t] = "recv" /\ runners[n].request.func = call[t].func
      /\ UNCHANGED <<call, g_runner, owned, held>>
  BY <1>0, Serves
<1>2. call[t].op = "dump" /\ call[t].ctx = None /\ call[t].rule = None
  BY <1>1, ServedCall DEF ApiInv, Arguments
<1>3. /\ ~Done(t) /\ Done(t)' /\ ApiCall[t] = View(t) /\ ApiCall' = [ApiCall EXCEPT ![t] = View(t)']
  BY <1>0, <1>1, ServedView
<1>4. View(t)' = [op |-> "dump", done |-> TRUE, ctx |-> None, rule |-> None]
  BY <1>1, <1>2, <1>3, ViewOfNext
<1>5. ApiCall[t].op = "dump" /\ ~ApiCall[t].done
  BY <1>1, <1>2, <1>3, ViewOf
<1>6. Forwarding' = Forwarding /\ UNCHANGED rules
  BY <1>1, ContextsStay DEF DebugDumpCb, objVars
<1>7. A!Dump(t)
  BY <1>1, <1>3, <1>4, <1>5, <1>6 DEF A!Dump, A!Perform
<1> QED
  BY <1>1, <1>7

\* delete_runner_cb_: the call that it serves has had its effect long ago.
LEMMA DeleteRunnerApi ==
    ASSUME OneAtATime, RunnerInv, NEW n \in Runners, LoopProcess(n),
           runners[n].request.func = "delete_runner", DeleteRunnerCb(n)
    PROVE  UNCHANGED A!vars
<1>0. PICK t : t = runners[n].mutex
  OBVIOUS
<1>1. /\ t \in Threads /\ pc[t] = "recv" /\ n = g_runner /\ g_runner # None
      /\ runners[n].request.func = call[t].func
      /\ UNCHANGED <<pc, call, g_runner, owned, held>>
      /\ \A u \in Threads : u # t => (Pending(u)' <=> Pending(u))
  BY <1>0, Serves
<1>2. UNCHANGED rules /\ runners'[n].contexts = {} /\ runners[n].contexts = {}
  BY DeleteRunnerChanges
<1>3. Forwarding' = Forwarding
  BY <1>1, <1>2 DEF Forwarding
<1>4. Done(t)' <=> Done(t)
  BY <1>1 DEF Done
<1>5. View(t)' = View(t)
  BY <1>1, <1>4, ViewOf, ViewOfNext
<1>6. \A u \in Threads : u # t => View(u)' = View(u)
  BY <1>1, ViewSame
<1> QED
  BY <1>1, <1>2, <1>3, <1>5, <1>6, NoCallSeen

\* The rest of the loop: the runner thread starts, answers or ends.
LEMMA LoopApi ==
    ASSUME RunnerInv, NEW n \in Runners, LoopStart(n) \/ LoopReply(n) \/ LoopEnd(n)
    PROVE  UNCHANGED A!vars
<1>1. /\ UNCHANGED <<call, g_runner, rules, owned, held>>
      /\ \A u \in Threads : Pending(u)' <=> Pending(u)
  BY PendingLoop
<1>2. Forwarding' = Forwarding
  <2>1. runners \in [Runners -> RunnerObject] /\ g_runner \in Runners \cup {None}
    BY DEF RunnerInv, TypeOK
  <2>2. \A m \in Runners : runners'[m].contexts = runners[m].contexts
    <3>1. CASE LoopStart(n)
      BY <2>1, <3>1 DEF LoopStart, RunnerObject
    <3>2. CASE LoopReply(n)
      BY <2>1, <3>2 DEF LoopReply, RunnerObject
    <3>3. CASE LoopEnd(n)
      BY <2>1, <3>3 DEF LoopEnd, RunnerObject
    <3> QED
      BY <3>1, <3>2, <3>3
  <2> QED
    BY <1>1, <2>1, <2>2 DEF Forwarding
<1>3. ASSUME NEW u \in Threads
      PROVE  View(u)' = View(u)
  <2>1. pc'[u] = pc[u] \/ (pc[u] = "waiting" /\ pc'[u] = "woken")
    BY LoopMoves DEF Loop
  <2>2. CASE pc'[u] = pc[u]
    BY <1>1, <2>2, ViewSame
  <2>3. CASE pc[u] = "waiting" /\ pc'[u] = "woken"
    <3>1. call[u].op = "create"
      BY <2>3, InCreate
    <3>2. ~Done(u) /\ ~Done(u)'
      BY <1>1, <2>3, <3>1 DEF Done
    <3> QED
      BY <1>1, <3>2, ViewOf, ViewOfNext
  <2> QED
    BY <2>1, <2>2, <2>3
<1> QED
  BY <1>1, <1>2, <1>3, NoCallSeen

\* A callback of the application.
LEMMA CallbackApi ==
    ASSUME RunnerInv, NamesDiffer, ApiInv, NEW n \in Runners, NEW r \in Rules, CallbackDeletesRule(n, r)
    PROVE  \E c \in Contexts : A!CallbackDeletesRule(c, r)
<1> DEFINE c == rule[r].ctx
<1>1. /\ r \in held /\ rule[r] # None /\ UNCHANGED <<pc, call, g_runner, owned>> /\ held' = held \ {r}
  BY DEF CallbackDeletesRule, globVars, RunnerInv, RuleOwners
<1>2. \A u \in Threads : Pending(u)' <=> Pending(u)
  <2>1. \A u \in Threads : pc[u] = "recv" => call[u].runner \in Runners
    BY ControlRunner
  <2> QED
    BY <1>1, <2>1, NotProcessed DEF Pending
<1>3. c \in Contexts /\ rules' = [rules EXCEPT ![c] = rules[c] \ {r}]
  BY <1>1, RuleRemoved DEF CallbackDeletesRule
<1>4. r \in rules[c]
  BY <1>1 DEF ApiInv, RulesInTree
<1>5. Forwarding' = Forwarding
  <2>1. runners \in [Runners -> RunnerObject] /\ g_runner \in Runners \cup {None}
    BY DEF RunnerInv, TypeOK
  <2>2. \A m \in Runners : runners'[m].contexts = runners[m].contexts
    BY <2>1 DEF CallbackDeletesRule, RunnerObject
  <2> QED
    BY <1>1, <2>1, <2>2 DEF Forwarding
<1>6. ApiCall' = ApiCall
  <2>1. ApiCall = [u \in Threads |-> View(u)] /\ ApiCall' = [u \in Threads |-> View(u)']
    BY DEF ApiCall
  <2>2. \A u \in Threads : View(u)' = View(u)
    BY <1>1, <1>2, ViewSame
  <2> QED
    BY <2>1, <2>2
<1>7. A!CallbackDeletesRule(c, r)
  BY <1>1, <1>3, <1>4, <1>5, <1>6 DEF A!CallbackDeletesRule
<1> QED
  BY <1>3, <1>7

-----------------------------------------------------------------------------
LEMMA InitApi ==
    ASSUME Init
    PROVE  A!Init
<1>1. /\ call = [t \in Threads |-> NoCall] /\ g_runner = None
      /\ rules = [c \in Contexts |-> {}] /\ owned = {} /\ held = {}
  BY DEF Init
<1>2. Forwarding = {}
  BY <1>1 DEF Forwarding
<1>3. \A t \in Threads : View(t) = A!NoCall
  <2> SUFFICES ASSUME NEW t \in Threads
               PROVE  View(t) = A!NoCall
    OBVIOUS
  <2>1. call[t] = NoCall
    BY <1>1
  <2>2. ~Done(t)
    BY <2>1 DEF Done, NoCall
  <2> QED
    BY <2>1, <2>2, ViewOf DEF A!NoCall, NoCall
<1>4. ApiCall = [t \in Threads |-> A!NoCall]
  BY <1>3 DEF ApiCall
<1> QED
  BY <1>1, <1>2, <1>4 DEF A!Init

\* What the runner thread runs for a request is the effect of the call, or nothing.
LEMMA ProcessApi ==
    ASSUME OneAtATime, RunnerInv, NamesDiffer, ApiInv, NEW n \in Runners, LoopProcess(n)
    PROVE  (\E t \in Threads : A!ThreadNext(t)) \/ UNCHANGED A!vars
<1> DEFINE q == runners[n].request
<1>1. CASE q.func = "add_context" /\ AddContextCb(n, q.ctx)
  BY <1>1, AddContextApi DEF A!ThreadNext
<1>2. CASE q.func = "delete_context" /\ DeleteContextCb(n, q.ctx)
  BY <1>2, DeleteContextApi DEF A!ThreadNext
<1>3. CASE q.func = "add_rule" /\ AddRuleCb(n, q.rule)
  BY <1>3, AddRuleApi DEF A!ThreadNext
<1>4. CASE q.func = "delete_rule" /\ DeleteRuleCb(n, q.rule)
  BY <1>4, DeleteRuleApi DEF A!ThreadNext
<1>5. CASE q.func = "delete_runner" /\ DeleteRunnerCb(n)
  BY <1>5, DeleteRunnerApi
<1>6. CASE q.func = "debug_dump" /\ DebugDumpCb(n)
  BY <1>6, DumpApi DEF A!ThreadNext
<1> QED
  BY <1>1, <1>2, <1>3, <1>4, <1>5, <1>6 DEF LoopProcess

LEMMA NextApi ==
    ASSUME OneAtATime, RunnerInv, NamesDiffer, ApiInv, [Next]_vars
    PROVE  [A!Next]_(A!vars)
<1>1. ASSUME NEW t \in Threads, NewCall(t)
      PROVE  A!Next
  BY <1>1, NewCallApi DEF A!Next
<1>2. ASSUME NEW t \in Threads, Continue(t)
      PROVE  A!Next \/ UNCHANGED A!vars
  BY <1>2, ContinueApi DEF A!Next, A!ThreadNext
<1>3. ASSUME NEW n \in Runners, Loop(n)
      PROVE  A!Next \/ UNCHANGED A!vars
  BY <1>3, LoopApi, ProcessApi DEF Loop, A!Next
<1>4. ASSUME NEW n \in Runners, NEW r \in Rules, CallbackDeletesRule(n, r)
      PROVE  A!Next
  BY <1>4, CallbackApi DEF A!Next
<1>5. CASE UNCHANGED vars
  <2>1. UNCHANGED <<pc, call, g_runner, runners, rules, owned, held>>
    BY <1>5 DEF vars
  <2>2. \A u \in Threads : View(u)' = View(u)
    BY <2>1 DEF View, Done, Pending
  <2> QED
    BY <2>1, <2>2, NoCallSeen DEF Forwarding
<1> QED
  BY <1>1, <1>2, <1>3, <1>4, <1>5 DEF Next

\* Where the application creates, frees and dumps one call at a time and gives no context
\* two rules of one name, every call of the API has its effect once, at one moment between
\* its beginning and its return and on its own arguments, however its steps, those of the
\* other threads and those of the runner thread interleave; starting and stopping the
\* runner changes nothing of what is forwarded.
THEOREM RunnerImplementsApi ==
    ASSUME OneAtATime, DistinctNames
    PROVE  Spec => ImplementsApi
<1>1. Init => A!Init
  BY InitApi
<1>2. RunnerInv /\ EventsInv /\ ApiInv /\ [Next]_vars => [A!Next]_(A!vars)
  BY NextApi DEF EventsInv
<1> QED
  BY <1>1, <1>2, ApiInvariant, PTL DEF Spec, ImplementsApi, A!Spec
=============================================================================

---------------------------- MODULE Runner_proofs ----------------------------
(***************************************************************************)
(* What TLAPS proves of Runner, for any number of threads, runners,        *)
(* contexts, rules, names and calls: the invariants that runner_calls      *)
(* checks hold wherever the application makes its calls of create_forward, *)
(* free_forward and debug_dump one at a time.  Calls about rules may       *)
(* overlap with anything.                                                  *)
(***************************************************************************)
EXTENDS Runner, FiniteSetTheorems, TLAPS

-----------------------------------------------------------------------------
(* The inductive invariant *)

\* The application makes these calls one at a time.
OneAtATime == {"create", "free", "dump"} \subseteq Serial

\* t frees a context, and then perhaps the runner.
Freeing(t) == call[t].op = "free" /\ call[t].func = "delete_context"
Stopping(t) == call[t].op = "free" /\ call[t].func = "delete_runner"

\* t starts a runner.
Starting(t) == pc[t] \in {"cond_wait", "waiting", "woken"}

\* The labels and functions of each call.
Labels ==
    \A t \in Threads :
        LET k == call[t]
        IN  /\ pc[t] = "idle" <=> k.op = "none"
            /\ k.op = "create" =>
                 /\ k.func = "add_context"
                 /\ pc[t] \in {"init_mutex", "create_lock", "runner_new", "cond_wait", "waiting",
                               "woken", "new_context", "control", "recv", "create_unlock"}
            /\ k.op = "free" =>
                 \/ /\ k.func = "delete_context"
                    /\ pc[t] \in {"control", "recv", "free_check", "free_lock", "delete_runner"}
                 \/ /\ k.func = "delete_runner"
                    /\ pc[t] \in {"control", "recv", "join", "free_unlock"}
            /\ k.op = "add_rule" => k.func = "add_rule" /\ pc[t] \in {"control", "recv"}
            /\ k.op = "del_rule" => k.func = "delete_rule" /\ pc[t] \in {"control", "recv"}
            /\ k.op = "dump" => k.func = "debug_dump" /\ pc[t] \in {"control", "recv"}

\* At most one call of a kind in Serial is under way.
OneSerial ==
    \A t, u \in Threads : call[t].op \in Serial /\ call[u].op \in Serial => t = u

\* What the local variables of a call point to.
Locals ==
    \A t \in Threads :
        LET k == call[t]
        IN  /\ k.op \in {"add_rule", "del_rule"} =>
                 k.ctx \in owned /\ k.rule \in Rules /\ k.runner = g_runner
            /\ k.op = "dump" => k.runner = g_runner /\ g_runner # None
            /\ k.op = "create" /\ pc[t] \in {"control", "recv", "create_unlock"} =>
                 /\ k.runner = g_runner /\ g_runner # None
                 /\ k.ctx \in Contexts \ owned /\ home[k.ctx] = g_runner
            /\ Freeing(t) =>
                 /\ k.runner = g_runner /\ g_runner # None
                 /\ k.ctx \in Contexts \ owned
            /\ Stopping(t) => k.runner = g_runner /\ g_runner # None
            /\ pc[t] = "runner_new" => g_runner = None
            /\ pc[t] = "new_context" => g_runner # None

\* A runner that is being started is new.
Fresh ==
    \A t \in Threads : Starting(t) =>
        LET n == call[t].runner
        IN  /\ n \in Runners /\ g_runner = None
            /\ runners[n].live /\ runners[n].contexts = {} /\ runners[n].events = {"control"}
            /\ runners[n].loop = IF pc[t] = "woken" THEN "running" ELSE "created"

\* g_runner runs until delete_runner_cb_ has run, and is freed in the end.
Lifetime ==
    /\ \A n \in Runners :
         /\ runners[n].live => n = g_runner \/ \E t \in Threads : Starting(t) /\ call[t].runner = n
         /\ ~runners[n].live => runners[n].loop \in {"none", "ended"}
    /\ \A t \in Threads : Stopping(t) =>
         (runners[g_runner].live <=> pc[t] # "free_unlock")
    /\ g_runner # None /\ (\A t \in Threads : Stopping(t) => Pending(t)) =>
         /\ runners[g_runner].live
         /\ runners[g_runner].loop \in {"running", "replying"}
         /\ "control" \in runners[g_runner].events

\* The runner's mutex is held by the thread that waits for it, and what is on
\* the control socket is that thread's.
Socket(n) ==
    LET R == runners[n] w == R.mutex
    IN  /\ w # None => pc[w] \in {"recv", "cond_wait"} /\ call[w].runner = n
        /\ R.request # None \/ R.loop = "replying" \/ R.reply = TRUE => w # None /\ pc[w] = "recv"
        /\ R.request # None =>
             /\ R.request = [func |-> call[w].func, ctx |-> call[w].ctx, rule |-> call[w].rule]
             /\ R.loop # "replying" /\ R.reply = FALSE
        /\ R.loop = "replying" => R.reply = FALSE

Channel ==
    /\ \A t \in Threads : pc[t] \in {"recv", "cond_wait"} => runners[call[t].runner].mutex = t
    /\ \A n \in Runners : Socket(n)

\* The context of t's call is in the tree although the application has not got
\* it yet, or has it no longer.
InTree(t) ==
    \/ call[t].op = "create" /\ pc[t] \in {"recv", "create_unlock"} /\ ~Pending(t)
    \/ Freeing(t) /\ Pending(t)

\* The tree of contexts has what the application has, and the runner is stopped
\* only when this is nothing.
Ownership ==
    /\ g_runner = None => owned = {}
    /\ g_runner # None /\ owned = {} =>
         \E t \in Threads : call[t].op \in {"create", "free"}
    /\ \A c \in owned : home[c] = g_runner
    /\ g_runner # None => \A c \in Contexts :
         c \in runners[g_runner].contexts <=>
            c \in owned \/ \E t \in Threads : InTree(t) /\ call[t].ctx = c
    /\ \A t \in Threads :
         pc[t] \in {"free_lock", "delete_runner"} \/ Stopping(t) => owned = {}

\* t's call has the rule at address r.
HasRule(t, r) ==
    /\ call[t].rule = r
    /\ call[t].op = "add_rule" \/ (call[t].op = "del_rule" /\ Pending(t))

\* A rule belongs to the application or to one call, and to a context that exists.
RuleOwners ==
    /\ \A r \in held : rule[r] # None /\ rule[r].ctx \in owned
    /\ \A r \in Rules, t \in Threads : HasRule(t, r) =>
         /\ rule[r] # None /\ rule[r].ctx = call[t].ctx
         /\ r \notin held
         /\ \A u \in Threads : HasRule(u, r) => t = u
    /\ \A c \in Contexts : \A r \in rules[c] : rule[r] # None /\ rule[r].ctx = c
    /\ \A c \in Contexts : rules[c] # {} =>
         g_runner # None /\ c \in runners[g_runner].contexts

\* The parts need each other: Channel says whose function runs, Locals what it is
\* applied to, Ownership and RuleOwners that this is in the tree it is taken from,
\* and Lifetime that there is a loop to run it.
RunnerInv ==
    /\ TypeOK /\ Labels /\ OneSerial /\ Locals /\ Fresh /\ Lifetime /\ Channel
    /\ Ownership /\ RuleOwners

\* No two rules of a context have the same name.
NamesDiffer ==
    \A r, s \in Rules : rule[r] # None /\ rule[s] # None /\ r # s =>
        rule[r].ctx # rule[s].ctx \/ rule[r].name # rule[s].name

\* EventsBelong is inductive with RunnerInv where names differ: rbtree_insert then
\* refuses no rule, and rbtree_remove takes the one it was called for.
EventsInv == EventsBelong /\ NamesDiffer

-----------------------------------------------------------------------------
(* Facts used for several actions *)

\* The fields of a runner.
LEMMA RunnerFields ==
    ASSUME TypeOK, NEW n \in Runners
    PROVE  /\ runners[n].live \in BOOLEAN /\ runners[n].reply \in BOOLEAN
           /\ runners[n].mutex \in Threads \cup {None}
           /\ runners[n].loop \in {"none", "created", "running", "replying", "ended"}
           /\ runners[n].contexts \in SUBSET Contexts
           /\ runners[n].events \in SUBSET Event
           /\ runners[n].request \in Request \cup {None}
BY DEF TypeOK, RunnerObject

\* A call's local variables change.
LEMMA CallChange ==
    ASSUME call \in [Threads -> Call], NEW t \in Threads, NEW f \in Func \cup {None},
           NEW n \in Runners \cup {None}, NEW c \in Contexts \cup {None}
    PROVE  /\ [call EXCEPT ![t] = [call[t] EXCEPT !.ctx = c, !.runner = n]] \in [Threads -> Call]
           /\ [call EXCEPT ![t] = [call[t] EXCEPT !.func = f, !.runner = n, !.ctx = c]] \in [Threads -> Call]
<1>1. call[t] \in Call
  OBVIOUS
<1>2. [call[t] EXCEPT !.ctx = c, !.runner = n] \in Call
  BY <1>1 DEF Call
<1>3. [call[t] EXCEPT !.func = f, !.runner = n, !.ctx = c] \in Call
  BY <1>1 DEF Call
<1>4. [call EXCEPT ![t] = [call[t] EXCEPT !.ctx = c, !.runner = n]] \in [Threads -> Call]
  BY <1>2
<1>5. [call EXCEPT ![t] = [call[t] EXCEPT !.func = f, !.runner = n, !.ctx = c]] \in [Threads -> Call]
  BY <1>3
<1> QED
  BY <1>4, <1>5

\* While t is in a call that is made one at a time, the other threads are idle
\* or in a control call about a rule.
LEMMA OthersQuiet ==
    ASSUME OneAtATime, TypeOK, Labels, OneSerial, NEW t \in Threads,
           call[t].op \in {"create", "free", "dump"}
    PROVE  \A u \in Threads : u # t =>
             /\ call[u].op \in {"none", "add_rule", "del_rule"}
             /\ pc[u] \in {"idle", "control", "recv"}
             /\ ~Starting(u) /\ ~InTree(u) /\ ~Freeing(u) /\ ~Stopping(u)
BY DEF OneAtATime, TypeOK, Labels, OneSerial, Call, Op, Starting, InTree, Freeing, Stopping

\* The holder of a runner's mutex is in a control call to this runner or starts it.
LEMMA MutexHolder ==
    ASSUME TypeOK, Channel, NEW n \in Runners, runners[n].mutex # None
    PROVE  /\ runners[n].mutex \in Threads
           /\ pc[runners[n].mutex] \in {"recv", "cond_wait"}
           /\ call[runners[n].mutex].runner = n
<1>1. Socket(n)
  BY DEF Channel
<1> QED
  BY <1>1, RunnerFields DEF Socket

\* The socket of a runner is untouched by a step that changes neither the runner's
\* side of it nor the call of the holder of the mutex.
LEMMA SocketFrame ==
    ASSUME TypeOK, Channel, NEW n \in Runners,
           runners'[n].mutex = runners[n].mutex, runners'[n].request = runners[n].request,
           runners'[n].loop = runners[n].loop, runners'[n].reply = runners[n].reply,
           runners[n].mutex # None =>
             /\ pc'[runners[n].mutex] = pc[runners[n].mutex]
             /\ call'[runners[n].mutex] = call[runners[n].mutex]
    PROVE  Socket(n)'
<1>1. Socket(n)
  BY DEF Channel
<1> QED
  BY <1>1 DEF Socket

\* A step of t outside the runner's mutex leaves the control sockets alone.
LEMMA QuietFrame ==
    ASSUME TypeOK, Channel, NEW t \in Threads, UNCHANGED runners,
           pc[t] \notin {"recv", "cond_wait"}, pc'[t] \notin {"recv", "cond_wait"},
           \A u \in Threads : u # t => pc'[u] = pc[u] /\ call'[u] = call[u]
    PROVE  /\ Channel'
           /\ \A u \in Threads : u # t => (Pending(u)' <=> Pending(u))
<1>3. \A u \in Threads : pc'[u] \in {"recv", "cond_wait"} => u # t
  OBVIOUS
<1>4. Channel'
  <2>1. ASSUME NEW u \in Threads, pc'[u] \in {"recv", "cond_wait"}
        PROVE  runners'[call'[u].runner].mutex = u
    BY <1>3, <2>1 DEF Channel
  <2>2. ASSUME NEW n \in Runners
        PROVE  Socket(n)'
    BY MutexHolder, SocketFrame
  <2> QED
    BY <2>1, <2>2 DEF Channel
<1>5. \A u \in Threads : u # t => (Pending(u)' <=> Pending(u))
  BY DEF Pending
<1> QED
  BY <1>4, <1>5

\* Every control call is a call to g_runner.
LEMMA ControlRunner ==
    ASSUME RunnerInv, NEW t \in Threads, pc[t] \in {"control", "recv"}
    PROVE  /\ call[t].runner = g_runner /\ g_runner \in Runners
           /\ call[t].func \in Func
           /\ call[t].op \in {"create", "free", "add_rule", "del_rule", "dump"}
BY DEF RunnerInv, TypeOK, Labels, Locals, Ownership, Freeing, Stopping, Call, Op, Func

\* The holder of the mutex of g_runner is the one thread that waits for an answer.
LEMMA OneReceiver ==
    ASSUME RunnerInv, NEW t \in Threads, pc[t] = "recv", NEW u \in Threads, u # t
    PROVE  pc[u] # "recv"
BY ControlRunner DEF RunnerInv, Channel

\* No runner is started, ended or freed by a step that keeps the loop running and
\* its control socket watched, and that no other step of a free_forward depends on.
LEMMA LifetimeFrame ==
    ASSUME RunnerInv, UNCHANGED g_runner,
           \A u \in Threads :
             /\ Starting(u)' <=> Starting(u)
             /\ Starting(u) => call'[u].runner = call[u].runner
             /\ Stopping(u)' <=> Stopping(u)
             /\ Stopping(u) => (pc'[u] = "free_unlock" <=> pc[u] = "free_unlock")
             /\ Stopping(u) /\ Pending(u)' => Pending(u),
           \A m \in Runners :
             /\ runners'[m].live <=> runners[m].live
             /\ runners'[m].loop = runners[m].loop
                \/ {runners[m].loop, runners'[m].loop} \subseteq {"running", "replying"},
           g_runner # None /\ (\A u \in Threads : Stopping(u) => Pending(u)') =>
             ("control" \in runners[g_runner].events => "control" \in runners'[g_runner].events)
    PROVE  Lifetime'
<1>1. \A m \in Runners :
        /\ runners'[m].live => m = g_runner \/ \E t \in Threads : Starting(t) /\ call'[t].runner = m
        /\ ~runners'[m].live => runners'[m].loop \in {"none", "ended"}
  BY DEF RunnerInv, Lifetime
<1>2. \A t \in Threads : Stopping(t) => (runners'[g_runner].live <=> pc'[t] # "free_unlock")
  BY DEF RunnerInv, TypeOK, Lifetime, Locals
<1>3. g_runner # None /\ (\A t \in Threads : Stopping(t) => Pending(t)') =>
        /\ runners'[g_runner].live
        /\ runners'[g_runner].loop \in {"running", "replying"}
        /\ "control" \in runners'[g_runner].events
  BY DEF RunnerInv, TypeOK, Lifetime
<1> QED
  BY <1>1, <1>2, <1>3 DEF Lifetime

-----------------------------------------------------------------------------
(* create_forward *)

\* A call begins, and no other of a kind in Serial is under way.
LEMMA CreateForwardStep ==
    ASSUME OneAtATime, RunnerInv, NEW t \in Threads, CreateForward(t)
    PROVE  RunnerInv'
<1>1. TypeOK'
  BY MaxCallsAssumption DEF RunnerInv, TypeOK, CreateForward, MayCall, Begin, Goto, globVars,
     objVars, appVars, Call, Func, Op, Label
<1>2. Labels'
  BY DEF RunnerInv, TypeOK, Labels, CreateForward, Begin, Goto
<1>3. OneSerial'
  BY DEF RunnerInv, OneSerial, CreateForward, MayCall, Begin
<1>4. /\ Channel'
      /\ \A u \in Threads : u # t => (Pending(u)' <=> Pending(u))
  BY QuietFrame DEF RunnerInv, CreateForward, MayCall, Begin, Goto
<1>5. call[t].op \in {"create", "free", "dump"} => \A u \in Threads : u # t =>
        /\ call[u].op \in {"none", "add_rule", "del_rule"}
        /\ pc[u] \in {"idle", "control", "recv"}
        /\ ~Starting(u) /\ ~InTree(u) /\ ~Freeing(u) /\ ~Stopping(u)
  BY OthersQuiet DEF RunnerInv
<1>6. Locals'
  BY DEF RunnerInv, Locals, CreateForward, MayCall, Begin, Goto, globVars, objVars, appVars,
     Freeing, Stopping
<1>7. Fresh'
  BY <1>5, UsageAssumption DEF RunnerInv, TypeOK, Labels, OneSerial, Locals, Fresh,
     CreateForward, MayCall, Begin, Goto, globVars, objVars, appVars, Call, Op, Starting,
     OneAtATime
<1>8. Lifetime'
  BY DEF RunnerInv, Lifetime, CreateForward, MayCall, Begin, Goto, globVars, Starting,
     Stopping, OneAtATime
<1>9. Ownership'
  BY DEF RunnerInv, Ownership, CreateForward, MayCall, Begin, Goto, globVars, objVars,
     appVars, InTree, Freeing, Stopping, Pending
<1>10. RuleOwners'
  BY <1>4 DEF RunnerInv, TypeOK, RuleOwners, CreateForward, Begin, globVars, objVars, appVars,
     HasRule
<1> QED
  BY <1>1, <1>2, <1>3, <1>4, <1>6, <1>7, <1>8, <1>9, <1>10 DEF RunnerInv

LEMMA InitMutexStep ==
    ASSUME OneAtATime, RunnerInv, NEW t \in Threads, InitMutex(t)
    PROVE  RunnerInv'
<1>1. TypeOK'
  BY DEF RunnerInv, TypeOK, InitMutex, Goto, objVars, appVars, Label
<1>2. Labels'
  BY DEF RunnerInv, Labels, InitMutex, Goto
<1>3. OneSerial'
  BY DEF RunnerInv, OneSerial, InitMutex
<1>4. /\ Channel'
      /\ \A u \in Threads : u # t => (Pending(u)' <=> Pending(u))
  BY QuietFrame DEF RunnerInv, InitMutex, Goto
<1>5. call[t].op \in {"create", "free", "dump"} => \A u \in Threads : u # t =>
        /\ call[u].op \in {"none", "add_rule", "del_rule"}
        /\ pc[u] \in {"idle", "control", "recv"}
        /\ ~Starting(u) /\ ~InTree(u) /\ ~Freeing(u) /\ ~Stopping(u)
  BY OthersQuiet DEF RunnerInv
<1>6. Locals'
  BY DEF RunnerInv, Locals, InitMutex, Goto, objVars, appVars, Freeing, Stopping
<1>7. Fresh'
  BY DEF RunnerInv, Fresh, InitMutex, Goto, Starting
<1>8. Lifetime'
  BY NoneAssumption, UsageAssumption DEF RunnerInv, TypeOK, Labels, OneSerial, Fresh,
     Lifetime, InitMutex, objVars, Call, Op, Starting, Stopping, OneAtATime
<1>9. Ownership'
  BY <1>4, <1>5, NoneAssumption, UsageAssumption DEF RunnerInv, TypeOK, Labels, OneSerial,
     Locals, Fresh, Ownership, InitMutex, Goto, globVars, objVars, appVars, Call, Op, InTree,
     Starting, Freeing, Stopping, Pending, OneAtATime
<1>10. RuleOwners'
  BY DEF RunnerInv, RuleOwners, InitMutex, Goto, objVars, appVars, HasRule, Pending, Rule,
     Starting
<1> QED
  BY <1>1, <1>2, <1>3, <1>4, <1>6, <1>7, <1>8, <1>9, <1>10 DEF RunnerInv

\* The thread learns whether it has to start a runner.
LEMMA CreateLockStep ==
    ASSUME OneAtATime, RunnerInv, NEW t \in Threads, CreateLock(t)
    PROVE  RunnerInv'
<1>1. TypeOK'
  BY DEF RunnerInv, TypeOK, CreateLock, Goto, objVars, appVars, Label
<1>2. Labels'
  BY DEF RunnerInv, Labels, CreateLock, Goto
<1>3. OneSerial'
  BY DEF RunnerInv, OneSerial, CreateLock
<1>4. /\ Channel'
      /\ \A u \in Threads : u # t => (Pending(u)' <=> Pending(u))
  BY QuietFrame DEF RunnerInv, CreateLock, Goto
<1>5. call[t].op \in {"create", "free", "dump"} => \A u \in Threads : u # t =>
        /\ call[u].op \in {"none", "add_rule", "del_rule"}
        /\ pc[u] \in {"idle", "control", "recv"}
        /\ ~Starting(u) /\ ~InTree(u) /\ ~Freeing(u) /\ ~Stopping(u)
  BY OthersQuiet DEF RunnerInv
<1>6. Locals'
  BY DEF RunnerInv, Locals, CreateLock, Goto, objVars, appVars, Freeing, Stopping
<1>7. Fresh'
  BY DEF RunnerInv, Fresh, CreateLock, Goto, Starting
<1>8. Lifetime'
  BY UsageAssumption DEF RunnerInv, TypeOK, Labels, OneSerial, Locals, Fresh, Lifetime,
     CreateLock, Goto, appVars, Call, Op, Starting, Stopping, OneAtATime
<1>9. Ownership'
  BY DEF RunnerInv, Ownership, CreateLock, Goto, objVars, appVars, InTree, Starting, Freeing,
     Stopping, Pending, OneAtATime
<1>10. RuleOwners'
  BY DEF RunnerInv, RuleOwners, CreateLock, Goto, objVars, appVars, HasRule, Pending
<1> QED
  BY <1>1, <1>2, <1>3, <1>4, <1>6, <1>7, <1>8, <1>9, <1>10 DEF RunnerInv

\* Without a runner the application has no context, so no other thread is in a call,
\* and no other runner is live.
LEMMA RunnerNewStep ==
    ASSUME OneAtATime, RunnerInv, NEW t \in Threads, RunnerNew(t)
    PROVE  RunnerInv'
<1>0. PICK n \in Runners :
        /\ ~runners[n].live
        /\ runners' = [runners EXCEPT ![n] =
                [live |-> TRUE, mutex |-> t, loop |-> "created", contexts |-> {},
                 events |-> {"control"}, request |-> None, reply |-> FALSE]]
        /\ call' = [call EXCEPT ![t].runner = n]
  BY DEF RunnerNew, NewRunner
<1>a. /\ pc[t] = "runner_new" /\ pc' = [pc EXCEPT ![t] = "cond_wait"]
      /\ call[t].op = "create" /\ g_runner = None /\ owned = {}
      /\ UNCHANGED <<calls, g_mutex, mutex_init, g_runner, home, rule, rules, owned, held>>
  BY DEF RunnerInv, TypeOK, Labels, Locals, Ownership, RunnerNew, Goto, globVars, objVars,
     appVars, Call, Op
<1>b. \A u \in Threads : u # t => pc[u] = "idle" /\ call[u].op = "none"
  BY <1>a, OthersQuiet DEF RunnerInv, Labels, Locals
<1>c. \A m \in Runners : ~runners[m].live
  BY <1>a, <1>b, NoneAssumption DEF RunnerInv, Lifetime, Starting
<1>d. pc' \in [Threads -> Label] /\ call' \in [Threads -> Call]
  <2>1. call[t] \in Call
    BY DEF RunnerInv, TypeOK
  <2>2. [call[t] EXCEPT !.runner = n] \in Call
    BY <1>0, <2>1 DEF Call
  <2> QED
    BY <1>0, <1>a, <2>2 DEF RunnerInv, TypeOK, Label
<1>e. /\ \A u \in Threads : u # t => pc'[u] = pc[u] /\ call'[u] = call[u]
      /\ pc'[t] = "cond_wait" /\ call'[t].op = "create" /\ call'[t].runner = n
      /\ call'[t].func = call[t].func
  BY <1>0, <1>a DEF RunnerInv, TypeOK, Call
<1>1. TypeOK'
  <2>1. [live |-> TRUE, mutex |-> t, loop |-> "created", contexts |-> {},
         events |-> {"control"}, request |-> None, reply |-> FALSE] \in RunnerObject
    BY DEF RunnerObject, Event
  <2>2. runners' \in [Runners -> RunnerObject]
    BY <1>0, <2>1 DEF RunnerInv, TypeOK
  <2> QED
    BY <1>a, <1>d, <2>2 DEF RunnerInv, TypeOK
<1>2. Labels'
  BY <1>a, <1>b, <1>e DEF RunnerInv, Labels
<1>3. OneSerial'
  BY <1>a, <1>b, <1>e DEF RunnerInv, OneSerial
<1>4. Locals'
  BY <1>a, <1>b, <1>e DEF Locals, Freeing, Stopping
<1>5. Fresh'
  BY <1>0, <1>a, <1>b, <1>e DEF RunnerInv, TypeOK, Fresh, Starting
<1>6. Lifetime'
  BY <1>0, <1>a, <1>b, <1>c, <1>e DEF RunnerInv, TypeOK, Lifetime, Starting, Stopping
<1>7. Channel'
  <2>1. ASSUME NEW m \in Runners PROVE Socket(m)'
    <3>1. CASE m = n
      BY <3>1, <1>0, <1>e DEF RunnerInv, TypeOK, Socket
    <3>2. CASE m # n
      <4>1. runners[m].mutex # None => FALSE
        BY <1>a, <1>b, MutexHolder DEF RunnerInv
      <4> QED
        BY <3>2, <4>1, <1>0, SocketFrame DEF RunnerInv, TypeOK
    <3> QED
      BY <3>1, <3>2
  <2> QED
    BY <2>1, <1>0, <1>b, <1>e DEF RunnerInv, TypeOK, Channel
<1>8. Ownership'
  BY <1>a, <1>b, <1>e DEF RunnerInv, Ownership, Stopping
<1>9. RuleOwners'
  BY <1>a, <1>b, <1>e DEF RunnerInv, RuleOwners, HasRule
<1> QED
  BY <1>1, <1>2, <1>3, <1>4, <1>5, <1>6, <1>7, <1>8, <1>9 DEF RunnerInv

\* The new thread can take the mutex now.
LEMMA CondWaitStep ==
    ASSUME OneAtATime, RunnerInv, NEW t \in Threads, CondWait(t)
    PROVE  RunnerInv'
<1> DEFINE n == call[t].runner
<1>a. /\ pc[t] = "cond_wait" /\ pc' = [pc EXCEPT ![t] = "waiting"]
      /\ runners' = [runners EXCEPT ![n].mutex = None]
      /\ call[t].op = "create" /\ n \in Runners /\ g_runner = None /\ owned = {}
      /\ UNCHANGED <<call, calls, g_mutex, mutex_init, g_runner, home, rule, rules, owned, held>>
  BY DEF RunnerInv, TypeOK, Labels, Fresh, Starting, Ownership, CondWait, Goto, globVars,
     objVars, appVars, Call, Op
<1>b. \A u \in Threads : u # t => pc[u] = "idle" /\ call[u].op = "none"
  BY <1>a, OthersQuiet DEF RunnerInv, Labels, Locals
<1>e. /\ \A u \in Threads : u # t => pc'[u] = pc[u]
      /\ pc'[t] = "waiting" /\ pc' \in [Threads -> Label]
  BY <1>a DEF RunnerInv, TypeOK, Label
<1>f. /\ \A m \in Runners : m # n => runners'[m] = runners[m]
      /\ runners'[n] = [runners[n] EXCEPT !.mutex = None]
      /\ runners'[n].mutex = None
      /\ runners'[n].live = runners[n].live /\ runners'[n].loop = runners[n].loop
      /\ runners'[n].contexts = runners[n].contexts /\ runners'[n].events = runners[n].events
      /\ runners'[n].request = runners[n].request /\ runners'[n].reply = runners[n].reply
  BY <1>a DEF RunnerInv, TypeOK, RunnerObject
<1>1. TypeOK'
  <2>1. runners'[n] \in RunnerObject
    BY <1>a, <1>f DEF RunnerInv, TypeOK, RunnerObject
  <2>2. runners' \in [Runners -> RunnerObject]
    BY <1>a, <2>1, <1>f DEF RunnerInv, TypeOK
  <2> QED
    BY <1>a, <1>e, <2>2 DEF RunnerInv, TypeOK
<1>2. Labels'
  BY <1>a, <1>b, <1>e DEF RunnerInv, Labels
<1>3. OneSerial'
  BY <1>a DEF RunnerInv, OneSerial
<1>4. Locals'
  BY <1>a, <1>b, <1>e DEF RunnerInv, Locals, Freeing, Stopping
<1>5. Fresh'
  BY <1>a, <1>b, <1>e, <1>f DEF RunnerInv, Fresh, Starting
<1>6. Lifetime'
  BY <1>a, <1>b, <1>e, <1>f DEF RunnerInv, Lifetime, Starting, Stopping
<1>7. Channel'
  <2>1. ASSUME NEW m \in Runners PROVE Socket(m)'
    <3>1. CASE m = n
      <4>1. Socket(n) /\ runners[n].mutex = t
        BY <1>a DEF RunnerInv, Channel
      <4>2. runners[n].request = None /\ runners[n].loop # "replying" /\ runners[n].reply # TRUE
        BY <4>1, <1>a DEF Socket
      <4> QED
        BY <3>1, <4>2, <1>f DEF Socket
    <3>2. CASE m # n
      BY <3>2, <1>a, <1>e, <1>f, MutexHolder, SocketFrame DEF RunnerInv
    <3> QED
      BY <3>1, <3>2
  <2> QED
    BY <2>1, <1>b, <1>e DEF RunnerInv, TypeOK, Channel
<1>8. Ownership'
  BY <1>a, <1>b, <1>e DEF RunnerInv, Ownership, Stopping
<1>9. RuleOwners'
  BY <1>a, <1>b, <1>e DEF RunnerInv, RuleOwners, HasRule
<1> QED
  BY <1>1, <1>2, <1>3, <1>4, <1>5, <1>6, <1>7, <1>8, <1>9 DEF RunnerInv

\* The runner has its thread in the loop, and becomes g_runner.
LEMMA CondReturnStep ==
    ASSUME OneAtATime, RunnerInv, NEW t \in Threads, CondReturn(t)
    PROVE  RunnerInv'
<1>1. TypeOK'
  BY DEF RunnerInv, TypeOK, CondReturn, Goto, objVars, appVars, Call, Label
<1>2. Labels'
  BY DEF RunnerInv, Labels, CondReturn, Goto
<1>3. OneSerial'
  BY DEF RunnerInv, OneSerial, CondReturn
<1>4. /\ Channel'
      /\ \A u \in Threads : u # t => (Pending(u)' <=> Pending(u))
  BY QuietFrame DEF RunnerInv, CondReturn, Goto
<1>5. call[t].op \in {"create", "free", "dump"} => \A u \in Threads : u # t =>
        /\ call[u].op \in {"none", "add_rule", "del_rule"}
        /\ pc[u] \in {"idle", "control", "recv"}
        /\ ~Starting(u) /\ ~InTree(u) /\ ~Freeing(u) /\ ~Stopping(u)
  BY OthersQuiet DEF RunnerInv
<1>6. Locals'
  BY <1>5, NoneAssumption DEF RunnerInv, TypeOK, Labels, Locals, Fresh, Ownership, CondReturn,
     Goto, Call, Op, Starting, Freeing, Stopping
<1>7. Fresh'
  BY DEF RunnerInv, TypeOK, Labels, OneSerial, Fresh, CondReturn, Goto, Call, Op, Starting,
     OneAtATime
<1>8. Lifetime'
  BY NoneAssumption DEF RunnerInv, Locals, Fresh, Lifetime, CondReturn, Goto, Starting, Stopping
<1>9. Ownership'
  BY <1>4, <1>5, NoneAssumption, UsageAssumption DEF RunnerInv, TypeOK, Labels, OneSerial,
     Locals, Fresh, Ownership, CondReturn, Goto, globVars, objVars, appVars, Call, Op, InTree,
     Starting, Freeing, Stopping, Pending, OneAtATime
<1>10. RuleOwners'
  BY DEF RunnerInv, RuleOwners, Fresh, CondReturn, Goto, objVars, appVars, HasRule, Pending,
     Starting
<1> QED
  BY <1>1, <1>2, <1>3, <1>4, <1>6, <1>7, <1>8, <1>9, <1>10 DEF RunnerInv

\* A context that no one has yet is not in a tree.
LEMMA NewContextStep ==
    ASSUME OneAtATime, RunnerInv, NEW t \in Threads, NewContext(t)
    PROVE  RunnerInv'
<1>1. TypeOK'
  <2>1. PICK c \in Contexts : /\ home' = [home EXCEPT ![c] = g_runner]
                             /\ call' = [call EXCEPT ![t] =
                                      [call[t] EXCEPT !.ctx = c, !.runner = g_runner]]
    BY DEF NewContext
  <2>2. call' \in [Threads -> Call]
    BY <2>1, CallChange DEF RunnerInv, TypeOK
  <2> QED
    BY <2>2 DEF RunnerInv, TypeOK, NewContext, Goto, globVars, appVars, Label
<1>2. Labels'
  BY DEF RunnerInv, TypeOK, Labels, NewContext, Goto
<1>3. OneSerial'
  BY DEF RunnerInv, TypeOK, OneSerial, NewContext
<1>4. /\ Channel'
      /\ \A u \in Threads : u # t => (Pending(u)' <=> Pending(u))
  BY QuietFrame DEF RunnerInv, TypeOK, NewContext, Goto
<1>5. call[t].op \in {"create", "free", "dump"} => \A u \in Threads : u # t =>
        /\ call[u].op \in {"none", "add_rule", "del_rule"}
        /\ pc[u] \in {"idle", "control", "recv"}
        /\ ~Starting(u) /\ ~InTree(u) /\ ~Freeing(u) /\ ~Stopping(u)
  BY OthersQuiet DEF RunnerInv
<1>6. Locals'
  BY DEF RunnerInv, TypeOK, Labels, Locals, Ownership, NewContext, Goto, globVars, appVars,
     Freeing, Stopping
<1>7. Fresh'
  BY <1>5, UsageAssumption DEF RunnerInv, TypeOK, Labels, OneSerial, Locals, Fresh,
     NewContext, Goto, globVars, objVars, appVars, Call, Op, Starting, OneAtATime
<1>8. Lifetime'
  <2>1. /\ \A u \in Threads : u # t => pc'[u] = pc[u] /\ call'[u] = call[u]
        /\ pc[t] = "new_context" /\ pc'[t] = "control" /\ call'[t].op = call[t].op
        /\ UNCHANGED <<g_runner, runners>>
    BY DEF RunnerInv, TypeOK, NewContext, Goto, globVars, Call
  <2>2. call[t].op # "free"
    BY <2>1 DEF RunnerInv, Labels
  <2> QED
    BY <1>4, <2>1, <2>2, LifetimeFrame DEF Starting, Stopping
<1>9. Ownership'
  <2>1. \A u \in Threads : ~InTree(u) /\ ~InTree(u)'
    BY <1>5, <1>4 DEF RunnerInv, TypeOK, Labels, NewContext, Goto, globVars, objVars, appVars,
       Call, Op, InTree, Freeing, Pending
  <2>2. g_runner # None /\ \A c \in owned : home'[c] = g_runner
    BY DEF RunnerInv, Locals, Ownership, NewContext
  <2>3. \A u \in Threads : (Stopping(u)' <=> Stopping(u)) /\ call'[u].op = call[u].op
    BY DEF RunnerInv, TypeOK, NewContext, Stopping
  <2> QED
    BY <2>1, <2>3 DEF RunnerInv, TypeOK, Ownership, NewContext, Goto, globVars, appVars
<1>10. RuleOwners'
  BY <1>4, NoneAssumption DEF RunnerInv, TypeOK, Labels, Locals, RuleOwners, Fresh,
     NewContext, Goto, globVars, objVars, appVars, Call, Op, HasRule, Pending, Rule, Starting
<1> QED
  BY <1>1, <1>2, <1>3, <1>4, <1>6, <1>7, <1>8, <1>9, <1>10 DEF RunnerInv

\* What was in the tree for the call is now the application's.
LEMMA CreateUnlockStep ==
    ASSUME OneAtATime, RunnerInv, NEW t \in Threads, CreateUnlock(t)
    PROVE  RunnerInv'
<1>0. /\ call[t].op = "create" /\ pc[t] = "create_unlock" /\ g_runner # None
      /\ call[t].ctx \in Contexts /\ home[call[t].ctx] = g_runner
      /\ owned' = owned \cup {call[t].ctx} /\ UNCHANGED <<g_runner, runners, home>>
  BY DEF RunnerInv, TypeOK, Labels, Locals, CreateUnlock, objVars, Call, Op
<1>a. /\ \A u \in Threads : u # t => pc'[u] = pc[u] /\ call'[u] = call[u]
      /\ pc'[t] = "idle" /\ call'[t].op = "none"
  BY DEF RunnerInv, TypeOK, CreateUnlock, Return, NoCall, Goto
<1>1. TypeOK'
  <2>1. pc' \in [Threads -> Label] /\ call' \in [Threads -> Call]
    BY DEF RunnerInv, TypeOK, CreateUnlock, Return, NoCall, Goto, Call, Label
  <2> QED
    BY <1>0, <2>1 DEF RunnerInv, TypeOK, CreateUnlock, objVars
<1>2. Labels'
  BY DEF RunnerInv, TypeOK, Labels, CreateUnlock, Return, NoCall, Goto
<1>3. OneSerial'
  BY UsageAssumption DEF RunnerInv, OneSerial, CreateUnlock, Return, NoCall, Op
<1>4. /\ Channel'
      /\ \A u \in Threads : u # t => (Pending(u)' <=> Pending(u))
  BY QuietFrame DEF RunnerInv, CreateUnlock, Return, Goto
<1>5. call[t].op \in {"create", "free", "dump"} => \A u \in Threads : u # t =>
        /\ call[u].op \in {"none", "add_rule", "del_rule"}
        /\ pc[u] \in {"idle", "control", "recv"}
        /\ ~Starting(u) /\ ~InTree(u) /\ ~Freeing(u) /\ ~Stopping(u)
  BY OthersQuiet DEF RunnerInv
<1>6. Locals'
  BY <1>5 DEF RunnerInv, TypeOK, Labels, Locals, CreateUnlock, Return, NoCall, Goto, Call, Op,
     Freeing, Stopping
<1>7. Fresh'
  BY DEF RunnerInv, Fresh, CreateUnlock, Return, Goto, Starting
<1>8. Lifetime'
  BY <1>0, <1>4, <1>a, LifetimeFrame DEF Starting, Stopping
<1>9. Ownership'
  <2>1. InTree(t) /\ \A u \in Threads : u # t => ~InTree(u)
    BY <1>0, <1>5 DEF InTree, Pending
  <2>2. \A u \in Threads : ~InTree(u)'
    BY <1>4, <1>a, <2>1 DEF InTree, Freeing
  <2>3. \A c \in Contexts : c \in runners[g_runner].contexts <=> c \in owned'
    BY <1>0, <2>1 DEF RunnerInv, Ownership
  <2>4. \A u \in Threads : ~Stopping(u)' /\ pc'[u] \notin {"free_lock", "delete_runner"}
    BY <1>0, <1>5, <1>a DEF Stopping
  <2> QED
    BY <1>0, <2>2, <2>3, <2>4 DEF RunnerInv, Ownership
<1>10. RuleOwners'
  BY <1>4 DEF RunnerInv, TypeOK, RuleOwners, CreateUnlock, Return, NoCall, objVars, HasRule
<1> QED
  BY <1>1, <1>2, <1>3, <1>4, <1>6, <1>7, <1>8, <1>9, <1>10 DEF RunnerInv

-----------------------------------------------------------------------------
(* The control call *)

\* The mutex was free, so the socket was empty.
LEMMA ControlSendStep ==
    ASSUME OneAtATime, RunnerInv, NEW t \in Threads, ControlSend(t)
    PROVE  RunnerInv'
<1> DEFINE n == call[t].runner
           q == [func |-> call[t].func, ctx |-> call[t].ctx, rule |-> call[t].rule]
<1>a. /\ pc[t] = "control" /\ pc' = [pc EXCEPT ![t] = "recv"]
      /\ runners[n].mutex = None
      /\ UNCHANGED <<call, calls, g_mutex, mutex_init, g_runner, home, rule, rules, owned, held>>
  BY DEF ControlSend, Goto, globVars, objVars, appVars
<1>r. runners' = [runners EXCEPT ![n] = [runners[n] EXCEPT !.mutex = t, !.request = q]]
  BY DEF ControlSend
<1>b. n \in Runners /\ q \in Request /\ q # None
  <2>1. n \in Runners /\ call[t].func \in Func
    BY <1>a, ControlRunner
  <2>2. q \in Request
    BY <2>1 DEF RunnerInv, TypeOK, Call, Request
  <2> QED
    BY <2>1, <2>2, NoneAssumption
<1> HIDE DEF q
<1>d. /\ \A u \in Threads : u # t => pc'[u] = pc[u]
      /\ pc'[t] = "recv" /\ pc' \in [Threads -> Label]
  BY <1>a DEF RunnerInv, TypeOK, Label
<1>e. /\ \A m \in Runners : m # n => runners'[m] = runners[m]
      /\ runners'[n].mutex = t /\ runners'[n].request = q
      /\ runners'[n].live = runners[n].live /\ runners'[n].loop = runners[n].loop
      /\ runners'[n].contexts = runners[n].contexts /\ runners'[n].events = runners[n].events
      /\ runners'[n].reply = runners[n].reply
  BY <1>r, <1>b DEF RunnerInv, TypeOK, RunnerObject
<1>f. \A u \in Threads : pc[u] \in {"recv", "cond_wait"} => call[u].runner # n
  BY <1>a, NoneAssumption DEF RunnerInv, Channel
<1>g. \A u \in Threads : /\ Pending(u)' <=> Pending(u)
                         /\ Stopping(u)' <=> Stopping(u)
                         /\ Starting(u)' <=> Starting(u)
                         /\ InTree(u)' <=> InTree(u)
  <2>1. \A u \in Threads : u # t => (Pending(u)' <=> Pending(u))
    BY <1>a, <1>d, <1>e, <1>f, ControlRunner DEF Pending
  <2>2. Pending(t)' /\ Pending(t)
    BY <1>a, <1>b, <1>d, <1>e DEF Pending
  <2> QED
    BY <2>1, <2>2, <1>a, <1>d DEF InTree, Freeing, Stopping, Starting
<1>1. TypeOK'
  <2>0. runners[n] \in RunnerObject
    BY <1>b DEF RunnerInv, TypeOK
  <2>1. [runners[n] EXCEPT !.mutex = t, !.request = q] \in RunnerObject
    BY <1>b, <2>0 DEF RunnerObject
  <2>2. runners' \in [Runners -> RunnerObject]
    BY <1>r, <1>b, <2>1 DEF RunnerInv, TypeOK
  <2> QED
    BY <1>a, <1>d, <2>2 DEF RunnerInv, TypeOK
<1>2. Labels'
  BY <1>a, <1>d DEF RunnerInv, Labels
<1>3. OneSerial'
  BY <1>a DEF RunnerInv, OneSerial
<1>4. Locals'
  BY <1>a, <1>d DEF RunnerInv, Locals, Freeing, Stopping
<1>5. Fresh'
  BY <1>a, <1>d, <1>e, <1>g DEF RunnerInv, Fresh, Starting
<1>6. Lifetime'
  <2>1. \A m \in Runners : /\ runners'[m].live <=> runners[m].live
                           /\ runners'[m].events = runners[m].events
                           /\ runners'[m].loop = runners[m].loop
    BY <1>e
  <2>2. \A u \in Threads : pc'[u] = "free_unlock" <=> pc[u] = "free_unlock"
    BY <1>a, <1>d
  <2> QED
    BY <2>1, <2>2, <1>a, <1>g, LifetimeFrame DEF RunnerInv, TypeOK
<1>7. Channel'
  <2>1. ASSUME NEW m \in Runners PROVE Socket(m)'
    <3>1. CASE m = n
      <4>1. Socket(n)
        BY <1>b DEF RunnerInv, Channel
      <4>2. runners[n].loop # "replying" /\ runners[n].reply # TRUE
        BY <4>1, <1>a DEF Socket
      <4>3. runners[n].reply = FALSE
        BY <4>2, <1>b, RunnerFields DEF RunnerInv
      <4> QED
        BY <3>1, <4>2, <4>3, <1>a, <1>d, <1>e, NoneAssumption DEF Socket, q
    <3>2. CASE m # n
      BY <3>2, <1>a, <1>d, <1>e, MutexHolder, SocketFrame DEF RunnerInv
    <3> QED
      BY <3>1, <3>2
  <2>2. \A u \in Threads : pc[u] \in {"recv", "cond_wait"} => call[u].runner \in Runners
    BY ControlRunner DEF RunnerInv, Fresh, Starting
  <2> QED
    BY <2>1, <2>2, <1>a, <1>d, <1>e, <1>f DEF RunnerInv, Channel
<1>8. Ownership'
  BY <1>a, <1>b, <1>d, <1>e, <1>g DEF RunnerInv, TypeOK, Ownership
<1>9. RuleOwners'
  <2>1. \A u \in Threads, r \in Rules : HasRule(u, r)' <=> HasRule(u, r)
    BY <1>a, <1>g DEF HasRule
  <2> QED
    BY <2>1, <1>a, <1>b, <1>e DEF RunnerInv, TypeOK, RuleOwners
<1> QED
  BY <1>1, <1>2, <1>3, <1>4, <1>5, <1>6, <1>7, <1>8, <1>9 DEF RunnerInv

\* The answer is for the thread that holds the mutex, and its function has run.
LEMMA ControlRecvStep ==
    ASSUME OneAtATime, RunnerInv, NEW t \in Threads, ControlRecv(t)
    PROVE  RunnerInv'
<1> DEFINE n == call[t].runner
<1>a. /\ pc[t] = "recv"
      /\ UNCHANGED <<calls, g_mutex, mutex_init, g_runner, home, rule, rules, owned>>
  BY DEF ControlRecv, globVars, objVars
<1>r. runners' = [runners EXCEPT ![n] = [runners[n] EXCEPT !.reply = FALSE, !.mutex = None]]
  BY DEF ControlRecv
<1>b. /\ n \in Runners /\ n = g_runner /\ g_runner # None /\ runners[n].mutex = t
      /\ runners[n].request = None /\ runners[n].loop # "replying"
  <2>1. n \in Runners /\ n = g_runner /\ g_runner # None
    BY <1>a, ControlRunner, NoneAssumption
  <2>2. Socket(n) /\ runners[n].mutex = t
    BY <1>a, <2>1 DEF RunnerInv, Channel
  <2>3. runners[n].reply = TRUE
    BY <2>1, RunnerFields DEF RunnerInv, ControlRecv
  <2> QED
    BY <2>1, <2>2, <2>3 DEF Socket
<1>c. \/ /\ call[t].op = "create" /\ UNCHANGED <<call, held>>
         /\ pc' = [pc EXCEPT ![t] = "create_unlock"]
      \/ /\ Freeing(t) /\ UNCHANGED <<call, held>>
         /\ pc' = [pc EXCEPT ![t] = "free_check"]
      \/ /\ Stopping(t) /\ UNCHANGED <<call, held>>
         /\ pc' = [pc EXCEPT ![t] = "join"]
      \/ /\ call[t].op \in {"add_rule", "del_rule", "dump"}
         /\ pc' = [pc EXCEPT ![t] = "idle"] /\ call' = [call EXCEPT ![t] = NoCall]
         /\ held' = IF call[t].op = "add_rule" THEN held \cup {call[t].rule} ELSE held
  <2>1. CASE call[t].op = "create"
    BY <2>1, <1>a DEF RunnerInv, Labels, ControlRecv, AfterControl, Goto
  <2>2. CASE call[t].op = "free"
    BY <2>2, <1>a DEF RunnerInv, Labels, ControlRecv, AfterControl, Goto, Freeing, Stopping
  <2>3. CASE call[t].op \in {"add_rule", "del_rule", "dump"}
    BY <2>3, <1>a DEF RunnerInv, Labels, ControlRecv, AfterControl, Return, Goto
  <2> QED
    BY <2>1, <2>2, <2>3, <1>a, ControlRunner
<1>d. /\ pc' \in [Threads -> Label] /\ call' \in [Threads -> Call] /\ held' \subseteq Rules
      /\ \A u \in Threads : u # t => pc'[u] = pc[u] /\ call'[u] = call[u]
      /\ pc'[t] \in {"create_unlock", "free_check", "join", "idle"}
      /\ call'[t] = call[t] \/ call'[t] = NoCall
  <2>1. NoCall \in Call
    BY DEF NoCall, Call
  <2>2. call[t].op = "add_rule" => call[t].rule \in Rules
    BY DEF RunnerInv, Locals
  <2> QED
    BY <1>c, <2>1, <2>2 DEF RunnerInv, TypeOK, Label
<1>e. /\ \A m \in Runners : m # n => runners'[m] = runners[m]
      /\ runners'[n].mutex = None
      /\ runners'[n].live = runners[n].live /\ runners'[n].loop = runners[n].loop
      /\ runners'[n].contexts = runners[n].contexts /\ runners'[n].events = runners[n].events
      /\ runners'[n].request = runners[n].request
  BY <1>r, <1>b DEF RunnerInv, TypeOK, RunnerObject
<1>f. runners'[n].reply = FALSE
  BY <1>r, <1>b DEF RunnerInv, TypeOK, RunnerObject
<1>g. /\ \A u \in Threads : u # t => (Pending(u)' <=> Pending(u))
      /\ ~Pending(t) /\ ~Pending(t)'
  <2>1. \A u \in Threads : u # t => pc[u] # "recv"
    BY <1>a, OneReceiver
  <2>2. \A u \in Threads : u # t => (Pending(u)' <=> Pending(u))
    BY <2>1, <1>d DEF Pending
  <2>3. ~Pending(t) /\ ~Pending(t)'
    BY <1>a, <1>b, <1>d DEF Pending
  <2> QED
    BY <2>2, <2>3
<1>h. NoCall.op = "none" /\ NoCall.rule = None
  BY DEF NoCall
<1>i. \A u \in Threads : /\ Stopping(u)' <=> Stopping(u)
                         /\ Starting(u)' <=> Starting(u)
                         /\ InTree(u)' <=> InTree(u)
                         /\ InTree(u) \/ call'[u].op \in {"create", "free"} => call'[u] = call[u]
  <2>1. Stopping(t)' <=> Stopping(t)
    BY <1>c, <1>d, <1>h DEF Stopping, Freeing, RunnerInv, TypeOK
  <2>2. ~Starting(t)' /\ ~Starting(t)
    BY <1>a, <1>d DEF Starting
  <2>3. /\ InTree(t)' <=> InTree(t)
        /\ InTree(t) \/ call'[t].op \in {"create", "free"} => call'[t] = call[t]
    BY <1>a, <1>c, <1>d, <1>g, <1>h DEF InTree, Freeing, Stopping, RunnerInv, TypeOK
  <2>4. \A u \in Threads : u # t => /\ Stopping(u)' <=> Stopping(u)
                                    /\ Starting(u)' <=> Starting(u)
                                    /\ InTree(u)' <=> InTree(u)
    BY <1>d, <1>g DEF Stopping, Starting, InTree, Freeing
  <2> QED
    BY <2>1, <2>2, <2>3, <2>4, <1>d
<1>1. TypeOK'
  <2>0. runners[n] \in RunnerObject
    BY <1>b DEF RunnerInv, TypeOK
  <2>1. [runners[n] EXCEPT !.reply = FALSE, !.mutex = None] \in RunnerObject
    BY <2>0 DEF RunnerObject
  <2>2. runners' \in [Runners -> RunnerObject]
    BY <1>r, <1>b, <2>1 DEF RunnerInv, TypeOK
  <2> QED
    BY <1>a, <1>d, <2>2 DEF RunnerInv, TypeOK
<1>2. Labels'
  BY <1>a, <1>c, <1>d, <1>h DEF RunnerInv, TypeOK, Labels, Freeing, Stopping
<1>3. OneSerial'
  <2>1. "none" \notin Serial
    BY UsageAssumption DEF Op
  <2> QED
    BY <2>1, <1>d, <1>h DEF RunnerInv, OneSerial
<1>4. Locals'
  <2>1. \A u \in Threads : u # t => (Freeing(u)' <=> Freeing(u)) /\ (Stopping(u)' <=> Stopping(u))
    BY <1>d DEF Freeing, Stopping
  <2>2. CASE call'[t] = call[t]
    <3>1. (Freeing(t)' <=> Freeing(t)) /\ (Stopping(t)' <=> Stopping(t))
      BY <2>2 DEF Freeing, Stopping
    <3> QED
      BY <2>1, <2>2, <3>1, <1>a, <1>d DEF RunnerInv, Locals
  <2>3. CASE call'[t] = NoCall
    <3>1. ~Freeing(t)' /\ ~Stopping(t)'
      BY <2>3, <1>h DEF Freeing, Stopping
    <3> QED
      BY <2>1, <2>3, <3>1, <1>a, <1>d, <1>h DEF RunnerInv, Locals
  <2> QED
    BY <2>2, <2>3, <1>d
<1>5. Fresh'
  <2>1. \A u \in Threads : Starting(u) => u # t
    BY <1>a DEF Starting
  <2> QED
    BY <2>1, <1>a, <1>d, <1>e, <1>i DEF RunnerInv, Fresh
<1>6. Lifetime'
  <2>1. \A m \in Runners : /\ runners'[m].live <=> runners[m].live
                           /\ runners'[m].events = runners[m].events
                           /\ runners'[m].loop = runners[m].loop
    BY <1>e
  <2>2. \A u \in Threads : pc'[u] = "free_unlock" <=> pc[u] = "free_unlock"
    BY <1>a, <1>d
  <2>3. \A u \in Threads : Starting(u) => call'[u].runner = call[u].runner
    BY <1>a, <1>d DEF Starting
  <2> QED
    BY <2>1, <2>2, <2>3, <1>a, <1>g, <1>i, LifetimeFrame DEF RunnerInv, TypeOK
<1>7. Channel'
  <2>1. ASSUME NEW m \in Runners PROVE Socket(m)'
    <3>1. CASE m = n
      BY <3>1, <1>b, <1>e, <1>f DEF Socket
    <3>2. CASE m # n
      BY <3>2, <1>d, <1>e, MutexHolder, SocketFrame DEF RunnerInv
    <3> QED
      BY <3>1, <3>2
  <2>2. \A u \in Threads : pc[u] \in {"recv", "cond_wait"} => call[u].runner \in Runners
    BY ControlRunner DEF RunnerInv, Fresh, Starting
  <2>3. \A u \in Threads : pc'[u] \in {"recv", "cond_wait"} =>
          u # t /\ pc[u] \in {"recv", "cond_wait"} /\ call'[u] = call[u]
    BY <1>d
  <2>4. \A u \in Threads : u # t /\ pc[u] \in {"recv", "cond_wait"} => call[u].runner # n
    BY <1>b DEF RunnerInv, Channel
  <2> QED
    BY <2>1, <2>2, <2>3, <2>4, <1>e DEF RunnerInv, Channel
<1>8. Ownership'
  <2>1. \A c \in Contexts : (\E u \in Threads : InTree(u)' /\ call'[u].ctx = c)
                               <=> (\E u \in Threads : InTree(u) /\ call[u].ctx = c)
    BY <1>i
  <2>2. runners'[g_runner].contexts = runners[g_runner].contexts
    BY <1>b, <1>e
  <2>3. owned = {} => \E u \in Threads : call'[u].op \in {"create", "free"}
    BY <1>b, <1>c, <1>d DEF RunnerInv, TypeOK, Ownership, Locals, Freeing, Stopping
  <2>4. \A u \in Threads : pc'[u] \in {"free_lock", "delete_runner"} \/ Stopping(u)' =>
          pc[u] \in {"free_lock", "delete_runner"} \/ Stopping(u)
    BY <1>d, <1>i
  <2> QED
    BY <2>1, <2>2, <2>3, <2>4, <1>a DEF RunnerInv, Ownership
<1>9. RuleOwners'
  <2>1. \A u \in Threads, r \in Rules : HasRule(u, r)' => HasRule(u, r) /\ u # t /\ call'[u] = call[u]
    BY <1>a, <1>c, <1>d, <1>g, <1>h DEF HasRule, RunnerInv, TypeOK, Freeing, Stopping
  <2>2. \A r \in held' : r \in held \/ HasRule(t, r)
    BY <1>c DEF HasRule
  <2>3. \A r \in Rules : HasRule(t, r) => call[t].ctx \in owned
    BY DEF RunnerInv, Locals, HasRule
  <2>4. \A r \in held' : rule[r] # None /\ rule[r].ctx \in owned
    BY <2>2, <2>3, <1>d DEF RunnerInv, RuleOwners
  <2>5. runners'[g_runner].contexts = runners[g_runner].contexts
    BY <1>b, <1>e
  <2>6. \A u \in Threads, r \in Rules : HasRule(u, r)' => r \notin held'
    BY <2>1, <2>2 DEF RunnerInv, RuleOwners
  <2> QED
    BY <2>1, <2>4, <2>5, <2>6, <1>a DEF RunnerInv, RuleOwners
<1> QED
  BY <1>1, <1>2, <1>3, <1>4, <1>5, <1>6, <1>7, <1>8, <1>9 DEF RunnerInv

-----------------------------------------------------------------------------
(* free_forward *)

\* A context leaves the application but stays in the tree.
LEMMA FreeForwardStep ==
    ASSUME OneAtATime, RunnerInv, NEW t \in Threads, NEW c \in Contexts, FreeForward(t, c)
    PROVE  RunnerInv'
<1>1. TypeOK'
  BY MaxCallsAssumption DEF RunnerInv, TypeOK, FreeForward, MayCall, Begin, Goto, globVars,
     objVars, Call, Func, Op, Label
<1>2. Labels'
  BY DEF RunnerInv, TypeOK, Labels, FreeForward, Begin, Goto
<1>3. OneSerial'
  BY DEF RunnerInv, OneSerial, FreeForward, MayCall, Begin
<1>4. /\ Channel'
      /\ \A u \in Threads : u # t => (Pending(u)' <=> Pending(u))
  BY QuietFrame DEF RunnerInv, FreeForward, MayCall, Begin, Goto
<1>5. call[t].op \in {"create", "free", "dump"} => \A u \in Threads : u # t =>
        /\ call[u].op \in {"none", "add_rule", "del_rule"}
        /\ pc[u] \in {"idle", "control", "recv"}
        /\ ~Starting(u) /\ ~InTree(u) /\ ~Freeing(u) /\ ~Stopping(u)
  BY OthersQuiet DEF RunnerInv
<1>6. Locals'
  BY DEF RunnerInv, Locals, Ownership, FreeForward, MayCall, Begin, Goto, globVars, Freeing,
     Stopping, OneAtATime
<1>7. Fresh'
  BY DEF RunnerInv, TypeOK, Fresh, FreeForward, Begin, Goto, globVars, Starting
<1>8. Lifetime'
  BY DEF RunnerInv, Lifetime, FreeForward, MayCall, Begin, Goto, globVars, Starting, Stopping,
     OneAtATime
<1>9. Ownership'
  BY <1>4, <1>5, NoneAssumption, UsageAssumption DEF RunnerInv, TypeOK, Labels, OneSerial,
     Locals, Fresh, Ownership, FreeForward, MayCall, Begin, Goto, globVars, objVars, appVars,
     Call, Op, InTree, Starting, Freeing, Stopping, Pending, OneAtATime
<1>10. RuleOwners'
  BY <1>4, NoneAssumption DEF RunnerInv, TypeOK, Labels, Locals, RuleOwners, Fresh,
     FreeForward, MayCall, Begin, Goto, globVars, objVars, appVars, Call, Op, HasRule,
     Pending, Rule, Starting
<1> QED
  BY <1>1, <1>2, <1>3, <1>4, <1>6, <1>7, <1>8, <1>9, <1>10 DEF RunnerInv

\* No context in the tree means none with the application, and as no other create or
\* free is under way this remains so.
LEMMA FreeCheckStep ==
    ASSUME OneAtATime, RunnerInv, NEW t \in Threads, FreeCheck(t)
    PROVE  RunnerInv'
<1>1. TypeOK'
  <2>1. pc' \in [Threads -> Label]
    BY DEF RunnerInv, TypeOK, FreeCheck, Goto, Return, Label
  <2>2. call' \in [Threads -> Call]
    BY DEF RunnerInv, TypeOK, FreeCheck, Return, NoCall, Call
  <2> QED
    BY <2>1, <2>2 DEF RunnerInv, TypeOK, FreeCheck, globVars, objVars, appVars
<1>2. Labels'
  BY DEF RunnerInv, TypeOK, Labels, FreeCheck, Return, NoCall, Goto
<1>3. OneSerial'
  BY UsageAssumption DEF RunnerInv, TypeOK, OneSerial, FreeCheck, Return, NoCall, Op
<1>4. /\ Channel'
      /\ \A u \in Threads : u # t => (Pending(u)' <=> Pending(u))
  BY QuietFrame DEF RunnerInv, TypeOK, FreeCheck, Return, Goto
<1>5. call[t].op \in {"create", "free", "dump"} => \A u \in Threads : u # t =>
        /\ call[u].op \in {"none", "add_rule", "del_rule"}
        /\ pc[u] \in {"idle", "control", "recv"}
        /\ ~Starting(u) /\ ~InTree(u) /\ ~Freeing(u) /\ ~Stopping(u)
  BY OthersQuiet DEF RunnerInv
<1>6. Locals'
  BY DEF RunnerInv, TypeOK, Locals, FreeCheck, Return, NoCall, Goto, globVars, objVars,
     appVars, Freeing, Stopping
<1>7. Fresh'
  BY DEF RunnerInv, TypeOK, Fresh, FreeCheck, Return, Goto, globVars, Starting
<1>8. Lifetime'
  <2>1. /\ \A u \in Threads : u # t => pc'[u] = pc[u] /\ call'[u] = call[u]
        /\ call'[t] = call[t] \/ call'[t].op = "none"
        /\ pc[t] = "free_check" /\ pc'[t] \in {"free_lock", "idle"}
        /\ UNCHANGED <<g_runner, runners>>
    BY DEF RunnerInv, TypeOK, FreeCheck, Return, NoCall, Goto, globVars
  <2>2. ~Stopping(t)
    BY <2>1 DEF RunnerInv, Labels, Stopping
  <2> QED
    BY <1>4, <2>1, <2>2, LifetimeFrame DEF Starting, Stopping
<1>9. Ownership'
  <2>1. Freeing(t) /\ g_runner # None /\ ~InTree(t)
    BY DEF RunnerInv, TypeOK, Labels, Locals, FreeCheck, Call, Op, Freeing, InTree, Pending
  <2>2. CASE runners[g_runner].contexts = {}
    <3>1. UNCHANGED call /\ \A u \in Threads : InTree(u)' <=> InTree(u)
      BY <2>1, <2>2 DEF RunnerInv, TypeOK, FreeCheck, Goto, InTree, Freeing, Pending
    <3>2. owned = {}
      BY <2>1, <2>2 DEF RunnerInv, TypeOK, Ownership
    <3> QED
      BY <3>1, <3>2 DEF RunnerInv, Ownership, FreeCheck, globVars, appVars
  <2>3. CASE runners[g_runner].contexts # {}
    <3>1. \A u \in Threads : ~InTree(u)
      BY <1>5, <2>1 DEF Freeing
    <3>2. owned # {}
      BY <2>1, <2>3, <3>1, RunnerFields DEF RunnerInv, TypeOK, Ownership
    <3>3. pc'[t] = "idle" /\ call'[t].op = "none" /\ \A u \in Threads : u # t => pc'[u] = pc[u] /\ call'[u] = call[u]
      BY <2>3 DEF RunnerInv, TypeOK, FreeCheck, Return, Goto, NoCall
    <3>4. \A u \in Threads : ~InTree(u)' /\ ~Stopping(u)' /\ pc'[u] \notin {"free_lock", "delete_runner"}
      BY <1>5, <3>3, <2>1 DEF InTree, Freeing, Stopping
    <3> QED
      BY <3>1, <3>2, <3>4 DEF RunnerInv, Ownership, FreeCheck, globVars, objVars, appVars
  <2> QED
    BY <2>2, <2>3
<1>10. RuleOwners'
  <2>1. \A u \in Threads : u # t => pc'[u] = pc[u] /\ call'[u] = call[u]
    BY DEF RunnerInv, TypeOK, FreeCheck, Goto, Return
  <2>2. call[t].op = "free" /\ call'[t].op \in {"none", "free"}
    BY DEF RunnerInv, TypeOK, Labels, FreeCheck, Goto, Return, NoCall, Call, Op
  <2>3. \A u \in Threads, r \in Rules : HasRule(u, r)' => HasRule(u, r) /\ call'[u] = call[u]
    BY <1>4, <2>1, <2>2 DEF HasRule
  <2> QED
    BY <2>3 DEF RunnerInv, RuleOwners, FreeCheck, globVars, objVars, appVars
<1> QED
  BY <1>1, <1>2, <1>3, <1>4, <1>6, <1>7, <1>8, <1>9, <1>10 DEF RunnerInv

LEMMA FreeLockStep ==
    ASSUME OneAtATime, RunnerInv, NEW t \in Threads, FreeLock(t)
    PROVE  RunnerInv'
<1>1. TypeOK'
  BY DEF RunnerInv, TypeOK, FreeLock, Goto, objVars, appVars, Label
<1>2. Labels'
  BY DEF RunnerInv, Labels, FreeLock, Goto
<1>3. OneSerial'
  BY DEF RunnerInv, OneSerial, FreeLock
<1>4. /\ Channel'
      /\ \A u \in Threads : u # t => (Pending(u)' <=> Pending(u))
  BY QuietFrame DEF RunnerInv, FreeLock, Goto
<1>5. call[t].op \in {"create", "free", "dump"} => \A u \in Threads : u # t =>
        /\ call[u].op \in {"none", "add_rule", "del_rule"}
        /\ pc[u] \in {"idle", "control", "recv"}
        /\ ~Starting(u) /\ ~InTree(u) /\ ~Freeing(u) /\ ~Stopping(u)
  BY OthersQuiet DEF RunnerInv
<1>6. Locals'
  BY DEF RunnerInv, Locals, FreeLock, Goto, objVars, appVars, Freeing, Stopping
<1>7. Fresh'
  BY DEF RunnerInv, Fresh, FreeLock, Goto, Starting
<1>8. Lifetime'
  BY <1>4 DEF RunnerInv, Labels, Lifetime, FreeLock, Goto, Starting, Stopping
<1>9. Ownership'
  BY <1>4, <1>5, NoneAssumption, UsageAssumption DEF RunnerInv, TypeOK, Labels, OneSerial,
     Locals, Fresh, Ownership, FreeLock, Goto, globVars, objVars, appVars, Call, Op, InTree,
     Starting, Freeing, Stopping, Pending, OneAtATime
<1>10. RuleOwners'
  BY DEF RunnerInv, RuleOwners, FreeLock, Goto, objVars, appVars, HasRule, Pending
<1> QED
  BY <1>1, <1>2, <1>3, <1>4, <1>6, <1>7, <1>8, <1>9, <1>10 DEF RunnerInv

\* g_runner cannot be NULL here: the free_forward that would make it so is this one.
LEMMA DeleteRunnerStep ==
    ASSUME OneAtATime, RunnerInv, NEW t \in Threads, DeleteRunner(t)
    PROVE  RunnerInv'
<1>0. /\ g_runner # None /\ Freeing(t) /\ ~InTree(t)
      /\ pc' = [pc EXCEPT ![t] = "control"]
      /\ call' = [call EXCEPT ![t] =
               [call[t] EXCEPT !.func = "delete_runner", !.runner = g_runner, !.ctx = None]]
      /\ UNCHANGED <<calls, g_mutex, mutex_init, g_runner, runners, home, rule, rules, owned, held>>
  BY DEF RunnerInv, TypeOK, Labels, Locals, DeleteRunner, Goto, globVars, objVars, appVars,
     Call, Op, Freeing, InTree, Pending
<1>a. /\ \A u \in Threads : u # t => pc'[u] = pc[u] /\ call'[u] = call[u]
      /\ pc[t] = "delete_runner" /\ call[t].op = "free"
      /\ pc'[t] = "control" /\ call'[t].op = "free"
      /\ call'[t].func = "delete_runner" /\ call'[t].runner = g_runner
  BY <1>0 DEF RunnerInv, TypeOK, DeleteRunner, Freeing, Call
<1>1. TypeOK'
  BY <1>0, CallChange DEF RunnerInv, TypeOK, Func, Label
<1>2. Labels'
  BY <1>0 DEF RunnerInv, TypeOK, Labels, Freeing, Call, Op
<1>3. OneSerial'
  BY <1>a DEF RunnerInv, OneSerial
<1>4. /\ Channel'
      /\ \A u \in Threads : u # t => (Pending(u)' <=> Pending(u))
  BY QuietFrame DEF RunnerInv, TypeOK, DeleteRunner, Goto
<1>5. call[t].op \in {"create", "free", "dump"} => \A u \in Threads : u # t =>
        /\ call[u].op \in {"none", "add_rule", "del_rule"}
        /\ pc[u] \in {"idle", "control", "recv"}
        /\ ~Starting(u) /\ ~InTree(u) /\ ~Freeing(u) /\ ~Stopping(u)
  BY OthersQuiet DEF RunnerInv
<1>6. Locals'
  BY <1>0, <1>a DEF RunnerInv, Locals, Freeing, Stopping
<1>7. Fresh'
  BY DEF RunnerInv, TypeOK, Fresh, DeleteRunner, Goto, globVars, Starting
<1>8. Lifetime'
  <2>1. \A u \in Threads : ~Starting(u) /\ ~Starting(u)'
    BY <1>0, <1>5 DEF DeleteRunner, Starting, Freeing
  <2>2. \A u \in Threads : (Stopping(u)' <=> u = t) /\ ~Stopping(u)
    BY <1>0, <1>5 DEF RunnerInv, TypeOK, Freeing, Stopping
  <2>3. Pending(t)' /\ pc'[t] # "free_unlock"
    BY <1>0 DEF RunnerInv, TypeOK, Pending
  <2> QED
    BY <1>0, <2>1, <2>2, <2>3 DEF RunnerInv, Lifetime
<1>9. Ownership'
  <2>1. \A u \in Threads : InTree(u)' <=> InTree(u)
    BY <1>0, <1>4, <1>a DEF InTree, Freeing
  <2>2. \A u \in Threads : InTree(u) => call'[u] = call[u]
    BY <1>0, <1>a
  <2>3. owned = {}
    BY <1>a DEF RunnerInv, Ownership
  <2> QED
    BY <1>0, <1>a, <2>1, <2>2, <2>3 DEF RunnerInv, Ownership
<1>10. RuleOwners'
  <2>3. \A u \in Threads, r \in Rules : HasRule(u, r)' => HasRule(u, r) /\ call'[u] = call[u]
    BY <1>0, <1>4 DEF RunnerInv, TypeOK, HasRule, Freeing
  <2>4. UNCHANGED <<g_runner, runners, rule, rules, owned, held>>
    BY <1>0
  <2> QED
    BY <2>3, <2>4 DEF RunnerInv, RuleOwners
<1> QED
  BY <1>1, <1>2, <1>3, <1>4, <1>6, <1>7, <1>8, <1>9, <1>10 DEF RunnerInv

\* The thread has left its loop, so nobody else uses the runner.
LEMMA JoinStep ==
    ASSUME OneAtATime, RunnerInv, NEW t \in Threads, Join(t)
    PROVE  RunnerInv'
<1> DEFINE n == call[t].runner
<1>a. /\ pc[t] = "join" /\ pc' = [pc EXCEPT ![t] = "free_unlock"] /\ runners[n].loop = "ended"
      /\ runners' = [runners EXCEPT ![n].live = FALSE]
      /\ UNCHANGED <<call, calls, g_mutex, mutex_init, g_runner, home, rule, rules, owned, held>>
  BY DEF Join, Goto, globVars, objVars, appVars
<1>b. Stopping(t) /\ call[t].op = "free" /\ n \in Runners /\ n = g_runner /\ g_runner # None
  BY <1>a DEF RunnerInv, TypeOK, Labels, Locals, Stopping, Call, Op
<1>c. \A u \in Threads : u # t =>
        /\ call[u].op \in {"none", "add_rule", "del_rule"}
        /\ pc[u] \in {"idle", "control", "recv"}
        /\ ~Starting(u) /\ ~InTree(u) /\ ~Freeing(u) /\ ~Stopping(u)
  BY <1>b, OthersQuiet DEF RunnerInv
<1>d. /\ \A u \in Threads : u # t => pc'[u] = pc[u]
      /\ pc'[t] = "free_unlock" /\ pc' \in [Threads -> Label]
  BY <1>a DEF RunnerInv, TypeOK, Label
<1>e. /\ \A m \in Runners : m # n => runners'[m] = runners[m]
      /\ runners'[n].loop = runners[n].loop /\ runners'[n].mutex = runners[n].mutex
      /\ runners'[n].contexts = runners[n].contexts /\ runners'[n].events = runners[n].events
      /\ runners'[n].request = runners[n].request /\ runners'[n].reply = runners[n].reply
  BY <1>a, <1>b DEF RunnerInv, TypeOK, RunnerObject
<1>f. ~runners'[n].live
  BY <1>a, <1>b DEF RunnerInv, TypeOK, RunnerObject
<1>g. \A u \in Threads : /\ Pending(u)' <=> Pending(u)
                         /\ Stopping(u)' <=> Stopping(u)
                         /\ InTree(u)' <=> InTree(u)
                         /\ ~Starting(u)'
  <2>1. \A u \in Threads : Pending(u)' <=> Pending(u)
    BY <1>a, <1>d, <1>e, ControlRunner DEF Pending
  <2> QED
    BY <2>1, <1>a, <1>b, <1>c, <1>d DEF InTree, Freeing, Stopping, Starting
<1>1. TypeOK'
  <2>0. runners[n] \in RunnerObject
    BY <1>b DEF RunnerInv, TypeOK
  <2>1. [runners[n] EXCEPT !.live = FALSE] \in RunnerObject
    BY <2>0 DEF RunnerObject
  <2>2. runners' \in [Runners -> RunnerObject]
    BY <1>a, <1>b, <2>1 DEF RunnerInv, TypeOK
  <2> QED
    BY <1>a, <1>d, <2>2 DEF RunnerInv, TypeOK
<1>2. Labels'
  BY <1>a, <1>b, <1>d DEF RunnerInv, Labels, Stopping
<1>3. OneSerial'
  BY <1>a DEF RunnerInv, OneSerial
<1>4. Locals'
  BY <1>a, <1>b, <1>d DEF RunnerInv, Locals, Freeing, Stopping
<1>5. Fresh'
  BY <1>g DEF Fresh
<1>6. Lifetime'
  <2>1. \A u \in Threads : ~Starting(u)
    BY <1>a, <1>c DEF Starting
  <2>2. ~Pending(t)'
    BY <1>d DEF Pending
  <2>3. \A m \in Runners : /\ runners'[m].live => m = g_runner
                           /\ ~runners'[m].live => runners'[m].loop \in {"none", "ended"}
    BY <2>1, <1>a, <1>b, <1>e, <1>f DEF RunnerInv, Lifetime
  <2> QED
    BY <2>2, <2>3, <1>a, <1>b, <1>c, <1>d, <1>f, <1>g DEF Lifetime
<1>7. Channel'
  <2>1. ASSUME NEW m \in Runners PROVE Socket(m)'
    BY <1>a, <1>d, <1>e, MutexHolder, SocketFrame DEF RunnerInv
  <2>2. \A u \in Threads : pc'[u] \in {"recv", "cond_wait"} =>
          pc'[u] = pc[u] /\ call[u].runner \in Runners
    BY <1>a, <1>d, ControlRunner DEF RunnerInv, Fresh, Starting
  <2> QED
    BY <2>1, <2>2, <1>a, <1>e DEF RunnerInv, Channel
<1>8. Ownership'
  BY <1>a, <1>b, <1>d, <1>e, <1>g DEF RunnerInv, TypeOK, Ownership
<1>9. RuleOwners'
  <2>1. \A u \in Threads, r \in Rules : HasRule(u, r)' <=> HasRule(u, r)
    BY <1>a, <1>g DEF HasRule
  <2> QED
    BY <2>1, <1>a, <1>b, <1>e DEF RunnerInv, RuleOwners
<1> QED
  BY <1>1, <1>2, <1>3, <1>4, <1>5, <1>6, <1>7, <1>8, <1>9 DEF RunnerInv

\* The tree is empty, so no context or rule refers to the runner that was freed.
LEMMA FreeUnlockStep ==
    ASSUME OneAtATime, RunnerInv, NEW t \in Threads, FreeUnlock(t)
    PROVE  RunnerInv'
<1>0. Stopping(t) /\ g_runner # None /\ pc[t] = "free_unlock"
  BY DEF RunnerInv, TypeOK, Labels, Locals, FreeUnlock, Stopping, Call, Op
<1>a. /\ \A u \in Threads : u # t => pc'[u] = pc[u] /\ call'[u] = call[u]
      /\ pc'[t] = "idle" /\ call'[t].op = "none"
      /\ g_runner' = None /\ UNCHANGED <<runners, owned>>
  BY DEF RunnerInv, TypeOK, FreeUnlock, Return, NoCall, Goto, appVars
<1>1. TypeOK'
  BY DEF RunnerInv, TypeOK, FreeUnlock, Return, NoCall, Goto, objVars, appVars, Call, Label
<1>2. Labels'
  BY DEF RunnerInv, TypeOK, Labels, FreeUnlock, Return, NoCall, Goto
<1>3. OneSerial'
  BY UsageAssumption DEF RunnerInv, OneSerial, FreeUnlock, Return, NoCall, Op
<1>4. /\ Channel'
      /\ \A u \in Threads : u # t => (Pending(u)' <=> Pending(u))
  BY QuietFrame DEF RunnerInv, FreeUnlock, Return, Goto
<1>5. call[t].op \in {"create", "free", "dump"} => \A u \in Threads : u # t =>
        /\ call[u].op \in {"none", "add_rule", "del_rule"}
        /\ pc[u] \in {"idle", "control", "recv"}
        /\ ~Starting(u) /\ ~InTree(u) /\ ~Freeing(u) /\ ~Stopping(u)
  BY OthersQuiet DEF RunnerInv
<1>6. Locals'
  <2>1. \A u \in Threads : call'[u].op = "none"
    <3>1. owned = {}
      BY <1>0 DEF RunnerInv, Ownership
    <3> QED
      BY <1>0, <1>5, <1>a, <3>1 DEF RunnerInv, Locals, Stopping
  <2>2. \A u \in Threads : pc'[u] = "idle"
    BY <1>2, <2>1 DEF Labels
  <2> QED
    BY <2>1, <2>2 DEF Locals, Freeing, Stopping
<1>7. Fresh'
  BY DEF RunnerInv, Fresh, FreeUnlock, Return, Goto, Starting
<1>8. Lifetime'
  <2>1. \A n \in Runners : ~runners[n].live
    BY <1>0, <1>5 DEF RunnerInv, Lifetime, Starting, Stopping
  <2>2. \A u \in Threads : ~Stopping(u)'
    BY <1>0, <1>5, <1>a DEF Stopping
  <2> QED
    BY <1>a, <2>1, <2>2 DEF RunnerInv, Lifetime
<1>9. Ownership'
  BY DEF RunnerInv, TypeOK, Labels, Locals, Fresh, Ownership, FreeUnlock, appVars, Call, Op,
     Starting, Freeing, Stopping, OneAtATime
<1>10. RuleOwners'
  <2>1. Stopping(t) /\ g_runner # None /\ owned = {}
    BY DEF RunnerInv, TypeOK, Labels, Locals, Ownership, FreeUnlock, Stopping, Call, Op
  <2>2. \A u \in Threads : ~InTree(u)
    BY <1>5, <2>1 DEF InTree, Stopping, Freeing
  <2>3. runners[g_runner].contexts = {}
    BY <2>1, <2>2, RunnerFields DEF RunnerInv, TypeOK, Ownership
  <2>4. held = {} /\ \A c \in Contexts : rules[c] = {}
    BY <2>1, <2>3 DEF RunnerInv, RuleOwners
  <2>5. \A u \in Threads : call'[u].op \notin {"add_rule", "del_rule"}
    BY <2>1 DEF RunnerInv, Locals, FreeUnlock, Return, NoCall
  <2> QED
    BY <2>4, <2>5 DEF RuleOwners, HasRule, FreeUnlock, objVars, appVars
<1> QED
  BY <1>1, <1>2, <1>3, <1>4, <1>6, <1>7, <1>8, <1>9, <1>10 DEF RunnerInv

-----------------------------------------------------------------------------
(* The other calls *)

\* The new rule is at an address that no tree and no other call has.
LEMMA AddForwardRuleStep ==
    ASSUME OneAtATime, RunnerInv, NEW t \in Threads, NEW c \in Contexts, NEW v \in Names,
           NEW mode \in {"client", "server"}, AddForwardRule(t, c, v, mode)
    PROVE  RunnerInv'
<1>1. TypeOK'
  BY MaxCallsAssumption DEF RunnerInv, TypeOK, AddForwardRule, MayCall, Begin, Goto, globVars,
     appVars, Call, Func, Op, Label, Rule
<1>2. Labels'
  BY DEF RunnerInv, TypeOK, Labels, AddForwardRule, Begin, Goto
<1>3. OneSerial'
  BY DEF RunnerInv, OneSerial, AddForwardRule, MayCall, Begin
<1>4. /\ Channel'
      /\ \A u \in Threads : u # t => (Pending(u)' <=> Pending(u))
  BY QuietFrame DEF RunnerInv, AddForwardRule, MayCall, Begin, Goto
<1>5. call[t].op \in {"create", "free", "dump"} => \A u \in Threads : u # t =>
        /\ call[u].op \in {"none", "add_rule", "del_rule"}
        /\ pc[u] \in {"idle", "control", "recv"}
        /\ ~Starting(u) /\ ~InTree(u) /\ ~Freeing(u) /\ ~Stopping(u)
  BY OthersQuiet DEF RunnerInv
<1>6. Locals'
  BY DEF RunnerInv, TypeOK, Locals, Ownership, AddForwardRule, Begin, Goto, globVars, appVars,
     Freeing, Stopping
<1>7. Fresh'
  BY DEF RunnerInv, TypeOK, Fresh, AddForwardRule, Begin, Goto, globVars, Starting
<1>8. Lifetime'
  BY <1>4 DEF RunnerInv, Labels, Lifetime, AddForwardRule, MayCall, Begin, Goto, globVars,
     Starting, Stopping
<1>9. Ownership'
  <2>1. /\ \A u \in Threads : u # t => pc'[u] = pc[u] /\ call'[u] = call[u]
        /\ pc[t] = "idle" /\ pc'[t] = "control" /\ call'[t].op = "add_rule"
        /\ UNCHANGED <<g_runner, runners, home, owned>>
    BY DEF RunnerInv, TypeOK, AddForwardRule, MayCall, Begin, Goto, globVars, appVars
  <2>2. call[t].op = "none"
    BY <2>1 DEF RunnerInv, Labels
  <2>3. \A u \in Threads : /\ InTree(u)' <=> InTree(u)
                           /\ InTree(u) => call'[u] = call[u]
                           /\ Stopping(u)' <=> Stopping(u)
    BY <1>4, <2>1, <2>2 DEF InTree, Freeing, Stopping
  <2> QED
    BY <2>1, <2>2, <2>3 DEF RunnerInv, Ownership
<1>10. RuleOwners'
  BY <1>4, NoneAssumption DEF RunnerInv, TypeOK, RuleOwners, AddForwardRule, Begin, globVars,
     appVars, HasRule, Rule
<1> QED
  BY <1>1, <1>2, <1>3, <1>4, <1>6, <1>7, <1>8, <1>9, <1>10 DEF RunnerInv

\* The application hands the rule to the call.
LEMMA DelForwardRuleStep ==
    ASSUME OneAtATime, RunnerInv, NEW t \in Threads, NEW r \in Rules, DelForwardRule(t, r)
    PROVE  RunnerInv'
<1>1. TypeOK'
  BY MaxCallsAssumption DEF RunnerInv, TypeOK, RuleOwners, DelForwardRule, MayCall, Begin,
     Goto, globVars, objVars, Call, Func, Op, Label
<1>2. Labels'
  BY DEF RunnerInv, TypeOK, Labels, DelForwardRule, Begin, Goto
<1>3. OneSerial'
  BY DEF RunnerInv, OneSerial, DelForwardRule, MayCall, Begin
<1>4. /\ Channel'
      /\ \A u \in Threads : u # t => (Pending(u)' <=> Pending(u))
  BY QuietFrame DEF RunnerInv, DelForwardRule, MayCall, Begin, Goto
<1>5. call[t].op \in {"create", "free", "dump"} => \A u \in Threads : u # t =>
        /\ call[u].op \in {"none", "add_rule", "del_rule"}
        /\ pc[u] \in {"idle", "control", "recv"}
        /\ ~Starting(u) /\ ~InTree(u) /\ ~Freeing(u) /\ ~Stopping(u)
  BY OthersQuiet DEF RunnerInv
<1>6. Locals'
  BY DEF RunnerInv, TypeOK, Locals, Ownership, RuleOwners, DelForwardRule, Begin, Goto,
     globVars, objVars, Freeing, Stopping
<1>7. Fresh'
  BY <1>5, UsageAssumption DEF RunnerInv, TypeOK, Labels, OneSerial, Locals, Fresh,
     DelForwardRule, MayCall, Begin, Goto, globVars, objVars, appVars, Call, Op, Starting,
     OneAtATime
<1>8. Lifetime'
  BY <1>4 DEF RunnerInv, Labels, Fresh, Lifetime, DelForwardRule, MayCall, Begin, Goto,
     globVars, Starting, Stopping
<1>9. Ownership'
  BY <1>4, <1>5, NoneAssumption, UsageAssumption DEF RunnerInv, TypeOK, Labels, OneSerial,
     Locals, Fresh, Ownership, DelForwardRule, MayCall, Begin, Goto, globVars, objVars,
     appVars, Call, Op, InTree, Starting, Freeing, Stopping, Pending, OneAtATime
<1>10. RuleOwners'
  BY <1>4, NoneAssumption DEF RunnerInv, TypeOK, Labels, Locals, RuleOwners, Fresh,
     DelForwardRule, MayCall, Begin, Goto, globVars, objVars, appVars, Call, Op, HasRule,
     Pending, Rule, Starting
<1> QED
  BY <1>1, <1>2, <1>3, <1>4, <1>6, <1>7, <1>8, <1>9, <1>10 DEF RunnerInv

LEMMA DebugDumpStep ==
    ASSUME OneAtATime, RunnerInv, NEW t \in Threads, DebugDump(t)
    PROVE  RunnerInv'
<1>1. TypeOK'
  BY MaxCallsAssumption DEF RunnerInv, TypeOK, DebugDump, MayCall, Begin, Goto, globVars,
     objVars, appVars, Call, Func, Op, Label
<1>2. Labels'
  BY DEF RunnerInv, TypeOK, Labels, DebugDump, Begin, Goto
<1>3. OneSerial'
  BY DEF RunnerInv, OneSerial, DebugDump, MayCall, Begin
<1>4. /\ Channel'
      /\ \A u \in Threads : u # t => (Pending(u)' <=> Pending(u))
  BY QuietFrame DEF RunnerInv, DebugDump, MayCall, Begin, Goto
<1>5. call[t].op \in {"create", "free", "dump"} => \A u \in Threads : u # t =>
        /\ call[u].op \in {"none", "add_rule", "del_rule"}
        /\ pc[u] \in {"idle", "control", "recv"}
        /\ ~Starting(u) /\ ~InTree(u) /\ ~Freeing(u) /\ ~Stopping(u)
  BY OthersQuiet DEF RunnerInv
<1>6. Locals'
  BY DEF RunnerInv, Locals, DebugDump, MayCall, Begin, Goto, globVars, appVars, Freeing,
     Stopping, OneAtATime
<1>7. Fresh'
  BY DEF RunnerInv, Fresh, DebugDump, Goto, Starting
<1>8. Lifetime'
  BY DEF RunnerInv, Fresh, Lifetime, DebugDump, MayCall, Begin, globVars, Stopping, OneAtATime
<1>9. Ownership'
  BY DEF RunnerInv, Ownership, DebugDump, MayCall, Begin, Goto, globVars, objVars, appVars,
     InTree, Freeing, Stopping, OneAtATime
<1>10. RuleOwners'
  BY <1>4 DEF RunnerInv, TypeOK, RuleOwners, DebugDump, Begin, globVars, objVars, appVars, HasRule
<1> QED
  BY <1>1, <1>2, <1>3, <1>4, <1>6, <1>7, <1>8, <1>9, <1>10 DEF RunnerInv

-----------------------------------------------------------------------------
(* The runner thread *)

\* Nobody holds the mutex: the starting thread waits for the signal or is about to
\* return, and does not miss it.
LEMMA LoopStartStep ==
    ASSUME OneAtATime, RunnerInv, NEW n \in Runners, LoopStart(n)
    PROVE  RunnerInv'
<1>a. /\ runners[n].loop = "created" /\ runners[n].mutex = None
      /\ runners' = [runners EXCEPT ![n].loop = "running"]
      /\ UNCHANGED <<call, calls, g_mutex, mutex_init, g_runner, home, rule, rules, owned, held>>
  BY DEF LoopStart, globVars, objVars, appVars
<1>b. /\ pc' \in [Threads -> Label]
      /\ \A u \in Threads : pc'[u] = IF pc[u] = "waiting" /\ call[u].runner = n
                                     THEN "woken" ELSE pc[u]
  BY DEF RunnerInv, TypeOK, LoopStart, CondSignal, Label
<1>c. /\ \A m \in Runners : m # n => runners'[m] = runners[m]
      /\ runners'[n].loop = "running" /\ runners'[n].mutex = runners[n].mutex
      /\ runners'[n].live = runners[n].live
      /\ runners'[n].contexts = runners[n].contexts /\ runners'[n].events = runners[n].events
      /\ runners'[n].request = runners[n].request /\ runners'[n].reply = runners[n].reply
  BY <1>a DEF RunnerInv, TypeOK, RunnerObject
<1>d. \A u \in Threads : /\ Pending(u)' <=> Pending(u)
                         /\ Starting(u)' <=> Starting(u)
                         /\ Stopping(u)' <=> Stopping(u)
                         /\ InTree(u)' <=> InTree(u)
  <2>1. \A u \in Threads : Pending(u)' <=> Pending(u)
    BY <1>a, <1>b, <1>c, ControlRunner DEF Pending
  <2> QED
    BY <2>1, <1>a, <1>b DEF Starting, Stopping, Freeing, InTree
<1>1. TypeOK'
  <2>1. runners' \in [Runners -> RunnerObject]
    <3>1. runners[n] \in RunnerObject
      BY <1>a DEF RunnerInv, TypeOK
    <3>2. [runners[n] EXCEPT !.loop = "running"] \in RunnerObject
      BY <3>1 DEF RunnerObject
    <3> QED
      BY <1>a, <3>2 DEF RunnerInv, TypeOK
  <2> QED
    BY <1>a, <1>b, <2>1 DEF RunnerInv, TypeOK
<1>2. Labels'
  BY <1>a, <1>b DEF RunnerInv, Labels
<1>3. OneSerial'
  BY <1>a DEF RunnerInv, OneSerial
<1>4. Locals'
  BY <1>a, <1>b DEF RunnerInv, Locals, Freeing, Stopping
<1>5. Fresh'
  <2>1. \A u \in Threads : pc[u] = "cond_wait" => call[u].runner # n
    BY <1>a, NoneAssumption DEF RunnerInv, Channel
  <2>2. \A u \in Threads : pc[u] = "woken" => call[u].runner # n
    BY <1>a DEF RunnerInv, Fresh, Starting
  <2> QED
    BY <2>1, <2>2, <1>a, <1>b, <1>c, <1>d DEF RunnerInv, Fresh, Starting
<1>6. Lifetime'
  BY <1>a, <1>b, <1>c, <1>d DEF RunnerInv, Lifetime
<1>7. Channel'
  <2>1. ASSUME NEW m \in Runners PROVE Socket(m)'
    <3>1. CASE m = n
      <4>1. Socket(n)
        BY DEF RunnerInv, Channel
      <4> QED
        BY <3>1, <4>1, <1>a, <1>c DEF Socket
    <3>2. CASE m # n
      BY <3>2, <1>a, <1>b, <1>c, MutexHolder, SocketFrame DEF RunnerInv
    <3> QED
      BY <3>1, <3>2
  <2>2. \A u \in Threads : pc'[u] \in {"recv", "cond_wait"} => runners'[call[u].runner].mutex = u
    <3>1. \A u \in Threads : pc'[u] \in {"recv", "cond_wait"} => pc'[u] = pc[u] /\ call[u].runner \in Runners
      BY <1>b, ControlRunner DEF RunnerInv, Fresh, Starting
    <3> QED
      BY <3>1, <1>c DEF RunnerInv, Channel
  <2> QED
    BY <2>1, <2>2, <1>a DEF Channel
<1>8. Ownership'
  BY <1>a, <1>b, <1>c, <1>d DEF RunnerInv, TypeOK, Ownership
<1>9. RuleOwners'
  <2>1. \A u \in Threads, r \in Rules : HasRule(u, r)' <=> HasRule(u, r)
    BY <1>a, <1>d DEF HasRule
  <2> QED
    BY <2>1, <1>a, <1>c DEF RunnerInv, TypeOK, RuleOwners
<1> QED
  BY <1>1, <1>2, <1>3, <1>4, <1>5, <1>6, <1>7, <1>8, <1>9 DEF RunnerInv

\* The function has run; its answer is on the socket.
LEMMA LoopReplyStep ==
    ASSUME OneAtATime, RunnerInv, NEW n \in Runners, LoopReply(n)
    PROVE  RunnerInv'
<1>a. /\ runners[n].loop = "replying"
      /\ runners' = [runners EXCEPT ![n] =
               [runners[n] EXCEPT !.reply = TRUE, !.loop = "running"]]
      /\ UNCHANGED <<pc, call, calls, g_mutex, mutex_init, g_runner, home, rule, rules, owned, held>>
  BY DEF LoopReply, globVars, objVars, appVars
<1>b. /\ \A m \in Runners : m # n => runners'[m] = runners[m]
      /\ runners'[n].loop = "running"
      /\ runners'[n].mutex = runners[n].mutex /\ runners'[n].live = runners[n].live
      /\ runners'[n].contexts = runners[n].contexts /\ runners'[n].events = runners[n].events
      /\ runners'[n].request = runners[n].request
  BY <1>a DEF RunnerInv, TypeOK, RunnerObject
<1>d. runners'[n].reply = TRUE
  BY <1>a DEF RunnerInv, TypeOK, RunnerObject
<1>c. \A u \in Threads : Pending(u)' <=> Pending(u)
  BY <1>a, <1>b, ControlRunner DEF Pending
<1>1. TypeOK'
  <2>1. runners[n] \in RunnerObject
    BY DEF RunnerInv, TypeOK
  <2>2. [runners[n] EXCEPT !.reply = TRUE, !.loop = "running"] \in RunnerObject
    BY <2>1 DEF RunnerObject
  <2>3. runners' \in [Runners -> RunnerObject]
    BY <1>a, <2>2 DEF RunnerInv, TypeOK
  <2> QED
    BY <1>a, <2>3 DEF RunnerInv, TypeOK
<1>2. Labels' /\ OneSerial'
  BY <1>a DEF RunnerInv, Labels, OneSerial
<1>3. Locals'
  BY <1>a DEF RunnerInv, Locals, Freeing, Stopping
<1>e. /\ runners[n].loop = "replying"
      /\ UNCHANGED <<pc, call, g_runner>>
  BY <1>a
<1>4. Fresh'
  <2>1. \A t \in Threads : Starting(t) => call[t].runner # n
    BY <1>e DEF RunnerInv, Fresh
  <2> QED
    BY <1>e, <1>b, <2>1 DEF RunnerInv, Fresh, Starting
<1>5. Lifetime'
  <2>1. \A u \in Threads : /\ Starting(u)' <=> Starting(u)
                           /\ Stopping(u)' <=> Stopping(u)
    BY <1>e DEF Starting, Stopping
  <2>2. \A m \in Runners : /\ runners'[m].live <=> runners[m].live
                           /\ runners'[m].events = runners[m].events
                           /\ runners'[m].loop = runners[m].loop
                              \/ {runners[m].loop, runners'[m].loop} \subseteq {"running", "replying"}
    BY <1>b, <1>e
  <2> QED
    BY <2>1, <2>2, <1>c, <1>e, LifetimeFrame DEF RunnerInv, TypeOK
<1>6. Channel'
  <2>1. ASSUME NEW m \in Runners PROVE Socket(m)'
    <3>1. CASE m = n
      <4>1. Socket(n)
        BY DEF RunnerInv, Channel
      <4> QED
        BY <3>1, <4>1, <1>a, <1>b, <1>d DEF Socket
    <3>2. CASE m # n
      BY <3>2, <1>a, <1>b, SocketFrame DEF RunnerInv
    <3> QED
      BY <3>1, <3>2
  <2>2. \A u \in Threads : pc[u] \in {"recv", "cond_wait"} => call[u].runner \in Runners
    BY ControlRunner DEF RunnerInv, Fresh, Starting
  <2> QED
    BY <2>1, <2>2, <1>a, <1>b DEF RunnerInv, Channel
<1>7. Ownership'
  BY <1>a, <1>b, <1>c DEF RunnerInv, TypeOK, Ownership, InTree, Freeing, Stopping
<1>8. RuleOwners'
  BY <1>a, <1>b, <1>c DEF RunnerInv, TypeOK, RuleOwners, HasRule
<1> QED
  BY <1>1, <1>2, <1>3, <1>4, <1>5, <1>6, <1>7, <1>8 DEF RunnerInv

\* A loop without events has no control event: it is that of a runner being stopped.
LEMMA LoopEndStep ==
    ASSUME OneAtATime, RunnerInv, NEW n \in Runners, LoopEnd(n)
    PROVE  RunnerInv'
<1>a. /\ runners[n].loop = "running" /\ runners[n].events = {}
      /\ runners' = [runners EXCEPT ![n].loop = "ended"]
      /\ UNCHANGED <<pc, call, calls, g_mutex, mutex_init, g_runner, home, rule, rules, owned, held>>
  BY DEF LoopEnd, globVars, objVars, appVars
<1>b. /\ \A m \in Runners : m # n => runners'[m] = runners[m]
      /\ runners'[n].loop = "ended" /\ runners'[n].reply = runners[n].reply
      /\ runners'[n].mutex = runners[n].mutex /\ runners'[n].live = runners[n].live
      /\ runners'[n].contexts = runners[n].contexts /\ runners'[n].events = runners[n].events
      /\ runners'[n].request = runners[n].request
  BY <1>a DEF RunnerInv, TypeOK, RunnerObject
<1>c. \A u \in Threads : Pending(u)' <=> Pending(u)
  BY <1>a, <1>b, ControlRunner DEF Pending
<1>1. TypeOK'
  <2>1. runners' \in [Runners -> RunnerObject]
    <3>0. runners[n] \in RunnerObject
      BY DEF RunnerInv, TypeOK
    <3>1. [runners[n] EXCEPT !.loop = "ended"] \in RunnerObject
      BY <3>0 DEF RunnerObject
    <3> QED
      BY <1>a, <3>1 DEF RunnerInv, TypeOK
  <2> QED
    BY <1>a, <2>1 DEF RunnerInv, TypeOK
<1>2. Labels' /\ OneSerial'
  BY <1>a DEF RunnerInv, Labels, OneSerial
<1>3. Locals'
  BY <1>a DEF RunnerInv, Locals, Freeing, Stopping
<1>4. Fresh'
  <2>1. \A t \in Threads : Starting(t) => call[t].runner # n
    BY <1>a DEF RunnerInv, Fresh
  <2> QED
    BY <1>a, <1>b, <2>1 DEF RunnerInv, Fresh, Starting
<1>5. Lifetime'
  BY <1>a, <1>b, <1>c DEF RunnerInv, Lifetime, Starting, Stopping
<1>6. Channel'
  <2>1. ASSUME NEW m \in Runners PROVE Socket(m)'
    <3>1. CASE m = n
      <4>1. Socket(n)
        BY DEF RunnerInv, Channel
      <4> QED
        BY <3>1, <4>1, <1>a, <1>b DEF Socket
    <3>2. CASE m # n
      BY <3>2, <1>a, <1>b, SocketFrame DEF RunnerInv
    <3> QED
      BY <3>1, <3>2
  <2>2. \A u \in Threads : pc[u] \in {"recv", "cond_wait"} => call[u].runner \in Runners
    BY ControlRunner DEF RunnerInv, Fresh, Starting
  <2> QED
    BY <2>1, <2>2, <1>a, <1>b DEF RunnerInv, Channel
<1>7. Ownership'
  BY <1>a, <1>b, <1>c DEF RunnerInv, TypeOK, Ownership, InTree, Freeing, Stopping
<1>8. RuleOwners'
  BY <1>a, <1>b, <1>c DEF RunnerInv, TypeOK, RuleOwners, HasRule
<1> QED
  BY <1>1, <1>2, <1>3, <1>4, <1>5, <1>6, <1>7, <1>8 DEF RunnerInv

\* A request on the control socket is that of the thread which holds the mutex.
LEMMA Receiver ==
    ASSUME RunnerInv, NEW n \in Runners, runners[n].request # None
    PROVE  LET t == runners[n].mutex
           IN  /\ t \in Threads /\ pc[t] = "recv" /\ call[t].runner = n
               /\ n = g_runner /\ g_runner # None
               /\ runners[n].request.func = call[t].func
               /\ runners[n].request.ctx = call[t].ctx
               /\ runners[n].request.rule = call[t].rule
               /\ Pending(t) /\ \A u \in Threads : u # t => pc[u] # "recv"
<1> DEFINE t == runners[n].mutex
<1>1. Socket(n)
  BY DEF RunnerInv, Channel
<1>2. /\ t # None /\ pc[t] = "recv" /\ call[t].runner = n
      /\ runners[n].request = [func |-> call[t].func, ctx |-> call[t].ctx, rule |-> call[t].rule]
  BY <1>1 DEF Socket
<1>3. t \in Threads
  BY <1>2, MutexHolder DEF RunnerInv
<1>4. n = g_runner /\ g_runner # None
  BY <1>2, <1>3, ControlRunner, NoneAssumption
<1>5. Pending(t) /\ \A u \in Threads : u # t => pc[u] # "recv"
  BY <1>2, <1>3, OneReceiver DEF Pending
<1>6. /\ runners[n].request.func = call[t].func /\ runners[n].request.ctx = call[t].ctx
      /\ runners[n].request.rule = call[t].rule
  BY <1>2
<1> QED
  BY <1>2, <1>3, <1>4, <1>5, <1>6

\* What every function that the runner thread executes has in common: the
\* request is taken from the socket and the answer is not sent yet.
LEMMA ProcessFrame ==
    ASSUME RunnerInv, NEW n \in Runners, runners[n].request # None,
           runners[n].loop = "running", NEW t \in Threads, t = runners[n].mutex,
           UNCHANGED <<pc, call, g_runner>>,
           \A m \in Runners : m # n => runners'[m] = runners[m],
           runners'[n].mutex = runners[n].mutex, runners'[n].reply = runners[n].reply,
           runners'[n].request = None, runners'[n].loop = "replying"
    PROVE  /\ Labels' /\ OneSerial' /\ Fresh' /\ Channel'
           /\ ~Pending(t)'
           /\ \A u \in Threads : u # t => (Pending(u)' <=> Pending(u))
<1>0. /\ pc[t] = "recv" /\ call[t].runner = n /\ n = g_runner /\ g_runner # None
      /\ \A u \in Threads : u # t => pc[u] # "recv"
  BY Receiver
<1>1. Labels' /\ OneSerial'
  BY DEF RunnerInv, Labels, OneSerial
<1>2. Fresh'
  BY <1>0 DEF RunnerInv, Fresh, Starting
<1>3. Channel'
  <2>1. ASSUME NEW m \in Runners PROVE Socket(m)'
    <3>1. CASE m = n
      <4>1. Socket(n) /\ t # None
        BY <1>0, NoneAssumption DEF RunnerInv, Channel
      <4>2. runners'[n].reply = FALSE
        BY <4>1 DEF Socket
      <4> QED
        BY <1>0, <3>1, <4>1, <4>2 DEF Socket
    <3>2. CASE m # n
      BY <3>2, SocketFrame DEF RunnerInv
    <3> QED
      BY <3>1, <3>2
  <2>2. \A u \in Threads : pc[u] \in {"recv", "cond_wait"} => call[u].runner \in Runners
    BY ControlRunner DEF RunnerInv, Fresh, Starting
  <2>3. \A m \in Runners : runners'[m].mutex = runners[m].mutex
    OBVIOUS
  <2> QED
    BY <2>1, <2>2, <2>3 DEF RunnerInv, Channel
<1>4. ~Pending(t)' /\ \A u \in Threads : u # t => (Pending(u)' <=> Pending(u))
  BY <1>0 DEF Pending
<1> QED
  BY <1>1, <1>2, <1>3, <1>4

\* The loop goes on after every function but delete_runner_cb_.
LEMMA ProcessLifetime ==
    ASSUME RunnerInv, NEW n \in Runners, runners[n].request # None,
           runners[n].loop = "running", NEW t \in Threads, t = runners[n].mutex,
           UNCHANGED <<pc, call, g_runner>>,
           \A m \in Runners : m # n => runners'[m] = runners[m],
           runners'[n].mutex = runners[n].mutex, runners'[n].reply = runners[n].reply,
           runners'[n].request = None, runners'[n].loop = "replying",
           runners'[n].live = runners[n].live,
           \/ "control" \in runners[n].events => "control" \in runners'[n].events
           \/ Stopping(t)
    PROVE  Lifetime'
<1>0. n = g_runner /\ Pending(t)
  BY Receiver
<1>1. ~Pending(t)' /\ \A u \in Threads : u # t => (Pending(u)' <=> Pending(u))
  BY ProcessFrame
<1>2. \A u \in Threads : /\ Starting(u)' <=> Starting(u)
                         /\ Stopping(u)' <=> Stopping(u)
  BY DEF Starting, Stopping
<1>3. \A m \in Runners : /\ runners'[m].live <=> runners[m].live
                         /\ runners'[m].loop = runners[m].loop
                            \/ {runners[m].loop, runners'[m].loop} \subseteq {"running", "replying"}
  OBVIOUS
<1>4. (\A u \in Threads : Stopping(u) => Pending(u)') =>
        ("control" \in runners[g_runner].events => "control" \in runners'[g_runner].events)
  BY <1>0, <1>1
<1> QED
  BY <1>0, <1>1, <1>2, <1>3, <1>4, LifetimeFrame

\* runner_control_cb_ runs function f for the holder of the mutex.
Processing(n, f) ==
    /\ runners[n].loop = "running" /\ runners[n].request # None
    /\ runners[n].request.func = f
    /\ UNCHANGED <<pc, call, calls, g_mutex, mutex_init, g_runner, owned, held>>

\* add_context_cb_: the context comes into the tree before create_forward returns it.
LEMMA AddContextCbStep ==
    ASSUME OneAtATime, RunnerInv, NEW n \in Runners, Processing(n, "add_context"),
           AddContextCb(n, runners[n].request.ctx)
    PROVE  RunnerInv'
<1>t. PICK t \in Threads : t = runners[n].mutex
  BY Receiver DEF Processing
<1> DEFINE c == call[t].ctx
<1>a. /\ runners[n].loop = "running" /\ runners[n].request # None
      /\ UNCHANGED <<pc, call, calls, g_mutex, mutex_init, g_runner, owned, held, home, rule, rules>>
  BY DEF Processing, AddContextCb, objVars
<1>b. /\ pc[t] = "recv" /\ n = g_runner /\ g_runner # None /\ Pending(t)
      /\ call[t].func = "add_context" /\ runners[n].request.ctx = c
  BY <1>a, <1>t, Receiver DEF Processing
<1>c. call[t].op = "create" /\ c \in Contexts
  BY <1>b, ControlRunner DEF RunnerInv, Labels, Locals
<1>r. runners' = [runners EXCEPT ![n] =
            [runners[n] EXCEPT !.contexts = @ \cup {c}, !.events = @ \cup {c},
                               !.request = None, !.loop = "replying"]]
  BY <1>b DEF AddContextCb
<1>d. \A u \in Threads : u # t =>
        /\ call[u].op \in {"none", "add_rule", "del_rule"}
        /\ pc[u] \in {"idle", "control", "recv"}
        /\ ~Starting(u) /\ ~InTree(u) /\ ~Freeing(u) /\ ~Stopping(u)
  BY <1>b, <1>c, OthersQuiet DEF RunnerInv
<1>e. /\ \A m \in Runners : m # n => runners'[m] = runners[m]
      /\ runners'[n].mutex = runners[n].mutex /\ runners'[n].reply = runners[n].reply
      /\ runners'[n].request = None /\ runners'[n].loop = "replying"
      /\ runners'[n].live = runners[n].live
      /\ runners'[n].contexts = runners[n].contexts \cup {c}
      /\ runners'[n].events = runners[n].events \cup {c}
  BY <1>r DEF RunnerInv, TypeOK, RunnerObject
<1>f. /\ Labels' /\ OneSerial' /\ Fresh' /\ Channel'
      /\ ~Pending(t)' /\ \A u \in Threads : u # t => (Pending(u)' <=> Pending(u))
  BY <1>a, <1>e, <1>t, ProcessFrame
<1>1. TypeOK'
  <2>0. runners[n] \in RunnerObject
    BY DEF RunnerInv, TypeOK
  <2>1. [runners[n] EXCEPT !.contexts = @ \cup {c}, !.events = @ \cup {c},
                           !.request = None, !.loop = "replying"] \in RunnerObject
    BY <2>0, <1>c DEF RunnerObject, Event
  <2>2. runners' \in [Runners -> RunnerObject]
    BY <1>r, <2>1 DEF RunnerInv, TypeOK
  <2> QED
    BY <1>a, <2>2 DEF RunnerInv, TypeOK
<1>2. Locals'
  BY <1>a DEF RunnerInv, Locals, Freeing, Stopping
<1>3. Lifetime'
  BY <1>a, <1>e, <1>t, ProcessLifetime
<1>4. Ownership'
  <2>1. ~InTree(t)
    BY <1>b, <1>c DEF InTree, Freeing
  <2>2. InTree(t)'
    BY <1>a, <1>b, <1>c, <1>f DEF InTree
  <2>3. \A u \in Threads : u # t => ~InTree(u)'
    BY <1>a, <1>d DEF InTree, Freeing
  <2>4. \A d \in Contexts : d \in runners[n].contexts <=> d \in owned
    BY <1>b, <1>d, <2>1 DEF RunnerInv, Ownership
  <2>5. \A d \in Contexts : d \in runners'[n].contexts <=>
          d \in owned \/ \E u \in Threads : InTree(u)' /\ call[u].ctx = d
    BY <1>b, <1>e, <2>2, <2>3, <2>4
  <2>6. \A u \in Threads : Stopping(u)' <=> Stopping(u)
    BY <1>a DEF Stopping
  <2> QED
    BY <1>a, <1>b, <2>5, <2>6 DEF RunnerInv, Ownership
<1>5. RuleOwners'
  <2>1. \A u \in Threads, r \in Rules : HasRule(u, r)' <=> HasRule(u, r)
    BY <1>a, <1>c, <1>f DEF HasRule
  <2> QED
    BY <2>1, <1>a, <1>b, <1>e DEF RunnerInv, RuleOwners
<1> QED
  BY <1>1, <1>2, <1>3, <1>4, <1>5, <1>f DEF RunnerInv

\* delete_context_cb_: only what belonged to the context goes with it.
LEMMA DeleteContextCbStep ==
    ASSUME OneAtATime, RunnerInv, NEW n \in Runners, Processing(n, "delete_context"),
           DeleteContextCb(n, runners[n].request.ctx)
    PROVE  RunnerInv'
<1>t. PICK t \in Threads : t = runners[n].mutex
  BY Receiver DEF Processing
<1> DEFINE c == call[t].ctx
<1>a. /\ runners[n].loop = "running" /\ runners[n].request # None
      /\ UNCHANGED <<pc, call, calls, g_mutex, mutex_init, g_runner, owned, held>>
  BY DEF Processing
<1>b. /\ pc[t] = "recv" /\ n = g_runner /\ g_runner # None /\ Pending(t)
      /\ call[t].func = "delete_context" /\ runners[n].request.ctx = c
  BY <1>a, <1>t, Receiver DEF Processing
<1>c. call[t].op = "free" /\ Freeing(t) /\ c \in Contexts \ owned
  BY <1>b, ControlRunner DEF RunnerInv, Labels, Locals, Freeing
<1>r. /\ runners' = [runners EXCEPT ![n] =
               [runners[n] EXCEPT !.contexts = @ \ {c},
                                  !.events = @ \ ({c} \cup rules[c] \cup {}),
                                  !.request = None, !.loop = "replying"]]
      /\ home' = [d \in Contexts |-> IF d = c THEN None ELSE home[d]]
      /\ rule' = [r \in Rules |-> IF r \in rules[c] THEN None ELSE rule[r]]
      /\ rules' = [d \in Contexts |-> IF d = c THEN {} ELSE rules[d]]
  <2>1. UNION {rules[d] : d \in {c}} = rules[c]
    OBVIOUS
  <2> QED
    BY <1>b, <2>1 DEF DeleteContextCb, DeleteContexts
<1>d. \A u \in Threads : u # t =>
        /\ call[u].op \in {"none", "add_rule", "del_rule"}
        /\ pc[u] \in {"idle", "control", "recv"}
        /\ ~Starting(u) /\ ~InTree(u) /\ ~Freeing(u) /\ ~Stopping(u)
  BY <1>b, <1>c, OthersQuiet DEF RunnerInv
<1>e. /\ \A m \in Runners : m # n => runners'[m] = runners[m]
      /\ runners'[n].mutex = runners[n].mutex /\ runners'[n].reply = runners[n].reply
      /\ runners'[n].request = None /\ runners'[n].loop = "replying"
      /\ runners'[n].live = runners[n].live
      /\ runners'[n].contexts = runners[n].contexts \ {c}
      /\ runners'[n].events = runners[n].events \ ({c} \cup rules[c] \cup {})
  BY <1>r DEF RunnerInv, TypeOK, RunnerObject
<1>f. /\ Labels' /\ OneSerial' /\ Fresh' /\ Channel'
      /\ ~Pending(t)' /\ \A u \in Threads : u # t => (Pending(u)' <=> Pending(u))
  BY <1>a, <1>e, <1>t, ProcessFrame
<1>1. TypeOK'
  <2>0. runners[n] \in RunnerObject
    BY DEF RunnerInv, TypeOK
  <2>1. [runners[n] EXCEPT !.contexts = @ \ {c}, !.events = @ \ ({c} \cup rules[c] \cup {}),
                           !.request = None, !.loop = "replying"] \in RunnerObject
    BY <2>0, <1>c DEF RunnerObject, Event
  <2>2. runners' \in [Runners -> RunnerObject]
    BY <1>r, <2>1 DEF RunnerInv, TypeOK
  <2>3. /\ home' \in [Contexts -> Runners \cup {None}]
        /\ rule' \in [Rules -> Rule \cup {None}]
        /\ rules' \in [Contexts -> SUBSET Rules]
    BY <1>r DEF RunnerInv, TypeOK
  <2> QED
    BY <1>a, <2>2, <2>3 DEF RunnerInv, TypeOK
<1>2. Locals'
  <2>1. \A u \in Threads : call[u].op # "create"
    BY <1>c, <1>d
  <2> QED
    BY <2>1, <1>a DEF RunnerInv, Locals, Freeing, Stopping
<1>3. Lifetime'
  <2>1. "control" \notin {c} \cup rules[c]
    BY <1>c, AddressAssumption DEF RunnerInv, TypeOK
  <2> QED
    BY <2>1, <1>a, <1>e, <1>t, ProcessLifetime
<1>4. Ownership'
  <2>1. InTree(t)
    BY <1>b, <1>c DEF InTree
  <2>2. \A u \in Threads : ~InTree(u)'
    BY <1>a, <1>c, <1>d, <1>f DEF InTree, Freeing
  <2>4. \A d \in Contexts : d \in runners[n].contexts <=> d \in owned \/ d = c
    BY <1>b, <1>d, <2>1 DEF RunnerInv, Ownership
  <2>5. \A d \in Contexts : d \in runners'[n].contexts <=> d \in owned
    BY <1>c, <1>e, <2>4
  <2>6. \A u \in Threads : Stopping(u)' <=> Stopping(u)
    BY <1>a DEF Stopping
  <2>7. \A d \in owned : home'[d] = home[d]
    BY <1>c, <1>r DEF RunnerInv, TypeOK
  <2> QED
    BY <1>a, <1>b, <2>2, <2>5, <2>6, <2>7 DEF RunnerInv, Ownership
<1>5. RuleOwners'
  <2>1. \A u \in Threads, r \in Rules : HasRule(u, r)' <=> HasRule(u, r)
    BY <1>a, <1>c, <1>f DEF HasRule
  <2>2. \A r \in rules[c] : rule[r] # None /\ rule[r].ctx = c
    BY <1>c DEF RunnerInv, RuleOwners
  <2>3. \A r \in held : r \in Rules /\ rule'[r] = rule[r]
    BY <1>c, <1>r, <2>2 DEF RunnerInv, TypeOK, RuleOwners
  <2>4. \A u \in Threads, r \in Rules : HasRule(u, r) => rule'[r] = rule[r]
    BY <1>c, <1>r, <2>2 DEF RunnerInv, RuleOwners, Locals, HasRule
  <2>5. \A d \in Contexts : \A r \in rules'[d] : d # c /\ r \in rules[d] /\ rule'[r] = rule[r]
    BY <1>r, <2>2 DEF RunnerInv, TypeOK, RuleOwners
  <2>6. \A d \in Contexts : rules'[d] # {} => d \in runners'[n].contexts
    BY <1>b, <1>e, <1>r, <2>5 DEF RunnerInv, RuleOwners
  <2> QED
    BY <2>1, <2>3, <2>4, <2>5, <2>6, <1>a, <1>b DEF RunnerInv, RuleOwners
<1> QED
  BY <1>1, <1>2, <1>3, <1>4, <1>5, <1>f DEF RunnerInv

\* add_rule_cb_: the context of the rule is in the tree.
LEMMA AddRuleCbStep ==
    ASSUME OneAtATime, RunnerInv, NEW n \in Runners, Processing(n, "add_rule"),
           AddRuleCb(n, runners[n].request.rule)
    PROVE  RunnerInv'
<1>t. PICK t \in Threads : t = runners[n].mutex
  BY Receiver DEF Processing
<1> DEFINE r == call[t].rule
           c == call[t].ctx
<1>a. /\ runners[n].loop = "running" /\ runners[n].request # None
      /\ UNCHANGED <<pc, call, calls, g_mutex, mutex_init, g_runner, owned, held, home, rule>>
  BY DEF Processing, AddRuleCb
<1>b. /\ pc[t] = "recv" /\ n = g_runner /\ g_runner # None /\ Pending(t)
      /\ call[t].func = "add_rule" /\ runners[n].request.rule = r
  BY <1>a, <1>t, Receiver DEF Processing
<1>c. call[t].op = "add_rule" /\ r \in Rules /\ c \in owned /\ c \in Contexts
  BY <1>b, ControlRunner DEF RunnerInv, TypeOK, Labels, Locals
<1>d. HasRule(t, r) /\ rule[r] # None /\ rule[r].ctx = c
  BY <1>c DEF RunnerInv, RuleOwners, HasRule
<1>r. /\ runners' = [runners EXCEPT ![n] =
               [runners[n] EXCEPT !.events = @ \cup AddRuleEvents(r),
                                  !.request = None, !.loop = "replying"]]
      /\ rules' = rules \/ rules' = [rules EXCEPT ![c] = @ \cup {r}]
  BY <1>b, <1>d DEF AddRuleCb, AddRuleTree
<1>s. AddRuleEvents(r) \subseteq {r}
  BY DEF AddRuleEvents
<1>e. /\ \A m \in Runners : m # n => runners'[m] = runners[m]
      /\ runners'[n].mutex = runners[n].mutex /\ runners'[n].reply = runners[n].reply
      /\ runners'[n].request = None /\ runners'[n].loop = "replying"
      /\ runners'[n].live = runners[n].live
      /\ runners'[n].contexts = runners[n].contexts
      /\ runners'[n].events = runners[n].events \cup AddRuleEvents(r)
  BY <1>r DEF RunnerInv, TypeOK, RunnerObject
<1>f. /\ Labels' /\ OneSerial' /\ Fresh' /\ Channel'
      /\ ~Pending(t)' /\ \A u \in Threads : u # t => (Pending(u)' <=> Pending(u))
  BY <1>a, <1>e, <1>t, ProcessFrame
<1>1. TypeOK'
  <2>0. runners[n] \in RunnerObject
    BY DEF RunnerInv, TypeOK
  <2>1. [runners[n] EXCEPT !.events = @ \cup AddRuleEvents(r),
                           !.request = None, !.loop = "replying"] \in RunnerObject
    BY <2>0, <1>c, <1>s DEF RunnerObject, Event
  <2>2. runners' \in [Runners -> RunnerObject]
    BY <1>r, <2>1 DEF RunnerInv, TypeOK
  <2>3. rules' \in [Contexts -> SUBSET Rules]
    BY <1>r, <1>c DEF RunnerInv, TypeOK
  <2> QED
    BY <1>a, <2>2, <2>3 DEF RunnerInv, TypeOK
<1>2. Locals'
  BY <1>a DEF RunnerInv, Locals, Freeing, Stopping
<1>3. Lifetime'
  BY <1>a, <1>e, <1>t, ProcessLifetime
<1>4. Ownership'
  <2>1. \A u \in Threads : (InTree(u)' <=> InTree(u)) /\ (Stopping(u)' <=> Stopping(u))
    BY <1>a, <1>c, <1>f DEF InTree, Freeing, Stopping
  <2> QED
    BY <1>a, <1>b, <1>e, <2>1 DEF RunnerInv, Ownership
<1>5. RuleOwners'
  <2>1. \A u \in Threads, s \in Rules : HasRule(u, s)' <=> HasRule(u, s)
    BY <1>a, <1>c, <1>f DEF HasRule
  <2>2. \A d \in Contexts : \A s \in rules'[d] : s \in rules[d] \/ (d = c /\ s = r)
    BY <1>r, <1>c DEF RunnerInv, TypeOK
  <2>3. \A d \in Contexts : \A s \in rules'[d] : rule[s] # None /\ rule[s].ctx = d
    BY <2>2, <1>d DEF RunnerInv, RuleOwners
  <2>4. c \in runners[n].contexts
    BY <1>b, <1>c DEF RunnerInv, Ownership
  <2>5. \A d \in Contexts : rules'[d] # {} => d \in runners[n].contexts
    BY <2>2, <2>4, <1>b DEF RunnerInv, RuleOwners
  <2> QED
    BY <2>1, <2>3, <2>5, <1>a, <1>b, <1>e DEF RunnerInv, RuleOwners
<1> QED
  BY <1>1, <1>2, <1>3, <1>4, <1>5, <1>f DEF RunnerInv

\* delete_rule_cb_: no one else has the rule.
LEMMA DeleteRuleCbStep ==
    ASSUME OneAtATime, RunnerInv, NEW n \in Runners, Processing(n, "delete_rule"),
           DeleteRuleCb(n, runners[n].request.rule)
    PROVE  RunnerInv'
<1>t. PICK t \in Threads : t = runners[n].mutex
  BY Receiver DEF Processing
<1> DEFINE r == call[t].rule
           c == call[t].ctx
<1>a. /\ runners[n].loop = "running" /\ runners[n].request # None
      /\ UNCHANGED <<pc, call, calls, g_mutex, mutex_init, g_runner, owned, held, home>>
  BY DEF Processing, DeleteRuleCb
<1>b. /\ pc[t] = "recv" /\ n = g_runner /\ g_runner # None /\ Pending(t)
      /\ call[t].func = "delete_rule" /\ runners[n].request.rule = r
  BY <1>a, <1>t, Receiver DEF Processing
<1>c. call[t].op = "del_rule" /\ r \in Rules /\ c \in owned /\ c \in Contexts
  BY <1>b, ControlRunner DEF RunnerInv, TypeOK, Labels, Locals
<1>d. HasRule(t, r) /\ rule[r] # None /\ rule[r].ctx = c /\ r \notin held
  BY <1>b, <1>c DEF RunnerInv, RuleOwners, HasRule
<1>r. /\ runners' = [runners EXCEPT ![n] =
               [runners[n] EXCEPT !.events = @ \ {r},
                                  !.request = None, !.loop = "replying"]]
      /\ rules' = [rules EXCEPT ![c] = {s \in @ : ~SameName(r, s)}]
      /\ rule' = [rule EXCEPT ![r] = None]
  BY <1>b, <1>d DEF DeleteRuleCb
<1>e. /\ \A m \in Runners : m # n => runners'[m] = runners[m]
      /\ runners'[n].mutex = runners[n].mutex /\ runners'[n].reply = runners[n].reply
      /\ runners'[n].request = None /\ runners'[n].loop = "replying"
      /\ runners'[n].live = runners[n].live
      /\ runners'[n].contexts = runners[n].contexts
      /\ runners'[n].events = runners[n].events \ {r}
  BY <1>r DEF RunnerInv, TypeOK, RunnerObject
<1>f. /\ Labels' /\ OneSerial' /\ Fresh' /\ Channel'
      /\ ~Pending(t)' /\ \A u \in Threads : u # t => (Pending(u)' <=> Pending(u))
  BY <1>a, <1>e, <1>t, ProcessFrame
<1>1. TypeOK'
  <2>0. runners[n] \in RunnerObject
    BY DEF RunnerInv, TypeOK
  <2>1. [runners[n] EXCEPT !.events = @ \ {r},
                           !.request = None, !.loop = "replying"] \in RunnerObject
    BY <2>0 DEF RunnerObject
  <2>2. runners' \in [Runners -> RunnerObject]
    BY <1>r, <2>1 DEF RunnerInv, TypeOK
  <2>3. rules' \in [Contexts -> SUBSET Rules] /\ rule' \in [Rules -> Rule \cup {None}]
    BY <1>r, <1>c DEF RunnerInv, TypeOK
  <2> QED
    BY <1>a, <2>2, <2>3 DEF RunnerInv, TypeOK
<1>2. Locals'
  BY <1>a DEF RunnerInv, Locals, Freeing, Stopping
<1>3. Lifetime'
  <2>1. "control" # r
    BY <1>c, AddressAssumption
  <2> QED
    BY <2>1, <1>a, <1>e, <1>t, ProcessLifetime
<1>4. Ownership'
  <2>1. \A u \in Threads : (InTree(u)' <=> InTree(u)) /\ (Stopping(u)' <=> Stopping(u))
    BY <1>a, <1>c, <1>f DEF InTree, Freeing, Stopping
  <2> QED
    BY <1>a, <1>b, <1>e, <2>1 DEF RunnerInv, Ownership
<1>5. RuleOwners'
  <2>1. \A u \in Threads, s \in Rules : HasRule(u, s)' => HasRule(u, s) /\ u # t
    BY <1>a, <1>c, <1>f DEF HasRule
  <2>2. \A u \in Threads, s \in Rules : HasRule(u, s)' => s # r
    BY <2>1, <1>d DEF RunnerInv, RuleOwners
  <2>3. SameName(r, r)
    BY DEF SameName
  <2>4. \A d \in Contexts : \A s \in rules'[d] : s \in rules[d] /\ s # r
    BY <2>3, <1>r, <1>c, <1>d DEF RunnerInv, TypeOK, RuleOwners
  <2>5. \A s \in Rules : s # r => rule'[s] = rule[s]
    BY <1>r DEF RunnerInv, TypeOK
  <2>6. \A d \in Contexts : \A s \in rules'[d] : rule'[s] # None /\ rule'[s].ctx = d
    BY <2>4, <2>5 DEF RunnerInv, TypeOK, RuleOwners
  <2>7. \A s \in held : rule'[s] # None /\ rule'[s].ctx \in owned
    BY <2>5, <1>d DEF RunnerInv, TypeOK, RuleOwners
  <2>8. \A d \in Contexts : rules'[d] # {} => d \in runners[n].contexts
    BY <2>4, <1>b DEF RunnerInv, RuleOwners
  <2> QED
    BY <2>1, <2>2, <2>5, <2>6, <2>7, <2>8, <1>a, <1>b, <1>e DEF RunnerInv, RuleOwners
<1> QED
  BY <1>1, <1>2, <1>3, <1>4, <1>5, <1>f DEF RunnerInv

\* delete_runner_cb_: there is no context left to delete.
LEMMA DeleteRunnerCbStep ==
    ASSUME OneAtATime, RunnerInv, NEW n \in Runners, Processing(n, "delete_runner"),
           DeleteRunnerCb(n)
    PROVE  RunnerInv'
<1>t. PICK t \in Threads : t = runners[n].mutex
  BY Receiver DEF Processing
<1>a. /\ runners[n].loop = "running" /\ runners[n].request # None
      /\ UNCHANGED <<pc, call, calls, g_mutex, mutex_init, g_runner, owned, held>>
  BY DEF Processing
<1>b. /\ pc[t] = "recv" /\ n = g_runner /\ g_runner # None /\ Pending(t)
      /\ call[t].func = "delete_runner"
  BY <1>a, <1>t, Receiver DEF Processing
<1>c. call[t].op = "free" /\ Stopping(t) /\ owned = {}
  BY <1>b, ControlRunner DEF RunnerInv, Labels, Ownership, Stopping
<1>d. \A u \in Threads : ~InTree(u)
  <2>1. \A u \in Threads : u # t => ~InTree(u)
    BY <1>c, OthersQuiet DEF RunnerInv
  <2>2. ~InTree(t)
    BY <1>c DEF InTree, Freeing, Stopping
  <2> QED
    BY <2>1, <2>2
<1>g. runners[n].contexts = {}
  BY <1>b, <1>c, <1>d, RunnerFields DEF RunnerInv, Ownership
<1>r. /\ runners' = [runners EXCEPT ![n] =
               [runners[n] EXCEPT !.contexts = @ \ {},
                                  !.events = @ \ ({} \cup {} \cup {"control"}),
                                  !.request = None, !.loop = "replying"]]
      /\ UNCHANGED <<home, rule, rules>>
  <2>1. UNION {rules[d] : d \in {}} = {}
    OBVIOUS
  <2>2. /\ runners' = [runners EXCEPT ![n] =
                 [runners[n] EXCEPT !.contexts = @ \ {},
                                    !.events = @ \ ({} \cup {} \cup {"control"}),
                                    !.request = None, !.loop = "replying"]]
        /\ home' = [d \in Contexts |-> IF d \in {} THEN None ELSE home[d]]
        /\ rule' = [r \in Rules |-> IF r \in {} THEN None ELSE rule[r]]
        /\ rules' = [d \in Contexts |-> IF d \in {} THEN {} ELSE rules[d]]
    BY <1>g, <2>1 DEF DeleteRunnerCb, DeleteContexts
  <2> QED
    BY <2>2 DEF RunnerInv, TypeOK
<1>e. /\ \A m \in Runners : m # n => runners'[m] = runners[m]
      /\ runners'[n].mutex = runners[n].mutex /\ runners'[n].reply = runners[n].reply
      /\ runners'[n].request = None /\ runners'[n].loop = "replying"
      /\ runners'[n].live = runners[n].live
      /\ runners'[n].contexts = runners[n].contexts
  BY <1>r, <1>g DEF RunnerInv, TypeOK, RunnerObject
<1>f. /\ Labels' /\ OneSerial' /\ Fresh' /\ Channel'
      /\ ~Pending(t)' /\ \A u \in Threads : u # t => (Pending(u)' <=> Pending(u))
  BY <1>a, <1>e, <1>t, ProcessFrame
<1>1. TypeOK'
  <2>0. runners[n] \in RunnerObject
    BY DEF RunnerInv, TypeOK
  <2>1. [runners[n] EXCEPT !.contexts = @ \ {}, !.events = @ \ ({} \cup {} \cup {"control"}),
                           !.request = None, !.loop = "replying"] \in RunnerObject
    BY <2>0 DEF RunnerObject
  <2>2. runners' \in [Runners -> RunnerObject]
    BY <1>r, <2>1 DEF RunnerInv, TypeOK
  <2> QED
    BY <1>a, <1>r, <2>2 DEF RunnerInv, TypeOK
<1>2. Locals'
  BY <1>a, <1>r DEF RunnerInv, Locals, Freeing, Stopping
<1>3. Lifetime'
  BY <1>a, <1>c, <1>e, <1>t, ProcessLifetime
<1>4. Ownership'
  <2>1. \A u \in Threads : (InTree(u)' <=> InTree(u)) /\ (Stopping(u)' <=> Stopping(u))
    BY <1>a, <1>c, <1>f DEF InTree, Freeing, Stopping
  <2> QED
    BY <1>a, <1>b, <1>e, <1>r, <2>1 DEF RunnerInv, Ownership
<1>5. RuleOwners'
  <2>1. \A u \in Threads, s \in Rules : HasRule(u, s)' <=> HasRule(u, s)
    BY <1>a, <1>c, <1>f DEF HasRule
  <2> QED
    BY <2>1, <1>a, <1>b, <1>e, <1>r DEF RunnerInv, RuleOwners
<1> QED
  BY <1>1, <1>2, <1>3, <1>4, <1>5, <1>f DEF RunnerInv

\* debug_dump changes nothing but the socket.
LEMMA DebugDumpCbStep ==
    ASSUME OneAtATime, RunnerInv, NEW n \in Runners, Processing(n, "debug_dump"),
           DebugDumpCb(n)
    PROVE  RunnerInv'
<1>t. PICK t \in Threads : t = runners[n].mutex
  BY Receiver DEF Processing
<1>a. /\ runners[n].loop = "running" /\ runners[n].request # None
      /\ UNCHANGED <<pc, call, calls, g_mutex, mutex_init, g_runner, owned, held, home, rule, rules>>
  BY DEF Processing, DebugDumpCb, objVars
<1>b. /\ pc[t] = "recv" /\ n = g_runner /\ g_runner # None
      /\ call[t].func = "debug_dump"
  BY <1>a, <1>t, Receiver DEF Processing
<1>c. call[t].op = "dump"
  BY <1>b, ControlRunner DEF RunnerInv, Labels
<1>r. runners' = [runners EXCEPT ![n] =
            [runners[n] EXCEPT !.request = None, !.loop = "replying"]]
  BY DEF DebugDumpCb
<1>e. /\ \A m \in Runners : m # n => runners'[m] = runners[m]
      /\ runners'[n].mutex = runners[n].mutex /\ runners'[n].reply = runners[n].reply
      /\ runners'[n].request = None /\ runners'[n].loop = "replying"
      /\ runners'[n].live = runners[n].live
      /\ runners'[n].contexts = runners[n].contexts
      /\ runners'[n].events = runners[n].events
  BY <1>r DEF RunnerInv, TypeOK, RunnerObject
<1>f. /\ Labels' /\ OneSerial' /\ Fresh' /\ Channel'
      /\ ~Pending(t)' /\ \A u \in Threads : u # t => (Pending(u)' <=> Pending(u))
  BY <1>a, <1>e, <1>t, ProcessFrame
<1>1. TypeOK'
  <2>0. runners[n] \in RunnerObject
    BY DEF RunnerInv, TypeOK
  <2>1. [runners[n] EXCEPT !.request = None, !.loop = "replying"] \in RunnerObject
    BY <2>0 DEF RunnerObject
  <2>2. runners' \in [Runners -> RunnerObject]
    BY <1>r, <2>1 DEF RunnerInv, TypeOK
  <2> QED
    BY <1>a, <2>2 DEF RunnerInv, TypeOK
<1>2. Locals'
  BY <1>a DEF RunnerInv, Locals, Freeing, Stopping
<1>3. Lifetime'
  BY <1>a, <1>e, <1>t, ProcessLifetime
<1>4. Ownership'
  <2>1. \A u \in Threads : (InTree(u)' <=> InTree(u)) /\ (Stopping(u)' <=> Stopping(u))
    BY <1>a, <1>c, <1>f DEF InTree, Freeing, Stopping
  <2> QED
    BY <1>a, <1>b, <1>e, <2>1 DEF RunnerInv, Ownership
<1>5. RuleOwners'
  <2>1. \A u \in Threads, r \in Rules : HasRule(u, r)' <=> HasRule(u, r)
    BY <1>a, <1>c, <1>f DEF HasRule
  <2> QED
    BY <2>1, <1>a, <1>b, <1>e DEF RunnerInv, RuleOwners
<1> QED
  BY <1>1, <1>2, <1>3, <1>4, <1>5, <1>f DEF RunnerInv

\* runner_control_cb_, function by function.
LEMMA LoopProcessStep ==
    ASSUME OneAtATime, RunnerInv, NEW n \in Runners, LoopProcess(n)
    PROVE  RunnerInv'
<1> DEFINE q == runners[n].request
<1>1. ASSUME NEW f, q.func = f
      PROVE  Processing(n, f)
  BY <1>1 DEF LoopProcess, Processing, globVars, appVars
<1>2. \/ q.func = "add_context" /\ AddContextCb(n, q.ctx)
      \/ q.func = "delete_context" /\ DeleteContextCb(n, q.ctx)
      \/ q.func = "add_rule" /\ AddRuleCb(n, q.rule)
      \/ q.func = "delete_rule" /\ DeleteRuleCb(n, q.rule)
      \/ q.func = "delete_runner" /\ DeleteRunnerCb(n)
      \/ q.func = "debug_dump" /\ DebugDumpCb(n)
  BY DEF LoopProcess
<1> QED
  BY <1>1, <1>2, AddContextCbStep, DeleteContextCbStep, AddRuleCbStep, DeleteRuleCbStep,
     DeleteRunnerCbStep, DebugDumpCbStep

\* The application has the rule that its callback deletes, so no call has it.
LEMMA CallbackDeletesRuleStep ==
    ASSUME OneAtATime, RunnerInv, NEW n \in Runners, NEW r \in Rules, CallbackDeletesRule(n, r)
    PROVE  RunnerInv'
<1> DEFINE c == rule[r].ctx
<1>a. /\ runners[n].loop = "running" /\ r \in held
      /\ UNCHANGED <<pc, call, calls, g_mutex, mutex_init, g_runner, home, owned>>
      /\ runners' = [runners EXCEPT ![n].events = @ \ {r}]
      /\ rules' = [rules EXCEPT ![c] = {s \in @ : ~SameName(r, s)}]
      /\ rule' = [rule EXCEPT ![r] = None]
      /\ held' = held \ {r}
  BY DEF CallbackDeletesRule, globVars
<1>b. rule[r] # None /\ c \in owned /\ c \in Contexts
  BY <1>a DEF RunnerInv, TypeOK, RuleOwners
<1>e. /\ \A m \in Runners : m # n => runners'[m] = runners[m]
      /\ runners'[n].mutex = runners[n].mutex /\ runners'[n].reply = runners[n].reply
      /\ runners'[n].request = runners[n].request /\ runners'[n].loop = runners[n].loop
      /\ runners'[n].live = runners[n].live
      /\ runners'[n].contexts = runners[n].contexts
      /\ runners'[n].events = runners[n].events \ {r}
  BY <1>a DEF RunnerInv, TypeOK, RunnerObject
<1>f. \A u \in Threads : /\ Pending(u)' <=> Pending(u)
                         /\ Stopping(u)' <=> Stopping(u)
                         /\ Starting(u)' <=> Starting(u)
                         /\ InTree(u)' <=> InTree(u)
  <2>1. \A u \in Threads : Pending(u)' <=> Pending(u)
    BY <1>a, <1>e, ControlRunner DEF Pending
  <2> QED
    BY <2>1, <1>a DEF InTree, Freeing, Stopping, Starting
<1>1. TypeOK'
  <2>0. runners[n] \in RunnerObject
    BY DEF RunnerInv, TypeOK
  <2>1. [runners[n] EXCEPT !.events = @ \ {r}] \in RunnerObject
    BY <2>0 DEF RunnerObject
  <2>2. runners' \in [Runners -> RunnerObject]
    BY <1>a, <2>1 DEF RunnerInv, TypeOK
  <2>3. rules' \in [Contexts -> SUBSET Rules] /\ rule' \in [Rules -> Rule \cup {None}]
    BY <1>a, <1>b DEF RunnerInv, TypeOK
  <2> QED
    BY <1>a, <2>2, <2>3 DEF RunnerInv, TypeOK
<1>2. Labels' /\ OneSerial'
  BY <1>a DEF RunnerInv, Labels, OneSerial
<1>3. Locals'
  BY <1>a DEF RunnerInv, Locals, Freeing, Stopping
<1>4. Fresh'
  <2>1. \A u \in Threads : ~Starting(u)
    BY <1>b DEF RunnerInv, Fresh, Ownership
  <2> QED
    BY <2>1, <1>f DEF Fresh
<1>5. Lifetime'
  <2>1. "control" # r
    BY AddressAssumption
  <2>2. \A m \in Runners : /\ runners'[m].live <=> runners[m].live
                           /\ runners'[m].loop = runners[m].loop
                           /\ "control" \in runners[m].events => "control" \in runners'[m].events
    BY <2>1, <1>e
  <2>3. UNCHANGED <<pc, call, g_runner>>
    BY <1>a
  <2> QED
    BY <2>2, <2>3, <1>f, LifetimeFrame DEF RunnerInv, TypeOK
<1>6. Channel'
  <2>1. ASSUME NEW m \in Runners PROVE Socket(m)'
    BY <1>a, <1>e, SocketFrame DEF RunnerInv
  <2>2. \A u \in Threads : pc[u] \in {"recv", "cond_wait"} => call[u].runner \in Runners
    BY ControlRunner DEF RunnerInv, Fresh, Starting
  <2>3. \A m \in Runners : runners'[m].mutex = runners[m].mutex
    BY <1>e
  <2> QED
    BY <2>1, <2>2, <2>3, <1>a DEF RunnerInv, Channel
<1>7. Ownership'
  BY <1>a, <1>e, <1>f DEF RunnerInv, TypeOK, Ownership
<1>8. RuleOwners'
  <2>1. \A u \in Threads, s \in Rules : HasRule(u, s)' <=> HasRule(u, s)
    BY <1>a, <1>f DEF HasRule
  <2>2. \A u \in Threads, s \in Rules : HasRule(u, s) => s # r
    BY <1>a DEF RunnerInv, RuleOwners
  <2>3. SameName(r, r)
    BY DEF SameName
  <2>4. \A d \in Contexts : \A s \in rules'[d] : s \in rules[d] /\ s # r
    BY <2>3, <1>a, <1>b DEF RunnerInv, TypeOK, RuleOwners
  <2>5. \A s \in Rules : s # r => rule'[s] = rule[s]
    BY <1>a DEF RunnerInv, TypeOK
  <2>6. \A d \in Contexts : \A s \in rules'[d] : rule'[s] # None /\ rule'[s].ctx = d
    BY <2>4, <2>5 DEF RunnerInv, TypeOK, RuleOwners
  <2>7. \A s \in held' : s \in held /\ rule'[s] # None /\ rule'[s].ctx \in owned
    BY <2>5, <1>a DEF RunnerInv, TypeOK, RuleOwners
  <2>8. \A d \in Contexts : rules'[d] # {} => g_runner # None /\ d \in runners'[g_runner].contexts
    BY <2>4, <1>e DEF RunnerInv, TypeOK, RuleOwners
  <2> QED
    BY <2>1, <2>2, <2>5, <2>6, <2>7, <2>8, <1>a DEF RunnerInv, RuleOwners
<1> QED
  BY <1>1, <1>2, <1>3, <1>4, <1>5, <1>6, <1>7, <1>8 DEF RunnerInv

-----------------------------------------------------------------------------
(* The invariant, and what follows from it *)

\* The invariant holds before the first call.
LEMMA InitRunnerInv ==
    ASSUME Init
    PROVE  RunnerInv
<1>0. NoCall.op = "none" /\ NoCall \in Call /\ NoRunner \in RunnerObject
  BY DEF NoCall, Call, NoRunner, RunnerObject
<1>1. TypeOK
  <2>1. pc \in [Threads -> Label] /\ call \in [Threads -> Call]
    BY <1>0 DEF Init, Label
  <2>2. calls \in [Threads -> 0 .. MaxCalls]
    BY MaxCallsAssumption DEF Init
  <2>3. runners \in [Runners -> RunnerObject]
    BY <1>0 DEF Init
  <2> QED
    BY <2>1, <2>2, <2>3 DEF Init, TypeOK
<1>2. \A t \in Threads : pc[t] = "idle" /\ call[t].op = "none"
  BY <1>0 DEF Init
<1>3. \A n \in Runners : ~runners[n].live /\ runners[n].loop = "none" /\ runners[n].mutex = None
                         /\ runners[n].request = None
  BY DEF Init, NoRunner
<1>a. \A n \in Runners : runners[n].reply = FALSE
  BY DEF Init, NoRunner
<1>4. Labels /\ Locals /\ Fresh
  BY <1>2 DEF Labels, Locals, Fresh, Starting, Freeing, Stopping
<1>5. OneSerial
  BY <1>2, UsageAssumption DEF OneSerial, Op
<1>6. Lifetime
  BY <1>2, <1>3 DEF Init, Lifetime, Stopping
<1>7. Channel
  BY <1>2, <1>3, <1>a DEF Channel, Socket
<1>8. Ownership
  BY <1>2 DEF Init, Ownership, Stopping
<1>9. RuleOwners
  BY <1>2 DEF Init, RuleOwners, HasRule
<1> QED
  BY <1>1, <1>4, <1>5, <1>6, <1>7, <1>8, <1>9 DEF RunnerInv

\* Every step preserves the invariant.
LEMMA NextRunnerInv ==
    ASSUME OneAtATime, RunnerInv, [Next]_vars
    PROVE  RunnerInv'
<1>1. ASSUME NEW t \in Threads, NewCall(t)
      PROVE  RunnerInv'
  BY <1>1, CreateForwardStep, FreeForwardStep, AddForwardRuleStep, DelForwardRuleStep,
     DebugDumpStep DEF NewCall
<1>2. ASSUME NEW t \in Threads, Continue(t)
      PROVE  RunnerInv'
  BY <1>2, InitMutexStep, CreateLockStep, RunnerNewStep, CondWaitStep, CondReturnStep,
     NewContextStep, CreateUnlockStep, ControlSendStep, ControlRecvStep, FreeCheckStep,
     FreeLockStep, DeleteRunnerStep, JoinStep, FreeUnlockStep DEF Continue
<1>3. ASSUME NEW n \in Runners, Loop(n)
      PROVE  RunnerInv'
  BY <1>3, LoopStartStep, LoopProcessStep, LoopReplyStep, LoopEndStep DEF Loop
<1>4. CASE UNCHANGED vars
  BY <1>4 DEF vars, RunnerInv, TypeOK, Labels, OneSerial, Locals, Fresh, Lifetime, Channel,
     Socket, Ownership, RuleOwners, Starting, Freeing, Stopping, Pending, InTree, HasRule
<1> QED
  BY <1>1, <1>2, <1>3, <1>4, CallbackDeletesRuleStep DEF Next

\* RunnerInv is an invariant: mutexes, socket, trees and pointers agree at every step of
\* every call, as long as create_forward, free_forward and debug_dump do not overlap.
THEOREM RunnerInvariant ==
    ASSUME OneAtATime
    PROVE  Spec => []RunnerInv
<1>1. Init => RunnerInv
  BY InitRunnerInv
<1>2. RunnerInv /\ [Next]_vars => RunnerInv'
  BY NextRunnerInv
<1> QED
  BY <1>1, <1>2, PTL DEF Spec

\* Every reachable state has its type; in particular no request of t2u_runner_control
\* lacks the function or the object that the runner thread reads.
THEOREM TypeCorrect ==
    ASSUME OneAtATime
    PROVE  Spec => []TypeOK
<1>1. RunnerInv => TypeOK
  BY DEF RunnerInv
<1> QED
  BY <1>1, RunnerInvariant, PTL

\* No runner is deleted while a call other than the deleting one uses it: where
\* no free_forward has come that far, g_runner is live and its loop runs.
LEMMA RunnerLive ==
    ASSUME RunnerInv, g_runner # None, \A t \in Threads : ~Stopping(t)
    PROVE  /\ runners[g_runner].live
           /\ runners[g_runner].loop \in {"running", "replying"}
BY DEF RunnerInv, Lifetime

\* A free_forward stops the runner only when the application has no context.
LEMMA InvOwnedUntilFreed ==
    ASSUME RunnerInv
    PROVE  OwnedUntilFreed
<1> SUFFICES ASSUME NEW c \in owned
             PROVE  /\ g_runner # None /\ home[c] = g_runner
                    /\ c \in runners[g_runner].contexts
                    /\ runners[g_runner].loop \in {"running", "replying"}
  BY DEF OwnedUntilFreed
<1>1. \A t \in Threads : ~Stopping(t)
  BY DEF RunnerInv, Ownership
<1>2. g_runner # None /\ home[c] = g_runner /\ c \in runners[g_runner].contexts
  BY DEF RunnerInv, TypeOK, Ownership
<1> QED
  BY <1>1, <1>2, RunnerLive

\* A context that create_forward has returned works until it is passed to
\* free_forward: it is in the tree of g_runner, whose thread is in its loop.
THEOREM ContextsLive ==
    ASSUME OneAtATime
    PROVE  Spec => []OwnedUntilFreed
<1>1. RunnerInv => OwnedUntilFreed
  BY InvOwnedUntilFreed
<1> QED
  BY <1>1, RunnerInvariant, PTL

\* A runner is freed by the one call that can still use it.
LEMMA InvNoUseAfterFree ==
    ASSUME OneAtATime, RunnerInv
    PROVE  NoUseAfterFree
<1>1. ASSUME NEW t \in Threads,
             pc[t] \in {"cond_wait", "waiting", "woken", "control", "recv", "join"}
      PROVE  runners[call[t].runner].live
  <2>1. CASE Starting(t)
    BY <2>1 DEF RunnerInv, Fresh
  <2>2. CASE Stopping(t)
    BY <1>1, <2>2 DEF RunnerInv, Lifetime, Locals
  <2>3. CASE ~Starting(t) /\ ~Stopping(t)
    <3>1. pc[t] \in {"control", "recv"}
      BY <1>1, <2>3 DEF RunnerInv, TypeOK, Labels, Starting, Stopping, Call, Op
    <3>2. call[t].runner = g_runner /\ g_runner # None
      BY <3>1, ControlRunner, NoneAssumption
    <3>3. \A u \in Threads : ~Stopping(u)
      <4> SUFFICES ASSUME NEW u \in Threads, Stopping(u)
                   PROVE  FALSE
        OBVIOUS
      <4>1. call[t].op \in {"none", "add_rule", "del_rule"}
        BY <2>3, OthersQuiet DEF RunnerInv, Stopping
      <4>2. owned = {}
        BY DEF RunnerInv, Ownership
      <4> QED
        BY <3>1, <4>1, <4>2 DEF RunnerInv, Labels, Locals
    <3> QED
      BY <3>2, <3>3, RunnerLive
  <2> QED
    BY <2>1, <2>2, <2>3
<1>2. ASSUME NEW t \in Threads, pc[t] = "free_check", g_runner # None
      PROVE  runners[g_runner].live
  <2>1. Freeing(t) /\ call[t].op = "free"
    BY <1>2 DEF RunnerInv, TypeOK, Labels, Freeing, Call, Op
  <2>2. \A u \in Threads : ~Stopping(u)
    BY <2>1, OthersQuiet DEF RunnerInv, Freeing, Stopping
  <2> QED
    BY <1>2, <2>2, RunnerLive
<1>3. \A n \in Runners : ~runners[n].live => runners[n].loop \in {"none", "ended"}
  BY DEF RunnerInv, Lifetime
<1> QED
  BY <1>1, <1>2, <1>3 DEF NoUseAfterFree

\* No thread uses or waits for a t2u_runner that t2u_delete_runner has freed, and none is
\* freed under its own thread.
THEOREM NoRunnerUsedAfterFree ==
    ASSUME OneAtATime
    PROVE  Spec => []NoUseAfterFree
<1>1. RunnerInv => NoUseAfterFree
  BY InvNoUseAfterFree
<1> QED
  BY <1>1, RunnerInvariant, PTL

\* Without calls the tree has what the application has.
LEMMA InvRunnerWithContexts ==
    ASSUME RunnerInv
    PROVE  RunnerWithContexts
<1> SUFFICES ASSUME \A t \in Threads : pc[t] = "idle"
             PROVE  /\ owned = {} <=> g_runner = None
                    /\ \A n \in Runners : runners[n].live <=> n = g_runner
  BY DEF RunnerWithContexts
<1>1. \A t \in Threads : call[t].op = "none" /\ ~Starting(t) /\ ~Stopping(t)
  BY DEF RunnerInv, Labels, Starting, Stopping
<1>2. owned = {} <=> g_runner = None
  BY <1>1 DEF RunnerInv, Ownership
<1>3. \A n \in Runners : runners[n].live <=> n = g_runner
  BY <1>1, NoneAssumption DEF RunnerInv, Lifetime
<1> QED
  BY <1>2, <1>3

\* Between calls there is a runner just when there is a context: free_forward of the
\* last one stops the runner, create_forward starts at most one.
THEOREM RunnerGoesWithContexts ==
    ASSUME OneAtATime
    PROVE  Spec => []RunnerWithContexts
<1>1. RunnerInv => RunnerWithContexts
  BY InvRunnerWithContexts
<1> QED
  BY <1>1, RunnerInvariant, PTL

\* A runner that has a context is g_runner, and the only one.
LEMMA OnlyRunner ==
    ASSUME RunnerInv, g_runner # None
    PROVE  \A n \in Runners : runners[n].live => n = g_runner
BY DEF RunnerInv, Lifetime, Fresh

\* Two runners are never allocated at once, whatever their number of addresses.
AtMostOneRunner ==
    \A m, n \in Runners : runners[m].live /\ runners[n].live => m = n

\* At most one t2u_runner exists at any time, also while one is being started or
\* stopped: the check of g_runner in create_forward and its reset in free_forward agree.
THEOREM OneRunner ==
    ASSUME OneAtATime
    PROVE  Spec => []AtMostOneRunner
<1>1. ASSUME RunnerInv, NEW m \in Runners, NEW n \in Runners, runners[m].live, runners[n].live
      PROVE  m = n
  <2>1. CASE g_runner # None
    BY <1>1, <2>1, OnlyRunner
  <2>2. CASE g_runner = None
    <3>1. PICK t \in Threads : Starting(t) /\ call[t].runner = m
      BY <1>1, <2>2, NoneAssumption DEF RunnerInv, Lifetime
    <3>2. PICK u \in Threads : Starting(u) /\ call[u].runner = n
      BY <1>1, <2>2, NoneAssumption DEF RunnerInv, Lifetime
    <3>3. call[t].op = "create"
      BY <1>1, <3>1 DEF RunnerInv, TypeOK, Labels, Starting, Call, Op
    <3>4. t = u
      BY <1>1, <3>2, <3>3, OthersQuiet DEF RunnerInv
    <3> QED
      BY <3>1, <3>2, <3>4
  <2> QED
    BY <2>1, <2>2
<1>2. RunnerInv => AtMostOneRunner
  BY <1>1 DEF AtMostOneRunner
<1> QED
  BY <1>2, RunnerInvariant, PTL

-----------------------------------------------------------------------------
(* The events libevent watches, where no context has two rules of one name *)

\* What EventsBelong says of one runner.
Watched(n) ==
    \A e \in Event : e # "control" =>
        (e \in runners[n].events <=>
            \/ e \in runners[n].contexts
            \/ \E c \in runners[n].contexts :
                 e \in rules[c] /\ rule[e] # None /\ rule[e].mode = "client")

\* EventsBelong, event by event.
AllWatched == \A n \in Runners : runners[n].live => Watched(n)

\* The equality of sets in EventsBelong, for each event on its own.
LEMMA EventsWatched == TypeOK => (EventsBelong <=> AllWatched)
<1> SUFFICES ASSUME TypeOK, NEW n \in Runners
             PROVE  Watched(n) <=>
                      runners[n].events \ {"control"} =
                        runners[n].contexts \cup
                        {r \in UNION {rules[c] : c \in runners[n].contexts} :
                            rule[r] # None /\ rule[r].mode = "client"}
  BY DEF EventsBelong, AllWatched
<1>1. /\ runners[n].events \subseteq Event /\ runners[n].contexts \subseteq Contexts
      /\ \A c \in Contexts : rules[c] \subseteq Rules
  BY RunnerFields DEF TypeOK
<1>2. "control" \notin Contexts /\ "control" \notin Rules
  BY AddressAssumption
<1>3. \A e : e \in runners[n].contexts \cup
                {r \in UNION {rules[c] : c \in runners[n].contexts} :
                    rule[r] # None /\ rule[r].mode = "client"}
               <=> \/ e \in runners[n].contexts
                   \/ \E c \in runners[n].contexts :
                        e \in rules[c] /\ rule[e] # None /\ rule[e].mode = "client"
  OBVIOUS
<1>4. \A e : (\/ e \in runners[n].contexts
              \/ \E c \in runners[n].contexts :
                   e \in rules[c] /\ rule[e] # None /\ rule[e].mode = "client")
             => e \in Event /\ e # "control"
  BY <1>1, <1>2 DEF Event
<1> QED
  BY <1>1, <1>3, <1>4 DEF Watched

\* ... and after a step.
LEMMA EventsWatchedNext == TypeOK' => (EventsBelong' <=> AllWatched')
BY EventsWatched, PTL

\* Nothing changes for libevent.
LEMMA EventsFrame ==
    ASSUME EventsInv, UNCHANGED <<rule, rules>>,
           \A n \in Runners : runners'[n].live =>
             /\ runners[n].live
             /\ runners'[n].contexts = runners[n].contexts
             /\ runners'[n].events \ {"control"} = runners[n].events \ {"control"}
    PROVE  EventsInv'
<1>1. NamesDiffer'
  BY DEF EventsInv, NamesDiffer
<1>2. ASSUME NEW n \in Runners, runners'[n].live
      PROVE  runners'[n].events \ {"control"} =
               runners'[n].contexts \cup
               {r \in UNION {rules'[c] : c \in runners'[n].contexts} :
                   rule'[r] # None /\ rule'[r].mode = "client"}
  BY <1>2 DEF EventsInv, EventsBelong
<1> QED
  BY <1>1, <1>2 DEF EventsInv, EventsBelong

\* Rules that are freed have no name any more.
LEMMA NamesFrame ==
    ASSUME NamesDiffer, \A r \in Rules : rule'[r] = rule[r] \/ rule'[r] = None
    PROVE  NamesDiffer'
BY DEF NamesDiffer

\* While g_runner is the only one, what it watches is all that matters.
LEMMA OneWatched ==
    ASSUME RunnerInv, TypeOK', EventsInv, NEW n \in Runners, n = g_runner,
           \A m \in Runners : m # n => runners'[m] = runners[m],
           NamesDiffer', Watched(n)'
    PROVE  EventsInv'
<1>1. \A m \in Runners : m # n => ~runners[m].live
  BY OnlyRunner, NoneAssumption
<1>2. AllWatched'
  BY <1>1 DEF AllWatched
<1> QED
  BY <1>2, EventsWatchedNext DEF EventsInv

\* The steps of a thread that touch neither the events nor the rules.
LEMMA QuietEvents ==
    ASSUME RunnerInv, EventsInv, NEW t \in Threads,
           \/ CreateForward(t) \/ \E c \in Contexts : FreeForward(t, c)
           \/ \E r \in Rules : DelForwardRule(t, r)
           \/ DebugDump(t) \/ InitMutex(t) \/ CreateLock(t) \/ CondReturn(t) \/ NewContext(t)
           \/ CreateUnlock(t) \/ FreeCheck(t) \/ FreeLock(t) \/ DeleteRunner(t) \/ FreeUnlock(t)
    PROVE  EventsInv'
<1>1. UNCHANGED <<runners, rule, rules>>
  BY DEF CreateForward, FreeForward, DelForwardRule, DebugDump, InitMutex, CreateLock, CondReturn,
     NewContext, CreateUnlock, FreeCheck, FreeLock, DeleteRunner, FreeUnlock, objVars
<1> QED
  BY <1>1, EventsFrame

\* ... and those at the runner's mutex, its socket and its loop.
LEMMA SocketEvents ==
    ASSUME RunnerInv, EventsInv,
           \/ \E t \in Threads : CondWait(t) \/ ControlSend(t) \/ ControlRecv(t) \/ Join(t)
           \/ \E n \in Runners : LoopStart(n) \/ LoopReply(n) \/ LoopEnd(n)
    PROVE  EventsInv'
<1>0. \A n \in Runners : runners[n] \in RunnerObject
  BY DEF RunnerInv, TypeOK
<1>1. ASSUME NEW t \in Threads, CondWait(t) \/ ControlSend(t) \/ ControlRecv(t)
      PROVE  EventsInv'
  <2>1. /\ UNCHANGED <<rule, rules>>
        /\ \A n \in Runners : /\ runners'[n].live = runners[n].live
                              /\ runners'[n].contexts = runners[n].contexts
                              /\ runners'[n].events = runners[n].events
    <3>1. CASE CondWait(t)
      BY <1>0, <3>1 DEF CondWait, objVars, RunnerInv, TypeOK, RunnerObject
    <3>2. CASE ControlSend(t)
      <4> DEFINE m == call[t].runner
                 q == [func |-> call[t].func, ctx |-> call[t].ctx, rule |-> call[t].rule]
      <4>1. /\ runners' = [runners EXCEPT ![m] = [runners[m] EXCEPT !.mutex = t, !.request = q]]
            /\ UNCHANGED <<rule, rules>>
        BY <3>2 DEF ControlSend, objVars
      <4> HIDE DEF q
      <4> QED
        BY <1>0, <4>1 DEF RunnerInv, TypeOK, RunnerObject
    <3>3. CASE ControlRecv(t)
      BY <1>0, <3>3 DEF ControlRecv, objVars, RunnerInv, TypeOK, RunnerObject
    <3> QED
      BY <1>1, <3>1, <3>2, <3>3
  <2> QED
    BY <2>1, EventsFrame
<1>2. ASSUME NEW t \in Threads, Join(t)
      PROVE  EventsInv'
  <2>1. /\ UNCHANGED <<rule, rules>>
        /\ runners' = [runners EXCEPT ![call[t].runner].live = FALSE]
    BY <1>2 DEF Join, objVars
  <2>2. \A n \in Runners : /\ runners'[n].live => runners[n].live
                           /\ runners'[n].contexts = runners[n].contexts
                           /\ runners'[n].events = runners[n].events
    BY <1>0, <2>1 DEF RunnerInv, TypeOK, RunnerObject
  <2> QED
    BY <2>1, <2>2, EventsFrame
<1>3. ASSUME NEW m \in Runners, LoopStart(m) \/ LoopReply(m) \/ LoopEnd(m)
      PROVE  EventsInv'
  <2>1. /\ UNCHANGED <<rule, rules>>
        /\ \A n \in Runners : /\ runners'[n].live = runners[n].live
                              /\ runners'[n].contexts = runners[n].contexts
                              /\ runners'[n].events = runners[n].events
    <3>1. CASE LoopStart(m)
      BY <1>0, <3>1 DEF LoopStart, objVars, RunnerInv, TypeOK, RunnerObject
    <3>2. CASE LoopReply(m)
      BY <1>0, <3>2 DEF LoopReply, objVars, RunnerInv, TypeOK, RunnerObject
    <3>3. CASE LoopEnd(m)
      BY <1>0, <3>3 DEF LoopEnd, objVars, RunnerInv, TypeOK, RunnerObject
    <3> QED
      BY <1>3, <3>1, <3>2, <3>3
  <2> QED
    BY <2>1, EventsFrame
<1> QED
  BY <1>1, <1>2, <1>3

\* A new runner watches its control socket only.
LEMMA RunnerNewEvents ==
    ASSUME RunnerInv, RunnerInv', EventsInv, NEW t \in Threads, RunnerNew(t)
    PROVE  EventsInv'
<1>1. PICK n \in Runners :
        /\ ~runners[n].live
        /\ runners' = [runners EXCEPT ![n] =
                [live |-> TRUE, mutex |-> t, loop |-> "created", contexts |-> {},
                 events |-> {"control"}, request |-> None, reply |-> FALSE]]
        /\ call' = [call EXCEPT ![t].runner = n]
  BY DEF RunnerNew, NewRunner
<1>2. UNCHANGED <<rule, rules>>
  BY DEF RunnerNew, objVars
<1>3. Watched(n)'
  BY <1>1 DEF Watched, RunnerInv, TypeOK
<1>4. \A m \in Runners : m # n => runners'[m] = runners[m]
  BY <1>1 DEF RunnerInv, TypeOK
<1>5. \A m \in Runners : runners[m].live => Watched(m)
  BY EventsWatched DEF RunnerInv, EventsInv, AllWatched
<1>6. \A m \in Runners : runners'[m].live => Watched(m)'
  BY <1>2, <1>3, <1>4, <1>5 DEF Watched
<1>7. EventsBelong'
  BY <1>6, EventsWatchedNext DEF RunnerInv, AllWatched
<1> QED
  BY <1>2, <1>7 DEF EventsInv, NamesDiffer

\* A rule that is not in a tree yet is not watched, and has a name of its own.
LEMMA AddForwardRuleEvents ==
    ASSUME DistinctNames, RunnerInv, RunnerInv', EventsInv, NEW t \in Threads, NEW c \in Contexts,
           NEW v \in Names, NEW mode \in {"client", "server"}, AddForwardRule(t, c, v, mode)
    PROVE  EventsInv'
<1>1. PICK r \in Rules : /\ rule[r] = None
                         /\ rule' = [rule EXCEPT ![r] = [ctx |-> c, name |-> v, mode |-> mode]]
  BY DEF AddForwardRule
<1>2. UNCHANGED <<runners, rules>>
  BY DEF AddForwardRule
<1>3. \A s \in Rules : rule[s] # None => rule[s].ctx # c \/ rule[s].name # v
  BY DEF AddForwardRule
<1>4. /\ rule'[r].ctx = c /\ rule'[r].name = v
      /\ \A s \in Rules : s # r => rule'[s] = rule[s]
  BY <1>1 DEF RunnerInv, TypeOK
<1>5. NamesDiffer'
  BY <1>3, <1>4 DEF EventsInv, NamesDiffer
<1>6. \A d \in Contexts : r \notin rules[d] /\ rules[d] \subseteq Rules
  BY <1>1 DEF RunnerInv, TypeOK, RuleOwners
<1>7. \A n \in Runners : runners[n].live => Watched(n)
  BY EventsWatched DEF RunnerInv, EventsInv, AllWatched
<1>8. \A n \in Runners : Watched(n) => Watched(n)'
  <2>1. \A n \in Runners : runners[n].contexts \subseteq Contexts
    BY RunnerFields DEF RunnerInv
  <2> QED
    BY <1>2, <1>4, <1>6, <2>1 DEF Watched
<1>9. \A n \in Runners : runners'[n].live => Watched(n)'
  BY <1>2, <1>7, <1>8
<1>10. EventsBelong'
  BY <1>9, EventsWatchedNext DEF RunnerInv, AllWatched
<1> QED
  BY <1>5, <1>10 DEF EventsInv

\* The runner thread works for g_runner, and is watched.
LEMMA ProcessWatched ==
    ASSUME RunnerInv, EventsInv, NEW n \in Runners, NEW f, Processing(n, f)
    PROVE  n = g_runner /\ g_runner # None /\ Watched(n)
<1>1. n = g_runner /\ g_runner # None
  BY Receiver DEF Processing
<1>2. runners[n].live
  BY DEF Processing, RunnerInv, Lifetime
<1> QED
  BY <1>1, <1>2, EventsWatched DEF RunnerInv, EventsInv, AllWatched

\* A context comes into the tree without rules.
LEMMA AddContextCbEvents ==
    ASSUME OneAtATime, RunnerInv, TypeOK', EventsInv, NEW n \in Runners,
           Processing(n, "add_context"), AddContextCb(n, runners[n].request.ctx)
    PROVE  EventsInv'
<1>t. PICK t \in Threads : t = runners[n].mutex
  BY Receiver DEF Processing
<1> DEFINE c == call[t].ctx
<1>1. /\ pc[t] = "recv" /\ n = g_runner /\ g_runner # None /\ Pending(t)
      /\ call[t].func = "add_context" /\ runners[n].request.ctx = c
  BY <1>t, Receiver DEF Processing
<1>2. call[t].op = "create" /\ c \in Contexts \ owned
  BY <1>1, ControlRunner DEF RunnerInv, Labels, Locals
<1>3. \A u \in Threads : ~InTree(u)
  <2>1. \A u \in Threads : u # t => ~InTree(u)
    BY <1>2, OthersQuiet DEF RunnerInv
  <2>2. ~InTree(t)
    BY <1>1, <1>2 DEF InTree, Freeing
  <2> QED
    BY <2>1, <2>2
<1>4. rules[c] = {}
  BY <1>1, <1>2, <1>3 DEF RunnerInv, Ownership, RuleOwners
<1>5. /\ \A m \in Runners : m # n => runners'[m] = runners[m]
      /\ runners'[n].contexts = runners[n].contexts \cup {c}
      /\ runners'[n].events = runners[n].events \cup {c}
      /\ UNCHANGED <<rule, rules>>
  BY <1>1 DEF AddContextCb, objVars, RunnerInv, TypeOK, RunnerObject
<1>6. Watched(n)'
  BY <1>4, <1>5, ProcessWatched DEF Watched
<1>7. NamesDiffer'
  BY <1>5 DEF EventsInv, NamesDiffer
<1> QED
  BY <1>1, <1>5, <1>6, <1>7, OneWatched

\* The events of the context and of its rules go, those of the others stay.
LEMMA DeleteContextCbEvents ==
    ASSUME OneAtATime, RunnerInv, TypeOK', EventsInv, NEW n \in Runners,
           Processing(n, "delete_context"), DeleteContextCb(n, runners[n].request.ctx)
    PROVE  EventsInv'
<1>t. PICK t \in Threads : t = runners[n].mutex
  BY Receiver DEF Processing
<1> DEFINE c == call[t].ctx
<1>1. /\ pc[t] = "recv" /\ n = g_runner /\ g_runner # None
      /\ call[t].func = "delete_context" /\ runners[n].request.ctx = c
  BY <1>t, Receiver DEF Processing
<1>2. c \in Contexts
  BY <1>1, ControlRunner DEF RunnerInv, Labels, Locals, Freeing
<1>3. /\ runners' = [runners EXCEPT ![n] =
               [runners[n] EXCEPT !.contexts = @ \ {c},
                                  !.events = @ \ ({c} \cup rules[c] \cup {}),
                                  !.request = None, !.loop = "replying"]]
      /\ rule' = [r \in Rules |-> IF r \in rules[c] THEN None ELSE rule[r]]
      /\ rules' = [d \in Contexts |-> IF d = c THEN {} ELSE rules[d]]
  <2>1. UNION {rules[d] : d \in {c}} = rules[c]
    OBVIOUS
  <2> QED
    BY <1>1, <2>1 DEF DeleteContextCb, DeleteContexts
<1>4. /\ \A m \in Runners : m # n => runners'[m] = runners[m]
      /\ runners'[n].contexts = runners[n].contexts \ {c}
      /\ runners'[n].events = runners[n].events \ ({c} \cup rules[c])
  BY <1>3 DEF RunnerInv, TypeOK, RunnerObject
<1>5. \A d \in Contexts : \A r \in rules[d] : r \in Rules /\ rule[r].ctx = d /\ r \notin Contexts
  BY AddressAssumption DEF RunnerInv, TypeOK, RuleOwners
<1>6. \A d \in Contexts : d # c => \A r \in rules[d] : r \notin rules[c] /\ rule'[r] = rule[r]
  BY <1>2, <1>3, <1>5
<1>7. Watched(n)'
  <2>1. Watched(n) /\ runners[n].contexts \subseteq Contexts
    BY ProcessWatched, RunnerFields DEF RunnerInv
  <2>2. \A d \in Contexts : rules'[d] = IF d = c THEN {} ELSE rules[d]
    BY <1>3
  <2>3. ASSUME NEW e \in Event, e # "control", e \in runners'[n].events
        PROVE  \/ e \in runners'[n].contexts
               \/ \E d \in runners'[n].contexts :
                    e \in rules'[d] /\ rule'[e] # None /\ rule'[e].mode = "client"
    <3>1. e \in runners[n].events /\ e # c /\ e \notin rules[c]
      BY <2>3, <1>4
    <3>2. CASE e \in runners[n].contexts
      BY <3>1, <3>2, <1>4
    <3>3. ASSUME NEW d \in runners[n].contexts,
                 e \in rules[d] /\ rule[e] # None /\ rule[e].mode = "client"
          PROVE  \E b \in runners'[n].contexts :
                    e \in rules'[b] /\ rule'[e] # None /\ rule'[e].mode = "client"
      BY <3>1, <3>3, <2>1, <2>2, <1>4, <1>6
    <3> QED
      BY <2>1, <2>3, <3>1, <3>2, <3>3 DEF Watched
  <2>4. ASSUME NEW e \in Event, e # "control",
               \/ e \in runners'[n].contexts
               \/ \E d \in runners'[n].contexts :
                    e \in rules'[d] /\ rule'[e] # None /\ rule'[e].mode = "client"
        PROVE  e \in runners'[n].events
    <3>1. CASE e \in runners'[n].contexts
      <4>1. e \in runners[n].contexts /\ e # c /\ e \notin rules[c]
        BY <3>1, <2>1, <1>2, <1>4, <1>5
      <4> QED
        BY <4>1, <2>1, <2>4, <1>4 DEF Watched
    <3>2. ASSUME NEW d \in runners'[n].contexts,
                 e \in rules'[d] /\ rule'[e] # None /\ rule'[e].mode = "client"
          PROVE  e \in runners'[n].events
      <4>1. d \in runners[n].contexts /\ d # c /\ e \in rules[d]
        BY <3>2, <2>1, <2>2, <1>4
      <4>2. e \notin rules[c] /\ rule'[e] = rule[e] /\ e # c
        BY <4>1, <2>1, <1>2, <1>5, <1>6
      <4> QED
        BY <4>1, <4>2, <3>2, <2>1, <2>4, <1>4 DEF Watched
    <3> QED
      BY <2>4, <3>1, <3>2
  <2> QED
    BY <2>3, <2>4 DEF Watched
<1>8. NamesDiffer'
  BY <1>3, NamesFrame DEF EventsInv
<1> QED
  BY <1>1, <1>4, <1>7, <1>8, OneWatched

\* The tree takes the rule, as no other has its name.
LEMMA AddRuleCbEvents ==
    ASSUME RunnerInv, TypeOK', EventsInv, NEW n \in Runners,
           Processing(n, "add_rule"), AddRuleCb(n, runners[n].request.rule)
    PROVE  EventsInv'
<1>t. PICK t \in Threads : t = runners[n].mutex
  BY Receiver DEF Processing
<1> DEFINE r == call[t].rule
           c == call[t].ctx
<1>1. /\ pc[t] = "recv" /\ n = g_runner /\ g_runner # None
      /\ call[t].func = "add_rule" /\ runners[n].request.rule = r
  BY <1>t, Receiver DEF Processing
<1>2. call[t].op = "add_rule" /\ r \in Rules /\ c \in owned /\ c \in Contexts
  BY <1>1, ControlRunner DEF RunnerInv, TypeOK, Labels, Locals
<1>3. rule[r] # None /\ rule[r].ctx = c /\ c \in runners[n].contexts
  BY <1>1, <1>2 DEF RunnerInv, RuleOwners, HasRule, Ownership
<1>4. /\ \A m \in Runners : m # n => runners'[m] = runners[m]
      /\ runners'[n].contexts = runners[n].contexts
      /\ runners'[n].events = runners[n].events \cup AddRuleEvents(r)
      /\ rules' = AddRuleTree(r) /\ UNCHANGED rule
  BY <1>1 DEF AddRuleCb, RunnerInv, TypeOK, RunnerObject
<1>5. \A s \in rules[c] : SameName(r, s) => s = r
  BY <1>2, <1>3 DEF EventsInv, NamesDiffer, SameName, RunnerInv, TypeOK, RuleOwners
<1>6. \A d \in Contexts : rules'[d] = IF d = c THEN rules[c] \cup {r} ELSE rules[d]
  <2>1. CASE \E s \in rules[c] : SameName(r, s)
    <3>1. rules' = rules /\ r \in rules[c]
      BY <2>1, <1>3, <1>4, <1>5 DEF AddRuleTree
    <3> QED
      BY <3>1
  <2>2. CASE ~\E s \in rules[c] : SameName(r, s)
    <3>1. rules' = [rules EXCEPT ![c] = @ \cup {r}]
      BY <2>2, <1>3, <1>4 DEF AddRuleTree
    <3> QED
      BY <3>1 DEF RunnerInv, TypeOK
  <2> QED
    BY <2>1, <2>2
<1>7. Watched(n)'
  <2>1. Watched(n) /\ runners[n].contexts \subseteq Contexts
    BY ProcessWatched, RunnerFields DEF RunnerInv
  <2>2. \A e : e \in AddRuleEvents(r) <=> e = r /\ rule[e].mode = "client"
    BY DEF AddRuleEvents
  <2> QED
    BY <2>1, <2>2, <1>3, <1>4, <1>6 DEF Watched
<1>8. NamesDiffer'
  BY <1>4 DEF EventsInv, NamesDiffer
<1> QED
  BY <1>1, <1>4, <1>7, <1>8, OneWatched

\* A rule is deleted, on request or by a callback: under a name of its own it is
\* the rule the tree loses.
LEMMA RuleGoneEvents ==
    ASSUME RunnerInv, TypeOK', EventsInv, NEW n \in Runners, n = g_runner, Watched(n),
           NEW r \in Rules, rule[r] # None, rule[r].ctx \in Contexts,
           \A m \in Runners : m # n => runners'[m] = runners[m],
           runners'[n].contexts = runners[n].contexts,
           runners'[n].events = runners[n].events \ {r},
           rules' = [rules EXCEPT ![rule[r].ctx] = {s \in @ : ~SameName(r, s)}],
           rule' = [rule EXCEPT ![r] = None]
    PROVE  EventsInv'
<1> DEFINE c == rule[r].ctx
<1>1. \A s \in rules[c] : SameName(r, s) <=> s = r
  BY DEF EventsInv, NamesDiffer, SameName, RunnerInv, TypeOK, RuleOwners
<1>2. \A d \in Contexts : rules'[d] = rules[d] \ {r}
  <2>1. rules'[c] = rules[c] \ {r}
    BY <1>1 DEF RunnerInv, TypeOK
  <2>2. \A d \in Contexts : d # c => rules'[d] = rules[d] /\ r \notin rules[d]
    BY DEF RunnerInv, TypeOK, RuleOwners
  <2> QED
    BY <2>1, <2>2
<1>3. \A s \in Rules : s # r => rule'[s] = rule[s]
  BY DEF RunnerInv, TypeOK
<1>4. Watched(n)'
  <2>1. runners[n].contexts \subseteq Contexts /\ r \notin Contexts
    BY RunnerFields, AddressAssumption DEF RunnerInv
  <2>2. \A d \in Contexts : rules[d] \subseteq Rules
    BY DEF RunnerInv, TypeOK
  <2> QED
    BY <2>1, <2>2, <1>2, <1>3 DEF Watched
<1>5. NamesDiffer'
  BY <1>3, NamesFrame DEF EventsInv, RunnerInv, TypeOK
<1> QED
  BY <1>4, <1>5, OneWatched

\* del_forward_rule.
LEMMA DeleteRuleCbEvents ==
    ASSUME RunnerInv, TypeOK', EventsInv, NEW n \in Runners,
           Processing(n, "delete_rule"), DeleteRuleCb(n, runners[n].request.rule)
    PROVE  EventsInv'
<1>t. PICK t \in Threads : t = runners[n].mutex
  BY Receiver DEF Processing
<1> DEFINE r == call[t].rule
<1>1. /\ pc[t] = "recv" /\ Pending(t)
      /\ call[t].func = "delete_rule" /\ runners[n].request.rule = r
  BY <1>t, Receiver DEF Processing
<1>2. call[t].op = "del_rule" /\ r \in Rules /\ call[t].ctx \in Contexts
  BY <1>1, ControlRunner DEF RunnerInv, TypeOK, Labels, Locals
<1>3. rule[r] # None /\ rule[r].ctx \in Contexts
  BY <1>1, <1>2 DEF RunnerInv, RuleOwners, HasRule
<1>4. /\ \A m \in Runners : m # n => runners'[m] = runners[m]
      /\ runners'[n].contexts = runners[n].contexts
      /\ runners'[n].events = runners[n].events \ {r}
  BY <1>1 DEF DeleteRuleCb, RunnerInv, TypeOK, RunnerObject
<1>5. /\ rules' = [rules EXCEPT ![rule[r].ctx] = {s \in @ : ~SameName(r, s)}]
      /\ rule' = [rule EXCEPT ![r] = None]
  BY <1>1 DEF DeleteRuleCb
<1> QED
  BY <1>2, <1>3, <1>4, <1>5, ProcessWatched, RuleGoneEvents

\* A rule deleted in the unknown callback.
LEMMA CallbackDeletesRuleEvents ==
    ASSUME RunnerInv, TypeOK', EventsInv, NEW n \in Runners, NEW r \in Rules,
           CallbackDeletesRule(n, r)
    PROVE  EventsInv'
<1>1. rule[r] # None /\ rule[r].ctx \in Contexts /\ g_runner # None
  BY DEF CallbackDeletesRule, RunnerInv, TypeOK, RuleOwners, Ownership
<1>2. runners[n].live
  BY DEF CallbackDeletesRule, RunnerInv, Lifetime
<1>3. n = g_runner /\ Watched(n)
  BY <1>1, <1>2, OnlyRunner, EventsWatched DEF RunnerInv, EventsInv, AllWatched
<1>4. /\ \A m \in Runners : m # n => runners'[m] = runners[m]
      /\ runners'[n].contexts = runners[n].contexts
      /\ runners'[n].events = runners[n].events \ {r}
  BY DEF CallbackDeletesRule, RunnerInv, TypeOK, RunnerObject
<1>5. /\ rules' = [rules EXCEPT ![rule[r].ctx] = {s \in @ : ~SameName(r, s)}]
      /\ rule' = [rule EXCEPT ![r] = None]
  BY DEF CallbackDeletesRule
<1> QED
  BY <1>1, <1>3, <1>4, <1>5, RuleGoneEvents

\* The control socket is the last that was watched.
LEMMA DeleteRunnerCbEvents ==
    ASSUME OneAtATime, RunnerInv, EventsInv, NEW n \in Runners,
           Processing(n, "delete_runner"), DeleteRunnerCb(n)
    PROVE  EventsInv'
<1>t. PICK t \in Threads : t = runners[n].mutex
  BY Receiver DEF Processing
<1>1. pc[t] = "recv" /\ n = g_runner /\ g_runner # None /\ call[t].func = "delete_runner"
  BY <1>t, Receiver DEF Processing
<1>2. call[t].op = "free" /\ Stopping(t) /\ owned = {}
  BY <1>1, ControlRunner DEF RunnerInv, Labels, Ownership, Stopping
<1>3. runners[n].contexts = {}
  <2>1. \A u \in Threads : u # t => ~InTree(u)
    BY <1>2, OthersQuiet DEF RunnerInv
  <2>2. ~InTree(t)
    BY <1>2 DEF InTree, Freeing, Stopping
  <2> QED
    BY <2>1, <2>2, <1>1, <1>2, RunnerFields DEF RunnerInv, Ownership
<1>4. UNION {rules[d] : d \in {}} = {}
  OBVIOUS
<1>5. /\ runners' = [runners EXCEPT ![n] =
               [runners[n] EXCEPT !.contexts = @ \ {},
                                  !.events = @ \ ({} \cup {} \cup {"control"}),
                                  !.request = None, !.loop = "replying"]]
      /\ rule' = [r \in Rules |-> IF r \in {} THEN None ELSE rule[r]]
      /\ rules' = [d \in Contexts |-> IF d \in {} THEN {} ELSE rules[d]]
  BY <1>3, <1>4 DEF DeleteRunnerCb, DeleteContexts
<1>6. UNCHANGED <<rule, rules>>
  BY <1>5 DEF RunnerInv, TypeOK
<1>7. \A m \in Runners : /\ runners'[m].live = runners[m].live
                         /\ runners'[m].contexts = runners[m].contexts
                         /\ runners'[m].events \ {"control"} = runners[m].events \ {"control"}
  BY <1>5 DEF RunnerInv, TypeOK, RunnerObject
<1> QED
  BY <1>6, <1>7, EventsFrame

\* debug_dump.
LEMMA DebugDumpCbEvents ==
    ASSUME RunnerInv, EventsInv, NEW n \in Runners, DebugDumpCb(n)
    PROVE  EventsInv'
<1>1. /\ UNCHANGED <<rule, rules>>
      /\ \A m \in Runners : /\ runners'[m].live = runners[m].live
                            /\ runners'[m].contexts = runners[m].contexts
                            /\ runners'[m].events = runners[m].events
  BY DEF DebugDumpCb, objVars, RunnerInv, TypeOK, RunnerObject
<1> QED
  BY <1>1, EventsFrame

\* runner_control_cb_, function by function.
LEMMA LoopProcessEvents ==
    ASSUME OneAtATime, RunnerInv, TypeOK', EventsInv, NEW n \in Runners, LoopProcess(n)
    PROVE  EventsInv'
<1> DEFINE q == runners[n].request
<1>1. ASSUME NEW f, q.func = f
      PROVE  Processing(n, f)
  BY <1>1 DEF LoopProcess, Processing, globVars, appVars
<1>2. \/ q.func = "add_context" /\ AddContextCb(n, q.ctx)
      \/ q.func = "delete_context" /\ DeleteContextCb(n, q.ctx)
      \/ q.func = "add_rule" /\ AddRuleCb(n, q.rule)
      \/ q.func = "delete_rule" /\ DeleteRuleCb(n, q.rule)
      \/ q.func = "delete_runner" /\ DeleteRunnerCb(n)
      \/ q.func = "debug_dump" /\ DebugDumpCb(n)
  BY DEF LoopProcess
<1> QED
  BY <1>1, <1>2, AddContextCbEvents, DeleteContextCbEvents, AddRuleCbEvents, DeleteRuleCbEvents,
     DeleteRunnerCbEvents, DebugDumpCbEvents

\* There is no runner yet.
LEMMA InitEventsInv ==
    ASSUME Init
    PROVE  EventsInv
BY DEF Init, NoRunner, EventsInv, EventsBelong, NamesDiffer

\* Every step preserves what is watched.
LEMMA NextEventsInv ==
    ASSUME OneAtATime, DistinctNames, RunnerInv, EventsInv, [Next]_vars
    PROVE  EventsInv'
<1>0. RunnerInv' /\ TypeOK'
  <2>1. RunnerInv'
    BY NextRunnerInv
  <2> QED
    BY <2>1 DEF RunnerInv
<1>1. ASSUME NEW t \in Threads, NewCall(t)
      PROVE  EventsInv'
  BY <1>0, <1>1, QuietEvents, AddForwardRuleEvents DEF NewCall
<1>2. ASSUME NEW t \in Threads, Continue(t)
      PROVE  EventsInv'
  BY <1>0, <1>2, QuietEvents, SocketEvents, RunnerNewEvents DEF Continue
<1>3. ASSUME NEW n \in Runners, Loop(n)
      PROVE  EventsInv'
  BY <1>0, <1>3, SocketEvents, LoopProcessEvents DEF Loop
<1>4. CASE UNCHANGED vars
  BY <1>4, EventsFrame DEF vars
<1> QED
  BY <1>0, <1>1, <1>2, <1>3, <1>4, CallbackDeletesRuleEvents DEF Next

\* The two invariants together.
LEMMA EventsInvariant ==
    ASSUME OneAtATime, DistinctNames
    PROVE  Spec => [](RunnerInv /\ EventsInv)
<1>1. Init => RunnerInv /\ EventsInv
  BY InitRunnerInv, InitEventsInv
<1>2. RunnerInv /\ EventsInv /\ [Next]_vars => (RunnerInv /\ EventsInv)'
  BY NextRunnerInv, NextEventsInv
<1> QED
  BY <1>1, <1>2, PTL DEF Spec

\* libevent watches the socket of every context, the listening socket of every
\* client-mode rule in a tree, and nothing that was freed, where no context is given two
\* rules of one name.
THEOREM WatchesWhatExists ==
    ASSUME OneAtATime, DistinctNames
    PROVE  Spec => []EventsBelong
<1>1. EventsInv => EventsBelong
  BY DEF EventsInv
<1> QED
  BY <1>1, EventsInvariant, PTL

\* A free_forward that has come to t2u_delete_runner has seen an empty tree.
LEMMA InvNoEventsBind ==
    ASSUME OneAtATime, RunnerInv, EventsInv
    PROVE  NoEventsBind
<1> SUFFICES ASSUME NEW t \in Threads, pc[t] = "delete_runner", g_runner # None
             PROVE  runners[g_runner].events \subseteq {"control"}
  BY DEF NoEventsBind
<1>1. call[t].op = "free" /\ Freeing(t) /\ owned = {} /\ ~Pending(t)
  BY DEF RunnerInv, TypeOK, Labels, Ownership, Freeing, Call, Op, Pending
<1>2. \A u \in Threads : ~InTree(u) /\ ~Stopping(u)
  <2>1. \A u \in Threads : u # t => ~InTree(u) /\ ~Stopping(u)
    BY <1>1, OthersQuiet DEF RunnerInv
  <2>2. ~InTree(t) /\ ~Stopping(t)
    BY <1>1 DEF InTree, Freeing, Stopping
  <2> QED
    BY <2>1, <2>2
<1>3. g_runner \in Runners /\ runners[g_runner].contexts = {}
  BY <1>1, <1>2, RunnerFields DEF RunnerInv, TypeOK, Ownership
<1>4. Watched(g_runner)
  BY <1>2, <1>3, RunnerLive, EventsWatched DEF RunnerInv, EventsInv, AllWatched
<1> QED
  BY <1>3, <1>4, RunnerFields DEF RunnerInv, Watched

\* The comment of free_forward (t2u.c:96) holds for an application that makes these
\* calls one at a time: when it deletes the runner "no events bind" but the control
\* socket's.  The run free_races_create shows that it does not without this.
THEOREM StoppedWithoutEvents ==
    ASSUME OneAtATime, DistinctNames
    PROVE  Spec => []NoEventsBind
<1>1. RunnerInv /\ EventsInv => NoEventsBind
  BY InvNoEventsBind
<1> QED
  BY <1>1, EventsInvariant, PTL

-----------------------------------------------------------------------------
(* No call of the API is ever stuck *)

\* __g_runner_mutex_ is held by a call that is past its lock and before its unlock.
GlobalLock ==
    g_mutex # None =>
        \/ call[g_mutex].op = "create" /\ pc[g_mutex] \notin {"init_mutex", "create_lock"}
        \/ pc[g_mutex] = "delete_runner"
        \/ Stopping(g_mutex)

\* There is an address for the context that create_forward is going to make.
Room ==
    \A t \in Threads : call[t].op = "create" =>
        IF pc[t] \in {"control", "recv", "create_unlock"} THEN call[t].ctx # None
        ELSE call[t].ctx = None /\ \E c \in Contexts : home[c] = None

\* Who waits for an answer gets one: the request is on the socket, is being
\* served, or has been.
Answered ==
    \A t \in Threads : pc[t] = "recv" =>
        LET R == runners[call[t].runner]
        IN  R.request # None \/ R.loop = "replying" \/ R.reply

\* delete_runner_cb_ has removed the event of the control socket, and the loop
\* goes on until it finds that no event is left.
Ending ==
    \A t \in Threads : Stopping(t) /\ pc[t] \in {"recv", "join"} /\ ~Pending(t) =>
        LET R == runners[call[t].runner]
        IN  "control" \notin R.events /\ R.loop \in {"running", "replying", "ended"}

WaitsInv == GlobalLock /\ Room /\ Answered /\ Ending

-----------------------------------------------------------------------------
\* A thread that is in the middle of create_forward ...
LEMMA InCreate ==
    ASSUME RunnerInv, NEW t \in Threads,
           pc[t] \in {"init_mutex", "create_lock", "runner_new", "cond_wait", "waiting",
                      "woken", "new_context", "create_unlock"}
    PROVE  call[t].op = "create" /\ call[t].func = "add_context"
BY DEF RunnerInv, TypeOK, Labels, Call, Op

\* ... or of free_forward.
LEMMA InFree ==
    ASSUME RunnerInv, NEW t \in Threads
    PROVE  /\ pc[t] \in {"free_check", "free_lock", "delete_runner"} => Freeing(t)
           /\ pc[t] \in {"join", "free_unlock"} => Stopping(t)
BY DEF RunnerInv, TypeOK, Labels, Call, Op, Freeing, Stopping

\* Other threads do not move in a step of t.
Moves(t) ==
    \A u \in Threads : u # t => pc'[u] = pc[u] /\ call'[u] = call[u]

LEMMA NewCallMoves ==
    ASSUME RunnerInv, NEW t \in Threads, NewCall(t)
    PROVE  Moves(t) /\ pc[t] = "idle" /\ call[t].op = "none" /\ UNCHANGED <<g_mutex, home, runners>>
BY DEF RunnerInv, TypeOK, Labels, Moves, NewCall, MayCall, Begin, Goto, CreateForward, FreeForward,
       AddForwardRule, DelForwardRule, DebugDump, globVars, objVars

LEMMA ContinueMoves ==
    ASSUME RunnerInv, NEW t \in Threads, Continue(t)
    PROVE  Moves(t)
BY DEF RunnerInv, TypeOK, Moves, Continue, Goto, Return, InitMutex, CreateLock, RunnerNew, CondWait,
       CondReturn, NewContext, CreateUnlock, ControlSend, ControlRecv, FreeCheck, FreeLock,
       DeleteRunner, Join, FreeUnlock

\* On the runner thread: only the thread that waits for the signal moves.
LEMMA LoopMoves ==
    ASSUME RunnerInv, NEW n \in Runners, Loop(n) \/ \E r \in Rules : CallbackDeletesRule(n, r)
    PROVE  /\ UNCHANGED <<call, g_mutex, g_runner>>
           /\ \A t \in Threads : pc'[t] = pc[t] \/ (pc[t] = "waiting" /\ pc'[t] = "woken")
           /\ \A c \in Contexts : home[c] = None => home'[c] = None
<1>1. CASE LoopStart(n)
  BY <1>1 DEF RunnerInv, TypeOK, LoopStart, CondSignal, globVars, objVars
<1>2. CASE LoopReply(n) \/ LoopEnd(n)
  BY <1>2 DEF LoopReply, LoopEnd, globVars, objVars
<1>3. CASE LoopProcess(n)
  <2>1. UNCHANGED <<call, g_mutex, g_runner, pc>>
    BY <1>3 DEF LoopProcess, globVars
  <2>2. CASE DeleteContextCb(n, runners[n].request.ctx) \/ DeleteRunnerCb(n)
    BY <2>1, <2>2 DEF DeleteContextCb, DeleteRunnerCb, DeleteContexts
  <2>3. CASE ~(DeleteContextCb(n, runners[n].request.ctx) \/ DeleteRunnerCb(n))
    <3>1. UNCHANGED home
      BY <1>3, <2>3 DEF LoopProcess, AddContextCb, AddRuleCb, DeleteRuleCb, DebugDumpCb, objVars
    <3> QED
      BY <2>1, <3>1
  <2> QED
    BY <2>2, <2>3
<1>4. ASSUME NEW r \in Rules, CallbackDeletesRule(n, r)
      PROVE  UNCHANGED <<call, g_mutex, g_runner, pc, home>>
  BY <1>4 DEF CallbackDeletesRule, globVars
<1> QED
  BY <1>1, <1>2, <1>3, <1>4 DEF Loop

-----------------------------------------------------------------------------
(* GlobalLock *)

LEMMA GlobalLockNewCall ==
    ASSUME RunnerInv, GlobalLock, NEW t \in Threads, NewCall(t)
    PROVE  GlobalLock'
<1>1. Moves(t) /\ pc[t] = "idle" /\ call[t].op = "none" /\ g_mutex' = g_mutex
  BY NewCallMoves
<1>2. g_mutex # t
  BY <1>1, NoneAssumption DEF GlobalLock, Stopping
<1>3. g_mutex \in Threads \cup {None}
  BY DEF RunnerInv, TypeOK
<1> QED
  BY <1>1, <1>2, <1>3 DEF GlobalLock, Moves, Stopping

LEMMA GlobalLockContinue ==
    ASSUME OneAtATime, RunnerInv, RunnerInv', GlobalLock, NEW t \in Threads, Continue(t)
    PROVE  GlobalLock'
<1>1. Moves(t) /\ g_mutex \in Threads \cup {None}
  BY ContinueMoves DEF RunnerInv, TypeOK
<1>2. \A u \in Threads : u # t /\ g_mutex = u /\ UNCHANGED g_mutex => GlobalLock'
  BY <1>1 DEF GlobalLock, Moves, Stopping
<1>3. CASE UNCHANGED g_mutex /\ g_mutex = None
  BY <1>3 DEF GlobalLock
<1>4. CASE g_mutex' = None
  BY <1>4 DEF GlobalLock
<1> USE DEF RunnerInv, TypeOK
<1>5. CASE CreateLock(t)
  <2>1. call[t].op = "create" /\ g_mutex' = t /\ pc'[t] \in {"runner_new", "new_context"} /\ call' = call
    BY <1>5, InCreate DEF CreateLock, Goto
  <2> QED
    BY <2>1 DEF GlobalLock
<1>6. CASE FreeLock(t)
  <2>1. g_mutex' = t /\ pc'[t] = "delete_runner"
    BY <1>6 DEF FreeLock, Goto
  <2> QED
    BY <2>1 DEF GlobalLock
<1>7. CASE InitMutex(t) \/ CreateUnlock(t) \/ FreeUnlock(t)
  BY <1>4, <1>7 DEF InitMutex, CreateUnlock, FreeUnlock
<1>8. ASSUME UNCHANGED g_mutex, g_mutex = t, call'[t].op = "create",
             pc'[t] \notin {"init_mutex", "create_lock"} 
      PROVE  GlobalLock'
  BY <1>8 DEF GlobalLock
<1>9. CASE RunnerNew(t) \/ CondWait(t) \/ CondReturn(t) \/ NewContext(t)
  <2>1. /\ call[t].op = "create" /\ UNCHANGED g_mutex
        /\ pc'[t] \in {"cond_wait", "waiting", "new_context", "control"}
    BY <1>9, InCreate DEF RunnerNew, CondWait, CondReturn, NewContext, Goto, globVars
  <2>2. call'[t].op = "create"
    <3>1. call[t] \in Call
      OBVIOUS
    <3>2. CASE NewContext(t)
      BY <2>1, <3>1, <3>2 DEF NewContext, Call
    <3>3. CASE RunnerNew(t)
      BY <2>1, <3>1, <3>3 DEF RunnerNew, Call
    <3> QED
      BY <1>9, <2>1, <3>2, <3>3 DEF CondWait, CondReturn
  <2> QED
    BY <1>1, <1>2, <1>3, <1>8, <2>1, <2>2
<1>10. CASE ControlSend(t)
  <2>1. UNCHANGED <<call, g_mutex>> /\ pc[t] = "control" /\ pc'[t] = "recv"
    BY <1>10 DEF ControlSend, Goto, globVars
  <2> QED
    BY <1>1, <1>2, <1>3, <2>1 DEF GlobalLock, Stopping
<1>11. CASE ControlRecv(t)
  <2>1. UNCHANGED g_mutex /\ pc[t] = "recv" /\ call[t].func \in Func
    BY <1>11, ControlRunner DEF ControlRecv, globVars
  <2>2. CASE g_mutex = t
    <3>1. call[t].op \in {"create", "free"} /\ (call[t].op = "free" => Stopping(t))
      BY <2>1, <2>2, NoneAssumption DEF GlobalLock, Stopping
    <3>2. call[t].func \in {"add_context", "delete_runner"}
      BY <3>1 DEF Labels, Stopping
    <3>3. call' = call /\ pc'[t] \in {"create_unlock", "join"}
      BY <1>11, <3>2 DEF ControlRecv, AfterControl, Goto
    <3> QED
      BY <2>1, <2>2, <3>1, <3>3 DEF GlobalLock, Stopping
  <2> QED
    BY <1>1, <1>2, <1>3, <2>1, <2>2
<1>12. CASE FreeCheck(t)
  <2>1. UNCHANGED g_mutex /\ pc[t] = "free_check" /\ Freeing(t)
    BY <1>12, InFree DEF FreeCheck, globVars
  <2>2. g_mutex # t
    BY <2>1, NoneAssumption DEF GlobalLock, Freeing, Stopping
  <2> QED
    BY <1>1, <1>2, <1>3, <2>1, <2>2
<1>13. CASE DeleteRunner(t)
  <2>1. UNCHANGED g_mutex /\ Freeing(t) /\ call[t] \in Call
    BY <1>13, InFree DEF DeleteRunner, globVars
  <2>2. g_runner # None
    BY <2>1 DEF Locals
  <2>3. call'[t] = [call[t] EXCEPT !.func = "delete_runner", !.runner = g_runner, !.ctx = None]
    BY <1>13, <2>2 DEF DeleteRunner
  <2>4. Stopping(t)'
    BY <2>1, <2>3 DEF Call, Freeing, Stopping
  <2> QED
    BY <1>1, <1>2, <1>3, <2>1, <2>4 DEF GlobalLock
<1>14. CASE Join(t)
  <2>1. UNCHANGED <<call, g_mutex>> /\ Stopping(t)
    BY <1>14, InFree DEF Join, globVars
  <2> QED
    BY <1>1, <1>2, <1>3, <2>1 DEF GlobalLock, Stopping
<1> QED
  BY <1>5, <1>6, <1>7, <1>9, <1>10, <1>11, <1>12, <1>13, <1>14 DEF Continue

LEMMA GlobalLockLoop ==
    ASSUME RunnerInv, GlobalLock, NEW n \in Runners,
           Loop(n) \/ \E r \in Rules : CallbackDeletesRule(n, r)
    PROVE  GlobalLock'
<1>1. g_mutex \in Threads \cup {None}
  BY DEF RunnerInv, TypeOK
<1> QED
  BY <1>1, LoopMoves DEF GlobalLock, Stopping

-----------------------------------------------------------------------------
(* Room *)

\* The bound of the model is a bound: where it lets a call begin, there is an address.
LEMMA AddressLeft ==
    ASSUME OneAtATime, NEW t \in Threads, MayCall(t, "create"), ContextAvailable
    PROVE  \E c \in Contexts : home[c] = None
<1>1. {u \in Threads : call[u].op = "create" /\ call[u].ctx = None} = {}
  BY DEF OneAtATime, MayCall
<1>2. Cardinality({u \in Threads : call[u].op = "create" /\ call[u].ctx = None}) = 0
  BY <1>1, FS_EmptySet
<1>3. Cardinality(Contexts) \in Nat
  BY FiniteAssumption, FS_CardinalityType
<1>4. ASSUME \A c \in Contexts : home[c] # None
      PROVE  FALSE
  <2>1. {c \in Contexts : home[c] # None} = Contexts
    BY <1>4
  <2> QED
    BY <1>2, <1>3, <2>1 DEF ContextAvailable
<1> QED
  BY <1>4

LEMMA RoomNewCall ==
    ASSUME OneAtATime, RunnerInv, Room, NEW t \in Threads, NewCall(t)
    PROVE  Room'
<1>1. Moves(t) /\ UNCHANGED home
  BY NewCallMoves
<1>2. call'[t].op = "create" =>
        /\ pc'[t] \in {"init_mutex", "create_lock"} /\ call'[t].ctx = None
        /\ \E c \in Contexts : home[c] = None
  <2>1. CASE CreateForward(t)
    BY <2>1, AddressLeft DEF RunnerInv, TypeOK, CreateForward, Begin, Goto
  <2>2. CASE ~CreateForward(t)
    BY <2>2 DEF RunnerInv, TypeOK, NewCall, Begin, FreeForward, AddForwardRule, DelForwardRule, DebugDump
  <2> QED
    BY <2>1, <2>2
<1> QED
  BY <1>1, <1>2 DEF Room, Moves

LEMMA RoomContinue ==
    ASSUME OneAtATime, RunnerInv, RunnerInv', Room, NEW t \in Threads, Continue(t)
    PROVE  Room'
<1>1. Moves(t)
  BY ContinueMoves
<1>2. CASE NewContext(t)
  <2>1. call[t].op = "create" /\ call[t] \in Call
    BY <1>2, InCreate DEF NewContext, RunnerInv, TypeOK
  <2>2. \A u \in Threads : u # t => call'[u].op # "create"
    BY <1>1, <2>1, OthersQuiet DEF RunnerInv, Moves
  <2>3. pc'[t] = "control" /\ call'[t].ctx \in Contexts
    BY <1>2, <2>1 DEF NewContext, Goto, RunnerInv, TypeOK, Call
  <2> QED
    BY <2>2, <2>3, NoneAssumption DEF Room
<1>3. CASE ~NewContext(t)
  <2>1. UNCHANGED home
    BY <1>3 DEF Continue, InitMutex, CreateLock, RunnerNew, CondWait, CondReturn, CreateUnlock, ControlSend,
                ControlRecv, FreeCheck, FreeLock, DeleteRunner, Join, FreeUnlock, objVars
  <2>2. ASSUME call'[t].op = "create"
        PROVE  /\ call[t].op = "create" /\ call'[t].ctx = call[t].ctx
               /\ pc'[t] \in {"control", "recv", "create_unlock"} <=>
                     pc[t] \in {"control", "recv", "create_unlock"}
    <3>1. call[t] \in Call /\ pc \in [Threads -> Label] /\ call \in [Threads -> Call]
      BY DEF RunnerInv, TypeOK
    <3>2. CASE RunnerNew(t)
      BY <2>2, <3>1, <3>2, InCreate DEF RunnerNew, Goto, Call
    <3>3. CASE InitMutex(t) \/ CreateLock(t) \/ CondWait(t) \/ CondReturn(t) \/ FreeLock(t) \/ Join(t)
      BY <2>2, <3>1, <3>3, InCreate, InFree DEF InitMutex, CreateLock, CondWait, CondReturn, FreeLock, Join, Goto,
             Freeing, Stopping
    <3>4. CASE CreateUnlock(t) \/ FreeUnlock(t) \/ FreeCheck(t)
      BY <2>2, <3>1, <3>4, InFree DEF CreateUnlock, FreeUnlock, FreeCheck, Return, NoCall, Freeing
    <3>5. CASE ControlSend(t)
      BY <2>2, <3>1, <3>5 DEF ControlSend, Goto
    <3>6. CASE ControlRecv(t)
      <4>1. call' = call
        BY <2>2, <3>1, <3>6 DEF ControlRecv, Return, NoCall
      <4>2. call[t].func = "add_context"
        BY <2>2, <4>1 DEF RunnerInv, Labels
      <4> QED
        BY <2>2, <3>1, <3>6, <4>1, <4>2 DEF ControlRecv, AfterControl, Goto
    <3>7. CASE DeleteRunner(t)
      <4>1. Freeing(t)
        BY <3>7, InFree DEF DeleteRunner
      <4>2. CASE call' = call
        BY <2>2, <4>1, <4>2 DEF Freeing
      <4>3. CASE call' # call
        <5>1. call'[t] = [call[t] EXCEPT !.func = "delete_runner", !.runner = g_runner, !.ctx = None]
          BY <3>1, <3>7, <4>3 DEF DeleteRunner
        <5>2. call'[t].op = call[t].op
          BY <3>1, <5>1 DEF Call
        <5> QED
          BY <2>2, <4>1, <5>2 DEF Freeing
      <4> QED
        BY <4>2, <4>3
    <3> QED
      BY <1>3, <3>2, <3>3, <3>4, <3>5, <3>6, <3>7 DEF Continue
  <2> QED
    BY <1>1, <2>1, <2>2 DEF Room, Moves
<1> QED
  BY <1>2, <1>3

LEMMA RoomLoop ==
    ASSUME RunnerInv, Room, NEW n \in Runners,
           Loop(n) \/ \E r \in Rules : CallbackDeletesRule(n, r)
    PROVE  Room'
BY LoopMoves DEF Room

-----------------------------------------------------------------------------
(* Answered and Ending *)

\* While a thread stops the runner no other is in a control call.
LEMMA StopsAlone ==
    ASSUME OneAtATime, RunnerInv, NEW u \in Threads, Stopping(u), NEW t \in Threads, t # u
    PROVE  pc[t] \notin {"control", "recv"}
<1>1. call[t].op \in {"none", "add_rule", "del_rule"}
  BY OthersQuiet DEF RunnerInv, Stopping
<1>2. owned = {}
  BY DEF RunnerInv, Ownership
<1> QED
  BY <1>1, <1>2 DEF RunnerInv, Labels, Locals

\* A step of t leaves the runner alone whose answer or end another thread waits for.
LEMMA RunnerOfOther ==
    ASSUME OneAtATime, RunnerInv, NEW t \in Threads, NewCall(t) \/ Continue(t), NEW u \in Threads, u # t,
           pc[u] = "recv" \/ (Stopping(u) /\ pc[u] = "join")
    PROVE  LET R == runners[call[u].runner]
               S == runners'[call[u].runner]
           IN  S.request = R.request /\ S.loop = R.loop /\ S.reply = R.reply /\ S.events = R.events
<1> DEFINE m == call[u].runner
<1>1. m \in Runners /\ runners[m].live
  <2>1. m = g_runner /\ g_runner # None
    BY ControlRunner, NoneAssumption DEF RunnerInv, Locals
  <2> QED
    BY <2>1, InvNoUseAfterFree DEF RunnerInv, TypeOK, NoUseAfterFree
<1> HIDE DEF m
<1>2. runners \in [Runners -> RunnerObject] /\ runners[m] \in RunnerObject
  BY <1>1 DEF RunnerInv, TypeOK
<1>3. CASE RunnerNew(t)
  BY <1>1, <1>2, <1>3 DEF RunnerNew, m
<1>4. CASE CondWait(t)
  BY <1>1, <1>2, <1>4 DEF CondWait, RunnerObject, m
<1>5. CASE Join(t)
  BY <1>1, <1>2, <1>5 DEF Join, RunnerObject, m
<1>6. CASE ControlSend(t) \/ ControlRecv(t)
  <2>1. pc[t] \in {"control", "recv"}
    BY <1>6 DEF ControlSend, ControlRecv
  <2>2. pc[u] = "recv"
    BY <2>1, StopsAlone
  <2>3. call[t].runner = g_runner /\ call[u].runner = g_runner
    BY <2>1, <2>2, ControlRunner
  <2>4. runners[g_runner].mutex = u
    BY <2>2, <2>3 DEF RunnerInv, Channel
  <2>5. CASE ControlSend(t)
    BY <2>3, <2>4, <2>5, NoneAssumption DEF ControlSend
  <2>6. CASE ControlRecv(t)
    BY <2>2, <2>6, OneReceiver DEF ControlRecv
  <2> QED
    BY <1>6, <2>5, <2>6
<1>7. CASE UNCHANGED runners
  BY <1>7
<1>8. CASE NewCall(t)
  BY <1>7, <1>8, NewCallMoves
<1>9. CASE Continue(t)
  <2>1. ~(RunnerNew(t) \/ CondWait(t) \/ Join(t) \/ ControlSend(t) \/ ControlRecv(t)) => UNCHANGED runners
    BY <1>9 DEF Continue, InitMutex, CreateLock, CondReturn, NewContext, CreateUnlock, FreeCheck, FreeLock,
                DeleteRunner, FreeUnlock
  <2> QED
    BY <1>3, <1>4, <1>5, <1>6, <1>7, <2>1
<1> QED
  BY <1>8, <1>9

\* A request is not None.
LEMMA RequestSent ==
    ASSUME RunnerInv, NEW t \in Threads, ControlSend(t)
    PROVE  /\ pc'[t] = "recv" /\ call' = call
           /\ call[t].runner \in Runners
           /\ runners'[call[t].runner].request # None
<1>1. /\ call[t].runner \in Runners
      /\ [func |-> call[t].func, ctx |-> call[t].ctx, rule |-> call[t].rule] \in Request
  <2>1. pc[t] \in {"control", "recv"} /\ call[t] \in Call
    BY DEF ControlSend, RunnerInv, TypeOK
  <2> QED
    BY <2>1, ControlRunner DEF Call, Request
<1>2. runners[call[t].runner] \in RunnerObject
  BY <1>1 DEF RunnerInv, TypeOK
<1>3. runners'[call[t].runner].request = [func |-> call[t].func, ctx |-> call[t].ctx, rule |-> call[t].rule]
  BY <1>1, <1>2 DEF ControlSend, RunnerObject, RunnerInv, TypeOK
<1> QED
  BY <1>1, <1>3, NoneAssumption DEF ControlSend, Goto, RunnerInv, TypeOK

\* Only ControlSend begins to wait for an answer, and ControlRecv stops.
LEMMA RecvLabel ==
    ASSUME RunnerInv, NEW t \in Threads, NewCall(t) \/ Continue(t)
    PROVE  /\ pc'[t] = "recv" => ControlSend(t)
           /\ pc'[t] = "join" => ControlRecv(t)
BY DEF RunnerInv, TypeOK, NewCall, Continue, Goto, Return, InitMutex, CreateLock, RunnerNew, CondWait,
       CondReturn, NewContext, CreateUnlock, ControlSend, ControlRecv, AfterControl, FreeCheck, FreeLock,
       DeleteRunner, Join, FreeUnlock, CreateForward, FreeForward, AddForwardRule, DelForwardRule, DebugDump

LEMMA AnsweredThread ==
    ASSUME OneAtATime, RunnerInv, Answered, NEW t \in Threads, NewCall(t) \/ Continue(t)
    PROVE  Answered'
<1> SUFFICES ASSUME NEW u \in Threads, pc'[u] = "recv"
             PROVE  LET R == runners'[call'[u].runner]
                    IN  R.request # None \/ R.loop = "replying" \/ R.reply
  BY DEF Answered
<1>1. CASE u = t
  BY <1>1, RecvLabel, RequestSent
<1>2. CASE u # t
  <2>1. pc[u] = "recv" /\ call'[u] = call[u]
    BY <1>2, NewCallMoves, ContinueMoves DEF Moves
  <2> QED
    BY <1>2, <2>1, RunnerOfOther DEF Answered
<1> QED
  BY <1>1, <1>2

LEMMA EndingThread ==
    ASSUME OneAtATime, RunnerInv, Ending, NEW t \in Threads, NewCall(t) \/ Continue(t)
    PROVE  Ending'
<1> SUFFICES ASSUME NEW u \in Threads, Stopping(u)', pc'[u] \in {"recv", "join"}, ~Pending(u)'
             PROVE  LET R == runners'[call'[u].runner]
                    IN  "control" \notin R.events /\ R.loop \in {"running", "replying", "ended"}
  BY DEF Ending
<1>1. CASE u # t
  <2>1. pc'[u] = pc[u] /\ call'[u] = call[u]
    BY <1>1, NewCallMoves, ContinueMoves DEF Moves
  <2>2. Stopping(u) /\ (pc[u] = "recv" \/ (Stopping(u) /\ pc[u] = "join"))
    BY <2>1 DEF Stopping
  <2>3. LET R == runners[call[u].runner]
            S == runners'[call[u].runner]
        IN  S.request = R.request /\ S.loop = R.loop /\ S.reply = R.reply /\ S.events = R.events
    BY <1>1, <2>2, RunnerOfOther
  <2>4. ~Pending(u)
    BY <2>1, <2>3 DEF Pending
  <2> QED
    BY <2>1, <2>2, <2>3, <2>4 DEF Ending
<1>2. CASE u = t /\ pc'[u] = "recv"
  BY <1>2, RecvLabel, RequestSent DEF Pending
<1>3. CASE u = t /\ pc'[u] = "join"
  <2>1. ControlRecv(t) /\ pc[t] = "recv"
    BY <1>3, RecvLabel DEF ControlRecv
  <2>2. call' = call
    BY <1>3, <2>1 DEF ControlRecv, Return, Goto, RunnerInv, TypeOK
  <2>3. call[t].runner = g_runner /\ g_runner \in Runners /\ Stopping(t)
    BY <1>3, <2>1, <2>2, ControlRunner DEF Stopping
  <2>4. Socket(g_runner) /\ runners[g_runner] \in RunnerObject
    BY <2>3 DEF RunnerInv, Channel, TypeOK
  <2>5. ~Pending(t)
    BY <2>1, <2>3, <2>4 DEF ControlRecv, Socket, Pending
  <2>6. runners'[g_runner].events = runners[g_runner].events /\ runners'[g_runner].loop = runners[g_runner].loop
    BY <2>1, <2>3, <2>4 DEF ControlRecv, RunnerObject, RunnerInv, TypeOK
  <2> QED
    BY <1>3, <2>1, <2>2, <2>3, <2>5, <2>6 DEF Ending
<1> QED
  BY <1>1, <1>2, <1>3

\* A function has run, and its answer is next.
LEMMA Processed ==
    ASSUME RunnerInv, NEW n \in Runners, LoopProcess(n)
    PROVE  /\ runners'[n].loop = "replying" /\ runners'[n].request = None
           /\ \A m \in Runners : m # n => runners'[m] = runners[m]
           /\ runners[n].request.func = "delete_runner" => "control" \notin runners'[n].events
<1> DEFINE q == runners[n].request
<1>1. runners \in [Runners -> RunnerObject] /\ runners[n] \in RunnerObject
  BY DEF RunnerInv, TypeOK
<1>2. CASE q.func = "add_context" /\ AddContextCb(n, q.ctx)
  BY <1>1, <1>2 DEF AddContextCb, RunnerObject
<1>3. CASE q.func = "delete_context" /\ DeleteContextCb(n, q.ctx)
  BY <1>1, <1>3 DEF DeleteContextCb, DeleteContexts, RunnerObject
<1>4. CASE q.func = "add_rule" /\ AddRuleCb(n, q.rule)
  BY <1>1, <1>4 DEF AddRuleCb, RunnerObject
<1>5. CASE q.func = "delete_rule" /\ DeleteRuleCb(n, q.rule)
  BY <1>1, <1>5 DEF DeleteRuleCb, RunnerObject
<1>6. CASE q.func = "delete_runner" /\ DeleteRunnerCb(n)
  BY <1>1, <1>6 DEF DeleteRunnerCb, DeleteContexts, RunnerObject
<1>7. CASE q.func = "debug_dump" /\ DebugDumpCb(n)
  BY <1>1, <1>7 DEF DebugDumpCb, RunnerObject
<1> QED
  BY <1>2, <1>3, <1>4, <1>5, <1>6, <1>7 DEF LoopProcess

\* The rest of what the runner thread does leaves requests alone.
LEMMA NotProcessed ==
    ASSUME RunnerInv, NEW n \in Runners,
           \/ LoopStart(n) \/ LoopReply(n) \/ LoopEnd(n)
           \/ \E r \in Rules : CallbackDeletesRule(n, r)
    PROVE  /\ \A m \in Runners :
                /\ runners'[m].request = runners[m].request
                /\ runners'[m].events \subseteq runners[m].events
                /\ runners[m].reply => runners'[m].reply
                /\ runners[m].loop = "replying" => runners'[m].reply \/ runners'[m].loop = "replying"
                /\ runners[m].loop \in {"running", "replying", "ended"} =>
                     runners'[m].loop \in {"running", "replying", "ended"}
<1>1. runners \in [Runners -> RunnerObject]
  BY DEF RunnerInv, TypeOK
<1>2. CASE LoopStart(n)
  BY <1>1, <1>2 DEF LoopStart, RunnerObject
<1>3. CASE LoopReply(n)
  BY <1>1, <1>3 DEF LoopReply, RunnerObject
<1>4. CASE LoopEnd(n)
  BY <1>1, <1>4 DEF LoopEnd, RunnerObject
<1>5. ASSUME NEW r \in Rules, CallbackDeletesRule(n, r)
      PROVE  \A m \in Runners :
               /\ runners'[m].request = runners[m].request /\ runners'[m].reply = runners[m].reply
               /\ runners'[m].events \subseteq runners[m].events /\ runners'[m].loop = runners[m].loop
  BY <1>1, <1>5 DEF CallbackDeletesRule, RunnerObject
<1> QED
  BY <1>2, <1>3, <1>4, <1>5

LEMMA AnsweredLoop ==
    ASSUME RunnerInv, Answered, NEW n \in Runners,
           Loop(n) \/ \E r \in Rules : CallbackDeletesRule(n, r)
    PROVE  Answered'
<1> SUFFICES ASSUME NEW u \in Threads, pc'[u] = "recv"
             PROVE  LET R == runners'[call'[u].runner]
                    IN  R.request # None \/ R.loop = "replying" \/ R.reply
  BY DEF Answered
<1>1. pc[u] = "recv" /\ call' = call
  BY LoopMoves
<1>2. call[u].runner \in Runners
  BY <1>1, ControlRunner
<1>3. CASE LoopProcess(n)
  BY <1>1, <1>2, <1>3, Processed DEF Answered
<1>4. CASE ~LoopProcess(n)
  BY <1>1, <1>2, <1>4, NotProcessed DEF Answered, Loop
<1> QED
  BY <1>3, <1>4

LEMMA EndingLoop ==
    ASSUME RunnerInv, Ending, NEW n \in Runners,
           Loop(n) \/ \E r \in Rules : CallbackDeletesRule(n, r)
    PROVE  Ending'
<1> SUFFICES ASSUME NEW u \in Threads, Stopping(u)', pc'[u] \in {"recv", "join"}, ~Pending(u)'
             PROVE  LET R == runners'[call'[u].runner]
                    IN  "control" \notin R.events /\ R.loop \in {"running", "replying", "ended"}
  BY DEF Ending
<1> DEFINE m == call[u].runner
<1>1. pc'[u] = pc[u] /\ call' = call /\ Stopping(u) /\ pc[u] \in {"recv", "join"}
  BY LoopMoves DEF Stopping
<1>2. m \in Runners
  BY <1>1 DEF RunnerInv, TypeOK, Locals
<1>3. CASE LoopProcess(n)
  <2>1. CASE Pending(u)
    <3>1. pc[u] = "recv" /\ runners[m].request # None
      BY <1>1, <2>1 DEF Pending
    <3>2. runners[m].mutex = u /\ runners[m].request.func = "delete_runner"
      BY <1>1, <1>2, <3>1, Receiver DEF RunnerInv, Channel, Stopping
    <3>3. m = n
      BY <1>1, <1>2, <1>3, <3>1, Processed DEF Pending
    <3> QED
      BY <1>1, <1>3, <3>2, <3>3, Processed
  <2>2. CASE ~Pending(u)
    <3>1. "control" \notin runners[m].events /\ runners[m].loop \in {"running", "replying", "ended"}
      BY <1>1, <2>2 DEF Ending
    <3>2. m # n
      BY <1>3, <3>1 DEF LoopProcess
    <3> QED
      BY <1>1, <1>2, <1>3, <3>1, <3>2, Processed
  <2> QED
    BY <2>1, <2>2
<1>4. CASE ~LoopProcess(n)
  <2>1. runners'[m].request = runners[m].request
    BY <1>2, <1>4, NotProcessed DEF Loop
  <2>2. ~Pending(u)
    BY <1>1, <2>1 DEF Pending
  <2>3. "control" \notin runners[m].events /\ runners[m].loop \in {"running", "replying", "ended"}
    BY <1>1, <2>2 DEF Ending
  <2> QED
    BY <1>1, <1>2, <1>4, <2>3, NotProcessed DEF Loop
<1> QED
  BY <1>3, <1>4

-----------------------------------------------------------------------------
LEMMA InitWaitsInv ==
    ASSUME Init
    PROVE  WaitsInv
BY DEF Init, NoCall, WaitsInv, GlobalLock, Room, Answered, Ending

LEMMA NextWaitsInv ==
    ASSUME OneAtATime, RunnerInv, RunnerInv', WaitsInv, [Next]_vars
    PROVE  WaitsInv'
<1> USE DEF WaitsInv
<1>1. ASSUME NEW t \in Threads, NewCall(t)
      PROVE  WaitsInv'
  BY <1>1, GlobalLockNewCall, RoomNewCall, AnsweredThread, EndingThread
<1>2. ASSUME NEW t \in Threads, Continue(t)
      PROVE  WaitsInv'
  BY <1>2, GlobalLockContinue, RoomContinue, AnsweredThread, EndingThread
<1>3. ASSUME NEW n \in Runners, Loop(n) \/ \E r \in Rules : CallbackDeletesRule(n, r)
      PROVE  WaitsInv'
  BY <1>3, GlobalLockLoop, RoomLoop, AnsweredLoop, EndingLoop
<1>4. CASE UNCHANGED vars
  BY <1>4 DEF vars, GlobalLock, Room, Answered, Ending, Stopping, Pending
<1> QED
  BY <1>1, <1>2, <1>3, <1>4 DEF Next

LEMMA WaitsInvariant ==
    ASSUME OneAtATime
    PROVE  Spec => [](RunnerInv /\ WaitsInv)
<1>1. Init => RunnerInv /\ WaitsInv
  BY InitRunnerInv, InitWaitsInv
<1>2. RunnerInv /\ WaitsInv /\ [Next]_vars => (RunnerInv /\ WaitsInv)'
  BY NextRunnerInv, NextWaitsInv
<1> QED
  BY <1>1, <1>2, PTL DEF Spec

-----------------------------------------------------------------------------
(* What each label waits for *)

\* At a lock of the global mutex nobody holds it: create_forward and free_forward
\* are the calls that do, and there is no other.
LEMMA GlobalLockFree ==
    ASSUME OneAtATime, RunnerInv, WaitsInv, NEW t \in Threads, pc[t] \in {"create_lock", "free_lock"}
    PROVE  g_mutex = None
<1>1. call[t].op \in {"create", "free"} /\ ~Stopping(t)
  BY InCreate, InFree DEF Freeing, Stopping
<1>2. ASSUME NEW u \in Threads, g_mutex = u
      PROVE  FALSE
  <2>1. call[u].op \in {"create", "free"}
    <3>1. pc[u] = "delete_runner" => Freeing(u)
      BY InFree
    <3> QED
      BY <1>2, <3>1, NoneAssumption DEF WaitsInv, GlobalLock, Freeing, Stopping
  <2>2. u = t
    BY <1>1, <2>1 DEF OneAtATime, RunnerInv, OneSerial
  <2> QED
    BY <1>1, <1>2, <2>2, NoneAssumption DEF WaitsInv, GlobalLock, RunnerInv, Labels
<1> QED
  BY <1>2 DEF RunnerInv, TypeOK

\* A runner that is being started is locked by nobody but its starter.
LEMMA StartingUnlocked ==
    ASSUME OneAtATime, RunnerInv, NEW t \in Threads, pc[t] \in {"waiting", "woken"}
    PROVE  /\ call[t].runner \in Runners /\ runners[call[t].runner].mutex = None
           /\ g_runner = None
           /\ runners[call[t].runner].loop = IF pc[t] = "woken" THEN "running" ELSE "created"
<1> DEFINE n == call[t].runner
<1>1. /\ n \in Runners /\ g_runner = None
      /\ runners[n].loop = IF pc[t] = "woken" THEN "running" ELSE "created"
  BY DEF RunnerInv, Fresh, Starting
<1>2. ASSUME runners[n].mutex # None
      PROVE  FALSE
  <2> DEFINE w == runners[n].mutex
  <2>1. w \in Threads /\ pc[w] \in {"recv", "cond_wait"} /\ call[w].runner = n
    BY <1>1, <1>2, MutexHolder DEF RunnerInv
  <2>2. pc[w] # "recv"
    BY <1>1, <2>1, ControlRunner, NoneAssumption
  <2>3. call[w].op = "create" /\ call[t].op = "create"
    BY <2>1, <2>2, InCreate
  <2>4. w = t
    BY <2>1, <2>3 DEF OneAtATime, RunnerInv, OneSerial
  <2> QED
    BY <2>1, <2>4
<1> QED
  BY <1>1, <1>2

\* Who waits for an answer has it, or the loop works on it.
LEMMA AnswerComes ==
    ASSUME OneAtATime, RunnerInv, WaitsInv, NEW t \in Threads, pc[t] = "recv"
    PROVE  CanContinue(t) \/ CanLoop(call[t].runner)
<1> DEFINE n == call[t].runner
<1>1. n = g_runner /\ g_runner # None /\ n \in Runners /\ runners[n].live
  BY ControlRunner, InvNoUseAfterFree, NoneAssumption DEF NoUseAfterFree
<1>2. CASE runners[n].reply
  BY <1>1, <1>2 DEF CanContinue
<1>3. CASE runners[n].loop = "replying"
  BY <1>3 DEF CanLoop
<1>4. CASE runners[n].request # None
  <2>1. \A u \in Threads : Stopping(u) => Pending(u)
    BY <1>4, StopsAlone DEF Pending
  <2>2. runners[n].loop \in {"running", "replying"} /\ "control" \in runners[n].events
    BY <1>1, <2>1 DEF RunnerInv, Lifetime
  <2> QED
    BY <1>4, <2>2 DEF CanLoop
<1> QED
  BY <1>2, <1>3, <1>4 DEF WaitsInv, Answered

\* The loop that a free_forward joins has no event left.
LEMMA LoopEnds ==
    ASSUME OneAtATime, RunnerInv, EventsInv, WaitsInv, NEW t \in Threads, pc[t] = "join"
    PROVE  CanContinue(t) \/ CanLoop(call[t].runner)
<1>1. Stopping(t) /\ ~Pending(t) /\ owned = {}
  BY InFree DEF Pending, RunnerInv, Ownership
<1>2. call[t].runner = g_runner /\ g_runner # None /\ g_runner \in Runners /\ runners[g_runner].live
  BY <1>1 DEF RunnerInv, TypeOK, Locals, Lifetime
<1>3. \A u \in Threads : ~InTree(u)
  <2>1. \A u \in Threads : u # t => ~InTree(u)
    BY <1>1, OthersQuiet DEF RunnerInv, Stopping
  <2>2. ~InTree(t)
    BY <1>1 DEF InTree, Freeing, Stopping
  <2> QED
    BY <2>1, <2>2
<1>4. runners[g_runner].contexts = {}
  BY <1>1, <1>2, <1>3, RunnerFields DEF RunnerInv, Ownership
<1>5. "control" \notin runners[g_runner].events /\ runners[g_runner].loop \in {"running", "replying", "ended"}
  BY <1>1, <1>2 DEF WaitsInv, Ending
<1>6. Watched(g_runner)
  BY <1>2, EventsWatched DEF RunnerInv, EventsInv, AllWatched
<1>7. runners[g_runner].events = {}
  BY <1>2, <1>4, <1>5, <1>6, RunnerFields DEF RunnerInv, Watched
<1> QED
  BY <1>2, <1>5, <1>7 DEF CanContinue, CanLoop

LEMMA InvNoDeadlock ==
    ASSUME OneAtATime, RunnerInv, EventsInv, WaitsInv
    PROVE  NoDeadlock
<1> SUFFICES ASSUME NEW t \in Threads, pc[t] # "idle"
             PROVE  \/ CanContinue(t)
                    \/ /\ call[t].runner # None
                       /\ \/ CanLoop(call[t].runner)
                          \/ \E u \in Threads :
                               runners[call[t].runner].mutex = u /\ CanContinue(u)
  BY DEF NoDeadlock
<1> DEFINE n == call[t].runner
<1>0. pc[t] \in Label
  BY DEF RunnerInv, TypeOK
<1>1. CASE pc[t] \in {"create_lock", "free_lock"}
  BY <1>1, GlobalLockFree DEF CanContinue
<1>2. CASE pc[t] = "runner_new"
  <2>1. g_runner = None /\ call[t].op = "create"
    BY <1>2, InCreate DEF RunnerInv, Locals
  <2>2. \A u \in Threads : ~Starting(u)
    BY <1>2, <2>1, OthersQuiet DEF RunnerInv, Starting
  <2>3. \A m \in Runners : ~runners[m].live
    BY <2>1, <2>2, NoneAssumption DEF RunnerInv, Lifetime
  <2> QED
    BY <1>2, <2>3, FiniteAssumption DEF CanContinue
<1>3. CASE pc[t] = "new_context"
  BY <1>3, InCreate DEF CanContinue, WaitsInv, Room
<1>4. CASE pc[t] \in {"waiting", "woken"}
  BY <1>4, StartingUnlocked, NoneAssumption DEF CanContinue, CanLoop
<1>5. CASE pc[t] = "recv"
  BY <1>5, AnswerComes, ControlRunner, NoneAssumption
<1>6. CASE pc[t] = "control"
  <2>1. n = g_runner /\ n \in Runners /\ runners[n].live /\ n # None
    BY <1>6, ControlRunner, InvNoUseAfterFree, NoneAssumption DEF NoUseAfterFree
  <2>2. CASE runners[n].mutex = None
    BY <1>6, <2>1, <2>2 DEF CanContinue
  <2>3. CASE runners[n].mutex # None
    <3> DEFINE w == runners[n].mutex
    <3>1. w \in Threads /\ pc[w] \in {"recv", "cond_wait"} /\ call[w].runner = n
      BY <2>1, <2>3, MutexHolder DEF RunnerInv
    <3>2. pc[w] = "recv"
      BY <2>1, <3>1, NoneAssumption DEF RunnerInv, Fresh, Starting
    <3>3. CanContinue(w) \/ CanLoop(n)
      BY <3>1, <3>2, AnswerComes
    <3> QED
      BY <2>1, <3>1, <3>3
  <2> QED
    BY <2>2, <2>3
<1>7. CASE pc[t] = "join"
  BY <1>7, LoopEnds, InFree, NoneAssumption DEF RunnerInv, Locals
<1>8. CASE pc[t] \in {"init_mutex", "cond_wait", "create_unlock", "free_check", "delete_runner", "free_unlock"}
  BY <1>8 DEF CanContinue
<1> QED
  BY <1>0, <1>1, <1>2, <1>3, <1>4, <1>5, <1>6, <1>7, <1>8 DEF Label

\* No call of the API is ever stuck, for any number of threads: whoever waits for a mutex,
\* for the signal of a new runner thread, for the answer on the control socket or for the
\* end of the loop waits for somebody who can go on.
THEOREM NoCallStuck ==
    ASSUME OneAtATime, DistinctNames
    PROVE  Spec => []NoDeadlock
<1>1. RunnerInv /\ EventsInv /\ WaitsInv => NoDeadlock
  BY InvNoDeadlock
<1> QED
  BY <1>1, EventsInvariant, WaitsInvariant, PTL
==============================================================================

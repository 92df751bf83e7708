------------------------------- MODULE Runner -------------------------------
(***************************************************************************)
(* The API of t2u.h as the threads of an application call it, and the      *)
(* runner thread that does the work.  A call of t2u_runner_control sends   *)
(* a function to the runner thread over a socket and waits for the answer  *)
(* with the runner's mutex held; create_forward and free_forward start and *)
(* stop the runner with the first and after the last context.              *)
(*                                                                         *)
(* A step of an application thread ends where another thread can see the   *)
(* difference: at a lock, at the control socket, at an access of g_runner. *)
(* Objects are addresses, which malloc may give out again after free.      *)
(***************************************************************************)
EXTENDS Naturals, FiniteSets

CONSTANTS
    Threads,        \* threads of the application
    Runners,        \* addresses of t2u_runner objects
    Contexts,       \* addresses of t2u_context objects
    Rules,          \* addresses of t2u_rule objects
    Names,          \* service names
    None,           \* NULL, no owner
    Serial,         \* the kinds of calls that the application makes one at a
                    \* time, whichever of its threads makes them
    DistinctNames,  \* no two rules of a context have the same name
    MaxCalls        \* bound: calls each thread makes

\* Objects of two kinds have different addresses.
ASSUME AddressAssumption ==
    /\ Contexts \cap Rules = {}
    /\ "control" \notin Contexts \cup Rules

Op == {"create", "free", "add_rule", "del_rule", "dump"}

ASSUME UsageAssumption == Serial \subseteq Op /\ DistinctNames \in BOOLEAN
ASSUME MaxCallsAssumption == MaxCalls \in Nat

\* There is an address for a runner, and of contexts so many as there are.
ASSUME FiniteAssumption == Runners # {} /\ IsFiniteSet(Contexts)

VARIABLES
    pc,          \* where each thread is in its call, "idle" between calls
    call,        \* the call each thread makes, with its local variables
    calls,       \* how many calls each thread has begun
    g_mutex,     \* the owner of __g_runner_mutex_
    mutex_init,  \* __g_runner_mutex_init_
    g_runner,
    runners,     \* the t2u_runner objects
    home,        \* context->runner_, None for an address that is not in use
    rule,        \* the t2u_rule objects
    rules,       \* context->rules_: the rules in the tree of each context
    owned,       \* the contexts that the application has and may use
    held         \* ... and the rules

vars == <<pc, call, calls, g_mutex, mutex_init, g_runner, runners, home, rule,
          rules, owned, held>>

appVars == <<owned, held>>
objVars == <<home, rule, rules>>
globVars == <<g_mutex, mutex_init, g_runner>>

-----------------------------------------------------------------------------
(* Objects *)

Rule == [ctx : Contexts, name : Names, mode : {"client", "server"}]

\* An event is registered for the control socket, for the UDP socket of a
\* context and for the listening socket of a rule in client mode.
Event == {"control"} \cup Contexts \cup Rules

Func == {"add_context", "delete_context", "add_rule", "delete_rule",
         "delete_runner", "debug_dump"}

Request == [func : Func, ctx : Contexts \cup {None}, rule : Rules \cup {None}]

ASSUME NoneAssumption ==
    None \notin Threads \cup Runners \cup Contexts \cup Rules \cup Rule \cup Request

\* live: allocated and not freed.  loop: how far the runner thread is in
\* t2u_runner_loop_ and, inside of it, in runner_control_cb_.
RunnerObject ==
    [live : BOOLEAN, mutex : Threads \cup {None},
     loop : {"none", "created", "running", "replying", "ended"},
     contexts : SUBSET Contexts, events : SUBSET Event,
     request : Request \cup {None}, reply : BOOLEAN]

NoRunner == [live |-> FALSE, mutex |-> None, loop |-> "none", contexts |-> {},
             events |-> {}, request |-> None, reply |-> FALSE]

NoCall == [op |-> "none", func |-> None, runner |-> None, ctx |-> None, rule |-> None]

Goto(t, label) == pc' = [pc EXCEPT ![t] = label]

\* The thread returns to the application.
Return(t) ==
    /\ Goto(t, "idle")
    /\ call' = [call EXCEPT ![t] = NoCall]

MayCall(t, op) ==
    /\ pc[t] = "idle" /\ calls[t] < MaxCalls
    /\ op \in Serial => \A u \in Threads : call[u].op \notin Serial

Begin(t, op, func, runner, ctx, r) ==
    /\ call' = [call EXCEPT ![t] =
                  [op |-> op, func |-> func, runner |-> runner, ctx |-> ctx, rule |-> r]]
    /\ calls' = [calls EXCEPT ![t] = @ + 1]

-----------------------------------------------------------------------------
(* The functions the runner thread executes *)

AddContextCb(n, c) ==
    /\ runners' = [runners EXCEPT ![n] =
             [runners[n] EXCEPT !.contexts = @ \cup {c}, !.events = @ \cup {c},
                                !.request = None, !.loop = "replying"]]
    /\ UNCHANGED objVars

\* Mutant: the events of the rules stay registered.
DeleteContextsKeepEvents(n, gone, event) ==
    LET dead == UNION {rules[c] : c \in gone}
    IN  /\ runners' = [runners EXCEPT ![n] =
                 [runners[n] EXCEPT !.contexts = @ \ gone,
                                    !.events = @ \ (gone \cup event),
                                    !.request = None, !.loop = "replying"]]
        /\ home' = [c \in Contexts |-> IF c \in gone THEN None ELSE home[c]]
        /\ rule' = [r \in Rules |-> IF r \in dead THEN None ELSE rule[r]]
        /\ rules' = [c \in Contexts |-> IF c \in gone THEN {} ELSE rules[c]]

\* delete_context_cb_ for each context in gone: its rules are those that the
\* tree leads to.
DeleteContexts(n, gone, event) ==
    LET dead == UNION {rules[c] : c \in gone}
    IN  /\ runners' = [runners EXCEPT ![n] =
                 [runners[n] EXCEPT !.contexts = @ \ gone,
                                    !.events = @ \ (gone \cup dead \cup event),
                                    !.request = None, !.loop = "replying"]]
        /\ home' = [c \in Contexts |-> IF c \in gone THEN None ELSE home[c]]
        /\ rule' = [r \in Rules |-> IF r \in dead THEN None ELSE rule[r]]
        /\ rules' = [c \in Contexts |-> IF c \in gone THEN {} ELSE rules[c]]

DeleteContextCb(n, c) == DeleteContexts(n, {c}, {})

\* Mutant: the event of the control socket stays registered.
DeleteRunnerKeepsControl(n) == DeleteContexts(n, runners[n].contexts, {})

\* delete_runner_cb_: all contexts, and the event of the control socket.
DeleteRunnerCb(n) == DeleteContexts(n, runners[n].contexts, {"control"})

\* Mutant: the key of the tree is the mode.
SameMode(r, s) == rule[r].mode = rule[s].mode

SameName(r, s) == rule[r].name = rule[s].name

\* add_rule_cb_: rbtree_insert refuses a name that is there already, which
\* nobody looks at.
AddRuleTree(r) ==
    LET c == rule[r].ctx
    IN  IF \E s \in rules[c] : SameName(r, s)
        THEN rules ELSE [rules EXCEPT ![c] = @ \cup {r}]

AddRuleEvents(r) == IF rule[r].mode = "client" THEN {r} ELSE {}

AddRuleCb(n, r) ==
    /\ runners' = [runners EXCEPT ![n] =
             [runners[n] EXCEPT !.events = @ \cup AddRuleEvents(r),
                                !.request = None, !.loop = "replying"]]
    /\ rules' = AddRuleTree(r)
    /\ UNCHANGED <<home, rule>>

\* delete_rule_cb_: rbtree_remove goes by the name of the rule.
DeleteRuleCb(n, r) ==
    /\ runners' = [runners EXCEPT ![n] =
             [runners[n] EXCEPT !.events = @ \ {r},
                                !.request = None, !.loop = "replying"]]
    /\ rules' = [rules EXCEPT ![rule[r].ctx] = {s \in @ : ~SameName(r, s)}]
    /\ rule' = [rule EXCEPT ![r] = None]
    /\ UNCHANGED home

DebugDumpCb(n) ==
    /\ runners' = [runners EXCEPT ![n] =
             [runners[n] EXCEPT !.request = None, !.loop = "replying"]]
    /\ UNCHANGED objVars

-----------------------------------------------------------------------------
(* The runner thread *)

\* t2u_cond_signal: the thread that waits for runner n to start is woken.
CondSignal(n) ==
    pc' = [t \in Threads |-> IF pc[t] = "waiting" /\ call[t].runner = n
                             THEN "woken" ELSE pc[t]]

\* Mutant: the signal is sent without the mutex.
LoopStartUnlocked(n) ==
    /\ runners[n].loop = "created"
    /\ runners' = [runners EXCEPT ![n].loop = "running"]
    /\ CondSignal(n)
    /\ UNCHANGED <<call, calls, globVars, objVars, appVars>>

\* t2u_runner_loop_ up to event_base_dispatch: lock, signal, unlock.
LoopStart(n) ==
    /\ runners[n].loop = "created" /\ runners[n].mutex = None
    /\ runners' = [runners EXCEPT ![n].loop = "running"]
    /\ CondSignal(n)
    /\ UNCHANGED <<call, calls, globVars, objVars, appVars>>

\* runner_control_cb_: receive a request and run its function.
LoopProcess(n) ==
    LET req == runners[n].request
    IN  /\ runners[n].loop = "running"
        /\ "control" \in runners[n].events /\ req # None
        /\ \/ req.func = "add_context" /\ AddContextCb(n, req.ctx)
           \/ req.func = "delete_context" /\ DeleteContextCb(n, req.ctx)
           \/ req.func = "add_rule" /\ AddRuleCb(n, req.rule)
           \/ req.func = "delete_rule" /\ DeleteRuleCb(n, req.rule)
           \/ req.func = "delete_runner" /\ DeleteRunnerCb(n)
           \/ req.func = "debug_dump" /\ DebugDumpCb(n)
        /\ UNCHANGED <<pc, call, calls, globVars, appVars>>

\* ... and send the answer.
LoopReply(n) ==
    /\ runners[n].loop = "replying"
    /\ runners' = [runners EXCEPT ![n] =
             [runners[n] EXCEPT !.reply = TRUE, !.loop = "running"]]
    /\ UNCHANGED <<pc, call, calls, globVars, objVars, appVars>>

\* event_base_dispatch returns when no event is left.
LoopEnd(n) ==
    /\ runners[n].loop = "running" /\ runners[n].events = {}
    /\ runners' = [runners EXCEPT ![n].loop = "ended"]
    /\ UNCHANGED <<pc, call, calls, globVars, objVars, appVars>>

\* The application's unknown callback, called by process_udp_cb_ on the runner
\* thread, deletes a rule: t2u_runner_control then runs the function at once.
CallbackDeletesRule(n, r) ==
    /\ runners[n].loop = "running"
    /\ r \in held /\ rule[r].ctx \in runners[n].contexts
    /\ runners' = [runners EXCEPT ![n].events = @ \ {r}]
    /\ rules' = [rules EXCEPT ![rule[r].ctx] = {s \in @ : ~SameName(r, s)}]
    /\ rule' = [rule EXCEPT ![r] = None]
    /\ held' = held \ {r}
    /\ UNCHANGED <<pc, call, calls, globVars, home, owned>>

-----------------------------------------------------------------------------
(* t2u_runner_control, on a thread of the application *)

\* Lock the runner and send the request.
ControlSend(t) ==
    LET n == call[t].runner
    IN  /\ pc[t] = "control"
        /\ runners[n].live /\ runners[n].mutex = None
        /\ runners' = [runners EXCEPT ![n] =
                 [runners[n] EXCEPT !.mutex = t,
                                    !.request = [func |-> call[t].func, ctx |-> call[t].ctx,
                                                 rule |-> call[t].rule]]]
        /\ Goto(t, "recv")
        /\ UNCHANGED <<call, calls, globVars, objVars, appVars>>

AfterControl(func) ==
    CASE func = "add_context" -> "create_unlock"
      [] func = "delete_context" -> "free_check"
      [] func = "delete_runner" -> "join"
      [] OTHER -> "idle"

\* Mutant: the answer is not waited for.
ControlRecvEarly(t) ==
    LET n == call[t].runner next == AfterControl(call[t].func)
    IN  /\ pc[t] = "recv"
        /\ runners' = [runners EXCEPT ![n] =
                 [runners[n] EXCEPT !.reply = FALSE, !.mutex = None]]
        /\ IF next = "idle" THEN Return(t) ELSE Goto(t, next) /\ UNCHANGED call
        /\ held' = IF call[t].func = "add_rule" THEN held \cup {call[t].rule} ELSE held
        /\ UNCHANGED <<calls, globVars, objVars, owned>>

\* Receive the answer and unlock; recv() on the control socket does not fail.
\* add_forward_rule and del_forward_rule return from here.
ControlRecv(t) ==
    LET n == call[t].runner next == AfterControl(call[t].func)
    IN  /\ pc[t] = "recv"
        /\ runners[n].live /\ runners[n].reply
        /\ runners' = [runners EXCEPT ![n] =
                 [runners[n] EXCEPT !.reply = FALSE, !.mutex = None]]
        /\ IF next = "idle" THEN Return(t) ELSE Goto(t, next) /\ UNCHANGED call
        /\ held' = IF call[t].func = "add_rule" THEN held \cup {call[t].rule} ELSE held
        /\ UNCHANGED <<calls, globVars, objVars, owned>>

-----------------------------------------------------------------------------
(* create_forward *)

\* Bound: there is an address for one more context than exist or are being
\* created.
ContextAvailable ==
    Cardinality({c \in Contexts : home[c] # None})
      + Cardinality({t \in Threads : call[t].op = "create" /\ call[t].ctx = None})
      < Cardinality(Contexts)

\* The mutex is initialised by the first call.
CreateForward(t) ==
    /\ MayCall(t, "create") /\ ContextAvailable
    /\ Begin(t, "create", "add_context", None, None, None)
    /\ Goto(t, IF mutex_init THEN "create_lock" ELSE "init_mutex")
    /\ UNCHANGED <<globVars, runners, objVars, appVars>>

InitMutex(t) ==
    /\ pc[t] = "init_mutex"
    /\ g_mutex' = None /\ mutex_init' = TRUE
    /\ Goto(t, "create_lock")
    /\ UNCHANGED <<call, calls, g_runner, runners, objVars, appVars>>

CreateLock(t) ==
    /\ pc[t] = "create_lock" /\ g_mutex = None
    /\ g_mutex' = t
    /\ Goto(t, IF g_runner = None THEN "runner_new" ELSE "new_context")
    /\ UNCHANGED <<call, calls, mutex_init, g_runner, runners, objVars, appVars>>

\* What t makes: no contexts, and one event, for the control socket.
NewRunner(t) == [live |-> TRUE, mutex |-> t, loop |-> "created", contexts |-> {},
                 events |-> {"control"}, request |-> None, reply |-> FALSE]

\* t2u_runner_new up to t2u_thr_create, with the runner's mutex held.
RunnerNew(t) ==
    /\ pc[t] = "runner_new"
    /\ \E n \in Runners :
         /\ ~runners[n].live
         /\ runners' = [runners EXCEPT ![n] = NewRunner(t)]
         /\ call' = [call EXCEPT ![t].runner = n]
    /\ Goto(t, "cond_wait")
    /\ UNCHANGED <<calls, globVars, objVars, appVars>>

\* t2u_cond_wait gives the mutex up and waits for the signal ...
CondWait(t) ==
    /\ pc[t] = "cond_wait"
    /\ runners' = [runners EXCEPT ![call[t].runner].mutex = None]
    /\ Goto(t, "waiting")
    /\ UNCHANGED <<call, calls, globVars, objVars, appVars>>

\* ... and takes it again before it returns.
CondReturn(t) ==
    /\ pc[t] = "woken" /\ runners[call[t].runner].mutex = None
    /\ g_runner' = call[t].runner
    /\ Goto(t, "new_context")
    /\ UNCHANGED <<call, calls, g_mutex, mutex_init, runners, objVars, appVars>>

\* t2u_add_context up to the control call.
NewContext(t) ==
    /\ pc[t] = "new_context"
    /\ \E c \in Contexts :
         /\ home[c] = None
         /\ home' = [home EXCEPT ![c] = g_runner]
         /\ call' = [call EXCEPT ![t] = [call[t] EXCEPT !.ctx = c, !.runner = g_runner]]
    /\ Goto(t, "control")
    /\ UNCHANGED <<calls, globVars, runners, rule, rules, appVars>>

CreateUnlock(t) ==
    /\ pc[t] = "create_unlock"
    /\ g_mutex' = None
    /\ owned' = owned \cup {call[t].ctx}
    /\ Return(t)
    /\ UNCHANGED <<calls, mutex_init, g_runner, runners, objVars, held>>

-----------------------------------------------------------------------------
(* free_forward *)

\* The application frees a context that no other call is using.
FreeForward(t, c) ==
    /\ MayCall(t, "free")
    /\ c \in owned /\ \A u \in Threads : call[u].ctx # c
    /\ owned' = owned \ {c}
    /\ held' = {r \in held : rule[r].ctx # c}
    /\ Begin(t, "free", "delete_context", home[c], c, None)
    /\ Goto(t, "control")
    /\ UNCHANGED <<globVars, runners, objVars>>

\* Mutant: the last context's runner is left running.
FreeCheckNever(t) ==
    /\ pc[t] = "free_check"
    /\ Return(t)
    /\ UNCHANGED <<calls, globVars, runners, objVars, appVars>>

\* Mutant: the runner is deleted whatever its contexts.
FreeCheckAlways(t) ==
    /\ pc[t] = "free_check"
    /\ Goto(t, "free_lock") /\ UNCHANGED call
    /\ UNCHANGED <<calls, globVars, runners, objVars, appVars>>

\* Is the runner without a context?  Read without any lock.
FreeCheck(t) ==
    /\ pc[t] = "free_check"
    /\ IF g_runner # None /\ runners[g_runner].contexts = {}
       THEN Goto(t, "free_lock") /\ UNCHANGED call
       ELSE Return(t)
    /\ UNCHANGED <<calls, globVars, runners, objVars, appVars>>

FreeLock(t) ==
    /\ pc[t] = "free_lock" /\ g_mutex = None
    /\ g_mutex' = t
    /\ Goto(t, "delete_runner")
    /\ UNCHANGED <<call, calls, mutex_init, g_runner, runners, objVars, appVars>>

\* Mutant: the control data has no function.
DeleteRunnerNoFunc(t) ==
    /\ pc[t] = "delete_runner"
    /\ Goto(t, "control")
    /\ call' = [call EXCEPT ![t] =
             [call[t] EXCEPT !.func = None, !.runner = g_runner, !.ctx = None]]
    /\ UNCHANGED <<calls, globVars, runners, objVars, appVars>>

\* t2u_delete_runner: nothing to do for NULL, otherwise stop the runner.
DeleteRunner(t) ==
    /\ pc[t] = "delete_runner"
    /\ IF g_runner = None
       THEN Goto(t, "free_unlock") /\ UNCHANGED call
       ELSE /\ Goto(t, "control")
            /\ call' = [call EXCEPT ![t] =
                     [call[t] EXCEPT !.func = "delete_runner", !.runner = g_runner,
                                     !.ctx = None]]
    /\ UNCHANGED <<calls, globVars, runners, objVars, appVars>>

\* Mutant: the thread is not joined.
NoJoin(t) ==
    /\ pc[t] = "join"
    /\ runners' = [runners EXCEPT ![call[t].runner].live = FALSE]
    /\ Goto(t, "free_unlock")
    /\ UNCHANGED <<call, calls, globVars, objVars, appVars>>

\* t2u_thr_join, then the runner is freed.
Join(t) ==
    /\ pc[t] = "join" /\ runners[call[t].runner].loop = "ended"
    /\ runners' = [runners EXCEPT ![call[t].runner].live = FALSE]
    /\ Goto(t, "free_unlock")
    /\ UNCHANGED <<call, calls, globVars, objVars, appVars>>

FreeUnlock(t) ==
    /\ pc[t] = "free_unlock"
    /\ g_runner' = None /\ g_mutex' = None
    /\ Return(t)
    /\ UNCHANGED <<calls, mutex_init, runners, objVars, appVars>>

-----------------------------------------------------------------------------
(* The other calls *)

\* add_forward_rule for a context that the application has.  Where the listening
\* socket cannot be set up the call returns NULL and nothing has changed.
AddForwardRule(t, c, name, mode) ==
    /\ MayCall(t, "add_rule")
    /\ c \in owned
    /\ DistinctNames =>
         \A s \in Rules : rule[s] # None => rule[s].ctx # c \/ rule[s].name # name
    /\ \E r \in Rules :
         /\ rule[r] = None
         /\ rule' = [rule EXCEPT ![r] = [ctx |-> c, name |-> name, mode |-> mode]]
         /\ Begin(t, "add_rule", "add_rule", home[c], c, r)
    /\ Goto(t, "control")
    /\ UNCHANGED <<globVars, runners, home, rules, appVars>>

DelForwardRule(t, r) ==
    /\ MayCall(t, "del_rule")
    /\ r \in held
    /\ held' = held \ {r}
    /\ Begin(t, "del_rule", "delete_rule", home[rule[r].ctx], rule[r].ctx, r)
    /\ Goto(t, "control")
    /\ UNCHANGED <<globVars, runners, objVars, owned>>

DebugDump(t) ==
    /\ MayCall(t, "dump")
    /\ g_runner # None
    /\ Begin(t, "dump", "debug_dump", g_runner, None, None)
    /\ Goto(t, "control")
    /\ UNCHANGED <<globVars, runners, objVars, appVars>>

-----------------------------------------------------------------------------
Init ==
    /\ pc = [t \in Threads |-> "idle"]
    /\ call = [t \in Threads |-> NoCall]
    /\ calls = [t \in Threads |-> 0]
    /\ g_mutex = None /\ mutex_init = FALSE /\ g_runner = None
    /\ runners = [n \in Runners |-> NoRunner]
    /\ home = [c \in Contexts |-> None]
    /\ rule = [r \in Rules |-> None]
    /\ rules = [c \in Contexts |-> {}]
    /\ owned = {} /\ held = {}

\* A thread makes a new call ...
NewCall(t) ==
    \/ CreateForward(t)
    \/ \E c \in Contexts : FreeForward(t, c)
    \/ \E c \in Contexts, v \in Names, mode \in {"client", "server"} :
         AddForwardRule(t, c, v, mode)
    \/ \E r \in Rules : DelForwardRule(t, r)
    \/ DebugDump(t)

\* ... or goes on with the one it is in.
Continue(t) ==
    \/ InitMutex(t) \/ CreateLock(t) \/ RunnerNew(t) \/ CondWait(t) \/ CondReturn(t)
    \/ NewContext(t) \/ CreateUnlock(t)
    \/ ControlSend(t) \/ ControlRecv(t)
    \/ FreeCheck(t) \/ FreeLock(t) \/ DeleteRunner(t) \/ Join(t) \/ FreeUnlock(t)

Loop(n) == LoopStart(n) \/ LoopProcess(n) \/ LoopReply(n) \/ LoopEnd(n)

Next ==
    \/ \E t \in Threads : NewCall(t) \/ Continue(t)
    \/ \E n \in Runners : Loop(n) \/ \E r \in Rules : CallbackDeletesRule(n, r)

Spec == Init /\ [][Next]_vars

\* Threads that can go on do, and the runner thread serves its sockets.  As
\* the calls are finitely many, no mutex is taken for ever by others.
Fairness ==
    /\ \A t \in Threads : WF_vars(Continue(t))
    /\ \A n \in Runners : WF_vars(Loop(n))

FairSpec == Spec /\ Fairness

-----------------------------------------------------------------------------
(* Properties *)

\* The function of t's control call is still to run: its request is not sent,
\* or it is on the socket.
Pending(t) ==
    \/ pc[t] = "control"
    \/ pc[t] = "recv" /\ runners[call[t].runner].request # None

Label == {"idle", "init_mutex", "create_lock", "runner_new", "cond_wait", "waiting",
          "woken", "new_context", "control", "recv", "create_unlock", "free_check",
          "free_lock", "delete_runner", "join", "free_unlock"}

Call == [op : Op \cup {"none"},
         func : Func \cup {None}, runner : Runners \cup {None},
         ctx : Contexts \cup {None}, rule : Rules \cup {None}]

TypeOK ==
    /\ pc \in [Threads -> Label]
    /\ call \in [Threads -> Call]
    /\ calls \in [Threads -> 0 .. MaxCalls]
    /\ g_mutex \in Threads \cup {None} /\ mutex_init \in BOOLEAN
    /\ g_runner \in Runners \cup {None}
    /\ runners \in [Runners -> RunnerObject]
    /\ home \in [Contexts -> Runners \cup {None}]
    /\ rule \in [Rules -> Rule \cup {None}]
    /\ rules \in [Contexts -> SUBSET Rules]
    /\ owned \subseteq Contexts /\ held \subseteq Rules

\* A context that create_forward has returned works until it is passed to
\* free_forward: it is in the tree of the one runner, and that one's thread is
\* in its loop.
OwnedUntilFreed ==
    \A c \in owned :
        /\ g_runner # None /\ home[c] = g_runner
        /\ c \in runners[g_runner].contexts
        /\ runners[g_runner].loop \in {"running", "replying"}

\* A rule that add_forward_rule has returned works until it is deleted: the
\* tree of its context leads to it, and the context is the application's.
HeldUntilDeleted ==
    \A r \in held : rule[r] # None /\ rule[r].ctx \in owned /\ r \in rules[rule[r].ctx]

\* libevent watches the socket of every context in the tree, the listening
\* socket of every client-mode rule its context can find, and no other: no
\* callback can run for a context or a rule that was freed.
EventsBelong ==
    \A n \in Runners : runners[n].live =>
        runners[n].events \ {"control"} =
            runners[n].contexts \cup
            {r \in UNION {rules[c] : c \in runners[n].contexts} :
                rule[r] # None /\ rule[r].mode = "client"}

\* No thread is about to use, or waits for, a runner that was freed, and no
\* runner is freed before its own thread has left the loop.
NoUseAfterFree ==
    /\ \A t \in Threads :
         /\ pc[t] \in {"cond_wait", "waiting", "woken", "control", "recv", "join"} =>
              runners[call[t].runner].live
         /\ pc[t] = "free_check" /\ g_runner # None => runners[g_runner].live
    /\ \A n \in Runners : ~runners[n].live => runners[n].loop \in {"none", "ended"}

\* free_forward of the last context stops the runner: between calls there is a
\* runner just when there is a context.
RunnerWithContexts ==
    (\A t \in Threads : pc[t] = "idle") =>
        /\ owned = {} <=> g_runner = None
        /\ \A n \in Runners : runners[n].live <=> n = g_runner

\* The thread t is in a call, and what it waits for there has come.
CanContinue(t) ==
    LET R == runners[call[t].runner]
    IN  CASE pc[t] \in {"idle", "waiting"} -> FALSE
          [] pc[t] \in {"create_lock", "free_lock"} -> g_mutex = None
          [] pc[t] = "runner_new" -> \E n \in Runners : ~runners[n].live
          [] pc[t] = "new_context" -> \E c \in Contexts : home[c] = None
          [] pc[t] = "woken" -> R.mutex = None
          [] pc[t] = "control" -> R.live /\ R.mutex = None
          [] pc[t] = "recv" -> R.live /\ R.reply
          [] pc[t] = "join" -> R.loop = "ended"
          [] OTHER -> TRUE

\* The runner thread has something to do, or may end.
CanLoop(n) ==
    LET R == runners[n]
    IN  \/ R.loop = "created" /\ R.mutex = None
        \/ R.loop = "running" /\ "control" \in R.events /\ R.request # None
        \/ R.loop = "replying"
        \/ R.loop = "running" /\ R.events = {}

\* No call is stuck: its thread can go on, or the runner thread it waits for
\* can, or the thread can that holds the runner's mutex.
NoDeadlock ==
    \A t \in Threads : pc[t] # "idle" =>
        \/ CanContinue(t)
        \/ /\ call[t].runner # None
           /\ \/ CanLoop(call[t].runner)
              \/ \E u \in Threads :
                   runners[call[t].runner].mutex = u /\ CanContinue(u)

\* Every call returns: no signal to the starting thread is missed, no answer on
\* the control socket is taken by another thread, and the loop ends once the
\* last event is gone, so that the join does.
CallsReturn == \A t \in Threads : pc[t] # "idle" ~> pc[t] = "idle"

-----------------------------------------------------------------------------
(* What a comment of the code says, which it does not do in every run.      *)

\* When free_forward deletes the runner "the runner is already stopped and no
\* events bind" (t2u.c:96): no context has come since the check before the lock.
NoEventsBind ==
    \A t \in Threads : pc[t] = "delete_runner" /\ g_runner # None =>
        runners[g_runner].events \subseteq {"control"}
=============================================================================

--------------------------------- MODULE Api ---------------------------------
(***************************************************************************)
(* What the API of t2u.h promises to the threads of an application.  A     *)
(* call does what it is for in one moment between its beginning and its    *)
(* return, on the objects it was called with, and nothing else changes     *)
(* what the contexts forward.  There is no runner here and no waiting.     *)
(***************************************************************************)
CONSTANTS Threads, Contexts, Rules, None

VARIABLES
    contexts,  \* the contexts that forward
    rules,     \* the rules by which each of them does
    call,      \* the call each thread is in
    owned,     \* the contexts that the application has and may use
    held       \* ... and the rules

vars == <<contexts, rules, call, owned, held>>

NoCall == [op |-> "none", done |-> FALSE, ctx |-> None, rule |-> None]

\* A thread begins a call; what it will create it does not know yet.
Begin(t, op, c, r) ==
    /\ call[t] = NoCall
    /\ call' = [call EXCEPT ![t] = [op |-> op, done |-> FALSE, ctx |-> c, rule |-> r]]
    /\ UNCHANGED <<contexts, rules>>

\* The call of t has its effect.
Perform(t, op, c, r) ==
    /\ call[t].op = op /\ ~call[t].done
    /\ call' = [call EXCEPT ![t] = [op |-> op, done |-> TRUE, ctx |-> c, rule |-> r]]
    /\ UNCHANGED <<owned, held>>

-----------------------------------------------------------------------------
(* Calls *)

CreateForward(t) == Begin(t, "create", None, None) /\ UNCHANGED <<owned, held>>

\* The application gives up the context and its rules.
FreeForward(t, c) ==
    /\ c \in owned /\ \A u \in Threads : call[u].ctx # c
    /\ Begin(t, "free", c, None)
    /\ owned' = owned \ {c} /\ held' = held \ rules[c]

AddForwardRule(t, c) ==
    /\ c \in owned
    /\ Begin(t, "add_rule", c, None)
    /\ UNCHANGED <<owned, held>>

DelForwardRule(t, c, r) ==
    /\ r \in held \cap rules[c]
    /\ Begin(t, "del_rule", c, r)
    /\ held' = held \ {r} /\ UNCHANGED owned

DebugDump(t) == Begin(t, "dump", None, None) /\ UNCHANGED <<owned, held>>

-----------------------------------------------------------------------------
(* Effects *)

AddContext(t, c) ==
    /\ c \notin contexts
    /\ Perform(t, "create", c, None)
    /\ contexts' = contexts \cup {c} /\ UNCHANGED rules

DeleteContext(t, c) ==
    /\ call[t].ctx = c /\ c \in contexts
    /\ Perform(t, "free", None, None)
    /\ contexts' = contexts \ {c} /\ rules' = [rules EXCEPT ![c] = {}]

AddRule(t, r) ==
    LET c == call[t].ctx
    IN  /\ c \in contexts /\ \A b \in Contexts : r \notin rules[b]
        /\ Perform(t, "add_rule", c, r)
        /\ rules' = [rules EXCEPT ![c] = rules[c] \cup {r}] /\ UNCHANGED contexts

DeleteRule(t, c, r) ==
    /\ call[t].ctx = c /\ call[t].rule = r /\ r \in rules[c]
    /\ Perform(t, "del_rule", c, r)
    /\ rules' = [rules EXCEPT ![c] = rules[c] \ {r}] /\ UNCHANGED contexts

Dump(t) == Perform(t, "dump", None, None) /\ UNCHANGED <<contexts, rules>>

\* The application deletes a rule in a callback: call, effect and return.
CallbackDeletesRule(c, r) ==
    /\ r \in held \cap rules[c]
    /\ rules' = [rules EXCEPT ![c] = rules[c] \ {r}]
    /\ held' = held \ {r}
    /\ UNCHANGED <<contexts, call, owned>>

-----------------------------------------------------------------------------
\* A call returns once it has had its effect, with what it has created.
Return(t) ==
    /\ call[t].done
    /\ owned' = owned \cup {c \in Contexts : call[t].op = "create" /\ call[t].ctx = c}
    /\ held' = held \cup {r \in Rules : call[t].op = "add_rule" /\ call[t].rule = r}
    /\ call' = [call EXCEPT ![t] = NoCall]
    /\ UNCHANGED <<contexts, rules>>

Init ==
    /\ contexts = {} /\ rules = [c \in Contexts |-> {}]
    /\ call = [t \in Threads |-> NoCall]
    /\ owned = {} /\ held = {}

ThreadNext(t) ==
    \/ CreateForward(t) \/ DebugDump(t) \/ Dump(t) \/ Return(t)
    \/ \E c \in Contexts :
         \/ FreeForward(t, c) \/ AddForwardRule(t, c)
         \/ AddContext(t, c) \/ DeleteContext(t, c)
    \/ \E r \in Rules : AddRule(t, r)
    \/ \E c \in Contexts, r \in Rules : DelForwardRule(t, c, r) \/ DeleteRule(t, c, r)

Next ==
    \/ \E t \in Threads : ThreadNext(t)
    \/ \E c \in Contexts, r \in Rules : CallbackDeletesRule(c, r)

Spec == Init /\ [][Next]_vars
==============================================================================

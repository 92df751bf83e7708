------------------------------ MODULE RunnerApi ------------------------------
(* The runner thread and its control socket implement the Api. *)
EXTENDS Runner

\* The function of t's call has run.
Done(t) ==
    /\ call[t].op # "none"
    /\ call[t].op = "create" => pc[t] \in {"recv", "create_unlock"}
    /\ Pending(t) => call[t].func = "delete_runner"

\* A call as the application sees it: what it creates is not known before the
\* function has run, and what it frees no longer after that.
View(t) ==
    [op |-> call[t].op, done |-> Done(t),
     ctx |-> IF call[t].op = IF Done(t) THEN "free" ELSE "create" THEN None ELSE call[t].ctx,
     rule |-> IF ~Done(t) /\ call[t].op = "add_rule" THEN None ELSE call[t].rule]

Forwarding == IF g_runner = None THEN {} ELSE runners[g_runner].contexts

ApiCall == [t \in Threads |-> View(t)]

A == INSTANCE Api WITH contexts <- Forwarding, call <- ApiCall

\* Every call of the API has its effect once, at one moment between its
\* beginning and its return, on its own arguments: no thread returns on the
\* answer to another's request, no request is lost or served twice, and
\* starting and stopping the runner changes nothing of what is forwarded.
ImplementsApi == A!Spec
==============================================================================

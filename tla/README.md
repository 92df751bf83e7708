# A TLA+ model of t2u

t2u carries TCP connections over a pair of UDP sockets.  An application creates a
*context* for a UDP socket and adds *rules* to it.  A client-mode rule listens for
TCP connections; the context at the other end has a server-mode rule of the same
service name and opens a TCP connection of its own for each of them.  The two TCP
connections are joined by a *session*, which numbers, confirms, re-sends and
reorders what it carries.  One *runner* thread per process does all of this in
libevent callbacks; the API functions hand it work through a control socket.

Paths below are relative to the repository; `session.c` stands for
`c/src/t2u_session.c`, and so on.

## Inventory

| part | state | operations | hard behaviour |
|---|---|---|---|
| established session (`session.c`, `message.c`) | `send_seq_`, `send_mess_`, `send_buffer_count_`, `recv_seq_`, `recv_mess_`, `recv_buffer_count_`, `retry_seq_`, `status_`, the read event, a timer per message | read TCP, re-send, handle data request and response, retransmission request, close, idle timeout | loss, duplication and reordering; wrap of sequence numbers; windows of different size; blocked, partial and failing writes in the middle of a loop; a session that frees itself |
| handshake (`session.c`, `rule.c`) | `connecting_sessions_`, `sessions_`, `handle_`, `connect_retries_`, the static `handle_seq_` | accept, connect request and response, timeout, asynchronous `connect()` | repeated and late datagrams, orphaned sessions, handles shared by two roles, width of the handle on the wire |
| contexts and rules (`context.c`, `rule.c`) | `rules_`, the trees of sessions | add and delete, dispatch of datagrams | deletion while sessions are under way |
| runner and API (`runner.c`, `t2u.c`, `thread.c`) | `g_runner`, its mutex, `contexts_`, the control socket, the registered events | `create_forward`, `free_forward`, `add_forward_rule`, `del_forward_rule`, `debug_dump`, control calls | several application threads against the runner thread; start and end of that thread; what is freed while others use it |
| options (`t2u.c`) | timeout, retries, window, idle timeout | `set_context_option` | a window that changes under a session |
| red-black tree (`rbtree.c`) | nodes | insert, lookup, remove | balance and order after removal |
| test program, vendored libevent headers | | | not part of the library |

A session calls into `message.c` and is called by the dispatch of its context; sessions
of different processes share nothing but datagrams.  All callbacks of a process run
one after the other on its runner thread.  In `DataSession` and `Connect` a callback is
therefore an atomic action, and the interleavings that matter are those of the two peers,
the network, the timers and the TCP sockets.  The one thing application threads change
without the runner thread is a context's options.  `Runner` is about the rest of what those
threads do, down to the single lock, send, receive and read of `g_runner`.

What makes the parts correct: a session delivers a prefix of what was read, in order,
and eventually all of it; its counters and queues agree and a socket that stopped being
read is read again; a handle leads to the one session it was made for; a session that
exists at one end only has been told to close; nothing is connecting for ever; the
runner outlives every context and goes with the last; every call has its effect once and returns; a tree is a
dictionary that keeps its balance.

## Modules

| module | models |
|---|---|
| `SeqSpace` | `uint32_t` sequence numbers as arithmetic modulo `SeqSpan` |
| `RetransScan` | the loop at the end of `t2u_session_handle_data_request` that asks for missing messages, in closed form, and the body of that loop as it is written |
| `DataSession` | the two peers of an established session, and the network between them |
| `DataDelivery` | `DataSession` with a network that drops only so many datagrams and timers that are not early: what gets done in the end |
| `Stream` | what one direction of a session promises (abstract) |
| `SessionStream` | `DataSession` implements `Stream` in each direction |
| `Connect` | contexts, rules, handshake, handles, routing of data and the end of sessions |
| `Runner` | the threads of an application against the runner thread |
| `Api` | what the calls of `t2u.h` promise an application (abstract) |
| `RunnerApi` | `Runner` implements `Api` |
| `RBTree` | the red-black tree, node by node |
| `Dictionary` | what a tree promises (abstract); `RBTree` implements it |
| `DataSession_proofs`, `DataSession_queues_proofs` | theorems about `DataSession`: payloads, and counters and wakeups |
| `SessionStream_proofs` | `DataSession` implements `Stream`, proved |
| `Connect_proofs` | theorems about `Connect` |
| `Runner_proofs` | theorems about `Runner`: what lives how long, and that no call is stuck |
| `RunnerApi_proofs` | `Runner` implements `Api`, proved |
| `RetransScan_proofs` | the closed form of `RetransScan` is the loop, proved |
| `RBTree_proofs` | theorems about `RBTree`, and that it implements `Dictionary` |
| `MCDataSession`, `MCDataDelivery`, `MCRetransScan`, `MCConnect` | instances for TLC |

Definitions whose comment starts with "Mutant" are wrong on purpose: each replaces the
definition below it in one run, to show that a property can fail.

### DataSession

`sess[p]` is the `t2u_session` of peer `p`.  Its fields have the names of the C struct;
`life` says whether the session is still in `rule->sessions_` and, if not, why it was
freed; `reading` stands for `ev_->event_ != NULL`.  `send_mess` and `recv_mess` are sets
of entries, the trees of the code.  A message has the `len` of `len_` without the header
and `armed` for its pending timer.  `net` is the set of all datagrams sent.  Receiving one
does not remove it, so it may arrive late, again, or never.  `log` and `delivered` are
history: the payloads read from and the chunks written to the TCP sockets.  Bytes are
numbered, so that a byte written at the wrong place is seen.  `window[p]` is the
`udp_slide_window_` of the context of `p`.

| action | code |
|---|---|
| `ProcessTcpFull`, `ProcessTcpRead`, `ProcessTcpEof` | `t2u_session_process_tcp` |
| `RequestTimeout` | `process_request_timeout_cb_` |
| `HandleDataResponse`, `HandleRetransRequest` | `message.c` |
| `HandleDataRequestOld`, `-Ahead`, `-Next`, `-Stuck`, `-Freed` | `t2u_session_handle_data_request`, one action per way through it |
| `HandleCloseRequest` | `process_udp_cb_`, close |
| `SessionTimeout` | `session_timeout_check_cb_` |
| `SetContextOption` | `set_context_option` with `CTX_UDP_SLIDEWINDOW` |

The write loop is one callback and one action: message 1 is the one that arrived, messages
2, 3, ... are held ones that follow it, and the action says how many were written and how
the last attempt ended.  `send()` may write everything, a part (`"partial"`), block
(`"block"`) or fail (`"error"`); `WriteResults` selects which of the last three happen.
The try-delete inside the loop can free the session while the loop still uses it: that is
undefined behaviour, and the session becomes `"corrupt"` and does nothing more.
The idle timeout may come in any state, since the message timeout can be set above it.

`set_context_option` runs on an application thread and takes no lock.  Callbacks read the
window once, except the part of `t2u_session_handle_data_request` for messages that are
ahead: it compares the distance with one value (`session.c:206`), the number of held messages
with the next (`session.c:312`), and bounds the scan for missing messages with a third.
`HandleDataRequestAhead` lets the window change in both places.  The scan reads it again in every
turn of its loop (`session.c:334`, `342`), where the model lets it stay the same; the
scan only decides which messages are asked for early, and no property depends on it.  Values
are clamped to 1 .. `MaxWindow`, 64 in the code.  The other three options need no variable:
`utimeout_` and `session_timeout_` only say when a timer fires, and timers may fire at any
time here; `uretries_` is the constant `Retries` of `Connect`.

`DataDelivery` has the same steps in surroundings that are no longer arbitrary, because nothing need
ever arrive in `DataSession`.  A datagram is received once (`Arrive`, `Serve`) or dropped (`Lose`), and
`MaxLoss` of them are dropped.  A timer fires (`Timeout`) only when neither its message nor an answer to
it is under way, and only after the timers of earlier messages, as timers of one period do.
`arrived` is the datagram that `process_udp_cb_` has read, and `unheard` remembers which confirmations were
dropped.

A session starts established, with empty queues, and at sequence number `StartSeq` rather
than 0: a session that has carried so many messages each way is in that state, up to
`retry_seq_`, and the wrap is reached within few messages.

### Connect

`connecting[p]` and `sessions[p]` are the two trees of all rules of the context of `p`;
a session has its rule's `service`.  A handle is a pair: low word from the client's
counter, high word from the server's.  `KeepsHandle` says whether `hton64` carries both
(it does not where `__x86_64__` or `_WIN64` is defined); `DataSession` describes a session
of a build where it does.  `origin` and `joined` are history: the accepted TCP connection
a session belongs to, and the handles a client session was established with.  The
lookup of an old session in `t2u_rule_handle_connect_request` is modelled as written; it
never finds one, because every server session has a high word.  Each context has a
process, and so a handle counter, of its own.

`DataSession` gives one session a network of its own.  Two things in `Connect` justify this.
`SendData` puts datagrams of established sessions into the network that all sessions share,
and `Isolated` says that none of them, however late, is found by a session of another
connection; it is proved.  A data request that reaches a peer before that peer has handled the
connect response finds no established session and is ignored; to `DataSession` that is a
datagram that arrives late.

### Runner

Threads, runners, contexts and rules are addresses; `malloc` may hand a freed one out again.
`pc[t]` is where thread `t` is in its API call and `call[t]` holds its local variables.
`runners[n]` is a `t2u_runner`: its mutex, its tree of contexts, the events registered with its
event base, the request and the answer on the control socket, and in `loop` how far its
thread is.  `home`, `rule` and `rules` are the pointers of contexts and rules; `owned` and `held`
are what the application has been given and not yet handed back.

A call is cut where another thread can see the difference.  `create_forward` is `CreateForward`,
`InitMutex`, `CreateLock`, `RunnerNew`, `CondWait`, `CondReturn`, `NewContext`, `ControlSend`, `ControlRecv`,
`CreateUnlock`; `free_forward` is `FreeForward`, `ControlSend`, `ControlRecv`, `FreeCheck`, `FreeLock`,
`DeleteRunner`, the control call again, `Join`, `FreeUnlock`; the other calls are one control
call each.  On the runner thread `LoopStart`, `LoopProcess`, `LoopReply` and `LoopEnd` are
`t2u_runner_loop_` and `runner_control_cb_`.  `CallbackDeletesRule` is the application deleting a rule
in its unknown callback, where `t2u_runner_control` runs the function directly.

Two constants say how the application uses the API, because the code is not right without
them.  Calls whose kind is in `Serial` are made one at a time (`create_forward`, `free_forward` and
`debug_dump` in `runner_calls`; calls about rules overlap freely).  With `DistinctNames` no context
gets two rules of one name.  A context is not freed while another call uses it, and a rule is
deleted once, as with any `free`.

### Api

`Api` has the same calls without a runner, a socket or a mutex.  A thread begins a call, the call
has its effect in one step, and it returns: `AddContext`, `DeleteContext`, `AddRule`, `DeleteRule`, `Dump` are
the effects, each on the call's own arguments and nothing else.  In `RunnerApi` the contexts that
forward are the tree of `g_runner`, and a call has had its effect (`Done`) once the runner thread has
run its function; what `create_forward` and `add_forward_rule` return does not show before that,
and what `free_forward` frees does not show after it.  Every lock, the start and the end of the runner
and both ways over the control socket are steps in which the application sees nothing.

### RBTree

A tree is a record of the nodes' fields.  Nodes are named by their keys, since no caller keeps
a node across calls; where the code copies the successor's key and data into a node
(`__rbtree_remove`), the two nodes exchange names (`CopyEntry`).  The mirrored branches of the code
are one definition with a side as parameter.  `Paint`, `SetRoot`, `SetParent` and `SetChild` are one assignment
each, and `Rotate`, `NewLeaf` and `ReplaceNode` make them in the code's order.

A tree is used by one thread at a time.  A step is one turn of a loop (`Descend` in `do_lookup`,
`GetMin`, `Recolor` and `Rebalance` in `__rbtree_insert`), one call of `delete_case1` with what it calls up to its
next (`DeleteCase`, `DeleteRoot`), or what is between them.  `pc` says where the call is, `key` is its argument,
and `node` and `parent` are the code's variables.  `answer` is the entry that `do_lookup` found:
`rbtree_lookup` returns it, `rbtree_insert` of a key that is present and `rbtree_remove` of one that is not
return an error and change nothing.  `free` leaves nothing of a node (`FreeNode`).

`Dictionary` has the entry of each key and the answer of the call under way.  `Entries` are those of the nodes
in the tree, but for the one that a removal has found: the call takes effect there, and unlinks the node
only when it has rebalanced.

## Runs

Every passing run of `DataSession` and `Connect` has loss, duplication and reordering of all
datagrams, since nothing that was sent need ever arrive; `data_live`, where it must, has reordering
and explicit losses.  TLC's own check for deadlock is off except in `rbtree`: a session whose two ends are deleted has stopped for good, and so has
an application that has made its last call.  That no thread is stuck in a call is `NoDeadlock`, which
says of every call under way who can take the next step, and `CallsReturn`, which says that it ends.

| run | bounds | shows |
|---|---|---|
| `data_order` | windows 2, 4 payloads one way, blocked and failing writes, sequence numbers modulo 8 from 6 | `TypeOK`, `InOrder`, `NothingForgotten`, `NoLostWakeup`, `QueuesAgree`, and the inductive invariant `Agreement` |
| `data_duplex` | windows 2 and 1, 2 payloads one way and 1 the other, blocked and failing writes | `ImplementsStreams`, the refinement of `Stream`, and `NothingForgotten` when messages arrive beyond the window |
| `data_partial` | windows 2, changed to 1 (asked for 0) and 2 (asked for 3) at any time, 2 payloads of 2 bytes, partial writes | `NoLostWakeup`, `QueuesAgree` |
| `data_live` | windows 2, 3 payloads one way, blocked and failing writes, 3 datagrams lost | `Delivery`, `ReadsOn` |
| `connect_pairing` | 1 service, 2 client and 3 server sessions, 2 retries, 1 data datagram of any session | `TypeOK`, `Paired`, `Isolated`, `HandleMapsSession`, `NoSessionWithoutRule`, `ConnectSettles` |
| `runner_calls` | 2 threads with 4 calls each, 2 contexts, 2 rules, 2 names | `TypeOK`, `OwnedUntilFreed`, `EventsBelong`, `NoUseAfterFree`, `RunnerWithContexts`, `HeldUntilDeleted`, `NoDeadlock`, `CallsReturn`, and `ImplementsApi`, the refinement of `Api` |
| `rbtree` | 8 keys | `SearchTree`, `RedBlack`, `NeighboursAreNearest`, `CallsEnd`, and `ImplementsDictionary`, the refinement of `Dictionary` |

Every safety run of `DataSession` also evaluates the assumption `ScanAgrees` of `MCRetransScan`: on
all 6144 inputs of windows up to 4 modulo 8 the closed form of the retransmission scan is the
loop, written there as a recursive operator over the same body `ScanBody`.  The window may have
shrunk since the held messages came.  `RetransScan_proofs` proves it for all windows.

Why the bounds are enough.  A window of 2 with 4 payloads fills, empties, closes and opens
again; it has a message next, one ahead and one beyond; and the numbers 7, 0, 1, 2 cross
the wrap, with a sequence space large enough that no number is used twice (the
assumption `NoReuse` of the proofs, which 2^32 numbers and a window of at most 64 justify
for what can still be in flight).  Directions share only `reading`, `status` and the
deletion of the session, which 2 and 1 payloads bring together.  Three server sessions for
two connections are one more than needed, so repeated requests leave orphans.  Four calls of
two threads are enough to start a runner, use it from both, stop it and start another; one
runner address makes the second take the first one's, and what holds for any number of them is
proved.  Eight keys give trees of four
levels, in which the repair after an insertion or removal climbs more than one of them.  `MaxDebt`
and `MaxChunks` stop two counters that duplicates of partial answers would otherwise take
to infinity.

Fairness (`data_live`): the runner thread serves a readable TCP socket, an expired message
timer and a datagram that has arrived, and a datagram that is not dropped arrives.  libevent
guarantees the first three; the fourth is what it means not to drop.  It is weak fairness per
peer and kind of step, not per datagram or timer, because a bounded session takes only finitely many
steps.  End of file, the idle timeout and losses are never forced.  What is assumed of the
surroundings is that `utimeout_` is longer than a round trip and stays as it is, that the window does not
change, and that fewer datagrams are lost than a message is sent times: `udp_slide_window_ + 2`, so 4
in the run, where 3 are lost.  The bound is tight: with 4 losses, or with a timer that gives up
one firing earlier, `Delivery` fails.  With windows 2 and 1 it fails at 2 losses already, since a message
that comes before its turn is answered with 0 and has used up one of its sends.  `Delivery` has no way
out in the status of the session: one that is closing has to deliver what is queued.  `ReadsOn` has one for
confirmations that were dropped, because the code has no second confirmation (`ack_of_duplicate`).
For `ConnectSettles` only the connect timer is fair: `event_add` arms it at every
step of a connecting session.  For `CallsReturn` each thread that can go on does, and the runner
thread serves its control socket, on which `recv()` does not fail (see "Not modelled").  Weak
fairness is enough for the mutexes: calls are finitely many, so none is taken by others for ever.  For `CallsEnd` the one thread that is inside a call of
the tree goes on with it; that anybody calls is never forced.

### What the code does not do

These runs check what a comment, the API documentation or the test says, and TLC finds a
behaviour of the code that does otherwise.

| run | the text | what happens |
|---|---|---|
| `ack_of_duplicate` | "success for default" (`session.c:216`) | the 0 that answers a duplicate does not confirm; if the first answer is lost nothing can |
| `freed_in_loop` | "delete it when send queue flushed" (`t2u_session.h:13`) | the session is freed with a message in hand, which is in neither of the two queues that are tested |
| `shared_handle` | "handle for mapping session" (`t2u_internal.h:129`) | with rules of both modes in both contexts, two connections share a handle |
| `truncated_handle` | the same | on 64-bit builds what the client sends finds no server session |
| `free_races_create` | "the runner is already stopped and no events bind" (`t2u.c:96`) | a context created between the check and the lock is freed with the runner |

Other divergences can be read off one definition and need no run:

* A blocked write is answered with -1 (`session.c:259`), which the sender takes for an error and
  not for "block, try later" (`message.c:130`): `HandleDataRequestStuck`, `HandleDataResponse`.
* After a partial write the rest of a message is moved by `sizeof` of a number and not by that
  number (`message.c:134`), and a duplicate under way is written from its start: `Shrink`.
* A partial answer that is duplicated, or given twice because the request was, is subtracted twice: `len_`
  can fall below the header, and then the message is never tried later (`message.c:130-133`): `Shrink`,
  `Transmission`.
* End of file frees the queued messages, under the comment "close session later, after send_mess_
  out" (`session.c:120`): `ProcessTcpEof`.
* A second rule with a name in use is refused by the tree, but its listening socket is watched, and
  its event stays when the context is freed (`rule.c:121`): `AddRuleCb` without `DistinctNames`.  An event
  that stays keeps the loop from ending, so `free_forward` of the last context never returns from its
  join: `NoDeadlock` too holds only with `DistinctNames`.
* `t2u_runner_new` waits without a predicate (`runner.c:220`).  After a spurious wakeup `create_forward`
  holds the runner's mutex until its request is answered, and the new thread waits for that
  mutex before it serves requests: both wait for ever.  `CondReturn` waits for the signal.

And `t2u.h:75` documents `uretries_` as the number
of times packets are re-sent, and `process_request_timeout_cb_` (`message.c:15`) compares with
`udp_slide_window_` instead, so `RequestTimeout` does too; `uretries_` limits only connect requests.

## Proofs

`DataSession_proofs` proves, for every value of the constants that the named assumptions
of `SeqSpace` and `DataSession` allow:

* `TypeCorrect`: `Spec => []TypeOK`.
* `AgreementInvariant`, `InOrderDelivery`, `NothingIsForgotten`: `Agreement`, `InOrder` and
  `NothingForgotten` are invariants, provided that `AllOrNothing` (no partial writes, which
  misplace bytes) and `NoReuse` (a session carries fewer messages than there are sequence
  numbers, less a window).

`InOrder` is not inductive: nothing in it says that a held message, or a datagram under way,
has the payload of its number.  `Agreement` adds this.  The n-th payload of a direction has
the number `NthSeq(n)`; `SenderAgrees`, `ReceiverAgrees` and `DatagramAgrees` say that
`send_mess`, `recv_mess` and `net` hold only such pairs of number and payload, that `send_seq`
and `recv_seq` are the numbers of the last payload read and written, and that an
answer with a positive value speaks of a payload that was written completely.  `Remembers`
says that all of the others are still queued at the sender.  `NoReuse` makes `NthSeq`
injective where it is used, so a number identifies its payload.  The proof takes the
actions one at a time; the write loop is proved for any number of messages at once: message
i of the loop has the number `recv_seq + i`, hence is payload `Len(delivered) + i` of the other
side's log.  `TypeOK` is used throughout and is proved first.

`DataSession_queues_proofs` proves `CountersAgree` (`QueuesAgree`) and `NoSessionSleeps` (`NoLostWakeup`)
under `NoReuse` alone, so also for partial writes.  `QueuesAgree` is not inductive: nothing in it
stops a new message from getting a number that is still queued.  `QueuesInv` says that
`send_seq` is the number of the last payload read and every queued number that of an earlier or
the same one, so under `NoReuse` a new number is new.  It also says that both trees are finite,
without which their cardinalities mean nothing.  A window that shrinks leaves queues longer than
itself, so the bounds are `MaxWindow`; a session that stopped reading has a queued message,
because it stopped at a full window and a window is never 0.

`SessionStream_proofs` proves `SessionImplementsStreams`: under `AllOrNothing` and `NoReuse`, `Spec` implies
`Stream` in both directions.  Each action of `DataSession` is shown to do at most one thing to each
stream: append one payload to what was sent, extend what was received along what was sent, or
end a side.  The invariants above give the guard of `Stream`'s `Receive`.

`Connect_proofs` proves `TypeOK` and `NoSessionWithoutRule` for all constants, and under `OneWayRules`
(client-mode rules at one end only, and a wire that keeps the handle; the runs `shared_handle` and
`truncated_handle` show what happens without) `Paired`, `Isolated` and `HandleMapsSession`.  They follow
from `ConnectInv`: a process gives each word of a handle to one session (`WordsUnique`); sessions
and datagrams belong to the connection their low word numbers and carry only words that were
given out (`SessionsOrdered`, `NetOrdered`); who has sent `close_request` has no such session any
more (`ClosedIsGone`); and a session both ends knew of is missing only where a `close_request` was
sent (`GoneIsClosed`).  The last two need each other: a late `connect_response` must not establish
a session again that was closed, and does not, because the connecting session it needs is gone.

`RetransScan_proofs` proves `LoopIsScan`: for a window of at most half of the sequence space (64 of
2^32 in the code), any held messages and any place of the wrap, a run of the loop asks for `Asked`
and leaves `RetrySeq`, the closed forms that `DataSession` uses.  After k times round the loop has asked
for the numbers among the first k that `Asked` has, and `retry_seq_` is the last of them: once it has
moved into the window it lies more than a window behind every later number, in wrapped
arithmetic, so from there on every missing number is asked for.  The induction over k is by least
counterexample (the library's `WFMin`), since the provers cannot use an induction rule.

`Runner_proofs` proves the invariants of `runner_calls` for any number of threads, runners, contexts,
rules, names and calls.  Their assumption `OneAtATime` is that the application makes its calls of
`create_forward`, `free_forward` and `debug_dump` one at a time; calls about rules overlap with
anything.  The code needs it: `free_races_create` shows what happens when `create_forward` overlaps
`free_forward`, and `debug_dump` reads `g_runner` without a lock, so a `free_forward` beside it may free the
runner that it goes on to use.

* `TypeCorrect` (`TypeOK`), `ContextsLive` (`OwnedUntilFreed`), `NoRunnerUsedAfterFree` (`NoUseAfterFree`),
  `RunnerGoesWithContexts` (`RunnerWithContexts`).
* `OneRunner`: no two runners exist at once, those that are starting or stopping included.
* `WatchesWhatExists` (`EventsBelong`) and `StoppedWithoutEvents` (`NoEventsBind`), if also no context gets two
  rules of one name.  The second is the comment of `t2u.c:96` that `free_races_create` refutes, so
  it is just the overlap that breaks it.

None of these is inductive.  That a context stays in its tree, say, rests on whose function the
runner thread runs next, and that on who holds the runner's mutex.  `RunnerInv` says it all:
which labels and functions go with each call (`Labels`); that calls made one at a time are
(`OneSerial`); what the variables of a call point to (`Locals`), in particular that every control call is
to `g_runner`, read without a lock some steps before; that a starting runner is new (`Fresh`) and that
`g_runner` serves requests until `delete_runner_cb_` has run (`Lifetime`); that the mutex is held by
the thread that waits for the answer, and the request and the answer on the socket are that
thread's (`Channel`); that the tree has the contexts the application has, the one being created
from the moment its request was served and the one being freed up to that moment
(`Ownership`); and that a rule belongs to the application or to one call, and to a context that
exists (`RuleOwners`).  One lemma per action shows that it keeps them.  `EventsInv` adds `EventsBelong` and
that names differ, so that `rbtree_insert` refuses no rule and `rbtree_remove` takes the rule it was
called for.

It also proves `NoCallStuck` (`NoDeadlock`) under `OneAtATime` and `DistinctNames`.  `CanContinue` and `CanLoop` are
the guards of `Continue` and `Loop`, written out because the provers do not treat ENABLED.  `WaitsInv` adds
to `RunnerInv` what a wait depends on: the global mutex is held by a call past its lock
(`GlobalLock`); a `create_forward` has an address left for its context (`Room`, where finiteness of
`Contexts` is used); who waits for an answer has a request on the socket, in service or answered
(`Answered`); and after `delete_runner_cb_` the event of the control socket is gone while the loop goes on
(`Ending`).  The last one and `EventsBelong` leave no event, so the loop ends and the join returns.
That each step leads to the return in the end is `CallsReturn`, which stays with TLC.

`RunnerApi_proofs` proves `RunnerImplementsApi` and `RulesLive` (`HeldUntilDeleted`), again under both.  `ApiInv` says where
a rule is between two calls: it is in the tree of its context from the moment `add_rule_cb_` has run
to the moment `delete_rule_cb_` does, whoever waits for the answer (`RulesInTree`).  Each step then is
matched: a new call is `Begin`; a function on the runner thread is the effect of the call of the
one thread that waits (`Serves`, from `Channel`); a thread's own steps are stutters up to the one in which
it returns, and by then its function has run, since the answer it took was its own.  The other calls
look the same before and after, because no other call is `Pending` on the same socket.  `g_runner`
is NULL or has no contexts whenever it changes (`ForwardingThread`), so starting and stopping the
runner is not seen.

`RBTree_proofs` proves `SearchTreeHolds` (`SearchTree`), `RedBlackHolds` (`RedBlack`), `NeighboursHold`
(`NeighboursAreNearest`) and `TreeImplementsDictionary` (`ImplementsDictionary`) for any finite set of keys.  What
the properties compute with recursive functions the inductive invariant `TreeInv` has as two
witnesses: `B[n]`, the keys below node n, and `H[n]`, the black nodes on a way down from it.
`Shape`, `Ordered` and `Even` state one level of them each, so that an operation changes them at the few nodes it
touches, and its lemma names the B and H it leaves.  Between calls the tree is `Sound` (linked, shaped, ordered, each entry
with its key) and `Balanced`.  During an insertion only `node` may be red under a red parent (`InsertAt`).
During a removal the ways through `node` lack one black node (`DeleteAt`), and the node to be unlinked counts for
its child, out of order where it has changed names with its successor (`SpliceAt`).  A search keeps the key, or the
place where it belongs, below `node` (`Searching`); `get_min` keeps what is smaller below it (`GettingMin`).
`BelowIsUnder` and `BlackHeightIsHeight` show that the recursive functions compute the witnesses, and
`ExtremeIsFurthest` and `ClimbTurns` what the loops of traversal reach.  These inductions look at a lowest or highest
node of the exceptions (`LowestNode`, `HighestNode`, from the library's `WFMin` on the sets B[n]), which is
where finiteness of `Keys` is used.  The refinement needs that no assignment but those of `NewLeaf` and
`FreeNode` touches `data`, that the nodes found by a search are all those with an entry (`AnswerIsEntry`), and
that the key being removed is the one that `Splice` takes out (`SpliceSplices`).  That each loop ends is
`CallsEnd`, which stays with TLC.

Where a step changes several fields of one element the models write
`[runners EXCEPT ![n] = [runners[n] EXCEPT !.reply = TRUE, !.loop = "running"]]` and never
`![n].reply = TRUE, ![n].loop = "running"`: tlapm 1.4.5 translates the second form for Z3 as two
equations that contradict each other, and would prove anything from it.  As a check on the
proofs, the facts cited for each named step were also tried, within the usual time, as a proof of
`FALSE`; none is one, except where the argument is by contradiction.

Only model-checked: liveness (`Delivery`, `ReadsOn`, `ConnectSettles`, `CallsReturn`, `CallsEnd`), since the prover does not
treat fairness.  Every other property of a passing run is a theorem.

## Not modelled

* The headers of libevent under `c/libevent2` are vendored and make up 9604 of the 12881 lines of
  C in the repository; they declare a library whose code is not there, and `tree.h` is included
  by nobody.  What t2u relies on is in the models: an event is registered or not, a
  callback runs to its end, the loop ends when no event is left.
* The test program, and logging.
* The set-up of sockets.  Where it fails in `t2u_add_rule` nothing has changed; where it fails in
  `t2u_runner_new` an assertion stops the program.
* `forward_send` (returns -1), the error callback (never called), `t2u_cond_timedwait` (never called),
  and the two functions that set a callback pointer.
* A `recv()` on the control socket that fails (`runner.c:105-111`, "todo error handle"): the call would unlock and
  return without its answer, perhaps before its function has run.  `CallsReturn`, `NoDeadlock`, `ImplementsApi` and
  the theorems about `Runner` assume that it does not, and that nothing is lost between the two sockets, which
  are connected over the loopback interface.
* Spurious wakeups, two simultaneous first calls of `create_forward` (both initialise the mutex),
  and `free_forward` inside a callback (it frees what the callback's caller goes on using, and
  would join its own thread).  The code handles none of them.
* The handle counter does not wrap within the bound `MaxSessions`.

## Plan

One composition of `Connect` and `DataSession`, with several sessions that carry data at once, to
replace the argument by `Isolated` with a refinement.

------------------------------- MODULE Stream -------------------------------
(***************************************************************************)
(* What one direction of a t2u session promises the two TCP connections it *)
(* joins: the receiving side gets, in growing pieces, a prefix of what the *)
(* sending side was given, and an end that has closed does nothing more.   *)
(***************************************************************************)
EXTENDS Integers, SequencesExt

VARIABLES
    sent,      \* payloads the sending end has taken from its TCP socket
    received,  \* payloads the receiving end has written to its TCP socket
    sending,   \* the sending end's session exists
    receiving  \* the receiving end's session exists

vars == <<sent, received, sending, receiving>>

Init ==
    /\ sent = <<>>
    /\ received = <<>>
    /\ sending = TRUE
    /\ receiving = TRUE

Send ==
    /\ sending
    /\ Len(sent') = Len(sent) + 1
    /\ IsPrefix(sent, sent')
    /\ UNCHANGED <<received, sending, receiving>>

\* The end may close after its last write, in the same step.
Receive ==
    /\ receiving
    /\ IsPrefix(received, received')
    /\ Len(received) < Len(received')
    /\ IsPrefix(received', sent)
    /\ receiving' \in BOOLEAN
    /\ UNCHANGED <<sent, sending>>

CloseSender ==
    /\ sending
    /\ sending' = FALSE
    /\ UNCHANGED <<sent, received, receiving>>

CloseReceiver ==
    /\ receiving
    /\ receiving' = FALSE
    /\ UNCHANGED <<sent, received, sending>>

Next == Send \/ Receive \/ CloseSender \/ CloseReceiver

Spec == Init /\ [][Next]_vars
=============================================================================

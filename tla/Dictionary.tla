----------------------------- MODULE Dictionary -----------------------------
(***************************************************************************)
(* What t2u expects of a tree of t2u_rbtree.c: a dictionary that keeps the *)
(* first entry of a key and loses only the entry it is told to remove.     *)
(* Each call answers with the entry it found: rbtree_lookup returns it,    *)
(* rbtree_insert returns -2 if there is one and rbtree_remove -1 if not.   *)
(***************************************************************************)
CONSTANTS Keys, Data, NoData

VARIABLES
    dict,    \* the entry of each key, NoData where there is none
    answer   \* of the call that is about to return

vars == <<dict, answer>>

NoAnswer == [op |-> "none", entry |-> NoData]

Answer(op, k) == answer = NoAnswer /\ answer' = [op |-> op, entry |-> dict[k]]

Init == dict = [k \in Keys |-> NoData] /\ answer = NoAnswer

Lookup(k) == Answer("lookup", k) /\ UNCHANGED dict

Insert(k, d) ==
    /\ Answer("insert", k)
    /\ dict' = IF dict[k] = NoData THEN [dict EXCEPT ![k] = d] ELSE dict

Remove(k) == Answer("remove", k) /\ dict' = [dict EXCEPT ![k] = NoData]

Return == answer # NoAnswer /\ answer' = NoAnswer /\ UNCHANGED dict

Next ==
    \/ \E k \in Keys : Lookup(k) \/ Remove(k) \/ \E d \in Data : Insert(k, d)
    \/ Return

Spec == Init /\ [][Next]_vars
=============================================================================

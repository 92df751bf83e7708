------------------------------- MODULE RBTree -------------------------------
(***************************************************************************)
(* The red-black tree of t2u_rbtree.c, which holds contexts, rules,        *)
(* sessions and messages.  A tree is a record of its nodes' fields.  A     *)
(* node is named by its key: no code keeps a node from one call to the     *)
(* next, so addresses do not matter.  left and right are the two values of *)
(* child, and the mirrored branches of the code are one definition.        *)
(*                                                                         *)
(* Each turn of a loop of the code, and each call of delete_case1, is a    *)
(* step: pc says where in its call the one thread that uses a tree is.     *)
(* Where a step makes one tree out of another, \E T \in {...} names the    *)
(* tree between.                                                           *)
(***************************************************************************)
EXTENDS Naturals, FiniteSets

CONSTANTS
    Keys,    \* keys in the order of tree->compare
    Copies,  \* the objects that have the same key
    NoData   \* the NULL that rbtree_lookup returns

Null == 0

\* A key is an object in memory, of which there are finitely many.
ASSUME KeysAssumption == Keys \subseteq Nat \ {Null} /\ IsFiniteSet(Keys)

\* What is stored is an object that contains its key (a handle, a name, a
\* sequence number, or its own address).
Data == Keys \X Copies
ASSUME DataAssumption == NoData \notin Data

VARIABLES
    tree,
    pc,      \* "idle" between calls
    op,      \* the call: lookup, insert or remove
    key,     \* its argument
    node,    \* where it is in the tree
    parent,  \* where do_lookup was before
    answer   \* the entry that do_lookup has found for the call

vars == <<tree, pc, op, key, node, parent, answer>>

Side == {"left", "right"}
Opposite(side) == IF side = "left" THEN "right" ELSE "left"

Node == Keys \cup {Null}

Tree == [root : Node, child : [Side -> [Keys -> Node]], parent : [Keys -> Node],
         color : [Keys -> {"red", "black"}], data : [Keys -> Data \cup {NoData}]]

\* Keys that are not in the tree have NULL links and no data.
Empty == [root |-> Null,
          child |-> [side \in Side |-> [k \in Keys |-> Null]],
          parent |-> [k \in Keys |-> Null],
          color |-> [k \in Keys |-> "black"],
          data |-> [k \in Keys |-> NoData]]

NoAnswer == [op |-> "none", entry |-> NoData]

Color(T, n) == IF n = Null THEN "black" ELSE T.color[n]

SideOf(T, n) == IF n = T.child["left"][T.parent[n]] THEN "left" ELSE "right"
Sibling(T, n) == T.child[Opposite(SideOf(T, n))][T.parent[n]]

\* One assignment of the code each.
Paint(T, n, c) == [T EXCEPT !.color[n] = c]
SetRoot(T, n) == [T EXCEPT !.root = n]
SetParent(T, n, p) == IF n = Null THEN T ELSE [T EXCEPT !.parent[n] = p]
SetChild(T, n, side, c) == [T EXCEPT !.child[side][n] = c]

-----------------------------------------------------------------------------
(* Links *)

\* Whatever points down to node old points to node new.
Hang(T, old, new) ==
    IF T.parent[old] = Null
    THEN SetRoot(T, new)
    ELSE SetChild(T, T.parent[old], SideOf(T, old), new)

\* Mutant: the subtree that changes sides keeps its old parent.
RotateOneWay(T, p, side) ==
    LET q == T.child[Opposite(side)][p]
        inner == T.child[side][q]
        T2 == SetParent(SetParent(Hang(T, p, q), q, T.parent[p]), p, q)
    IN  SetChild(SetChild(T2, p, Opposite(side), inner), q, side, p)

\* rotate_left and rotate_right: p moves down to the given side.
Rotate(T, p, side) ==
    LET q == T.child[Opposite(side)][p]
        inner == T.child[side][q]
        T2 == SetParent(SetParent(Hang(T, p, q), q, T.parent[p]), p, q)
        T3 == SetParent(SetChild(T2, p, Opposite(side), inner), inner, p)
    IN  SetChild(T3, q, side, p)

ReplaceNode(T, old, new) == SetParent(Hang(T, old, new), new, T.parent[old])

-----------------------------------------------------------------------------
(* Calls and do_lookup *)

Call(o, k) ==
    /\ pc = "idle"
    /\ pc' = "search" /\ op' = o /\ key' = k
    /\ node' = tree.root /\ parent' = Null
    /\ UNCHANGED <<tree, answer>>

Descend ==
    /\ pc = "search" /\ node \notin {Null, key}
    /\ node' = tree.child[IF node < key THEN "right" ELSE "left"][node]
    /\ parent' = node
    /\ UNCHANGED <<tree, pc, op, key, answer>>

\* do_lookup returns to the call o.
Found(o) ==
    /\ pc = "search" /\ op = o /\ node \in {Null, key}
    /\ answer' = [op |-> o, entry |-> IF node = Null THEN NoData ELSE tree.data[node]]

\* rbtree_lookup returns what was found, rbtree_insert of a key that is there
\* -2 and rbtree_remove of one that is not -1.
Lookup ==
    /\ \/ Found("lookup")
       \/ Found("insert") /\ node # Null
       \/ Found("remove") /\ node = Null
    /\ pc' = "return"
    /\ UNCHANGED <<tree, op, key, node, parent>>

Return ==
    /\ pc = "return"
    /\ pc' = "idle" /\ op' = "none" /\ key' = Null /\ node' = Null /\ parent' = Null
    /\ answer' = NoAnswer
    /\ UNCHANGED tree

-----------------------------------------------------------------------------
(* Insertion *)

\* A new red leaf under the node where the lookup ended.
NewLeaf(T, k, p, d) ==
    LET T2 == [Paint(SetParent(T, k, p), k, "red") EXCEPT !.data[k] = d]
    IN  IF p = Null THEN SetRoot(T2, k)
        ELSE SetChild(T2, p, IF p > k THEN "left" ELSE "right", k)

Insert(d) ==
    /\ Found("insert") /\ node = Null /\ d[1] = key
    /\ tree' = NewLeaf(tree, key, parent, d)
    /\ node' = key
    /\ pc' = "fix"
    /\ UNCHANGED <<op, key, parent>>

\* The loop of __rbtree_insert goes on while node and parent are both red.
RedParent(T, n) == Color(T, T.parent[n]) = "red"
Uncle(T, n) == Sibling(T, T.parent[n])

InFix(o) == pc = "fix" /\ op = o

\* Mutant: the loop stays at the node.
RecolorOnly ==
    /\ InFix("insert") /\ RedParent(tree, node) /\ Color(tree, Uncle(tree, node)) = "red"
    /\ LET p == tree.parent[node] g == tree.parent[p]
       IN  tree' = Paint(Paint(Paint(tree, g, "red"), p, "red"), Uncle(tree, node), "red")
    /\ UNCHANGED <<pc, op, key, node, parent, answer>>

\* A red uncle: the violation moves two levels up.
Recolor ==
    /\ InFix("insert") /\ RedParent(tree, node) /\ Color(tree, Uncle(tree, node)) = "red"
    /\ LET p == tree.parent[node] g == tree.parent[p]
       IN  /\ tree' = Paint(Paint(Paint(tree, g, "red"), p, "black"), Uncle(tree, node), "black")
           /\ node' = g
    /\ UNCHANGED <<pc, op, key, parent, answer>>

\* n is an inner grandchild.
Inner(T, n) == SideOf(T, n) # SideOf(T, T.parent[n])

\* An inner grandchild is rotated outwards first.
Outwards(T, n) == IF Inner(T, n) THEN Rotate(T, T.parent[n], SideOf(T, T.parent[n])) ELSE T

\* The parent of node n goes up and the grandparent down on the other side.
Upwards(T, n) ==
    LET p == T.parent[n] g == T.parent[p]
    IN  Rotate(Paint(Paint(T, p, "black"), g, "red"), g, Opposite(SideOf(T, p)))

Rebalance ==
    /\ InFix("insert") /\ RedParent(tree, node) /\ Color(tree, Uncle(tree, node)) = "black"
    /\ LET n == IF Inner(tree, node) THEN tree.parent[node] ELSE node
       IN  /\ \E T \in {Outwards(tree, node)} : tree' = Upwards(T, n)
           /\ node' = n
    /\ UNCHANGED <<pc, op, key, parent, answer>>

Inserted ==
    /\ InFix("insert") /\ ~RedParent(tree, node)
    /\ tree' = Paint(tree, tree.root, "black")
    /\ pc' = "return"
    /\ UNCHANGED <<op, key, node, parent, answer>>

-----------------------------------------------------------------------------
(* Removal *)

\* Mutant: only the key of the successor is copied.
MoveKeyOnly(T, a, b) ==
    LET Name(x) == IF x = a THEN b ELSE IF x = b THEN a ELSE x
    IN  [root |-> Name(T.root),
         child |-> [side \in Side |-> [x \in Keys |-> Name(T.child[side][Name(x)])]],
         parent |-> [x \in Keys |-> Name(T.parent[Name(x)])],
         color |-> [x \in Keys |-> T.color[Name(x)]],
         data |-> [T.data EXCEPT ![b] = T.data[a]]]

\* The key and data of b are copied to node a, and the node of b is to be
\* deleted.  As keys name nodes, the two nodes change names and data stays
\* with its key.
CopyEntry(T, a, b) ==
    LET Name(x) == IF x = a THEN b ELSE IF x = b THEN a ELSE x
    IN  [root |-> Name(T.root),
         child |-> [side \in Side |-> [x \in Keys |-> Name(T.child[side][Name(x)])]],
         parent |-> [x \in Keys |-> Name(T.parent[Name(x)])],
         color |-> [x \in Keys |-> T.color[Name(x)]],
         data |-> T.data]

TwoChildren(T, n) == T.child["left"][n] # Null /\ T.child["right"][n] # Null

OnlyChild(T, n) ==
    IF T.child["right"][n] = Null THEN T.child["left"][n] ELSE T.child["right"][n]

\* Mutant: the node is taken out without rebalancing.
UnlinkUnbalanced(T) ==
    tree' = T /\ pc' = "splice" /\ node' = key

\* __rbtree_remove has found the node to take out, in tree T: a black one would
\* be missing on the paths through it.
Unlink(T) ==
    IF T.color[key] = "black"
    THEN tree' = Paint(T, key, Color(T, OnlyChild(T, key))) /\ pc' = "fix" /\ node' = key
    ELSE tree' = T /\ pc' = "splice" /\ node' = key

Remove ==
    /\ Found("remove") /\ node # Null
    /\ IF TwoChildren(tree, key)
       THEN node' = tree.child["right"][key] /\ pc' = "min" /\ UNCHANGED tree
       ELSE Unlink(tree)
    /\ UNCHANGED <<op, key, parent>>

\* get_min
GetMin ==
    /\ pc = "min" /\ tree.child["left"][node] # Null
    /\ node' = tree.child["left"][node]
    /\ UNCHANGED <<tree, pc, op, key, parent, answer>>

RemoveNext ==
    /\ pc = "min" /\ tree.child["left"][node] = Null
    /\ Unlink(CopyEntry(tree, key, node))
    /\ UNCHANGED <<op, key, parent, answer>>

\* delete_case2: a red sibling is rotated above.
RedSibling(T, n) ==
    LET p == T.parent[n] s == Sibling(T, n)
    IN  IF Color(T, s) = "red"
        THEN Rotate(Paint(Paint(T, p, "red"), s, "black"), p, SideOf(T, n))
        ELSE T

\* The sibling and both of its children are black.
AllBlack(T, s) ==
    \A x \in {s, T.child["left"][s], T.child["right"][s]} : Color(T, x) = "black"

\* delete_case5: of the sibling's children only the near one is red.
OuterNephew(T, n) ==
    LET s == Sibling(T, n)
        side == SideOf(T, n)
        near == T.child[side][s]
        far == T.child[Opposite(side)][s]
    IN  IF Color(T, s) = "black" /\ Color(T, near) = "red" /\ Color(T, far) = "black"
        THEN Rotate(Paint(Paint(T, s, "red"), near, "black"), s, Opposite(side))
        ELSE T

\* delete_case6: the far nephew, which must be red, makes up for n.
FarNephew(T, n) ==
    LET p == T.parent[n]
        s == Sibling(T, n)
        far == T.child[Opposite(SideOf(T, n))][s]
    IN  Rotate(Paint(Paint(Paint(T, s, Color(T, p)), p, "black"), far, "black"),
               p, SideOf(T, n))

\* delete_case1 to delete_case6: the paths through node lack a black node.
DeleteCase ==
    /\ InFix("remove") /\ tree.parent[node] # Null
    /\ \E T \in {RedSibling(tree, node)} :
       LET p == T.parent[node] s == Sibling(T, node)
       IN  IF ~AllBlack(T, s)
           THEN /\ \E T2 \in {OuterNephew(T, node)} : tree' = FarNephew(T2, node)
                /\ pc' = "splice" /\ UNCHANGED node
           ELSE IF Color(T, p) = "black"
           THEN tree' = Paint(T, s, "red") /\ node' = p /\ UNCHANGED pc
           ELSE tree' = Paint(Paint(T, s, "red"), p, "black") /\ pc' = "splice" /\ UNCHANGED node
    /\ UNCHANGED <<op, key, parent, answer>>

DeleteRoot ==
    /\ InFix("remove") /\ tree.parent[node] = Null
    /\ pc' = "splice"
    /\ UNCHANGED <<tree, op, key, node, parent, answer>>

\* free(node): nothing is left of node k.
FreeNode(T, k) ==
    [Paint(SetParent(SetChild(SetChild(T, k, "left", Null), k, "right", Null), k, Null), k, "black")
        EXCEPT !.data[k] = NoData]

\* The child of the node takes its place.
Splice ==
    /\ pc = "splice"
    /\ LET child == OnlyChild(tree, key)
           T == ReplaceNode(tree, key, child)
           T2 == IF tree.parent[key] = Null /\ child # Null THEN Paint(T, child, "black") ELSE T
       IN  tree' = FreeNode(T2, key)
    /\ pc' = "return"
    /\ UNCHANGED <<op, key, node, parent, answer>>

-----------------------------------------------------------------------------
Init ==
    /\ tree = Empty /\ pc = "idle" /\ op = "none"
    /\ key = Null /\ node = Null /\ parent = Null /\ answer = NoAnswer

\* A call goes on.
Step ==
    \/ Descend \/ Lookup \/ Return
    \/ \E d \in Data : Insert(d)
    \/ Recolor \/ Rebalance \/ Inserted
    \/ Remove \/ GetMin \/ RemoveNext \/ DeleteCase \/ DeleteRoot \/ Splice

Next == Step \/ \E o \in {"lookup", "insert", "remove"}, k \in Keys : Call(o, k)

Spec == Init /\ [][Next]_vars

\* The code has no reason to stop in a call.
FairSpec == Spec /\ WF_vars(Step)

-----------------------------------------------------------------------------
(* Properties *)

\* The keys in the subtree of each node.
Below(T) ==
    LET below[n \in Node] ==
          IF n = Null THEN {}
          ELSE {n} \cup below[T.child["left"][n]] \cup below[T.child["right"][n]]
    IN  below

TypeOK ==
    /\ tree \in Tree
    /\ pc \in {"idle", "search", "min", "fix", "splice", "return"}
    /\ op \in {"none", "lookup", "insert", "remove"}
    /\ key \in Node /\ node \in Node /\ parent \in Node
    /\ answer \in [op : {"none", "lookup", "insert", "remove"}, entry : Data \cup {NoData}]

\* The node that is about to be taken out; where two nodes have changed names
\* it is not in its place.
Doomed == IF pc = "splice" \/ InFix("remove") THEN key ELSE Null

\* Links and order hold together at every moment, also between two rotations:
\* every child knows its parent, and all keys to the left of a node are smaller,
\* all to the right larger.
SearchTree ==
    LET below == Below(tree)
    IN  \A n \in below[tree.root] :
          /\ n = tree.root <=> tree.parent[n] = Null
          /\ \A side \in Side : tree.child[side][n] # Null => tree.parent[tree.child[side][n]] = n
          /\ \A m \in below[tree.child["left"][n]] \ {Doomed} : m < n
          /\ \A m \in below[tree.child["right"][n]] \ {Doomed} : m > n

\* The number of black nodes on the way down from each node to the left.
BlackHeight(T) ==
    LET height[n \in Node] ==
          IF n = Null THEN 0
          ELSE height[T.child["left"][n]] + (IF T.color[n] = "black" THEN 1 ELSE 0)
    IN  height

\* Every call leaves the tree balanced: the root is black ("root is black, and
\* parent is red", t2u_rbtree.c:300), no red node has a red child, and all paths
\* from a node down to NULL have the same number of black nodes.
RedBlack ==
    LET height == BlackHeight(tree)
    IN  pc \in {"idle", "search", "min", "return"} =>
          /\ Color(tree, tree.root) = "black"
          /\ \A n \in Below(tree)[tree.root] :
               /\ height[tree.child["left"][n]] = height[tree.child["right"][n]]
               /\ tree.color[n] = "red" =>
                    \A side \in Side : Color(tree, tree.child[side][n]) = "black"

\* get_min and get_max.
Extreme(T, side) ==
    LET last[n \in Keys] ==
          IF T.child[side][n] = Null THEN n ELSE last[T.child[side][n]]
    IN  last

\* The loops of rbtree_next (side = "right") and rbtree_prev.
Climb(T, side) ==
    LET up[n \in Keys] ==
          IF T.parent[n] # Null /\ T.child[side][T.parent[n]] = n THEN up[T.parent[n]] ELSE T.parent[n]
    IN  up

\* Mutant: the loop climbs on the other side.
NeighbourAcross(T, n, side) ==
    IF T.child[side][n] # Null
    THEN Extreme(T, Opposite(side))[T.child[side][n]]
    ELSE Climb(T, Opposite(side))[n]

\* rbtree_next and rbtree_prev.
Neighbour(T, n, side) ==
    IF T.child[side][n] # Null
    THEN Extreme(T, Opposite(side))[T.child[side][n]]
    ELSE Climb(T, side)[n]

\* Between calls rbtree_next and rbtree_prev go from every key to the nearest
\* one in the tree.
NeighboursAreNearest ==
    pc = "idle" =>
      LET nodes == Below(tree)[tree.root]
      IN  \A n \in nodes :
            LET next == Neighbour(tree, n, "right")
                prev == Neighbour(tree, n, "left")
            IN  \A m \in nodes :
                  /\ m > n => n < next /\ next <= m
                  /\ m < n => m <= prev /\ prev < n

\* What a caller finds in the tree.  The entry that is being removed is gone
\* from the moment it was found.
Entries ==
    LET nodes == Below(tree)[tree.root]
        gone == IF op = "remove" /\ pc \in {"min", "fix", "splice"} THEN {key} ELSE {}
    IN  [k \in Keys |-> IF k \in nodes \ gone THEN tree.data[k] ELSE NoData]

Dict == INSTANCE Dictionary WITH dict <- Entries

\* The tree is a dictionary: each call answers with the entry of its key, insertion
\* adds one entry, removal takes one away, and no other entry is lost or mixed up
\* on the way.
ImplementsDictionary == Dict!Spec

\* Every call comes to an end: no loop goes round in the tree.
CallsEnd == pc # "idle" ~> pc = "idle"
=============================================================================

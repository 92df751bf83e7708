----------------------------- MODULE RBTree_proofs -----------------------------
(***************************************************************************)
(* What TLAPS proves of RBTree, for any finite set of keys: a tree is a    *)
(* balanced search tree and a dictionary, and traversal goes from key to   *)
(* key.  The inductive invariant TreeInv has two witnesses: B, the keys    *)
(* below each node, and H, the black nodes on a way down from it.  A lemma *)
(* about an operation says which B and H it leaves behind.  That these are *)
(* what the recursive functions of the properties compute is shown once.   *)
(***************************************************************************)
EXTENDS RBTree, FiniteSetTheorems, WellFoundedInduction, TLAPS

Under(B, n) == IF n = Null THEN {} ELSE B[n]

\* Key m belongs on this side of key n.
Before(side, m, n) == IF side = "left" THEN m < n ELSE n < m

Occupied(T, n) == n = T.root \/ T.parent[n] # Null

\* Links in both directions agree, and a node that is not in the tree has none.
Linked(T) ==
    /\ \A n \in Keys, side \in Side :
         T.child[side][n] # Null => T.parent[T.child[side][n]] = n /\ Occupied(T, n)
    /\ \A n \in Keys : T.parent[n] # Null => \E side \in Side : T.child[side][T.parent[n]] = n
    /\ T.root # Null => T.parent[T.root] = Null

\* B[n] is what is below n, itself included.
Shape(T, B) ==
    /\ B \in [Keys -> SUBSET Keys]
    /\ \A n \in Keys :
         /\ B[n] = {n} \cup Under(B, T.child["left"][n]) \cup Under(B, T.child["right"][n])
         /\ n \notin Under(B, T.child["left"][n])
         /\ n \notin Under(B, T.child["right"][n])
         /\ Under(B, T.child["left"][n]) \cap Under(B, T.child["right"][n]) = {}
    /\ \A n \in Keys : Occupied(T, n) <=> n \in Under(B, T.root)

\* All but the doomed node d are on their side of what is above them.
Ordered(T, B, d) ==
    \A n \in Keys, side \in Side : \A m \in Under(B, T.child[side][n]) \ {d} : Before(side, m, n)

\* The nodes of the tree, and no others, hold an entry, each that of its key.
Stored(T) ==
    \A n \in Keys : T.data[n] \in IF Occupied(T, n) THEN {n} \X Copies ELSE {NoData}

Sound(T, B, d) == Linked(T) /\ Shape(T, B) /\ Ordered(T, B, d) /\ Stored(T)

\* H[n] black nodes on any way down from n, n included, where the doomed node d
\* does not count, and the subtree of node e has one less than it should.
Height(H, e, n) == IF n = Null THEN 0 ELSE IF n = e THEN H[n] + 1 ELSE H[n]

Weight(T, d, n) == IF T.color[n] = "black" /\ n # d THEN 1 ELSE 0

Even(T, H, e, d) ==
    /\ H \in [Keys -> Nat]
    /\ \A n \in Keys, side \in Side : H[n] = Height(H, e, T.child[side][n]) + Weight(T, d, n)

\* Only node v may be red under a red parent, and what d counts for is its child.
NoRedRed(T, v, d) ==
    \A n \in Keys \ {d}, side \in Side :
        T.color[n] = "red" /\ T.child[side][n] # v => Color(T, T.child[side][n]) = "black"

RootBlack(T, v, d) == T.root \in {Null, v, d} \/ T.color[T.root] = "black"

Balanced(T, H, e, v, d) == Even(T, H, e, d) /\ NoRedRed(T, v, d) /\ RootBlack(T, v, d)

-----------------------------------------------------------------------------
(* The assignments of the code *)

LEMMA Sides ==
    /\ Side = {"left", "right"}
    /\ \A side \in Side : /\ Opposite(side) \in Side /\ Opposite(side) # side
                          /\ Opposite(Opposite(side)) = side
                          /\ \A s \in Side : s = side \/ s = Opposite(side)
    /\ \A side \in Side : {side, Opposite(side)} = {"left", "right"}
BY DEF Side, Opposite

\* The keys are ordered, in opposite ways on the two sides.
LEMMA BeforeOrders ==
    ASSUME NEW side \in Side, NEW a \in Keys, NEW b \in Keys
    PROVE  /\ Before(Opposite(side), a, b) <=> Before(side, b, a)
           /\ Before(side, a, b) => a # b /\ ~Before(side, b, a)
           /\ a # b => Before(side, a, b) \/ Before(side, b, a)
           /\ \A c \in Keys : Before(side, a, b) /\ Before(side, b, c) => Before(side, a, c)
BY KeysAssumption DEF Before, Side, Opposite

LEMMA NullIsNoKey == Null \notin Keys
BY KeysAssumption

LEMMA TreeFields ==
    ASSUME NEW T \in Tree
    PROVE  /\ T.root \in Node
           /\ \A side \in Side, n \in Keys : T.child[side][n] \in Node
           /\ \A n \in Keys : T.parent[n] \in Node /\ T.color[n] \in {"red", "black"}
           /\ \A n \in Keys : T.data[n] \in Data \cup {NoData}
BY DEF Tree

SameLinks(T, R) ==
    /\ R \in Tree
    /\ R.root = T.root /\ R.child = T.child /\ R.parent = T.parent /\ R.data = T.data

Painted(T, R, n, c) ==
    SameLinks(T, R) /\ \A x \in Keys : R.color[x] = IF x = n THEN c ELSE T.color[x]

Rooted(T, R, n) ==
    /\ R \in Tree
    /\ R.child = T.child /\ R.parent = T.parent /\ R.color = T.color /\ R.data = T.data
    /\ R.root = n

Reparented(T, R, n, p) ==
    /\ R \in Tree
    /\ R.root = T.root /\ R.child = T.child /\ R.color = T.color /\ R.data = T.data
    /\ \A x \in Keys : R.parent[x] = IF x = n THEN p ELSE T.parent[x]

Redirected(T, R, n, side, c) ==
    /\ R \in Tree
    /\ R.root = T.root /\ R.parent = T.parent /\ R.color = T.color /\ R.data = T.data
    /\ \A s \in Side, x \in Keys :
         R.child[s][x] = IF s = side /\ x = n THEN c ELSE T.child[s][x]

LEMMA PaintFields ==
    ASSUME NEW T \in Tree, NEW n \in Keys, NEW c \in {"red", "black"}
    PROVE  Painted(T, Paint(T, n, c), n, c)
BY DEF Painted, SameLinks, Paint, Tree

LEMMA SetRootFields ==
    ASSUME NEW T \in Tree, NEW n \in Node
    PROVE  Rooted(T, SetRoot(T, n), n)
BY DEF Rooted, SetRoot, Tree

LEMMA SetParentFields ==
    ASSUME NEW T \in Tree, NEW n \in Node, NEW p \in Node
    PROVE  Reparented(T, SetParent(T, n, p), n, p)
BY NullIsNoKey DEF Reparented, SetParent, Tree, Node

LEMMA SetChildFields ==
    ASSUME NEW T \in Tree, NEW n \in Keys, NEW side \in Side, NEW c \in Node
    PROVE  Redirected(T, SetChild(T, n, side, c), n, side, c)
BY DEF Redirected, SetChild, Tree

PaintedTwo(T, R, a, ca, b, cb) ==
    /\ SameLinks(T, R)
    /\ \A x \in Keys : R.color[x] = IF x = b THEN cb ELSE IF x = a THEN ca ELSE T.color[x]

PaintedThree(T, R, a, ca, b, cb, c, cc) ==
    /\ SameLinks(T, R)
    /\ \A x \in Keys : R.color[x] =
         IF x = c THEN cc ELSE IF x = b THEN cb ELSE IF x = a THEN ca ELSE T.color[x]

LEMMA PaintTwo ==
    ASSUME NEW T \in Tree, NEW a \in Keys, NEW b \in Keys,
           NEW ca \in {"red", "black"}, NEW cb \in {"red", "black"}
    PROVE  PaintedTwo(T, Paint(Paint(T, a, ca), b, cb), a, ca, b, cb)
<1>1. Painted(T, Paint(T, a, ca), a, ca)
  BY PaintFields
<1>2. Paint(T, a, ca) \in Tree
  BY <1>1 DEF Painted, SameLinks
<1>3. Painted(Paint(T, a, ca), Paint(Paint(T, a, ca), b, cb), b, cb)
  BY <1>2, PaintFields
<1> QED
  BY <1>1, <1>3 DEF Painted, PaintedTwo, SameLinks

LEMMA PaintThree ==
    ASSUME NEW T \in Tree, NEW a \in Keys, NEW b \in Keys, NEW c \in Keys,
           NEW ca \in {"red", "black"}, NEW cb \in {"red", "black"}, NEW cc \in {"red", "black"}
    PROVE  PaintedThree(T, Paint(Paint(Paint(T, a, ca), b, cb), c, cc), a, ca, b, cb, c, cc)
<1> PICK P : P = Paint(Paint(T, a, ca), b, cb)
  OBVIOUS
<1>1. PaintedTwo(T, P, a, ca, b, cb)
  BY PaintTwo
<1>2. P \in Tree
  BY <1>1 DEF PaintedTwo, SameLinks
<1>3. Painted(P, Paint(P, c, cc), c, cc)
  BY <1>2, PaintFields
<1> QED
  BY <1>1, <1>3 DEF Painted, PaintedTwo, PaintedThree, SameLinks

-----------------------------------------------------------------------------
(* Neighbouring nodes *)

\* A child knows its parent, on which side of it it is, and its sibling.
LEMMA ChildFacts ==
    ASSUME NEW T \in Tree, NEW B, Linked(T), Shape(T, B),
           NEW p \in Keys, NEW side \in Side, T.child[side][p] # Null
    PROVE  LET q == T.child[side][p]
           IN  /\ q \in Keys /\ q # p
               /\ T.parent[q] = p
               /\ Occupied(T, p) /\ Occupied(T, q)
               /\ T.child[Opposite(side)][p] # q
               /\ SideOf(T, q) = side
               /\ Sibling(T, q) = T.child[Opposite(side)][p]
               /\ q \in B[q] /\ p \in B[p] /\ B[q] \subseteq B[p] /\ p \notin B[q]
               /\ B[q] \cap Under(B, T.child[Opposite(side)][p]) = {}
               /\ \A s \in Side : T.child[s][q] # p
               /\ T.parent[p] # q
<1> DEFINE q == T.child[side][p]
<1>1. q \in Keys /\ T.parent[q] = p /\ Occupied(T, p)
  BY TreeFields DEF Node, Linked
<1>2. Occupied(T, q)
  BY <1>1, NullIsNoKey DEF Occupied
<1>3. q \in B[q] /\ p \in B[p]
  BY <1>1 DEF Shape
<1>4. B[q] \subseteq B[p] /\ p \notin B[q] /\ B[q] \cap Under(B, T.child[Opposite(side)][p]) = {}
  BY <1>1, NullIsNoKey DEF Shape, Under, Side, Opposite
<1>5. q # p
  BY <1>3, <1>4
<1>6. T.child[Opposite(side)][p] # q
  BY <1>1, <1>3, <1>4, NullIsNoKey DEF Under
<1>7. SideOf(T, q) = side
  BY <1>1, <1>6 DEF SideOf, Side, Opposite
<1>8. Sibling(T, q) = T.child[Opposite(side)][p]
  BY <1>1, <1>7 DEF Sibling
<1>9. ASSUME NEW s \in Side, T.child[s][q] = p
      PROVE  FALSE
  <2>1. B[p] \subseteq B[q]
    BY <1>1, <1>9, NullIsNoKey DEF Shape, Under, Side
  <2> QED
    BY <2>1, <1>3, <1>4
<1>10. T.parent[p] # q
  BY <1>1, <1>9, NullIsNoKey DEF Linked
<1> QED
  BY <1>1, <1>2, <1>3, <1>4, <1>5, <1>6, <1>7, <1>8, <1>9, <1>10

\* A child is neither its parent nor its sibling, and no grandchild is the node.
LEMMA ChildApart ==
    ASSUME NEW T \in Tree, NEW B, Linked(T), Shape(T, B),
           NEW p \in Keys, NEW side \in Side, T.child[side][p] # Null
    PROVE  /\ SideOf(T, T.child[side][p]) = side
           /\ Sibling(T, T.child[side][p]) = T.child[Opposite(side)][p]
           /\ T.child[Opposite(side)][p] # T.child[side][p] /\ T.child[side][p] # p
           /\ \A s \in Side : T.child[s][T.child[side][p]] # p
BY ChildFacts

\* A node that has a parent is one of its children.
LEMMA ParentFacts ==
    ASSUME NEW T \in Tree, NEW B, Linked(T), Shape(T, B),
           NEW n \in Keys, T.parent[n] # Null
    PROVE  /\ T.parent[n] \in Keys
           /\ SideOf(T, n) \in Side
           /\ T.child[SideOf(T, n)][T.parent[n]] = n
<1>1. T.parent[n] \in Keys
  BY TreeFields DEF Node
<1>2. SideOf(T, n) \in Side
  BY DEF SideOf, Side
<1>3. PICK side \in Side : T.child[side][T.parent[n]] = n
  BY DEF Linked
<1>4. T.child[side][T.parent[n]] # Null
  BY <1>3, NullIsNoKey
<1>5. SideOf(T, T.child[side][T.parent[n]]) = side
  BY <1>1, <1>4, ChildFacts
<1> QED
  BY <1>1, <1>2, <1>3, <1>5

\* Only the root of a tree has no parent.
LEMMA RootFacts ==
    ASSUME NEW T \in Tree, Linked(T), NEW n \in Keys, Occupied(T, n)
    PROVE  T.parent[n] = Null <=> n = T.root
BY NullIsNoKey DEF Linked, Occupied

Hung(T, R, old, new) ==
    /\ R \in Tree
    /\ R.root = IF old = T.root THEN new ELSE T.root
    /\ R.parent = T.parent /\ R.color = T.color /\ R.data = T.data
    /\ \A s \in Side, x \in Keys :
         R.child[s][x] = IF T.child[s][x] = old THEN new ELSE T.child[s][x]

LEMMA HangFields ==
    ASSUME NEW T \in Tree, NEW B, Linked(T), Shape(T, B),
           NEW old \in Keys, Occupied(T, old), NEW new \in Node
    PROVE  Hung(T, Hang(T, old, new), old, new)
<1> DEFINE R == Hang(T, old, new)
<1>1. CASE T.parent[old] = Null
  <2>1. R = SetRoot(T, new) /\ old = T.root
    BY <1>1, RootFacts DEF Hang
  <2>2. ASSUME NEW s \in Side, NEW x \in Keys
        PROVE  T.child[s][x] # old
    BY <1>1, NullIsNoKey DEF Linked
  <2>3. Rooted(T, R, new)
    BY <2>1, SetRootFields
  <2> QED
    BY <2>1, <2>2, <2>3 DEF Rooted, Hung
<1>2. CASE T.parent[old] # Null
  <2>1. R = SetChild(T, T.parent[old], SideOf(T, old), new) /\ old # T.root
    BY <1>2, RootFacts DEF Hang
  <2>2. T.parent[old] \in Keys /\ SideOf(T, old) \in Side /\ T.child[SideOf(T, old)][T.parent[old]] = old
    BY <1>2, ParentFacts
  <2>3. ASSUME NEW s \in Side, NEW x \in Keys, T.child[s][x] = old
        PROVE  s = SideOf(T, old) /\ x = T.parent[old]
    BY <2>3, NullIsNoKey, ChildFacts
  <2>4. Redirected(T, R, T.parent[old], SideOf(T, old), new)
    BY <2>1, <2>2, SetChildFields
  <2> QED
    BY <2>1, <2>2, <2>3, <2>4 DEF Redirected, Hung
<1> QED
  BY <1>1, <1>2

\* What a rotation does to the links: q has gone up and p down, and the subtree between
\* their keys has changed sides.
Rotated(T, R, p, q, side) ==
    /\ R \in Tree
    /\ R.root = IF p = T.root THEN q ELSE T.root
    /\ R.data = T.data
    /\ R.child[side][p] = T.child[side][p]
    /\ R.child[Opposite(side)][p] = T.child[side][q]
    /\ R.child[side][q] = p
    /\ R.child[Opposite(side)][q] = T.child[Opposite(side)][q]
    /\ \A s \in Side, x \in Keys \ {p, q} :
         R.child[s][x] = IF T.child[s][x] = p THEN q ELSE T.child[s][x]
    /\ R.parent[q] = T.parent[p] /\ R.parent[p] = q
    /\ \A x \in Keys \ {p, q} :
         R.parent[x] = IF x = T.child[side][q] THEN p ELSE T.parent[x]

LEMMA RotateFields ==
    ASSUME NEW T \in Tree, NEW B, Linked(T), Shape(T, B),
           NEW p \in Keys, NEW side \in Side,
           NEW q, q = T.child[Opposite(side)][p], q # Null
    PROVE  Rotated(T, Rotate(T, p, side), p, q, side) /\ Rotate(T, p, side).color = T.color
<1> DEFINE o == Opposite(side)
           inner == T.child[side][q]
<1>1. o \in Side /\ o # side /\ Opposite(o) = side /\ \A s \in Side : s = side \/ s = o
  BY Sides
<1>2. q \in Keys /\ q # p /\ Occupied(T, p) /\ T.parent[p] # q
  BY <1>1, ChildFacts
<1>3. inner \in Node /\ T.parent[p] \in Node /\ q \in Node /\ p \in Node
  BY <1>2, TreeFields DEF Node
<1>4. inner # p /\ inner # q /\ T.child[side][p] # p /\ T.child[side][p] # q
      /\ T.child[o][q] # p /\ T.child[o][q] # q
  BY <1>1, <1>2, NullIsNoKey, ChildFacts
<1>0. PICK R : R = Rotate(T, p, side)
  OBVIOUS
<1>5. PICK T1 : T1 = Hang(T, p, q)
  OBVIOUS
<1>6. PICK T2 : T2 = SetParent(T1, q, T.parent[p])
  OBVIOUS
<1>7. PICK T3 : T3 = SetParent(T2, p, q)
  OBVIOUS
<1>8. PICK T4 : T4 = SetChild(T3, p, o, inner)
  OBVIOUS
<1>9. PICK T5 : T5 = SetParent(T4, inner, p)
  OBVIOUS
<1>10. R = SetChild(T5, q, side, p)
  BY <1>0, <1>5, <1>6, <1>7, <1>8, <1>9 DEF Rotate
<1>11. /\ T1 \in Tree
       /\ T1.root = IF p = T.root THEN q ELSE T.root
       /\ T1.parent = T.parent /\ T1.color = T.color /\ T1.data = T.data
       /\ \A s \in Side, x \in Keys :
            T1.child[s][x] = IF T.child[s][x] = p THEN q ELSE T.child[s][x]
  <2>1. Hung(T, T1, p, q)
    BY <1>2, <1>3, <1>5, HangFields
  <2> QED
    BY <2>1 DEF Hung
<1> HIDE DEF o, inner
<1>12. Reparented(T1, T2, q, T.parent[p])
  BY <1>3, <1>6, <1>11, SetParentFields
<1>13. Reparented(T2, T3, p, q)
  <2>1. T2 \in Tree
    BY <1>12 DEF Reparented
  <2> QED
    BY <1>3, <1>7, <2>1, SetParentFields
<1>14. Redirected(T3, T4, p, o, inner)
  <2>1. T3 \in Tree
    BY <1>13 DEF Reparented
  <2> QED
    BY <1>1, <1>3, <1>8, <2>1, SetChildFields
<1>15. Reparented(T4, T5, inner, p)
  <2>1. T4 \in Tree
    BY <1>14 DEF Redirected
  <2> QED
    BY <1>3, <1>9, <2>1, SetParentFields
<1>16. Redirected(T5, R, q, side, p)
  <2>1. T5 \in Tree
    BY <1>15 DEF Reparented
  <2> QED
    BY <1>1, <1>2, <1>3, <1>10, <2>1, SetChildFields
<1>22. \A s \in Side, x \in Keys :
            R.child[s][x] = IF s = side /\ x = q THEN p
                            ELSE IF s = o /\ x = p THEN inner
                            ELSE IF T.child[s][x] = p THEN q ELSE T.child[s][x]
  BY <1>11, <1>12, <1>13, <1>14, <1>15, <1>16 DEF Reparented, Redirected
<1>23. \A x \in Keys :
            R.parent[x] = IF x = inner THEN p ELSE IF x = p THEN q
                          ELSE IF x = q THEN T.parent[p] ELSE T.parent[x]
  BY <1>11, <1>12, <1>13, <1>14, <1>15, <1>16 DEF Reparented, Redirected
<1>24. R \in Tree /\ R.root = T1.root /\ R.color = T.color /\ R.data = T.data
  BY <1>11, <1>12, <1>13, <1>14, <1>15, <1>16 DEF Reparented, Redirected
<1>25. /\ R.child[side][p] = T.child[side][p] /\ R.child[o][p] = inner
       /\ R.child[side][q] = p /\ R.child[o][q] = T.child[o][q]
  BY <1>1, <1>2, <1>4, <1>22
<1>26. \A s \in Side, x \in Keys \ {p, q} :
                R.child[s][x] = IF T.child[s][x] = p THEN q ELSE T.child[s][x]
  BY <1>22
<1>27. /\ R.parent[q] = T.parent[p] /\ R.parent[p] = q
       /\ \A x \in Keys \ {p, q} : R.parent[x] = IF x = inner THEN p ELSE T.parent[x]
  BY <1>2, <1>4, <1>23
<1> QED
  BY <1>0, <1>11, <1>24, <1>25, <1>26, <1>27 DEF o, inner, Rotated

-----------------------------------------------------------------------------
(* Rotations *)

\* The keys below p and q after the rotation.
Turned(T, B, p, q, side) ==
    [n \in Keys |->
        IF n = q THEN B[p]
        ELSE IF n = p THEN {p} \cup Under(B, T.child[side][p]) \cup Under(B, T.child[side][q])
        ELSE B[n]]

\* A rotation that the doomed node has no part in keeps a tree sound.
LEMMA RotateSound ==
    ASSUME NEW T \in Tree, NEW B, NEW d, Sound(T, B, d),
           NEW p \in Keys, NEW side \in Side,
           NEW q, q = T.child[Opposite(side)][p], q # Null, p # d, q # d,
           NEW R, Rotated(T, R, p, q, side)
    PROVE  /\ Sound(R, Turned(T, B, p, q, side), d)
           /\ \A n \in Keys : Occupied(R, n) <=> Occupied(T, n)
<1> DEFINE o == Opposite(side)
           inner == T.child[side][q]
           outer == T.child[o][q]
           far == T.child[side][p]
<1>0. PICK B2 : B2 = Turned(T, B, p, q, side)
  OBVIOUS
<1> USE NullIsNoKey
<1>1. o \in Side /\ o # side /\ Opposite(o) = side /\ \A s \in Side : s = side \/ s = o
  BY Sides
<1>2. Linked(T) /\ Shape(T, B)
  BY DEF Sound
<1>3. /\ q \in Keys /\ q # p /\ T.parent[q] = p /\ T.parent[p] # q
      /\ Occupied(T, p) /\ Occupied(T, q)
      /\ p \in B[p] /\ q \in B[q] /\ p \notin B[q]
      /\ \A s \in Side : T.child[s][q] # p
  BY <1>1, <1>2, ChildFacts
<1>4. /\ inner \in Node /\ outer \in Node /\ far \in Node
      /\ T.parent[p] \in Node
  BY <1>1, <1>3, TreeFields
<1>5. \A s \in Side, x \in Keys : T.child[s][x] # x
  BY <1>2, ChildFacts
<1>6. inner \notin {p, q} /\ outer \notin {p, q} /\ far \notin {p, q}
  <2>1. far # q
    BY <1>1, <1>2, <1>3, ChildFacts
  <2> QED
    BY <2>1, <1>1, <1>3, <1>5
<1>7. \A s \in Side, x \in Keys : T.child[s][x] = q => x = p
  BY <1>2, <1>3 DEF Linked
<1>8. /\ inner # Null => T.parent[inner] = q
      /\ outer # Null => T.parent[outer] = q
      /\ far # Null => T.parent[far] = p
  BY <1>1, <1>2, <1>3 DEF Linked
<1>9. inner # Null => inner # outer
  BY <1>1, <1>2, <1>3, ChildFacts
<1>10. ASSUME NEW n \in Keys, T.parent[n] = n
       PROVE  FALSE
  <2>1. \E s \in Side : T.child[s][n] = n
    BY <1>2, <1>10 DEF Linked
  <2> QED
    BY <1>5, <2>1
<1> HIDE DEF o, inner, outer, far
<1>11. ASSUME NEW n \in Keys
       PROVE  Occupied(R, n) <=> Occupied(T, n)
  <2>1. CASE n = p
    BY <1>3, <2>1 DEF Occupied, Rotated
  <2>2. CASE n = q
    <3>1. R.root = q \/ R.parent[q] # Null
      BY <1>3 DEF Occupied, Rotated
    <3> QED
      BY <1>3, <2>2, <3>1 DEF Occupied
  <2>3. CASE n \notin {p, q}
    <3>1. T.root # q
      BY <1>2, <1>3 DEF Linked
    <3>2. n = R.root <=> n = T.root
      BY <2>3, <3>1 DEF Rotated
    <3>3. R.parent[n] # Null <=> T.parent[n] # Null
      <4>1. CASE n = inner
        <5>1. R.parent[n] = p
          BY <2>3, <4>1 DEF Rotated, inner
        <5>2. T.parent[n] = q
          BY <1>8, <4>1
        <5> QED
          BY <1>3, <5>1, <5>2
      <4>2. CASE n # inner
        BY <2>3, <4>2 DEF Rotated, inner
      <4> QED
        BY <4>1, <4>2
    <3> QED
      BY <3>2, <3>3 DEF Occupied
  <2> QED
    BY <2>1, <2>2, <2>3
<1>12. Linked(R)
  <2>1. ASSUME NEW n \in Keys, NEW s \in Side, R.child[s][n] # Null
        PROVE  R.parent[R.child[s][n]] = n /\ Occupied(R, n)
    <3>1. CASE n = p
      <4>1. R.child[side][p] = far /\ R.child[o][p] = inner
        BY DEF Rotated, o, inner, far
      <4>2. /\ far # Null => R.parent[far] = p
            /\ inner # Null => R.parent[inner] = p
        BY <1>4, <1>6, <1>8 DEF Rotated, Node, inner
      <4> QED
        BY <1>1, <1>3, <1>11, <2>1, <3>1, <4>1, <4>2
    <3>2. CASE n = q
      <4>1. R.child[side][q] = p /\ R.child[o][q] = outer
        BY DEF Rotated, o, outer
      <4>2. /\ R.parent[p] = q
            /\ outer # Null => R.parent[outer] = q
        BY <1>4, <1>6, <1>8, <1>9 DEF Rotated, Node, inner
      <4> QED
        BY <1>1, <1>3, <1>11, <2>1, <3>2, <4>1, <4>2
    <3>3. CASE n \notin {p, q}
      <4>1. R.child[s][n] = IF T.child[s][n] = p THEN q ELSE T.child[s][n]
        BY <3>3 DEF Rotated
      <4>2. T.child[s][n] \in Keys /\ T.parent[T.child[s][n]] = n /\ Occupied(T, n)
        BY <1>2, <1>3, <2>1, <4>1, TreeFields DEF Linked, Node
      <4>3. CASE T.child[s][n] = p
        BY <1>11, <4>1, <4>2, <4>3 DEF Rotated
      <4>4. CASE T.child[s][n] # p
        <5>1. T.child[s][n] # q /\ T.child[s][n] # inner
          BY <1>3, <1>8, <3>3, <4>2
        <5>2. T.child[s][n] \in Keys \ {p, q} /\ R.child[s][n] = T.child[s][n]
          BY <4>1, <4>2, <4>4, <5>1
        <5>3. R.parent[T.child[s][n]] = T.parent[T.child[s][n]]
          BY <5>1, <5>2 DEF Rotated, inner
        <5> QED
          BY <1>11, <4>2, <5>2, <5>3
      <4> QED
        BY <4>3, <4>4
    <3> QED
      BY <3>1, <3>2, <3>3
  <2>2. ASSUME NEW n \in Keys, R.parent[n] # Null
        PROVE  \E s \in Side : R.child[s][R.parent[n]] = n
    <3>1. CASE n = q
      <4>1. R.parent[q] = T.parent[p] /\ T.parent[p] \in Keys \ {p, q}
        BY <1>3, <1>4, <1>10, <2>2, <3>1 DEF Rotated, Node
      <4>2. PICK s \in Side : T.child[s][T.parent[p]] = p
        BY <1>2, <4>1 DEF Linked
      <4>3. R.child[s][R.parent[q]] = q
        BY <4>1, <4>2 DEF Rotated
      <4> QED
        BY <3>1, <4>3
    <3>2. CASE n = p
      BY <3>2 DEF Rotated
    <3>3. CASE n = inner
      <4>1. R.parent[inner] = p
        BY <1>6, <3>3 DEF Rotated, inner
      <4>2. R.child[o][p] = inner
        BY DEF Rotated, o, inner
      <4> QED
        BY <1>1, <3>3, <4>1, <4>2
    <3>4. CASE n \notin {p, q, inner}
      <4>1. R.parent[n] = T.parent[n] /\ T.parent[n] \in Keys
        BY <2>2, <3>4, TreeFields DEF Rotated, inner, Node
      <4>2. PICK s \in Side : T.child[s][T.parent[n]] = n
        BY <1>2, <4>1 DEF Linked
      <4>3. CASE T.parent[n] = p
        BY <1>1, <3>4, <4>1, <4>2, <4>3 DEF Rotated, o, far
      <4>4. CASE T.parent[n] = q
        BY <1>1, <3>4, <4>1, <4>2, <4>4 DEF Rotated, o, inner, outer
      <4>5. CASE T.parent[n] \notin {p, q}
        <5>1. T.parent[n] \in Keys \ {p, q} /\ T.child[s][T.parent[n]] # p
          BY <3>4, <4>1, <4>2, <4>5
        <5>2. R.child[s][T.parent[n]] = T.child[s][T.parent[n]]
          BY <5>1 DEF Rotated
        <5> QED
          BY <4>1, <4>2, <5>2
      <4> QED
        BY <4>3, <4>4, <4>5
    <3> QED
      BY <3>1, <3>2, <3>3, <3>4
  <2>3. R.root # Null => R.parent[R.root] = Null
    <3>1. CASE p = T.root
      BY <1>2, <3>1 DEF Rotated, Linked
    <3>2. CASE p # T.root /\ T.root # Null
      <4>1. T.root \in Keys /\ T.parent[T.root] = Null /\ T.root # q /\ T.root # inner
        BY <1>2, <1>3, <1>8, <3>2, TreeFields DEF Linked, Node
      <4> QED
        BY <3>2, <4>1 DEF Rotated, inner
    <3> QED
      BY <3>1, <3>2 DEF Rotated
  <2> QED
    BY <2>1, <2>2, <2>3 DEF Linked
<1>13. /\ B2 \in [Keys -> SUBSET Keys]
       /\ B2[q] = B[p]
       /\ B2[p] = {p} \cup Under(B, far) \cup Under(B, inner)
       /\ \A n \in Keys \ {p, q} : B2[n] = B[n]
  BY <1>0, <1>2, <1>3, <1>4 DEF Turned, Shape, Under, far, inner, Node
<1>14. \A c \in Node \ {p, q} : Under(B2, c) = Under(B, c)
  BY <1>13 DEF Under, Node
<1>15. ASSUME NEW n \in Keys \ {p, q}, NEW s \in Side
       PROVE  Under(B2, R.child[s][n]) = Under(B, T.child[s][n])
  <2>1. R.child[s][n] = IF T.child[s][n] = p THEN q ELSE T.child[s][n]
    BY DEF Rotated
  <2>2. T.child[s][n] \in Node \ {q}
    BY <1>7, TreeFields
  <2> QED
    BY <1>3, <1>13, <1>14, <2>1, <2>2 DEF Under
<1>16. /\ Under(B2, R.child[side][p]) = Under(B, far)
       /\ Under(B2, R.child[o][p]) = Under(B, inner)
       /\ Under(B2, R.child[side][q]) = B2[p]
       /\ Under(B2, R.child[o][q]) = Under(B, outer)
  BY <1>4, <1>6, <1>14 DEF Rotated, Under, o, inner, outer, far
<1>17. /\ B[p] = {p} \cup Under(B, far) \cup B[q]
       /\ p \notin Under(B, far)
       /\ Under(B, far) \cap B[q] = {}
       /\ B[q] = {q} \cup Under(B, inner) \cup Under(B, outer)
       /\ q \notin Under(B, inner) /\ q \notin Under(B, outer)
       /\ Under(B, inner) \cap Under(B, outer) = {}
  <2>1. CASE side = "left"
    BY <1>2, <1>3, <2>1 DEF Shape, Under, Opposite, o, far, inner, outer
  <2>2. CASE side = "right"
    BY <1>2, <1>3, <2>2 DEF Shape, Under, Opposite, o, far, inner, outer
  <2> QED
    BY <2>1, <2>2 DEF Side
<1>18. \A c \in Node : Under(B, c) \subseteq Keys
  BY <1>2 DEF Shape, Under, Node
<1>19. Shape(R, B2)
  <2>1. ASSUME NEW n \in Keys
        PROVE  /\ B2[n] = {n} \cup Under(B2, R.child[side][n]) \cup Under(B2, R.child[o][n])
               /\ n \notin Under(B2, R.child[side][n])
               /\ n \notin Under(B2, R.child[o][n])
               /\ Under(B2, R.child[side][n]) \cap Under(B2, R.child[o][n]) = {}
    <3>1. CASE n = p
      BY <1>3, <1>13, <1>16, <1>17, <3>1
    <3>2. CASE n = q
      <4>1. B[p] = {q} \cup B2[p] \cup Under(B, outer)
        BY <1>13, <1>17
      <4>2. q \notin B2[p]
        BY <1>3, <1>13, <1>17
      <4>3. B2[p] \cap Under(B, outer) = {}
        BY <1>3, <1>13, <1>17
      <4> QED
        BY <1>13, <1>16, <1>17, <3>2, <4>1, <4>2, <4>3
    <3>3. CASE n \in Keys \ {p, q}
      <4>1. /\ Under(B2, R.child[side][n]) = Under(B, T.child[side][n])
            /\ Under(B2, R.child[o][n]) = Under(B, T.child[o][n])
            /\ B2[n] = B[n]
        BY <1>1, <1>13, <1>15, <3>3
      <4>2. /\ B[n] = {n} \cup Under(B, T.child[side][n]) \cup Under(B, T.child[o][n])
            /\ n \notin Under(B, T.child[side][n])
            /\ n \notin Under(B, T.child[o][n])
            /\ Under(B, T.child[side][n]) \cap Under(B, T.child[o][n]) = {}
        BY <1>2, Sides DEF Shape, o, Side, Opposite
      <4> QED
        BY <4>1, <4>2
    <3> QED
      BY <3>1, <3>2, <3>3
  <2>2. ASSUME NEW n \in Keys
        PROVE  Occupied(R, n) <=> n \in Under(B2, R.root)
    <3>1. Under(B2, R.root) = Under(B, T.root)
      <4>1. CASE p = T.root
        BY <1>3, <1>13, <4>1 DEF Rotated, Under
      <4>2. CASE p # T.root
        <5>1. T.root # q
          BY <1>2, <1>3 DEF Linked
        <5> QED
          BY <1>14, <4>2, <5>1, TreeFields DEF Rotated
      <4> QED
        BY <4>1, <4>2
    <3> QED
      BY <1>2, <1>11, <3>1 DEF Shape
  <2>3. ASSUME NEW n \in Keys
        PROVE  /\ B2[n] = {n} \cup Under(B2, R.child["left"][n]) \cup Under(B2, R.child["right"][n])
               /\ n \notin Under(B2, R.child["left"][n])
               /\ n \notin Under(B2, R.child["right"][n])
               /\ Under(B2, R.child["left"][n]) \cap Under(B2, R.child["right"][n]) = {}
    <3>1. CASE side = "left"
      BY <2>1, <3>1 DEF o, Opposite
    <3>2. CASE side = "right"
      BY <2>1, <3>2 DEF o, Opposite
    <3> QED
      BY <3>1, <3>2 DEF Side
  <2> QED
    BY <1>13, <2>2, <2>3 DEF Shape
<1>20. Ordered(R, B2, d)
  <2> SUFFICES ASSUME NEW n \in Keys, NEW s \in Side, NEW m \in Under(B2, R.child[s][n]) \ {d}
               PROVE  Before(s, m, n)
    BY DEF Ordered
  <2>1. \A x \in Keys, z \in Side : \A y \in Under(B, T.child[z][x]) \ {d} : Before(z, y, x)
    BY DEF Sound, Ordered
  <2>2. Under(B, T.child[o][p]) = B[q]
    BY <1>3 DEF Under, o
  <2>3. CASE n \notin {p, q}
    BY <1>15, <2>1, <2>3
  <2>4. CASE n = p /\ s = side
    BY <1>16, <2>1, <2>4 DEF far
  <2>5. CASE n = p /\ s = o
    <3>1. m \in Under(B, T.child[o][p]) \ {d}
      BY <1>16, <1>17, <2>2, <2>5
    <3> QED
      BY <1>1, <2>1, <2>5, <3>1
  <2>6. CASE n = q /\ s = o
    BY <1>1, <1>3, <1>16, <2>1, <2>6 DEF outer
  <2>7. CASE n = q /\ s = side
    <3>1. m = p \/ m \in Under(B, inner) \/ m \in Under(B, far)
      BY <1>13, <1>16, <2>7
    <3>2. CASE m \in Under(B, inner)
      BY <1>3, <2>1, <2>7, <3>2 DEF inner
    <3>3. Before(side, p, q)
      <4>1. Before(o, q, p)
        BY <1>1, <1>3, <2>1, <2>2
      <4> QED
        BY <1>3, <4>1, BeforeOrders DEF o
    <3>4. CASE m \in Under(B, far)
      <4>1. Before(side, m, p) /\ m \in Keys
        BY <1>4, <1>18, <2>1, <3>4 DEF far
      <4> QED
        BY <1>3, <2>7, <3>3, <4>1, BeforeOrders
    <3> QED
      BY <2>7, <3>1, <3>2, <3>3, <3>4
  <2> QED
    BY <1>1, <2>3, <2>4, <2>5, <2>6, <2>7
<1>21. Stored(R)
  BY <1>11 DEF Sound, Stored, Rotated
<1> QED
  BY <1>0, <1>11, <1>12, <1>19, <1>20, <1>21 DEF Sound

\* A rotation keeps a tree balanced if the node that comes up takes over the color and
\* the height of the one that goes down, and all is well at these two and at the outer
\* child w, if that is painted.
HeightsTurned(T, R, H, H2, e, e2, d, p, q, side, w) ==
    /\ H2 \in [Keys -> Nat]
    /\ \A x \in Keys \ {p, q, w} : H2[x] = H[x]
    /\ H2[q] = H[p]
    /\ e \notin {p, q} /\ e2 # p
    /\ e2 = e \/ (e2 = Null /\ e \in Keys /\ T.parent[e] = p)
    /\ H2[p] = Height(H2, e2, T.child[side][p]) + Weight(R, d, p)
    /\ H2[p] = Height(H2, e2, T.child[side][q]) + Weight(R, d, p)
    /\ H2[q] = H2[p] + Weight(R, d, q)
    /\ H2[q] = Height(H2, e2, T.child[Opposite(side)][q]) + Weight(R, d, q)
    /\ w # Null => \A s \in Side : H2[w] = Height(H, e, T.child[s][w]) + Weight(R, d, w)

ColorsTurned(T, R, v, v2, p, q, side, w) ==
    /\ \A x \in Keys \ {p, q, w} : R.color[x] = T.color[x]
    /\ R.color[q] = T.color[p]
    /\ w \in {Null, T.child[Opposite(side)][q]}
    /\ w # Null => R.color[w] = "black"
    /\ v # p
    /\ v2 = v \/ (v \in Keys /\ T.parent[v] \in {p, q})
    /\ R.color[p] = "red" =>
         /\ T.child[side][p] = v2 \/ Color(R, T.child[side][p]) = "black"
         /\ T.child[side][q] = v2 \/ Color(R, T.child[side][q]) = "black"
    /\ R.color[q] = "red" =>
         /\ p = v2 \/ R.color[p] = "black"
         /\ T.child[Opposite(side)][q] = v2 \/ Color(R, T.child[Opposite(side)][q]) = "black"

LEMMA RotateBalanced ==
    ASSUME NEW T \in Tree, NEW B, NEW d, Sound(T, B, d),
           NEW p \in Keys, NEW side \in Side,
           NEW q, q = T.child[Opposite(side)][p], q # Null, p # d, q # d,
           NEW R, Rotated(T, R, p, q, side),
           NEW H, NEW e, NEW v, Balanced(T, H, e, v, d),
           NEW e2, NEW v2, NEW w, NEW H2,
           HeightsTurned(T, R, H, H2, e, e2, d, p, q, side, w),
           ColorsTurned(T, R, v, v2, p, q, side, w)
    PROVE  Balanced(R, H2, e2, v2, d)
<1> USE NullIsNoKey
<1> DEFINE o == Opposite(side)
           inner == T.child[side][q]
           outer == T.child[o][q]
           far == T.child[side][p]
<1>1. o \in Side /\ o # side /\ Opposite(o) = side /\ \A s \in Side : s = side \/ s = o
  BY Sides
<1>2. Linked(T) /\ Shape(T, B)
  BY DEF Sound
<1>3. q \in Keys /\ q # p /\ T.parent[q] = p
  BY <1>1, <1>2, ChildFacts
<1>4. /\ H \in [Keys -> Nat]
      /\ \A n \in Keys, s \in Side : H[n] = Height(H, e, T.child[s][n]) + Weight(T, d, n)
  BY DEF Balanced, Even
<1>5. \A n \in Keys, s \in Side : T.child[s][n] # Null => T.parent[T.child[s][n]] = n
  BY <1>2 DEF Linked
<1>6. w # Null => w \in Keys /\ T.parent[w] = q /\ w # p /\ w # q
  <2>1. w # Null => w \in Keys /\ T.parent[w] = q
    BY <1>1, <1>3, <1>5, TreeFields DEF Node, o, ColorsTurned
  <2>2. \A s \in Side : T.child[s][q] # p /\ T.child[s][q] # q
    BY <1>1, <1>2, <1>3, ChildFacts
  <2> QED
    BY <1>1, <2>1, <2>2 DEF ColorsTurned
<1>7. /\ R.child[side][p] = far /\ R.child[o][p] = inner
      /\ R.child[side][q] = p /\ R.child[o][q] = outer
  BY DEF Rotated, o, inner, outer, far
<1>8. ASSUME NEW n \in Keys \ {p, q}, NEW s \in Side, T.child[s][n] = p
      PROVE  R.child[s][n] = q
  BY <1>8 DEF Rotated
<1>9. ASSUME NEW n \in Keys \ {p, q}, NEW s \in Side, T.child[s][n] # p
      PROVE  /\ R.child[s][n] = T.child[s][n]
             /\ T.child[s][n] \notin {p, q} /\ (n # w => T.child[s][n] = Null \/ T.child[s][n] # w)
  <2>1. T.child[s][n] # q
    BY <1>3, <1>5
  <2>2. T.child[s][n] # Null => T.child[s][n] # w
    BY <1>5, <1>6
  <2> QED
    BY <1>9, <2>1, <2>2 DEF Rotated
<1>10. ASSUME NEW n \in Keys, NEW s \in Side
       PROVE  H2[n] = Height(H2, e2, R.child[s][n]) + Weight(R, d, n)
  <2>1. CASE n = p
    BY <1>1, <1>7, <2>1 DEF o, inner, far, HeightsTurned
  <2>2. CASE n = q
    BY <1>1, <1>7, <2>2 DEF o, outer, Height, HeightsTurned
  <2>3. CASE n \notin {p, q} /\ T.child[s][n] = p
    <3>1. Height(H2, e2, q) = Height(H, e, p)
      BY <1>3 DEF Height, HeightsTurned
    <3>2. n # w
      <4>1. n # Null /\ T.parent[p] = n
        BY <1>5, <2>3
      <4>2. n \notin B[p]
        BY <1>2, <2>3, ChildFacts
      <4>3. B[q] \subseteq B[p]
        BY <1>1, <1>2, ChildFacts
      <4>4. w # Null => w \in B[q]
        <5>1. outer # Null => outer \in B[outer] /\ B[outer] \subseteq B[q]
          BY <1>1, <1>2, <1>3, ChildFacts
        <5> QED
          BY <5>1 DEF ColorsTurned, o
      <4> QED
        BY <4>1, <4>2, <4>3, <4>4
    <3>3. H2[n] = H[n] /\ R.color[n] = T.color[n]
      BY <2>3, <3>2 DEF HeightsTurned, ColorsTurned
    <3> QED
      BY <1>4, <1>8, <2>3, <3>1, <3>3 DEF Weight
  <2>4. CASE n \notin {p, q} /\ T.child[s][n] # p
    <3>1. R.child[s][n] = T.child[s][n] /\ T.child[s][n] \notin {p, q} /\ (T.child[s][n] = Null \/ T.child[s][n] # w)
      BY <1>9, <1>5, <1>6, <2>4
    <3>2. T.child[s][n] \in Node
      BY TreeFields
    <3>3. Height(H2, e2, T.child[s][n]) = Height(H, e, T.child[s][n])
      <4>1. CASE T.child[s][n] = Null
        BY <4>1 DEF Height
      <4>2. CASE T.child[s][n] # Null
        <5>1. H2[T.child[s][n]] = H[T.child[s][n]]
          BY <3>1, <3>2, <4>2 DEF HeightsTurned, Node
        <5>2. T.child[s][n] = e <=> T.child[s][n] = e2
          BY <1>5, <2>4, <4>2 DEF HeightsTurned
        <5> QED
          BY <4>2, <5>1, <5>2 DEF Height
      <4> QED
        BY <4>1, <4>2
    <3>4. CASE n = w
      BY <3>1, <3>3, <3>4 DEF HeightsTurned
    <3>5. CASE n # w
      <4>1. H2[n] = H[n] /\ R.color[n] = T.color[n]
        BY <2>4, <3>5 DEF HeightsTurned, ColorsTurned
      <4> QED
        BY <1>4, <3>1, <3>3, <4>1 DEF Weight
    <3> QED
      BY <3>4, <3>5
  <2> QED
    BY <2>1, <2>2, <2>3, <2>4
<1>11. ASSUME NEW n \in Keys \ {d}, NEW s \in Side, R.color[n] = "red", R.child[s][n] # v2
       PROVE  Color(R, R.child[s][n]) = "black"
  <2>0. \A m \in Keys \ {d}, z \in Side : T.color[m] = "red" /\ T.child[z][m] # v => Color(T, T.child[z][m]) = "black"
    BY DEF Balanced, NoRedRed
  <2>1. CASE n = p
    BY <1>1, <1>7, <1>11, <2>1 DEF o, inner, far, ColorsTurned
  <2>2. CASE n = q
    <3>1. s = side \/ s = o
      BY <1>1
    <3>2. CASE s = side
      <4>1. p # v2 /\ R.color[p] = "black" /\ R.child[s][n] = p
        BY <1>7, <1>11, <2>2, <3>2 DEF ColorsTurned
      <4> QED
        BY <4>1 DEF Color
    <3>3. CASE s = o
      <4>1. outer # v2 /\ R.child[s][n] = outer
        BY <1>7, <1>11, <2>2, <3>3
      <4> QED
        BY <1>11, <2>2, <4>1 DEF ColorsTurned, outer, o
    <3> QED
      BY <3>1, <3>2, <3>3
  <2>3. CASE n \notin {p, q} /\ T.child[s][n] = p
    <3>1. n # w /\ v # p
      BY <1>6, <1>11, <2>3 DEF ColorsTurned
    <3>2. R.color[n] = T.color[n] /\ R.color[q] = T.color[p]
      BY <2>3, <3>1 DEF ColorsTurned
    <3>3. Color(T, p) = "black"
      BY <1>11, <2>0, <2>3, <3>1, <3>2
    <3> QED
      BY <1>3, <1>8, <2>3, <3>2, <3>3 DEF Color
  <2>4. CASE n \notin {p, q} /\ T.child[s][n] # p
    <3>1. R.child[s][n] = T.child[s][n] /\ T.child[s][n] \notin {p, q} /\ (T.child[s][n] = Null \/ T.child[s][n] # w)
      BY <1>9, <1>5, <1>6, <2>4
    <3>2. T.child[s][n] \in Node
      BY TreeFields
    <3>3. n # w /\ R.color[n] = T.color[n]
      BY <1>6, <1>11, <2>4 DEF ColorsTurned
    <3>4. CASE T.child[s][n] = Null
      BY <3>1, <3>4 DEF Color
    <3>5. CASE T.child[s][n] # Null
      <4>1. T.child[s][n] # v
        BY <1>5, <1>11, <2>4, <3>1, <3>5 DEF ColorsTurned
      <4>2. Color(T, T.child[s][n]) = "black"
        BY <1>11, <2>0, <3>3, <4>1
      <4>3. R.color[T.child[s][n]] = T.color[T.child[s][n]]
        BY <3>1, <3>2, <3>5 DEF Node, ColorsTurned
      <4> QED
        BY <3>1, <3>5, <4>2, <4>3 DEF Color
    <3> QED
      BY <3>4, <3>5
  <2> QED
    BY <2>1, <2>2, <2>3, <2>4
<1>12. RootBlack(R, v2, d)
  <2>1. T.root \in {Null, v, d} \/ T.color[T.root] = "black"
    BY DEF Balanced, RootBlack
  <2>2. CASE T.root = p
    BY <2>1, <2>2 DEF Rotated, RootBlack, ColorsTurned
  <2>3. CASE T.root # p
    <3>1. R.root = T.root
      BY <2>3 DEF Rotated
    <3>2. T.root # Null => T.parent[T.root] = Null
      BY <1>2 DEF Linked
    <3>3. T.root # q /\ (T.root = Null \/ T.root # w)
      BY <1>3, <1>6, <3>2
    <3>4. T.root # Null /\ T.root = v => v = v2
      BY <1>3, <3>2 DEF ColorsTurned
    <3>5. T.root \in Node
      BY TreeFields
    <3> QED
      BY <2>1, <2>3, <3>1, <3>3, <3>4, <3>5 DEF RootBlack, Node, ColorsTurned
  <2> QED
    BY <2>2, <2>3
<1> QED
  BY <1>10, <1>11, <1>12 DEF Balanced, Even, NoRedRed, HeightsTurned

-----------------------------------------------------------------------------
(* Insertion *)

LEMMA PaintSound ==
    ASSUME NEW T, NEW R, SameLinks(T, R), NEW B, NEW d, Sound(T, B, d)
    PROVE  Sound(R, B, d) /\ \A x \in Keys : Occupied(R, x) <=> Occupied(T, x)
<1>1. R.root = T.root /\ R.child = T.child /\ R.parent = T.parent /\ R.data = T.data
  BY DEF SameLinks
<1>2. \A x : Occupied(R, x) <=> Occupied(T, x)
  BY <1>1 DEF Occupied
<1>3. Linked(R)
  BY <1>1, <1>2 DEF Sound, Linked
<1>4. Shape(R, B)
  BY <1>1, <1>2 DEF Sound, Shape
<1>5. Ordered(R, B, d)
  BY <1>1 DEF Sound, Ordered
<1>6. Stored(R)
  BY <1>1, <1>2 DEF Sound, Stored
<1> QED
  BY <1>2, <1>3, <1>4, <1>5, <1>6 DEF Sound

\* The loop of __rbtree_insert is at node n.
InsertAt(T, B, H, n) ==
    /\ T \in Tree /\ Sound(T, B, Null) /\ Balanced(T, H, Null, n, Null)
    /\ n \in Keys /\ Occupied(T, n) /\ T.color[n] = "red"

\* "root is black, and parent is red, parent can not be root of tree, and parent is
\* red, so grandpa must be black" (t2u_rbtree.c:300).
LEMMA Grandparent ==
    ASSUME NEW T, NEW B, NEW H, NEW n, InsertAt(T, B, H, n), RedParent(T, n),
           NEW p, p = T.parent[n], NEW g, g = T.parent[p],
           NEW side, side = SideOf(T, p), NEW u, u = Uncle(T, n)
    PROVE  /\ p \in Keys /\ g \in Keys /\ side \in Side /\ u \in Node
           /\ n # p /\ p # g /\ u \notin {n, p, g} /\ g # n
           /\ T.child[side][g] = p /\ T.child[Opposite(side)][g] = u
           /\ SideOf(T, n) \in Side /\ T.child[SideOf(T, n)][p] = n
           /\ T.color[p] = "red" /\ T.color[g] = "black"
           /\ \A s \in Side : Color(T, T.child[s][n]) = "black"
           /\ \A s \in Side : T.child[s][p] # n => Color(T, T.child[s][p]) = "black"
           /\ H[n] \in Nat /\ H[p] = H[n] /\ H[g] = H[n] + 1 /\ Height(H, Null, u) = H[n]
<1> USE NullIsNoKey
<1>0. T \in Tree /\ Linked(T) /\ Shape(T, B)
  BY DEF InsertAt, Sound
<1>1. p \in Keys /\ T.color[p] = "red"
  <2>1. p # Null
    BY DEF RedParent, Color
  <2> QED
    BY <1>0, <2>1, TreeFields DEF RedParent, Color, Node, InsertAt
<1>2. SideOf(T, n) \in Side /\ T.child[SideOf(T, n)][p] = n
  BY <1>0, <1>1, ParentFacts DEF InsertAt
<1>3. n \in Keys /\ n # p /\ Occupied(T, p)
  BY <1>0, <1>1, <1>2, ChildFacts DEF InsertAt
<1>4. g \in Keys
  <2>1. p # T.root
    BY <1>1, <1>3 DEF InsertAt, Balanced, RootBlack
  <2> QED
    BY <1>0, <1>1, <1>3, <2>1, TreeFields DEF Occupied, Node
<1>5. side \in Side /\ T.child[side][g] = p
  BY <1>0, <1>1, <1>4, ParentFacts
<1>15. Opposite(side) \in Side
  BY <1>5, Sides
<1>6. u = T.child[Opposite(side)][g] /\ u # p /\ p # g /\ g # n
  <2>1. T.child[side][g] # Null
    BY <1>1, <1>5
  <2>2. /\ SideOf(T, p) = side /\ Sibling(T, p) = T.child[Opposite(side)][g]
        /\ T.child[Opposite(side)][g] # p /\ p # g
        /\ \A s \in Side : T.child[s][p] # g
    <3> PICK c : c = T.child[side][g]
      OBVIOUS
    <3>1. /\ SideOf(T, c) = side /\ Sibling(T, c) = T.child[Opposite(side)][g]
          /\ T.child[Opposite(side)][g] # c /\ c # g
          /\ \A s \in Side : T.child[s][c] # g
      BY <1>0, <1>4, <1>5, <2>1, ChildApart
    <3> QED
      BY <1>5, <3>1
  <2> QED
    BY <1>2, <2>2 DEF Uncle
<1>7. u \in Node /\ u # g /\ u # n
  <2>1. u \in Node
    BY <1>0, <1>4, <1>6, <1>15, TreeFields
  <2>2. u # Null => T.parent[u] = g /\ u # g
    <3>1. T.child[Opposite(side)][g] # Null
          => T.parent[T.child[Opposite(side)][g]] = g /\ T.child[Opposite(side)][g] # g
      BY <1>0, <1>4, <1>15, ChildFacts
    <3> QED
      BY <1>6, <3>1
  <2>3. u # n
    BY <1>3, <1>6, <2>2
  <2> QED
    BY <1>4, <2>1, <2>2, <2>3
<1>8. \A x \in Keys, s \in Side :
        T.color[x] = "red" /\ T.child[s][x] # n => Color(T, T.child[s][x]) = "black"
  BY DEF InsertAt, Balanced, NoRedRed
<1>9. T.color[g] = "black"
  <2>1. T.color[g] # "red"
    BY <1>1, <1>3, <1>4, <1>5, <1>8 DEF Color
  <2> QED
    BY <1>0, <1>4, <2>1, TreeFields
<1>10. \A s \in Side : T.child[s][n] # n
  BY <1>0, <1>3, ChildFacts
<1>11. /\ H \in [Keys -> Nat]
       /\ \A x \in Keys, s \in Side : H[x] = Height(H, Null, T.child[s][x]) + Weight(T, Null, x)
  BY DEF InsertAt, Balanced, Even
<1>12. H[p] = H[n]
  BY <1>1, <1>2, <1>3, <1>11 DEF Height, Weight
<1>13. H[g] = H[p] + 1
  BY <1>1, <1>4, <1>5, <1>9, <1>11 DEF Height, Weight
<1>14. Height(H, Null, u) = H[p]
  <2>1. H[g] = Height(H, Null, u) + 1
    BY <1>4, <1>5, <1>6, <1>9, <1>11, Sides DEF Weight
  <2>2. Height(H, Null, u) \in Nat
    BY <1>7, <1>11 DEF Height, Node
  <2> QED
    BY <1>1, <1>11, <1>13, <2>1, <2>2
<1> QED
  BY <1>1, <1>2, <1>3, <1>4, <1>5, <1>6, <1>7, <1>8, <1>9, <1>10, <1>11, <1>12, <1>13, <1>14 DEF InsertAt

\* A red uncle: the node and both its ancestors are recolored.
LEMMA RecolorInserts ==
    ASSUME NEW T, NEW B, NEW H, NEW n, InsertAt(T, B, H, n), RedParent(T, n),
           Color(T, Uncle(T, n)) = "red",
           NEW p, p = T.parent[n], NEW g, g = T.parent[p], NEW u, u = Uncle(T, n),
           NEW R, R = Paint(Paint(Paint(T, g, "red"), p, "black"), u, "black")
    PROVE  \E H2 : InsertAt(R, B, H2, g)
<1> USE NullIsNoKey
<1> PICK side : SideOf(T, p) = side
  OBVIOUS
<1>1. /\ p \in Keys /\ g \in Keys /\ side \in Side /\ u \in Node
      /\ n # p /\ p # g /\ u \notin {n, p, g} /\ g # n
      /\ T.child[side][g] = p /\ T.child[Opposite(side)][g] = u
      /\ T.color[p] = "red" /\ T.color[g] = "black"
      /\ H[n] \in Nat /\ H[p] = H[n] /\ H[g] = H[n] + 1 /\ Height(H, Null, u) = H[n]
  BY Grandparent
<1>2. T \in Tree /\ Sound(T, B, Null) /\ Linked(T) /\ Shape(T, B)
  BY DEF InsertAt, Sound
<1>3. u \in Keys
  BY <1>1 DEF Color, Node
<1>4. PaintedThree(T, R, g, "red", p, "black", u, "black")
  <2>1. T \in Tree /\ g \in Keys /\ p \in Keys /\ u \in Keys
    BY <1>1, <1>2, <1>3
  <2> QED
    BY <2>1, PaintThree
<1>7. Sound(R, B, Null) /\ \A x \in Keys : Occupied(R, x) <=> Occupied(T, x)
  BY <1>2, <1>4, PaintSound DEF PaintedThree
<1>8. /\ R \in Tree /\ R.child = T.child /\ R.root = T.root
      /\ R.color[g] = "red" /\ R.color[p] = "black" /\ R.color[u] = "black"
      /\ \A x \in Keys \ {g, p, u} : R.color[x] = T.color[x]
  BY <1>1, <1>3, <1>4 DEF SameLinks, PaintedThree
<1>9. \A x \in Keys, s \in Side : T.child[s][x] # Null => T.parent[T.child[s][x]] = x
  BY <1>2 DEF Linked
<1>10. T.parent[p] = g /\ T.parent[u] = g /\ T.parent[n] = p /\ Occupied(T, g)
  <2>1. Opposite(side) \in Side
    BY <1>1, Sides
  <2>2. T.child[side][g] # Null /\ T.child[Opposite(side)][g] # Null
    BY <1>1, <1>3
  <2>3. T.parent[T.child[side][g]] = g /\ T.parent[T.child[Opposite(side)][g]] = g /\ Occupied(T, g)
    BY <1>1, <1>2, <2>1, <2>2 DEF Linked
  <2>4. T.parent[n] = p
    OBVIOUS
  <2> QED
    BY <1>1, <2>3, <2>4
<1>11. /\ H \in [Keys -> Nat]
       /\ \A x \in Keys, s \in Side : H[x] = Height(H, Null, T.child[s][x]) + Weight(T, Null, x)
  BY DEF InsertAt, Balanced, Even
<1> PICK H2 : [x \in Keys |-> IF x \in {p, u} THEN H[x] + 1 ELSE H[x]] = H2
  OBVIOUS
<1>18. H2[p] = H[n] + 1 /\ H2[u] = H[n] + 1 /\ \A x \in Keys \ {p, u} : H2[x] = H[x]
  BY <1>1, <1>3 DEF Height
<1>12. Even(R, H2, Null, Null)
  <2>1. H2 \in [Keys -> Nat]
    BY <1>11
  <2>2. ASSUME NEW x \in Keys, NEW s \in Side
        PROVE  H2[x] = Height(H2, Null, R.child[s][x]) + Weight(R, Null, x)
    <3>1. R.child[s][x] = T.child[s][x] /\ T.child[s][x] \in Node
      BY <1>2, <1>8, TreeFields
    <3>2. CASE x = g
      <4>1. T.child[s][g] = p \/ T.child[s][g] = u
        BY <1>1, Sides
      <4>2. Height(H2, Null, T.child[s][g]) = H[n] + 1
        <5>1. Height(H2, Null, p) = H[n] + 1 /\ Height(H2, Null, u) = H[n] + 1
          BY <1>1, <1>3, <1>18 DEF Height
        <5> QED
          BY <4>1, <5>1
      <4>3. Weight(R, Null, g) = 0 /\ H2[g] = H[n] + 1
        BY <1>1, <1>8, <1>18 DEF Weight
      <4> QED
        <5>1. Height(H2, Null, R.child[s][g]) + Weight(R, Null, g) = H[n] + 1
          <6>1. R.child[s][g] = T.child[s][g]
            BY <3>1, <3>2
          <6>2. H[n] \in Nat
            BY <1>1
          <6> QED
            BY <4>2, <4>3, <6>1, <6>2
        <5> QED
          BY <3>2, <4>3, <5>1
    <3>3. CASE x # g
      <4>1. T.child[s][x] = Null \/ T.child[s][x] \notin {p, u}
        BY <1>9, <1>10, <3>3
      <4>2. Height(H2, Null, R.child[s][x]) = Height(H, Null, T.child[s][x])
        BY <3>1, <4>1 DEF Height, Node
      <4>3. H[x] = Height(H, Null, T.child[s][x]) + Weight(T, Null, x)
        BY <1>11
      <4>4. Height(H, Null, T.child[s][x]) \in Nat
        BY <1>11, <3>1 DEF Height, Node
      <4>5. CASE x \in {p, u}
        <5>1. T.color[x] = "red"
          BY <1>1, <1>3, <4>5 DEF Color
        <5> QED
          BY <1>8, <4>2, <4>3, <4>4, <4>5, <5>1 DEF Weight
      <4>6. CASE x \notin {p, u}
        BY <1>8, <3>3, <4>2, <4>3, <4>6 DEF Weight
      <4> QED
        BY <4>5, <4>6
    <3> QED
      BY <3>2, <3>3
  <2> QED
    BY <2>1, <2>2 DEF Even
<1>13. NoRedRed(R, g, Null)
  <2> SUFFICES ASSUME NEW x \in Keys, NEW s \in Side, R.color[x] = "red", R.child[s][x] # g
               PROVE  Color(R, R.child[s][x]) = "black"
    BY DEF NoRedRed
  <2>1. R.child[s][x] = T.child[s][x] /\ T.child[s][x] \in Node
    BY <1>2, <1>8, TreeFields
  <2>2. CASE x = g
    <3>1. T.child[s][g] = p \/ T.child[s][g] = u
      BY <1>1, Sides
    <3>2. R.color[T.child[s][g]] = "black"
      BY <1>8, <3>1
    <3> QED
      BY <2>1, <2>2, <3>2 DEF Color
  <2>3. CASE x # g
    <3>1. T.color[x] = "red"
      BY <1>8, <2>3
    <3>2. CASE T.child[s][x] = n
      BY <1>1, <1>8, <1>9, <1>10, <3>2 DEF InsertAt
    <3>3. CASE T.child[s][x] # n
      <4>1. Color(T, T.child[s][x]) = "black"
        BY <3>1, <3>3 DEF InsertAt, Balanced, NoRedRed
      <4> QED
        <5>1. CASE T.child[s][x] = Null
          BY <2>1, <5>1 DEF Color
        <5>2. CASE T.child[s][x] \in Keys
          <6>1. T.color[T.child[s][x]] = "black"
            BY <4>1, <5>2 DEF Color
          <6>2. R.color[T.child[s][x]] = "black"
            <7>1. T.color[p] = "red" /\ T.color[u] = "red"
              BY <1>1, <1>3 DEF Color
            <7>2. T.child[s][x] \in Keys \ {g, p, u}
              BY <2>1, <5>2, <6>1, <7>1
            <7> QED
              BY <1>8, <6>1, <7>2
          <6> QED
            BY <2>1, <5>2, <6>2 DEF Color
        <5> QED
          BY <2>1, <5>1, <5>2 DEF Node
    <3> QED
      BY <3>2, <3>3
  <2> QED
    BY <2>2, <2>3
<1>14. RootBlack(R, g, Null)
  <2>1. T.root # n
    BY <1>1, <1>2, <1>10 DEF Linked, InsertAt
  <2>2. T.root \in Node /\ (T.root = Null \/ T.color[T.root] = "black")
    BY <1>2, <2>1, TreeFields DEF InsertAt, Balanced, RootBlack
  <2> QED
    BY <1>8, <2>2 DEF RootBlack, Node
<1> QED
  BY <1>1, <1>7, <1>8, <1>10, <1>12, <1>13, <1>14 DEF InsertAt, Balanced

\* The links of a tree do not depend on its colors.
LEMMA RotatedLinks ==
    ASSUME NEW T, NEW P, SameLinks(T, P), NEW R, NEW p, NEW q, NEW side, Rotated(P, R, p, q, side)
    PROVE  Rotated(T, R, p, q, side)
BY DEF SameLinks, Rotated

\* An inner grandchild is rotated outwards: now its old parent is the red child of a red node.
LEMMA OutwardsInserts ==
    ASSUME NEW T, NEW B, NEW H, NEW n, InsertAt(T, B, H, n), RedParent(T, n),
           Color(T, Uncle(T, n)) = "black", Inner(T, n),
           NEW p, T.parent[n] = p, NEW R, Rotate(T, p, SideOf(T, p)) = R
    PROVE  /\ \E B2 : InsertAt(R, B2, H, p)
           /\ RedParent(R, p) /\ Color(R, Uncle(R, p)) = "black" /\ ~Inner(R, p)
<1> USE NullIsNoKey
<1> PICK g : T.parent[p] = g
  OBVIOUS
<1> PICK side : SideOf(T, p) = side
  OBVIOUS
<1> PICK u : Uncle(T, n) = u
  OBVIOUS
<1>0. /\ p \in Keys /\ g \in Keys /\ side \in Side /\ u \in Node
      /\ n # p /\ p # g /\ u \notin {n, p, g} /\ g # n
      /\ T.child[side][g] = p /\ T.child[Opposite(side)][g] = u
      /\ SideOf(T, n) \in Side /\ T.child[SideOf(T, n)][p] = n
  BY Grandparent
<1>1. /\ T.color[p] = "red" /\ T.color[g] = "black"
      /\ \A s \in Side : Color(T, T.child[s][n]) = "black"
      /\ \A s \in Side : T.child[s][p] # n => Color(T, T.child[s][p]) = "black"
  BY Grandparent
<1>14. H[n] \in Nat /\ H[p] = H[n] /\ H[g] = H[n] + 1 /\ Height(H, Null, u) = H[n]
  BY Grandparent
<1>2. /\ T \in Tree /\ Sound(T, B, Null) /\ Linked(T) /\ Shape(T, B) /\ n \in Keys
      /\ T.color[n] = "red" /\ Balanced(T, H, Null, n, Null)
  BY DEF InsertAt, Sound
<1>3. T.child[Opposite(side)][p] = n /\ T.parent[n] = p
  <2>1. SideOf(T, n) # side
    BY DEF Inner
  <2> QED
    BY <1>0, <2>1, Sides
<1>4. Rotated(T, R, p, n, side) /\ R.color = T.color
  <2>1. R = Rotate(T, p, side)
    OBVIOUS
  <2>2. p \in Keys /\ side \in Side /\ T.child[Opposite(side)][p] = n /\ n # Null
    BY <1>0, <1>2, <1>3
  <2>3. Rotated(T, Rotate(T, p, side), p, n, side) /\ Rotate(T, p, side).color = T.color
    BY <1>2, <2>2, RotateFields
  <2> QED
    BY <2>1, <2>3
<1> PICK B2 : Turned(T, B, p, n, side) = B2
  OBVIOUS
<1>5. Sound(R, B2, Null) /\ \A x \in Keys : Occupied(R, x) <=> Occupied(T, x)
  <2>1. /\ p \in Keys /\ side \in Side /\ T.child[Opposite(side)][p] = n /\ n # Null
        /\ p # Null
    BY <1>0, <1>2, <1>3
  <2>2. ASSUME NEW R2, Rotated(T, R2, p, n, side)
        PROVE  Sound(R2, B2, Null) /\ \A x \in Keys : Occupied(R2, x) <=> Occupied(T, x)
    <3>1. T \in Tree /\ Sound(T, B, Null) /\ n = T.child[Opposite(side)][p] /\ n # Null
      BY <1>2, <2>1
    <3>2. /\ Sound(R2, Turned(T, B, p, n, side), Null)
          /\ \A x \in Keys : Occupied(R2, x) <=> Occupied(T, x)
      BY <2>1, <2>2, <3>1, RotateSound
    <3> QED
      BY <3>2
  <2> QED
    BY <1>4, <2>2
<1>6. /\ H \in [Keys -> Nat]
      /\ \A x \in Keys, s \in Side : H[x] = Height(H, Null, T.child[s][x]) + Weight(T, Null, x)
  BY <1>2 DEF Balanced, Even
<1>7. HeightsTurned(T, R, H, H, Null, Null, Null, p, n, side, Null)
  <2>1. Weight(T, Null, p) = 0 /\ Weight(T, Null, n) = 0 /\ Weight(R, Null, p) = 0 /\ Weight(R, Null, n) = 0
    BY <1>1, <1>2, <1>4 DEF Weight
  <2>2. \A s \in Side : H[p] = Height(H, Null, T.child[s][p]) + 0 /\ H[n] = Height(H, Null, T.child[s][n]) + 0
    BY <1>0, <1>2, <1>6, <2>1
  <2>3. H[n] = H[p] /\ H[n] \in Nat
    BY <1>14
  <2>4. side \in Side /\ Opposite(side) \in Side
    BY <1>0, Sides
  <2> QED
    BY <1>0, <1>2, <1>6, <2>1, <2>2, <2>3, <2>4 DEF HeightsTurned
<1>8. ColorsTurned(T, R, n, p, p, n, side, Null)
  <2>1. Color(T, T.child[side][p]) = "black"
    <3>1. T.child[side][p] # n
      <4>1. Opposite(side) \in Side /\ Opposite(Opposite(side)) = side /\ T.child[Opposite(side)][p] # Null
        BY <1>0, <1>2, <1>3, Sides
      <4>2. T.child[Opposite(Opposite(side))][p] # T.child[Opposite(side)][p]
        BY <1>0, <1>2, <4>1, ChildFacts
      <4> QED
        BY <1>3, <4>1, <4>2
    <3> QED
      BY <1>0, <1>1, <3>1
  <2>2. \A c : Color(R, c) = Color(T, c)
    BY <1>4 DEF Color
  <2>3. Color(T, T.child[side][n]) = "black" /\ Color(T, T.child[Opposite(side)][n]) = "black"
    BY <1>0, <1>1, Sides
  <2>4. R.color = T.color /\ T.color[p] = T.color[n] /\ T.parent[n] = p /\ n # p /\ n \in Keys
    BY <1>0, <1>1, <1>2, <1>3, <1>4
  <2> QED
    BY <2>1, <2>2, <2>3, <2>4 DEF ColorsTurned
<1>9. Balanced(R, H, Null, p, Null)
  BY <1>0, <1>2, <1>3, <1>4, <1>7, <1>8, RotateBalanced
<1>10. R \in Tree /\ Linked(R) /\ Shape(R, B2) /\ Occupied(R, p)
  <2>1. Occupied(T, p)
    BY <1>0, <1>2 DEF Linked
  <2> QED
    BY <1>0, <1>4, <1>5, <2>1 DEF Rotated, Sound
<1>11. R.parent[p] = n /\ R.child[side][n] = p /\ R.parent[n] = g
       /\ R.child[side][g] = n /\ R.child[Opposite(side)][g] = u
  <2>1. Opposite(side) \in Side /\ g \in Keys \ {p, n}
    BY <1>0, Sides
  <2> QED
    BY <1>0, <1>4, <2>1 DEF Rotated
<1>12. SideOf(R, p) = side /\ SideOf(R, n) = side /\ Sibling(R, n) = u
  BY <1>0, <1>2, <1>10, <1>11, ChildFacts
<1>13. RedParent(R, p) /\ Color(R, Uncle(R, p)) = "black" /\ ~Inner(R, p)
  BY <1>2, <1>4, <1>11, <1>12 DEF RedParent, Uncle, Inner, Color
<1> QED
  BY <1>0, <1>1, <1>4, <1>5, <1>9, <1>10, <1>13 DEF InsertAt

\* The parent takes the place of the grandparent, and its color.
LEMMA UpwardsInserts ==
    ASSUME NEW T, NEW B, NEW H, NEW n, InsertAt(T, B, H, n), RedParent(T, n),
           Color(T, Uncle(T, n)) = "black", ~Inner(T, n),
           NEW R, R = Upwards(T, n)
    PROVE  \E B2, H2 : InsertAt(R, B2, H2, n)
<1> USE NullIsNoKey
<1> PICK p : T.parent[n] = p
  OBVIOUS
<1> PICK g : T.parent[p] = g
  OBVIOUS
<1> PICK side : SideOf(T, p) = side
  OBVIOUS
<1> PICK u : Uncle(T, n) = u
  OBVIOUS
<1> PICK o : Opposite(side) = o
  OBVIOUS
<1>1. /\ p \in Keys /\ g \in Keys /\ side \in Side /\ u \in Node
      /\ n # p /\ p # g /\ u \notin {n, p, g} /\ g # n
      /\ T.child[side][g] = p /\ T.child[Opposite(side)][g] = u
      /\ SideOf(T, n) \in Side /\ T.child[SideOf(T, n)][p] = n
      /\ T.color[p] = "red" /\ T.color[g] = "black"
      /\ H[n] \in Nat /\ H[p] = H[n] /\ H[g] = H[n] + 1 /\ Height(H, Null, u) = H[n]
  BY Grandparent
<1>0. \A s \in Side : T.child[s][p] # n => Color(T, T.child[s][p]) = "black"
  BY Grandparent
<1>2. /\ T \in Tree /\ Sound(T, B, Null) /\ Linked(T) /\ Shape(T, B) /\ n \in Keys
      /\ T.color[n] = "red" /\ Balanced(T, H, Null, n, Null) /\ Occupied(T, n)
  BY DEF InsertAt, Sound
<1>3. /\ o \in Side /\ o = Opposite(side) /\ Opposite(o) = side
      /\ T.child[side][p] = n /\ T.child[o][g] = u
  BY <1>1, Sides DEF Inner
<1> PICK P : Paint(Paint(T, p, "black"), g, "red") = P
  OBVIOUS
<1>4. PaintedTwo(T, P, p, "black", g, "red")
  BY <1>1, <1>2, PaintTwo
<1>5. P \in Tree /\ SameLinks(T, P) /\ Linked(P) /\ Shape(P, B) /\ P.child = T.child
  BY <1>2, <1>4, PaintSound DEF PaintedTwo, SameLinks, Sound
<1>6. R = Rotate(P, g, o)
  BY DEF Upwards
<1>7. Rotated(P, R, g, p, o) /\ R.color = P.color
  <2>1. g \in Keys /\ o \in Side /\ p = P.child[Opposite(o)][g] /\ p # Null
    BY <1>1, <1>3, <1>5
  <2> QED
    <3>1. P \in Tree /\ Linked(P) /\ Shape(P, B)
      BY <1>5
    <3>2. Rotated(P, Rotate(P, g, o), g, p, o) /\ Rotate(P, g, o).color = P.color
      BY <2>1, <3>1, RotateFields
    <3> QED
      BY <1>6, <3>2
<1>8. Rotated(T, R, g, p, o)
  BY <1>5, <1>7, RotatedLinks
<1>9. /\ R.color[p] = "black" /\ R.color[g] = "red"
      /\ \A x \in Keys \ {p, g} : R.color[x] = T.color[x]
  <2>1. \A x \in Keys : R.color[x] = IF x = g THEN "red" ELSE IF x = p THEN "black" ELSE T.color[x]
    BY <1>4, <1>7 DEF PaintedTwo
  <2>2. p \in Keys /\ g \in Keys /\ p # g
    BY <1>1
  <2> QED
    BY <2>1, <2>2
<1> PICK B2 : Turned(T, B, g, p, o) = B2
  OBVIOUS
<1>10. Sound(R, B2, Null) /\ \A x \in Keys : Occupied(R, x) <=> Occupied(T, x)
  BY <1>1, <1>2, <1>3, <1>8, RotateSound
<1> PICK H2 : [x \in Keys |-> IF x = p THEN H[n] + 1 ELSE IF x = g THEN H[n] ELSE H[x]] = H2
  OBVIOUS
<1>11. /\ H \in [Keys -> Nat]
       /\ \A x \in Keys, s \in Side : H[x] = Height(H, Null, T.child[s][x]) + Weight(T, Null, x)
  BY <1>2 DEF Balanced, Even
<1>12. H2 \in [Keys -> Nat] /\ H2[p] = H[n] + 1 /\ H2[g] = H[n] /\ \A x \in Keys \ {p, g} : H2[x] = H[x]
  BY <1>1, <1>11
<1> PICK inner : T.child[o][p] = inner
  OBVIOUS
<1>13. inner \in Node /\ inner \notin {p, g, n} /\ T.child[o][p] = inner
  <2>1. inner \in Node
    BY <1>1, <1>2, <1>3, TreeFields
  <2>2. inner # g
    <3>1. T.child[side][g] # Null
      BY <1>1
    <3>2. T.child[o][T.child[side][g]] # g
      <4>1. T \in Tree /\ Linked(T) /\ Shape(T, B) /\ g \in Keys /\ side \in Side /\ o \in Side
        BY <1>1, <1>2, <1>3
      <4> QED
        BY <3>1, <4>1, ChildFacts
    <3> QED
      BY <1>1, <3>2
  <2>3. inner # p
    <3>1. T.child[o][p] # Null => T.child[o][p] # p
      <4>1. T \in Tree /\ Linked(T) /\ Shape(T, B) /\ p \in Keys /\ o \in Side
        BY <1>1, <1>2, <1>3
      <4> QED
        BY <4>1, ChildFacts
    <3> QED
      BY <1>1, <3>1
  <2>4. inner # n
    <3>1. T.child[side][p] # Null
      BY <1>2, <1>3
    <3>2. T.child[Opposite(side)][p] # T.child[side][p]
      <4>1. T \in Tree /\ Linked(T) /\ Shape(T, B) /\ p \in Keys /\ side \in Side
        BY <1>1, <1>2
      <4> QED
        BY <3>1, <4>1, ChildFacts
    <3> QED
      BY <1>3, <3>2
  <2> QED
    BY <2>1, <2>2, <2>3, <2>4
<1>14. HeightsTurned(T, R, H, H2, Null, Null, Null, g, p, o, Null)
  <2>1. Weight(T, Null, p) = 0 /\ Weight(R, Null, p) = 1 /\ Weight(R, Null, g) = 0
    BY <1>1, <1>9 DEF Weight
  <2>2. Height(H, Null, inner) = H[n]
    <3>1. Height(H, Null, inner) \in Nat
      BY <1>11, <1>13 DEF Height, Node
    <3> QED
      <4>1. H[p] = Height(H, Null, T.child[o][p]) + Weight(T, Null, p)
        BY <1>1, <1>3, <1>11
      <4> QED
        <5>1. H[p] = H[n] /\ T.child[o][p] = inner
          BY <1>1, <1>13
        <5> QED
          BY <2>1, <3>1, <4>1, <5>1
  <2>3. Height(H2, Null, inner) = H[n] /\ Height(H2, Null, u) = H[n] /\ Height(H2, Null, n) = H[n]
    BY <1>1, <1>2, <1>12, <1>13, <2>2 DEF Height, Node
  <2>4. H2[g] = H[n] /\ H2[p] = H[n] + 1 /\ H[g] = H[n] + 1 /\ H[n] \in Nat
    BY <1>1, <1>12
  <2>5. /\ T.child[o][g] = u /\ T.child[o][p] = inner /\ T.child[Opposite(o)][p] = n
        /\ Null \notin {g, p} /\ Null # g
    BY <1>1, <1>3, <1>13
  <2> QED
    <3>1. /\ H2[p] = H[g]
          /\ H2[g] = Height(H2, Null, T.child[o][g]) + Weight(R, Null, g)
          /\ H2[g] = Height(H2, Null, T.child[o][p]) + Weight(R, Null, g)
          /\ H2[p] = H2[g] + Weight(R, Null, p)
          /\ H2[p] = Height(H2, Null, T.child[Opposite(o)][p]) + Weight(R, Null, p)
      <4>1. /\ Height(H2, Null, T.child[o][g]) = H[n]
            /\ Height(H2, Null, T.child[o][p]) = H[n]
            /\ Height(H2, Null, T.child[Opposite(o)][p]) = H[n]
        BY <2>3, <2>5
      <4> QED
        BY <2>1, <2>4, <4>1
    <3>2. H2 \in [Keys -> Nat] /\ \A x \in Keys \ {g, p, Null} : H2[x] = H[x]
      BY <1>12
    <3> QED
      BY <2>5, <3>1, <3>2 DEF HeightsTurned
<1>15. ColorsTurned(T, R, n, n, g, p, o, Null)
  <2>1. Color(R, u) = "black" /\ Color(R, inner) = "black"
    <3>1. Color(T, u) = "black"
      BY <1>3, <1>0
    <3>2. Color(T, inner) = "black"
      BY <1>3, <1>13, <1>0
    <3>3. u \in Node \ {p, g} /\ inner \in Node \ {p, g}
      BY <1>1, <1>13
    <3> QED
      BY <1>9, <3>1, <3>2, <3>3 DEF Color, Node
  <2> QED
    BY <1>1, <1>3, <1>9, <1>13, <2>1 DEF ColorsTurned
<1>16. Balanced(R, H2, Null, n, Null)
  BY <1>1, <1>2, <1>3, <1>8, <1>14, <1>15, RotateBalanced
<1> QED
  BY <1>1, <1>2, <1>7, <1>9, <1>10, <1>16 DEF InsertAt, Rotated

\* The root is painted black when the loop is over.
LEMMA RootPainted ==
    ASSUME NEW T, NEW B, NEW H, NEW n, InsertAt(T, B, H, n), ~RedParent(T, n),
           NEW R, R = Paint(T, T.root, "black")
    PROVE  R \in Tree /\ Sound(R, B, Null) /\ \E H2 : Balanced(R, H2, Null, Null, Null)
<1> USE NullIsNoKey
<1>1. T \in Tree /\ Sound(T, B, Null) /\ Linked(T) /\ Shape(T, B)
  BY DEF InsertAt, Sound
<1> PICK r : T.root = r
  OBVIOUS
<1>2. r \in Keys
  <2>1. r # Null
    BY <1>1 DEF InsertAt, Shape, Under
  <2> QED
    BY <1>1, <2>1, TreeFields DEF Node
<1>3. Painted(T, R, r, "black")
  BY <1>1, <1>2, PaintFields
<1>4. R \in Tree /\ Sound(R, B, Null)
  BY <1>1, <1>3, PaintSound DEF Painted, SameLinks
<1>5. /\ H \in [Keys -> Nat]
      /\ \A x \in Keys, s \in Side : H[x] = Height(H, Null, T.child[s][x]) + Weight(T, Null, x)
  BY DEF InsertAt, Balanced, Even
<1>6. \A x \in Keys, s \in Side : T.child[s][x] # Null => T.parent[T.child[s][x]] = x /\ T.child[s][x] # r
  BY <1>1, <1>2 DEF Linked
<1> PICK H2 : [H EXCEPT ![r] = IF T.color[r] = "black" THEN H[r] ELSE H[r] + 1] = H2
  OBVIOUS
<1>7. Even(R, H2, Null, Null)
  <2>1. H2 \in [Keys -> Nat]
    BY <1>2, <1>5
  <2> SUFFICES ASSUME NEW x \in Keys, NEW s \in Side
               PROVE  H2[x] = Height(H2, Null, R.child[s][x]) + Weight(R, Null, x)
    BY <2>1 DEF Even
  <2>2. R.child[s][x] = T.child[s][x] /\ T.child[s][x] \in Node
    BY <1>1, <1>3, TreeFields DEF Painted, SameLinks
  <2>3. Height(H2, Null, R.child[s][x]) = Height(H, Null, T.child[s][x]) /\ Height(H, Null, T.child[s][x]) \in Nat
    BY <1>5, <1>6, <2>2 DEF Height, Node
  <2>4. H[x] = Height(H, Null, T.child[s][x]) + Weight(T, Null, x)
    BY <1>5
  <2>5. R.color[x] = IF x = r THEN "black" ELSE T.color[x]
    BY <1>3 DEF Painted
  <2>6. H2[x] = IF x = r /\ T.color[r] # "black" THEN H[x] + 1 ELSE H[x]
    BY <1>5
  <2> QED
    BY <2>3, <2>4, <2>5, <2>6 DEF Weight
<1>8. NoRedRed(R, Null, Null)
  <2> SUFFICES ASSUME NEW x \in Keys, NEW s \in Side, R.color[x] = "red"
               PROVE  Color(R, T.child[s][x]) = "black"
    BY <1>3 DEF NoRedRed, Painted, SameLinks
  <2>1. T.color[x] = "red"
    BY <1>3 DEF Painted
  <2>2. T.child[s][x] # n
    BY <1>6, <2>1 DEF InsertAt, RedParent, Color
  <2>3. Color(T, T.child[s][x]) = "black" /\ T.child[s][x] \in Node
    BY <1>1, <2>1, <2>2, TreeFields DEF InsertAt, Balanced, NoRedRed
  <2> QED
    BY <1>3, <2>3 DEF Color, Painted, Node
<1>9. RootBlack(R, Null, Null)
  BY <1>2, <1>3 DEF RootBlack, Painted, SameLinks
<1> QED
  BY <1>4, <1>7, <1>8, <1>9 DEF Balanced

-----------------------------------------------------------------------------
(* Induction over the sets of keys below the nodes *)

SmallerSubset == StrictSubsetOrdering(Keys)

LEMMA SmallestSet ==
    ASSUME NEW S, S \subseteq SUBSET Keys, S # {}
    PROVE  \E X \in S : \A Y \in S : ~(Y \subseteq X /\ Y # X)
<1>1. IsWellFoundedOn(SmallerSubset, FiniteSubsetsOf(Keys))
  BY FS_StrictSubsetOrderingWellFounded DEF SmallerSubset
<1>2. FiniteSubsetsOf(Keys) = SUBSET Keys
  BY KeysAssumption, FS_FiniteSubsetsOfFinite
<1>3. \E X \in S : \A Y \in S : ~(<<Y, X>> \in SmallerSubset)
  BY <1>1, <1>2, WFMin
<1>4. \A X, Y \in SUBSET Keys : Y \subseteq X /\ Y # X => <<Y, X>> \in SmallerSubset
  BY DEF SmallerSubset, StrictSubsetOrdering
<1> QED
  BY <1>3, <1>4

\* Some node of any set has no child in the set.
LEMMA LowestNode ==
    ASSUME NEW T \in Tree, NEW B, Linked(T), Shape(T, B), NEW W, W \subseteq Keys, W # {}
    PROVE  \E n \in W : \A side \in Side : T.child[side][n] \notin W
<1> PICK S : {B[n] : n \in W} = S
  OBVIOUS
<1>1. S \subseteq SUBSET Keys /\ S # {}
  BY DEF Shape
<1>2. PICK X \in S : \A Y \in S : ~(Y \subseteq X /\ Y # X)
  BY <1>1, SmallestSet
<1>3. PICK n \in W : X = B[n]
  BY <1>2
<1>4. ASSUME NEW side \in Side, T.child[side][n] \in W
      PROVE  FALSE
  <2>1. B[T.child[side][n]] \subseteq B[n] /\ n \in B[n] /\ n \notin B[T.child[side][n]]
    BY <1>4, NullIsNoKey, ChildFacts
  <2>2. B[T.child[side][n]] \in S
    BY <1>4
  <2> QED
    BY <1>2, <1>3, <2>1, <2>2
<1> QED
  BY <1>4

\* Some node of any set has no parent in the set.
LEMMA HighestNode ==
    ASSUME NEW T \in Tree, NEW B, Linked(T), Shape(T, B), NEW W, W \subseteq Keys, W # {}
    PROVE  \E n \in W : T.parent[n] \notin W
<1> PICK S : {Keys \ B[n] : n \in W} = S
  OBVIOUS
<1>1. S \subseteq SUBSET Keys /\ S # {}
  OBVIOUS
<1>2. PICK X \in S : \A Y \in S : ~(Y \subseteq X /\ Y # X)
  BY <1>1, SmallestSet
<1>3. PICK n \in W : X = Keys \ B[n]
  BY <1>2
<1>4. ASSUME T.parent[n] \in W
      PROVE  FALSE
  <2>1. PICK p : p = T.parent[n]
    OBVIOUS
  <2>2. PICK side \in Side : T.child[side][p] = n
    BY <1>4, <2>1, NullIsNoKey DEF Linked
  <2>3. B[n] \subseteq B[p] /\ p \in B[p] /\ p \notin B[n] /\ p \in Keys
    BY <1>4, <2>1, <2>2, NullIsNoKey, ChildFacts
  <2>4. Keys \ B[p] \in S
    BY <1>4, <2>1
  <2> QED
    BY <1>2, <1>3, <2>3, <2>4
<1> QED
  BY <1>4

\* With a node, everything down to it is below its ancestors.
LEMMA UpwardClosed ==
    ASSUME NEW T \in Tree, NEW B, Linked(T), Shape(T, B), NEW c \in Keys, NEW x \in B[c], x # c
    PROVE  T.parent[x] \in B[c]
<1> DEFINE W == {n \in Keys : \E y \in B[n] : y # n /\ T.parent[y] \notin B[n]}
<1> SUFFICES ASSUME W # {}
             PROVE  FALSE
  OBVIOUS
<1>1. PICK n \in W : \A side \in Side : T.child[side][n] \notin W
  BY LowestNode
<1>2. PICK y \in B[n] : y # n /\ T.parent[y] \notin B[n]
  BY <1>1
<1>3. PICK side \in Side : y \in Under(B, T.child[side][n])
  BY <1>1, <1>2 DEF Shape, Side
<1>4. PICK m : m = T.child[side][n]
  OBVIOUS
<1>5. m # Null /\ y \in B[m]
  BY <1>3, <1>4 DEF Under
<1>6. m \in Keys /\ T.parent[m] = n /\ n \in B[n] /\ B[m] \subseteq B[n]
  BY <1>1, <1>4, <1>5, ChildFacts
<1>7. T.parent[y] \in B[m]
  BY <1>1, <1>2, <1>4, <1>5, <1>6
<1> QED
  BY <1>2, <1>6, <1>7

LEMMA Nested ==
    ASSUME NEW T \in Tree, NEW B, Linked(T), Shape(T, B), NEW c \in Keys, NEW x \in B[c]
    PROVE  x \in Keys /\ B[x] \subseteq B[c]
<1> DEFINE W == {n \in Keys : \E y \in B[n] : ~(B[y] \subseteq B[n])}
<1>0. x \in Keys
  BY DEF Shape
<1> SUFFICES ASSUME W # {}
             PROVE  FALSE
  BY <1>0
<1>1. PICK n \in W : \A side \in Side : T.child[side][n] \notin W
  BY LowestNode
<1>2. PICK y \in B[n] : ~(B[y] \subseteq B[n])
  BY <1>1
<1>3. PICK side \in Side : y \in Under(B, T.child[side][n])
  BY <1>1, <1>2 DEF Shape, Side
<1>4. PICK m : m = T.child[side][n]
  OBVIOUS
<1>5. m # Null /\ y \in B[m]
  BY <1>3, <1>4 DEF Under
<1>6. m \in Keys /\ B[m] \subseteq B[n]
  BY <1>1, <1>4, <1>5, ChildFacts
<1> QED
  BY <1>1, <1>2, <1>4, <1>5, <1>6

\* A node that is not in the tree has no links and is below no other.
LEMMA FreeFacts ==
    ASSUME NEW T \in Tree, NEW B, Linked(T), Shape(T, B), NEW k \in Keys, ~Occupied(T, k)
    PROVE  /\ T.parent[k] = Null /\ T.root # k
           /\ \A side \in Side : T.child[side][k] = Null
           /\ \A side \in Side, n \in Keys : T.child[side][n] # k
           /\ B[k] = {k}
           /\ \A n \in Keys : k \in B[n] => n = k
<1>1. T.parent[k] = Null /\ T.root # k
  BY DEF Occupied
<1>2. \A side \in Side : T.child[side][k] = Null
  BY DEF Linked
<1>3. ASSUME NEW side \in Side, NEW n \in Keys, T.child[side][n] = k
      PROVE  FALSE
  BY <1>1, <1>3, NullIsNoKey DEF Linked
<1>4. B[k] = {k}
  BY <1>2 DEF Shape, Under, Side
<1>5. ASSUME NEW n \in Keys, k \in B[n], n # k
      PROVE  FALSE
  <2>1. T.parent[k] \in B[n]
    BY <1>5, UpwardClosed
  <2> QED
    BY <1>1, <2>1, NullIsNoKey DEF Shape
<1> QED
  BY <1>1, <1>2, <1>3, <1>4, <1>5

-----------------------------------------------------------------------------
(* A new leaf *)

\* Key k, which is not in the tree, belongs under node p, on the side where p has no child.
LeafPlace(T, B, k, p, side) ==
    /\ p = Null => T.root = Null
    /\ p # Null =>
         /\ Occupied(T, p) /\ T.child[side][p] = Null /\ Before(side, k, p)
         /\ \A n \in Keys, s \in Side : p \in Under(B, T.child[s][n]) => Before(s, k, n)

Grown(T, R, k, p, side, d) ==
    /\ R \in Tree
    /\ R.root = IF p = Null THEN k ELSE T.root
    /\ \A s \in Side, x \in Keys : R.child[s][x] = IF s = side /\ x = p THEN k ELSE T.child[s][x]
    /\ \A x \in Keys :
         /\ R.parent[x] = IF x = k THEN p ELSE T.parent[x]
         /\ R.color[x] = IF x = k THEN "red" ELSE T.color[x]
         /\ R.data[x] = IF x = k THEN d ELSE T.data[x]

LEMMA NewLeafFields ==
    ASSUME NEW T \in Tree, NEW k \in Keys, NEW p \in Node, NEW d \in Data, NEW side \in Side,
           p # Null => side = IF p > k THEN "left" ELSE "right"
    PROVE  Grown(T, NewLeaf(T, k, p, d), k, p, side, d)
<1> USE NullIsNoKey
<1> PICK P : P = SetParent(T, k, p)
  OBVIOUS
<1> PICK Q : Q = Paint(P, k, "red")
  OBVIOUS
<1> PICK D : D = [Q EXCEPT !.data[k] = d]
  OBVIOUS
<1> PICK R : R = NewLeaf(T, k, p, d)
  OBVIOUS
<1>1. Reparented(T, P, k, p)
  BY SetParentFields DEF Node
<1>2. P \in Tree
  BY <1>1 DEF Reparented
<1>3. Painted(P, Q, k, "red")
  BY <1>2, PaintFields
<1>4. Q \in Tree
  BY <1>3 DEF Painted, SameLinks
<1>5. /\ D \in Tree /\ D.root = Q.root /\ D.child = Q.child /\ D.parent = Q.parent /\ D.color = Q.color
      /\ \A x \in Keys : D.data[x] = IF x = k THEN d ELSE Q.data[x]
  BY <1>4 DEF Tree
<1>6. R = IF p = Null THEN SetRoot(D, k) ELSE SetChild(D, p, IF p > k THEN "left" ELSE "right", k)
  BY DEF NewLeaf
<1>7. /\ D.root = T.root /\ D.child = T.child
      /\ \A x \in Keys : /\ D.parent[x] = IF x = k THEN p ELSE T.parent[x]
                         /\ D.color[x] = IF x = k THEN "red" ELSE T.color[x]
                         /\ D.data[x] = IF x = k THEN d ELSE T.data[x]
  BY <1>1, <1>3, <1>5 DEF Reparented, Painted, SameLinks
<1>8. CASE p = Null
  <2>1. Rooted(D, R, k)
    BY <1>5, <1>6, <1>8, SetRootFields DEF Node
  <2> QED
    BY <1>7, <1>8, <2>1 DEF Rooted, Grown
<1>9. CASE p # Null
  <2>1. Redirected(D, R, p, side, k)
    BY <1>5, <1>6, <1>9, SetChildFields DEF Node
  <2> QED
    BY <1>7, <1>9, <2>1 DEF Redirected, Grown
<1> QED
  BY <1>8, <1>9

\* The keys below the nodes with k under p.
WithLeaf(B, k, p) == [n \in Keys |-> IF n # k /\ p \in B[n] THEN B[n] \cup {k} ELSE B[n]]

LEMMA LeafSound ==
    ASSUME NEW T \in Tree, NEW B, Sound(T, B, Null), NEW k \in Keys, ~Occupied(T, k),
           NEW p \in Node, p # k, NEW side \in Side, LeafPlace(T, B, k, p, side),
           NEW d \in {k} \X Copies, NEW R, Grown(T, R, k, p, side, d)
    PROVE  Sound(R, WithLeaf(B, k, p), Null)
<1> USE NullIsNoKey
<1> PICK B2 : WithLeaf(B, k, p) = B2
  OBVIOUS
<1>1. Linked(T) /\ Shape(T, B) /\ B \in [Keys -> SUBSET Keys]
  BY DEF Sound, Shape
<1>2. /\ T.parent[k] = Null /\ T.root # k
      /\ \A s \in Side : T.child[s][k] = Null
      /\ \A s \in Side, n \in Keys : T.child[s][n] # k
      /\ B[k] = {k}
      /\ \A n \in Keys : k \in B[n] => n = k
  BY <1>1, FreeFacts
<1>3. \A s \in Side, n \in Keys : R.child[s][n] = IF s = side /\ n = p THEN k ELSE T.child[s][n]
  BY DEF Grown
<1>4. \A n \in Keys : R.parent[n] = IF n = k THEN p ELSE T.parent[n]
  BY DEF Grown
<1>5. R.root = IF p = Null THEN k ELSE T.root
  BY DEF Grown
<1>6. \A n \in Keys, s \in Side : T.child[s][n] \in Node
  BY TreeFields
<1>7. \A n \in Keys : B2[n] = IF n # k /\ p \in B[n] THEN B[n] \cup {k} ELSE B[n]
  BY DEF WithLeaf
<1>8. B2 \in [Keys -> SUBSET Keys]
  BY <1>1 DEF WithLeaf
<1>9. \A n \in Keys : T.root = Null => ~Occupied(T, n)
  BY <1>1 DEF Shape, Under
<1>10. p # Null => p \in Keys /\ Occupied(T, p) /\ T.root # Null
  BY <1>9 DEF Node, LeafPlace
<1>11. \A n \in Keys : Occupied(R, n) <=> n = k \/ Occupied(T, n)
  BY <1>2, <1>4, <1>5, <1>9, <1>10 DEF Occupied, LeafPlace
<1>12. Linked(R)
  <2>1. ASSUME NEW n \in Keys, NEW s \in Side, R.child[s][n] # Null
        PROVE  R.parent[R.child[s][n]] = n /\ Occupied(R, n)
    <3>1. CASE s = side /\ n = p
      BY <1>3, <1>4, <1>10, <1>11, <3>1
    <3>2. CASE ~(s = side /\ n = p)
      <4>1. R.child[s][n] = T.child[s][n] /\ T.child[s][n] \in Keys \ {k}
        BY <1>2, <1>3, <1>6, <2>1, <3>2 DEF Node
      <4>2. T.parent[T.child[s][n]] = n /\ Occupied(T, n)
        BY <1>1, <2>1, <4>1 DEF Linked
      <4> QED
        BY <1>4, <1>11, <4>1, <4>2
    <3> QED
      BY <3>1, <3>2
  <2>2. ASSUME NEW n \in Keys, R.parent[n] # Null
        PROVE  \E s \in Side : R.child[s][R.parent[n]] = n
    <3>1. CASE n = k
      BY <1>3, <1>4, <1>10, <2>2, <3>1
    <3>2. CASE n # k
      <4>1. R.parent[n] = T.parent[n] /\ T.parent[n] \in Keys
        BY <1>4, <2>2, <3>2, TreeFields DEF Node
      <4>2. PICK s \in Side : T.child[s][T.parent[n]] = n
        BY <1>1, <2>2, <4>1 DEF Linked
      <4>3. ~(s = side /\ T.parent[n] = p)
        BY <1>10, <4>1, <4>2 DEF LeafPlace
      <4> QED
        BY <1>3, <4>1, <4>2, <4>3
    <3> QED
      BY <3>1, <3>2
  <2>3. R.root # Null => R.parent[R.root] = Null
    <3>1. T.root # Null => T.parent[T.root] = Null /\ T.root \in Keys
      BY <1>1, TreeFields DEF Linked, Node
    <3> QED
      BY <1>2, <1>4, <1>5, <3>1
  <2> QED
    BY <2>1, <2>2, <2>3 DEF Linked
<1>13. ASSUME NEW n \in Keys, NEW s \in Side
       PROVE  Under(B2, R.child[s][n]) =
                 IF n = p /\ s = side THEN {k}
                 ELSE IF p \in Under(B, T.child[s][n]) THEN Under(B, T.child[s][n]) \cup {k}
                 ELSE Under(B, T.child[s][n])
  <2>1. CASE n = p /\ s = side
    <3>1. B2[k] = {k} /\ R.child[s][n] = k
      BY <1>2, <1>3, <1>7, <2>1
    <3> QED
      BY <2>1, <3>1 DEF Under
  <2>2. CASE ~(n = p /\ s = side) /\ T.child[s][n] = Null
    BY <1>3, <2>2 DEF Under
  <2>3. CASE ~(n = p /\ s = side) /\ T.child[s][n] # Null
    <3>1. T.child[s][n] \in Keys \ {k} /\ R.child[s][n] = T.child[s][n]
      BY <1>2, <1>3, <1>6, <2>3 DEF Node
    <3>2. B2[T.child[s][n]] = IF p \in B[T.child[s][n]] THEN B[T.child[s][n]] \cup {k} ELSE B[T.child[s][n]]
      BY <1>7, <3>1
    <3> QED
      BY <2>3, <3>1, <3>2 DEF Under
  <2> QED
    BY <2>1, <2>2, <2>3
<1>14. ASSUME NEW n \in Keys, NEW s \in Side
       PROVE  k \notin Under(B, T.child[s][n]) /\ (n = p => p \notin Under(B, T.child[s][n]))
  <2>1. k \notin Under(B, T.child[s][n])
    BY <1>2, <1>6 DEF Under, Node
  <2> QED
    BY <1>1, <2>1 DEF Shape, Side
<1>15. Shape(R, B2)
  <2>1. ASSUME NEW n \in Keys
        PROVE  /\ B2[n] = {n} \cup Under(B2, R.child["left"][n]) \cup Under(B2, R.child["right"][n])
               /\ n \notin Under(B2, R.child["left"][n])
               /\ n \notin Under(B2, R.child["right"][n])
               /\ Under(B2, R.child["left"][n]) \cap Under(B2, R.child["right"][n]) = {}
    <3> PICK L : Under(B, T.child["left"][n]) = L
      OBVIOUS
    <3> PICK G : Under(B, T.child["right"][n]) = G
      OBVIOUS
    <3>1. B[n] = {n} \cup L \cup G /\ n \notin L /\ n \notin G /\ L \cap G = {}
      BY <1>1 DEF Shape
    <3>2. k \notin L /\ k \notin G /\ (n = p => p \notin L /\ p \notin G)
      BY <1>14 DEF Side
    <3>3. /\ Under(B2, R.child["left"][n]) =
               IF n = p /\ side = "left" THEN {k} ELSE IF p \in L THEN L \cup {k} ELSE L
          /\ Under(B2, R.child["right"][n]) =
               IF n = p /\ side = "right" THEN {k} ELSE IF p \in G THEN G \cup {k} ELSE G
      BY <1>13 DEF Side
    <3>4. n = k => p \notin L /\ p \notin G
      BY <1>2 DEF Under, Side
    <3>5. n = p => IF side = "left" THEN L = {} ELSE G = {}
      BY <1>10 DEF LeafPlace, Under, Side
    <3>6. B2[n] = IF n # k /\ p \in B[n] THEN B[n] \cup {k} ELSE B[n]
      BY <1>7
    <3>7. CASE n = p
      BY <3>1, <3>2, <3>3, <3>5, <3>6, <3>7 DEF Side
    <3>8. CASE n = k
      BY <3>1, <3>3, <3>4, <3>6, <3>8
    <3>9. CASE n \notin {p, k}
      BY <3>1, <3>2, <3>3, <3>6, <3>9
    <3> QED
      BY <3>7, <3>8, <3>9
  <2>2. ASSUME NEW n \in Keys
        PROVE  Occupied(R, n) <=> n \in Under(B2, R.root)
    <3>1. T.root \in Node /\ (Occupied(T, n) <=> n \in Under(B, T.root))
      BY <1>1, TreeFields DEF Shape
    <3>2. CASE p = Null
      BY <1>2, <1>5, <1>7, <1>9, <1>11, <3>2 DEF LeafPlace, Under
    <3>3. CASE p # Null
      <4>1. T.root \in Keys /\ p \in B[T.root] /\ T.root # k
        BY <1>1, <1>2, <1>10, <3>1, <3>3 DEF Shape, Under, Node
      <4> QED
        BY <1>5, <1>7, <1>11, <3>1, <3>3, <4>1 DEF Under
    <3> QED
      BY <3>2, <3>3
  <2> QED
    BY <1>8, <2>1, <2>2 DEF Shape
<1>16. Ordered(R, B2, Null)
  <2> SUFFICES ASSUME NEW n \in Keys, NEW s \in Side, NEW m \in Under(B2, R.child[s][n])
               PROVE  Before(s, m, n)
    BY DEF Ordered
  <2>1. \A m2 \in Under(B, T.child[s][n]) : Before(s, m2, n)
    <3>1. Null \notin Under(B, T.child[s][n])
      BY <1>1, <1>6 DEF Under, Node
    <3> QED
      BY <3>1 DEF Sound, Ordered
  <2>2. CASE n = p /\ s = side
    BY <1>10, <1>13, <2>2 DEF LeafPlace
  <2>3. CASE ~(n = p /\ s = side) /\ m \in Under(B, T.child[s][n])
    BY <2>1, <2>3
  <2>4. CASE ~(n = p /\ s = side) /\ m \notin Under(B, T.child[s][n])
    <3>1. m = k /\ p \in Under(B, T.child[s][n])
      <4> PICK U : Under(B, T.child[s][n]) = U
        OBVIOUS
      <4>1. m \in IF p \in U THEN U \cup {k} ELSE U
        BY <1>13, <2>4
      <4> QED
        BY <2>4, <4>1
    <3>2. p # Null
      BY <1>1, <1>6, <3>1 DEF Under, Node
    <3> QED
      BY <3>1, <3>2 DEF LeafPlace
  <2> QED
    BY <2>2, <2>3, <2>4
<1>17. Stored(R)
  <2> SUFFICES ASSUME NEW n \in Keys
               PROVE  R.data[n] \in IF Occupied(R, n) THEN {n} \X Copies ELSE {NoData}
    BY DEF Stored
  <2>1. R.data[n] = IF n = k THEN d ELSE T.data[n]
    BY DEF Grown
  <2>2. T.data[n] \in IF Occupied(T, n) THEN {n} \X Copies ELSE {NoData}
    BY DEF Sound, Stored
  <2> QED
    BY <1>11, <2>1, <2>2
<1> QED
  BY <1>12, <1>15, <1>16, <1>17 DEF Sound

LEMMA LeafInserts ==
    ASSUME NEW T \in Tree, NEW B, Sound(T, B, Null), NEW k \in Keys, ~Occupied(T, k),
           NEW p \in Node, p # k, NEW side \in Side, LeafPlace(T, B, k, p, side),
           NEW d \in {k} \X Copies, NEW R, Grown(T, R, k, p, side, d),
           NEW H, Balanced(T, H, Null, Null, Null)
    PROVE  \E B2, H2 : InsertAt(R, B2, H2, k)
<1> USE NullIsNoKey
<1> PICK B2 : WithLeaf(B, k, p) = B2
  OBVIOUS
<1>1. Sound(R, B2, Null)
  BY LeafSound
<1>2. /\ T.parent[k] = Null /\ T.root # k
      /\ \A s \in Side : T.child[s][k] = Null
      /\ \A s \in Side, n \in Keys : T.child[s][n] # k
  BY FreeFacts DEF Sound
<1>3. /\ \A s \in Side, n \in Keys : R.child[s][n] = IF s = side /\ n = p THEN k ELSE T.child[s][n]
      /\ R.root = IF p = Null THEN k ELSE T.root
      /\ \A n \in Keys : R.color[n] = IF n = k THEN "red" ELSE T.color[n]
      /\ \A n \in Keys : R.parent[n] = IF n = k THEN p ELSE T.parent[n]
  BY DEF Grown
<1>4. \A n \in Keys, s \in Side : T.child[s][n] \in Node
  BY TreeFields
<1>5. /\ H \in [Keys -> Nat]
      /\ \A x \in Keys, s \in Side : H[x] = Height(H, Null, T.child[s][x]) + Weight(T, Null, x)
  BY DEF Balanced, Even
<1>6. p # Null => p \in Keys /\ T.child[side][p] = Null
  BY DEF Node, LeafPlace
<1> PICK H2 : [H EXCEPT ![k] = 0] = H2
  OBVIOUS
<1>7. H2 \in [Keys -> Nat] /\ H2[k] = 0 /\ \A x \in Keys \ {k} : H2[x] = H[x]
  BY <1>5
<1>8. Even(R, H2, Null, Null)
  <2> SUFFICES ASSUME NEW n \in Keys, NEW s \in Side
               PROVE  H2[n] = Height(H2, Null, R.child[s][n]) + Weight(R, Null, n)
    BY <1>7 DEF Even
  <2>1. CASE n = k
    BY <1>2, <1>3, <1>7, <2>1 DEF Height, Weight
  <2>2. CASE n # k
    <3>1. Height(H2, Null, R.child[s][n]) = Height(H, Null, T.child[s][n])
      BY <1>2, <1>3, <1>4, <1>6, <1>7 DEF Height, Node
    <3>2. Weight(R, Null, n) = Weight(T, Null, n)
      BY <1>3, <2>2 DEF Weight
    <3> QED
      BY <1>5, <1>7, <2>2, <3>1, <3>2
  <2> QED
    BY <2>1, <2>2
<1>9. NoRedRed(R, k, Null)
  <2> SUFFICES ASSUME NEW n \in Keys, NEW s \in Side, R.color[n] = "red", R.child[s][n] # k
               PROVE  Color(R, R.child[s][n]) = "black"
    BY DEF NoRedRed
  <2>1. R.child[s][n] = T.child[s][n]
    BY <1>3
  <2>2. CASE n = k
    BY <1>2, <2>1, <2>2 DEF Color
  <2>3. CASE n # k
    <3>1. T.color[n] = "red"
      BY <1>3, <2>3
    <3>2. Color(T, T.child[s][n]) = "black"
      <4>1. CASE T.child[s][n] = Null
        BY <4>1 DEF Color
      <4>2. CASE T.child[s][n] # Null
        BY <3>1, <4>2 DEF Balanced, NoRedRed
      <4> QED
        BY <4>1, <4>2
    <3> QED
      BY <1>2, <1>3, <1>4, <2>1, <3>2 DEF Color, Node
  <2> QED
    BY <2>2, <2>3
<1>10. RootBlack(R, k, Null)
  <2>1. T.root \in Node /\ (T.root = Null \/ T.color[T.root] = "black")
    BY TreeFields DEF Balanced, RootBlack
  <2> QED
    BY <1>2, <1>3, <2>1 DEF RootBlack, Node
<1>11. R \in Tree /\ Occupied(R, k)
  <2>1. R \in Tree
    BY DEF Grown
  <2>2. R.root = k \/ R.parent[k] # Null
    BY <1>3
  <2> QED
    BY <2>1, <2>2 DEF Occupied
<1> QED
  BY <1>1, <1>3, <1>8, <1>9, <1>10, <1>11 DEF InsertAt, Balanced

-----------------------------------------------------------------------------
(* Deletion *)

\* The doomed node has one child at most, whose color it has.
Bare(T, d) ==
    /\ Occupied(T, d)
    /\ \E side \in Side : T.child[side][d] = Null
    /\ OnlyChild(T, d) # Null => T.color[d] = T.color[OnlyChild(T, d)]

\* delete_case1 is called for node n.
DeleteAt(T, B, H, n, d) ==
    /\ T \in Tree /\ Sound(T, B, d) /\ Balanced(T, H, n, n, d)
    /\ n \in Keys /\ d \in Keys /\ d \in B[n] /\ Bare(T, d)
    /\ n # d => T.color[n] = "black"

\* Node d can be taken out.
SpliceAt(T, B, H, d) ==
    /\ T \in Tree /\ Sound(T, B, d) /\ Balanced(T, H, Null, Null, d)
    /\ d \in Keys /\ Bare(T, d)

LEMMA BareKept ==
    ASSUME NEW T \in Tree, NEW R, NEW d \in Keys, Bare(T, d), Occupied(R, d),
           \A z \in Side : R.child[z][d] = T.child[z][d],
           R.color[d] = T.color[d],
           \A z \in Side : T.child[z][d] # Null => R.color[T.child[z][d]] = T.color[T.child[z][d]]
    PROVE  Bare(R, d)
<1>1. OnlyChild(R, d) = OnlyChild(T, d)
  BY DEF OnlyChild, Side
<1>2. OnlyChild(T, d) # Null => R.color[OnlyChild(T, d)] = T.color[OnlyChild(T, d)]
  BY DEF OnlyChild, Side
<1> QED
  BY <1>1, <1>2 DEF Bare

\* The subtree of node n has one black node less than that of its sibling, which
\* therefore is a node.
LEMMA SiblingFacts ==
    ASSUME NEW T, NEW B, NEW H, NEW n, NEW d, DeleteAt(T, B, H, n, d), T.parent[n] # Null,
           NEW p, p = T.parent[n], NEW side, side = SideOf(T, n), NEW s, s = Sibling(T, n)
    PROVE  /\ p \in Keys /\ s \in Keys /\ side \in Side
           /\ T.child[side][p] = n /\ T.child[Opposite(side)][p] = s /\ T.parent[s] = p
           /\ n \notin {p, s} /\ p # s /\ Occupied(T, p) /\ Occupied(T, s) /\ Occupied(T, n)
           /\ \A z \in Side : T.child[z][s] \in Node /\ T.child[z][s] \notin {n, p, s, d}
           /\ d \notin {p, s} /\ d \in B[p] /\ T.root # d /\ T.root \notin {n, s} /\ T.parent[p] # d
           /\ H[n] \in Nat /\ H[p] = H[n] + 1 + Weight(T, d, p) /\ H[s] = H[n] + 1
           /\ \A z \in Side : Height(H, n, T.child[z][s]) + Weight(T, d, s) = H[n] + 1
<1> USE NullIsNoKey
<1> PICK o : o = Opposite(side)
  OBVIOUS
<1>1. /\ T \in Tree /\ Linked(T) /\ Shape(T, B) /\ n \in Keys /\ d \in Keys /\ d \in B[n]
      /\ Occupied(T, d)
  BY DEF DeleteAt, Sound, Bare
<1>2. p \in Keys /\ side \in Side /\ T.child[side][p] = n
  BY <1>1, ParentFacts
<1>3. o \in Side /\ o # side /\ Opposite(o) = side /\ \A z \in Side : z = side \/ z = o
  BY <1>2, Sides
<1>4. /\ n # p /\ Occupied(T, p) /\ Occupied(T, n) /\ T.child[o][p] = s /\ s # n
      /\ n \in B[n] /\ p \in B[p] /\ B[n] \subseteq B[p] /\ p \notin B[n]
      /\ B[n] \cap Under(B, s) = {}
  <2>1. T.child[side][p] # Null
    BY <1>1, <1>2
  <2>2. /\ n # p /\ Occupied(T, p) /\ Occupied(T, n)
        /\ T.child[Opposite(side)][p] # n /\ Sibling(T, n) = T.child[Opposite(side)][p]
        /\ n \in B[n] /\ p \in B[p] /\ B[n] \subseteq B[p] /\ p \notin B[n]
        /\ B[n] \cap Under(B, T.child[Opposite(side)][p]) = {}
    BY <1>1, <1>2, <2>1, ChildFacts
  <2> QED
    BY <2>2
<1>5. s \in Node
  BY <1>1, <1>2, <1>3, <1>4, TreeFields
<1>6. d # p /\ d \in B[p]
  BY <1>1, <1>4
<1>7. /\ H \in [Keys -> Nat]
      /\ \A x \in Keys, z \in Side : H[x] = Height(H, n, T.child[z][x]) + Weight(T, d, x)
  BY DEF DeleteAt, Balanced, Even
<1>8. H[n] \in Nat /\ H[p] = H[n] + 1 + Weight(T, d, p)
  BY <1>1, <1>2, <1>7 DEF Height
<1>9. Weight(T, d, p) \in Nat
  BY DEF Weight
<1>10. Height(H, n, s) = H[n] + 1
  <2>1. Height(H, n, s) \in Nat
    BY <1>5, <1>7 DEF Height, Node
  <2>2. H[p] = Height(H, n, s) + Weight(T, d, p)
    BY <1>2, <1>3, <1>4, <1>7
  <2> QED
    BY <1>8, <1>9, <2>1, <2>2
<1>11. s \in Keys /\ H[s] = H[n] + 1
  BY <1>4, <1>5, <1>8, <1>10 DEF Height, Node
<1>12. /\ T.parent[s] = p /\ s # p /\ Occupied(T, s) /\ s \in B[s] /\ p \notin B[s]
       /\ \A z \in Side : T.child[z][s] # p /\ T.child[z][s] # s
  BY <1>1, <1>2, <1>3, <1>4, <1>11, ChildFacts
<1>13. d # s
  BY <1>1, <1>4, <1>11, <1>12 DEF Under
<1>14. ASSUME NEW z \in Side
       PROVE  T.child[z][s] \in Node /\ T.child[z][s] \notin {n, d}
  <2>1. T.child[z][s] \in Node
    BY <1>1, <1>11, TreeFields
  <2>2. T.child[z][s] # Null => T.child[z][s] \in B[T.child[z][s]] /\ B[T.child[z][s]] \subseteq B[s]
    BY <1>1, <1>11, ChildFacts
  <2> QED
    BY <1>1, <1>4, <1>11, <2>1, <2>2 DEF Under
<1>15. d # n => T.parent[d] \in B[n]
  BY <1>1, UpwardClosed
<1>16. T.root # d /\ T.root \notin {n, s}
  <2>1. T.root # Null => T.parent[T.root] = Null
    BY <1>1 DEF Linked
  <2>2. Null \notin B[n]
    BY <1>1 DEF Shape
  <2> QED
    BY <1>1, <1>2, <1>11, <1>12, <1>15, <2>1, <2>2
<1>17. T.parent[p] # d
  <2>1. ASSUME T.parent[p] = d
        PROVE  FALSE
    <3>1. \E z \in Side : T.child[z][d] = p
      BY <1>1, <1>2, <2>1 DEF Linked
    <3>2. B[p] \subseteq B[d]
      BY <1>1, <1>2, <3>1, ChildFacts
    <3>3. B[d] \subseteq B[n]
      BY <1>1, Nested
    <3> QED
      BY <1>4, <3>2, <3>3
  <2> QED
    BY <2>1
<1>18. \A z \in Side : Height(H, n, T.child[z][s]) + Weight(T, d, s) = H[n] + 1
  BY <1>7, <1>11
<1> QED
  BY <1>2, <1>4, <1>6, <1>8, <1>11, <1>12, <1>13, <1>14, <1>16, <1>17, <1>18

\* A rotation of the parent or of the sibling leaves the doomed node alone.
LEMMA RotateBare ==
    ASSUME NEW T \in Tree, NEW B, NEW d \in Keys, Sound(T, B, d), Bare(T, d),
           NEW p \in Keys, NEW q \in Keys, NEW side \in Side,
           q = T.child[Opposite(side)][p], p # d, q # d, T.parent[p] # d,
           NEW R, Rotated(T, R, p, q, side),
           \A x \in Keys : x = d \/ T.parent[x] = d => R.color[x] = T.color[x]
    PROVE  Bare(R, d)
<1> USE NullIsNoKey
<1>1. \A x \in Keys, z \in Side : T.child[z][x] # Null => T.parent[T.child[z][x]] = x
  BY DEF Sound, Linked
<1>2. Occupied(R, d)
  BY RotateSound DEF Bare
<1>3. \A z \in Side : R.child[z][d] = T.child[z][d]
  <2>1. \A z \in Side : T.child[z][d] # p
    BY <1>1
  <2> QED
    BY <2>1 DEF Rotated
<1>4. \A z \in Side : T.child[z][d] # Null => R.color[T.child[z][d]] = T.color[T.child[z][d]]
  BY <1>1, TreeFields DEF Node
<1> QED
  BY <1>2, <1>3, <1>4, BareKept

-----------------------------------------------------------------------------
(* delete_case1 to delete_case6 *)

\* delete_case2
LEMMA RedSiblingDeletes ==
    ASSUME NEW T, NEW B, NEW H, NEW n, NEW d, DeleteAt(T, B, H, n, d), T.parent[n] # Null,
           Color(T, Sibling(T, n)) = "red", NEW p, T.parent[n] = p,
           NEW R, R = RedSibling(T, n)
    PROVE  /\ \E B2, H2 : DeleteAt(R, B2, H2, n, d)
           /\ R.parent[n] = p /\ Color(R, Sibling(R, n)) = "black"
<1> USE NullIsNoKey
<1> PICK side : side = SideOf(T, n)
  OBVIOUS
<1> PICK s : s = Sibling(T, n)
  OBVIOUS
<1> PICK o : o = Opposite(side)
  OBVIOUS
<1>1. /\ p \in Keys /\ s \in Keys /\ side \in Side
      /\ T.child[side][p] = n /\ T.child[Opposite(side)][p] = s /\ T.parent[s] = p
      /\ n \notin {p, s} /\ p # s /\ Occupied(T, p) /\ Occupied(T, s) /\ Occupied(T, n)
      /\ d \notin {p, s} /\ d \in B[p] /\ T.root # d /\ T.root \notin {n, s} /\ T.parent[p] # d
  BY SiblingFacts
<1>2. /\ \A z \in Side : T.child[z][s] \in Node /\ T.child[z][s] \notin {n, p, s, d}
      /\ H[n] \in Nat /\ H[p] = H[n] + 1 + Weight(T, d, p) /\ H[s] = H[n] + 1
      /\ \A z \in Side : Height(H, n, T.child[z][s]) + Weight(T, d, s) = H[n] + 1
  BY SiblingFacts
<1>3. /\ T \in Tree /\ Linked(T) /\ Shape(T, B) /\ Sound(T, B, d) /\ Balanced(T, H, n, n, d)
      /\ n \in Keys /\ d \in Keys /\ d \in B[n] /\ Bare(T, d) /\ (n # d => T.color[n] = "black")
  BY DEF DeleteAt, Sound
<1>4. o \in Side /\ Opposite(o) = side /\ o # side /\ T.child[o][p] = s
  BY <1>1, Sides
<1>5. T.color[s] = "red"
  BY <1>1 DEF Color
<1>6. NoRedRed(T, n, d)
  BY <1>3 DEF Balanced
<1>7. T.color[p] = "black"
  <2>1. T.color[p] # "red"
    BY <1>1, <1>4, <1>5, <1>6 DEF NoRedRed, Color
  <2> QED
    BY <1>1, <1>3, <2>1, TreeFields
<1>8. \A z \in Side : Color(T, T.child[z][s]) = "black"
  <2>1. \A z \in Side : T.child[z][s] # n
    BY <1>2
  <2> QED
    BY <1>1, <1>5, <1>6, <2>1 DEF NoRedRed
<1> PICK P : P = Paint(Paint(T, p, "red"), s, "black")
  OBVIOUS
<1>9. PaintedTwo(T, P, p, "red", s, "black")
  BY <1>1, <1>3, PaintTwo
<1>10. P \in Tree /\ SameLinks(T, P) /\ Linked(P) /\ Shape(P, B) /\ P.child = T.child
  BY <1>3, <1>9, PaintSound DEF PaintedTwo, SameLinks, Sound
<1>11. R = Rotate(P, p, side)
  BY DEF RedSibling
<1>12. Rotated(P, R, p, s, side) /\ R.color = P.color
  BY <1>1, <1>4, <1>10, <1>11, RotateFields
<1>13. Rotated(T, R, p, s, side)
  BY <1>10, <1>12, RotatedLinks
<1>14. R.color[p] = "red" /\ R.color[s] = "black" /\ \A x \in Keys \ {p, s} : R.color[x] = T.color[x]
  BY <1>1, <1>9, <1>12 DEF PaintedTwo
<1> PICK B2 : Turned(T, B, p, s, side) = B2
  OBVIOUS
<1>15. Sound(R, B2, d) /\ \A x \in Keys : Occupied(R, x) <=> Occupied(T, x)
  BY <1>1, <1>3, <1>13, RotateSound
<1>16. B2[n] = B[n]
  BY <1>1, <1>3 DEF Turned
<1>17. Bare(R, d)
  <2>1. \A x \in Keys : x = d \/ T.parent[x] = d => R.color[x] = T.color[x]
    BY <1>1, <1>14
  <2> QED
    BY <1>1, <1>3, <1>13, <2>1, RotateBare
<1>18. H \in [Keys -> Nat]
  BY <1>3 DEF Balanced, Even
<1> PICK H2 : [H EXCEPT ![s] = H[n] + 2, ![p] = H[n] + 1] = H2
  OBVIOUS
<1>19. H2 \in [Keys -> Nat] /\ H2[s] = H[n] + 2 /\ H2[p] = H[n] + 1 /\ \A x \in Keys \ {p, s} : H2[x] = H[x]
  BY <1>1, <1>2, <1>18
<1>20. HeightsTurned(T, R, H, H2, n, n, d, p, s, side, Null)
  <2>1. Weight(R, d, p) = 0 /\ Weight(R, d, s) = 1 /\ Weight(T, d, s) = 0 /\ Weight(T, d, p) = 1
    BY <1>1, <1>5, <1>7, <1>14 DEF Weight
  <2>2. \A z \in Side : Height(H2, n, T.child[z][s]) = Height(H, n, T.child[z][s])
    BY <1>2, <1>19 DEF Height, Node
  <2>3. \A z \in Side : Height(H2, n, T.child[z][s]) = H[n] + 1
    <3>1. \A z \in Side : Height(H, n, T.child[z][s]) \in Nat
      BY <1>2, <1>18 DEF Height, Node
    <3> QED
      BY <1>2, <2>1, <2>2, <3>1
  <2>4. Height(H2, n, T.child[side][p]) = H[n] + 1
    BY <1>1, <1>3, <1>19 DEF Height
  <2>5. Null \notin {p, s} /\ n \notin {p, s} /\ Null # n
    BY <1>1, <1>3
  <2>6. H2[p] = H[n] + 1 /\ H2[s] = H[n] + 2 /\ H[p] = H[n] + 2 /\ H[n] \in Nat
    BY <1>2, <1>19, <2>1
  <2> QED
    BY <1>1, <1>4, <1>19, <2>1, <2>3, <2>4, <2>5, <2>6 DEF HeightsTurned
<1>21. ColorsTurned(T, R, n, n, p, s, side, Null)
  <2>1. Color(R, T.child[side][s]) = "black"
    BY <1>1, <1>2, <1>8, <1>14 DEF Color, Node
  <2> QED
    BY <1>1, <1>7, <1>14, <2>1 DEF ColorsTurned
<1>22. Balanced(R, H2, n, n, d)
  <2>1. p # d /\ s # d /\ s # Null /\ T.child[Opposite(side)][p] = s
    BY <1>1
  <2> QED
    BY <1>1, <1>3, <1>13, <1>20, <1>21, <2>1, RotateBalanced
<1>23. DeleteAt(R, B2, H2, n, d)
  BY <1>1, <1>3, <1>13, <1>14, <1>15, <1>16, <1>17, <1>22 DEF DeleteAt, Rotated
<1>24. R.parent[n] = p
  BY <1>1, <1>2, <1>3, <1>13 DEF Rotated
<1>25. Color(R, Sibling(R, n)) = "black"
  <2>1. R.child[side][p] = n /\ R.child[o][p] = T.child[side][s]
    BY <1>1, <1>13 DEF Rotated
  <2>2. Sibling(R, R.child[side][p]) = R.child[o][p]
    <3>1. R \in Tree /\ Linked(R) /\ Shape(R, B2) /\ R.child[side][p] # Null
      BY <1>3, <1>13, <1>15, <2>1 DEF Sound, Rotated
    <3>2. Sibling(R, R.child[side][p]) = R.child[Opposite(side)][p]
      BY <1>1, <3>1, ChildFacts
    <3> QED
      BY <3>2
  <2>3. T.child[side][s] \in Node \ {p, s} /\ Color(T, T.child[side][s]) = "black"
    BY <1>1, <1>2, <1>8
  <2> QED
    BY <1>14, <2>1, <2>2, <2>3 DEF Color, Node
<1> QED
  BY <1>23, <1>24, <1>25

\* delete_case3
LEMMA BlackParentDeletes ==
    ASSUME NEW T, NEW B, NEW H, NEW n, NEW d, DeleteAt(T, B, H, n, d), T.parent[n] # Null,
           NEW s, Sibling(T, n) = s, AllBlack(T, s), NEW p, T.parent[n] = p, Color(T, p) = "black",
           NEW R, Paint(T, s, "red") = R
    PROVE  \E H2 : DeleteAt(R, B, H2, p, d)
<1> USE NullIsNoKey
<1> PICK side : side = SideOf(T, n)
  OBVIOUS
<1>1. /\ p \in Keys /\ s \in Keys /\ side \in Side
      /\ T.child[side][p] = n /\ T.child[Opposite(side)][p] = s /\ T.parent[s] = p
      /\ n \notin {p, s} /\ p # s /\ Occupied(T, p) /\ Occupied(T, s) /\ Occupied(T, n)
      /\ d \notin {p, s} /\ d \in B[p] /\ T.root # d /\ T.root \notin {n, s} /\ T.parent[p] # d
  BY SiblingFacts
<1>2. /\ \A z \in Side : T.child[z][s] \in Node /\ T.child[z][s] \notin {n, p, s, d}
      /\ H[n] \in Nat /\ H[p] = H[n] + 1 + Weight(T, d, p) /\ H[s] = H[n] + 1
      /\ \A z \in Side : Height(H, n, T.child[z][s]) + Weight(T, d, s) = H[n] + 1
  BY SiblingFacts
<1>3. /\ T \in Tree /\ Linked(T) /\ Shape(T, B) /\ Sound(T, B, d) /\ Balanced(T, H, n, n, d)
      /\ n \in Keys /\ d \in Keys /\ d \in B[n] /\ Bare(T, d) /\ (n # d => T.color[n] = "black")
  BY DEF DeleteAt, Sound
<1>4. T.color[p] = "black" /\ T.color[s] = "black" /\ \A z \in Side : Color(T, T.child[z][s]) = "black"
  BY <1>1 DEF Color, AllBlack, Side
<1>5. Painted(T, R, s, "red")
  BY <1>1, <1>3, PaintFields
<1>6. /\ R \in Tree /\ SameLinks(T, R) /\ R.child = T.child /\ R.root = T.root
      /\ R.color[s] = "red" /\ \A x \in Keys \ {s} : R.color[x] = T.color[x]
  BY <1>1, <1>5 DEF Painted, SameLinks
<1>7. Sound(R, B, d) /\ \A x \in Keys : Occupied(R, x) <=> Occupied(T, x)
  BY <1>3, <1>6, PaintSound
<1>8. \A x \in Keys, z \in Side : T.child[z][x] # Null => T.parent[T.child[z][x]] = x
  BY <1>3 DEF Linked
<1>9. Bare(R, d)
  <2>1. \A z \in Side : T.child[z][d] # Null => T.child[z][d] \in Keys \ {s}
    BY <1>1, <1>3, <1>8, TreeFields DEF Node
  <2> QED
    BY <1>1, <1>3, <1>6, <1>7, <2>1, BareKept DEF Bare
<1>10. /\ H \in [Keys -> Nat]
       /\ \A x \in Keys, z \in Side : H[x] = Height(H, n, T.child[z][x]) + Weight(T, d, x)
  BY <1>3 DEF Balanced, Even
<1> PICK H2 : [H EXCEPT ![s] = H[n], ![p] = H[n] + 1] = H2
  OBVIOUS
<1>11. H2 \in [Keys -> Nat] /\ H2[s] = H[n] /\ H2[p] = H[n] + 1 /\ \A x \in Keys \ {p, s} : H2[x] = H[x]
  BY <1>1, <1>2, <1>10
<1>12. Weight(T, d, s) = 1 /\ Weight(R, d, s) = 0 /\ Weight(T, d, p) = 1 /\ Weight(R, d, p) = 1
  BY <1>1, <1>4, <1>6 DEF Weight
<1>13. Even(R, H2, p, d)
  <2> SUFFICES ASSUME NEW x \in Keys, NEW z \in Side
               PROVE  H2[x] = Height(H2, p, T.child[z][x]) + Weight(R, d, x)
    BY <1>6, <1>11 DEF Even
  <2>0. T.child[z][x] \in Node
    BY <1>3, TreeFields
  <2>1. CASE x = p
    <3>1. T.child[z][p] = n \/ T.child[z][p] = s
      BY <1>1, Sides
    <3>2. Height(H2, p, T.child[z][p]) = H[n]
      BY <1>1, <1>3, <1>11, <3>1 DEF Height
    <3> QED
      BY <1>2, <1>11, <1>12, <2>1, <3>2
  <2>2. CASE x = s
    <3>1. Height(H2, p, T.child[z][s]) = Height(H, n, T.child[z][s])
      BY <1>2, <1>11 DEF Height, Node
    <3>2. Height(H, n, T.child[z][s]) \in Nat
      BY <1>2, <1>10 DEF Height, Node
    <3>3. Height(H, n, T.child[z][s]) + 1 = H[n] + 1
      BY <1>2, <1>12
    <3> QED
      BY <1>2, <1>11, <1>12, <2>2, <3>1, <3>2, <3>3
  <2>3. CASE x \notin {p, s}
    <3>1. T.child[z][x] = Null \/ T.child[z][x] \notin {n, s}
      BY <1>8, <1>1, <2>3
    <3>2. H2[x] = H[x] /\ Weight(R, d, x) = Weight(T, d, x)
      BY <1>6, <1>11, <2>3 DEF Weight
    <3>3. Height(H2, p, T.child[z][x]) = Height(H, n, T.child[z][x])
      <4>1. CASE T.child[z][x] = p
        <5>1. Height(H2, p, p) = H2[p] + 1 /\ Height(H, n, p) = H[p]
          BY <1>1 DEF Height
        <5> QED
          BY <1>2, <1>11, <1>12, <4>1, <5>1
      <4>2. CASE T.child[z][x] # p
        BY <1>1, <1>11, <2>0, <3>1, <4>2 DEF Height, Node
      <4> QED
        BY <4>1, <4>2
    <3> QED
      BY <1>10, <3>2, <3>3
  <2> QED
    BY <2>1, <2>2, <2>3
<1>14. NoRedRed(R, p, d)
  <2> SUFFICES ASSUME NEW x \in Keys \ {d}, NEW z \in Side, R.color[x] = "red", T.child[z][x] # p
               PROVE  Color(R, T.child[z][x]) = "black"
    BY <1>6 DEF NoRedRed
  <2>0. T.child[z][x] \in Node
    BY <1>3, TreeFields
  <2>1. CASE x = s
    BY <1>2, <1>4, <1>6, <2>0, <2>1 DEF Color, Node
  <2>2. CASE x # s
    <3>1. T.color[x] = "red" /\ x # p
      BY <1>4, <1>6, <2>2
    <3>2. T.child[z][x] = Null \/ T.child[z][x] \notin {n, s}
      BY <1>1, <1>8, <3>1
    <3>3. Color(T, T.child[z][x]) = "black"
      <4>1. CASE T.child[z][x] = Null
        BY <4>1 DEF Color
      <4>2. CASE T.child[z][x] # n
        BY <1>3, <3>1, <4>2 DEF Balanced, NoRedRed
      <4> QED
        BY <3>2, <4>1, <4>2
    <3> QED
      BY <1>6, <2>0, <3>2, <3>3 DEF Color, Node
  <2> QED
    BY <2>1, <2>2
<1>15. RootBlack(R, p, d)
  <2>1. T.root \in Node /\ (T.root = Null \/ T.color[T.root] = "black")
    BY <1>1, <1>3, TreeFields DEF Balanced, RootBlack
  <2> QED
    BY <1>1, <1>6, <2>1 DEF RootBlack, Node
<1>16. Balanced(R, H2, p, p, d)
  BY <1>13, <1>14, <1>15 DEF Balanced
<1> QED
  BY <1>1, <1>3, <1>4, <1>6, <1>7, <1>9, <1>16 DEF DeleteAt

\* delete_case4
LEMMA RedParentDeletes ==
    ASSUME NEW T, NEW B, NEW H, NEW n, NEW d, DeleteAt(T, B, H, n, d), T.parent[n] # Null,
           NEW s, Sibling(T, n) = s, AllBlack(T, s), NEW p, T.parent[n] = p, Color(T, p) # "black",
           NEW R, Paint(Paint(T, s, "red"), p, "black") = R
    PROVE  \E H2 : SpliceAt(R, B, H2, d)
<1> USE NullIsNoKey
<1> PICK side : side = SideOf(T, n)
  OBVIOUS
<1>1. /\ p \in Keys /\ s \in Keys /\ side \in Side
      /\ T.child[side][p] = n /\ T.child[Opposite(side)][p] = s /\ T.parent[s] = p
      /\ n \notin {p, s} /\ p # s /\ Occupied(T, p) /\ Occupied(T, s) /\ Occupied(T, n)
      /\ d \notin {p, s} /\ d \in B[p] /\ T.root # d /\ T.root \notin {n, s} /\ T.parent[p] # d
  BY SiblingFacts
<1>2. /\ \A z \in Side : T.child[z][s] \in Node /\ T.child[z][s] \notin {n, p, s, d}
      /\ H[n] \in Nat /\ H[p] = H[n] + 1 + Weight(T, d, p) /\ H[s] = H[n] + 1
      /\ \A z \in Side : Height(H, n, T.child[z][s]) + Weight(T, d, s) = H[n] + 1
  BY SiblingFacts
<1>3. /\ T \in Tree /\ Linked(T) /\ Shape(T, B) /\ Sound(T, B, d) /\ Balanced(T, H, n, n, d)
      /\ n \in Keys /\ d \in Keys /\ d \in B[n] /\ Bare(T, d)
  BY DEF DeleteAt, Sound
<1>4. T.color[p] # "black" /\ T.color[s] = "black" /\ \A z \in Side : Color(T, T.child[z][s]) = "black"
  BY <1>1 DEF Color, AllBlack, Side
<1>5. PaintedTwo(T, R, s, "red", p, "black")
  BY <1>1, <1>3, PaintTwo
<1>6. /\ R \in Tree /\ SameLinks(T, R) /\ R.child = T.child /\ R.root = T.root
      /\ R.color[s] = "red" /\ R.color[p] = "black" /\ \A x \in Keys \ {s, p} : R.color[x] = T.color[x]
  BY <1>1, <1>5 DEF PaintedTwo, SameLinks
<1>7. Sound(R, B, d) /\ \A x \in Keys : Occupied(R, x) <=> Occupied(T, x)
  BY <1>3, <1>6, PaintSound
<1>8. \A x \in Keys, z \in Side : T.child[z][x] # Null => T.parent[T.child[z][x]] = x
  BY <1>3 DEF Linked
<1>9. Bare(R, d)
  <2>1. \A z \in Side : T.child[z][d] # Null => T.child[z][d] \in Keys \ {s, p}
    BY <1>1, <1>3, <1>8, TreeFields DEF Node
  <2> QED
    BY <1>1, <1>3, <1>6, <1>7, <2>1, BareKept DEF Bare
<1>10. /\ H \in [Keys -> Nat]
       /\ \A x \in Keys, z \in Side : H[x] = Height(H, n, T.child[z][x]) + Weight(T, d, x)
  BY <1>3 DEF Balanced, Even
<1> PICK H2 : [H EXCEPT ![s] = H[n]] = H2
  OBVIOUS
<1>11. H2 \in [Keys -> Nat] /\ H2[s] = H[n] /\ \A x \in Keys \ {s} : H2[x] = H[x]
  BY <1>1, <1>2, <1>10
<1>12. Weight(T, d, s) = 1 /\ Weight(R, d, s) = 0 /\ Weight(T, d, p) = 0 /\ Weight(R, d, p) = 1
  BY <1>1, <1>4, <1>6 DEF Weight
<1>13. Even(R, H2, Null, d)
  <2> SUFFICES ASSUME NEW x \in Keys, NEW z \in Side
               PROVE  H2[x] = Height(H2, Null, T.child[z][x]) + Weight(R, d, x)
    BY <1>6, <1>11 DEF Even
  <2>0. T.child[z][x] \in Node
    BY <1>3, TreeFields
  <2>1. CASE x = p
    <3>1. T.child[z][p] = n \/ T.child[z][p] = s
      BY <1>1, Sides
    <3>2. Height(H2, Null, T.child[z][p]) = H[n]
      BY <1>1, <1>3, <1>11, <3>1 DEF Height
    <3> QED
      BY <1>1, <1>2, <1>11, <1>12, <2>1, <3>2
  <2>2. CASE x = s
    <3>1. Height(H2, Null, T.child[z][s]) = Height(H, n, T.child[z][s])
      BY <1>2, <1>11 DEF Height, Node
    <3>2. Height(H, n, T.child[z][s]) \in Nat
      BY <1>2, <1>10 DEF Height, Node
    <3>3. Height(H, n, T.child[z][s]) + 1 = H[n] + 1
      BY <1>2, <1>12
    <3> QED
      BY <1>2, <1>11, <1>12, <2>2, <3>1, <3>2, <3>3
  <2>3. CASE x \notin {p, s}
    <3>1. T.child[z][x] = Null \/ T.child[z][x] \notin {n, s}
      BY <1>8, <1>1, <2>3
    <3>2. H2[x] = H[x] /\ Weight(R, d, x) = Weight(T, d, x)
      BY <1>6, <1>11, <2>3 DEF Weight
    <3>3. Height(H2, Null, T.child[z][x]) = Height(H, n, T.child[z][x])
      BY <1>11, <2>0, <3>1 DEF Height, Node
    <3> QED
      BY <1>10, <3>2, <3>3
  <2> QED
    BY <2>1, <2>2, <2>3
<1>14. NoRedRed(R, Null, d)
  <2> SUFFICES ASSUME NEW x \in Keys \ {d}, NEW z \in Side, R.color[x] = "red"
               PROVE  Color(R, T.child[z][x]) = "black"
    BY <1>6 DEF NoRedRed
  <2>0. T.child[z][x] \in Node
    BY <1>3, TreeFields
  <2>1. CASE x = s
    BY <1>2, <1>4, <1>6, <2>0, <2>1 DEF Color, Node
  <2>2. CASE x # s
    <3>1. T.color[x] = "red" /\ x # p
      BY <1>6, <2>2
    <3>2. T.child[z][x] = Null \/ T.child[z][x] \notin {n, s}
      BY <1>1, <1>8, <3>1
    <3>3. Color(T, T.child[z][x]) = "black"
      <4>1. CASE T.child[z][x] = Null
        BY <4>1 DEF Color
      <4>2. CASE T.child[z][x] # n
        BY <1>3, <3>1, <4>2 DEF Balanced, NoRedRed
      <4> QED
        BY <3>2, <4>1, <4>2
    <3> QED
      BY <1>6, <2>0, <3>2, <3>3 DEF Color, Node
  <2> QED
    BY <2>1, <2>2
<1>15. RootBlack(R, Null, d)
  <2>1. T.root \in Node /\ (T.root = Null \/ T.color[T.root] = "black")
    BY <1>1, <1>3, TreeFields DEF Balanced, RootBlack
  <2> QED
    BY <1>1, <1>6, <2>1 DEF RootBlack, Node
<1> QED
  BY <1>3, <1>6, <1>7, <1>9, <1>13, <1>14, <1>15 DEF SpliceAt, Balanced

\* delete_case5: now the far child of the sibling is red.
LEMMA OuterNephewDeletes ==
    ASSUME NEW T, NEW B, NEW H, NEW n, NEW d, DeleteAt(T, B, H, n, d), T.parent[n] # Null,
           NEW s, Sibling(T, n) = s, Color(T, s) = "black",
           NEW side, SideOf(T, n) = side,
           NEW near, T.child[side][s] = near, Color(T, near) = "red",
           Color(T, T.child[Opposite(side)][s]) = "black",
           NEW R, R = OuterNephew(T, n)
    PROVE  /\ \E B2, H2 : DeleteAt(R, B2, H2, n, d)
           /\ R.parent[n] # Null /\ SideOf(R, n) = side /\ Color(R, Sibling(R, n)) = "black"
           /\ Color(R, R.child[Opposite(side)][Sibling(R, n)]) = "red"
<1> USE NullIsNoKey
<1> PICK p : p = T.parent[n]
  OBVIOUS
<1> PICK o : o = Opposite(side)
  OBVIOUS
<1>1. /\ p \in Keys /\ s \in Keys /\ side \in Side
      /\ T.child[side][p] = n /\ T.child[Opposite(side)][p] = s /\ T.parent[s] = p
      /\ n \notin {p, s} /\ p # s /\ Occupied(T, p) /\ Occupied(T, s) /\ Occupied(T, n)
      /\ d \notin {p, s} /\ d \in B[p] /\ T.root # d /\ T.root \notin {n, s} /\ T.parent[p] # d
  BY SiblingFacts
<1>2. /\ \A z \in Side : T.child[z][s] \in Node /\ T.child[z][s] \notin {n, p, s, d}
      /\ H[n] \in Nat /\ H[p] = H[n] + 1 + Weight(T, d, p) /\ H[s] = H[n] + 1
      /\ \A z \in Side : Height(H, n, T.child[z][s]) + Weight(T, d, s) = H[n] + 1
  BY SiblingFacts
<1>3. /\ T \in Tree /\ Linked(T) /\ Shape(T, B) /\ Sound(T, B, d) /\ Balanced(T, H, n, n, d)
      /\ n \in Keys /\ d \in Keys /\ d \in B[n] /\ Bare(T, d) /\ (n # d => T.color[n] = "black")
  BY DEF DeleteAt, Sound
<1>4. o \in Side /\ Opposite(o) = side /\ o # side /\ T.child[o][p] = s
  BY <1>1, Sides
<1> PICK far : T.child[o][s] = far
  OBVIOUS
<1>5. /\ near \in Keys /\ far \in Node /\ near \notin {n, p, s, d} /\ far \notin {n, p, s, d}
      /\ T.child[side][s] = near /\ near # far /\ T.parent[near] = s
  <2>1. near \in Node \ {n, p, s, d} /\ far \in Node \ {n, p, s, d} /\ near # Null
    BY <1>1, <1>2, <1>4 DEF Color
  <2>2. near # far
    BY <1>1, <1>3, <1>4, <2>1, ChildFacts
  <2>3. T.parent[near] = s
    BY <1>1, <1>3, <2>1 DEF Linked
  <2> QED
    BY <2>1, <2>2, <2>3 DEF Node
<1>6. T.color[s] = "black" /\ T.color[near] = "red" /\ Color(T, far) = "black"
  BY <1>1, <1>5 DEF Color
<1>7. /\ \A z \in Side : T.child[z][near] \in Node /\ T.child[z][near] \notin {near, s, n}
      /\ \A z \in Side : Color(T, T.child[z][near]) = "black"
  <2>1. \A z \in Side : T.child[z][near] \in Node
    BY <1>3, <1>5, TreeFields
  <2>2. \A z \in Side : T.child[z][near] \notin {near, s}
    BY <1>1, <1>3, <1>5, ChildFacts
  <2>3. \A z \in Side : T.child[z][near] # n
    BY <1>3, <1>1, <1>5 DEF Linked
  <2>4. \A z \in Side : Color(T, T.child[z][near]) = "black"
    BY <1>3, <1>5, <1>6, <2>3 DEF Balanced, NoRedRed
  <2> QED
    BY <2>1, <2>2, <2>3, <2>4
<1> PICK P : P = Paint(Paint(T, s, "red"), near, "black")
  OBVIOUS
<1>8. PaintedTwo(T, P, s, "red", near, "black")
  BY <1>1, <1>3, <1>5, PaintTwo
<1>9. P \in Tree /\ SameLinks(T, P) /\ Linked(P) /\ Shape(P, B) /\ P.child = T.child
  BY <1>3, <1>8, PaintSound DEF PaintedTwo, SameLinks, Sound
<1>10. R = Rotate(P, s, o)
  BY DEF OuterNephew
<1>11. Rotated(P, R, s, near, o) /\ R.color = P.color
  <2>1. near = P.child[Opposite(o)][s] /\ near # Null
    BY <1>4, <1>5, <1>9
  <2> QED
    BY <1>1, <1>4, <1>9, <1>10, <2>1, RotateFields
<1>12. Rotated(T, R, s, near, o)
  BY <1>9, <1>11, RotatedLinks
<1>13. R.color[s] = "red" /\ R.color[near] = "black" /\ \A x \in Keys \ {s, near} : R.color[x] = T.color[x]
  BY <1>1, <1>5, <1>8, <1>11 DEF PaintedTwo
<1>14. near = T.child[Opposite(o)][s] /\ near # Null /\ s # d /\ near # d
  BY <1>1, <1>4, <1>5
<1> PICK B2 : Turned(T, B, s, near, o) = B2
  OBVIOUS
<1>15. Sound(R, B2, d) /\ \A x \in Keys : Occupied(R, x) <=> Occupied(T, x)
  <2>1. T \in Tree /\ Sound(T, B, d) /\ s \in Keys /\ o \in Side
    BY <1>1, <1>3, <1>4
  <2>2. /\ Sound(R, Turned(T, B, s, near, o), d)
        /\ \A x \in Keys : Occupied(R, x) <=> Occupied(T, x)
    BY <1>12, <1>14, <2>1, RotateSound
  <2> QED
    BY <2>2
<1>16. B2[n] = B[n]
  BY <1>1, <1>3, <1>5 DEF Turned
<1>17. Bare(R, d)
  <2>1. \A x \in Keys : x = d \/ T.parent[x] = d => R.color[x] = T.color[x]
    BY <1>1, <1>5, <1>13
  <2>2. T.parent[s] # d
    BY <1>1
  <2> QED
    BY <1>1, <1>3, <1>4, <1>5, <1>12, <1>14, <2>1, <2>2, RotateBare
<1>18. /\ H \in [Keys -> Nat]
       /\ \A x \in Keys, z \in Side : H[x] = Height(H, n, T.child[z][x]) + Weight(T, d, x)
  BY <1>3 DEF Balanced, Even
<1> PICK H2 : [H EXCEPT ![near] = H[n] + 1, ![s] = H[n]] = H2
  OBVIOUS
<1>19. H2 \in [Keys -> Nat] /\ H2[near] = H[n] + 1 /\ H2[s] = H[n] /\ \A x \in Keys \ {s, near} : H2[x] = H[x]
  BY <1>1, <1>2, <1>5, <1>18
<1>20. HeightsTurned(T, R, H, H2, n, n, d, s, near, o, Null)
  <2>1. Weight(R, d, s) = 0 /\ Weight(R, d, near) = 1 /\ Weight(T, d, s) = 1 /\ Weight(T, d, near) = 0
    BY <1>1, <1>5, <1>6, <1>13 DEF Weight
  <2>2. H[near] = H[n] /\ Height(H, n, far) = H[n]
    <3>1. Height(H, n, far) \in Nat /\ H[near] \in Nat
      BY <1>5, <1>18 DEF Height, Node
    <3>2. Height(H, n, far) + 1 = H[n] + 1
      BY <1>2, <1>4, <2>1
    <3>3. Height(H, n, near) = H[near]
      BY <1>5 DEF Height
    <3>4. H[near] + 1 = H[n] + 1
      BY <1>1, <1>2, <2>1, <3>3
    <3> QED
      BY <1>2, <3>1, <3>2, <3>4
  <2>3. ASSUME NEW z \in Side
        PROVE  Height(H, n, T.child[z][near]) = H[n]
    <3>1. Height(H, n, T.child[z][near]) \in Nat
      BY <1>7, <1>18 DEF Height, Node
    <3>2. H[near] = Height(H, n, T.child[z][near]) + 0
      BY <1>5, <1>18, <2>1
    <3> QED
      BY <2>2, <3>1, <3>2
  <2>4. \A z \in Side : Height(H2, n, T.child[z][near]) = H[n]
    BY <1>7, <1>19, <2>3 DEF Height, Node
  <2>5. Height(H2, n, far) = H[n]
    BY <1>5, <1>19, <2>2 DEF Height, Node
  <2>6. Null \notin {s, near} /\ n \notin {s, near} /\ Null # n
    BY <1>1, <1>3, <1>5
  <2>7. /\ T.child[o][s] = far /\ H2[near] = H[s] /\ H2[s] = H[n] /\ H2[near] = H[n] + 1
        /\ Opposite(o) \in Side /\ H[n] \in Nat
    BY <1>1, <1>2, <1>4, <1>19
  <2> QED
    BY <1>4, <1>19, <2>1, <2>4, <2>5, <2>6, <2>7 DEF HeightsTurned
<1>21. ColorsTurned(T, R, n, n, s, near, o, Null)
  <2>1. Color(R, far) = "black" /\ Color(R, T.child[o][near]) = "black"
    BY <1>4, <1>5, <1>6, <1>7, <1>13 DEF Color, Node
  <2> QED
    BY <1>1, <1>6, <1>13, <2>1 DEF ColorsTurned
<1>22. Balanced(R, H2, n, n, d)
  BY <1>1, <1>3, <1>4, <1>12, <1>14, <1>20, <1>21, RotateBalanced
<1>23. R \in Tree /\ Linked(R) /\ Shape(R, B2)
  BY <1>12, <1>15 DEF Rotated, Sound
<1>24. DeleteAt(R, B2, H2, n, d)
  BY <1>1, <1>3, <1>5, <1>13, <1>15, <1>16, <1>17, <1>22, <1>23 DEF DeleteAt
<1>25. R.parent[n] = p
  <2>1. n \in Keys \ {s, near}
    BY <1>1, <1>3, <1>5
  <2>2. n # T.child[o][near]
    BY <1>4, <1>7
  <2>3. R.parent[n] = T.parent[n]
    BY <2>1, <2>2, <1>12 DEF Rotated
  <2> QED
    BY <2>3
<1>26. R.child[side][p] = n /\ R.child[o][p] = near /\ R.child[o][near] = s
  <2>1. p \in Keys \ {s, near}
    BY <1>1, <1>5
  <2> QED
    BY <1>1, <1>4, <1>12, <2>1 DEF Rotated
<1>27. SideOf(R, n) = side /\ Sibling(R, n) = near
  <2>1. R.child[side][p] # Null
    BY <1>3, <1>26
  <2>2. SideOf(R, R.child[side][p]) = side /\ Sibling(R, R.child[side][p]) = R.child[Opposite(side)][p]
    BY <1>1, <1>23, <2>1, ChildFacts
  <2> QED
    BY <1>26, <2>2
<1>28. Color(R, near) = "black" /\ Color(R, s) = "red"
  BY <1>1, <1>5, <1>13 DEF Color
<1> QED
  BY <1>1, <1>24, <1>25, <1>26, <1>27, <1>28

\* delete_case6
LEMMA FarNephewDeletes ==
    ASSUME NEW T, NEW B, NEW H, NEW n, NEW d, DeleteAt(T, B, H, n, d), T.parent[n] # Null,
           NEW s, Sibling(T, n) = s, Color(T, s) = "black",
           NEW side, SideOf(T, n) = side,
           NEW far, T.child[Opposite(side)][s] = far, Color(T, far) = "red",
           NEW R, R = FarNephew(T, n)
    PROVE  \E B2, H2 : SpliceAt(R, B2, H2, d)
<1> USE NullIsNoKey
<1> PICK p : p = T.parent[n]
  OBVIOUS
<1> PICK o : o = Opposite(side)
  OBVIOUS
<1>1. /\ p \in Keys /\ s \in Keys /\ side \in Side
      /\ T.child[side][p] = n /\ T.child[Opposite(side)][p] = s /\ T.parent[s] = p
      /\ n \notin {p, s} /\ p # s /\ Occupied(T, p) /\ Occupied(T, s) /\ Occupied(T, n)
      /\ d \notin {p, s} /\ d \in B[p] /\ T.root # d /\ T.root \notin {n, s} /\ T.parent[p] # d
  BY SiblingFacts
<1>2. /\ \A z \in Side : T.child[z][s] \in Node /\ T.child[z][s] \notin {n, p, s, d}
      /\ H[n] \in Nat /\ H[p] = H[n] + 1 + Weight(T, d, p) /\ H[s] = H[n] + 1
      /\ \A z \in Side : Height(H, n, T.child[z][s]) + Weight(T, d, s) = H[n] + 1
  BY SiblingFacts
<1>3. /\ T \in Tree /\ Linked(T) /\ Shape(T, B) /\ Sound(T, B, d) /\ Balanced(T, H, n, n, d)
      /\ n \in Keys /\ d \in Keys /\ d \in B[n] /\ Bare(T, d)
  BY DEF DeleteAt, Sound
<1>4. o \in Side /\ Opposite(o) = side /\ o # side /\ T.child[o][p] = s /\ T.child[o][s] = far
  BY <1>1, Sides
<1> PICK near : T.child[side][s] = near
  OBVIOUS
<1>5. /\ far \in Keys /\ near \in Node /\ near \notin {n, p, s, d} /\ far \notin {n, p, s, d}
      /\ near # far /\ T.parent[far] = s
  <2>1. near \in Node \ {n, p, s, d} /\ far \in Node \ {n, p, s, d} /\ far # Null
    BY <1>1, <1>2, <1>4 DEF Color
  <2>2. near # far
    BY <1>1, <1>3, <1>4, <2>1, ChildFacts
  <2>3. T.parent[far] = s
    BY <1>1, <1>3, <1>4, <2>1 DEF Linked
  <2> QED
    BY <2>1, <2>2, <2>3 DEF Node
<1>6. T.color[s] = "black" /\ T.color[far] = "red" /\ T.color[p] \in {"red", "black"} /\ Color(T, p) = T.color[p]
  BY <1>1, <1>3, <1>5, TreeFields DEF Color
<1> PICK P : P = Paint(Paint(Paint(T, s, T.color[p]), p, "black"), far, "black")
  OBVIOUS
<1>8. PaintedThree(T, P, s, T.color[p], p, "black", far, "black")
  BY <1>1, <1>3, <1>5, <1>6, PaintThree
<1>9. P \in Tree /\ SameLinks(T, P) /\ Linked(P) /\ Shape(P, B) /\ P.child = T.child
  BY <1>3, <1>8, PaintSound DEF PaintedThree, SameLinks, Sound
<1>10. R = Rotate(P, p, side)
  BY <1>6 DEF FarNephew
<1>11. Rotated(P, R, p, s, side) /\ R.color = P.color
  BY <1>1, <1>9, <1>10, RotateFields
<1>12. Rotated(T, R, p, s, side)
  BY <1>9, <1>11, RotatedLinks
<1>13. /\ R.color[s] = T.color[p] /\ R.color[p] = "black" /\ R.color[far] = "black"
       /\ \A x \in Keys \ {s, p, far} : R.color[x] = T.color[x]
  <2>1. \A x \in Keys : R.color[x] = IF x = far THEN "black" ELSE IF x = p THEN "black"
                                    ELSE IF x = s THEN T.color[p] ELSE T.color[x]
    BY <1>8, <1>11 DEF PaintedThree
  <2>2. s \in Keys /\ p \in Keys /\ far \in Keys /\ s # p /\ s # far /\ p # far
    BY <1>1, <1>5
  <2> QED
    BY <2>1, <2>2
<1>14. s = T.child[Opposite(side)][p] /\ s # Null /\ s # d /\ p # d
  BY <1>1
<1> PICK B2 : Turned(T, B, p, s, side) = B2
  OBVIOUS
<1>15. Sound(R, B2, d) /\ \A x \in Keys : Occupied(R, x) <=> Occupied(T, x)
  BY <1>1, <1>3, <1>12, <1>14, RotateSound
<1>17. Bare(R, d)
  <2>1. \A x \in Keys : x = d \/ T.parent[x] = d => R.color[x] = T.color[x]
    BY <1>1, <1>5, <1>13
  <2> QED
    BY <1>1, <1>3, <1>12, <1>14, <2>1, RotateBare
<1>18. /\ H \in [Keys -> Nat]
       /\ \A x \in Keys, z \in Side : H[x] = Height(H, n, T.child[z][x]) + Weight(T, d, x)
  BY <1>3 DEF Balanced, Even
<1> PICK H2 : [H EXCEPT ![s] = H[p], ![p] = H[n] + 1, ![far] = H[n] + 1] = H2
  OBVIOUS
<1>19. /\ H2 \in [Keys -> Nat] /\ H2[s] = H[p] /\ H2[p] = H[n] + 1 /\ H2[far] = H[n] + 1
       /\ \A x \in Keys \ {s, p, far} : H2[x] = H[x]
  BY <1>1, <1>2, <1>5, <1>18
<1>20. HeightsTurned(T, R, H, H2, n, Null, d, p, s, side, far)
  <2>1. /\ Weight(R, d, s) = Weight(T, d, p) /\ Weight(R, d, p) = 1 /\ Weight(R, d, far) = 1
        /\ Weight(T, d, s) = 1 /\ Weight(T, d, far) = 0
    BY <1>1, <1>5, <1>6, <1>13 DEF Weight
  <2>2. \A z \in Side : Height(H, n, T.child[z][s]) = H[n]
    <3>1. \A z \in Side : Height(H, n, T.child[z][s]) \in Nat
      BY <1>2, <1>18 DEF Height, Node
    <3> QED
      BY <1>2, <2>1, <3>1
  <2>3. H[far] = H[n]
    BY <1>4, <1>5, <2>2 DEF Height
  <2>4. Height(H2, Null, near) = H[n]
    BY <1>1, <1>2, <1>5, <1>19, <2>2 DEF Height, Node
  <2>5. Height(H2, Null, far) = H[n] + 1 /\ Height(H2, Null, n) = H[n]
    BY <1>1, <1>3, <1>5, <1>19 DEF Height
  <2>6. \A z \in Side : H2[far] = Height(H, n, T.child[z][far]) + 1
    <3>1. \A z \in Side : T.child[z][far] \in Node
      BY <1>3, <1>5, TreeFields
    <3>2. \A z \in Side : Height(H, n, T.child[z][far]) \in Nat
      BY <1>18, <3>1 DEF Height, Node
    <3>3. \A z \in Side : H[far] = Height(H, n, T.child[z][far]) + 0
      BY <1>5, <1>18, <2>1
    <3> QED
      BY <1>19, <2>3, <3>2, <3>3
  <2>7. n \notin {p, s} /\ Null # p /\ n \in Keys /\ T.parent[n] = p /\ far # Null
    BY <1>1, <1>3, <1>5
  <2>8. H2[p] = H[n] + 1 /\ H2[s] = H[n] + 1 + Weight(T, d, p) /\ H[n] \in Nat /\ H2[s] = H[p]
    BY <1>2, <1>19
  <2>9. H2 \in [Keys -> Nat] /\ \A x \in Keys \ {p, s, far} : H2[x] = H[x]
    BY <1>19
  <2> QED
    BY <1>1, <1>4, <2>1, <2>4, <2>5, <2>6, <2>7, <2>8, <2>9 DEF HeightsTurned
<1>21. ColorsTurned(T, R, n, Null, p, s, side, far)
  <2>1. Color(R, far) = "black"
    BY <1>13 DEF Color
  <2> QED
    BY <1>1, <1>3, <1>4, <1>13, <2>1 DEF ColorsTurned
<1>22. Balanced(R, H2, Null, Null, d)
  BY <1>1, <1>3, <1>12, <1>14, <1>20, <1>21, RotateBalanced
<1> QED
  BY <1>3, <1>12, <1>15, <1>17, <1>22 DEF SpliceAt, Rotated

\* At the root nothing is missing.
LEMMA RootDeletes ==
    ASSUME NEW T, NEW B, NEW H, NEW n, NEW d, DeleteAt(T, B, H, n, d), T.parent[n] = Null
    PROVE  SpliceAt(T, B, H, d)
<1> USE NullIsNoKey
<1>1. /\ T \in Tree /\ Linked(T) /\ Shape(T, B) /\ Sound(T, B, d) /\ Balanced(T, H, n, n, d)
      /\ n \in Keys /\ d \in Keys /\ Bare(T, d) /\ (n # d => T.color[n] = "black")
  BY DEF DeleteAt, Sound
<1>2. \A x \in Keys, z \in Side : T.child[z][x] # n
  BY <1>1 DEF Linked
<1>3. Even(T, H, Null, d)
  BY <1>1, <1>2 DEF Balanced, Even, Height
<1>4. NoRedRed(T, Null, d)
  BY <1>1, <1>2 DEF Balanced, NoRedRed
<1>5. RootBlack(T, Null, d)
  BY <1>1 DEF Balanced, RootBlack
<1> QED
  BY <1>1, <1>3, <1>4, <1>5 DEF SpliceAt, Balanced

\* One call of delete_case1.
LEMMA CaseDeletes ==
    ASSUME NEW T0, NEW B, NEW H, NEW n, NEW d, DeleteAt(T0, B, H, n, d), T0.parent[n] # Null,
           NEW T, T = RedSibling(T0, n), NEW p, T.parent[n] = p, NEW s, Sibling(T, n) = s
    PROVE  /\ ~AllBlack(T, s) =>
                \E B2, H2 : SpliceAt(FarNephew(OuterNephew(T, n), n), B2, H2, d)
           /\ AllBlack(T, s) /\ Color(T, p) = "black" =>
                \E B2, H2 : DeleteAt(Paint(T, s, "red"), B2, H2, p, d)
           /\ AllBlack(T, s) /\ Color(T, p) # "black" =>
                \E B2, H2 : SpliceAt(Paint(Paint(T, s, "red"), p, "black"), B2, H2, d)
<1>1. PICK B1, H1 : DeleteAt(T, B1, H1, n, d) /\ T.parent[n] # Null /\ Color(T, s) = "black"
  <2>1. CASE Color(T0, Sibling(T0, n)) = "red"
    <3>1. /\ \E B2, H2 : DeleteAt(T, B2, H2, n, d)
          /\ T.parent[n] = T0.parent[n] /\ Color(T, Sibling(T, n)) = "black"
      BY <2>1, RedSiblingDeletes
    <3> QED
      BY <3>1
  <2>2. CASE Color(T0, Sibling(T0, n)) # "red"
    <3>1. T = T0
      BY <2>2 DEF RedSibling
    <3>2. Sibling(T0, n) \in Keys /\ T0 \in Tree
      BY SiblingFacts DEF DeleteAt
    <3>3. T0.color[Sibling(T0, n)] \in {"red", "black"}
      BY <3>2, TreeFields
    <3> QED
      BY <2>2, <3>1, <3>3 DEF Color
  <2> QED
    BY <2>1, <2>2
<1> PICK side : SideOf(T, n) = side
  OBVIOUS
<1> PICK near : T.child[side][s] = near
  OBVIOUS
<1> PICK far : T.child[Opposite(side)][s] = far
  OBVIOUS
<1>2. T \in Tree /\ side \in Side /\ s \in Keys /\ near \in Node /\ far \in Node
  <2>1. T \in Tree /\ side \in Side /\ s \in Keys
    BY <1>1, SiblingFacts DEF DeleteAt
  <2> QED
    BY <2>1, TreeFields, Sides
<1>3. Color(T, near) \in {"red", "black"} /\ Color(T, far) \in {"red", "black"}
  BY <1>2, TreeFields DEF Color, Node
<1>4. AllBlack(T, s) <=> Color(T, near) = "black" /\ Color(T, far) = "black"
  BY <1>1, <1>2 DEF AllBlack, Side, Opposite
<1>5. CASE Color(T, far) = "red"
  <2>1. OuterNephew(T, n) = T
    BY <1>5 DEF OuterNephew
  <2>2. \E B2, H2 : SpliceAt(FarNephew(T, n), B2, H2, d)
    BY <1>1, <1>5, FarNephewDeletes
  <2> QED
    BY <1>4, <1>5, <2>1, <2>2
<1>6. CASE Color(T, far) = "black" /\ Color(T, near) = "red"
  <2> PICK R : R = OuterNephew(T, n)
    OBVIOUS
  <2>1. /\ \E B2, H2 : DeleteAt(R, B2, H2, n, d)
        /\ R.parent[n] # Null /\ SideOf(R, n) = side /\ Color(R, Sibling(R, n)) = "black"
        /\ Color(R, R.child[Opposite(side)][Sibling(R, n)]) = "red"
    BY <1>1, <1>6, OuterNephewDeletes
  <2>2. \E B2, H2 : SpliceAt(FarNephew(R, n), B2, H2, d)
    BY <2>1, FarNephewDeletes
  <2> QED
    BY <1>4, <1>6, <2>2
<1>7. CASE Color(T, far) = "black" /\ Color(T, near) = "black"
  <2>1. AllBlack(T, s)
    BY <1>4, <1>7
  <2>2. Color(T, p) = "black" => \E H2 : DeleteAt(Paint(T, s, "red"), B1, H2, p, d)
    BY <1>1, <2>1, BlackParentDeletes
  <2>3. Color(T, p) # "black" => \E H2 : SpliceAt(Paint(Paint(T, s, "red"), p, "black"), B1, H2, d)
    BY <1>1, <2>1, RedParentDeletes
  <2> QED
    BY <2>1, <2>2, <2>3
<1> QED
  BY <1>3, <1>5, <1>6, <1>7

-----------------------------------------------------------------------------
(* Before and after delete_case1 *)

\* Node k, which has a child at most, is to be taken out of a balanced tree.
UnlinkAt(T, B, H, k) ==
    /\ T \in Tree /\ Sound(T, B, k) /\ Balanced(T, H, Null, Null, Null)
    /\ k \in Keys /\ Occupied(T, k) /\ \E side \in Side : T.child[side][k] = Null

LEMMA UnlinkBlack ==
    ASSUME NEW T, NEW B, NEW H, NEW k, UnlinkAt(T, B, H, k), T.color[k] = "black",
           NEW R, Paint(T, k, Color(T, OnlyChild(T, k))) = R
    PROVE  \E H2 : DeleteAt(R, B, H2, k, k)
<1> USE NullIsNoKey
<1> PICK c : OnlyChild(T, k) = c
  OBVIOUS
<1>1. /\ T \in Tree /\ Linked(T) /\ Shape(T, B) /\ Sound(T, B, k) /\ Balanced(T, H, Null, Null, Null)
      /\ k \in Keys /\ Occupied(T, k)
  BY DEF UnlinkAt, Sound
<1>2. c \in Node /\ \E z \in Side : T.child[z][k] = c
  BY <1>1, TreeFields DEF OnlyChild, Side
<1>3. c # k
  BY <1>1, <1>2, ChildFacts
<1>4. Color(T, c) \in {"red", "black"}
  BY <1>1, <1>2, TreeFields DEF Color, Node
<1>5. Painted(T, R, k, Color(T, c))
  BY <1>1, <1>4, PaintFields
<1>6. /\ R \in Tree /\ SameLinks(T, R) /\ R.child = T.child /\ R.root = T.root
      /\ R.color[k] = Color(T, c) /\ \A x \in Keys \ {k} : R.color[x] = T.color[x]
  BY <1>1, <1>5 DEF Painted, SameLinks
<1>7. Sound(R, B, k) /\ \A x \in Keys : Occupied(R, x) <=> Occupied(T, x)
  BY <1>1, <1>6, PaintSound
<1>8. Bare(R, k)
  <2>1. OnlyChild(R, k) = c
    BY <1>6 DEF OnlyChild
  <2>2. c # Null => R.color[c] = R.color[k]
    BY <1>2, <1>3, <1>6 DEF Color, Node
  <2> QED
    BY <1>1, <1>6, <1>7, <2>1, <2>2 DEF Bare, UnlinkAt
<1>9. /\ H \in [Keys -> Nat]
      /\ \A x \in Keys, z \in Side : H[x] = Height(H, Null, T.child[z][x]) + Weight(T, Null, x)
  BY <1>1 DEF Balanced, Even
<1>10. \A z \in Side : T.child[z][k] \in Node /\ T.child[z][k] # k
  BY <1>1, TreeFields, ChildFacts
<1>11. ASSUME NEW z \in Side
       PROVE  Height(H, Null, T.child[z][k]) \in Nat /\ H[k] = Height(H, Null, T.child[z][k]) + 1
  BY <1>1, <1>9, <1>10 DEF Height, Weight, Node
<1>12. "left" \in Side
  BY DEF Side
<1> PICK H2 : [H EXCEPT ![k] = H[k] - 1] = H2
  OBVIOUS
<1>13. H2 \in [Keys -> Nat] /\ H2[k] + 1 = H[k] /\ \A x \in Keys \ {k} : H2[x] = H[x]
  BY <1>1, <1>9, <1>11, <1>12
<1>14. Even(R, H2, k, k)
  <2> SUFFICES ASSUME NEW x \in Keys, NEW z \in Side
               PROVE  H2[x] = Height(H2, k, T.child[z][x]) + Weight(R, k, x)
    BY <1>6, <1>13 DEF Even
  <2>1. Height(H2, k, T.child[z][x]) = Height(H, Null, T.child[z][x])
    BY <1>1, <1>13, TreeFields DEF Height, Node
  <2>2. CASE x = k
    BY <1>11, <1>13, <2>1, <2>2 DEF Weight
  <2>3. CASE x # k
    <3>1. Weight(R, k, x) = Weight(T, Null, x)
      BY <1>6, <2>3 DEF Weight
    <3> QED
      BY <1>9, <1>13, <2>1, <2>3, <3>1
  <2> QED
    BY <2>2, <2>3
<1>15. NoRedRed(R, k, k)
  <2> SUFFICES ASSUME NEW x \in Keys \ {k}, NEW z \in Side, R.color[x] = "red", T.child[z][x] # k
               PROVE  Color(R, T.child[z][x]) = "black"
    BY <1>6 DEF NoRedRed
  <2>1. T.child[z][x] \in Node /\ T.color[x] = "red"
    BY <1>1, <1>6, TreeFields
  <2>2. CASE T.child[z][x] = Null
    BY <2>2 DEF Color
  <2>3. CASE T.child[z][x] # Null
    <3>1. Color(T, T.child[z][x]) = "black"
      BY <1>1, <2>1, <2>3 DEF Balanced, NoRedRed
    <3> QED
      BY <1>6, <2>1, <3>1 DEF Color, Node
  <2> QED
    BY <2>2, <2>3
<1>16. RootBlack(R, k, k)
  <2>1. T.root \in Node /\ (T.root = Null \/ T.color[T.root] = "black")
    BY <1>1, TreeFields DEF Balanced, RootBlack
  <2> QED
    BY <1>6, <2>1 DEF RootBlack, Node
<1>17. k \in B[k]
  BY <1>1 DEF Shape
<1> QED
  BY <1>1, <1>6, <1>7, <1>8, <1>14, <1>15, <1>16, <1>17 DEF DeleteAt, Balanced

\* A red node with a child at most has none.
LEMMA UnlinkRed ==
    ASSUME NEW T, NEW B, NEW H, NEW k, UnlinkAt(T, B, H, k), T.color[k] # "black"
    PROVE  SpliceAt(T, B, H, k)
<1> USE NullIsNoKey
<1> PICK c : OnlyChild(T, k) = c
  OBVIOUS
<1>1. /\ T \in Tree /\ Linked(T) /\ Shape(T, B) /\ Sound(T, B, k) /\ Balanced(T, H, Null, Null, Null)
      /\ k \in Keys /\ Occupied(T, k)
  BY DEF UnlinkAt, Sound
<1>2. c \in Node /\ \E z \in Side : T.child[z][k] = c
  BY <1>1, TreeFields DEF OnlyChild, Side
<1>3. T.color[k] = "red"
  BY <1>1, TreeFields
<1>4. /\ H \in [Keys -> Nat]
      /\ \A x \in Keys, z \in Side : H[x] = Height(H, Null, T.child[z][x]) + Weight(T, Null, x)
  BY <1>1 DEF Balanced, Even
<1>5. ASSUME c # Null
      PROVE  FALSE
  <2>1. c \in Keys
    BY <1>2, <1>5 DEF Node
  <2>2. T.color[c] = "black"
    BY <1>1, <1>2, <1>3, <1>5 DEF Balanced, NoRedRed, Color
  <2>3. PICK z \in Side : T.child[z][k] = Null
    BY DEF UnlinkAt
  <2>4. H[k] = 0
    BY <1>1, <1>3, <1>4, <2>3 DEF Height, Weight
  <2>5. H[k] = H[c] + 0
    BY <1>1, <1>2, <1>3, <1>4, <1>5 DEF Height, Weight
  <2>6. "left" \in Side /\ T.child["left"][c] \in Node
    BY <1>1, <2>1, TreeFields DEF Side
  <2>7. H[c] = Height(H, Null, T.child["left"][c]) + 1 /\ Height(H, Null, T.child["left"][c]) \in Nat
    BY <1>4, <2>1, <2>2, <2>6 DEF Height, Weight, Node
  <2> QED
    BY <2>4, <2>5, <2>7
<1>6. Bare(T, k)
  BY <1>1, <1>5 DEF Bare, UnlinkAt
<1>7. \A x \in Keys : Weight(T, k, x) = Weight(T, Null, x)
  BY <1>3 DEF Weight
<1>8. Even(T, H, Null, k)
  BY <1>4, <1>7 DEF Even
<1>9. NoRedRed(T, Null, k) /\ RootBlack(T, Null, k)
  BY <1>1 DEF Balanced, NoRedRed, RootBlack
<1> QED
  BY <1>1, <1>6, <1>8, <1>9 DEF SpliceAt, Balanced

\* CopyEntry: nodes a and b change names.
Swap(a, b, x) == IF x = a THEN b ELSE IF x = b THEN a ELSE x

Renamed(T, R, a, b) ==
    /\ R \in Tree /\ R.root = Swap(a, b, T.root) /\ R.data = T.data
    /\ \A x \in Keys :
         /\ \A side \in Side : R.child[side][x] = Swap(a, b, T.child[side][Swap(a, b, x)])
         /\ R.parent[x] = Swap(a, b, T.parent[Swap(a, b, x)])
         /\ R.color[x] = T.color[Swap(a, b, x)]

LEMMA Swaps ==
    ASSUME NEW a \in Keys, NEW b \in Keys
    PROVE  /\ Swap(a, b, Null) = Null
           /\ \A x \in Keys : Swap(a, b, x) \in Keys
           /\ \A x \in Node : Swap(a, b, x) \in Node /\ (Swap(a, b, x) = Null <=> x = Null)
           /\ \A x : Swap(a, b, Swap(a, b, x)) = x
           /\ Swap(a, b, a) = b /\ Swap(a, b, b) = a
BY NullIsNoKey DEF Swap, Node

LEMMA CopyFields ==
    ASSUME NEW T \in Tree, NEW a \in Keys, NEW b \in Keys
    PROVE  Renamed(T, CopyEntry(T, a, b), a, b)
<1>1. CopyEntry(T, a, b) =
        [root |-> Swap(a, b, T.root),
         child |-> [side \in Side |-> [x \in Keys |-> Swap(a, b, T.child[side][Swap(a, b, x)])]],
         parent |-> [x \in Keys |-> Swap(a, b, T.parent[Swap(a, b, x)])],
         color |-> [x \in Keys |-> T.color[Swap(a, b, x)]],
         data |-> T.data]
  BY DEF CopyEntry, Swap
<1>2. /\ Swap(a, b, T.root) \in Node
      /\ \A x \in Keys : /\ Swap(a, b, x) \in Keys
                         /\ \A side \in Side : Swap(a, b, T.child[side][Swap(a, b, x)]) \in Node
                         /\ Swap(a, b, T.parent[Swap(a, b, x)]) \in Node
                         /\ T.color[Swap(a, b, x)] \in {"red", "black"}
  BY Swaps, TreeFields
<1>3. T.data \in [Keys -> Data \cup {NoData}]
  BY DEF Tree
<1> QED
  BY <1>1, <1>2, <1>3 DEF Renamed, Tree

\* Node b is the lowest on the right of node a.
Follows(T, B, a, b) ==
    /\ T.child["left"][a] # Null /\ T.child["right"][a] # Null /\ T.child["left"][b] = Null
    /\ B[b] \subseteq Under(B, T.child["right"][a])
    /\ \A m \in Under(B, T.child["right"][a]) : m \in B[b] \/ m > b

LEMMA CopyUnlinks ==
    ASSUME NEW T \in Tree, NEW B, NEW H, NEW a \in Keys, NEW b \in Keys,
           Sound(T, B, Null), Balanced(T, H, Null, Null, Null), Follows(T, B, a, b),
           NEW R, CopyEntry(T, a, b) = R
    PROVE  \E B2, H2 : UnlinkAt(R, B2, H2, a)
<1> USE NullIsNoKey
<1> DEFINE N(x) == Swap(a, b, x)
<1>1. /\ N(Null) = Null
      /\ \A x \in Keys : N(x) \in Keys
      /\ \A x \in Node : N(x) \in Node /\ (N(x) = Null <=> x = Null)
      /\ \A x : N(N(x)) = x
      /\ N(a) = b /\ N(b) = a
  BY Swaps
<1>2. \A x : x \notin {a, b} => N(x) = x
  BY DEF Swap
<1> HIDE DEF N
<1>3. /\ R \in Tree /\ R.root = N(T.root) /\ R.data = T.data
      /\ \A x \in Keys :
           /\ \A z \in Side : R.child[z][x] = N(T.child[z][N(x)])
           /\ R.parent[x] = N(T.parent[N(x)])
           /\ R.color[x] = T.color[N(x)]
  <2>1. Renamed(T, R, a, b)
    BY CopyFields
  <2> QED
    BY <2>1 DEF Renamed, N
<1>4. Linked(T) /\ Shape(T, B) /\ B \in [Keys -> SUBSET Keys]
  BY DEF Sound, Shape
<1>5. /\ \A x \in Keys, z \in Side : T.child[z][x] \in Node
      /\ \A x \in Keys : T.parent[x] \in Node
      /\ T.root \in Node
  BY TreeFields
<1>6. T.child["left"][a] # Null /\ T.child["right"][a] # Null /\ T.child["left"][b] = Null
  BY DEF Follows
<1>26. /\ a \in B[a] /\ B[T.child["right"][a]] \subseteq B[a] /\ a \notin B[T.child["right"][a]]
       /\ b \in B[b]
  <2>1. "right" \in Side
    BY DEF Side
  <2>2. b \in B[b]
    BY <1>4 DEF Shape
  <2> QED
    BY <1>4, <1>6, <2>1, <2>2, ChildFacts
<1> PICK r : T.child["right"][a] = r
  OBVIOUS
<1>7. /\ r \in Keys /\ B[b] \subseteq B[r] /\ \A m \in B[r] : m \in B[b] \/ m > b
      /\ a \in B[a] /\ B[r] \subseteq B[a] /\ a \notin B[r] /\ b \in B[b] /\ b \in B[r] /\ b # a
  <2>1. r \in Keys /\ B[b] \subseteq B[r] /\ \A m \in B[r] : m \in B[b] \/ m > b
    BY <1>5, <1>6 DEF Follows, Under, Node, Side
  <2>2. a \in B[a] /\ B[r] \subseteq B[a] /\ a \notin B[r] /\ b \in B[b]
    BY <1>26
  <2> QED
    BY <2>1, <2>2
<1>8. Occupied(T, a) /\ Occupied(T, b)
  <2>1. Occupied(T, a)
    BY <1>4, <1>6 DEF Linked, Side
  <2>2. B[a] \subseteq Under(B, T.root)
    BY <1>4, <1>5, <2>1, Nested DEF Shape, Under, Node
  <2> QED
    BY <1>4, <1>7, <2>1, <2>2 DEF Shape
<1>9. \A x \in Keys : Occupied(R, x) <=> Occupied(T, x)
  <2>1. \A x \in Keys : Occupied(R, x) <=> Occupied(T, N(x))
    BY <1>1, <1>3, <1>5 DEF Occupied
  <2> QED
    BY <1>1, <1>2, <1>8, <2>1
<1>10. Linked(R)
  <2>1. ASSUME NEW n \in Keys, NEW z \in Side, R.child[z][n] # Null
        PROVE  R.parent[R.child[z][n]] = n /\ Occupied(R, n)
    <3> PICK c : T.child[z][N(n)] = c
      OBVIOUS
    <3>1. R.child[z][n] = N(c) /\ c \in Keys /\ N(n) \in Keys
      BY <1>1, <1>3, <1>5, <2>1 DEF Node
    <3>2. T.parent[c] = N(n) /\ Occupied(T, N(n))
      BY <1>4, <3>1 DEF Linked
    <3>3. R.parent[N(c)] = n
      BY <1>1, <1>3, <3>1, <3>2
    <3>4. Occupied(R, n)
      BY <1>1, <1>2, <1>8, <1>9, <3>2
    <3> QED
      BY <3>1, <3>3, <3>4
  <2>2. ASSUME NEW n \in Keys, R.parent[n] # Null
        PROVE  \E z \in Side : R.child[z][R.parent[n]] = n
    <3>1. N(n) \in Keys /\ R.parent[n] = N(T.parent[N(n)]) /\ T.parent[N(n)] \in Keys
      BY <1>1, <1>3, <1>5, <2>2 DEF Node
    <3>2. PICK z \in Side : T.child[z][T.parent[N(n)]] = N(n)
      BY <1>4, <3>1 DEF Linked
    <3>3. R.child[z][R.parent[n]] = N(T.child[z][N(R.parent[n])])
      BY <1>1, <1>3, <3>1
    <3> QED
      BY <1>1, <3>1, <3>2, <3>3
  <2>3. R.root # Null => R.parent[R.root] = Null
    <3>1. R.root # Null => T.root \in Keys /\ T.parent[T.root] = Null
      BY <1>1, <1>3, <1>4, <1>5 DEF Linked, Node
    <3> QED
      BY <1>1, <1>3, <3>1
  <2> QED
    BY <2>1, <2>2, <2>3 DEF Linked
<1> PICK B2 : [x \in Keys |-> {y \in Keys : N(y) \in B[N(x)]}] = B2
  OBVIOUS
<1>11. B2 \in [Keys -> SUBSET Keys] /\ \A x, y \in Keys : y \in B2[x] <=> N(y) \in B[N(x)]
  BY <1>1
<1>12. ASSUME NEW x \in Keys, NEW z \in Side, NEW y \in Keys
       PROVE  y \in Under(B2, R.child[z][x]) <=> N(y) \in Under(B, T.child[z][N(x)])
  <2> PICK c : T.child[z][N(x)] = c
    OBVIOUS
  <2>1. R.child[z][x] = N(c) /\ c \in Node
    BY <1>1, <1>3, <1>5
  <2>2. CASE c = Null
    BY <1>1, <2>1, <2>2 DEF Under
  <2>3. CASE c # Null
    <3>1. c \in Keys /\ N(c) \in Keys /\ N(c) # Null /\ N(N(c)) = c
      BY <1>1, <2>1, <2>3 DEF Node
    <3> QED
      BY <1>11, <2>1, <2>3, <3>1 DEF Under
  <2> QED
    BY <2>2, <2>3
<1>13. \A x \in Keys, z \in Side : Under(B2, R.child[z][x]) \subseteq Keys
  <2>1. \A x \in Keys, z \in Side : R.child[z][x] \in Node
    BY <1>3, TreeFields
  <2> QED
    BY <1>11, <2>1 DEF Under, Node
<1>14. Shape(R, B2)
  <2>1. ASSUME NEW n \in Keys
        PROVE  /\ B2[n] = {n} \cup Under(B2, R.child["left"][n]) \cup Under(B2, R.child["right"][n])
               /\ n \notin Under(B2, R.child["left"][n])
               /\ n \notin Under(B2, R.child["right"][n])
               /\ Under(B2, R.child["left"][n]) \cap Under(B2, R.child["right"][n]) = {}
    <3> PICK L : Under(B2, R.child["left"][n]) = L
      OBVIOUS
    <3> PICK G : Under(B2, R.child["right"][n]) = G
      OBVIOUS
    <3> PICK L0 : Under(B, T.child["left"][N(n)]) = L0
      OBVIOUS
    <3> PICK G0 : Under(B, T.child["right"][N(n)]) = G0
      OBVIOUS
    <3>1. L \subseteq Keys /\ G \subseteq Keys /\ \A y \in Keys : (y \in L <=> N(y) \in L0) /\ (y \in G <=> N(y) \in G0)
      BY <1>12, <1>13 DEF Side
    <3>2. /\ N(n) \in Keys /\ B[N(n)] = {N(n)} \cup L0 \cup G0
          /\ N(n) \notin L0 /\ N(n) \notin G0 /\ L0 \cap G0 = {}
      BY <1>1, <1>4 DEF Shape
    <3>3. B2[n] \subseteq Keys /\ \A y \in Keys : y \in B2[n] <=> N(y) \in B[N(n)]
      BY <1>11
    <3>4. \A y \in Keys : N(y) = N(n) <=> y = n
      BY <1>1
    <3>5. B2[n] = {n} \cup L \cup G
      BY <3>1, <3>2, <3>3, <3>4
    <3> QED
      BY <3>1, <3>2, <3>5
  <2>2. ASSUME NEW n \in Keys
        PROVE  Occupied(R, n) <=> n \in Under(B2, R.root)
    <3>1. CASE T.root = Null
      BY <1>8, <1>4, <3>1 DEF Shape, Under
    <3>2. CASE T.root # Null
      <4>1. R.root = N(T.root) /\ T.root \in Keys /\ R.root \in Keys /\ N(R.root) = T.root
        BY <1>1, <1>3, <1>5, <3>2 DEF Node
      <4>2. n \in B2[R.root] <=> N(n) \in B[T.root]
        BY <1>11, <4>1
      <4>3. Occupied(T, N(n)) <=> N(n) \in B[T.root]
        BY <1>1, <1>4, <3>2 DEF Shape, Under
      <4>4. Occupied(T, N(n)) <=> Occupied(T, n)
        BY <1>1, <1>2, <1>8
      <4> QED
        BY <1>9, <4>1, <4>2, <4>3, <4>4 DEF Under
    <3> QED
      BY <3>1, <3>2
  <2> QED
    BY <1>11, <2>1, <2>2 DEF Shape
<1>15. ASSUME NEW n \in Keys, NEW z \in Side, NEW m \in Under(B, T.child[z][n])
       PROVE  m \in Keys /\ Before(z, m, n)
  <2>1. m \in Keys
    BY <1>4, <1>5 DEF Under, Node
  <2> QED
    BY <2>1 DEF Sound, Ordered
<1>16. a < b
  <2>1. b \in Under(B, T.child["right"][a]) /\ "right" \in Side
    BY <1>6, <1>7 DEF Under, Side
  <2> QED
    BY <1>15, <2>1 DEF Before
<1>17. Ordered(R, B2, a)
  <2> SUFFICES ASSUME NEW n \in Keys, NEW z \in Side, NEW m \in Under(B2, R.child[z][n]) \ {a}
               PROVE  Before(z, m, n)
    BY DEF Ordered
  <2>1. m \in Keys /\ N(m) \in Under(B, T.child[z][N(n)]) /\ N(m) \in Keys /\ N(n) \in Keys
    BY <1>1, <1>12, <1>13
  <2>2. Before(z, N(m), N(n)) /\ N(m) # N(n)
    BY <1>15, <2>1, BeforeOrders
  <2>3. N(m) # b /\ (m = b => N(m) = a) /\ (m # b => N(m) = m)
    BY <1>1, <1>2
  <2>4. CASE n = b
    <3>1. N(n) = a /\ m # b
      BY <1>1, <2>2, <2>3, <2>4
    <3>2. N(m) = m /\ Before(z, m, a)
      BY <2>2, <2>3, <3>1
    <3>3. CASE z = "left"
      BY <1>16, <2>1, <2>4, <3>2, <3>3, KeysAssumption DEF Before
    <3>4. CASE z = "right"
      <4>1. m \in B[r] /\ m # b
        BY <1>6, <2>1, <3>1, <3>2, <3>4 DEF Under
      <4>2. m > b
        <5>1. CASE m \in B[b]
          <6>1. m \in Under(B, T.child["right"][b])
            BY <1>4, <1>6, <4>1, <5>1 DEF Shape, Under
          <6> QED
            BY <1>15, <6>1, <2>1, KeysAssumption DEF Before, Side
        <5> QED
          BY <1>7, <4>1, <5>1
      <4> QED
        BY <2>1, <2>4, <3>4, <4>2, KeysAssumption DEF Before
    <3> QED
      BY <3>3, <3>4 DEF Side
  <2>5. CASE n = a
    <3>1. N(n) = b
      BY <1>1, <2>5
    <3>2. z = "right"
      BY <1>6, <2>1, <3>1 DEF Under, Side
    <3>3. b < N(m)
      BY <2>2, <3>1, <3>2 DEF Before
    <3>4. N(m) # a
      BY <1>16, <2>1, <3>3, KeysAssumption
    <3>5. N(m) = m
      BY <2>3, <3>4
    <3> QED
      BY <1>16, <2>1, <2>5, <3>2, <3>3, <3>5, KeysAssumption DEF Before
  <2>6. CASE n \notin {a, b}
    <3>1. N(n) = n
      BY <1>2, <2>6
    <3>2. CASE m # b
      BY <2>2, <2>3, <3>1, <3>2
    <3>3. CASE m = b
      <4>1. a \in Under(B, T.child[z][n])
        BY <2>1, <2>3, <3>1, <3>3
      <4>2. b \in Under(B, T.child[z][n])
        BY <1>4, <1>5, <1>7, <4>1, Nested DEF Under, Node
      <4> QED
        BY <1>15, <3>3, <4>2
    <3> QED
      BY <3>2, <3>3
  <2> QED
    BY <2>4, <2>5, <2>6
<1>18. Stored(R)
  BY <1>3, <1>9 DEF Sound, Stored
<1>19. /\ H \in [Keys -> Nat]
       /\ \A x \in Keys, z \in Side : H[x] = Height(H, Null, T.child[z][x]) + Weight(T, Null, x)
  BY DEF Balanced, Even
<1> PICK H2 : [x \in Keys |-> H[N(x)]] = H2
  OBVIOUS
<1>20. H2 \in [Keys -> Nat] /\ \A x \in Keys : H2[x] = H[N(x)]
  BY <1>1, <1>19
<1>21. Even(R, H2, Null, Null)
  <2> SUFFICES ASSUME NEW x \in Keys, NEW z \in Side
               PROVE  H2[x] = Height(H2, Null, R.child[z][x]) + Weight(R, Null, x)
    BY <1>20 DEF Even
  <2> PICK c : T.child[z][N(x)] = c
    OBVIOUS
  <2>1. R.child[z][x] = N(c) /\ c \in Node /\ N(x) \in Keys
    BY <1>1, <1>3, <1>5
  <2>2. Height(H2, Null, N(c)) = Height(H, Null, c)
    <3>1. CASE c = Null
      BY <1>1, <3>1 DEF Height
    <3>2. CASE c # Null
      <4>1. N(c) \in Keys /\ c \in Keys /\ N(N(c)) = c
        BY <1>1, <2>1, <3>2 DEF Node
      <4> QED
        BY <1>20, <3>2, <4>1 DEF Height
    <3> QED
      BY <3>1, <3>2
  <2>3. Weight(R, Null, x) = Weight(T, Null, N(x))
    BY <1>3, <2>1 DEF Weight
  <2> QED
    BY <1>19, <1>20, <2>1, <2>2, <2>3
<1>22. \A c \in Node : Color(R, N(c)) = Color(T, c)
  BY <1>1, <1>3 DEF Color, Node
<1>23. NoRedRed(R, Null, Null)
  <2> SUFFICES ASSUME NEW x \in Keys, NEW z \in Side, R.color[x] = "red", R.child[z][x] # Null
               PROVE  Color(R, R.child[z][x]) = "black"
    BY DEF NoRedRed
  <2>1. R.child[z][x] = N(T.child[z][N(x)]) /\ T.child[z][N(x)] \in Node /\ N(x) \in Keys /\ T.color[N(x)] = "red"
    BY <1>1, <1>3, <1>5
  <2>2. T.child[z][N(x)] # Null
    BY <1>1, <2>1
  <2>3. Color(T, T.child[z][N(x)]) = "black"
    BY <2>1, <2>2 DEF Balanced, NoRedRed
  <2> QED
    BY <1>22, <2>1, <2>3
<1>24. RootBlack(R, Null, Null)
  <2>1. T.root = Null \/ T.color[T.root] = "black"
    BY DEF Balanced, RootBlack
  <2> QED
    BY <1>1, <1>3, <1>5, <2>1 DEF RootBlack, Node
<1>25. R.child["left"][a] = Null /\ "left" \in Side
  BY <1>1, <1>3, <1>6 DEF Side
<1> QED
  BY <1>3, <1>8, <1>9, <1>10, <1>14, <1>17, <1>18, <1>21, <1>23, <1>24, <1>25 DEF UnlinkAt, Sound, Balanced

-----------------------------------------------------------------------------
(* The node is taken out *)

Freed(T, R, k) ==
    /\ R \in Tree /\ R.root = T.root
    /\ \A x \in Keys :
         /\ \A side \in Side : R.child[side][x] = IF x = k THEN Null ELSE T.child[side][x]
         /\ R.parent[x] = IF x = k THEN Null ELSE T.parent[x]
         /\ R.color[x] = IF x = k THEN "black" ELSE T.color[x]
         /\ R.data[x] = IF x = k THEN NoData ELSE T.data[x]

LEMMA FreeNodeFields ==
    ASSUME NEW T \in Tree, NEW k \in Keys
    PROVE  Freed(T, FreeNode(T, k), k)
<1> PICK T1 : SetChild(T, k, "left", Null) = T1
  OBVIOUS
<1> PICK T2 : SetChild(T1, k, "right", Null) = T2
  OBVIOUS
<1> PICK T3 : SetParent(T2, k, Null) = T3
  OBVIOUS
<1> PICK T4 : Paint(T3, k, "black") = T4
  OBVIOUS
<1> PICK R : [T4 EXCEPT !.data[k] = NoData] = R
  OBVIOUS
<1>1. Null \in Node /\ k \in Node /\ "left" \in Side /\ "right" \in Side
  BY DEF Node, Side
<1>2. Redirected(T, T1, k, "left", Null)
  BY <1>1, SetChildFields
<1>3. Redirected(T1, T2, k, "right", Null)
  <2>1. T1 \in Tree
    BY <1>2 DEF Redirected
  <2> QED
    BY <1>1, <2>1, SetChildFields
<1>4. Reparented(T2, T3, k, Null)
  <2>1. T2 \in Tree
    BY <1>3 DEF Redirected
  <2> QED
    BY <1>1, <2>1, SetParentFields
<1>5. Painted(T3, T4, k, "black")
  <2>1. T3 \in Tree
    BY <1>4 DEF Reparented
  <2> QED
    BY <2>1, PaintFields
<1>6. T4 \in Tree
  BY <1>5 DEF Painted, SameLinks
<1>7. /\ R \in Tree /\ R.root = T4.root /\ R.child = T4.child /\ R.parent = T4.parent /\ R.color = T4.color
      /\ \A x \in Keys : R.data[x] = IF x = k THEN NoData ELSE T4.data[x]
  BY <1>6 DEF Tree
<1>8. FreeNode(T, k) = R
  BY DEF FreeNode
<1>9. /\ T4.root = T.root /\ T4.data = T.data
      /\ \A x \in Keys :
           /\ \A z \in Side : T4.child[z][x] = IF x = k THEN Null ELSE T.child[z][x]
           /\ T4.parent[x] = IF x = k THEN Null ELSE T.parent[x]
           /\ T4.color[x] = IF x = k THEN "black" ELSE T.color[x]
  BY <1>2, <1>3, <1>4, <1>5 DEF Redirected, Reparented, Painted, SameLinks, Side
<1> QED
  BY <1>7, <1>8, <1>9 DEF Freed

\* Node d is gone and its child c has its place.
Spliced(T, R, d, c) ==
    /\ R \in Tree /\ R.root = IF d = T.root THEN c ELSE T.root
    /\ \A x \in Keys :
         /\ \A side \in Side :
              R.child[side][x] = IF x = d THEN Null
                                 ELSE IF T.child[side][x] = d THEN c ELSE T.child[side][x]
         /\ R.parent[x] = IF x = d THEN Null ELSE IF x = c THEN T.parent[d] ELSE T.parent[x]
         /\ R.color[x] = IF x = d THEN "black" ELSE IF x = c /\ T.parent[d] = Null THEN "black" ELSE T.color[x]
         /\ R.data[x] = IF x = d THEN NoData ELSE T.data[x]

LEMMA SpliceFields ==
    ASSUME NEW T \in Tree, NEW B, Linked(T), Shape(T, B), NEW d \in Keys, Occupied(T, d),
           NEW c \in Node, NEW P, ReplaceNode(T, d, c) = P
    PROVE  Spliced(T, FreeNode(IF T.parent[d] = Null /\ c # Null THEN Paint(P, c, "black") ELSE P, d), d, c)
<1> USE NullIsNoKey
<1>12. PICK T1 : Hang(T, d, c) = T1
  OBVIOUS
<1>10. PICK Q : (IF T.parent[d] = Null /\ c # Null THEN Paint(P, c, "black") ELSE P) = Q
  OBVIOUS
<1>11. PICK R : FreeNode(Q, d) = R
  OBVIOUS
<1>1. Hung(T, T1, d, c)
  BY <1>12, HangFields
<1>2. Reparented(T1, P, c, T.parent[d])
  <2>1. T1 \in Tree /\ T.parent[d] \in Node
    BY <1>1, TreeFields DEF Hung
  <2>2. SetParent(T1, c, T.parent[d]) = P
    BY <1>12 DEF ReplaceNode
  <2> QED
    BY <2>1, <2>2, SetParentFields
<1>3. /\ Q \in Tree /\ Q.root = P.root /\ Q.child = P.child /\ Q.parent = P.parent /\ Q.data = P.data
      /\ \A x \in Keys : Q.color[x] = IF x = c /\ T.parent[d] = Null THEN "black" ELSE P.color[x]
  <2>0. P \in Tree
    BY <1>2 DEF Reparented
  <2>1. CASE T.parent[d] = Null /\ c # Null
    <3>1. c \in Keys /\ Paint(P, c, "black") = Q
      BY <1>10, <2>1 DEF Node
    <3>2. Painted(P, Q, c, "black")
      BY <2>0, <3>1, PaintFields
    <3> QED
      BY <2>1, <3>2 DEF Painted, SameLinks
  <2>2. CASE ~(T.parent[d] = Null /\ c # Null)
    <3>1. Q = P
      BY <1>10, <2>2
    <3> QED
      BY <2>0, <2>2, <3>1
  <2> QED
    BY <2>1, <2>2
<1>4. Freed(Q, R, d)
  BY <1>3, <1>11, FreeNodeFields
<1>5. /\ R \in Tree /\ R.root = IF d = T.root THEN c ELSE T.root
      /\ \A x \in Keys : R.data[x] = IF x = d THEN NoData ELSE T.data[x]
  BY <1>1, <1>2, <1>3, <1>4 DEF Hung, Reparented, Freed
<1>6. \A x \in Keys, z \in Side :
        R.child[z][x] = IF x = d THEN Null ELSE IF T.child[z][x] = d THEN c ELSE T.child[z][x]
  BY <1>1, <1>2, <1>3, <1>4 DEF Hung, Reparented, Freed
<1>7. \A x \in Keys :
        R.parent[x] = IF x = d THEN Null ELSE IF x = c THEN T.parent[d] ELSE T.parent[x]
  BY <1>1, <1>2, <1>3, <1>4 DEF Hung, Reparented, Freed
<1>9. ASSUME NEW x \in Keys
      PROVE  R.color[x] = IF x = d THEN "black" ELSE IF x = c /\ T.parent[d] = Null THEN "black" ELSE T.color[x]
  <2>1. R.color[x] = IF x = d THEN "black" ELSE Q.color[x]
    BY <1>4 DEF Freed
  <2>2. P.color = T.color
    BY <1>1, <1>2 DEF Hung, Reparented
  <2> QED
    BY <1>3, <2>1, <2>2
<1>8. Spliced(T, R, d, c)
  BY <1>5, <1>6, <1>7, <1>9 DEF Spliced
<1> QED
  BY <1>8, <1>10, <1>11

LEMMA SpliceSound ==
    ASSUME NEW T, NEW B, NEW H, NEW d, SpliceAt(T, B, H, d),
           NEW c, OnlyChild(T, d) = c, NEW R, Spliced(T, R, d, c)
    PROVE  /\ \E B2 : Sound(R, B2, Null)
           /\ \E H2 : Balanced(R, H2, Null, Null, Null)
           /\ c \in Node
<1> USE NullIsNoKey
<1>1. /\ T \in Tree /\ Linked(T) /\ Shape(T, B) /\ Sound(T, B, d) /\ d \in Keys /\ Occupied(T, d)
      /\ B \in [Keys -> SUBSET Keys]
      /\ \E z \in Side : T.child[z][d] = Null
      /\ c # Null => T.color[d] = T.color[c]
  BY DEF SpliceAt, Sound, Shape, Bare
<1>2. /\ R \in Tree /\ R.root = IF d = T.root THEN c ELSE T.root
      /\ \A x \in Keys :
           /\ \A z \in Side :
                R.child[z][x] = IF x = d THEN Null ELSE IF T.child[z][x] = d THEN c ELSE T.child[z][x]
           /\ R.parent[x] = IF x = d THEN Null ELSE IF x = c THEN T.parent[d] ELSE T.parent[x]
           /\ R.color[x] = IF x = d THEN "black" ELSE IF x = c /\ T.parent[d] = Null THEN "black" ELSE T.color[x]
           /\ R.data[x] = IF x = d THEN NoData ELSE T.data[x]
  BY DEF Spliced
<1>3. /\ \A x \in Keys, z \in Side : T.child[z][x] \in Node
      /\ \A x \in Keys : T.parent[x] \in Node /\ T.color[x] \in {"red", "black"}
      /\ T.root \in Node
  BY <1>1, TreeFields
<1>4. c \in Node /\ (\E z \in Side : T.child[z][d] = c) /\ \A z \in Side : T.child[z][d] \in {Null, c}
  BY <1>1, <1>3 DEF OnlyChild, Side
<1>5. /\ c # d /\ d \in B[d] /\ d \notin Under(B, c) /\ Under(B, c) \subseteq B[d]
      /\ (c # Null => T.parent[c] = d) /\ B[d] \ {d} = Under(B, c)
  <2>1. B[d] = {d} \cup Under(B, T.child["left"][d]) \cup Under(B, T.child["right"][d])
    BY <1>1 DEF Shape
  <2>2. \A z \in Side : d \notin Under(B, T.child[z][d])
    BY <1>1 DEF Shape, Side
  <2>3. Under(B, T.child["left"][d]) \cup Under(B, T.child["right"][d]) = Under(B, c)
    BY <1>1, <1>4 DEF OnlyChild, Under, Side
  <2>4. c # d /\ (c # Null => T.parent[c] = d)
    BY <1>1, <1>4, ChildFacts
  <2> QED
    BY <1>4, <2>1, <2>2, <2>3, <2>4
<1>6. \A x \in Keys, z \in Side : T.child[z][x] # Null => T.parent[T.child[z][x]] = x /\ Occupied(T, x)
  BY <1>1 DEF Linked
<1>7. T.parent[d] = Null <=> d = T.root
  BY <1>1, RootFacts
<1>8. \A n \in Keys : Occupied(R, n) <=> n # d /\ Occupied(T, n)
  <2> TAKE n \in Keys
  <2>1. CASE n = d
    BY <1>2, <1>5, <2>1 DEF Occupied
  <2>2. CASE n = c
    <3>1. Occupied(T, c) /\ T.parent[c] = d /\ c # d
      BY <1>1, <1>5, <2>2 DEF Occupied
    <3>2. R.parent[c] = T.parent[d] /\ (d = T.root => R.root = c)
      BY <1>2, <2>2, <3>1
    <3> QED
      BY <1>7, <2>2, <3>1, <3>2 DEF Occupied
  <2>3. CASE n \notin {c, d}
    BY <1>2, <2>3 DEF Occupied
  <2> QED
    BY <2>1, <2>2, <2>3
<1>9. T.parent[d] # d /\ (T.parent[d] = Null \/ T.parent[d] # c)
  <2>1. ASSUME T.parent[d] = d
        PROVE  FALSE
    <3>1. \E z \in Side : T.child[z][d] = d
      BY <1>1, <2>1 DEF Linked
    <3> QED
      BY <1>1, <3>1, ChildFacts
  <2>2. PICK z \in Side : T.child[z][d] = c
    BY <1>4
  <2>3. c # Null => T.parent[d] # c
    BY <1>1, <2>2, ChildFacts
  <2> QED
    BY <2>1, <2>3
<1>10. Linked(R)
  <2>1. ASSUME NEW n \in Keys, NEW z \in Side, R.child[z][n] # Null
        PROVE  R.parent[R.child[z][n]] = n /\ Occupied(R, n)
    <3>1. n # d /\ R.child[z][n] = IF T.child[z][n] = d THEN c ELSE T.child[z][n]
      BY <1>2, <2>1
    <3>2. CASE T.child[z][n] = d
      <4>1. T.parent[d] = n /\ Occupied(T, n) /\ R.child[z][n] = c /\ c \in Keys
        BY <1>1, <1>4, <1>6, <2>1, <3>1, <3>2 DEF Node
      <4> QED
        BY <1>2, <1>5, <1>8, <3>1, <4>1
    <3>3. CASE T.child[z][n] # d
      <4>1. R.child[z][n] = T.child[z][n] /\ T.child[z][n] \in Keys /\ T.parent[T.child[z][n]] = n /\ Occupied(T, n)
        BY <1>3, <1>6, <2>1, <3>1, <3>3 DEF Node
      <4>2. T.child[z][n] # c
        BY <1>5, <3>1, <4>1, <1>4
      <4> QED
        BY <1>2, <1>8, <3>1, <3>3, <4>1, <4>2
    <3> QED
      BY <3>2, <3>3
  <2>2. ASSUME NEW n \in Keys, R.parent[n] # Null
        PROVE  \E z \in Side : R.child[z][R.parent[n]] = n
    <3>1. n # d /\ R.parent[n] = IF n = c THEN T.parent[d] ELSE T.parent[n]
      BY <1>2, <2>2
    <3>2. CASE n = c
      <4>1. R.parent[n] = T.parent[d] /\ T.parent[d] \in Keys
        BY <1>1, <1>3, <2>2, <3>1, <3>2 DEF Node
      <4>2. PICK z \in Side : T.child[z][T.parent[d]] = d
        BY <1>1, <4>1 DEF Linked
      <4> QED
        BY <1>2, <1>9, <3>2, <4>1, <4>2
    <3>3. CASE n # c
      <4>1. R.parent[n] = T.parent[n] /\ T.parent[n] \in Keys
        BY <1>3, <2>2, <3>1, <3>3 DEF Node
      <4>2. PICK z \in Side : T.child[z][T.parent[n]] = n
        BY <1>1, <4>1 DEF Linked
      <4>3. T.parent[n] # d
        BY <1>4, <3>3, <4>2
      <4> QED
        BY <1>2, <3>1, <4>1, <4>2, <4>3
    <3> QED
      BY <3>2, <3>3
  <2>3. R.root # Null => R.parent[R.root] = Null
    <3>1. CASE d = T.root
      BY <1>2, <1>4, <1>5, <1>7, <3>1 DEF Node
    <3>2. CASE d # T.root
      <4>1. T.root # Null => T.root \in Keys /\ T.parent[T.root] = Null
        BY <1>1, <1>3 DEF Linked, Node
      <4>2. R.root = T.root
        BY <1>2, <3>2
      <4>3. T.root # Null => T.root # c
        BY <1>1, <1>5, <4>1
      <4> QED
        BY <1>2, <3>2, <4>1, <4>2, <4>3
    <3> QED
      BY <3>1, <3>2
  <2> QED
    BY <2>1, <2>2, <2>3 DEF Linked
<1> PICK B2 : [x \in Keys |-> IF x = d THEN {d} ELSE B[x] \ {d}] = B2
  OBVIOUS
<1>11. B2 \in [Keys -> SUBSET Keys] /\ B2[d] = {d} /\ \A x \in Keys \ {d} : B2[x] = B[x] \ {d}
  BY <1>1
<1>12. ASSUME NEW x \in Keys \ {d}, NEW z \in Side
       PROVE  Under(B2, R.child[z][x]) = Under(B, T.child[z][x]) \ {d}
  <2>1. R.child[z][x] = IF T.child[z][x] = d THEN c ELSE T.child[z][x]
    BY <1>2
  <2>2. CASE T.child[z][x] = d
    <3>1. Under(B2, c) = Under(B, c)
      BY <1>4, <1>5, <1>11 DEF Under, Node
    <3>2. Under(B, d) = B[d]
      BY <1>1 DEF Under
    <3> QED
      BY <1>5, <2>1, <2>2, <3>1, <3>2
  <2>3. CASE T.child[z][x] # d
    BY <1>3, <1>11, <2>1, <2>3 DEF Under, Node
  <2> QED
    BY <2>2, <2>3
<1>13. Shape(R, B2)
  <2>1. ASSUME NEW n \in Keys
        PROVE  /\ B2[n] = {n} \cup Under(B2, R.child["left"][n]) \cup Under(B2, R.child["right"][n])
               /\ n \notin Under(B2, R.child["left"][n])
               /\ n \notin Under(B2, R.child["right"][n])
               /\ Under(B2, R.child["left"][n]) \cap Under(B2, R.child["right"][n]) = {}
    <3>1. CASE n = d
      <4>1. R.child["left"][d] = Null /\ R.child["right"][d] = Null
        BY <1>1, <1>2 DEF Side
      <4> QED
        BY <1>11, <3>1, <4>1 DEF Under
    <3>2. CASE n # d
      <4> PICK L : Under(B, T.child["left"][n]) = L
        OBVIOUS
      <4> PICK G : Under(B, T.child["right"][n]) = G
        OBVIOUS
      <4>1. B[n] = {n} \cup L \cup G /\ n \notin L /\ n \notin G /\ L \cap G = {}
        BY <1>1 DEF Shape
      <4>2. Under(B2, R.child["left"][n]) = L \ {d} /\ Under(B2, R.child["right"][n]) = G \ {d}
        BY <1>12, <3>2 DEF Side
      <4>3. B2[n] = B[n] \ {d}
        BY <1>11, <3>2
      <4>4. B2[n] = {n} \cup (L \ {d}) \cup (G \ {d})
        BY <3>2, <4>1, <4>3
      <4> QED
        BY <4>1, <4>2, <4>4
    <3> QED
      BY <3>1, <3>2
  <2>2. ASSUME NEW n \in Keys
        PROVE  Occupied(R, n) <=> n \in Under(B2, R.root)
    <3>1. Occupied(T, n) <=> n \in Under(B, T.root)
      BY <1>1 DEF Shape
    <3>2. CASE d = T.root
      <4>1. Under(B2, c) = Under(B, c)
        BY <1>4, <1>5, <1>11 DEF Under, Node
      <4>2. Under(B, T.root) = B[d] /\ R.root = c
        BY <1>1, <1>2, <3>2 DEF Under
      <4> QED
        BY <1>5, <1>8, <3>1, <4>1, <4>2
    <3>3. CASE d # T.root
      <4>1. R.root = T.root /\ Under(B2, T.root) = Under(B, T.root) \ {d}
        BY <1>2, <1>3, <1>11, <3>3 DEF Under, Node
      <4> QED
        BY <1>8, <3>1, <4>1
    <3> QED
      BY <3>2, <3>3
  <2> QED
    BY <1>11, <2>1, <2>2 DEF Shape
<1>14. Ordered(R, B2, Null)
  <2> SUFFICES ASSUME NEW n \in Keys, NEW z \in Side, NEW m \in Under(B2, R.child[z][n])
               PROVE  Before(z, m, n)
    BY DEF Ordered
  <2>1. n # d
    BY <1>2 DEF Under
  <2>2. m \in Under(B, T.child[z][n]) \ {d}
    BY <1>12, <2>1
  <2> QED
    BY <1>1, <2>2 DEF Sound, Ordered
<1>15. Stored(R)
  <2> SUFFICES ASSUME NEW n \in Keys
               PROVE  R.data[n] \in IF Occupied(R, n) THEN {n} \X Copies ELSE {NoData}
    BY DEF Stored
  <2>1. R.data[n] = IF n = d THEN NoData ELSE T.data[n]
    BY <1>2
  <2>2. T.data[n] \in IF Occupied(T, n) THEN {n} \X Copies ELSE {NoData}
    BY <1>1 DEF Sound, Stored
  <2> QED
    BY <1>8, <2>1, <2>2
<1>16. /\ H \in [Keys -> Nat]
       /\ \A x \in Keys, z \in Side : H[x] = Height(H, Null, T.child[z][x]) + Weight(T, d, x)
  BY DEF SpliceAt, Balanced, Even
<1> PICK H2 : [x \in Keys |-> IF x = d THEN 1
                              ELSE IF x = c /\ T.parent[d] = Null /\ T.color[c] = "red" THEN H[x] + 1
                              ELSE H[x]] = H2
  OBVIOUS
<1>17. /\ H2 \in [Keys -> Nat] /\ H2[d] = 1
       /\ \A x \in Keys \ {d} :
            H2[x] = IF x = c /\ T.parent[d] = Null /\ T.color[c] = "red" THEN H[x] + 1 ELSE H[x]
  BY <1>1, <1>16
<1>18. ASSUME NEW x \in Keys \ {d}, NEW z \in Side
       PROVE  /\ R.child[z][x] \in Node \ {d}
              /\ R.child[z][x] # Null => R.child[z][x] # c \/ T.parent[d] # Null
  <2>1. R.child[z][x] = IF T.child[z][x] = d THEN c ELSE T.child[z][x]
    BY <1>2
  <2>2. CASE T.child[z][x] = d
    BY <1>1, <1>4, <1>5, <1>6, <2>1, <2>2
  <2>3. CASE T.child[z][x] # d
    BY <1>3, <1>5, <1>6, <2>1, <2>3
  <2> QED
    BY <2>2, <2>3
<1>19. Even(R, H2, Null, Null)
  <2> SUFFICES ASSUME NEW x \in Keys, NEW z \in Side
               PROVE  H2[x] = Height(H2, Null, R.child[z][x]) + Weight(R, Null, x)
    BY <1>17 DEF Even
  <2>1. CASE x = d
    <3>1. R.child[z][d] = Null /\ R.color[d] = "black" /\ d # Null
      BY <1>1, <1>2
    <3> QED
      BY <1>17, <2>1, <3>1 DEF Height, Weight
  <2>2. CASE x # d
    <3>1. Height(H2, Null, R.child[z][x]) = Height(H, Null, R.child[z][x])
      BY <1>17, <1>18, <2>2 DEF Height, Node
    <3>2. Height(H, Null, R.child[z][x]) = Height(H, Null, T.child[z][x])
      <4>1. CASE T.child[z][x] = d
        <5>1. PICK y \in Side : T.child[y][d] = c
          BY <1>4
        <5>2. H[d] = Height(H, Null, c) + 0
          BY <1>1, <1>16, <5>1 DEF Weight
        <5>3. Height(H, Null, c) \in Nat
          BY <1>4, <1>16 DEF Height, Node
        <5>4. R.child[z][x] = c /\ Height(H, Null, d) = H[d]
          BY <1>1, <1>2, <2>2, <4>1 DEF Height
        <5> QED
          BY <4>1, <5>2, <5>3, <5>4
      <4>2. CASE T.child[z][x] # d
        BY <1>2, <2>2, <4>2
      <4> QED
        BY <4>1, <4>2
    <3>3. R.color[x] = IF x = c /\ T.parent[d] = Null THEN "black" ELSE T.color[x]
      BY <1>2, <2>2
    <3>4. H[x] = Height(H, Null, T.child[z][x]) + Weight(T, d, x)
      BY <1>16
    <3>5. Height(H, Null, T.child[z][x]) \in Nat
      BY <1>3, <1>16 DEF Height, Node
    <3>6. H2[x] = IF x = c /\ T.parent[d] = Null /\ T.color[c] = "red" THEN H[x] + 1 ELSE H[x]
      BY <1>17, <2>2
    <3>7. T.color[x] \in {"red", "black"}
      BY <1>3
    <3>8. CASE x = c /\ T.parent[d] = Null
      <4>1. Weight(R, Null, x) = 1 /\ Weight(T, d, x) = IF T.color[x] = "red" THEN 0 ELSE 1
        BY <2>2, <3>3, <3>7, <3>8 DEF Weight
      <4> QED
        BY <3>1, <3>2, <3>4, <3>5, <3>6, <3>8, <4>1
    <3>9. CASE ~(x = c /\ T.parent[d] = Null)
      <4>1. Weight(R, Null, x) = Weight(T, d, x)
        BY <2>2, <3>3, <3>9 DEF Weight
      <4> QED
        BY <3>1, <3>2, <3>4, <3>6, <3>9, <4>1
    <3> QED
      BY <3>8, <3>9
  <2> QED
    BY <2>1, <2>2
<1>20. NoRedRed(R, Null, Null)
  <2> SUFFICES ASSUME NEW x \in Keys, NEW z \in Side, R.color[x] = "red", R.child[z][x] # Null
               PROVE  Color(R, R.child[z][x]) = "black"
    BY DEF NoRedRed
  <2>1. x # d /\ T.color[x] = "red" /\ R.child[z][x] = IF T.child[z][x] = d THEN c ELSE T.child[z][x]
    BY <1>2
  <2>2. R.child[z][x] \in Keys \ {d}
    BY <1>18, <2>1 DEF Node
  <2>3. T.child[z][x] # Null
    BY <1>1, <2>1
  <2>4. Color(T, T.child[z][x]) = "black"
    BY <2>1, <2>3 DEF SpliceAt, Balanced, NoRedRed
  <2>5. T.color[R.child[z][x]] = "black"
    <3>1. CASE T.child[z][x] = d
      BY <1>1, <2>1, <2>4, <3>1 DEF Color
    <3>2. CASE T.child[z][x] # d
      BY <2>1, <2>3, <2>4, <3>2 DEF Color
    <3> QED
      BY <3>1, <3>2
  <2> QED
    BY <1>2, <2>2, <2>5 DEF Color
<1>21. RootBlack(R, Null, Null)
  <2>1. CASE d = T.root
    <3>1. R.root = c /\ T.parent[d] = Null
      BY <1>2, <1>7, <2>1
    <3>2. c # Null => R.color[c] = "black"
      BY <1>2, <1>4, <3>1 DEF Node
    <3> QED
      BY <3>1, <3>2 DEF RootBlack
  <2>2. CASE d # T.root
    <3>1. R.root = T.root /\ (T.root = Null \/ T.color[T.root] = "black")
      BY <1>2, <2>2 DEF SpliceAt, Balanced, RootBlack
    <3>2. T.root # Null => R.color[T.root] = "black"
      BY <1>2, <1>3, <2>2, <3>1 DEF Node
    <3> QED
      BY <3>1, <3>2 DEF RootBlack
  <2> QED
    BY <2>1, <2>2
<1> QED
  BY <1>4, <1>10, <1>13, <1>14, <1>15, <1>19, <1>20, <1>21 DEF Sound, Balanced

-----------------------------------------------------------------------------
(* What holds at each point of a call *)

AtRest == pc \in {"idle", "search", "min", "return"}

\* do_lookup: if the key is in the tree, it is at or below node, and if not, it
\* belongs under parent.
Searching(B) ==
    /\ op # "none" /\ answer = NoAnswer
    /\ Occupied(tree, key) => key \in Under(B, node)
    /\ parent = Null => node = tree.root
    /\ parent # Null =>
         /\ Occupied(tree, parent) /\ parent # key
         /\ node = tree.child[IF parent < key THEN "right" ELSE "left"][parent]
         /\ \A n \in Keys, side \in Side :
              parent \in Under(B, tree.child[side][n]) => Before(side, key, n)

\* get_min: what is to the right of the key is at or below node, or larger than node.
GettingMin(B) ==
    /\ node # Null
    /\ tree.child["left"][key] # Null /\ tree.child["right"][key] # Null
    /\ B[node] \subseteq Under(B, tree.child["right"][key])
    /\ \A m \in Under(B, tree.child["right"][key]) : m \in B[node] \/ m > node

\* A call has an answer when do_lookup is over.
Answered ==
    /\ pc = "idle" => op = "none" /\ answer = NoAnswer
    /\ pc \notin {"idle", "search"} => answer # NoAnswer
    /\ pc = "fix" => op \in {"insert", "remove"}
    /\ pc \in {"min", "splice"} => op = "remove"
    /\ pc # "idle" => key # Null

Witnessed(B, H) ==
    /\ AtRest => Sound(tree, B, Null) /\ Balanced(tree, H, Null, Null, Null)
    /\ pc = "search" => Searching(B)
    /\ pc = "min" => GettingMin(B)
    /\ InFix("insert") => InsertAt(tree, B, H, node)
    /\ InFix("remove") => DeleteAt(tree, B, H, node, key)
    /\ pc = "splice" => SpliceAt(tree, B, H, key)

TreeInv == TypeOK /\ Answered /\ \E B, H : Witnessed(B, H)

LEMMA InvStarts == Init => TreeInv
<1> SUFFICES ASSUME Init
             PROVE  TreeInv
  OBVIOUS
<1> USE NullIsNoKey
<1>1. TypeOK
  BY DEF Init, TypeOK, Empty, NoAnswer, Tree, Node
<1>2. Answered
  BY DEF Init, Answered
<1>3. /\ tree.root = Null /\ \A x \in Keys : tree.parent[x] = Null /\ tree.color[x] = "black" /\ tree.data[x] = NoData
      /\ \A x \in Keys, side \in Side : tree.child[side][x] = Null
  BY DEF Init, Empty
<1>4. \A x \in Keys : ~Occupied(tree, x)
  BY <1>3 DEF Occupied
<1> PICK B : [x \in Keys |-> {x}] = B
  OBVIOUS
<1> PICK H : [x \in Keys |-> 1] = H
  OBVIOUS
<1>5. B \in [Keys -> SUBSET Keys] /\ H \in [Keys -> Nat] /\ \A x \in Keys : B[x] = {x} /\ H[x] = 1
  OBVIOUS
<1>6. Linked(tree)
  BY <1>3 DEF Linked
<1>7. Shape(tree, B)
  BY <1>3, <1>4, <1>5 DEF Shape, Under, Side
<1>8. Ordered(tree, B, Null)
  BY <1>3 DEF Ordered, Under
<1>9. Stored(tree)
  BY <1>3, <1>4 DEF Stored
<1>10. Balanced(tree, H, Null, Null, Null)
  BY <1>3, <1>5 DEF Balanced, Even, NoRedRed, RootBlack, Height, Weight
<1>11. Witnessed(B, H)
  BY <1>6, <1>7, <1>8, <1>9, <1>10 DEF Witnessed, Sound, InFix, Init
<1> QED
  BY <1>1, <1>2, <1>11 DEF TreeInv

LEMMA CallKeeps ==
    ASSUME TreeInv, NEW o \in {"lookup", "insert", "remove"}, NEW k \in Keys, Call(o, k)
    PROVE  TreeInv'
<1> USE NullIsNoKey
<1>1. /\ pc = "idle" /\ pc' = "search" /\ op' = o /\ key' = k /\ node' = tree.root /\ parent' = Null
      /\ tree' = tree /\ answer' = answer
  BY DEF Call
<1>2. TypeOK' /\ Answered'
  BY <1>1, TreeFields DEF TreeInv, TypeOK, Answered, Node
<1>3. PICK B, H : Witnessed(B, H)
  BY DEF TreeInv
<1>4. Sound(tree, B, Null) /\ Balanced(tree, H, Null, Null, Null) /\ answer = NoAnswer
  BY <1>1, <1>3 DEF Witnessed, AtRest, TreeInv, Answered
<1>5. Occupied(tree, k) => k \in Under(B, tree.root)
  BY <1>4 DEF Sound, Shape
<1>6. Searching(B)'
  BY <1>1, <1>4, <1>5 DEF Searching
<1>7. Witnessed(B, H)'
  BY <1>1, <1>4, <1>6 DEF Witnessed, InFix
<1> QED
  BY <1>2, <1>7 DEF TreeInv

LEMMA DescendKeeps ==
    ASSUME TreeInv, Descend
    PROVE  TreeInv'
<1> USE NullIsNoKey
<1> PICK side : (IF node < key THEN "right" ELSE "left") = side
  OBVIOUS
<1>1. /\ pc = "search" /\ node \notin {Null, key} /\ node' = tree.child[side][node] /\ parent' = node
      /\ tree' = tree /\ pc' = pc /\ op' = op /\ key' = key /\ answer' = answer
  BY DEF Descend
<1>2. tree \in Tree /\ node \in Keys /\ key \in Keys /\ parent \in Node /\ side \in Side
  BY <1>1 DEF TreeInv, TypeOK, Answered, Node, Side
<1>3. TypeOK' /\ Answered'
  BY <1>1, <1>2, TreeFields DEF TreeInv, TypeOK, Answered, Node
<1>4. PICK B, H : Witnessed(B, H)
  BY DEF TreeInv
<1>5. /\ Sound(tree, B, Null) /\ Balanced(tree, H, Null, Null, Null) /\ Linked(tree) /\ Shape(tree, B)
      /\ Searching(B)
  BY <1>1, <1>4 DEF Witnessed, AtRest, Sound
<1>6. Before(side, key, node)
  BY <1>1, <1>2, KeysAssumption DEF Before
<1>7. \A n \in Keys, z \in Side : \A m \in Under(B, tree.child[z][n]) : m \in Keys /\ Before(z, m, n)
  <2>1. \A n \in Keys, z \in Side : \A m \in Under(B, tree.child[z][n]) : m \in Keys
    BY <1>2, <1>5, TreeFields DEF Shape, Under, Node
  <2> QED
    BY <1>5, <2>1 DEF Sound, Ordered
<1>8. Occupied(tree, key) => key \in Under(B, tree.child[side][node])
  <2> SUFFICES ASSUME Occupied(tree, key)
               PROVE  key \in Under(B, tree.child[side][node])
    OBVIOUS
  <2>1. key \in B[node]
    BY <1>1, <1>5 DEF Searching, Under
  <2>2. PICK z \in Side : key \in Under(B, tree.child[z][node])
    BY <1>1, <1>2, <1>5, <2>1 DEF Shape, Side
  <2>3. Before(z, key, node)
    BY <1>2, <1>7, <2>2
  <2>4. z = side
    BY <1>2, <1>6, <2>3, KeysAssumption DEF Before, Side
  <2> QED
    BY <2>2, <2>4
<1>9. Occupied(tree, node) /\ (parent = Null => tree.parent[node] = Null) /\ (parent # Null => tree.parent[node] = parent)
  <2>1. CASE parent = Null
    BY <1>1, <1>5, <2>1 DEF Searching, Occupied, Linked
  <2>2. CASE parent # Null
    <3>1. parent \in Keys
      BY <1>2, <2>2 DEF Node
    <3>2. tree.parent[node] = parent
      BY <1>1, <1>5, <2>2, <3>1 DEF Searching, Linked, Side
    <3> QED
      BY <2>2, <3>2 DEF Occupied
  <2> QED
    BY <2>1, <2>2
<1>10. ASSUME NEW n \in Keys, NEW z \in Side, node \in Under(B, tree.child[z][n])
       PROVE  Before(z, key, n)
  <2> PICK c : tree.child[z][n] = c
    OBVIOUS
  <2>1. c \in Keys /\ node \in B[c]
    BY <1>2, <1>10, TreeFields DEF Under, Node
  <2>2. CASE node = c
    <3>1. tree.parent[node] = n
      BY <1>5, <2>1, <2>2 DEF Linked
    <3>2. parent = n
      BY <1>9, <3>1
    <3> PICK y : (IF parent < key THEN "right" ELSE "left") = y
      OBVIOUS
    <3>3. y \in Side /\ tree.child[y][n] = node /\ parent # key
      BY <1>5, <3>2 DEF Searching, Side
    <3>4. SideOf(tree, tree.child[y][n]) = y /\ SideOf(tree, tree.child[z][n]) = z
      BY <1>2, <1>5, <2>1, <2>2, <3>3, ChildFacts
    <3>5. y = z
      BY <2>2, <3>3, <3>4
    <3> QED
      BY <1>2, <3>2, <3>3, <3>5, KeysAssumption DEF Before
  <2>3. CASE node # c
    <3>1. tree.parent[node] \in B[c]
      BY <1>2, <1>5, <2>1, <2>3, UpwardClosed
    <3>2. tree.parent[node] \in Keys
      BY <1>5, <2>1, <3>1 DEF Shape
    <3>3. parent # Null /\ parent \in Under(B, c)
      BY <1>9, <2>1, <3>1, <3>2 DEF Under
    <3> QED
      BY <1>5, <3>3 DEF Searching
  <2> QED
    BY <2>2, <2>3
<1>11. Searching(B)'
  BY <1>1, <1>2, <1>5, <1>8, <1>9, <1>10 DEF Searching
<1>12. Witnessed(B, H)'
  BY <1>1, <1>5, <1>11 DEF Witnessed, InFix
<1> QED
  BY <1>3, <1>12 DEF TreeInv

LEMMA LookupKeeps ==
    ASSUME TreeInv, Lookup
    PROVE  TreeInv'
<1> USE NullIsNoKey
<1>1. /\ pc = "search" /\ pc' = "return" /\ node \in {Null, key}
      /\ tree' = tree /\ op' = op /\ key' = key /\ node' = node /\ parent' = parent
      /\ op \in {"lookup", "insert", "remove"}
      /\ answer' = [op |-> op, entry |-> IF node = Null THEN NoData ELSE tree.data[node]]
  BY DEF Lookup, Found
<1>2. tree \in Tree /\ key \in Keys
  BY <1>1 DEF TreeInv, TypeOK, Answered, Node
<1>3. answer' \in [op : {"none", "lookup", "insert", "remove"}, entry : Data \cup {NoData}]
      /\ answer' # NoAnswer
  <2>1. (IF node = Null THEN NoData ELSE tree.data[node]) \in Data \cup {NoData}
    BY <1>1, <1>2, TreeFields
  <2> QED
    BY <1>1, <2>1 DEF NoAnswer
<1>4. TypeOK' /\ Answered'
  BY <1>1, <1>2, <1>3 DEF TreeInv, TypeOK, Answered
<1>5. PICK B, H : Witnessed(B, H)
  BY DEF TreeInv
<1>6. Witnessed(B, H)'
  BY <1>1, <1>5 DEF Witnessed, AtRest, InFix
<1> QED
  BY <1>4, <1>6 DEF TreeInv

LEMMA ReturnKeeps ==
    ASSUME TreeInv, Return
    PROVE  TreeInv'
<1> USE NullIsNoKey
<1>1. /\ pc = "return" /\ pc' = "idle" /\ op' = "none" /\ key' = Null /\ node' = Null /\ parent' = Null
      /\ answer' = NoAnswer /\ tree' = tree
  BY DEF Return
<1>2. TypeOK' /\ Answered'
  BY <1>1 DEF TreeInv, TypeOK, Answered, Node, NoAnswer
<1>3. PICK B, H : Witnessed(B, H)
  BY DEF TreeInv
<1>4. Witnessed(B, H)'
  BY <1>1, <1>3 DEF Witnessed, AtRest, InFix
<1> QED
  BY <1>2, <1>4 DEF TreeInv

LEMMA InsertKeeps ==
    ASSUME TreeInv, NEW d \in Data, Insert(d)
    PROVE  TreeInv'
<1> USE NullIsNoKey
<1> PICK side : (IF parent < key THEN "right" ELSE "left") = side
  OBVIOUS
<1>1. /\ pc = "search" /\ op = "insert" /\ node = Null /\ d[1] = key
      /\ NewLeaf(tree, key, parent, d) = tree' /\ node' = key /\ pc' = "fix"
      /\ op' = op /\ key' = key /\ parent' = parent
      /\ answer' = [op |-> "insert", entry |-> NoData]
  BY DEF Insert, Found
<1>2. tree \in Tree /\ key \in Keys /\ parent \in Node /\ side \in Side
  BY <1>1 DEF TreeInv, TypeOK, Answered, Node, Side
<1>3. PICK B, H : Witnessed(B, H)
  BY DEF TreeInv
<1>4. /\ Sound(tree, B, Null) /\ Balanced(tree, H, Null, Null, Null) /\ Searching(B)
  BY <1>1, <1>3 DEF Witnessed, AtRest
<1>5. ~Occupied(tree, key)
  BY <1>1, <1>4 DEF Searching, Under
<1>6. parent # key /\ LeafPlace(tree, B, key, parent, side)
  <2>1. CASE parent = Null
    BY <1>1, <1>2, <1>4, <2>1 DEF Searching, LeafPlace
  <2>2. CASE parent # Null
    <3>1. parent \in Keys
      BY <1>2, <2>2 DEF Node
    <3>2. parent # key /\ Occupied(tree, parent) /\ tree.child[side][parent] = Null
      BY <1>1, <1>4, <2>2 DEF Searching
    <3>3. Before(side, key, parent)
      BY <1>2, <3>1, <3>2, KeysAssumption DEF Before
    <3>4. \A n \in Keys, z \in Side : parent \in Under(B, tree.child[z][n]) => Before(z, key, n)
      BY <1>4, <2>2 DEF Searching
    <3> QED
      BY <2>2, <3>2, <3>3, <3>4 DEF LeafPlace
  <2> QED
    BY <2>1, <2>2
<1>7. d \in {key} \X Copies
  BY <1>1 DEF Data
<1>8. Grown(tree, tree', key, parent, side, d)
  <2>1. parent # Null => side = IF parent > key THEN "left" ELSE "right"
    BY <1>2, <1>6, KeysAssumption DEF Node
  <2> QED
    BY <1>1, <1>2, <2>1, NewLeafFields
<1>9. \E B2, H2 : InsertAt(tree', B2, H2, key)
  BY <1>2, <1>4, <1>5, <1>6, <1>7, <1>8, LeafInserts
<1>10. TypeOK' /\ Answered'
  <2>1. tree' \in Tree
    BY <1>8 DEF Grown
  <2> QED
    BY <1>1, <1>2, <2>1 DEF TreeInv, TypeOK, Answered, Node, NoAnswer
<1>11. \E B2, H2 : Witnessed(B2, H2)'
  BY <1>1, <1>9 DEF Witnessed, AtRest, InFix
<1> QED
  BY <1>10, <1>11 DEF TreeInv

LEMMA InsertFixKeeps ==
    ASSUME TreeInv, Recolor \/ Rebalance
    PROVE  TreeInv'
<1> USE NullIsNoKey
<1>1. /\ pc = "fix" /\ op = "insert" /\ pc' = pc /\ op' = op /\ key' = key /\ parent' = parent /\ answer' = answer
  BY DEF Recolor, Rebalance, InFix
<1>2. PICK B, H : Witnessed(B, H)
  BY DEF TreeInv
<1>3. InsertAt(tree, B, H, node) /\ RedParent(tree, node)
  BY <1>1, <1>2 DEF Witnessed, InFix, Recolor, Rebalance
<1>4. \E B2, H2 : InsertAt(tree', B2, H2, node')
  <2>1. CASE Recolor
    <3>1. /\ Color(tree, Uncle(tree, node)) = "red"
          /\ node' = tree.parent[tree.parent[node]]
          /\ tree' = Paint(Paint(Paint(tree, tree.parent[tree.parent[node]], "red"), tree.parent[node], "black"),
                           Uncle(tree, node), "black")
      BY <2>1 DEF Recolor
    <3> QED
      BY <1>3, <3>1, RecolorInserts
  <2>2. CASE Rebalance
    <3>1. /\ Color(tree, Uncle(tree, node)) = "black"
          /\ node' = IF Inner(tree, node) THEN tree.parent[node] ELSE node
          /\ tree' = Upwards(Outwards(tree, node), node')
      BY <2>2 DEF Rebalance
    <3>2. CASE Inner(tree, node)
      <4> PICK R : Outwards(tree, node) = R
        OBVIOUS
      <4> PICK p : tree.parent[node] = p
        OBVIOUS
      <4>1. Rotate(tree, p, SideOf(tree, p)) = R /\ node' = p /\ tree' = Upwards(R, p)
        BY <3>1, <3>2 DEF Outwards
      <4>2. PICK B2 : InsertAt(R, B2, H, p) /\ RedParent(R, p) /\ Color(R, Uncle(R, p)) = "black" /\ ~Inner(R, p)
        BY <1>3, <3>1, <3>2, <4>1, OutwardsInserts
      <4>3. \E B3, H3 : InsertAt(Upwards(R, p), B3, H3, p)
        BY <4>2, UpwardsInserts
      <4> QED
        BY <4>1, <4>3
    <3>3. CASE ~Inner(tree, node)
      <4>1. node' = node /\ tree' = Upwards(tree, node)
        BY <3>1, <3>3 DEF Outwards
      <4>2. \E B3, H3 : InsertAt(Upwards(tree, node), B3, H3, node)
        BY <1>3, <3>1, <3>3, UpwardsInserts
      <4> QED
        BY <4>1, <4>2
    <3> QED
      BY <3>2, <3>3
  <2> QED
    BY <2>1, <2>2
<1>5. TypeOK' /\ Answered'
  <2>1. tree' \in Tree /\ node' \in Keys
    BY <1>4 DEF InsertAt
  <2> QED
    BY <1>1, <2>1 DEF TreeInv, TypeOK, Answered, Node
<1>6. \E B2, H2 : Witnessed(B2, H2)'
  BY <1>1, <1>4 DEF Witnessed, AtRest, InFix
<1> QED
  BY <1>5, <1>6 DEF TreeInv

LEMMA InsertedKeeps ==
    ASSUME TreeInv, Inserted
    PROVE  TreeInv'
<1> USE NullIsNoKey
<1>1. /\ pc = "fix" /\ op = "insert" /\ ~RedParent(tree, node) /\ tree' = Paint(tree, tree.root, "black") /\ pc' = "return"
      /\ op' = op /\ key' = key /\ node' = node /\ parent' = parent /\ answer' = answer
  BY DEF Inserted, InFix
<1>2. PICK B, H : Witnessed(B, H)
  BY DEF TreeInv
<1>3. InsertAt(tree, B, H, node)
  BY <1>1, <1>2 DEF Witnessed, InFix
<1>4. tree' \in Tree /\ Sound(tree', B, Null) /\ \E H2 : Balanced(tree', H2, Null, Null, Null)
  BY <1>1, <1>3, RootPainted
<1>5. TypeOK' /\ Answered'
  BY <1>1, <1>4 DEF TreeInv, TypeOK, Answered
<1>6. \E B2, H2 : Witnessed(B2, H2)'
  BY <1>1, <1>4 DEF Witnessed, AtRest, InFix
<1> QED
  BY <1>5, <1>6 DEF TreeInv

LEMMA UnlinkKeeps ==
    ASSUME TreeInv, NEW T, NEW B, NEW H, UnlinkAt(T, B, H, key), Unlink(T),
           op = "remove", op' = op, key' = key, parent' = parent,
           answer' \in [op : {"none", "lookup", "insert", "remove"}, entry : Data \cup {NoData}],
           answer' # NoAnswer
    PROVE  TreeInv'
<1> USE NullIsNoKey
<1>1. key \in Keys /\ node' = key /\ pc' \in {"fix", "splice"}
  BY DEF UnlinkAt, Unlink
<1>2. CASE T.color[key] = "black"
  <2>1. pc' = "fix" /\ Paint(T, key, Color(T, OnlyChild(T, key))) = tree'
    BY <1>2 DEF Unlink
  <2>2. PICK H2 : DeleteAt(tree', B, H2, key, key)
    BY <1>2, <2>1, UnlinkBlack
  <2>3. TypeOK' /\ Answered'
    BY <1>1, <2>1, <2>2 DEF TreeInv, TypeOK, Answered, Node, DeleteAt
  <2>4. Witnessed(B, H2)'
    BY <1>1, <2>1, <2>2 DEF Witnessed, AtRest, InFix
  <2> QED
    BY <2>3, <2>4 DEF TreeInv
<1>3. CASE T.color[key] # "black"
  <2>1. pc' = "splice" /\ T = tree'
    BY <1>3 DEF Unlink
  <2>2. SpliceAt(tree', B, H, key)
    BY <1>3, <2>1, UnlinkRed
  <2>3. TypeOK' /\ Answered'
    BY <1>1, <2>1, <2>2 DEF TreeInv, TypeOK, Answered, Node, SpliceAt
  <2>4. Witnessed(B, H)'
    BY <1>1, <2>1, <2>2 DEF Witnessed, AtRest, InFix
  <2> QED
    BY <2>3, <2>4 DEF TreeInv
<1> QED
  BY <1>2, <1>3

LEMMA RemoveKeeps ==
    ASSUME TreeInv, Remove
    PROVE  TreeInv'
<1> USE NullIsNoKey
<1>1. /\ pc = "search" /\ op = "remove" /\ node = key /\ node # Null
      /\ op' = op /\ key' = key /\ parent' = parent
      /\ answer' = [op |-> "remove", entry |-> tree.data[node]]
  BY DEF Remove, Found
<1>2. tree \in Tree /\ key \in Keys
  BY <1>1 DEF TreeInv, TypeOK, Answered, Node
<1>3. answer' \in [op : {"none", "lookup", "insert", "remove"}, entry : Data \cup {NoData}]
      /\ answer' # NoAnswer
  BY <1>1, <1>2, TreeFields DEF NoAnswer
<1>4. PICK B, H : Witnessed(B, H)
  BY DEF TreeInv
<1>5. Sound(tree, B, Null) /\ Balanced(tree, H, Null, Null, Null) /\ Searching(B)
  BY <1>1, <1>4 DEF Witnessed, AtRest
<1>6. CASE TwoChildren(tree, key)
  <2>1. node' = tree.child["right"][key] /\ pc' = "min" /\ tree' = tree
    BY <1>6 DEF Remove
  <2>2. tree.child["left"][key] # Null /\ tree.child["right"][key] # Null /\ tree.child["right"][key] \in Keys
    BY <1>2, <1>6, TreeFields DEF TwoChildren, Node, Side
  <2>3. GettingMin(B)'
    BY <1>1, <2>1, <2>2 DEF GettingMin, Under
  <2>4. TypeOK' /\ Answered'
    BY <1>1, <1>2, <1>3, <2>1, <2>2 DEF TreeInv, TypeOK, Answered, Node
  <2>5. Witnessed(B, H)'
    BY <1>1, <1>5, <2>1, <2>3 DEF Witnessed, AtRest, InFix
  <2> QED
    BY <2>4, <2>5 DEF TreeInv
<1>7. CASE ~TwoChildren(tree, key)
  <2>1. Unlink(tree)
    BY <1>7 DEF Remove
  <2>2. \E side \in Side : tree.child[side][key] = Null
    BY <1>7 DEF TwoChildren, Side
  <2>3. Occupied(tree, key)
    <3>1. CASE parent = Null
      BY <1>1, <1>5, <3>1 DEF Searching, Occupied
    <3>2. CASE parent # Null
      <4>1. parent \in Keys
        BY <3>2 DEF TreeInv, TypeOK, Node
      <4>2. tree.parent[key] = parent
        BY <1>1, <1>5, <3>2, <4>1 DEF Searching, Sound, Linked, Side
      <4> QED
        BY <3>2, <4>2 DEF Occupied
    <3> QED
      BY <3>1, <3>2
  <2>4. Sound(tree, B, key)
    <3>1. \A n \in Keys, z \in Side : Null \notin Under(B, tree.child[z][n])
      BY <1>2, <1>5, TreeFields DEF Sound, Shape, Under, Node
    <3> QED
      BY <1>5, <3>1 DEF Sound, Ordered
  <2>5. UnlinkAt(tree, B, H, key)
    BY <1>2, <1>5, <2>2, <2>3, <2>4 DEF UnlinkAt
  <2> QED
    BY <1>1, <1>3, <2>1, <2>5, UnlinkKeeps
<1> QED
  BY <1>6, <1>7

LEMMA GetMinKeeps ==
    ASSUME TreeInv, GetMin
    PROVE  TreeInv'
<1> USE NullIsNoKey
<1> PICK next : tree.child["left"][node] = next
  OBVIOUS
<1>1. /\ pc = "min" /\ next # Null /\ node' = next
      /\ tree' = tree /\ pc' = pc /\ op' = op /\ key' = key /\ parent' = parent /\ answer' = answer
  BY DEF GetMin
<1>2. PICK B, H : Witnessed(B, H)
  BY DEF TreeInv
<1>3. Sound(tree, B, Null) /\ Balanced(tree, H, Null, Null, Null) /\ GettingMin(B)
  BY <1>1, <1>2 DEF Witnessed, AtRest
<1>4. tree \in Tree /\ node \in Keys /\ next \in Keys /\ "left" \in Side /\ "right" \in Side
  <2>1. tree \in Tree /\ node \in Keys /\ "left" \in Side /\ "right" \in Side
    BY <1>3 DEF TreeInv, TypeOK, Node, GettingMin, Side
  <2> QED
    BY <1>1, <2>1, TreeFields DEF Node
<1>5. B[node] = {node} \cup Under(B, next) \cup Under(B, tree.child["right"][node]) /\ B[node] \subseteq Keys
      /\ next \in B[next]
  BY <1>3, <1>4 DEF Sound, Shape
<1>6. next < node /\ \A m \in Under(B, tree.child["right"][node]) : node < m
  <2>1. \A z \in Side : \A m \in Under(B, tree.child[z][node]) : m \in Keys /\ Before(z, m, node)
    <3>1. \A z \in Side : Under(B, tree.child[z][node]) \subseteq Keys
      BY <1>3, <1>4, TreeFields DEF Sound, Shape, Under, Node
    <3> QED
      BY <1>3, <1>4, <3>1 DEF Sound, Ordered
  <2> QED
    BY <1>1, <1>4, <1>5, <2>1 DEF Before, Under
<1>7. ASSUME NEW m \in Under(B, tree.child["right"][key])
      PROVE  m \in B[next] \/ m > next
  <2>1. m \in B[node] \/ m > node
    BY <1>3 DEF GettingMin
  <2>2. m \in Keys
    <3>1. key \in Keys
      BY <1>1 DEF TreeInv, TypeOK, Answered, Node
    <3>2. tree.child["right"][key] \in Node
      BY <1>4, <3>1, TreeFields
    <3> QED
      BY <1>3, <3>2 DEF Sound, Shape, Under, Node
  <2>3. CASE m \in Under(B, next)
    BY <1>1, <2>3 DEF Under
  <2>4. CASE m = node \/ m > node \/ m \in Under(B, tree.child["right"][node])
    BY <1>4, <1>6, <2>2, <2>4, KeysAssumption
  <2> QED
    BY <1>5, <2>1, <2>3, <2>4
<1>8. GettingMin(B)'
  <2>1. B[next] \subseteq B[node]
    BY <1>1, <1>5 DEF Under
  <2> QED
    BY <1>1, <1>3, <1>7, <2>1 DEF GettingMin
<1>9. TypeOK' /\ Answered'
  BY <1>1, <1>4 DEF TreeInv, TypeOK, Answered, Node
<1>10. Witnessed(B, H)'
  BY <1>1, <1>3, <1>8 DEF Witnessed, AtRest, InFix
<1> QED
  BY <1>9, <1>10 DEF TreeInv

LEMMA RemoveNextKeeps ==
    ASSUME TreeInv, RemoveNext
    PROVE  TreeInv'
<1> PICK T : CopyEntry(tree, key, node) = T
  OBVIOUS
<1>1. /\ pc = "min" /\ tree.child["left"][node] = Null /\ Unlink(T)
      /\ op' = op /\ key' = key /\ parent' = parent /\ answer' = answer
  BY DEF RemoveNext
<1>2. PICK B, H : Witnessed(B, H)
  BY DEF TreeInv
<1>3. Sound(tree, B, Null) /\ Balanced(tree, H, Null, Null, Null) /\ GettingMin(B)
  BY <1>1, <1>2 DEF Witnessed, AtRest
<1>4. tree \in Tree /\ node \in Keys /\ key \in Keys /\ op = "remove"
  BY <1>1, <1>3 DEF TreeInv, TypeOK, Node, GettingMin, Answered
<1>5. Follows(tree, B, key, node)
  BY <1>1, <1>3 DEF GettingMin, Follows
<1>6. PICK B2, H2 : UnlinkAt(T, B2, H2, key)
  BY <1>3, <1>4, <1>5, CopyUnlinks
<1>7. answer' \in [op : {"none", "lookup", "insert", "remove"}, entry : Data \cup {NoData}] /\ answer' # NoAnswer
  BY <1>1 DEF TreeInv, TypeOK, Answered
<1> QED
  BY <1>1, <1>4, <1>6, <1>7, UnlinkKeeps

LEMMA DeleteCaseKeeps ==
    ASSUME TreeInv, DeleteCase
    PROVE  TreeInv'
<1> USE NullIsNoKey
<1> PICK T : RedSibling(tree, node) = T
  OBVIOUS
<1> PICK p : T.parent[node] = p
  OBVIOUS
<1> PICK s : Sibling(T, node) = s
  OBVIOUS
<1>1. /\ pc = "fix" /\ op = "remove" /\ tree.parent[node] # Null
      /\ op' = op /\ key' = key /\ parent' = parent /\ answer' = answer
  BY DEF DeleteCase, InFix
<1>2. /\ ~AllBlack(T, s) =>
           tree' = FarNephew(OuterNephew(T, node), node) /\ pc' = "splice" /\ node' = node
      /\ AllBlack(T, s) /\ Color(T, p) = "black" =>
           tree' = Paint(T, s, "red") /\ node' = p /\ pc' = pc
      /\ AllBlack(T, s) /\ Color(T, p) # "black" =>
           tree' = Paint(Paint(T, s, "red"), p, "black") /\ pc' = "splice" /\ node' = node
  BY DEF DeleteCase
<1>3. PICK B, H : Witnessed(B, H)
  BY DEF TreeInv
<1>4. DeleteAt(tree, B, H, node, key)
  BY <1>1, <1>3 DEF Witnessed, InFix
<1>5. /\ ~AllBlack(T, s) =>
           \E B2, H2 : SpliceAt(FarNephew(OuterNephew(T, node), node), B2, H2, key)
      /\ AllBlack(T, s) /\ Color(T, p) = "black" =>
           \E B2, H2 : DeleteAt(Paint(T, s, "red"), B2, H2, p, key)
      /\ AllBlack(T, s) /\ Color(T, p) # "black" =>
           \E B2, H2 : SpliceAt(Paint(Paint(T, s, "red"), p, "black"), B2, H2, key)
  BY <1>1, <1>4, CaseDeletes
<1>6. \/ pc' = "splice" /\ node' = node /\ \E B2, H2 : SpliceAt(tree', B2, H2, key)
      \/ pc' = "fix" /\ \E B2, H2 : DeleteAt(tree', B2, H2, node', key)
  BY <1>1, <1>2, <1>5
<1>7. CASE pc' = "splice" /\ node' = node /\ \E B2, H2 : SpliceAt(tree', B2, H2, key)
  <2>1. PICK B2, H2 : SpliceAt(tree', B2, H2, key)
    BY <1>7
  <2>2. TypeOK' /\ Answered'
    BY <1>1, <1>7, <2>1 DEF TreeInv, TypeOK, Answered, SpliceAt
  <2>3. Witnessed(B2, H2)'
    BY <1>1, <1>7, <2>1 DEF Witnessed, AtRest, InFix
  <2> QED
    BY <2>2, <2>3 DEF TreeInv
<1>8. CASE pc' = "fix" /\ \E B2, H2 : DeleteAt(tree', B2, H2, node', key)
  <2>1. PICK B2, H2 : DeleteAt(tree', B2, H2, node', key)
    BY <1>8
  <2>2. TypeOK' /\ Answered'
    BY <1>1, <1>8, <2>1 DEF TreeInv, TypeOK, Answered, DeleteAt, Node
  <2>3. Witnessed(B2, H2)'
    BY <1>1, <1>8, <2>1 DEF Witnessed, AtRest, InFix
  <2> QED
    BY <2>2, <2>3 DEF TreeInv
<1> QED
  BY <1>6, <1>7, <1>8

LEMMA DeleteRootKeeps ==
    ASSUME TreeInv, DeleteRoot
    PROVE  TreeInv'
<1>1. /\ pc = "fix" /\ op = "remove" /\ tree.parent[node] = Null /\ pc' = "splice"
      /\ tree' = tree /\ op' = op /\ key' = key /\ node' = node /\ parent' = parent /\ answer' = answer
  BY DEF DeleteRoot, InFix
<1>2. PICK B, H : Witnessed(B, H)
  BY DEF TreeInv
<1>3. SpliceAt(tree, B, H, key)
  BY <1>1, <1>2, RootDeletes DEF Witnessed, InFix
<1>4. TypeOK' /\ Answered'
  BY <1>1 DEF TreeInv, TypeOK, Answered
<1>5. Witnessed(B, H)'
  BY <1>1, <1>3 DEF Witnessed, AtRest, InFix
<1> QED
  BY <1>4, <1>5 DEF TreeInv

\* Splice leaves a tree from which the node of the key is gone.
LEMMA SpliceSplices ==
    ASSUME TreeInv, Splice
    PROVE  Spliced(tree, tree', key, OnlyChild(tree, key))
<1> PICK c : OnlyChild(tree, key) = c
  OBVIOUS
<1> PICK P : ReplaceNode(tree, key, c) = P
  OBVIOUS
<1>1. /\ pc = "splice"
      /\ tree' = FreeNode(IF tree.parent[key] = Null /\ c # Null THEN Paint(P, c, "black") ELSE P, key)
  BY DEF Splice
<1>2. PICK B, H : Witnessed(B, H)
  BY DEF TreeInv
<1>3. SpliceAt(tree, B, H, key)
  BY <1>1, <1>2 DEF Witnessed
<1>4. tree \in Tree /\ Linked(tree) /\ Shape(tree, B) /\ key \in Keys /\ Occupied(tree, key)
  BY <1>3 DEF SpliceAt, Sound, Bare
<1>5. c \in Node
  BY <1>4, TreeFields DEF OnlyChild, Side
<1> QED
  BY <1>1, <1>4, <1>5, SpliceFields

LEMMA SpliceKeeps ==
    ASSUME TreeInv, Splice
    PROVE  TreeInv'
<1>1. /\ pc = "splice" /\ pc' = "return"
      /\ op' = op /\ key' = key /\ node' = node /\ parent' = parent /\ answer' = answer
  BY DEF Splice
<1>2. PICK B, H : Witnessed(B, H)
  BY DEF TreeInv
<1>3. SpliceAt(tree, B, H, key)
  BY <1>1, <1>2 DEF Witnessed
<1>4. Spliced(tree, tree', key, OnlyChild(tree, key))
  BY SpliceSplices
<1>5. (\E B2 : Sound(tree', B2, Null)) /\ (\E H2 : Balanced(tree', H2, Null, Null, Null))
  BY <1>3, <1>4, SpliceSound
<1>6. tree' \in Tree
  BY <1>4 DEF Spliced
<1>7. TypeOK' /\ Answered'
  BY <1>1, <1>6 DEF TreeInv, TypeOK, Answered
<1>8. \E B2, H2 : Witnessed(B2, H2)'
  BY <1>1, <1>5 DEF Witnessed, AtRest, InFix
<1> QED
  BY <1>7, <1>8 DEF TreeInv

LEMMA InvStep == TreeInv /\ [Next]_vars => TreeInv'
<1> SUFFICES ASSUME TreeInv, [Next]_vars
             PROVE  TreeInv'
  OBVIOUS
<1>1. CASE Step
  BY <1>1, DescendKeeps, LookupKeeps, ReturnKeeps, InsertKeeps, InsertFixKeeps, InsertedKeeps,
     RemoveKeeps, GetMinKeeps, RemoveNextKeeps, DeleteCaseKeeps, DeleteRootKeeps, SpliceKeeps DEF Step
<1>2. CASE \E o \in {"lookup", "insert", "remove"}, k \in Keys : Call(o, k)
  BY <1>2, CallKeeps
<1>3. CASE UNCHANGED vars
  <2>1. /\ tree' = tree /\ pc' = pc /\ op' = op /\ key' = key
        /\ node' = node /\ parent' = parent /\ answer' = answer
    BY <1>3 DEF vars
  <2>2. PICK B, H : Witnessed(B, H)
    BY DEF TreeInv
  <2>3. TypeOK' /\ Answered'
    BY <2>1 DEF TreeInv, TypeOK, Answered
  <2>4. Witnessed(B, H)'
    BY <2>1, <2>2 DEF Witnessed, AtRest, Searching, GettingMin, InFix
  <2> QED
    BY <2>3, <2>4 DEF TreeInv
<1> QED
  BY <1>1, <1>2, <1>3 DEF Next

LEMMA InvHolds == Spec => []TreeInv
BY InvStarts, InvStep, PTL DEF Spec

-----------------------------------------------------------------------------
(* The recursive functions of the properties *)

\* Below computes the witness B.
LEMMA BelowIsUnder ==
    ASSUME NEW T \in Tree, NEW B, Linked(T), Shape(T, B)
    PROVE  \A n \in Node : Below(T)[n] = Under(B, n)
<1> USE NullIsNoKey
<1> DEFINE Step1(f) == [n \in Node |-> IF n = Null THEN {}
                                       ELSE {n} \cup f[T.child["left"][n]] \cup f[T.child["right"][n]]]
<1>1. \A n \in Keys : T.child["left"][n] \in Node /\ T.child["right"][n] \in Node
  BY TreeFields DEF Side
<1>2. [n \in Node |-> Under(B, n)] = Step1([n \in Node |-> Under(B, n)])
  <2>1. ASSUME NEW n \in Node
        PROVE  Under(B, n) = IF n = Null THEN {}
                             ELSE {n} \cup Under(B, T.child["left"][n]) \cup Under(B, T.child["right"][n])
    BY DEF Shape, Under, Node
  <2>2. Null \in Node
    BY DEF Node
  <2> QED
    BY <1>1, <2>1, <2>2 DEF Node
<1>3. Below(T) = CHOOSE f : f = Step1(f)
  BY DEF Below
<1> PICK f : Below(T) = f
  OBVIOUS
<1>4. f = Step1(f)
  BY <1>2, <1>3
<1>5. f[Null] = {} /\ \A n \in Keys : f[n] = {n} \cup f[T.child["left"][n]] \cup f[T.child["right"][n]]
  BY <1>4 DEF Node
<1> PICK W : {n \in Keys : f[n] # B[n]} = W
  OBVIOUS
<1>6. W = {}
  <2> SUFFICES ASSUME W # {}
               PROVE  FALSE
    OBVIOUS
  <2>1. PICK n \in W : \A side \in Side : T.child[side][n] \notin W
    BY LowestNode
  <2>2. \A side \in Side : f[T.child[side][n]] = Under(B, T.child[side][n])
    BY <1>1, <1>5, <2>1 DEF Under, Node, Side
  <2>3. f[n] = B[n]
    <3>1. /\ f[T.child["left"][n]] = Under(B, T.child["left"][n])
          /\ f[T.child["right"][n]] = Under(B, T.child["right"][n])
      BY <2>2 DEF Side
    <3>2. B[n] = {n} \cup Under(B, T.child["left"][n]) \cup Under(B, T.child["right"][n])
      BY <2>1 DEF Shape
    <3>3. f[n] = {n} \cup f[T.child["left"][n]] \cup f[T.child["right"][n]]
      BY <1>5, <2>1
    <3> QED
      BY <3>1, <3>2, <3>3
  <2> QED
    BY <2>1, <2>3
<1> QED
  BY <1>5, <1>6 DEF Node, Under

\* BlackHeight computes the witness H.
LEMMA BlackHeightIsHeight ==
    ASSUME NEW T \in Tree, NEW B, Linked(T), Shape(T, B), NEW H, Even(T, H, Null, Null)
    PROVE  \A n \in Node : BlackHeight(T)[n] = Height(H, Null, n)
<1> USE NullIsNoKey
<1> DEFINE Step1(f) == [n \in Node |-> IF n = Null THEN 0
                                       ELSE f[T.child["left"][n]] + (IF T.color[n] = "black" THEN 1 ELSE 0)]
<1>1. \A n \in Keys : T.child["left"][n] \in Node
  BY TreeFields DEF Side
<1>2. \A n \in Keys : H[n] = Height(H, Null, T.child["left"][n]) + (IF T.color[n] = "black" THEN 1 ELSE 0)
  BY DEF Even, Weight, Side
<1>3. [n \in Node |-> Height(H, Null, n)] = Step1([n \in Node |-> Height(H, Null, n)])
  <2>1. ASSUME NEW n \in Node
        PROVE  Height(H, Null, n) = IF n = Null THEN 0
                             ELSE Height(H, Null, T.child["left"][n]) + (IF T.color[n] = "black" THEN 1 ELSE 0)
    BY <1>2 DEF Height, Node
  <2> QED
    BY <1>1, <2>1 DEF Node
<1>4. BlackHeight(T) = CHOOSE f : f = Step1(f)
  BY DEF BlackHeight
<1> PICK f : BlackHeight(T) = f
  OBVIOUS
<1>5. f = Step1(f)
  BY <1>3, <1>4
<1>6. f[Null] = 0 /\ \A n \in Keys : f[n] = f[T.child["left"][n]] + (IF T.color[n] = "black" THEN 1 ELSE 0)
  BY <1>5 DEF Node
<1> PICK W : {n \in Keys : f[n] # H[n]} = W
  OBVIOUS
<1>7. W = {}
  <2> SUFFICES ASSUME W # {}
               PROVE  FALSE
    OBVIOUS
  <2>1. PICK n \in W : \A side \in Side : T.child[side][n] \notin W
    BY LowestNode
  <2>2. f[T.child["left"][n]] = Height(H, Null, T.child["left"][n])
    BY <1>1, <1>6, <2>1 DEF Height, Node, Side
  <2>3. f[n] = H[n]
    BY <1>2, <1>6, <2>1, <2>2
  <2> QED
    BY <2>1, <2>3
<1> QED
  BY <1>6, <1>7 DEF Node, Height

-----------------------------------------------------------------------------
(* The properties *)

LEMMA InvSound ==
    ASSUME TreeInv
    PROVE  tree \in Tree /\ \E B : Sound(tree, B, Doomed)
<1>1. PICK B, H : Witnessed(B, H)
  BY DEF TreeInv
<1>2. tree \in Tree /\ pc \in {"idle", "search", "min", "fix", "splice", "return"}
      /\ (pc = "fix" => op \in {"insert", "remove"})
  BY DEF TreeInv, TypeOK, Answered
<1>3. CASE AtRest
  BY <1>1, <1>2, <1>3 DEF Witnessed, Doomed, AtRest, InFix
<1>4. CASE pc = "splice"
  BY <1>1, <1>2, <1>4 DEF Witnessed, Doomed, SpliceAt
<1>5. CASE InFix("insert")
  BY <1>1, <1>2, <1>5 DEF Witnessed, Doomed, InFix, InsertAt
<1>6. CASE InFix("remove")
  BY <1>1, <1>2, <1>6 DEF Witnessed, Doomed, InFix, DeleteAt
<1> QED
  BY <1>2, <1>3, <1>4, <1>5, <1>6 DEF AtRest, InFix

\* Links and order hold at every moment.
THEOREM SearchTreeHolds == Spec => []SearchTree
<1>1. ASSUME TreeInv
      PROVE  SearchTree
  <2> USE NullIsNoKey
  <2>1. PICK B : tree \in Tree /\ Sound(tree, B, Doomed)
    BY <1>1, InvSound
  <2>2. Linked(tree) /\ Shape(tree, B)
    BY <2>1 DEF Sound
  <2>3. \A n \in Node : Below(tree)[n] = Under(B, n)
    BY <2>1, <2>2, BelowIsUnder
  <2>4. tree.root \in Node /\ \A n \in Keys, side \in Side : tree.child[side][n] \in Node
    BY <2>1, TreeFields
  <2>5. ASSUME NEW n \in Below(tree)[tree.root]
        PROVE  /\ n = tree.root <=> tree.parent[n] = Null
               /\ \A side \in Side : tree.child[side][n] # Null => tree.parent[tree.child[side][n]] = n
               /\ \A m \in Below(tree)[tree.child["left"][n]] \ {Doomed} : m < n
               /\ \A m \in Below(tree)[tree.child["right"][n]] \ {Doomed} : m > n
    <3>1. n \in Keys /\ Occupied(tree, n)
      <4>1. n \in Under(B, tree.root)
        BY <2>3, <2>4
      <4>2. n \in Keys
        BY <2>2, <2>4, <4>1 DEF Shape, Under, Node
      <4> QED
        BY <2>2, <4>1, <4>2 DEF Shape
    <3>2. n = tree.root <=> tree.parent[n] = Null
      BY <2>1, <2>2, <3>1, RootFacts
    <3>3. \A side \in Side : tree.child[side][n] # Null => tree.parent[tree.child[side][n]] = n
      BY <2>2, <3>1 DEF Linked
    <3>4. \A side \in Side : \A m \in Under(B, tree.child[side][n]) \ {Doomed} : m \in Keys /\ Before(side, m, n)
      <4>1. \A side \in Side : Under(B, tree.child[side][n]) \subseteq Keys
        BY <2>2, <2>4, <3>1 DEF Shape, Under, Node
      <4> QED
        BY <2>1, <3>1, <4>1 DEF Sound, Ordered
    <3>5. /\ \A m \in Below(tree)[tree.child["left"][n]] \ {Doomed} : m < n
          /\ \A m \in Below(tree)[tree.child["right"][n]] \ {Doomed} : m > n
      BY <2>3, <2>4, <3>1, <3>4, KeysAssumption DEF Before, Side
    <3> QED
      BY <3>2, <3>3, <3>5
  <2> QED
    BY <2>5 DEF SearchTree
<1> QED
  BY <1>1, InvHolds, PTL

\* Every call leaves the tree balanced.
THEOREM RedBlackHolds == Spec => []RedBlack
<1>1. ASSUME TreeInv
      PROVE  RedBlack
  <2> USE NullIsNoKey
  <2> SUFFICES ASSUME AtRest
               PROVE  /\ Color(tree, tree.root) = "black"
                      /\ \A n \in Below(tree)[tree.root] :
                           /\ BlackHeight(tree)[tree.child["left"][n]] = BlackHeight(tree)[tree.child["right"][n]]
                           /\ tree.color[n] = "red" =>
                                \A side \in Side : Color(tree, tree.child[side][n]) = "black"
    BY DEF RedBlack, AtRest
  <2>1. tree \in Tree
    BY <1>1 DEF TreeInv, TypeOK
  <2>2. PICK B, H : Sound(tree, B, Null) /\ Balanced(tree, H, Null, Null, Null)
    BY <1>1 DEF TreeInv, Witnessed
  <2>3. Linked(tree) /\ Shape(tree, B) /\ Even(tree, H, Null, Null) /\ H \in [Keys -> Nat]
    BY <2>2 DEF Sound, Balanced, Even
  <2>4. \A n \in Node : Below(tree)[n] = Under(B, n) /\ BlackHeight(tree)[n] = Height(H, Null, n)
    BY <2>1, <2>3, BelowIsUnder, BlackHeightIsHeight
  <2>5. tree.root \in Node /\ \A n \in Keys, side \in Side : tree.child[side][n] \in Node
    BY <2>1, TreeFields
  <2>6. Color(tree, tree.root) = "black"
    BY <2>2 DEF Balanced, RootBlack, Color
  <2>7. ASSUME NEW n \in Below(tree)[tree.root]
        PROVE  /\ BlackHeight(tree)[tree.child["left"][n]] = BlackHeight(tree)[tree.child["right"][n]]
               /\ tree.color[n] = "red" => \A side \in Side : Color(tree, tree.child[side][n]) = "black"
    <3>1. n \in Keys
      BY <2>3, <2>4, <2>5 DEF Shape, Under, Node
    <3>2. /\ tree.child["left"][n] \in Node /\ tree.child["right"][n] \in Node
          /\ H[n] = Height(H, Null, tree.child["left"][n]) + Weight(tree, Null, n)
          /\ H[n] = Height(H, Null, tree.child["right"][n]) + Weight(tree, Null, n)
      BY <2>3, <2>5, <3>1 DEF Even, Side
    <3>3. /\ Height(H, Null, tree.child["left"][n]) \in Nat
          /\ Height(H, Null, tree.child["right"][n]) \in Nat
          /\ Weight(tree, Null, n) \in Nat
      BY <2>3, <3>2 DEF Height, Weight, Node
    <3>4. tree.color[n] = "red" => \A side \in Side : Color(tree, tree.child[side][n]) = "black"
      BY <2>2, <3>1 DEF Balanced, NoRedRed, Color
    <3> QED
      BY <2>4, <3>2, <3>3, <3>4
  <2> QED
    BY <2>6, <2>7
<1> QED
  BY <1>1, InvHolds, PTL

-----------------------------------------------------------------------------
(* The tree is a dictionary *)

\* The entry of the key is gone, and its node not yet.
Removing == op = "remove" /\ pc \in {"min", "fix", "splice"}

\* The entries of a tree are its data.
DataLeft == [k \in Keys |-> IF Removing /\ k = key THEN NoData ELSE tree.data[k]]

LEMMA EntriesAreData == TreeInv => Entries = DataLeft
<1> SUFFICES ASSUME TreeInv
             PROVE  Entries = DataLeft
  OBVIOUS
<1>1. PICK B : tree \in Tree /\ Sound(tree, B, Doomed)
  BY InvSound
<1>2. \A n \in Node : Below(tree)[n] = Under(B, n)
  BY <1>1, BelowIsUnder DEF Sound
<1>3. ASSUME NEW k \in Keys, k \notin Below(tree)[tree.root]
      PROVE  tree.data[k] = NoData
  <2>1. ~Occupied(tree, k)
    BY <1>1, <1>2, <1>3, TreeFields DEF Sound, Shape
  <2> QED
    BY <1>1, <2>1 DEF Sound, Stored
<1> QED
  BY <1>3 DEF Entries, DataLeft, Removing

LEMMA EntriesAreDataAfter == TreeInv' => Entries' = DataLeft'
<1>1. (TreeInv => Entries = DataLeft)'
  BY EntriesAreData, PTL
<1> QED
  BY <1>1

\* What a dictionary holds for the key of a call.
LEMMA AnswerIsEntry ==
    ASSUME TreeInv, NEW o \in {"lookup", "insert", "remove"}, Found(o)
    PROVE  /\ key \in Keys /\ Dict!Answer(o, key)
           /\ Entries = tree.data /\ tree.data \in [Keys -> Data \cup {NoData}]
           /\ node = Null <=> tree.data[key] = NoData
<1> USE NullIsNoKey
<1>1. pc = "search" /\ op = o /\ node \in {Null, key}
      /\ answer' = [op |-> o, entry |-> IF node = Null THEN NoData ELSE tree.data[node]]
  BY DEF Found
<1>2. tree \in Tree /\ key \in Keys
  BY <1>1 DEF TreeInv, TypeOK, Answered, Node
<1>3. PICK B, H : Witnessed(B, H)
  BY DEF TreeInv
<1>4. Sound(tree, B, Null) /\ Searching(B)
  BY <1>1, <1>3 DEF Witnessed, AtRest
<1>5. tree.data \in [Keys -> Data \cup {NoData}]
  BY <1>2 DEF Tree
<1>6. Entries = tree.data
  BY <1>1, <1>5, EntriesAreData DEF DataLeft, Removing
<1>7. node = Null <=> tree.data[key] = NoData
  <2>1. CASE node = Null
    <3>1. ~Occupied(tree, key)
      BY <1>4, <2>1 DEF Searching, Under
    <3> QED
      BY <1>2, <1>4, <2>1, <3>1 DEF Sound, Stored
  <2>2. CASE node # Null
    <3>1. node = key
      BY <1>1, <2>2
    <3>2. Occupied(tree, key)
      <4>1. CASE parent = Null
        BY <1>4, <3>1, <4>1 DEF Searching, Occupied
      <4>2. CASE parent # Null
        <5>1. parent \in Keys
          BY <4>2 DEF TreeInv, TypeOK, Node
        <5>2. tree.parent[key] = parent
          BY <1>4, <2>2, <3>1, <4>2, <5>1 DEF Searching, Sound, Linked, Side
        <5> QED
          BY <4>2, <5>2 DEF Occupied
      <4> QED
        BY <4>1, <4>2
    <3>3. tree.data[key] \in {key} \X Copies
      BY <1>2, <1>4, <3>2 DEF Sound, Stored
    <3>4. tree.data[key] \in Data
      BY <1>2, <3>3 DEF Data
    <3> QED
      BY <2>2, <3>4, DataAssumption
  <2> QED
    BY <2>1, <2>2
<1>8. Dict!Answer(o, key)
  <2>1. answer = NoAnswer
    BY <1>4 DEF Searching
  <2>2. (IF node = Null THEN NoData ELSE tree.data[node]) = Entries[key]
    BY <1>1, <1>6, <1>7
  <2> QED
    BY <1>1, <2>1, <2>2 DEF Dict!Answer, Dict!NoAnswer, NoAnswer
<1> QED
  BY <1>2, <1>5, <1>6, <1>7, <1>8

\* The steps of insertion and removal move nodes, never what they hold.
KeepsData(T, R) == DOMAIN R = DOMAIN T /\ R.data = T.data

LEMMA AssignmentsKeep ==
    ASSUME NEW T, "data" \in DOMAIN T, NEW n, NEW m, NEW side, NEW c
    PROVE  /\ KeepsData(T, Paint(T, n, c))
           /\ KeepsData(T, SetRoot(T, n))
           /\ KeepsData(T, SetParent(T, n, m))
           /\ KeepsData(T, SetChild(T, n, side, m))
BY DEF KeepsData, Paint, SetRoot, SetParent, SetChild

LEMMA KeepsOn ==
    ASSUME NEW T, NEW R, NEW P, "data" \in DOMAIN T, KeepsData(T, R)
    PROVE  "data" \in DOMAIN R /\ (KeepsData(R, P) => KeepsData(T, P))
BY DEF KeepsData

LEMMA RotateKeepsData ==
    ASSUME NEW T, "data" \in DOMAIN T, NEW p, NEW side
    PROVE  KeepsData(T, Rotate(T, p, side))
<1> PICK q : T.child[Opposite(side)][p] = q
  OBVIOUS
<1> PICK inner : T.child[side][q] = inner
  OBVIOUS
<1> PICK T1 : Hang(T, p, q) = T1
  OBVIOUS
<1> PICK T2 : SetParent(T1, q, T.parent[p]) = T2
  OBVIOUS
<1> PICK T3 : SetParent(T2, p, q) = T3
  OBVIOUS
<1> PICK T4 : SetChild(T3, p, Opposite(side), inner) = T4
  OBVIOUS
<1> PICK T5 : SetParent(T4, inner, p) = T5
  OBVIOUS
<1>1. Rotate(T, p, side) = SetChild(T5, q, side, p)
  BY DEF Rotate
<1>2. KeepsData(T, T1)
  BY AssignmentsKeep DEF Hang
<1>3. "data" \in DOMAIN T1
  BY <1>2, KeepsOn
<1>4. KeepsData(T1, T2)
  BY <1>3, AssignmentsKeep
<1>5. "data" \in DOMAIN T2
  BY <1>3, <1>4, KeepsOn
<1>6. KeepsData(T2, T3)
  BY <1>5, AssignmentsKeep
<1>7. "data" \in DOMAIN T3
  BY <1>5, <1>6, KeepsOn
<1>8. KeepsData(T3, T4)
  BY <1>7, AssignmentsKeep
<1>9. "data" \in DOMAIN T4
  BY <1>7, <1>8, KeepsOn
<1>10. KeepsData(T4, T5)
  BY <1>9, AssignmentsKeep
<1>11. "data" \in DOMAIN T5
  BY <1>9, <1>10, KeepsOn
<1>12. KeepsData(T5, SetChild(T5, q, side, p))
  BY <1>11, AssignmentsKeep
<1> QED
  BY <1>1, <1>2, <1>4, <1>6, <1>8, <1>10, <1>12 DEF KeepsData

\* Two or three nodes are painted, then one is moved down.
LEMMA PaintRotateKeepsData ==
    ASSUME NEW T, "data" \in DOMAIN T, NEW p, NEW side, NEW a, NEW b, NEW ca, NEW cb
    PROVE  /\ KeepsData(T, Paint(Paint(T, a, ca), b, cb))
           /\ KeepsData(T, Rotate(Paint(Paint(T, a, ca), b, cb), p, side))
<1> PICK T1 : Paint(T, a, ca) = T1
  OBVIOUS
<1> PICK T2 : Paint(T1, b, cb) = T2
  OBVIOUS
<1>1. KeepsData(T, T1)
  BY AssignmentsKeep
<1>2. KeepsData(T1, T2)
  BY <1>1, KeepsOn, AssignmentsKeep
<1>3. KeepsData(T, T2)
  BY <1>1, <1>2, KeepsOn
<1>4. KeepsData(T2, Rotate(T2, p, side))
  BY <1>3, KeepsOn, RotateKeepsData
<1>5. KeepsData(T, Rotate(T2, p, side))
  BY <1>3, <1>4, KeepsOn
<1> QED
  BY <1>3, <1>5

\* A step of insertion after the new leaf.
LEMMA InsertFixKeepsData ==
    ASSUME tree \in Tree, Recolor \/ Rebalance \/ Inserted
    PROVE  tree'.data = tree.data
<1>1. "data" \in DOMAIN tree
  BY DEF Tree
<1>2. CASE Inserted
  BY <1>1, <1>2, AssignmentsKeep DEF Inserted, KeepsData
<1>3. CASE Recolor
  <2> PICK p : tree.parent[node] = p
    OBVIOUS
  <2> PICK g : tree.parent[p] = g
    OBVIOUS
  <2> PICK u : Uncle(tree, node) = u
    OBVIOUS
  <2> PICK T2 : Paint(Paint(tree, g, "red"), p, "black") = T2
    OBVIOUS
  <2>1. tree' = Paint(T2, u, "black")
    BY <1>3 DEF Recolor
  <2>2. KeepsData(tree, T2)
    BY <1>1, PaintRotateKeepsData
  <2>3. KeepsData(T2, Paint(T2, u, "black"))
    BY <1>1, <2>2, KeepsOn, AssignmentsKeep
  <2> QED
    BY <2>1, <2>2, <2>3 DEF KeepsData
<1>4. CASE Rebalance
  <2> PICK n : (IF Inner(tree, node) THEN tree.parent[node] ELSE node) = n
    OBVIOUS
  <2> PICK T : Outwards(tree, node) = T
    OBVIOUS
  <2>1. tree' = Upwards(T, n)
    BY <1>4 DEF Rebalance
  <2>2. KeepsData(tree, T)
    <3>1. KeepsData(tree, tree)
      BY DEF KeepsData
    <3> QED
      BY <1>1, <3>1, RotateKeepsData DEF Outwards
  <2>3. "data" \in DOMAIN T
    BY <1>1, <2>2, KeepsOn
  <2>4. KeepsData(T, Upwards(T, n))
    BY <2>3, PaintRotateKeepsData DEF Upwards
  <2> QED
    BY <2>1, <2>2, <2>4 DEF KeepsData
<1> QED
  BY <1>2, <1>3, <1>4

LEMMA UnlinkKeepsData ==
    ASSUME NEW T, "data" \in DOMAIN T, Unlink(T)
    PROVE  tree'.data = T.data
BY AssignmentsKeep DEF Unlink, KeepsData

LEMMA RemoveKeepsData ==
    ASSUME tree \in Tree, Remove \/ RemoveNext
    PROVE  tree'.data = tree.data
<1>1. "data" \in DOMAIN tree
  BY DEF Tree
<1>2. CASE Remove
  BY <1>1, <1>2, UnlinkKeepsData DEF Remove
<1>3. CASE RemoveNext
  <2> PICK T : CopyEntry(tree, key, node) = T
    OBVIOUS
  <2>1. Unlink(T)
    BY <1>3 DEF RemoveNext
  <2>2. "data" \in DOMAIN T /\ T.data = tree.data
    BY DEF CopyEntry
  <2> QED
    BY <2>1, <2>2, UnlinkKeepsData
<1> QED
  BY <1>2, <1>3

LEMMA DeleteCaseKeepsData ==
    ASSUME tree \in Tree, DeleteCase
    PROVE  tree'.data = tree.data
<1> PICK T : RedSibling(tree, node) = T
  OBVIOUS
<1> PICK p : T.parent[node] = p
  OBVIOUS
<1> PICK s : Sibling(T, node) = s
  OBVIOUS
<1> PICK O : OuterNephew(T, node) = O
  OBVIOUS
<1>1. "data" \in DOMAIN tree
  BY DEF Tree
<1>2. \/ tree' = FarNephew(O, node)
      \/ tree' = Paint(T, s, "red")
      \/ tree' = Paint(Paint(T, s, "red"), p, "black")
  BY DEF DeleteCase
<1>3. KeepsData(tree, T)
  <2>1. KeepsData(tree, tree)
    BY DEF KeepsData
  <2> QED
    BY <1>1, <2>1, PaintRotateKeepsData DEF RedSibling
<1>4. "data" \in DOMAIN T
  BY <1>1, <1>3, KeepsOn
<1>5. KeepsData(T, O)
  <2>1. KeepsData(T, T)
    BY DEF KeepsData
  <2> QED
    BY <1>4, <2>1, PaintRotateKeepsData DEF OuterNephew
<1>6. "data" \in DOMAIN O
  BY <1>4, <1>5, KeepsOn
<1>7. KeepsData(O, FarNephew(O, node))
  <2> PICK q : O.parent[node] = q
    OBVIOUS
  <2> PICK t : Sibling(O, node) = t
    OBVIOUS
  <2> PICK far : O.child[Opposite(SideOf(O, node))][t] = far
    OBVIOUS
  <2> PICK side : SideOf(O, node) = side
    OBVIOUS
  <2> PICK R : Paint(O, t, Color(O, q)) = R
    OBVIOUS
  <2>1. FarNephew(O, node) = Rotate(Paint(Paint(R, q, "black"), far, "black"), q, side)
    BY DEF FarNephew
  <2>2. KeepsData(O, R)
    BY <1>6, AssignmentsKeep
  <2>3. "data" \in DOMAIN R
    BY <1>6, <2>2, KeepsOn
  <2>4. KeepsData(R, Rotate(Paint(Paint(R, q, "black"), far, "black"), q, side))
    BY <2>3, PaintRotateKeepsData
  <2> QED
    BY <1>6, <2>1, <2>2, <2>4, KeepsOn
<1>8. KeepsData(T, Paint(T, s, "red")) /\ KeepsData(T, Paint(Paint(T, s, "red"), p, "black"))
  BY <1>4, AssignmentsKeep, PaintRotateKeepsData
<1> QED
  BY <1>2, <1>3, <1>5, <1>7, <1>8 DEF KeepsData

\* The key is not gone before a removal has found it, and stays gone until the call
\* returns.
LEMMA EntriesStay ==
    ASSUME TreeInv, TreeInv', tree'.data = tree.data, key' = key, op' = op, answer' = answer,
           Removing' <=> Removing
    PROVE  UNCHANGED Dict!vars
<1>1. Entries' = [k \in Keys |-> IF Removing' /\ k = key' THEN NoData ELSE tree'.data[k]]
  BY EntriesAreDataAfter DEF DataLeft
<1>2. Entries' = Entries
  BY <1>1, EntriesAreData DEF DataLeft
<1> QED
  BY <1>2 DEF Dict!vars

LEMMA QuietSteps ==
    ASSUME TreeInv, TreeInv',
           \/ Descend \/ Recolor \/ Rebalance \/ Inserted
           \/ GetMin \/ RemoveNext \/ DeleteCase \/ DeleteRoot
           \/ \E o \in {"lookup", "insert", "remove"}, k \in Keys : Call(o, k)
           \/ UNCHANGED vars
    PROVE  UNCHANGED Dict!vars
<1>1. tree \in Tree
  BY DEF TreeInv, TypeOK
<1>2. CASE Descend \/ GetMin \/ DeleteRoot \/ UNCHANGED vars
  <2>1. /\ tree' = tree /\ key' = key /\ op' = op /\ answer' = answer
        /\ Removing' <=> Removing
    BY <1>2 DEF Removing, Descend, GetMin, DeleteRoot, InFix, vars
  <2> QED
    BY <2>1, EntriesStay
<1>3. CASE Recolor \/ Rebalance \/ Inserted
  <2>1. key' = key /\ op' = op /\ answer' = answer /\ (Removing' <=> Removing)
    BY <1>3 DEF Recolor, Rebalance, Inserted, InFix, Removing
  <2>2. tree'.data = tree.data
    BY <1>1, <1>3, InsertFixKeepsData
  <2> QED
    BY <2>1, <2>2, EntriesStay
<1>4. CASE RemoveNext
  <2>1. /\ key' = key /\ op' = op /\ answer' = answer /\ (Removing' <=> Removing)
    BY <1>4 DEF RemoveNext, Unlink, Removing
  <2>2. tree'.data = tree.data
    BY <1>1, <1>4, RemoveKeepsData
  <2> QED
    BY <2>1, <2>2, EntriesStay
<1>5. CASE DeleteCase
  <2>1. /\ key' = key /\ op' = op /\ answer' = answer /\ (Removing' <=> Removing)
    BY <1>5 DEF DeleteCase, InFix, Removing
  <2>2. tree'.data = tree.data
    BY <1>1, <1>5, DeleteCaseKeepsData
  <2> QED
    BY <2>1, <2>2, EntriesStay
<1>6. CASE \E o \in {"lookup", "insert", "remove"}, k \in Keys : Call(o, k)
  <2>1. pc = "idle" /\ pc' = "search" /\ tree' = tree /\ answer' = answer
    BY <1>6 DEF Call
  <2>2. Entries' = [k \in Keys |-> IF Removing' /\ k = key' THEN NoData ELSE tree'.data[k]]
    BY EntriesAreDataAfter DEF DataLeft
  <2>3. Entries = [k \in Keys |-> tree.data[k]] /\ Entries' = [k \in Keys |-> tree.data[k]]
    BY <2>1, <2>2, EntriesAreData DEF DataLeft, Removing
  <2> QED
    BY <2>1, <2>3 DEF Dict!vars
<1> QED
  BY <1>2, <1>3, <1>4, <1>5, <1>6

LEMMA LookupAnswers ==
    ASSUME TreeInv, TreeInv', Lookup
    PROVE  Dict!Next
<1>1. PICK o \in {"lookup", "insert", "remove"} :
        Found(o) /\ (o = "insert" => node # Null) /\ (o = "remove" => node = Null)
  BY DEF Lookup
<1>2. /\ key \in Keys /\ Dict!Answer(o, key)
      /\ Entries = tree.data /\ tree.data \in [Keys -> Data \cup {NoData}]
      /\ node = Null <=> tree.data[key] = NoData
  BY <1>1, AnswerIsEntry
<1>3. tree' = tree /\ pc' = "return"
  BY DEF Lookup
<1>4. Entries' = Entries
  <2>1. Entries' = [k \in Keys |-> IF Removing' /\ k = key' THEN NoData ELSE tree'.data[k]]
    BY EntriesAreDataAfter DEF DataLeft
  <2>2. Entries' = [k \in Keys |-> tree.data[k]]
    BY <1>3, <2>1 DEF Removing
  <2> QED
    BY <1>2, <2>2
<1>5. CASE o = "lookup"
  BY <1>2, <1>4, <1>5 DEF Dict!Next, Dict!Lookup
<1>6. CASE o = "insert"
  <2>1. Entries[key] # NoData /\ Entries[key] \in Data
    BY <1>1, <1>2, <1>6
  <2>2. Dict!Insert(key, Entries[key])
    BY <1>2, <1>4, <1>6, <2>1 DEF Dict!Insert
  <2> QED
    BY <1>2, <2>1, <2>2 DEF Dict!Next
<1>7. CASE o = "remove"
  <2>1. Entries[key] = NoData
    BY <1>1, <1>2, <1>7
  <2>2. Entries' = [Entries EXCEPT ![key] = NoData]
    BY <1>2, <1>4, <2>1
  <2>3. Dict!Remove(key)
    BY <1>2, <1>7, <2>2 DEF Dict!Remove
  <2> QED
    BY <1>2, <2>3 DEF Dict!Next
<1> QED
  BY <1>5, <1>6, <1>7

LEMMA InsertAdds ==
    ASSUME TreeInv, TreeInv', NEW d \in Data, Insert(d)
    PROVE  Dict!Next
<1> USE NullIsNoKey
<1> PICK side : (IF parent > key THEN "left" ELSE "right") = side
  OBVIOUS
<1>1. Found("insert") /\ node = Null /\ NewLeaf(tree, key, parent, d) = tree' /\ pc' = "fix" /\ op' = op /\ op = "insert"
  BY DEF Insert, Found
<1>2. /\ key \in Keys /\ Dict!Answer("insert", key)
      /\ Entries = tree.data /\ tree.data \in [Keys -> Data \cup {NoData}]
      /\ tree.data[key] = NoData
  BY <1>1, AnswerIsEntry
<1>3. tree \in Tree /\ parent \in Node /\ side \in Side
  BY DEF TreeInv, TypeOK, Side
<1>4. Grown(tree, tree', key, parent, side, d)
  BY <1>1, <1>2, <1>3, NewLeafFields
<1>5. \A k \in Keys : tree'.data[k] = IF k = key THEN d ELSE tree.data[k]
  BY <1>4 DEF Grown
<1>6. Entries' = [k \in Keys |-> tree'.data[k]]
  <2>1. Entries' = [k \in Keys |-> IF Removing' /\ k = key' THEN NoData ELSE tree'.data[k]]
    BY EntriesAreDataAfter DEF DataLeft
  <2> QED
    BY <1>1, <2>1 DEF Removing
<1>7. Entries' = [Entries EXCEPT ![key] = d]
  BY <1>2, <1>5, <1>6
<1>8. Dict!Insert(key, d)
  BY <1>2, <1>7 DEF Dict!Insert
<1> QED
  BY <1>2, <1>8 DEF Dict!Next

LEMMA RemoveTakes ==
    ASSUME TreeInv, TreeInv', Remove
    PROVE  Dict!Next
<1>1. Found("remove") /\ op = "remove" /\ op' = op /\ key' = key /\ pc' \in {"min", "fix", "splice"}
  BY DEF Remove, Found, Unlink
<1>2. /\ key \in Keys /\ Dict!Answer("remove", key)
      /\ Entries = tree.data /\ tree.data \in [Keys -> Data \cup {NoData}]
  BY <1>1, AnswerIsEntry
<1>3. tree'.data = tree.data
  BY RemoveKeepsData DEF TreeInv, TypeOK
<1>4. Entries' = [k \in Keys |-> IF k = key THEN NoData ELSE tree.data[k]]
  <2>1. Entries' = [k \in Keys |-> IF Removing' /\ k = key' THEN NoData ELSE tree'.data[k]]
    BY EntriesAreDataAfter DEF DataLeft
  <2> QED
    BY <1>1, <1>3, <2>1 DEF Removing
<1>5. Entries' = [Entries EXCEPT ![key] = NoData]
  BY <1>2, <1>4
<1> QED
  BY <1>2, <1>5 DEF Dict!Next, Dict!Remove

LEMMA SpliceIsQuiet ==
    ASSUME TreeInv, TreeInv', Splice
    PROVE  UNCHANGED Dict!vars
<1>1. pc = "splice" /\ pc' = "return" /\ answer' = answer
  BY DEF Splice
<1>2. op = "remove"
  BY <1>1 DEF TreeInv, Answered
<1>3. \A k \in Keys : tree'.data[k] = IF k = key THEN NoData ELSE tree.data[k]
  BY SpliceSplices DEF Spliced
<1>4. Entries' = [k \in Keys |-> tree'.data[k]]
  <2>1. Entries' = [k \in Keys |-> IF Removing' /\ k = key' THEN NoData ELSE tree'.data[k]]
    BY EntriesAreDataAfter DEF DataLeft
  <2> QED
    BY <1>1, <2>1 DEF Removing
<1>5. Entries = [k \in Keys |-> IF k = key THEN NoData ELSE tree.data[k]]
  BY <1>1, <1>2, EntriesAreData DEF DataLeft, Removing
<1>6. Entries' = Entries
  BY <1>3, <1>4, <1>5
<1> QED
  BY <1>1, <1>6 DEF Dict!vars

LEMMA ReturnReturns ==
    ASSUME TreeInv, TreeInv', Return
    PROVE  Dict!Next
<1>1. pc = "return" /\ pc' = "idle" /\ answer' = NoAnswer /\ tree' = tree
  BY DEF Return
<1>2. answer # NoAnswer
  BY <1>1 DEF TreeInv, Answered
<1>3. Entries' = Entries
  <2>1. Entries' = [k \in Keys |-> IF Removing' /\ k = key' THEN NoData ELSE tree'.data[k]]
    BY EntriesAreDataAfter DEF DataLeft
  <2>2. Entries' = [k \in Keys |-> tree.data[k]] /\ Entries = [k \in Keys |-> tree.data[k]]
    BY <1>1, <2>1, EntriesAreData DEF DataLeft, Removing
  <2> QED
    BY <2>2
<1> QED
  BY <1>1, <1>2, <1>3 DEF Dict!Next, Dict!Return, Dict!NoAnswer, NoAnswer

\* A tree does what a dictionary does.
THEOREM TreeImplementsDictionary == Spec => ImplementsDictionary
<1>1. Init => Dict!Init
  <2> SUFFICES ASSUME Init
               PROVE  Dict!Init
    OBVIOUS
  <2>1. Entries = [k \in Keys |-> IF Removing /\ k = key THEN NoData ELSE tree.data[k]]
    BY InvStarts, EntriesAreData DEF DataLeft
  <2>2. pc = "idle" /\ answer = NoAnswer /\ \A k \in Keys : tree.data[k] = NoData
    BY DEF Init, Empty
  <2>3. Entries = [k \in Keys |-> NoData]
    BY <2>1, <2>2 DEF Removing
  <2> QED
    BY <2>2, <2>3 DEF Dict!Init, Dict!NoAnswer, NoAnswer
<1>2. TreeInv /\ TreeInv' /\ [Next]_vars => [Dict!Next]_(Dict!vars)
  <2> SUFFICES ASSUME TreeInv, TreeInv', [Next]_vars
               PROVE  Dict!Next \/ UNCHANGED Dict!vars
    OBVIOUS
  <2>1. CASE Lookup
    BY <2>1, LookupAnswers
  <2>2. CASE \E d \in Data : Insert(d)
    BY <2>2, InsertAdds
  <2>3. CASE Remove
    BY <2>3, RemoveTakes
  <2>4. CASE Return
    BY <2>4, ReturnReturns
  <2>5. CASE Splice
    BY <2>5, SpliceIsQuiet
  <2> QED
    BY <2>1, <2>2, <2>3, <2>4, <2>5, QuietSteps DEF Next, Step
<1>3. Dict!Init /\ [][Dict!Next]_(Dict!vars) => ImplementsDictionary
  BY DEF ImplementsDictionary, Dict!Spec
<1> QED
  BY <1>1, <1>2, <1>3, InvHolds, PTL DEF Spec

-----------------------------------------------------------------------------
(* rbtree_next and rbtree_prev *)

LEMMA BeforeFacts ==
    ASSUME NEW side \in Side
    PROVE  /\ Opposite(side) \in Side /\ Opposite(Opposite(side)) = side /\ Opposite(side) # side
           /\ \A z \in Side : z = side \/ z = Opposite(side)
           /\ \A a, b \in Keys : Before(Opposite(side), a, b) <=> Before(side, b, a)
           /\ \A a, b \in Keys : ~(Before(side, a, b) /\ Before(side, b, a))
           /\ \A a, b, c \in Keys : Before(side, a, b) /\ Before(side, b, c) => Before(side, a, c)
BY KeysAssumption DEF Side, Opposite, Before

LEMMA BelowBefore ==
    ASSUME NEW T \in Tree, NEW B, Sound(T, B, Null)
    PROVE  \A n \in Keys, side \in Side : \A m \in Under(B, T.child[side][n]) :
             m \in Keys /\ Before(side, m, n)
<1>1. \A n \in Keys, side \in Side : Under(B, T.child[side][n]) \subseteq Keys
  BY TreeFields DEF Sound, Shape, Under, Node
<1> QED
  BY <1>1, NullIsNoKey DEF Sound, Ordered

LEMMA ChildrenBelow ==
    ASSUME NEW T \in Tree, NEW B, Shape(T, B), NEW n \in Keys, NEW side \in Side
    PROVE  /\ B[n] = {n} \cup Under(B, T.child[side][n]) \cup Under(B, T.child[Opposite(side)][n])
           /\ B[n] \subseteq Keys
BY DEF Shape, Side, Opposite

\* Node e is the last one below n on this side.
Furthest(B, side, n, e) == e \in B[n] /\ \A m \in B[n] : m = e \/ Before(side, e, m)

LEMMA FurthestStep ==
    ASSUME NEW T \in Tree, NEW B, Sound(T, B, Null), NEW side \in Side, NEW n \in Keys
    PROVE  /\ T.child[side][n] = Null => Furthest(B, side, n, n)
           /\ T.child[side][n] # Null =>
                \A e : Furthest(B, side, T.child[side][n], e) => Furthest(B, side, n, e)
<1> USE NullIsNoKey
<1> PICK o : Opposite(side) = o
  OBVIOUS
<1>1. B[n] = {n} \cup Under(B, T.child[side][n]) \cup Under(B, T.child[o][n]) /\ B[n] \subseteq Keys
  BY ChildrenBelow DEF Sound
<1>2. \A m \in Under(B, T.child[o][n]) : m \in Keys /\ Before(side, n, m)
  BY BelowBefore, BeforeFacts
<1>3. CASE T.child[side][n] = Null
  BY <1>1, <1>2, <1>3 DEF Furthest, Under
<1>4. ASSUME T.child[side][n] # Null, NEW e, Furthest(B, side, T.child[side][n], e)
      PROVE  Furthest(B, side, n, e)
  <2> PICK c : T.child[side][n] = c
    OBVIOUS
  <2>1. Under(B, c) = B[c] /\ e \in B[c] /\ \A m \in B[c] : m = e \/ Before(side, e, m)
    BY <1>4 DEF Under, Furthest
  <2>2. e \in Keys /\ Before(side, e, n)
    BY <2>1, BelowBefore
  <2>3. \A m \in Under(B, T.child[o][n]) : Before(side, e, m)
    BY <1>2, <2>2, BeforeFacts
  <2>4. \A m \in B[n] : m = e \/ Before(side, e, m)
    BY <1>1, <2>1, <2>2, <2>3
  <2> QED
    BY <1>1, <2>1, <2>4 DEF Furthest
<1> QED
  BY <1>3, <1>4

\* get_min and get_max.
LEMMA ExtremeIsFurthest ==
    ASSUME NEW T \in Tree, NEW B, Sound(T, B, Null), NEW side \in Side
    PROVE  \A n \in Keys : Furthest(B, side, n, Extreme(T, side)[n])
<1> USE NullIsNoKey
<1> DEFINE Step1(f) == [n \in Keys |-> IF T.child[side][n] = Null THEN n ELSE f[T.child[side][n]]]
<1>1. Linked(T) /\ Shape(T, B) /\ \A n \in Keys : T.child[side][n] \in Keys \cup {Null}
  BY TreeFields DEF Sound, Node
<1>2. \A n \in Keys : \E e : Furthest(B, side, n, e)
  <2> PICK W : {n \in Keys : ~ \E e : Furthest(B, side, n, e)} = W
    OBVIOUS
  <2>1. W = {}
    <3> SUFFICES ASSUME W # {}
                 PROVE  FALSE
      OBVIOUS
    <3>1. PICK n \in W : \A z \in Side : T.child[z][n] \notin W
      BY <1>1, LowestNode
    <3>2. n \in Keys /\ ~ \E e : Furthest(B, side, n, e)
      BY <3>1
    <3>3. T.child[side][n] \in Keys /\ ~ \E e : Furthest(B, side, T.child[side][n], e)
      BY <1>1, <3>2, FurthestStep
    <3> QED
      BY <3>1, <3>3
  <2> QED
    BY <2>1
<1>3. \A n \in Keys : \A d, e : Furthest(B, side, n, d) /\ Furthest(B, side, n, e) => d = e
  BY <1>1, BeforeFacts, ChildrenBelow DEF Furthest
<1> PICK F : [n \in Keys |-> CHOOSE e : Furthest(B, side, n, e)] = F
  OBVIOUS
<1>4. \A n \in Keys : Furthest(B, side, n, F[n])
  BY <1>2
<1>5. F = Step1(F)
  <2>1. ASSUME NEW n \in Keys
        PROVE  F[n] = IF T.child[side][n] = Null THEN n ELSE F[T.child[side][n]]
    <3>1. Furthest(B, side, n, F[n])
      BY <1>4
    <3>2. CASE T.child[side][n] = Null
      <4>1. Furthest(B, side, n, n)
        BY <3>2, FurthestStep
      <4> QED
        BY <1>3, <3>1, <3>2, <4>1
    <3>3. CASE T.child[side][n] # Null
      <4>1. Furthest(B, side, T.child[side][n], F[T.child[side][n]])
        BY <1>1, <1>4, <3>3
      <4>2. Furthest(B, side, n, F[T.child[side][n]])
        BY <3>3, <4>1, FurthestStep
      <4> QED
        BY <1>3, <3>1, <3>3, <4>2
    <3> QED
      BY <3>2, <3>3
  <2> QED
    BY <2>1
<1>6. Extreme(T, side) = CHOOSE f : f = Step1(f)
  BY DEF Extreme
<1> PICK f : Extreme(T, side) = f
  OBVIOUS
<1>7. f = Step1(f)
  <2> HIDE DEF Step1
  <2> QED
    BY <1>5, <1>6
<1>8. \A n \in Keys : f[n] = IF T.child[side][n] = Null THEN n ELSE f[T.child[side][n]]
  BY <1>7
<1> PICK W : {n \in Keys : ~Furthest(B, side, n, f[n])} = W
  OBVIOUS
<1>9. W = {}
  <2> SUFFICES ASSUME W # {}
               PROVE  FALSE
    OBVIOUS
  <2>1. PICK n \in W : \A z \in Side : T.child[z][n] \notin W
    BY <1>1, LowestNode
  <2>2. n \in Keys /\ ~Furthest(B, side, n, f[n])
    BY <2>1
  <2>3. T.child[side][n] \in Keys /\ ~Furthest(B, side, T.child[side][n], f[T.child[side][n]])
    BY <1>1, <1>8, <2>2, FurthestStep
  <2> QED
    BY <2>1, <2>3
<1> QED
  BY <1>9

\* Node a is the lowest that n is below on the other side, Null if there is none.
Turn(T, B, side, n, a) ==
    /\ a # Null => a \in Keys /\ n \in Under(B, T.child[Opposite(side)][a])
    /\ \A b \in Keys : n \in Under(B, T.child[Opposite(side)][b]) =>
         a # Null /\ (b = a \/ Before(side, b, a))

\* What a node is below: its parent, and what that is below.
LEMMA AboveNode ==
    ASSUME NEW T \in Tree, NEW B, Linked(T), Shape(T, B), NEW n \in Keys, T.parent[n] # Null
    PROVE  /\ T.parent[n] \in Keys
           /\ \A b \in Keys, z \in Side : n \in Under(B, T.child[z][b]) <=>
                (b = T.parent[n] /\ T.child[z][b] = n) \/ T.parent[n] \in Under(B, T.child[z][b])
<1> USE NullIsNoKey
<1> PICK p : T.parent[n] = p
  OBVIOUS
<1>1. p \in Keys
  BY TreeFields DEF Node
<1>2. PICK y \in Side : T.child[y][p] = n
  BY DEF Linked
<1>3. n \in B[n] /\ B[n] \subseteq B[p]
  BY <1>1, <1>2, ChildFacts
<1>4. ASSUME NEW b \in Keys, NEW z \in Side
      PROVE  n \in Under(B, T.child[z][b]) <=>
               (b = p /\ T.child[z][b] = n) \/ p \in Under(B, T.child[z][b])
  <2> PICK c : T.child[z][b] = c
    OBVIOUS
  <2>1. CASE c = Null
    BY <2>1 DEF Under
  <2>2. CASE c # Null
    <3>1. c \in Keys /\ T.parent[c] = b
      BY <2>2, ChildFacts
    <3>2. n \in B[c] => n = c \/ p \in B[c]
      BY <3>1, UpwardClosed
    <3>3. p \in B[c] => n \in B[c]
      BY <1>3, <3>1, Nested
    <3>4. n = c => b = p
      BY <3>1
    <3> QED
      BY <1>3, <2>2, <3>2, <3>3, <3>4 DEF Under
  <2> QED
    BY <2>1, <2>2
<1> QED
  BY <1>1, <1>4

LEMMA TurnStep ==
    ASSUME NEW T \in Tree, NEW B, Sound(T, B, Null), NEW side \in Side, NEW n \in Keys
    PROVE  IF T.parent[n] # Null /\ T.child[side][T.parent[n]] = n
           THEN \A a : Turn(T, B, side, T.parent[n], a) => Turn(T, B, side, n, a)
           ELSE Turn(T, B, side, n, T.parent[n])
<1> USE NullIsNoKey
<1> PICK p : T.parent[n] = p
  OBVIOUS
<1> PICK o : Opposite(side) = o
  OBVIOUS
<1>1. Linked(T) /\ Shape(T, B) /\ o \in Side /\ o # side /\ \A z \in Side : z = side \/ z = o
  BY BeforeFacts DEF Sound
<1>2. CASE p = Null
  <2>1. ASSUME NEW b \in Keys, n \in Under(B, T.child[o][b])
        PROVE  FALSE
    <3> PICK c : T.child[o][b] = c
      OBVIOUS
    <3>1. c \in Keys /\ T.parent[c] = b /\ n \in B[c]
      BY <1>1, <2>1, ChildFacts DEF Under
    <3>2. n # c => p \in B[c]
      BY <1>1, <3>1, UpwardClosed
    <3> QED
      BY <1>1, <1>2, <3>1, <3>2 DEF Shape
  <2> QED
    BY <1>2, <2>1 DEF Turn
<1>3. CASE p # Null
  <2>1. /\ p \in Keys
        /\ \A b \in Keys : n \in Under(B, T.child[o][b]) <=>
             (b = p /\ T.child[o][b] = n) \/ p \in Under(B, T.child[o][b])
    BY <1>1, <1>3, AboveNode
  <2>2. PICK y \in Side : T.child[y][p] = n
    BY <1>1, <1>3 DEF Linked
  <2>3. CASE T.child[side][p] = n
    <3>1. T.child[o][p] # n
      BY <1>1, <2>1, <2>3, ChildFacts
    <3>2. \A b \in Keys : n \in Under(B, T.child[o][b]) <=> p \in Under(B, T.child[o][b])
      BY <2>1, <3>1
    <3>3. \A a : Turn(T, B, side, p, a) => Turn(T, B, side, n, a)
      BY <3>2 DEF Turn
    <3> QED
      BY <1>3, <2>3, <3>3
  <2>4. CASE T.child[side][p] # n
    <3>1. T.child[o][p] = n
      BY <1>1, <2>2, <2>4
    <3>2. n \in Under(B, T.child[o][p])
      BY <2>1, <3>1
    <3>3. \A b \in Keys : p \in Under(B, T.child[o][b]) => Before(side, b, p)
      BY <1>1, <2>1, BelowBefore, BeforeFacts
    <3>4. Turn(T, B, side, n, p)
      BY <1>3, <2>1, <3>2, <3>3 DEF Turn
    <3> QED
      BY <2>4, <3>4
  <2> QED
    BY <2>3, <2>4
<1> QED
  BY <1>2, <1>3

\* The loops of rbtree_next and rbtree_prev.
LEMMA ClimbTurns ==
    ASSUME NEW T \in Tree, NEW B, Sound(T, B, Null), NEW side \in Side
    PROVE  \A n \in Keys : Turn(T, B, side, n, Climb(T, side)[n])
<1> USE NullIsNoKey
<1> DEFINE OnSide(n) == T.parent[n] # Null /\ T.child[side][T.parent[n]] = n
           Step1(f) == [n \in Keys |-> IF OnSide(n) THEN f[T.parent[n]] ELSE T.parent[n]]
<1>1. Linked(T) /\ Shape(T, B) /\ \A n \in Keys : T.parent[n] \in Keys \cup {Null}
  BY TreeFields DEF Sound, Node
<1>2. \A n \in Keys : IF OnSide(n)
                      THEN \A a : Turn(T, B, side, T.parent[n], a) => Turn(T, B, side, n, a)
                      ELSE Turn(T, B, side, n, T.parent[n])
  BY TurnStep
<1>3. \A n \in Keys : OnSide(n) => T.parent[n] \in Keys
  BY <1>1
<1> HIDE DEF OnSide
<1>4. \A n \in Keys : \E a : Turn(T, B, side, n, a)
  <2> PICK W : {n \in Keys : ~ \E a : Turn(T, B, side, n, a)} = W
    OBVIOUS
  <2>1. W = {}
    <3> SUFFICES ASSUME W # {}
                 PROVE  FALSE
      OBVIOUS
    <3>1. PICK n \in W : T.parent[n] \notin W
      BY <1>1, HighestNode
    <3>2. n \in Keys /\ ~ \E a : Turn(T, B, side, n, a)
      BY <3>1
    <3> QED
      BY <1>2, <1>3, <3>1, <3>2
  <2> QED
    BY <2>1
<1>5. \A n \in Keys : \A a, b : Turn(T, B, side, n, a) /\ Turn(T, B, side, n, b) => a = b
  BY BeforeFacts DEF Turn
<1> PICK F : [n \in Keys |-> CHOOSE a : Turn(T, B, side, n, a)] = F
  OBVIOUS
<1>6. \A n \in Keys : Turn(T, B, side, n, F[n])
  BY <1>4
<1>7. F = Step1(F)
  <2>1. ASSUME NEW n \in Keys
        PROVE  F[n] = IF OnSide(n) THEN F[T.parent[n]] ELSE T.parent[n]
    BY <1>2, <1>3, <1>5, <1>6
  <2> QED
    BY <2>1
<1>8. Climb(T, side) = CHOOSE f : f = Step1(f)
  BY DEF Climb, OnSide
<1> PICK f : Climb(T, side) = f
  OBVIOUS
<1>9. f = Step1(f)
  <2> HIDE DEF Step1
  <2> QED
    BY <1>7, <1>8
<1>10. \A n \in Keys : f[n] = IF OnSide(n) THEN f[T.parent[n]] ELSE T.parent[n]
  BY <1>9
<1> PICK W : {n \in Keys : ~Turn(T, B, side, n, f[n])} = W
  OBVIOUS
<1>11. W = {}
  <2> SUFFICES ASSUME W # {}
               PROVE  FALSE
    OBVIOUS
  <2>1. PICK n \in W : T.parent[n] \notin W
    BY <1>1, HighestNode
  <2>2. n \in Keys /\ ~Turn(T, B, side, n, f[n])
    BY <2>1
  <2> QED
    BY <1>2, <1>3, <1>10, <2>1, <2>2
<1> QED
  BY <1>11

\* Between a node and one that is not below it there is a node where their ways part.
LEMMA WaysPart ==
    ASSUME NEW T \in Tree, NEW B, Sound(T, B, Null), NEW side \in Side,
           NEW n \in Keys, NEW m \in Keys, Occupied(T, n), Occupied(T, m),
           m \notin B[n], Before(side, m, n)
    PROVE  \E a \in Keys : /\ n \in Under(B, T.child[Opposite(side)][a])
                           /\ m = a \/ Before(side, m, a)
<1> USE NullIsNoKey
<1>1. Linked(T) /\ Shape(T, B)
  BY DEF Sound
<1> PICK W : {a \in Keys : n \in B[a] /\ m \in B[a]} = W
  OBVIOUS
<1>2. T.root \in W
  <2>1. n \in Under(B, T.root) /\ m \in Under(B, T.root) /\ T.root \in Keys \cup {Null}
    BY <1>1, TreeFields DEF Shape, Node
  <2> QED
    BY <2>1 DEF Under
<1>3. PICK a \in W : \A z \in Side : T.child[z][a] \notin W
  BY <1>1, <1>2, LowestNode
<1>4. a \in Keys /\ n \in B[a] /\ m \in B[a] /\ a # n
  BY <1>3
<1>5. PICK z \in Side : n \in Under(B, T.child[z][a])
  BY <1>1, <1>4 DEF Shape, Side
<1>6. m \notin Under(B, T.child[z][a])
  <2> SUFFICES ASSUME m \in Under(B, T.child[z][a])
               PROVE  FALSE
    OBVIOUS
  <2>1. T.child[z][a] \in Keys
    BY <1>4, <1>5, TreeFields DEF Under, Node
  <2> QED
    BY <1>3, <1>5, <2>1 DEF Under
<1>7. m = a \/ Before(z, a, m)
  <2>1. m = a \/ m \in Under(B, T.child[Opposite(z)][a])
    BY <1>1, <1>4, <1>6, ChildrenBelow
  <2> QED
    BY <1>4, <2>1, BelowBefore, BeforeFacts
<1>8. Before(z, n, a)
  BY <1>4, <1>5, BelowBefore
<1>9. Before(z, n, m)
  BY <1>4, <1>7, <1>8, BeforeFacts
<1>10. z = Opposite(side)
  BY <1>9, BeforeFacts
<1>11. m = a \/ Before(side, m, a)
  BY <1>4, <1>7, <1>10, BeforeFacts
<1> QED
  BY <1>4, <1>5, <1>10, <1>11

LEMMA NeighbourIsNearest ==
    ASSUME NEW T \in Tree, NEW B, Sound(T, B, Null), NEW side \in Side,
           NEW n \in Keys, NEW m \in Keys, Occupied(T, n), Occupied(T, m), Before(side, m, n)
    PROVE  /\ Neighbour(T, n, side) \in Keys
           /\ Before(side, Neighbour(T, n, side), n)
           /\ m = Neighbour(T, n, side) \/ Before(side, m, Neighbour(T, n, side))
<1> USE NullIsNoKey
<1> PICK x : Neighbour(T, n, side) = x
  OBVIOUS
<1> PICK o : Opposite(side) = o
  OBVIOUS
<1> PICK c : T.child[side][n] = c
  OBVIOUS
<1>1. Linked(T) /\ Shape(T, B) /\ o \in Side /\ Opposite(o) = side
  BY BeforeFacts DEF Sound
<1>2. B[n] = {n} \cup Under(B, c) \cup Under(B, T.child[o][n]) /\ B[n] \subseteq Keys
  BY <1>1, ChildrenBelow
<1>3. m \in B[n] => m \in Under(B, c)
  <2>1. m # n
    BY BeforeFacts
  <2>2. m \in Under(B, T.child[o][n]) => Before(o, m, n)
    BY <1>1, BelowBefore
  <2> QED
    BY <1>2, <2>1, <2>2, BeforeFacts
<1>4. m \notin B[n] =>
        \E a \in Keys : n \in Under(B, T.child[o][a]) /\ (m = a \/ Before(side, m, a))
  BY WaysPart
<1>5. CASE c # Null
  <2>1. c \in Keys
    BY <1>5, TreeFields DEF Node
  <2>2. x = Extreme(T, o)[c]
    BY <1>5 DEF Neighbour
  <2>3. Furthest(B, o, c, x)
    BY <1>1, <2>1, <2>2, ExtremeIsFurthest
  <2>4. x \in B[c] /\ \A y \in B[c] : y = x \/ Before(o, x, y)
    BY <2>3 DEF Furthest
  <2>5. Under(B, c) = B[c] /\ x \in B[n] /\ x \in Keys
    BY <1>2, <1>5, <2>4 DEF Under
  <2>6. Before(side, x, n)
    BY <2>4, <2>5, BelowBefore
  <2>7. CASE m \in B[n]
    <3>1. m = x \/ Before(o, x, m)
      BY <1>3, <2>4, <2>5, <2>7
    <3>2. m = x \/ Before(side, m, x)
      BY <2>5, <3>1, BeforeFacts
    <3> QED
      BY <2>5, <2>6, <3>2
  <2>8. CASE m \notin B[n]
    <3>1. PICK a \in Keys : n \in Under(B, T.child[o][a]) /\ (m = a \/ Before(side, m, a))
      BY <1>4, <2>8
    <3>2. x \in Under(B, T.child[o][a])
      <4>1. T.child[o][a] \in Keys /\ n \in B[T.child[o][a]]
        BY <1>1, <3>1, TreeFields DEF Under, Node
      <4>2. B[n] \subseteq B[T.child[o][a]]
        BY <1>1, <4>1, Nested
      <4> QED
        BY <2>5, <4>1, <4>2 DEF Under
    <3>3. Before(o, x, a)
      BY <1>1, <3>2, BelowBefore
    <3>4. Before(side, a, x)
      BY <2>5, <3>3, BeforeFacts
    <3>5. Before(side, m, x)
      BY <2>5, <3>1, <3>4, BeforeFacts
    <3> QED
      BY <2>5, <2>6, <3>5
  <2> QED
    BY <2>7, <2>8
<1>6. CASE c = Null
  <2>1. x = Climb(T, side)[n]
    BY <1>6 DEF Neighbour
  <2>2. Turn(T, B, side, n, x)
    BY <2>1, ClimbTurns
  <2>3. PICK a \in Keys : n \in Under(B, T.child[o][a]) /\ (m = a \/ Before(side, m, a))
    BY <1>3, <1>4, <1>6 DEF Under
  <2>4. x \in Keys /\ n \in Under(B, T.child[o][x]) /\ (a = x \/ Before(side, a, x))
    BY <2>2, <2>3 DEF Turn
  <2>5. Before(side, x, n)
    <3>1. Before(o, n, x)
      BY <1>1, <2>4, BelowBefore
    <3> QED
      BY <2>4, <3>1, BeforeFacts
  <2>6. m = x \/ Before(side, m, x)
    BY <2>3, <2>4, BeforeFacts
  <2> QED
    BY <2>4, <2>5, <2>6
<1> QED
  BY <1>5, <1>6

\* Between calls rbtree_next and rbtree_prev go to the nearest keys.
THEOREM NeighboursHold == Spec => []NeighboursAreNearest
<1>1. ASSUME TreeInv
      PROVE  NeighboursAreNearest
  <2> USE NullIsNoKey
  <2>1. tree \in Tree
    BY <1>1 DEF TreeInv, TypeOK
  <2>2. SUFFICES ASSUME pc = "idle",
                        NEW n \in Below(tree)[tree.root], NEW m \in Below(tree)[tree.root]
                 PROVE  /\ m > n => /\ n < Neighbour(tree, n, "right")
                                    /\ Neighbour(tree, n, "right") <= m
                        /\ m < n => /\ m <= Neighbour(tree, n, "left")
                                    /\ Neighbour(tree, n, "left") < n
    BY DEF NeighboursAreNearest
  <2>3. PICK B, H : Sound(tree, B, Null) /\ Balanced(tree, H, Null, Null, Null)
    BY <1>1, <2>2 DEF TreeInv, Witnessed, AtRest
  <2>4. Linked(tree) /\ Shape(tree, B) /\ tree.root \in Node
    BY <2>1, <2>3, TreeFields DEF Sound
  <2>5. Below(tree)[tree.root] = Under(B, tree.root)
    BY <2>1, <2>4, BelowIsUnder
  <2>6. n \in Keys /\ m \in Keys /\ Occupied(tree, n) /\ Occupied(tree, m)
    <3>1. n \in Keys /\ m \in Keys
      BY <2>4, <2>5 DEF Shape, Under, Node
    <3> QED
      BY <2>4, <2>5, <3>1 DEF Shape
  <2>7. \A side \in Side : Before(side, m, n) =>
          /\ Neighbour(tree, n, side) \in Keys
          /\ Before(side, Neighbour(tree, n, side), n)
          /\ m = Neighbour(tree, n, side) \/ Before(side, m, Neighbour(tree, n, side))
    BY <2>1, <2>3, <2>6, NeighbourIsNearest
  <2>8. CASE m > n
    <3>1. Before("right", m, n)
      BY <2>6, <2>8, KeysAssumption DEF Before
    <3> PICK x : Neighbour(tree, n, "right") = x
      OBVIOUS
    <3>2. x \in Keys /\ Before("right", x, n) /\ (m = x \/ Before("right", m, x))
      BY <2>7, <3>1 DEF Side
    <3> QED
      BY <2>6, <2>8, <3>2, KeysAssumption DEF Before
  <2>9. CASE m < n
    <3>1. Before("left", m, n)
      BY <2>6, <2>9, KeysAssumption DEF Before
    <3> PICK x : Neighbour(tree, n, "left") = x
      OBVIOUS
    <3>2. x \in Keys /\ Before("left", x, n) /\ (m = x \/ Before("left", m, x))
      BY <2>7, <3>1 DEF Side
    <3> QED
      BY <2>6, <2>9, <3>2, KeysAssumption DEF Before
  <2> QED
    BY <2>6, <2>8, <2>9, KeysAssumption
<1> QED
  BY <1>1, InvHolds, PTL

\* Links, colours and entries of a tree, and where a call is in it, have their types.
THEOREM TypeCorrect == Spec => []TypeOK
BY InvHolds, PTL DEF TreeInv
=============================================================================

--------------------------- MODULE BlockTreeProofs ---------------------------
(***************************************************************************)
(* Facts about the Merkle tree of a list, for lists of any length.         *)
(***************************************************************************)
EXTENDS BlockTree, SequenceTheorems, WellFoundedInduction, TLAPS

-----------------------------------------------------------------------------
(* Induction on the numbers, and the existence of functions defined by       *)
(* recursion on them                                                         *)

\* The steps of the recursive definitions of BlockTree.
Step(kind, x) == CASE kind = "double" -> 2 * x
                   [] kind = "half"   -> x \div 2
                   [] kind = "up"     -> Up(x)

\* What such a definition, which starts with a, says of a function.
Iterates(f, kind, a) == f = [n \in Nat |-> IF n = 0 THEN a ELSE Step(kind, f[n - 1])]

\* A set of numbers has a least one.
LEMMA LeastNumber ==
    ASSUME NEW S \in SUBSET Nat, S # {}
    PROVE  \E m \in S : \A n \in S : m <= n
<1> DEFINE R == {ss \in Nat \X Nat : ss[1] < ss[2]}
<1>1. IsWellFoundedOn(R, Nat)
  BY NatLessThanWellFounded DEF OpToRel
<1> HIDE DEF R
<1>2. PICK m \in S : \A n \in S : ~ (<<n, m>> \in R)
  BY <1>1, WFMin
<1>3. \A n \in S : ~ (n < m)
  BY <1>2 DEF R
<1> QED
  BY <1>3

\* A set with 0 and the successors of its members has every number.
LEMMA Induction ==
    ASSUME NEW S, 0 \in S, \A n \in Nat : n \in S => n + 1 \in S
    PROVE  \A n \in Nat : n \in S
<1> SUFFICES ASSUME Nat \ S # {} PROVE FALSE
  OBVIOUS
<1>1. PICK m \in Nat \ S : \A n \in Nat \ S : m <= n
  BY LeastNumber
<1>2. m - 1 \in Nat /\ m - 1 \in S
  BY <1>1
<1> QED
  BY <1>1, <1>2

\* There is a function that iterates a step from a value a: what its values are
\* up to m is settled for every m, and two such beginnings agree.
LEMMA Iteration ==
    ASSUME NEW a, NEW kind
    PROVE  \E f : Iterates(f, kind, a)
<1> DEFINE IsUpTo(f, m) ==
              \A n \in 0..m : f[n] = IF n = 0 THEN a ELSE Step(kind, f[n - 1])
           S == {m \in Nat : \E f : IsUpTo(f, m)}
<1>1. \A m \in Nat : m \in S
  <2>1. 0 \in S
    <3>1. IsUpTo([n \in 0..0 |-> a], 0)
      OBVIOUS
    <3> QED
      BY <3>1
  <2>2. ASSUME NEW m \in Nat, m \in S PROVE m + 1 \in S
    <3>1. PICK f : IsUpTo(f, m)
      BY <2>2
    <3> DEFINE e == [n \in 0..(m + 1) |-> IF n = m + 1 THEN Step(kind, f[m]) ELSE f[n]]
    <3>2. \A n \in 0..m : f[n] = IF n = 0 THEN a ELSE Step(kind, f[n - 1])
      BY <3>1
    <3>3. \A n \in 0..(m + 1) : e[n] = IF n = 0 THEN a ELSE Step(kind, e[n - 1])
      BY <3>2
    <3> HIDE DEF e
    <3> QED
      BY <3>3
  <2> HIDE DEF S
  <2> QED
    BY <2>1, <2>2, Induction
<1> DEFINE u == [m \in Nat |-> CHOOSE f : IsUpTo(f, m)]
<1>2. \A m \in Nat : IsUpTo(u[m], m)
  BY <1>1
<1> HIDE DEF u
<1>3. \A m \in Nat : \A n \in 0..m :
          u[m][n] = IF n = 0 THEN a ELSE Step(kind, u[m][n - 1])
  BY <1>2
<1> HIDE DEF IsUpTo, S
<1>4. \A n \in Nat : u[n + 1][n] = u[n][n]
  <2> SUFFICES ASSUME NEW m \in Nat PROVE u[m + 1][m] = u[m][m]
    OBVIOUS
  <2> DEFINE T == {n \in Nat : n <= m => u[m + 1][n] = u[m][n]}
  <2>1. 0 \in T
    BY <1>3
  <2>2. ASSUME NEW n \in Nat, n \in T PROVE n + 1 \in T
    <3> SUFFICES ASSUME n + 1 <= m PROVE u[m + 1][n + 1] = u[m][n + 1]
      OBVIOUS
    <3>1. u[m + 1][n] = u[m][n]
      BY <2>2
    <3>2. u[m + 1][n + 1] = Step(kind, u[m + 1][n]) /\ u[m][n + 1] = Step(kind, u[m][n])
      BY <1>3
    <3> QED
      BY <3>1, <3>2
  <2> HIDE DEF T
  <2>3. m \in T
    BY <2>1, <2>2, Induction
  <2> QED
    BY <2>3 DEF T
<1> DEFINE f == [n \in Nat |-> u[n][n]]
<1>5. f[0] = a
  BY <1>3
<1>6. \A n \in Nat \ {0} : f[n] = Step(kind, f[n - 1])
  <2> SUFFICES ASSUME NEW n \in Nat \ {0} PROVE u[n][n] = Step(kind, u[n - 1][n - 1])
    OBVIOUS
  <2>1. u[n][n] = Step(kind, u[n][n - 1])
    BY <1>3
  <2>2. n - 1 \in Nat /\ (n - 1) + 1 = n
    OBVIOUS
  <2>3. u[n][n - 1] = u[n - 1][n - 1]
    BY <1>4, <2>2
  <2> QED
    BY <2>1, <2>3
<1>7. \A n \in Nat : f[n] = IF n = 0 THEN a ELSE Step(kind, f[n - 1])
  BY <1>5, <1>6
<1>8. f = [n \in Nat |-> f[n]]
  OBVIOUS
<1> HIDE DEF f
<1>9. f = [n \in Nat |-> IF n = 0 THEN a ELSE Step(kind, f[n - 1])]
  BY <1>7, <1>8
<1> QED
  BY <1>9 DEF Iterates


-----------------------------------------------------------------------------
(* The recursive functions have the values their definitions say *)

LEMMA TwoToValues ==
    /\ TwoTo[0] = 1
    /\ \A n \in Nat : TwoTo[n] \in Nat \ {0} /\ TwoTo[n + 1] = 2 * TwoTo[n]
<1>1. TwoTo = [n \in Nat |-> IF n = 0 THEN 1 ELSE 2 * TwoTo[n - 1]]
  <2>1. \E f : Iterates(f, "double", 1)
    BY Iteration
  <2> QED
    BY <2>1 DEF TwoTo, Step, Iterates
<1> DEFINE S == {n \in Nat : TwoTo[n] \in Nat \ {0}}
<1>2. 0 \in S
  BY <1>1
<1>3. ASSUME NEW n \in Nat, n \in S PROVE n + 1 \in S
  BY <1>1, <1>3
<1> HIDE DEF S
<1>4. \A n \in Nat : n \in S
  BY <1>2, <1>3, Induction
<1> QED
  BY <1>1, <1>4 DEF S

LEMMA AboveValues ==
    ASSUME NEW p \in Nat
    PROVE  /\ Above(p)[0] = p
           /\ \A h \in Nat : Above(p)[h] \in Nat /\ Above(p)[h + 1] = Above(p)[h] \div 2
<1> DEFINE a == Above(p)
<1>1. a = [h \in Nat |-> IF h = 0 THEN p ELSE a[h - 1] \div 2]
  <2>1. \E f : Iterates(f, "half", p)
    BY Iteration
  <2> QED
    BY <2>1 DEF Above, Step, Iterates
<1> HIDE DEF a
<1> DEFINE S == {h \in Nat : a[h] \in Nat}
<1>2. 0 \in S
  BY <1>1
<1>3. ASSUME NEW h \in Nat, h \in S PROVE h + 1 \in S
  BY <1>1, <1>3
<1> HIDE DEF S
<1>4. \A h \in Nat : h \in S
  BY <1>2, <1>3, Induction
<1>5. a[0] = p /\ \A h \in Nat : a[h] \in Nat /\ a[h + 1] = a[h] \div 2
  BY <1>1, <1>4 DEF S
<1> QED
  BY <1>5 DEF a

\* What the level above a level is.
IsSeqOf(s) == Len(s) \in Nat /\ s = [j \in 1..Len(s) |-> s[j]]

LEMMA UpValues ==
    ASSUME NEW s, Len(s) \in Nat
    PROVE  /\ Len(Up(s)) = (Len(s) + 1) \div 2
           /\ IsSeqOf(Up(s))
           /\ \A y \in 0..(Len(Up(s)) - 1) :
                /\ 2 * y < Len(s)
                /\ 2 * y + 1 < Len(s) =>
                     Up(s)[y + 1] = MerkleTreeParent(s[2 * y + 1], s[2 * y + 2])
                /\ 2 * y + 1 >= Len(s) =>
                     Up(s)[y + 1] = MerkleTreeParent(s[2 * y + 1], s[2 * y + 1])
<1> DEFINE m == (Len(s) + 1) \div 2
           e(j) == MerkleTreeParent(s[2 * j - 1], s[IF 2 * j <= Len(s) THEN 2 * j
                                                                     ELSE 2 * j - 1])
<1>1. Up(s) = [j \in 1..m |-> e(j)] /\ m \in Nat
  BY DEF Up
<1> HIDE DEF e
<1>2. Len(Up(s)) = m
  BY <1>1
<1>3. IsSeqOf(Up(s))
  BY <1>1, <1>2 DEF IsSeqOf
<1>4. ASSUME NEW y \in 0..(m - 1)
      PROVE  /\ 2 * y < Len(s)
             /\ 2 * y + 1 < Len(s) =>
                     Up(s)[y + 1] = MerkleTreeParent(s[2 * y + 1], s[2 * y + 2])
             /\ 2 * y + 1 >= Len(s) =>
                     Up(s)[y + 1] = MerkleTreeParent(s[2 * y + 1], s[2 * y + 1])
  <2>1. Up(s)[y + 1] = e(y + 1)
    BY <1>1
  <2>2. 2 * (y + 1) = 2 * y + 2 /\ 2 * (y + 1) - 1 = 2 * y + 1
    OBVIOUS
  <2>3. e(y + 1) = MerkleTreeParent(s[2 * y + 1], s[IF 2 * y + 2 <= Len(s) THEN 2 * y + 2
                                                                     ELSE 2 * y + 1])
    BY <2>2 DEF e
  <2>4. 2 * y + 1 < Len(s) <=> 2 * y + 2 <= Len(s)
    OBVIOUS
  <2> QED
    BY <2>1, <2>3, <2>4
<1> QED
  BY <1>2, <1>3, <1>4

LEMMA LevelsValues ==
    ASSUME NEW list, Len(list) \in Nat
    PROVE  /\ Levels(list)[0] = [j \in 1..Len(list) |-> TxID(list[j])]
           /\ Len(Levels(list)[0]) = Len(list)
           /\ \A h \in Nat : /\ IsSeqOf(Levels(list)[h])
                             /\ Levels(list)[h + 1] = Up(Levels(list)[h])
<1> DEFINE L == Levels(list)
           ids == [j \in 1..Len(list) |-> TxID(list[j])]
<1>1. L = [h \in Nat |-> IF h = 0 THEN ids ELSE Up(L[h - 1])]
  <2>1. \E f : Iterates(f, "up", ids)
    BY Iteration
  <2> QED
    BY <2>1 DEF Levels, Step, Iterates
<1> HIDE DEF L
<1> DEFINE S == {h \in Nat : IsSeqOf(L[h])}
<1>2. L[0] = ids /\ Len(ids) = Len(list) /\ IsSeqOf(ids)
  BY <1>1 DEF IsSeqOf
<1>3. ASSUME NEW h \in Nat PROVE L[h + 1] = Up(L[h])
  <2>1. h + 1 \in Nat /\ h + 1 # 0 /\ (h + 1) - 1 = h
    OBVIOUS
  <2> HIDE DEF ids
  <2>2. L[h + 1] = IF h + 1 = 0 THEN ids ELSE Up(L[(h + 1) - 1])
    BY <1>1, <2>1
  <2> QED
    BY <2>1, <2>2
<1>4. ASSUME NEW h \in Nat, h \in S PROVE h + 1 \in S
  <2>1. Len(L[h]) \in Nat
    BY <1>4 DEF IsSeqOf
  <2>2. IsSeqOf(Up(L[h]))
    BY <2>1, UpValues
  <2> QED
    BY <1>3, <2>2
<1>5. 0 \in S
  BY <1>2
<1> HIDE DEF S
<1>6. \A h \in Nat : h \in S
  BY <1>4, <1>5, Induction
<1>7. L[0] = ids /\ Len(L[0]) = Len(list)
      /\ \A h \in Nat : IsSeqOf(L[h]) /\ L[h + 1] = Up(L[h])
  BY <1>2, <1>3, <1>6 DEF S
<1> QED
  BY <1>7 DEF L

-----------------------------------------------------------------------------
(* Powers of two and positions *)

\* Halving p and then climbing h levels is climbing one level more.
LEMMA AboveHalf ==
    ASSUME NEW p \in Nat, NEW h \in Nat
    PROVE  Above(p \div 2)[h] = Above(p)[h + 1]
<1> DEFINE S == {g \in Nat : Above(p \div 2)[g] = Above(p)[g + 1]}
<1>1. p \div 2 \in Nat
  OBVIOUS
<1>2. 0 \in S
  <2>1. Above(p)[0 + 1] = Above(p)[0] \div 2
    BY AboveValues
  <2> QED
    BY <1>1, <2>1, AboveValues
<1>3. ASSUME NEW g \in Nat, g \in S PROVE g + 1 \in S
  <2>1. Above(p \div 2)[g + 1] = Above(p \div 2)[g] \div 2
    BY <1>1, AboveValues
  <2>2. g + 1 \in Nat /\ Above(p)[(g + 1) + 1] = Above(p)[g + 1] \div 2
    BY AboveValues
  <2> QED
    BY <1>3, <2>1, <2>2
<1> HIDE DEF S
<1>4. h \in S
  BY <1>2, <1>3, Induction
<1> QED
  BY <1>4 DEF S

\* Below the h-th power of two are the leaves whose h-th ancestor is the first.
LEMMA LeavesBelow ==
    ASSUME NEW h \in Nat, NEW p \in Nat
    PROVE  Above(p)[h] = 0 <=> p < TwoTo[h]
<1> DEFINE S == {g \in Nat : \A q \in Nat : Above(q)[g] = 0 <=> q < TwoTo[g]}
<1>1. 0 \in S
  BY AboveValues, TwoToValues
<1>2. ASSUME NEW g \in Nat, g \in S PROVE g + 1 \in S
  <2> SUFFICES ASSUME NEW q \in Nat PROVE Above(q)[g + 1] = 0 <=> q < TwoTo[g + 1]
    OBVIOUS
  <2>1. q \div 2 \in Nat
    OBVIOUS
  <2>2. Above(q)[g + 1] = 0 <=> q \div 2 < TwoTo[g]
    BY <1>2, <2>1, AboveHalf
  <2>3. TwoTo[g] \in Nat /\ TwoTo[g + 1] = 2 * TwoTo[g]
    BY TwoToValues
  <2> QED
    BY <2>2, <2>3
<1> HIDE DEF S
<1>3. h \in S
  BY <1>1, <1>2, Induction
<1> QED
  BY <1>3 DEF S

\* The ancestors of two leaves are in the order of the leaves.
LEMMA AboveMonotone ==
    ASSUME NEW p \in Nat, NEW q \in Nat, p <= q, NEW h \in Nat
    PROVE  Above(p)[h] <= Above(q)[h]
<1> DEFINE S == {g \in Nat : Above(p)[g] <= Above(q)[g]}
<1>1. 0 \in S
  BY AboveValues
<1>2. ASSUME NEW g \in Nat, g \in S PROVE g + 1 \in S
  <2>1. /\ Above(p)[g] \in Nat /\ Above(p)[g + 1] = Above(p)[g] \div 2
        /\ Above(q)[g] \in Nat /\ Above(q)[g + 1] = Above(q)[g] \div 2
    BY AboveValues
  <2> QED
    BY <1>2, <2>1
<1> HIDE DEF S
<1>3. h \in S
  BY <1>1, <1>2, Induction
<1> QED
  BY <1>3 DEF S

-----------------------------------------------------------------------------
(* The shape of a block's tree *)

LEMMA WidthValues ==
    ASSUME NEW list, IsList(list)
    PROVE  /\ Width(list, 0) = Len(list)
           /\ \A h \in Nat : /\ Width(list, h) \in Nat \ {0}
                             /\ Width(list, h + 1) = (Width(list, h) + 1) \div 2
<1>1. Len(list) \in Nat /\ Len(list) # 0
  BY DEF IsList
<1>2. Width(list, 0) = Len(list)
  BY <1>1, LevelsValues DEF Width
<1>3. \A h \in Nat : /\ Width(list, h) \in Nat
                     /\ Width(list, h + 1) = (Width(list, h) + 1) \div 2
  BY <1>1, LevelsValues, UpValues DEF Width, IsSeqOf
<1> DEFINE S == {h \in Nat : Width(list, h) # 0}
<1>4. 0 \in S
  BY <1>1, <1>2
<1>5. ASSUME NEW h \in Nat, h \in S PROVE h + 1 \in S
  <2>1. /\ Width(list, h) \in Nat /\ Width(list, h) # 0
        /\ Width(list, h + 1) = (Width(list, h) + 1) \div 2
    BY <1>3, <1>5
  <2>2. Width(list, h + 1) # 0
    BY <2>1
  <2> QED
    BY <2>2
<1> HIDE DEF S
<1>6. \A h \in Nat : h \in S
  BY <1>4, <1>5, Induction
<1> QED
  BY <1>2, <1>3, <1>6 DEF S

\* The left child of a node is on the level below.
LEMMA LeftChild ==
    ASSUME NEW list, IsList(list), NEW h \in Nat, NEW y \in 0..(Width(list, h + 1) - 1)
    PROVE  y \in Nat /\ 2 * y \in 0..(Width(list, h) - 1)
<1>1. Width(list, h) \in Nat /\ Width(list, h + 1) = (Width(list, h) + 1) \div 2
  BY WidthValues
<1> QED
  BY <1>1

\* An id is no hash of two nodes.
LEMMA IdIsNoParent ==
    ASSUME NEW t, NEW l, NEW r
    PROVE  TxID(t) # MerkleTreeParent(l, r)
BY DEF TxID, MerkleTreeParent

\* A leaf is the id of its transaction.
LEMMA NodeLeaf ==
    ASSUME NEW list, IsList(list), NEW y \in 0..(Len(list) - 1)
    PROVE  Node(list, 0, y) = TxID(list[y + 1])
<1>1. Len(list) \in Nat
  BY DEF IsList
<1>2. Levels(list)[0] = [j \in 1..Len(list) |-> TxID(list[j])]
  BY <1>1, LevelsValues
<1> QED
  BY <1>1, <1>2 DEF Node

\* The position of the right child of a node: of the left one, where the left
\* one is alone.
RightChild(list, h, y) == IF 2 * y + 1 < Width(list, h) THEN 2 * y + 1 ELSE 2 * y

\* Another node is the parent of its children.
LEMMA NodeChildren ==
    ASSUME NEW list, IsList(list), NEW h \in Nat, NEW y \in 0..(Width(list, h + 1) - 1)
    PROVE  Node(list, h + 1, y) =
             MerkleTreeParent(Node(list, h, 2 * y), Node(list, h, RightChild(list, h, y)))
<1>1. Len(list) \in Nat
  BY DEF IsList
<1> DEFINE s == Levels(list)[h]
<1>2. Len(s) \in Nat /\ Levels(list)[h + 1] = Up(s)
  BY <1>1, LevelsValues DEF IsSeqOf
<1>3. y \in 0..(Len(Up(s)) - 1)
  BY <1>2 DEF Width
<1>4. y \in Nat /\ (2 * y + 1) + 1 = 2 * y + 2
  BY LeftChild
<1> HIDE DEF s
<1>5. /\ 2 * y + 1 < Len(s) =>
           Up(s)[y + 1] = MerkleTreeParent(s[2 * y + 1], s[2 * y + 2])
      /\ 2 * y + 1 >= Len(s) =>
           Up(s)[y + 1] = MerkleTreeParent(s[2 * y + 1], s[2 * y + 1])
  BY <1>2, <1>3, UpValues
<1>6. CASE 2 * y + 1 < Len(s)
  BY <1>2, <1>4, <1>5, <1>6 DEF s, Node, Width, RightChild
<1>7. CASE 2 * y + 1 >= Len(s)
  <2>1. ~ (2 * y + 1 < Len(s))
    BY <1>2, <1>4, <1>7
  <2> QED
    BY <1>2, <1>5, <1>7, <2>1 DEF s, Node, Width, RightChild
<1> QED
  BY <1>2, <1>4, <1>6, <1>7

\* So only leaves are ids.
LEMMA InnerNode ==
    ASSUME NEW list, IsList(list), NEW h \in Nat \ {0}, NEW y \in 0..(Width(list, h) - 1)
    PROVE  \E l, r : Node(list, h, y) = MerkleTreeParent(l, r)
<1> DEFINE g == h - 1
<1>1. g \in Nat /\ h = g + 1
  OBVIOUS
<1> HIDE DEF g
<1>2. y \in 0..(Width(list, g + 1) - 1)
  BY <1>1
<1>3. \E l, r : Node(list, g + 1, y) = MerkleTreeParent(l, r)
  <2>1. Node(list, g + 1, y) =
             MerkleTreeParent(Node(list, g, 2 * y), Node(list, g, RightChild(list, g, y)))
    BY <1>1, <1>2, NodeChildren
  <2> QED
    BY <2>1
<1> QED
  BY <1>1, <1>3

\* The ancestors of a node of the block are nodes of the block.
LEMMA AboveFrom ==
    ASSUME NEW list, IsList(list), NEW g \in Nat, NEW p \in 0..(Width(list, g) - 1),
           NEW n \in Nat
    PROVE  Above(p)[n] \in 0..(Width(list, g + n) - 1)
<1>1. p \in Nat /\ Width(list, g) \in Nat
  BY WidthValues
<1> DEFINE S == {m \in Nat : Above(p)[m] < Width(list, g + m)}
<1>2. 0 \in S
  <2>1. Above(p)[0] = p /\ g + 0 = g
    BY <1>1, AboveValues
  <2> QED
    BY <1>1, <2>1
<1>3. ASSUME NEW m \in Nat, m \in S PROVE m + 1 \in S
  <2>1. Above(p)[m] \in Nat /\ Above(p)[m + 1] = Above(p)[m] \div 2
    BY <1>1, AboveValues
  <2>2. g + m \in Nat /\ g + (m + 1) = (g + m) + 1
    OBVIOUS
  <2>3. /\ Width(list, g + m) \in Nat
        /\ Width(list, g + (m + 1)) = (Width(list, g + m) + 1) \div 2
    BY <2>2, WidthValues
  <2> QED
    BY <1>3, <2>1, <2>3
<1> HIDE DEF S
<1>4. n \in S
  BY <1>2, <1>3, Induction
<1>5. Above(p)[n] \in Nat /\ Width(list, g + n) \in Nat
  <2>1. g + n \in Nat
    OBVIOUS
  <2> QED
    BY <1>1, <2>1, AboveValues, WidthValues
<1> QED
  BY <1>4, <1>5 DEF S

\* Those of a leaf among them.
LEMMA AboveInside ==
    ASSUME NEW list, IsList(list), NEW p \in 0..(Len(list) - 1), NEW h \in Nat
    PROVE  Above(p)[h] \in 0..(Width(list, h) - 1)
<1>1. 0 \in Nat /\ Width(list, 0) = Len(list) /\ 0 + h = h
  BY WidthValues
<1> QED
  BY <1>1, AboveFrom

\* And every node of the block has nodes below it on each lower level.
LEMMA NodeBelow ==
    ASSUME NEW list, IsList(list), NEW g \in Nat, NEW n \in Nat,
           NEW y \in 0..(Width(list, g + n) - 1)
    PROVE  \E p \in 0..(Width(list, g) - 1) : Above(p)[n] = y
<1>1. Width(list, g) \in Nat
  BY WidthValues
<1> DEFINE S == {m \in Nat : \A z \in 0..(Width(list, g + m) - 1) :
                                \E p \in 0..(Width(list, g) - 1) : Above(p)[m] = z}
<1>2. 0 \in S
  <2> SUFFICES ASSUME NEW z \in 0..(Width(list, g + 0) - 1)
               PROVE  \E p \in 0..(Width(list, g) - 1) : Above(p)[0] = z
    OBVIOUS
  <2>1. z \in 0..(Width(list, g) - 1) /\ z \in Nat
    <3>1. g + 0 = g
      OBVIOUS
    <3> QED
      BY <1>1, <3>1
  <2> QED
    BY <2>1, AboveValues
<1>3. ASSUME NEW m \in Nat, m \in S PROVE m + 1 \in S
  <2> SUFFICES ASSUME NEW z \in 0..(Width(list, g + (m + 1)) - 1)
               PROVE  \E p \in 0..(Width(list, g) - 1) : Above(p)[m + 1] = z
    OBVIOUS
  <2>1. g + m \in Nat /\ g + (m + 1) = (g + m) + 1
    OBVIOUS
  <2>2. z \in Nat /\ 2 * z \in 0..(Width(list, g + m) - 1)
    BY <2>1, LeftChild
  <2>3. PICK p \in 0..(Width(list, g) - 1) : Above(p)[m] = 2 * z
    BY <1>3, <2>2
  <2>4. p \in Nat
    BY <1>1
  <2>5. Above(p)[m + 1] = (2 * z) \div 2
    BY <2>3, <2>4, AboveValues
  <2> QED
    BY <2>2, <2>5
<1> HIDE DEF S
<1>4. n \in S
  BY <1>2, <1>3, Induction
<1> QED
  BY <1>4 DEF S

\* The tree has a root: the levels shrink to one node.
LEMMA HeightExists ==
    ASSUME NEW list, IsList(list)
    PROVE  /\ Height(list) \in 0..Len(list)
           /\ Width(list, Height(list)) = 1
           /\ \A g \in 0..(Height(list) - 1) : Width(list, g) # 1
<1>1. Len(list) \in Nat
  BY DEF IsList
<1> DEFINE S == {h \in Nat : Width(list, h) = 1 \/ Width(list, h) + h <= Len(list)}
<1>2. 0 \in S
  BY <1>1, WidthValues
<1>3. ASSUME NEW h \in Nat, h \in S PROVE h + 1 \in S
  <2>1. Width(list, h) \in Nat \ {0} /\ Width(list, h + 1) = (Width(list, h) + 1) \div 2
    BY WidthValues
  <2> QED
    BY <1>1, <1>3, <2>1
<1> HIDE DEF S
<1>4. \A h \in Nat : h \in S
  BY <1>2, <1>3, Induction
<1> DEFINE R == {h \in Nat : Width(list, h) = 1}
<1>5. Len(list) \in R
  <2>1. Len(list) \in S
    BY <1>1, <1>4
  <2>2. Width(list, Len(list)) \in Nat \ {0}
    BY <1>1, WidthValues
  <2> QED
    BY <1>1, <2>1, <2>2 DEF S
<1>6. R \subseteq Nat
  OBVIOUS
<1>7. PICK h \in R : \A g \in R : h <= g
  <2> HIDE DEF R
  <2> QED
    BY <1>5, <1>6, LeastNumber
<1>8. /\ h \in 0..Len(list) /\ Width(list, h) = 1
      /\ \A g \in 0..(h - 1) : Width(list, g) # 1
  BY <1>1, <1>5, <1>7
<1> QED
  BY <1>8 DEF Height

\* From every leaf of the block the climb to the root's level ends at the root.
LEMMA AboveHeight ==
    ASSUME NEW list, IsList(list), NEW p \in 0..(Len(list) - 1)
    PROVE  Above(p)[Height(list)] = 0 /\ p < TwoTo[Height(list)]
<1>1. Height(list) \in Nat /\ Width(list, Height(list)) = 1 /\ p \in Nat
  BY HeightExists DEF IsList
<1>2. Above(p)[Height(list)] \in 0..(1 - 1)
  BY <1>1, AboveInside
<1> QED
  BY <1>1, <1>2, LeavesBelow

\* Different places of a level hold different nodes.
LEMMA NodesDiffer ==
    ASSUME NEW list, IsBlock(list), NEW h \in Nat,
           NEW y \in 0..(Width(list, h) - 1), NEW z \in 0..(Width(list, h) - 1),
           Node(list, h, y) = Node(list, h, z)
    PROVE  y = z
<1> USE DEF IsBlock
<1> DEFINE S == {g \in Nat : \A i, j \in 0..(Width(list, g) - 1) :
                                Node(list, g, i) = Node(list, g, j) => i = j}
<1>1. 0 \in S
  <2> SUFFICES ASSUME NEW i \in 0..(Width(list, 0) - 1), NEW j \in 0..(Width(list, 0) - 1),
                      Node(list, 0, i) = Node(list, 0, j)
               PROVE  i = j
    OBVIOUS
  <2>1. Len(list) \in Nat /\ i \in 0..(Len(list) - 1) /\ j \in 0..(Len(list) - 1)
    BY WidthValues DEF IsList
  <2>2. list[i + 1] = list[j + 1]
    BY <2>1, NodeLeaf DEF TxID
  <2>3. i + 1 \in 1..Len(list) /\ j + 1 \in 1..Len(list)
    BY <2>1
  <2> QED
    BY <2>1, <2>2, <2>3
<1>2. ASSUME NEW g \in Nat, g \in S PROVE g + 1 \in S
  <2> SUFFICES ASSUME NEW i \in 0..(Width(list, g + 1) - 1),
                      NEW j \in 0..(Width(list, g + 1) - 1),
                      Node(list, g + 1, i) = Node(list, g + 1, j)
               PROVE  i = j
    OBVIOUS
  <2>1. /\ i \in Nat /\ 2 * i \in 0..(Width(list, g) - 1)
        /\ j \in Nat /\ 2 * j \in 0..(Width(list, g) - 1)
    BY LeftChild
  <2>2. ASSUME NEW x \in 0..(Width(list, g + 1) - 1)
        PROVE  Node(list, g + 1, x)[1] = Node(list, g, 2 * x)
    BY NodeChildren DEF MerkleTreeParent
  <2>4. Node(list, g, 2 * i) = Node(list, g, 2 * j)
    BY <2>2
  <2>5. 2 * i = 2 * j
    BY <1>2, <2>1, <2>4
  <2> QED
    BY <2>1, <2>5
<1> HIDE DEF S
<1>3. h \in S
  BY <1>1, <1>2, Induction
<1> QED
  BY <1>3 DEF S

-----------------------------------------------------------------------------
(* The last node of a level below another *)

LEMMA LastBelowParent ==
    ASSUME NEW list, IsList(list), NEW g \in Nat, NEW n \in Nat, NEW h \in Nat, h = g + n,
           NEW y \in 0..(Width(list, h + 1) - 1),
           NEW p \in 0..(Width(list, g) - 1), Above(p)[n + 1] = y
    PROVE  LastBelow(list, g, n + 1, y, p)
             <=> /\ Above(p)[n] = RightChild(list, h, y)
                 /\ LastBelow(list, g, n, Above(p)[n], p)
<1> DEFINE w == Width(list, h)
           r == RightChild(list, h, y)
           x == Above(p)[n]
<1>1. w \in Nat /\ y \in Nat /\ 2 * y < w /\ p \in Nat /\ Width(list, g) \in Nat
  <2>1. w \in Nat
    BY WidthValues
  <2>2. y \in Nat /\ 2 * y \in 0..(w - 1)
    BY LeftChild
  <2>3. Width(list, g) \in Nat
    BY WidthValues
  <2> HIDE DEF w
  <2> QED
    BY <2>1, <2>2, <2>3
<1>2. r = (IF 2 * y + 1 < w THEN 2 * y + 1 ELSE 2 * y) /\ x \in {2 * y, r}
  <2>1. r = (IF 2 * y + 1 < w THEN 2 * y + 1 ELSE 2 * y)
    BY DEF RightChild
  <2>2. x \in 0..(w - 1) /\ y = x \div 2
    BY <1>1, AboveFrom, AboveValues
  <2> HIDE DEF w, r, x
  <2> QED
    BY <1>1, <2>1, <2>2
<1>3. ASSUME NEW q \in 0..(Width(list, g) - 1)
      PROVE  /\ q \in Nat
             /\ Above(q)[n] \in Nat /\ Above(q)[n] < w
             /\ Above(q)[n + 1] = Above(q)[n] \div 2
             /\ q <= p => Above(q)[n] <= x
             /\ p <= q => x <= Above(q)[n]
  <2>1. q \in Nat
    BY <1>1
  <2>2. Above(q)[n] \in 0..(w - 1)
    BY AboveFrom
  <2>3. Above(q)[n + 1] = Above(q)[n] \div 2
    BY <2>1, AboveValues
  <2>4. q <= p => Above(q)[n] <= Above(p)[n]
    BY <1>1, <2>1, AboveMonotone
  <2>5. p <= q => Above(p)[n] <= Above(q)[n]
    BY <1>1, <2>1, AboveMonotone
  <2> QED
    BY <1>1, <2>1, <2>2, <2>3, <2>4, <2>5
<1> HIDE DEF w, r, x
<1>4. ASSUME LastBelow(list, g, n + 1, y, p)
      PROVE  x = r /\ LastBelow(list, g, n, x, p)
  <2>1. ASSUME NEW q \in 0..(Width(list, g) - 1), Above(q)[n] \in {2 * y, r}
        PROVE  q <= p
    <3>1. Above(q)[n] = 2 * y \/ Above(q)[n] = 2 * y + 1
      BY <1>2, <2>1
    <3>2. Above(q)[n + 1] = Above(q)[n] \div 2
      BY <1>3
    <3>3. (2 * y) \div 2 = y /\ (2 * y + 1) \div 2 = y
      BY <1>1
    <3> QED
      BY <1>4, <3>1, <3>2, <3>3 DEF LastBelow
  <2>2. LastBelow(list, g, n, x, p)
    BY <1>2, <2>1 DEF LastBelow
  <2>3. r \in 0..(w - 1)
    BY <1>1, <1>2
  <2>4. PICK q \in 0..(Width(list, g) - 1) : Above(q)[n] = r
    BY <2>3, NodeBelow DEF w
  <2>5. r <= x
    BY <1>3, <2>1, <2>4
  <2> QED
    BY <1>1, <1>2, <2>2, <2>5
<1>5. ASSUME x = r, LastBelow(list, g, n, x, p)
      PROVE  LastBelow(list, g, n + 1, y, p)
  <2> SUFFICES ASSUME NEW q \in 0..(Width(list, g) - 1), Above(q)[n + 1] = y PROVE q <= p
    BY DEF LastBelow
  <2>1. Above(q)[n] \in {2 * y, 2 * y + 1} /\ Above(q)[n] <= r
    <3>1. Above(q)[n] \in Nat /\ Above(q)[n] < w /\ Above(q)[n + 1] = Above(q)[n] \div 2
      BY <1>3
    <3>2. \A a \in Nat : a \div 2 = y => a = 2 * y \/ a = 2 * y + 1
      BY <1>1
    <3>3. Above(q)[n] = 2 * y \/ Above(q)[n] = 2 * y + 1
      BY <3>1, <3>2
    <3>4. CASE 2 * y + 1 < w
      <4>1. r = 2 * y + 1
        BY <1>2, <3>4
      <4> QED
        BY <1>1, <3>3, <4>1
    <3>5. CASE ~ (2 * y + 1 < w)
      <4>1. r = 2 * y
        BY <1>2, <3>5
      <4>2. Above(q)[n] = 2 * y
        BY <1>1, <3>1, <3>3, <3>5
      <4> QED
        BY <1>1, <4>1, <4>2
    <3> QED
      BY <3>4, <3>5
  <2>2. CASE Above(q)[n] = x
    BY <1>5, <2>2 DEF LastBelow
  <2>3. CASE Above(q)[n] # x
    BY <1>1, <1>2, <1>3, <1>5, <2>1, <2>3
  <2> QED
    BY <2>2, <2>3
<1> QED
  BY <1>4, <1>5 DEF r, x

-----------------------------------------------------------------------------
(* The array a list is padded to, and the tree of the list *)

\* The three kinds of hash are distinct, and hashing loses nothing: what the
\* free constructors TxID and MerkleTreeParent stand for.
LEMMA HashesDiffer ==
    ASSUME NEW l, NEW r, NEW t
    PROVE  /\ TxID(t) # Nil
           /\ MerkleTreeParent(l, r) # Nil
           /\ TxID(t) # MerkleTreeParent(l, r)
BY DEF TxID, MerkleTreeParent, Nil

\* nextPowerOfTwo pads a length to a power of two that is less than twice it.
LEMMA PaddingValues ==
    ASSUME NEW n \in 1..MaxTxs
    PROVE  /\ nextPowerOfTwo(n) \in PowersOfTwo
           /\ n <= nextPowerOfTwo(n) /\ nextPowerOfTwo(n) < 2 * n
<1>1. n \in Nat \ {0}
  BY MaxTxsAssumption
<1>2. CASE n \in PowersOfTwo
  BY <1>1, <1>2 DEF nextPowerOfTwo
<1>3. CASE n \notin PowersOfTwo
  <2>1. \E p \in PowersOfTwo : n < p /\ p < 2 * n
    BY <1>3, MaxTxsAssumption
  <2>2. nextPowerOfTwo(n) = CHOOSE p \in PowersOfTwo : n < p /\ p < 2 * n
    BY <1>3 DEF nextPowerOfTwo
  <2>3. nextPowerOfTwo(n) \in PowersOfTwo /\ n < nextPowerOfTwo(n)
           /\ nextPowerOfTwo(n) < 2 * n
    BY <2>1, <2>2
  <2>4. nextPowerOfTwo(n) \in Nat
    BY <2>3, PowersAssumption
  <2> QED
    BY <1>1, <2>3, <2>4
<1> QED
  BY <1>2, <1>3

\* Halved along with the levels, the padded length stays a power of two that
\* is not much longer than the level.
LEMMA PaddedWidths ==
    ASSUME NEW list, IsList(list), NEW n \in PowersOfTwo,
           Len(list) <= n, n < 2 * Len(list), NEW h \in 0..Height(list)
    PROVE  /\ Above(n)[h] \in PowersOfTwo
           /\ Above(n)[h] \in 1..n
           /\ Width(list, h) <= Above(n)[h] /\ Above(n)[h] < 2 * Width(list, h)
<1>1. /\ n \in Nat \ {0} /\ Len(list) \in Nat /\ Height(list) \in Nat
      /\ \A g \in 0..(Height(list) - 1) : Width(list, g) # 1
  BY PowersAssumption, HeightExists DEF IsList
<1>2. /\ Above(n)[0] = n
      /\ \A g \in Nat : Above(n)[g] \in Nat /\ Above(n)[g + 1] = Above(n)[g] \div 2
  BY <1>1, AboveValues
<1>3. /\ Width(list, 0) = Len(list)
      /\ \A g \in Nat : /\ Width(list, g) \in Nat \ {0}
                        /\ Width(list, g + 1) = (Width(list, g) + 1) \div 2
  BY WidthValues
<1> DEFINE Fits(g) == /\ Above(n)[g] \in PowersOfTwo
                      /\ Above(n)[g] \in 1..n
                      /\ Width(list, g) <= Above(n)[g]
                      /\ Above(n)[g] < 2 * Width(list, g)
           S == {g \in Nat : g <= Height(list) => Fits(g)}
<1>4. 0 \in S
  <2>1. Above(n)[0] = n /\ Width(list, 0) = Len(list)
    BY <1>2, <1>3
  <2>2. n \in 1..n
    BY <1>1
  <2>3. Fits(0)
    BY <2>1, <2>2
  <2> HIDE DEF Fits
  <2> QED
    BY <2>3
<1>5. ASSUME NEW g \in Nat, g \in S PROVE g + 1 \in S
  <2> SUFFICES ASSUME g + 1 <= Height(list) PROVE Fits(g + 1)
    OBVIOUS
  <2> DEFINE m == Above(n)[g]
             w == Width(list, g)
  <2>1. Fits(g) /\ w # 1
    BY <1>1, <1>5
  <2>2. w \in Nat \ {0} /\ Width(list, g + 1) = (w + 1) \div 2
    BY <1>3
  <2>3. m \in Nat /\ Above(n)[g + 1] = m \div 2
    BY <1>2
  <2>4. m \in PowersOfTwo /\ m \in 1..n /\ w <= m /\ m < 2 * w
    BY <2>1
  <2> HIDE DEF m, w
  <2>5. m # 1
    BY <2>1, <2>2, <2>4
  <2>6. m % 2 = 0 /\ (m \div 2) \in PowersOfTwo
    BY <2>4, <2>5, PowersAssumption
  <2>7. m \div 2 \in 1..n /\ m = 2 * (m \div 2)
    BY <1>1, <2>3, <2>4, <2>5, <2>6
  <2>8. (w + 1) \div 2 <= m \div 2 /\ m \div 2 < 2 * ((w + 1) \div 2)
    BY <2>2, <2>3, <2>4, <2>7
  <2> QED
    BY <2>2, <2>3, <2>6, <2>7, <2>8
<1> HIDE DEF S
<1>6. \A g \in Nat : g \in S
  BY <1>4, <1>5, Induction
<1>7. h \in S /\ h <= Height(list)
  BY <1>1, <1>6
<1> QED
  BY <1>7 DEF S

\* It is 1 at the root and nowhere below it.
LEMMA PaddedHeight ==
    ASSUME NEW list, IsList(list), NEW n \in PowersOfTwo,
           Len(list) <= n, n < 2 * Len(list)
    PROVE  /\ Above(n)[Height(list)] = 1
           /\ \A h \in Nat : Above(n)[h] = 1 => h = Height(list)
<1>1. /\ n \in Nat \ {0} /\ Height(list) \in Nat
      /\ Width(list, Height(list)) = 1
      /\ \A g \in 0..(Height(list) - 1) : Width(list, g) # 1
  BY PowersAssumption, HeightExists DEF IsList
<1>2. Above(n)[Height(list)] = 1
  <2> DEFINE m == Above(n)[Height(list)]
  <2>1. m \in PowersOfTwo /\ m \in 1..n /\ m < 2 * 1
    BY <1>1, PaddedWidths
  <2> HIDE DEF m
  <2>2. m = 1
    BY <1>1, <2>1
  <2> QED
    BY <2>2 DEF m
<1>3. \A g \in Nat : Above(n)[g] \in Nat /\ Above(n)[g + 1] = Above(n)[g] \div 2
  BY <1>1, AboveValues
<1> DEFINE S == {g \in Nat : Above(n)[Height(list) + 1 + g] = 0}
<1>4. \A g \in Nat : g \in S
  <2>1. 0 \in S
    <3>1. Above(n)[Height(list) + 1] = 1 \div 2
      BY <1>1, <1>2, <1>3
    <3>2. 1 \div 2 = 0 /\ Height(list) + 1 + 0 = Height(list) + 1
      BY <1>1
    <3> QED
      BY <3>1, <3>2
  <2>2. ASSUME NEW g \in Nat, g \in S PROVE g + 1 \in S
    <3>1. /\ Height(list) + 1 + g \in Nat
          /\ Height(list) + 1 + (g + 1) = (Height(list) + 1 + g) + 1
      BY <1>1
    <3>2. Above(n)[(Height(list) + 1 + g) + 1] = 0 \div 2
      BY <1>3, <2>2, <3>1
    <3> QED
      BY <3>1, <3>2
  <2> HIDE DEF S
  <2> QED
    BY <2>1, <2>2, Induction
<1>5. ASSUME NEW h \in Nat, Above(n)[h] = 1 PROVE h = Height(list)
  <2>1. CASE h < Height(list)
    <3>1. h \in 0..Height(list) /\ h \in 0..(Height(list) - 1)
      BY <1>1, <2>1
    <3>2. Width(list, h) <= Above(n)[h]
      BY <3>1, PaddedWidths
    <3>3. Width(list, h) \in Nat \ {0} /\ Width(list, h) # 1
      BY <1>1, <3>1, WidthValues
    <3> QED
      BY <1>5, <3>2, <3>3
  <2>2. CASE h > Height(list)
    <3>1. h - (Height(list) + 1) \in Nat /\ Height(list) + 1 + (h - (Height(list) + 1)) = h
      BY <1>1, <2>2
    <3>2. h - (Height(list) + 1) \in S
      BY <1>4, <3>1
    <3>3. Above(n)[h] = 0
      BY <3>1, <3>2
    <3> QED
      BY <1>5, <3>3
  <2> QED
    BY <1>1, <2>1, <2>2
<1> QED
  BY <1>2, <1>5

\* A cell set aside for level h holds a node of the tree or is empty.
PaddedCell(list, h, y) == IF y < Width(list, h) THEN Node(list, h, y) ELSE Nil

\* A node is not an empty cell.
LEMMA NodesAreNotNil ==
    ASSUME NEW list, IsList(list), NEW h \in Nat, NEW y \in 0..(Width(list, h) - 1)
    PROVE  Node(list, h, y) # Nil
<1>1. CASE h = 0
  <2>1. y \in 0..(Len(list) - 1)
    BY <1>1, WidthValues
  <2> QED
    BY <1>1, <2>1, NodeLeaf, HashesDiffer
<1>2. CASE h # 0
  <2>1. PICK l, r : Node(list, h, y) = MerkleTreeParent(l, r)
    BY <1>2, InnerNode
  <2> QED
    BY <2>1, HashesDiffer
<1> QED
  BY <1>1, <1>2

\* ParentCell makes the cells of a level of those of the level below.
LEMMA PaddedParent ==
    ASSUME NEW list, IsList(list), NEW h \in Nat, NEW y \in Nat
    PROVE  PaddedCell(list, h + 1, y) =
             ParentCell(PaddedCell(list, h, 2 * y), PaddedCell(list, h, 2 * y + 1))
<1> DEFINE w == Width(list, h)
           l == PaddedCell(list, h, 2 * y)
           r == PaddedCell(list, h, 2 * y + 1)
<1>1. w \in Nat \ {0} /\ Width(list, h + 1) = (w + 1) \div 2
  BY WidthValues
<1>2. CASE y < (w + 1) \div 2
  <2>1. y \in 0..(Width(list, h + 1) - 1) /\ 2 * y \in 0..(w - 1)
    BY <1>1, <1>2
  <2>2. PaddedCell(list, h + 1, y) =
           MerkleTreeParent(Node(list, h, 2 * y), Node(list, h, RightChild(list, h, y)))
    BY <1>1, <1>2, <2>1, NodeChildren DEF PaddedCell
  <2>3. l = Node(list, h, 2 * y) /\ l # Nil
    BY <1>1, <2>1, NodesAreNotNil DEF PaddedCell
  <2>4. CASE 2 * y + 1 < w
    <3>1. 2 * y + 1 \in 0..(w - 1)
      BY <1>1, <2>1, <2>4
    <3>2. r = Node(list, h, 2 * y + 1) /\ r # Nil
      BY <2>4, <3>1, NodesAreNotNil DEF PaddedCell
    <3> QED
      BY <2>2, <2>3, <2>4, <3>2 DEF ParentCell, RightChild
  <2>5. CASE ~ (2 * y + 1 < w)
    <3>1. r = Nil
      BY <2>5 DEF PaddedCell
    <3> QED
      BY <2>2, <2>3, <2>5, <3>1 DEF ParentCell, RightChild
  <2> QED
    BY <2>4, <2>5
<1>3. CASE ~ (y < (w + 1) \div 2)
  <2>1. ~ (2 * y < w)
    BY <1>1, <1>3
  <2>2. l = Nil /\ PaddedCell(list, h + 1, y) = Nil
    BY <1>1, <1>3, <2>1 DEF PaddedCell
  <2> QED
    BY <2>2 DEF ParentCell
<1> QED
  BY <1>2, <1>3

=============================================================================

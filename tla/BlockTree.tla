------------------------------ MODULE BlockTree ------------------------------
(***************************************************************************)
(* What the Merkle tree of a list of transactions is, whatever array or    *)
(* recursion computes it: the reference the components are compared with.  *)
(***************************************************************************)
EXTENDS MerkleHash

\* 1 << n, without a word to overflow.
TwoTo[n \in Nat] == IF n = 0 THEN 1 ELSE 2 * TwoTo[n - 1]

\* The node above leaf p, h levels up: positions count from 0.
Above(p) == LET above[h \in Nat] == IF h = 0 THEN p ELSE above[h - 1] \div 2
            IN  above

\* The level above s, whose last node is paired with itself where it is alone.
Up(s) ==
    LET m == (Len(s) + 1) \div 2
    IN  SubSeq([j \in 1..m |->
                  MerkleTreeParent(s[2 * j - 1], s[IF 2 * j <= Len(s) THEN 2 * j
                                                                    ELSE 2 * j - 1])],
               1, m)

\* The levels over the ids of a list; above the root there are more of one.
Levels(list) ==
    LET level[h \in Nat] == IF h = 0 THEN [j \in 1..Len(list) |-> TxID(list[j])]
                                     ELSE Up(level[h - 1])
    IN  level

\* How many nodes level h has, and the one at position y.
Width(list, h)   == Len(Levels(list)[h])
Node(list, h, y) == Levels(list)[h][y + 1]

\* p is the last of the nodes of level g whose ancestor, n levels up, is node y.
LastBelow(list, g, n, y, p) ==
    \A q \in 0..(Width(list, g) - 1) : Above(q)[n] = y => q <= p

\* The lowest level of one node, and that node.
Height(list) ==
    CHOOSE h \in 0..Len(list) :
        /\ Width(list, h) = 1
        /\ \A g \in 0..(h - 1) : Width(list, g) # 1
MerkleRoot(list) == Node(list, Height(list), 0)

\* The transactions of a block: at least one, and none of them twice.
IsList(list)  == Len(list) \in Nat \ {0}
IsBlock(list) ==
    /\ IsList(list)
    /\ \A i, j \in 1..Len(list) : list[i] = list[j] => i = j

=============================================================================

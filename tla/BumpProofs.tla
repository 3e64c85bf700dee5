------------------------------ MODULE BumpProofs ------------------------------
(***************************************************************************)
(* Proofs about Bump, for blocks of any length.                            *)
(***************************************************************************)
EXTENDS Bump, BlockTreeProofs

-----------------------------------------------------------------------------
(* The invariant *)

\* The leaf of the transaction the BUMP is made for, and the one beside the
\* node on its way at height h.
OwnLeaf        == Leaf(txIndex, TxID(block[txIndex + 1]), TRUE)
SiblingLeaf(h) ==
    LET offset == PairedTo(Above(txIndex)[h])
    IN  Leaf(offset, PaddedCell(block, h, offset), FALSE)

\* The path has a sibling at each height it has come to; finished, it has the
\* transaction's own leaf too, before its sibling or behind it.
Lowest == {<<OwnLeaf, SiblingLeaf(0)>>, <<SiblingLeaf(0), OwnLeaf>>}
PathInv ==
    /\ pc = "new" => path = <<>> /\ height = 0
    /\ pc = "levels" =>
          /\ Len(block) > 1
          /\ path = [h \in 1..height |-> <<SiblingLeaf(h - 1)>>]
    /\ pc \notin {"new", "levels"} /\ Len(block) = 1 => path = << <<OwnLeaf>> >>
    /\ pc \notin {"new", "levels"} /\ Len(block) > 1 =>
          \E level \in Lowest :
             path = [h \in 1..treeHeight |->
                       IF h = 1 THEN level ELSE <<SiblingLeaf(h - 1)>>]
    /\ via = "bytes" /\ Len(block) > 1 /\ txIndex % 2 = 0 =>
          path[1] = <<OwnLeaf, SiblingLeaf(0)>>

\* The fold stands on a node on the way from a transaction the BUMP is good
\* for.
FoldInv ==
    pc = "fold" =>
        /\ Len(block) > 1
        /\ index \in {txIndex, PairedTo(txIndex)} /\ index < Len(block)
        /\ txid = block[index + 1]
        /\ workingHash = Node(block, height, Above(index)[height])

IInv ==
    /\ block \in Blocks /\ txIndex \in 0..(Len(block) - 1)
    /\ pc \in {"new", "levels", "built", "find", "fold"} \/ Ended
    /\ height \in 0..treeHeight /\ oddTxIndex \in BOOLEAN /\ index \in Nat
    /\ pc \in {"built", "find"} => height = 0
    /\ pc \in {"new", "levels", "built"} => via = "none"
    /\ PathInv
    /\ FoldInv
    /\ RootOrNotFound
    /\ SortedIsSafe

-----------------------------------------------------------------------------
(* Blocks, and the array of a block *)

LEMMA BlockValues ==
    ASSUME block \in Blocks
    PROVE  /\ IsList(block) /\ Len(block) \in Nat \ {0}
           /\ numOfTxids \in PowersOfTwo /\ numOfTxids \in Nat \ {0}
           /\ Len(block) <= numOfTxids /\ numOfTxids < 2 * Len(block)
<1>1. Len(block) \in 1..MaxTxs /\ MaxTxs \in Nat
  BY BumpAssumption, MaxTxsAssumption
<1>2. /\ numOfTxids \in PowersOfTwo
      /\ Len(block) <= numOfTxids /\ numOfTxids < 2 * Len(block)
  BY <1>1, PaddingValues DEF numOfTxids
<1>3. numOfTxids \in Nat \ {0}
  BY <1>2, PowersAssumption
<1> QED
  BY <1>1, <1>2, <1>3 DEF IsList

\* The loop's height is the tree's.
LEMMA TreeHeightValue ==
    ASSUME block \in Blocks
    PROVE  /\ treeHeight = Height(block) /\ treeHeight \in Nat
           /\ numOfHashes(treeHeight) = 1
           /\ Len(block) > 1 => treeHeight # 0
<1>1. /\ IsList(block) /\ Len(block) \in Nat \ {0} /\ numOfTxids \in Nat
      /\ Len(block) <= numOfTxids
  BY BlockValues
<1>2. /\ Above(numOfTxids)[Height(block)] = 1
      /\ \A h \in Nat : Above(numOfTxids)[h] = 1 => h = Height(block)
  BY BlockValues, PaddedHeight
<1>3. Height(block) \in 0..Len(block) /\ Width(block, Height(block)) = 1
  BY <1>1, HeightExists
<1>4. Height(block) \in 0..numOfTxids
  BY <1>1, <1>3
<1>5. \A h \in 0..numOfTxids : Above(numOfTxids)[h] = 1 => h = Height(block)
  BY <1>2
<1>6. treeHeight = Height(block)
  BY <1>2, <1>4, <1>5 DEF treeHeight
<1>7. Width(block, 0) = Len(block)
  BY <1>1, WidthValues
<1>8. Len(block) > 1 => Height(block) # 0
  BY <1>1, <1>3, <1>7
<1> QED
  BY <1>1, <1>2, <1>3, <1>6, <1>8 DEF numOfHashes

\* How the number of cells in a level is halved.
LEMMA LevelSizes ==
    ASSUME block \in Blocks, NEW h \in 0..treeHeight
    PROVE  /\ numOfHashes(h) \in 1..numOfTxids
           /\ Width(block, h) \in Nat \ {0} /\ Width(block, h) <= numOfHashes(h)
           /\ h # treeHeight => numOfHashes(h) = 2 * numOfHashes(h + 1)
<1>1. /\ IsList(block) /\ numOfTxids \in PowersOfTwo /\ numOfTxids \in Nat \ {0}
      /\ Len(block) <= numOfTxids /\ numOfTxids < 2 * Len(block)
  BY BlockValues
<1>2. treeHeight = Height(block) /\ treeHeight \in Nat /\ h \in Nat
  BY TreeHeightValue
<1>3. /\ Above(numOfTxids)[h] \in PowersOfTwo
      /\ Above(numOfTxids)[h] \in 1..numOfTxids
      /\ Width(block, h) <= Above(numOfTxids)[h]
  BY <1>1, <1>2, PaddedWidths
<1>4. Width(block, h) \in Nat \ {0}
  BY <1>1, <1>2, WidthValues
<1>5. h # treeHeight => Above(numOfTxids)[h] # 1
  BY <1>1, <1>2, PaddedHeight
<1>6. Above(numOfTxids)[h + 1] = Above(numOfTxids)[h] \div 2
  BY <1>1, <1>2, AboveValues
<1>7. h # treeHeight => Above(numOfTxids)[h] % 2 = 0
  BY <1>3, <1>5, PowersAssumption
<1> DEFINE m == Above(numOfTxids)[h]
<1>8. m \in Nat /\ (m % 2 = 0 => m = 2 * (m \div 2))
  <2>1. m \in Nat
    BY <1>1, <1>3
  <2> HIDE DEF m
  <2> QED
    BY <2>1
<1> QED
  BY <1>3, <1>4, <1>6, <1>7, <1>8 DEF numOfHashes

\* The array is what its definition says of each cell.
LEMMA ArrayValues ==
    ASSUME block \in Blocks
    PROVE  /\ \A j \in 0..(numOfTxids - 1) :
                 merkleTree[j] = IF j < Len(block) THEN TxID(block[j + 1]) ELSE Nil
           /\ \A j \in numOfTxids..(2 * numOfTxids - 2) :
                 merkleTree[j] = ParentCell(merkleTree[2 * (j - numOfTxids)],
                                            merkleTree[2 * (j - numOfTxids) + 1])
<1> DEFINE n == numOfTxids
           cell(f, j) == IF j < n
                           THEN IF j < Len(block) THEN TxID(block[j + 1]) ELSE Nil
                           ELSE ParentCell(f[2 * (j - n)], f[2 * (j - n) + 1])
           S == {m \in Nat : m <= 2 * n - 2 =>
                               \E f : \A j \in 0..m : f[j] = cell(f, j)}
<1>1. n \in Nat \ {0}
  BY BlockValues
<1>2. \A m \in Nat : m \in S
  <2>1. 0 \in S
    <3> DEFINE f == [j \in {0} |-> IF 0 < Len(block) THEN TxID(block[0 + 1]) ELSE Nil]
    <3>1. f[0] = cell(f, 0)
      BY <1>1
    <3>2. \A j \in 0..0 : f[j] = cell(f, j)
      BY <3>1
    <3> HIDE DEF f
    <3> QED
      BY <3>2
  <2>2. ASSUME NEW m \in Nat, m \in S PROVE m + 1 \in S
    <3> SUFFICES ASSUME m + 1 <= 2 * n - 2
                 PROVE  \E f : \A j \in 0..(m + 1) : f[j] = cell(f, j)
      OBVIOUS
    <3>1. PICK f : \A j \in 0..m : f[j] = cell(f, j)
      BY <1>1, <2>2
    <3> DEFINE g == [j \in 0..(m + 1) |-> IF j = m + 1 THEN cell(f, m + 1) ELSE f[j]]
    <3>2. ASSUME NEW j \in 0..(m + 1) PROVE g[j] = cell(f, j)
      BY <3>1
    <3>3. ASSUME NEW j \in 0..(m + 1) PROVE cell(g, j) = cell(f, j)
      <4>1. CASE j < n
        BY <4>1
      <4>2. CASE ~ (j < n)
        <5>1. /\ 2 * (j - n) \in 0..(m + 1) /\ 2 * (j - n) # m + 1
              /\ 2 * (j - n) + 1 \in 0..(m + 1) /\ 2 * (j - n) + 1 # m + 1
          BY <1>1, <4>2
        <5>2. g[2 * (j - n)] = f[2 * (j - n)] /\ g[2 * (j - n) + 1] = f[2 * (j - n) + 1]
          BY <5>1
        <5> HIDE DEF g, n
        <5> QED
          BY <4>2, <5>2
      <4> QED
        BY <4>1, <4>2
    <3> HIDE DEF g, cell
    <3> QED
      BY <3>2, <3>3
  <2> HIDE DEF S
  <2> QED
    BY <2>1, <2>2, Induction
<1>3. PICK f : \A j \in 0..(2 * n - 2) : f[j] = cell(f, j)
  <2>1. 2 * n - 2 \in Nat /\ 2 * n - 2 \in S
    BY <1>1, <1>2
  <2> QED
    BY <2>1
<1> DEFINE g == [j \in 0..(2 * n - 2) |-> f[j]]
<1>4. ASSUME NEW j \in 0..(2 * n - 2) PROVE cell(g, j) = cell(f, j)
  <2>1. CASE j < n
    BY <2>1
  <2>2. CASE ~ (j < n)
    <3>1. 2 * (j - n) \in 0..(2 * n - 2) /\ 2 * (j - n) + 1 \in 0..(2 * n - 2)
      BY <1>1, <2>2
    <3> HIDE DEF n
    <3> QED
      BY <2>2, <3>1
  <2> QED
    BY <2>1, <2>2
<1>5. g = [j \in 0..(2 * n - 2) |-> cell(g, j)]
  <2> HIDE DEF cell
  <2> QED
    BY <1>3, <1>4
<1>6. merkleTree = [j \in 0..(2 * n - 2) |-> cell(merkleTree, j)]
  <2>1. merkleTree = CHOOSE t : t = [j \in 0..(2 * n - 2) |-> cell(t, j)]
    BY DEF merkleTree, numOfTxids
  <2> HIDE DEF g, cell, n
  <2> QED
    BY <1>5, <2>1
<1> QED
  BY <1>1, <1>6

\* It holds the tree of the block, padded with empty cells.
LEMMA CellsAreHeld ==
    ASSUME block \in Blocks, NEW h \in 0..treeHeight, NEW y \in 0..(numOfHashes(h) - 1)
    PROVE  merkleTree[levelOffset(h) + y] = PaddedCell(block, h, y)
<1> DEFINE Holds(g) == \A z \in 0..(numOfHashes(g) - 1) :
                           merkleTree[levelOffset(g) + z] = PaddedCell(block, g, z)
           S == {g \in Nat : g <= treeHeight => Holds(g)}
<1>1. treeHeight \in Nat /\ IsList(block) /\ numOfTxids \in Nat \ {0}
  BY BlockValues, TreeHeightValue
<1>2. 0 \in S
  <2>1. numOfHashes(0) = numOfTxids /\ Width(block, 0) = Len(block)
    BY <1>1, AboveValues, WidthValues DEF numOfHashes
  <2>2. levelOffset(0) = 0
    BY <1>1, <2>1 DEF levelOffset
  <2>3. ASSUME NEW z \in 0..(numOfTxids - 1)
        PROVE  merkleTree[levelOffset(0) + z] = PaddedCell(block, 0, z)
    <3>1. levelOffset(0) + z = z
      BY <2>2
    <3>2. merkleTree[z] = IF z < Len(block) THEN TxID(block[z + 1]) ELSE Nil
      BY ArrayValues
    <3>3. z < Len(block) => Node(block, 0, z) = TxID(block[z + 1])
      BY <1>1, NodeLeaf DEF IsList
    <3> QED
      BY <2>1, <3>1, <3>2, <3>3 DEF PaddedCell
  <2> QED
    BY <2>1, <2>3
<1>3. ASSUME NEW g \in Nat, g \in S PROVE g + 1 \in S
  <2> SUFFICES ASSUME g + 1 <= treeHeight PROVE Holds(g + 1)
    OBVIOUS
  <2> DEFINE m == numOfHashes(g)
             u == numOfHashes(g + 1)
  <2>1. m \in 1..numOfTxids /\ u \in 1..numOfTxids /\ m = 2 * u
    <3>1. g \in 0..treeHeight /\ g + 1 \in 0..treeHeight /\ g # treeHeight
      BY <1>1
    <3> QED
      BY <3>1, LevelSizes
  <2>2. \A z \in 0..(m - 1) : merkleTree[levelOffset(g) + z] = PaddedCell(block, g, z)
    BY <1>1, <1>3
  <2>3. /\ levelOffset(g) = 2 * (numOfTxids - m)
        /\ levelOffset(g + 1) = 2 * (numOfTxids - u)
    BY DEF levelOffset
  <2> HIDE DEF m, u
  <2>4. ASSUME NEW z \in 0..(u - 1)
        PROVE  merkleTree[levelOffset(g + 1) + z] = PaddedCell(block, g + 1, z)
    <3> DEFINE j == levelOffset(g + 1) + z
               l == levelOffset(g) + 2 * z
               r == levelOffset(g) + (2 * z + 1)
    <3>1. /\ j \in numOfTxids..(2 * numOfTxids - 2)
          /\ 2 * (j - numOfTxids) = l /\ 2 * (j - numOfTxids) + 1 = r
          /\ 2 * z \in 0..(m - 1) /\ 2 * z + 1 \in 0..(m - 1) /\ z \in Nat
      BY <1>1, <2>1, <2>3
    <3>2. /\ merkleTree[l] = PaddedCell(block, g, 2 * z)
          /\ merkleTree[r] = PaddedCell(block, g, 2 * z + 1)
      BY <2>2, <3>1
    <3> HIDE DEF j, l, r
    <3>3. merkleTree[j] = ParentCell(merkleTree[l], merkleTree[r])
      BY <3>1, ArrayValues
    <3>4. merkleTree[j] = PaddedCell(block, g + 1, z)
      BY <1>1, <3>1, <3>2, <3>3, PaddedParent
    <3> QED
      BY <3>4 DEF j
  <2> QED
    BY <2>4 DEF u
<1> HIDE DEF S
<1>4. \A g \in Nat : g \in S
  BY <1>2, <1>3, Induction
<1>5. h \in S /\ h <= treeHeight
  BY <1>1, <1>4
<1> QED
  BY <1>5 DEF S

-----------------------------------------------------------------------------
(* Leaves *)

LEMMA PairValues ==
    ASSUME NEW o \in Nat
    PROVE  /\ PairedTo(o) \in Nat /\ PairedTo(o) # o
           /\ PairedTo(PairedTo(o)) = o /\ PairedTo(o) \div 2 = o \div 2
           /\ o % 2 = 0 => PairedTo(o) = o + 1 /\ PairedTo(o) % 2 = 1
           /\ o % 2 # 0 => PairedTo(o) = o - 1 /\ PairedTo(o) % 2 = 0
BY DEF PairedTo

\* Below the root, the way of a node and its sibling's cell are in the tree.
LEMMA SiblingIsInside ==
    ASSUME block \in Blocks, NEW x \in 0..(Len(block) - 1), NEW h \in 0..(treeHeight - 1)
    PROVE  /\ Above(x)[h] \in 0..(Width(block, h) - 1)
           /\ PairedTo(Above(x)[h]) \in 0..(numOfHashes(h) - 1)
<1>1. treeHeight \in Nat /\ IsList(block)
  BY BlockValues, TreeHeightValue
<1>2. h \in Nat /\ h \in 0..treeHeight /\ h # treeHeight
  BY <1>1
<1> DEFINE y == Above(x)[h]
           w == Width(block, h)
           m == numOfHashes(h)
           u == numOfHashes(h + 1)
<1>3. y \in 0..(w - 1)
  BY <1>1, <1>2, AboveInside
<1>4. w \in Nat \ {0} /\ w <= m /\ m = 2 * u /\ m \in 1..numOfTxids
  BY <1>2, LevelSizes
<1>5. u \in 1..numOfTxids /\ numOfTxids \in Nat
  <2>1. h + 1 \in 0..treeHeight
    BY <1>1, <1>2
  <2> QED
    BY <2>1, LevelSizes, BlockValues
<1> HIDE DEF y, w, m, u
<1>6. PairedTo(y) \in 0..(m - 1)
  BY <1>3, <1>4, <1>5 DEF PairedTo
<1> QED
  BY <1>3, <1>6 DEF y, w, m

\* The leaf the loop adds at a height.
LEMMA LeafAdded ==
    ASSUME block \in Blocks, txIndex \in 0..(Len(block) - 1), NEW h \in 0..(treeHeight - 1)
    PROVE  LET offset == Above(txIndex)[h]
           IN  Leaf(PairedTo(offset), merkleTree[levelOffset(h) + PairedTo(offset)], FALSE)
                 = SiblingLeaf(h)
<1>1. h \in 0..treeHeight
  BY TreeHeightValue
<1>2. PairedTo(Above(txIndex)[h]) \in 0..(numOfHashes(h) - 1)
  BY SiblingIsInside
<1> QED
  BY <1>1, <1>2, CellsAreHeld DEF SiblingLeaf

LEMMA OwnLeafValue ==
    ASSUME block \in Blocks, txIndex \in 0..(Len(block) - 1)
    PROVE  /\ txidLeaf = OwnLeaf
           /\ OwnLeaf.offset = txIndex /\ OwnLeaf.hash = TxID(block[txIndex + 1])
           /\ OwnLeaf.hash # Nil /\ OwnLeaf.hash = PaddedCell(block, 0, txIndex)
<1>1. /\ numOfTxids \in Nat \ {0} /\ Len(block) <= numOfTxids /\ Len(block) \in Nat
      /\ IsList(block)
  BY BlockValues
<1>2. txIndex \in 0..(numOfTxids - 1) /\ txIndex < Len(block)
  BY <1>1
<1>3. merkleTree[txIndex] = TxID(block[txIndex + 1])
  BY <1>2, ArrayValues
<1>4. Node(block, 0, txIndex) = TxID(block[txIndex + 1]) /\ Width(block, 0) = Len(block)
  BY <1>1, NodeLeaf, WidthValues
<1>5. TxID(block[txIndex + 1]) # Nil
  BY HashesDiffer
<1> QED
  BY <1>2, <1>3, <1>4, <1>5 DEF txidLeaf, OwnLeaf, Leaf, PaddedCell

\* The sibling at the lowest level.
LEMMA LowestSibling ==
    ASSUME block \in Blocks, txIndex \in 0..(Len(block) - 1)
    PROVE  /\ SiblingLeaf(0).offset = PairedTo(txIndex)
           /\ SiblingLeaf(0).hash = IF PairedTo(txIndex) < Len(block)
                                      THEN TxID(block[PairedTo(txIndex) + 1]) ELSE Nil
<1>1. IsList(block) /\ Len(block) \in Nat \ {0} /\ txIndex \in Nat
  BY BlockValues
<1>2. Above(txIndex)[0] = txIndex /\ Width(block, 0) = Len(block)
  BY <1>1, AboveValues, WidthValues
<1>3. PairedTo(txIndex) < Len(block) =>
         Node(block, 0, PairedTo(txIndex)) = TxID(block[PairedTo(txIndex) + 1])
  <2>1. PairedTo(txIndex) \in Nat
    BY <1>1, PairValues
  <2> QED
    BY <1>1, <2>1, NodeLeaf
<1> QED
  BY <1>2, <1>3 DEF SiblingLeaf, Leaf, PaddedCell

\* The transactions a BUMP is good for are the two of the lowest pair.
LEMMA GoodForValues ==
    ASSUME block \in Blocks, txIndex \in 0..(Len(block) - 1), NEW t
    PROVE  t \in GoodFor <=>
             \/ t = block[txIndex + 1]
             \/ PairedTo(txIndex) < Len(block) /\ t = block[PairedTo(txIndex) + 1]
<1>1. Len(block) \in Nat /\ txIndex \in Nat
  BY BlockValues
<1>2. PairedTo(txIndex) \in Nat /\ PairedTo(txIndex) \div 2 = txIndex \div 2
  BY <1>1, PairValues
<1>3. ASSUME NEW m \in 0..(Len(block) - 1), m \div 2 = txIndex \div 2
      PROVE  m \in {txIndex, PairedTo(txIndex)}
  BY <1>1, <1>3 DEF PairedTo
<1>4. GoodFor = {block[m + 1] : m \in {txIndex, PairedTo(txIndex)} \cap 0..(Len(block) - 1)}
  BY <1>1, <1>2, <1>3 DEF GoodFor
<1> QED
  BY <1>1, <1>2, <1>4

-----------------------------------------------------------------------------
(* Sorting *)

LEMMA ReceivedOne ==
    ASSUME NEW a
    PROVE  Received(<<a>>) = <<a>>
<1> DEFINE IsResult(s) == /\ s \in [DOMAIN <<a>> -> Range(<<a>>)]
                          /\ Range(s) = Range(<<a>>)
                          /\ \A m, n \in DOMAIN s : m < n => s[m].offset < s[n].offset
<1>1. Range(<<a>>) = {a} /\ DOMAIN <<a>> = 1..1
  BY DEF Range
<1>2. IsResult(<<a>>)
  BY <1>1
<1>3. ASSUME NEW s, IsResult(s) PROVE s = <<a>>
  BY <1>1, <1>3
<1> HIDE DEF IsResult
<1>4. (CHOOSE s : IsResult(s)) = <<a>>
  BY <1>2, <1>3
<1> QED
  BY <1>4 DEF Received, IsResult

LEMMA ReceivedTwo ==
    ASSUME NEW a, NEW b, a.offset \in Nat, b.offset \in Nat, a.offset < b.offset,
           NEW level \in {<<a, b>>, <<b, a>>}
    PROVE  Received(level) = <<a, b>>
<1> DEFINE IsResult(s) == /\ s \in [DOMAIN level -> Range(level)]
                          /\ Range(s) = Range(level)
                          /\ \A m, n \in DOMAIN s : m < n => s[m].offset < s[n].offset
<1>1. Range(level) = {a, b} /\ DOMAIN level = 1..2
  BY DEF Range
<1>2. IsResult(<<a, b>>)
  <2>1. <<a, b>> \in [1..2 -> {a, b}] /\ Range(<<a, b>>) = {a, b}
    BY DEF Range
  <2> QED
    BY <1>1, <2>1
<1>3. ASSUME NEW s, IsResult(s) PROVE s = <<a, b>>
  <2>1. s \in [1..2 -> {a, b}] /\ s[1].offset < s[2].offset
    BY <1>1, <1>3
  <2>2. s[1] = a /\ s[2] = b
    BY <2>1
  <2> QED
    BY <2>1, <2>2
<1> HIDE DEF IsResult
<1>4. (CHOOSE s : IsResult(s)) = <<a, b>>
  BY <1>2, <1>3
<1> QED
  BY <1>4 DEF Received, IsResult

-----------------------------------------------------------------------------
(* A step of the fold *)

\* Hashed with its sibling, or with itself where it has none, a node gives
\* its parent.
LEMMA DigestValue ==
    ASSUME block \in Blocks, NEW h \in Nat, NEW x \in 0..(Width(block, h) - 1),
           workingHash = Node(block, h, x), NEW isTxid
    PROVE  Digest(Leaf(PairedTo(x), PaddedCell(block, h, PairedTo(x)), isTxid))
             = Node(block, h + 1, x \div 2)
<1> DEFINE w == Width(block, h)
           y == x \div 2
           leaf == Leaf(PairedTo(x), PaddedCell(block, h, PairedTo(x)), isTxid)
<1>1. IsList(block) /\ w \in Nat \ {0} /\ Width(block, h + 1) = (w + 1) \div 2
  BY BlockValues, WidthValues
<1>2. x \in Nat /\ y \in 0..(Width(block, h + 1) - 1)
  BY <1>1
<1>3. Node(block, h + 1, y) =
         MerkleTreeParent(Node(block, h, 2 * y), Node(block, h, RightChild(block, h, y)))
  BY <1>1, <1>2, NodeChildren
<1>4. /\ leaf.offset = PairedTo(x) /\ leaf.hash = PaddedCell(block, h, PairedTo(x))
      /\ leaf.duplicate <=> leaf.hash = Nil
  BY DEF Leaf
<1>5. PairedTo(x) \in Nat /\ (PairedTo(x) < w => Node(block, h, PairedTo(x)) # Nil)
  <2>1. PairedTo(x) \in Nat
    BY <1>2, PairValues
  <2>2. ASSUME PairedTo(x) < w PROVE Node(block, h, PairedTo(x)) # Nil
    <3>1. PairedTo(x) \in 0..(w - 1)
      BY <1>1, <2>1, <2>2
    <3> QED
      BY <1>1, <3>1, NodesAreNotNil
  <2> QED
    BY <2>1, <2>2
<1> HIDE DEF leaf, w, y
<1>6. CASE x % 2 = 0
  <2>1. 2 * y = x /\ PairedTo(x) = 2 * y + 1 /\ PairedTo(x) % 2 # 0
    BY <1>2, <1>6, PairValues DEF y
  <2>2. CASE 2 * y + 1 < w
    <3>1. leaf.hash = Node(block, h, 2 * y + 1) /\ ~ leaf.duplicate
      BY <1>4, <1>5, <2>1, <2>2 DEF PaddedCell, w
    <3>2. RightChild(block, h, y) = 2 * y + 1
      BY <2>2 DEF RightChild, w
    <3> QED
      BY <1>3, <1>4, <2>1, <3>1, <3>2 DEF Digest, OnTheRight, leaf, y
  <2>3. CASE ~ (2 * y + 1 < w)
    <3>1. leaf.duplicate
      BY <1>4, <2>1, <2>3 DEF PaddedCell, w
    <3>2. RightChild(block, h, y) = 2 * y
      BY <2>3 DEF RightChild, w
    <3> QED
      BY <1>3, <2>1, <3>1, <3>2 DEF Digest, leaf, y
  <2> QED
    BY <2>2, <2>3
<1>7. CASE x % 2 # 0
  <2>1. 2 * y + 1 = x /\ PairedTo(x) = 2 * y /\ PairedTo(x) % 2 = 0
    BY <1>2, <1>7, PairValues DEF y
  <2>2. 2 * y < w /\ 2 * y + 1 < w
    BY <1>1, <1>2, <2>1 DEF w
  <2>3. leaf.hash = Node(block, h, 2 * y) /\ ~ leaf.duplicate
    BY <1>4, <1>5, <2>1, <2>2 DEF PaddedCell, w
  <2>4. RightChild(block, h, y) = 2 * y + 1
    BY <2>2 DEF RightChild, w
  <2> QED
    BY <1>3, <1>4, <2>1, <2>3, <2>4 DEF Digest, OnTheRight, leaf, y
<1> QED
  BY <1>6, <1>7

\* The two ways to the root are one above the leaves.
LEMMA WaysMeet ==
    ASSUME NEW p \in Nat, NEW h \in Nat \ {0}
    PROVE  Above(PairedTo(p))[h] = Above(p)[h]
<1>1. h - 1 \in Nat /\ (h - 1) + 1 = h
  OBVIOUS
<1>2. PairedTo(p) \in Nat /\ PairedTo(p) \div 2 = p \div 2
  BY PairValues
<1>3. Above(p \div 2)[h - 1] = Above(p)[h]
  BY <1>1, AboveHalf
<1>4. Above(PairedTo(p) \div 2)[h - 1] = Above(PairedTo(p))[h]
  BY <1>1, <1>2, AboveHalf
<1> QED
  BY <1>2, <1>3, <1>4

\* A finished path has a level for each height, and at each level of the fold
\* one leaf that is asked for: the sibling of the node it stands on.
LEMMA PathValues ==
    ASSUME IInv, pc \notin {"new", "levels"}, Len(block) > 1
    PROVE  /\ Len(path) = treeHeight /\ DOMAIN path = 1..treeHeight
           /\ treeHeight \in Nat \ {0}
           /\ path[1] \in Lowest
           /\ \A h \in 1..(treeHeight - 1) : path[h + 1] = <<SiblingLeaf(h)>>
<1>1. treeHeight \in Nat \ {0}
  BY TreeHeightValue DEF IInv
<1>2. PICK level \in Lowest :
         path = [h \in 1..treeHeight |-> IF h = 1 THEN level ELSE <<SiblingLeaf(h - 1)>>]
  BY DEF IInv, PathInv
<1>3. \A h \in 1..(treeHeight - 1) :
         h + 1 \in 1..treeHeight /\ h + 1 # 1 /\ (h + 1) - 1 = h
  BY <1>1
<1> HIDE DEF Lowest
<1> QED
  BY <1>1, <1>2, <1>3

LEMMA LeafFound ==
    ASSUME IInv, pc = "fold", height < Len(path)
    PROVE  /\ height \in 0..(treeHeight - 1)
           /\ index \in 0..(Len(block) - 1)
           /\ AtOffset # {} /\ AtOffset \subseteq Nat
           /\ \A j \in AtOffset : \E isTxid \in BOOLEAN :
                 path[height + 1][j] = Leaf(Offset, PaddedCell(block, height, Offset), isTxid)
<1>1. /\ block \in Blocks /\ txIndex \in 0..(Len(block) - 1) /\ Len(block) > 1
      /\ index \in {txIndex, PairedTo(txIndex)} /\ index < Len(block)
      /\ height \in 0..treeHeight /\ index \in Nat
  BY DEF IInv, FoldInv
<1>2. /\ Len(path) = treeHeight /\ treeHeight \in Nat \ {0}
      /\ path[1] \in Lowest
      /\ \A h \in 1..(treeHeight - 1) : path[h + 1] = <<SiblingLeaf(h)>>
  BY <1>1, PathValues
<1>3. /\ IsList(block) /\ Len(block) \in Nat /\ txIndex \in Nat
      /\ height \in 0..(treeHeight - 1) /\ index \in 0..(Len(block) - 1)
  BY <1>1, <1>2, BlockValues
<1>4. CASE height = 0
  <2>1. Offset = PairedTo(index)
    BY <1>1, <1>4, AboveValues DEF Offset
  <2>2. /\ OwnLeaf = Leaf(txIndex, PaddedCell(block, 0, txIndex), TRUE)
    BY <1>1, OwnLeafValue DEF OwnLeaf
  <2>3. SiblingLeaf(0) = Leaf(PairedTo(txIndex), PaddedCell(block, 0, PairedTo(txIndex)), FALSE)
    BY <1>3, AboveValues DEF SiblingLeaf
  <2>4. PairedTo(txIndex) # txIndex /\ PairedTo(PairedTo(txIndex)) = txIndex
    BY <1>3, PairValues
  <2>5. path[height + 1] \in {<<OwnLeaf, SiblingLeaf(0)>>, <<SiblingLeaf(0), OwnLeaf>>}
    BY <1>2, <1>4 DEF Lowest
  <2>6. OwnLeaf.offset = txIndex /\ SiblingLeaf(0).offset = PairedTo(txIndex)
    BY <1>1, OwnLeafValue, LowestSibling
  <2>7. /\ DOMAIN path[height + 1] = {1, 2}
        /\ \A j \in {1, 2} : path[height + 1][j] \in {OwnLeaf, SiblingLeaf(0)}
        /\ \E j \in {1, 2} : path[height + 1][j] = OwnLeaf
        /\ \E j \in {1, 2} : path[height + 1][j] = SiblingLeaf(0)
    <3>1. ASSUME NEW a, NEW b, NEW p \in {<<a, b>>, <<b, a>>}
          PROVE  /\ DOMAIN p = {1, 2} /\ \A j \in {1, 2} : p[j] \in {a, b}
                 /\ \E j \in {1, 2} : p[j] = a
                 /\ \E j \in {1, 2} : p[j] = b
      OBVIOUS
    <3> QED
      BY <2>5, <3>1
  <2>8. CASE index = txIndex
    <3>1. AtOffset = {j \in {1, 2} : path[height + 1][j] = SiblingLeaf(0)}
      BY <2>1, <2>4, <2>6, <2>7, <2>8 DEF AtOffset
    <3>2. AtOffset # {} /\ AtOffset \subseteq Nat
      BY <2>7, <3>1
    <3> QED
      BY <1>3, <1>4, <2>1, <2>3, <2>8, <3>1, <3>2
  <2>9. CASE index = PairedTo(txIndex)
    <3>1. AtOffset = {j \in {1, 2} : path[height + 1][j] = OwnLeaf}
      BY <2>1, <2>4, <2>6, <2>7, <2>9 DEF AtOffset
    <3>2. AtOffset # {} /\ AtOffset \subseteq Nat
      BY <2>7, <3>1
    <3> QED
      BY <1>3, <1>4, <2>1, <2>2, <2>4, <2>9, <3>1, <3>2
  <2> QED
    BY <1>1, <2>8, <2>9
<1>5. CASE height # 0
  <2>1. height \in 1..(treeHeight - 1) /\ height \in Nat \ {0}
    BY <1>2, <1>3, <1>5
  <2>2. path[height + 1] = <<SiblingLeaf(height)>>
    BY <1>2, <2>1
  <2>3. Above(index)[height] = Above(txIndex)[height]
    BY <1>1, <1>3, <2>1, WaysMeet
  <2>4. SiblingLeaf(height) = Leaf(Offset, PaddedCell(block, height, Offset), FALSE)
    BY <2>3 DEF SiblingLeaf, Offset
  <2>5. SiblingLeaf(height).offset = Offset
    BY <2>4 DEF Leaf
  <2>6. DOMAIN path[height + 1] = {1} /\ path[height + 1][1] = SiblingLeaf(height)
    <3>1. ASSUME NEW a PROVE DOMAIN <<a>> = {1} /\ <<a>>[1] = a
      OBVIOUS
    <3> QED
      BY <2>2, <3>1
  <2>7. AtOffset = {1}
    BY <2>5, <2>6 DEF AtOffset
  <2>8. AtOffset # {} /\ AtOffset \subseteq Nat
    BY <2>7
  <2> QED
    BY <1>3, <2>4, <2>6, <2>7, <2>8
<1> QED
  BY <1>4, <1>5

-----------------------------------------------------------------------------
(* The invariant is inductive *)

\* What is defined of the block and the position alone.
LEMMA SameTree ==
    ASSUME UNCHANGED <<block, txIndex>>
    PROVE  /\ treeHeight' = treeHeight /\ OwnLeaf' = OwnLeaf
           /\ \A h : SiblingLeaf(h)' = SiblingLeaf(h)
           /\ Lowest' = Lowest /\ GoodFor' = GoodFor
BY DEF treeHeight, numOfTxids, OwnLeaf, SiblingLeaf, Lowest, GoodFor

LEMMA InitIInv == Init => IInv
<1> SUFFICES ASSUME Init PROVE IInv
  OBVIOUS
<1>1. block \in Blocks /\ txIndex \in 0..(Len(block) - 1) /\ treeHeight \in Nat
  BY TreeHeightValue DEF Init
<1>2. PathInv
  BY DEF Init, PathInv
<1>3. FoldInv /\ RootOrNotFound /\ SortedIsSafe
  BY DEF Init, FoldInv, RootOrNotFound, SortedIsSafe
<1>4. height \in 0..treeHeight
  <2>1. height = 0
    BY DEF Init
  <2> QED
    BY <1>1, <2>1
<1>5. oddTxIndex \in BOOLEAN
  BY DEF Init
<1> QED
  BY <1>1, <1>2, <1>3, <1>4, <1>5 DEF Init, IInv

LEMMA NewIInv ==
    ASSUME IInv, New
    PROVE  IInv'
<1>1. /\ block \in Blocks /\ txIndex \in 0..(Len(block) - 1)
      /\ height = 0 /\ treeHeight \in Nat /\ Len(block) \in Nat \ {0}
      /\ path = <<>> /\ via = "none"
  BY TreeHeightValue, BlockValues DEF IInv, PathInv, New
<1>2. /\ UNCHANGED <<block, txIndex, oddTxIndex, height, via, txid, index, workingHash>>
  BY DEF New, making
<1>3. txidLeaf = OwnLeaf
  BY <1>1, OwnLeafValue
<1>4. PathInv'
  <2>1. CASE Len(block) = 1
    <3>1. path' = << <<OwnLeaf>> >> /\ pc' = "built"
      BY <1>3, <2>1 DEF New
    <3> QED
      BY <1>1, <1>2, <2>1, <3>1, SameTree DEF PathInv
  <2>2. CASE Len(block) # 1
    <3>1. path' = <<>> /\ pc' = "levels"
      BY <1>1, <2>2 DEF New
    <3>2. path' = [h \in 1..height' |-> <<SiblingLeaf(h - 1)'>>]
      BY <1>1, <1>2, <3>1
    <3>3. Len(block) > 1 /\ block' = block /\ via' = "none" /\ height' = 0
      BY <1>1, <1>2, <2>2
    <3> QED
      BY <3>1, <3>2, <3>3 DEF PathInv
  <2> QED
    BY <2>1, <2>2
<1>5. pc' \in {"levels", "built"}
  BY DEF New
<1> QED
  BY <1>1, <1>2, <1>4, <1>5, SameTree
  DEF IInv, FoldInv, RootOrNotFound, SortedIsSafe, Ended

LEMMA AddLevelIInv ==
    ASSUME IInv, AddLevel
    PROVE  IInv'
<1>1. /\ block \in Blocks /\ txIndex \in 0..(Len(block) - 1)
      /\ height \in 0..treeHeight /\ height < treeHeight /\ treeHeight \in Nat
      /\ via = "none" /\ pc = "levels" /\ Len(block) > 1
      /\ path = [h \in 1..height |-> <<SiblingLeaf(h - 1)>>]
      /\ oddTxIndex \in BOOLEAN
  BY TreeHeightValue DEF IInv, PathInv, AddLevel
<1>2. /\ UNCHANGED <<block, txIndex, pc, via, txid, index, workingHash>>
      /\ height' = height + 1 /\ oddTxIndex' \in BOOLEAN
  BY DEF AddLevel
<1>3. path' = Append(path, <<SiblingLeaf(height)>>)
  <2>1. height \in 0..(treeHeight - 1)
    BY <1>1
  <2> QED
    BY <1>1, <2>1, LeafAdded DEF AddLevel
<1>4. path' = [h \in 1..(height + 1) |-> <<SiblingLeaf(h - 1)>>]
  <2>1. ASSUME NEW S, NEW e, NEW n \in Nat, NEW s \in S, s = [h \in 1..n |-> e[h - 1]],
               \A h \in Nat : e[h] = e[h]
        PROVE  Append(s, e[n]) = [h \in 1..(n + 1) |-> e[h - 1]]
    <3>1. Len(s) = n /\ DOMAIN s = 1..n
      BY <2>1
    <3> QED
      BY <2>1, <3>1
  <2> DEFINE e == [h \in Nat |-> <<SiblingLeaf(h)>>]
  <2>2. height \in Nat
    BY <1>1
  <2>3. path = [h \in 1..height |-> e[h - 1]]
    BY <1>1, <2>2
  <2>4. e[height] = <<SiblingLeaf(height)>>
    BY <2>2
  <2>5. \A h \in 1..(height + 1) : e[h - 1] = <<SiblingLeaf(h - 1)>>
    BY <2>2
  <2> HIDE DEF e
  <2>6. Append(path, e[height]) = [h \in 1..(height + 1) |-> e[h - 1]]
    BY <2>1, <2>2, <2>3
  <2> QED
    BY <1>3, <2>4, <2>5, <2>6
<1>5. path' = [h \in 1..height' |-> <<SiblingLeaf(h - 1)'>>]
  BY <1>2, <1>4, SameTree
<1>6. PathInv'
  BY <1>1, <1>2, <1>5 DEF PathInv
<1> QED
  BY <1>1, <1>2, <1>6, SameTree
  DEF IInv, FoldInv, RootOrNotFound, SortedIsSafe, Ended

LEMMA AddTxidIInv ==
    ASSUME IInv, AddTxid
    PROVE  IInv'
<1>1. /\ block \in Blocks /\ txIndex \in 0..(Len(block) - 1)
      /\ via = "none" /\ pc = "levels" /\ Len(block) > 1
      /\ path = [h \in 1..treeHeight |-> <<SiblingLeaf(h - 1)>>]
      /\ treeHeight \in Nat \ {0}
  BY TreeHeightValue DEF IInv, PathInv, AddTxid
<1>2. /\ UNCHANGED <<block, txIndex, oddTxIndex, via, txid, index, workingHash>>
      /\ height' = 0 /\ pc' = "built"
  BY DEF AddTxid, making
<1>3. \E level \in Lowest :
         path' = [h \in 1..treeHeight |-> IF h = 1 THEN level ELSE <<SiblingLeaf(h - 1)>>]
  <2> DEFINE level == IF oddTxIndex THEN <<SiblingLeaf(0), OwnLeaf>>
                                    ELSE <<OwnLeaf, SiblingLeaf(0)>>
  <2>1. path[1] = <<SiblingLeaf(0)>> /\ 1 \in DOMAIN path
    BY <1>1
  <2>2. /\ Append(<<SiblingLeaf(0)>>, OwnLeaf) = <<SiblingLeaf(0), OwnLeaf>>
        /\ <<OwnLeaf>> \o <<SiblingLeaf(0)>> = <<OwnLeaf, SiblingLeaf(0)>>
    <3>1. ASSUME NEW a, NEW b
          PROVE  Append(<<a>>, b) = <<a, b>> /\ <<b>> \o <<a>> = <<b, a>>
      <4>1. /\ <<a>> \in Seq({a, b}) /\ <<b>> \in Seq({a, b})
            /\ <<a, b>> \in Seq({a, b}) /\ <<b, a>> \in Seq({a, b})
        OBVIOUS
      <4>2. ASSUME NEW c \in {a, b}, NEW d \in {a, b}, <<c>> \in Seq({a, b}),
                   <<c, d>> \in Seq({a, b})
            PROVE  Append(<<c>>, d) = <<c, d>>
        <5> DEFINE s == Append(<<c>>, d)
                   t == <<c, d>>
        <5>1. /\ s \in Seq({a, b}) /\ Len(s) = Len(<<c>>) + 1
              /\ \A n \in 1..Len(<<c>>) : s[n] = <<c>>[n]
              /\ s[Len(<<c>>) + 1] = d
          BY <4>2, AppendProperties
        <5>2. Len(<<c>>) = 1 /\ <<c>>[1] = c /\ Len(t) = 2 /\ t[1] = c /\ t[2] = d
          OBVIOUS
        <5>3. Len(s) = 2 /\ s[1] = c /\ s[2] = d
          BY <5>1, <5>2
        <5>4. t \in Seq({a, b})
          BY <4>2
        <5> HIDE DEF s, t
        <5>5. s = t
          BY <5>1, <5>2, <5>3, <5>4, SeqEqual
        <5> QED
          BY <5>5 DEF s, t
      <4>3. Append(<<a>>, b) = <<a, b>> /\ Append(<<b>>, a) = <<b, a>>
        BY <4>1, <4>2
      <4>4. Append(<<b>>, a) = <<b>> \o <<a>>
        BY <4>1, AppendIsConcat
      <4> QED
        BY <4>3, <4>4
    <3> QED
      BY <3>1
  <2>3. txidLeaf = OwnLeaf
    BY <1>1, OwnLeafValue
  <2>4. path' = [path EXCEPT ![1] = level]
    BY <2>1, <2>2, <2>3 DEF AddTxid
  <2>5. level \in Lowest
    BY DEF Lowest
  <2> HIDE DEF level
  <2>6. path' = [h \in 1..treeHeight |-> IF h = 1 THEN level ELSE <<SiblingLeaf(h - 1)>>]
    BY <1>1, <2>4
  <2> QED
    BY <2>5, <2>6
<1>4. PathInv'
  <2>1. \E level \in Lowest' :
           path' = [h \in 1..treeHeight' |->
                      IF h = 1 THEN level ELSE <<SiblingLeaf(h - 1)'>>]
    BY <1>2, <1>3, SameTree
  <2>2. Len(block') # 1 /\ pc' = "built" /\ via' = "none"
    <3>1. Len(block) \in Nat /\ Len(block) > 1
      BY <1>1, BlockValues
    <3>2. block' = block /\ pc' = "built" /\ via' = "none"
      BY <1>1, <1>2
    <3>3. Len(block) # 1
      <4>1. \A n \in Nat : n > 1 => n # 1
        OBVIOUS
      <4> QED
        BY <3>1, <4>1
    <3> QED
      BY <3>2, <3>3
  <2> QED
    BY <2>1, <2>2 DEF PathInv
<1> QED
  BY <1>1, <1>2, <1>4, SameTree
  DEF IInv, FoldInv, RootOrNotFound, SortedIsSafe, Ended

\* The lowest level comes out of bytes with the transaction and its sibling in
\* the order of their offsets, which is theirs from left to right.
LEMMA HandOverIInv ==
    ASSUME IInv, HandOver
    PROVE  IInv'
<1>1. /\ block \in Blocks /\ txIndex \in 0..(Len(block) - 1)
      /\ pc = "built" /\ height = 0 /\ via = "none"
      /\ treeHeight \in Nat /\ Len(block) \in Nat \ {0}
  BY TreeHeightValue, BlockValues DEF IInv, HandOver
<1>2. /\ UNCHANGED <<block, txIndex, oddTxIndex, height, txid, index, workingHash>>
      /\ pc' = "find"
  BY DEF HandOver, making
<1>3. /\ via' \in {"bytes", "json", "itself"}
      /\ via' = "bytes" => path' = [h \in DOMAIN path |-> Received(path[h])]
      /\ via' # "bytes" => path' = path
  BY DEF HandOver
<1>4. ASSUME Len(block) = 1 PROVE PathInv'
  <2>1. path = << <<OwnLeaf>> >>
    BY <1>1, <1>4 DEF IInv, PathInv
  <2>2. path' = << <<OwnLeaf>> >>
    <3>1. [h \in DOMAIN << <<OwnLeaf>> >> |-> Received((<< <<OwnLeaf>> >>)[h])]
             = << <<OwnLeaf>> >>
      BY ReceivedOne
    <3> QED
      BY <1>3, <2>1, <3>1
  <2>3. Len(block') = 1 /\ ~ (Len(block') > 1) /\ OwnLeaf' = OwnLeaf
    BY <1>2, <1>4, SameTree
  <2> QED
    BY <1>2, <2>2, <2>3 DEF PathInv
<1>5. ASSUME Len(block) # 1 PROVE PathInv'
  <2>1. Len(block) > 1
    <3>1. \A n \in Nat \ {0} : n # 1 => n > 1
      OBVIOUS
    <3> QED
      BY <1>1, <1>5, <3>1
  <2>2. PICK level \in Lowest :
           path = [h \in 1..treeHeight |-> IF h = 1 THEN level ELSE <<SiblingLeaf(h - 1)>>]
    BY <1>1, <2>1 DEF IInv, PathInv
  <2>3. treeHeight \in Nat \ {0}
    BY <1>1, <2>1, TreeHeightValue
  <2>4. /\ Received(level) \in Lowest
        /\ txIndex % 2 = 0 => Received(level) = <<OwnLeaf, SiblingLeaf(0)>>
    <3>1. /\ OwnLeaf.offset = txIndex /\ SiblingLeaf(0).offset = PairedTo(txIndex)
          /\ txIndex \in Nat /\ PairedTo(txIndex) \in Nat
      BY <1>1, OwnLeafValue, LowestSibling, PairValues
    <3>2. CASE txIndex % 2 = 0
      <4>1. txIndex < PairedTo(txIndex)
        BY <3>1, <3>2, PairValues
      <4>2. level \in {<<OwnLeaf, SiblingLeaf(0)>>, <<SiblingLeaf(0), OwnLeaf>>}
        BY DEF Lowest
      <4>3. Received(level) = <<OwnLeaf, SiblingLeaf(0)>>
        BY <3>1, <4>1, <4>2, ReceivedTwo
      <4> QED
        BY <4>3 DEF Lowest
    <3>3. CASE txIndex % 2 # 0
      <4>1. PairedTo(txIndex) < txIndex
        BY <3>1, <3>3, PairValues
      <4>2. level \in {<<SiblingLeaf(0), OwnLeaf>>, <<OwnLeaf, SiblingLeaf(0)>>}
        BY DEF Lowest
      <4>3. Received(level) = <<SiblingLeaf(0), OwnLeaf>>
        BY <3>1, <4>1, <4>2, ReceivedTwo
      <4> QED
        BY <3>3, <4>3 DEF Lowest
    <3> QED
      BY <3>2, <3>3
  <2>5. \E received \in Lowest :
           /\ path' = [h \in 1..treeHeight |->
                         IF h = 1 THEN received ELSE <<SiblingLeaf(h - 1)>>]
           /\ via' = "bytes" /\ txIndex % 2 = 0 =>
                 received = <<OwnLeaf, SiblingLeaf(0)>>
    <3>1. CASE via' = "bytes"
      <4>1. \A h \in 1..treeHeight :
               Received(path[h]) = IF h = 1 THEN Received(level) ELSE <<SiblingLeaf(h - 1)>>
        BY <2>2, ReceivedOne
      <4>2. DOMAIN path = 1..treeHeight
        BY <2>2
      <4>3. path' = [h \in 1..treeHeight |->
                       IF h = 1 THEN Received(level) ELSE <<SiblingLeaf(h - 1)>>]
        BY <1>3, <3>1, <4>1, <4>2
      <4> QED
        BY <2>4, <4>3
    <3>2. CASE via' # "bytes"
      BY <1>3, <2>2, <3>2
    <3> QED
      BY <3>1, <3>2
  <2>6. PICK received \in Lowest :
           /\ path' = [h \in 1..treeHeight |->
                         IF h = 1 THEN received ELSE <<SiblingLeaf(h - 1)>>]
           /\ via' = "bytes" /\ txIndex % 2 = 0 =>
                 received = <<OwnLeaf, SiblingLeaf(0)>>
    BY <2>5
  <2>7. path'[1] = received
    BY <2>3, <2>6
  <2>8. /\ received \in Lowest'
        /\ path' = [h \in 1..treeHeight' |->
                      IF h = 1 THEN received ELSE <<SiblingLeaf(h - 1)'>>]
        /\ <<OwnLeaf', SiblingLeaf(0)'>> = <<OwnLeaf, SiblingLeaf(0)>>
    BY <1>2, <2>6, SameTree
  <2>9. block' = block /\ txIndex' = txIndex /\ Len(block') # 1
    BY <1>2, <1>5
  <2> QED
    BY <1>2, <2>6, <2>7, <2>8, <2>9 DEF PathInv
<1>6. PathInv'
  BY <1>4, <1>5
<1>7. /\ height' \in 0..treeHeight' /\ height' = 0
      /\ block' \in Blocks /\ txIndex' \in 0..(Len(block') - 1)
  BY <1>1, <1>2, SameTree
<1>8. oddTxIndex' \in BOOLEAN /\ index' \in Nat
  BY <1>2 DEF IInv
<1>9. FoldInv' /\ RootOrNotFound' /\ SortedIsSafe'
  BY <1>2 DEF FoldInv, RootOrNotFound, SortedIsSafe
<1> QED
  BY <1>2, <1>6, <1>7, <1>8, <1>9 DEF IInv

\* The actions of CalculateRootGivenTxid leave the path alone.
LEMMA SamePath ==
    ASSUME IInv, pc \notin {"new", "levels"}, pc' \notin {"new", "levels", "built"},
           UNCHANGED <<block, txIndex, oddTxIndex, path, via>>
    PROVE  /\ PathInv' /\ treeHeight' = treeHeight /\ GoodFor' = GoodFor
           /\ block' \in Blocks /\ txIndex' \in 0..(Len(block') - 1)
           /\ oddTxIndex' \in BOOLEAN
<1>1. /\ treeHeight' = treeHeight /\ OwnLeaf' = OwnLeaf
      /\ \A h : SiblingLeaf(h)' = SiblingLeaf(h)
      /\ Lowest' = Lowest /\ GoodFor' = GoodFor
  BY SameTree
<1>2. PathInv'
  <2>1. Len(block) = 1 => path = << <<OwnLeaf>> >>
    BY DEF IInv, PathInv
  <2>2. Len(block) > 1 =>
           \E level \in Lowest :
              path = [h \in 1..treeHeight |->
                        IF h = 1 THEN level ELSE <<SiblingLeaf(h - 1)>>]
    BY DEF IInv, PathInv
  <2>3. via = "bytes" /\ Len(block) > 1 /\ txIndex % 2 = 0 =>
           path[1] = <<OwnLeaf, SiblingLeaf(0)>>
    BY DEF IInv, PathInv
  <2>4. Len(block) > 1 =>
           \E level \in Lowest' :
              path' = [h \in 1..treeHeight' |->
                         IF h = 1 THEN level ELSE <<SiblingLeaf(h - 1)'>>]
    BY <1>1, <2>2
  <2> QED
    BY <1>1, <2>1, <2>3, <2>4 DEF PathInv
<1> QED
  BY <1>1, <1>2 DEF IInv

\* The search finds the transaction or its sibling, and nothing else.
LEMMA FindIInv ==
    ASSUME IInv, Find
    PROVE  IInv'
<1> DEFINE a == OwnLeaf
           b == SiblingLeaf(0)
           s == PairedTo(txIndex)
<1>1. /\ block \in Blocks /\ txIndex \in 0..(Len(block) - 1)
      /\ pc = "find" /\ height = 0 /\ Len(block) \in Nat \ {0} /\ txIndex \in Nat
      /\ index \in Nat
  BY BlockValues DEF IInv, Find
<1>2. /\ UNCHANGED <<block, txIndex, oddTxIndex, height, path, via, txid>>
      /\ pc' \in {"done", "panic", "notFound", "fold"}
  BY DEF Find, making
<1>3. /\ PathInv' /\ treeHeight' = treeHeight /\ GoodFor' = GoodFor
      /\ block' \in Blocks /\ txIndex' \in 0..(Len(block') - 1)
      /\ oddTxIndex' \in BOOLEAN
  BY <1>1, <1>2, SamePath
<1>5. ASSUME Len(block) = 1
      PROVE  index' \in Nat /\ FoldInv' /\ RootOrNotFound' /\ SortedIsSafe'
  <2>1. path = << <<OwnLeaf>> >>
    BY <1>1, <1>5 DEF IInv, PathInv
  <2>2. Len(path) = 1 /\ Len(path[1]) = 1
    BY <2>1
  <2>3. pc' = "done" /\ index' = index
    BY <2>2 DEF Find
  <2>4. workingHash' = TxID(txid) /\ txid' = txid /\ Len(block') = 1
    BY <1>2, <1>5, <2>2 DEF Find
  <2> QED
    BY <1>1, <2>3, <2>4 DEF FoldInv, RootOrNotFound, SortedIsSafe
<1>6. ASSUME Len(block) # 1
      PROVE  index' \in Nat /\ FoldInv' /\ RootOrNotFound' /\ SortedIsSafe'
  <2>1. Len(block) > 1
    <3>1. \A n \in Nat \ {0} : n # 1 => n > 1
      OBVIOUS
    <3> QED
      BY <1>1, <1>6, <3>1
  <2>2. path[1] \in {<<a, b>>, <<b, a>>}
    BY <1>1, <2>1, PathValues DEF Lowest
  <2>3. /\ DOMAIN path[1] = {1, 2} /\ Len(path[1]) = 2
        /\ \A j \in {1, 2} : path[1][j] \in {a, b}
        /\ \E j \in {1, 2} : path[1][j] = a
        /\ \E j \in {1, 2} : path[1][j] = b
    <3>1. ASSUME NEW c, NEW d, NEW p \in {<<c, d>>, <<d, c>>}
          PROVE  /\ DOMAIN p = {1, 2} /\ Len(p) = 2
                 /\ \A j \in {1, 2} : p[j] \in {c, d}
                 /\ \E j \in {1, 2} : p[j] = c
                 /\ \E j \in {1, 2} : p[j] = d
      OBVIOUS
    <3> HIDE DEF a, b
    <3> QED
      BY <2>2, <3>1
  <2>4. /\ a.offset = txIndex /\ a.hash = TxID(block[txIndex + 1]) /\ a.hash # Nil
        /\ b.offset = s
        /\ s < Len(block) => b.hash = TxID(block[s + 1])
        /\ ~ (s < Len(block)) => b.hash = Nil
        /\ s \in Nat
    BY <1>1, OwnLeafValue, LowestSibling, PairValues
  <2>5. \A t, u : (TxID(t) = TxID(u) <=> t = u) /\ TxID(t) # Nil
    BY DEF TxID, Nil
  <2>6. txid \in GoodFor <=> a.hash = TxID(txid) \/ b.hash = TxID(txid)
    BY <1>1, <2>4, <2>5, GoodForValues
  <2>7. Matches = {j \in {1, 2} : path[1][j].hash = TxID(txid)}
    BY <2>3 DEF Matches
  <2>8. ~ (Len(path) = 1 /\ Len(path[1]) = 1)
    BY <2>3
  <2> HIDE DEF a, b, s
  <2>9. Matches # {} => Found \in Matches /\ \A m \in Matches : Found <= m
    <3>1. Matches # {} => \E j \in Matches : \A m \in Matches : j <= m
      BY <2>7
    <3> QED
      BY <3>1 DEF Found
  <2>10. CASE \E j \in Looked : path[1][j].hash = Nil
    <3>1. pc' = "panic" /\ index' = index
      BY <2>8, <2>10 DEF Find
    <3>2. PICK j \in Looked : path[1][j].hash = Nil
      BY <2>10
    <3>3. j \in {1, 2}
      <4>1. Looked \subseteq {1, 2}
        <5>1. Matches # {} => Found \in {1, 2}
          BY <2>7, <2>9
        <5> QED
          BY <2>3, <5>1 DEF Looked
      <4> QED
        BY <3>2, <4>1
    <3>4. path[1][j] = b /\ b.hash = Nil /\ ~ (s < Len(block))
      BY <2>3, <2>4, <2>5, <3>2, <3>3
    <3>5. txIndex % 2 = 0 /\ txIndex = Len(block) - 1
      <4>1. ASSUME txIndex % 2 # 0 PROVE FALSE
        <5>1. s = txIndex - 1
          BY <1>1, <4>1, PairValues DEF s
        <5> QED
          BY <1>1, <3>4, <5>1
      <4>2. s = txIndex + 1
        BY <1>1, <4>1, PairValues DEF s
      <4> QED
        BY <1>1, <3>4, <4>1, <4>2
    <3>6. LoneLast'
      BY <1>2, <2>1, <3>5 DEF LoneLast
    <3>7. ASSUME via = "bytes", txid \in GoodFor PROVE FALSE
      <4>1. Matches # {} /\ Looked = 1..Found
        BY <2>3, <2>4, <2>5, <2>6, <2>7, <3>4, <3>7 DEF Looked
      <4>2. Found \in {1, 2}
        BY <2>7, <2>9, <4>1
      <4>3. path[1] = <<a, b>>
        BY <2>1, <3>5, <3>7 DEF IInv, PathInv, a, b
      <4>4. path[1][1] = a /\ path[1][2] = b
        BY <4>3
      <4>5. a.hash = TxID(txid)
        BY <2>5, <2>6, <3>4, <3>7
      <4>6. Found = 1
        BY <2>7, <2>9, <4>2, <4>4, <4>5
      <4>7. j = 1
        BY <3>2, <3>3, <4>1, <4>6
      <4> QED
        BY <2>4, <3>4, <4>4, <4>7
    <3>8. SortedIsSafe'
      BY <1>2, <1>3, <3>7 DEF SortedIsSafe
    <3> QED
      BY <1>1, <3>1, <3>6, <3>8 DEF FoldInv, RootOrNotFound
  <2>11. CASE ~ (\E j \in Looked : path[1][j].hash = Nil) /\ Matches = {}
    <3>1. pc' = "notFound" /\ index' = index
      BY <2>8, <2>11 DEF Find
    <3>2. txid' \notin GoodFor'
      BY <1>2, <1>3, <2>3, <2>6, <2>7, <2>11
    <3> QED
      BY <1>1, <3>1, <3>2 DEF FoldInv, RootOrNotFound, SortedIsSafe
  <2>12. CASE ~ (\E j \in Looked : path[1][j].hash = Nil) /\ Matches # {}
    <3>1. pc' = "fold" /\ workingHash' = TxID(txid) /\ index' = path[1][Found].offset
      BY <2>8, <2>12 DEF Find
    <3>2. path[1][Found] \in {a, b} /\ path[1][Found].hash = TxID(txid)
      BY <2>3, <2>7, <2>9, <2>12
    <3>3. /\ index' \in {txIndex, s} /\ index' \in 0..(Len(block) - 1)
          /\ txid = block[index' + 1]
      BY <1>1, <2>4, <2>5, <3>1, <3>2
    <3>4. Node(block, 0, index') = TxID(block[index' + 1])
      BY <1>1, <3>3, BlockValues, NodeLeaf
    <3>5. Above(index')[0] = index' /\ index' \in Nat /\ index' < Len(block)
      BY <1>1, <3>3, AboveValues
    <3>6. workingHash' = Node(block, 0, Above(index')[0])
      BY <3>1, <3>3, <3>4, <3>5
    <3>7. FoldInv'
      BY <1>1, <1>2, <2>1, <3>3, <3>5, <3>6 DEF FoldInv, s, PairedTo
    <3> QED
      BY <3>1, <3>5, <3>7 DEF RootOrNotFound, SortedIsSafe
  <2> QED
    BY <2>10, <2>11, <2>12
<1>7. index' \in Nat /\ FoldInv' /\ RootOrNotFound' /\ SortedIsSafe'
  BY <1>5, <1>6
<1>8. pc' \notin {"built", "find", "new", "levels"} /\ (pc' = "fold" \/ Ended')
  BY <1>2 DEF Ended
<1>9. height' \in 0..treeHeight'
  BY <1>2, <1>3 DEF IInv
<1> QED
  BY <1>3, <1>7, <1>8, <1>9 DEF IInv

LEMMA FoldLevelIInv ==
    ASSUME IInv, FoldLevel
    PROVE  IInv'
<1>1. /\ block \in Blocks /\ Len(block) > 1 /\ IsList(block)
      /\ pc = "fold" /\ height < Len(path) /\ index \in Nat
      /\ workingHash = Node(block, height, Above(index)[height])
  BY BlockValues DEF IInv, FoldInv, FoldLevel
<1>2. /\ height \in 0..(treeHeight - 1) /\ index \in 0..(Len(block) - 1)
      /\ AtOffset # {} /\ AtOffset \subseteq Nat
      /\ \A j \in AtOffset : \E isTxid \in BOOLEAN :
            path[height + 1][j] = Leaf(Offset, PaddedCell(block, height, Offset), isTxid)
  BY <1>1, LeafFound
<1> DEFINE found == CHOOSE j \in AtOffset : \A m \in AtOffset : j <= m
<1>3. found \in AtOffset
  <2>1. \E j \in AtOffset : \A m \in AtOffset : j <= m
    BY <1>2, LeastNumber
  <2> QED
    BY <2>1
<1>4. /\ UNCHANGED <<block, txIndex, oddTxIndex, path, via, txid, index, pc>>
      /\ workingHash' = Digest(path[height + 1][found]) /\ height' = height + 1
  BY <1>2 DEF FoldLevel, making
<1> HIDE DEF found
<1> DEFINE x == Above(index)[height]
<1>5. PICK isTxid \in BOOLEAN :
         path[height + 1][found] = Leaf(PairedTo(x), PaddedCell(block, height, PairedTo(x)), isTxid)
  BY <1>2, <1>3 DEF Offset
<1>6. x \in 0..(Width(block, height) - 1) /\ workingHash = Node(block, height, x)
  BY <1>1, <1>2, SiblingIsInside
<1>7. height \in Nat /\ treeHeight \in Nat /\ height + 1 \in 0..treeHeight
  <2>1. treeHeight \in Nat
    BY <1>1, TreeHeightValue
  <2> QED
    BY <1>2, <2>1
<1>8. Above(index)[height + 1] = x \div 2
  BY <1>1, <1>7, AboveValues
<1> HIDE DEF x
<1>9. workingHash' = Node(block, height + 1, x \div 2)
  BY <1>1, <1>4, <1>5, <1>6, <1>7, DigestValue
<1>10. /\ PathInv' /\ treeHeight' = treeHeight /\ GoodFor' = GoodFor
       /\ block' \in Blocks /\ txIndex' \in 0..(Len(block') - 1)
       /\ oddTxIndex' \in BOOLEAN
  BY <1>1, <1>4, SamePath
<1>11. FoldInv'
  <2>1. /\ index \in {txIndex, PairedTo(txIndex)} /\ index < Len(block)
        /\ txid = block[index + 1]
    BY <1>1 DEF IInv, FoldInv
  <2>2. workingHash' = Node(block', height', Above(index')[height'])
    BY <1>4, <1>8, <1>9
  <2> QED
    BY <1>1, <1>4, <2>1, <2>2 DEF FoldInv, PairedTo
<1>12. RootOrNotFound' /\ SortedIsSafe'
  BY <1>1, <1>4 DEF RootOrNotFound, SortedIsSafe
<1>13. height' \in 0..treeHeight' /\ index' \in Nat /\ pc' = "fold"
  BY <1>1, <1>4, <1>7, <1>10
<1> QED
  BY <1>10, <1>11, <1>12, <1>13 DEF IInv

LEMMA ReturnIInv ==
    ASSUME IInv, Return
    PROVE  IInv'
<1>1. /\ block \in Blocks /\ Len(block) > 1 /\ IsList(block)
      /\ pc = "fold" /\ height = Len(path) /\ index \in Nat
      /\ index \in {txIndex, PairedTo(txIndex)} /\ index < Len(block)
      /\ txIndex \in 0..(Len(block) - 1) /\ Len(block) \in Nat
      /\ txid = block[index + 1]
      /\ workingHash = Node(block, height, Above(index)[height])
  BY BlockValues DEF IInv, FoldInv, Return
<1>2. height = Height(block) /\ index \in 0..(Len(block) - 1)
  <2>1. Len(path) = treeHeight
    BY <1>1, PathValues
  <2> QED
    BY <1>1, <2>1, TreeHeightValue
<1>3. workingHash = MerkleRoot(block)
  BY <1>1, <1>2, AboveHeight DEF MerkleRoot
<1>4. txid \in GoodFor
  BY <1>1, GoodForValues
<1>5. /\ UNCHANGED <<block, txIndex, oddTxIndex, path, via, txid, index, workingHash, height>>
      /\ pc' = "done"
  BY DEF Return, making
<1>6. /\ PathInv' /\ treeHeight' = treeHeight /\ GoodFor' = GoodFor
      /\ block' \in Blocks /\ txIndex' \in 0..(Len(block') - 1)
      /\ oddTxIndex' \in BOOLEAN
  BY <1>1, <1>5, SamePath
<1>7. RootOrNotFound' /\ SortedIsSafe' /\ FoldInv'
  <2>1. block' = block /\ workingHash' = workingHash /\ txid' = txid
    BY <1>5
  <2>2. Len(block) # 1
    <3>1. \A n \in Nat : n > 1 => n # 1
      OBVIOUS
    <3> QED
      BY <1>1, <3>1
  <2> QED
    BY <1>3, <1>4, <1>5, <1>6, <2>1, <2>2 DEF RootOrNotFound, SortedIsSafe, FoldInv
<1>8. height' \in 0..treeHeight' /\ index' \in Nat /\ Ended'
  BY <1>1, <1>5, <1>6 DEF IInv, Ended
<1> QED
  BY <1>5, <1>6, <1>7, <1>8 DEF IInv

-----------------------------------------------------------------------------
(* The theorems *)

\* The invariant of making, handing over and using a BUMP.
THEOREM Invariance == Spec => []IInv
<1>1. IInv /\ [Next]_vars => IInv'
  <2> SUFFICES ASSUME IInv, [Next]_vars PROVE IInv'
    OBVIOUS
  <2>1. CASE New
    BY <2>1, NewIInv
  <2>2. CASE AddLevel
    BY <2>2, AddLevelIInv
  <2>3. CASE AddTxid
    BY <2>3, AddTxidIInv
  <2>4. CASE HandOver
    BY <2>4, HandOverIInv
  <2>5. CASE Find
    BY <2>5, FindIInv
  <2>6. CASE FoldLevel
    BY <2>6, FoldLevelIInv
  <2>7. CASE Return
    BY <2>7, ReturnIInv
  <2>8. CASE UNCHANGED vars
    BY <2>8, SameTree DEF vars, IInv, PathInv, FoldInv, RootOrNotFound,
       SortedIsSafe, LoneLast, Ended, PairedTo
  <2> QED
    BY <2>1, <2>2, <2>3, <2>4, <2>5, <2>6, <2>7, <2>8 DEF Next
<1> QED
  BY <1>1, InitIInv, PTL DEF Spec

\* Every variable has its type, and the leaves lie in the tree.
THEOREM TypeCorrect == Spec => []TypeOK
<1>1. IInv => TypeOK
  <2> SUFFICES ASSUME IInv PROVE TypeOK
    OBVIOUS
  <2>1. /\ block \in Blocks /\ txIndex \in 0..(Len(block) - 1)
        /\ Len(block) \in Nat \ {0} /\ treeHeight \in Nat
    BY BlockValues, TreeHeightValue DEF IInv
  <2>2. ASSUME NEW h \in 0..(treeHeight - 1)
        PROVE  SiblingLeaf(h).offset < numOfHashes(h)
    <3>1. SiblingLeaf(h).offset = PairedTo(Above(txIndex)[h])
      BY DEF SiblingLeaf, Leaf
    <3>2. PairedTo(Above(txIndex)[h]) \in 0..(numOfHashes(h) - 1)
      BY <2>1, SiblingIsInside
    <3>3. numOfHashes(h) \in 1..numOfTxids /\ numOfTxids \in Nat
      <4>1. h \in 0..treeHeight
        BY <2>1
      <4> QED
        BY <2>1, <4>1, LevelSizes, BlockValues
    <3> QED
      BY <3>1, <3>2, <3>3
  <2>3. OwnLeaf.offset < numOfHashes(0)
    <3>1. numOfHashes(0) = numOfTxids
      BY <2>1, BlockValues, AboveValues DEF numOfHashes
    <3>2. OwnLeaf.offset = txIndex
      BY <2>1, OwnLeafValue
    <3>3. Len(block) <= numOfTxids /\ numOfTxids \in Nat
      BY <2>1, BlockValues
    <3> QED
      BY <2>1, <3>1, <3>2, <3>3
  <2>4. ASSUME NEW h \in DOMAIN path, NEW j \in DOMAIN path[h]
        PROVE  path[h][j].offset < numOfHashes(h - 1)
    <3>1. ASSUME NEW e, e \in {OwnLeaf, SiblingLeaf(0)}, treeHeight # 0
          PROVE  e.offset < numOfHashes(0)
      BY <2>1, <2>2, <2>3, <3>1
    <3>2. CASE pc = "new"
      BY <3>2 DEF IInv, PathInv
    <3>3. CASE pc = "levels"
      <4>1. h \in 1..height /\ path[h] = <<SiblingLeaf(h - 1)>>
        BY <3>3 DEF IInv, PathInv
      <4>2. h - 1 \in 0..(treeHeight - 1)
        BY <2>1, <4>1 DEF IInv
      <4>3. path[h][j] = SiblingLeaf(h - 1)
        BY <4>1
      <4> QED
        BY <2>2, <4>2, <4>3
    <3>4. CASE pc \notin {"new", "levels"} /\ Len(block) = 1
      <4>1. path = << <<OwnLeaf>> >>
        BY <3>4 DEF IInv, PathInv
      <4>2. h = 1 /\ path[h][j] = OwnLeaf
        BY <4>1
      <4> QED
        BY <2>3, <4>2
    <3>5. CASE pc \notin {"new", "levels"} /\ Len(block) # 1
      <4>1. Len(block) > 1
        <5>1. \A n \in Nat \ {0} : n # 1 => n > 1
          OBVIOUS
        <5> QED
          BY <2>1, <3>5, <5>1
      <4>2. /\ DOMAIN path = 1..treeHeight /\ treeHeight \in Nat \ {0}
            /\ path[1] \in Lowest
            /\ \A g \in 1..(treeHeight - 1) : path[g + 1] = <<SiblingLeaf(g)>>
        BY <3>5, <4>1, PathValues
      <4>3. CASE h = 1
        <5>1. ASSUME NEW c, NEW d, NEW p \in {<<c, d>>, <<d, c>>}, NEW m \in DOMAIN p
              PROVE  p[m] \in {c, d}
          OBVIOUS
        <5>2. path[h][j] \in {OwnLeaf, SiblingLeaf(0)}
          BY <4>2, <4>3, <5>1 DEF Lowest
        <5> QED
          BY <3>1, <4>2, <4>3, <5>2
      <4>4. CASE h # 1
        <5>1. h - 1 \in 1..(treeHeight - 1) /\ (h - 1) + 1 = h /\ h - 1 \in 0..(treeHeight - 1)
          BY <4>2, <4>4
        <5>2. path[h] = <<SiblingLeaf(h - 1)>>
          BY <4>2, <5>1
        <5>3. path[h][j] = SiblingLeaf(h - 1)
          BY <5>2
        <5> QED
          BY <2>2, <5>1, <5>3
      <4> QED
        BY <4>3, <4>4
    <3> QED
      BY <3>2, <3>3, <3>4, <3>5
  <2> QED
    BY <2>4 DEF IInv, TypeOK
<1> QED
  BY <1>1, Invariance, PTL

\* A BUMP of a block of several transactions leads from its transaction and its
\* neighbour to the block's Merkle root, and from nothing else to anything; it
\* panics only if it is that of a last transaction without a neighbour.  That of
\* a block of one transaction answers with the id it is asked for.
THEOREM RootIsReached == Spec => []RootOrNotFound
<1>1. IInv => RootOrNotFound
  BY DEF IInv
<1> QED
  BY <1>1, Invariance, PTL

\* After a pass through bytes, no leaf without a hash is dereferenced in the
\* search for a transaction the BUMP is good for.
THEOREM SortingIsSafe == Spec => []SortedIsSafe
<1>1. IInv => SortedIsSafe
  BY DEF IInv
<1> QED
  BY <1>1, Invariance, PTL

=============================================================================

-------------------------- MODULE MerkleTreeProofs --------------------------
(***************************************************************************)
(* Theorems about MerkleTree, for every block of every size: the indexing  *)
(* is always in bounds, the padded array holds the tree of the block's     *)
(* list, and the path extracted from a tree leads back to its root.        *)
(***************************************************************************)
EXTENDS MerkleTree, BlockTreeProofs

\* nextPowerOfTwo pads a block to a power of two not smaller than its length.
LEMMA PaddingFits ==
    ASSUME txids \in Blocks
    PROVE  /\ nextPoT \in PowersOfTwo
           /\ nextPoT \in Nat \ {0}
           /\ Len(txids) \in 1..nextPoT
           /\ nextPoT = 1 \/ (nextPoT % 2 = 0 /\ (nextPoT \div 2) \in PowersOfTwo)
           /\ arraySize = 2 * nextPoT - 1
           /\ arraySize \in Nat
<1>1. Len(txids) \in 1..MaxTxs /\ MaxTxs \in Nat
  BY BlocksAssumption, MaxTxsAssumption
<1>2. nextPoT \in PowersOfTwo /\ Len(txids) <= nextPoT
  BY <1>1, PaddingValues DEF nextPoT
<1>3. nextPoT \in Nat \ {0}
  BY <1>2, PowersAssumption
<1>4. nextPoT = 1 \/ (nextPoT % 2 = 0 /\ (nextPoT \div 2) \in PowersOfTwo)
  BY <1>2, PowersAssumption
<1>5. arraySize = 2 * nextPoT - 1 /\ arraySize \in Nat
  BY <1>3 DEF arraySize
<1> QED
  BY <1>1, <1>2, <1>3, <1>4, <1>5

-----------------------------------------------------------------------------

\* The state Init describes satisfies the invariant.
LEMMA InitIInv == Init => IInv
<1> SUFFICES ASSUME Init PROVE IInv
  OBVIOUS
<1>1. txids \in Blocks
  BY DEF Init
<1>2. /\ nextPoT \in PowersOfTwo
      /\ nextPoT \in Nat \ {0}
      /\ Len(txids) \in 1..nextPoT
      /\ arraySize = 2 * nextPoT - 1
      /\ nextPoT = 1 \/ (nextPoT % 2 = 0 /\ (nextPoT \div 2) \in PowersOfTwo)
  BY <1>1, PaddingFits
<1>3. LoopInv
  BY <1>2 DEF Init, LoopInv, PathPhases
<1>4. TreeInv
  BY <1>2 DEF Init, TreeInv, Leaves
<1>5. EmptyCellsLast
  <2> SUFFICES ASSUME NEW j \in 1..(offset - 1), merkles[j - 1] = Nil
               PROVE  merkles[j] = Nil
    BY DEF EmptyCellsLast
  <2>1. offset = nextPoT /\ j \in 0..(nextPoT - 1) /\ j - 1 \in 0..(nextPoT - 1)
    BY <1>2 DEF Init
  <2>2. ~ (j - 1 < Len(txids))
    BY <1>4, <2>1, HashesDiffer DEF TreeInv
  <2> QED
    BY <1>2, <1>4, <2>1, <2>2 DEF TreeInv
<1>6. PassedAreWellFormed
  BY <1>2 DEF Init, PassedAreWellFormed
<1>7. CallsInv
  BY DEF Init, CallsInv, PathPhases
<1>8. PathInv
  BY DEF Init, PathInv
<1>9. FoldInv
  BY DEF Init, FoldInv, PathPhases
<1> QED
  BY <1>1, <1>3, <1>4, <1>5, <1>6, <1>7, <1>8, <1>9 DEF Init, IInv

-----------------------------------------------------------------------------

\* One pass of the loop of BuildMerkleTreeStore preserves the invariant.
LEMMA BuildStepIInv == IInv /\ BuildStep => IInv'
<1> SUFFICES ASSUME IInv, BuildStep PROVE IInv'
  OBVIOUS
<1>1. /\ nextPoT \in PowersOfTwo
      /\ nextPoT \in Nat \ {0}
      /\ Len(txids) \in 1..nextPoT
      /\ arraySize = 2 * nextPoT - 1
      /\ nextPoT = 1 \/ (nextPoT % 2 = 0 /\ (nextPoT \div 2) \in PowersOfTwo)
  BY PaddingFits DEF IInv
<1>2. /\ txids' = txids /\ nextPoT' = nextPoT /\ arraySize' = arraySize
      /\ UNCHANGED <<txIndex, calls, path, caller, working, lsb, k>>
  BY DEF BuildStep, nextPoT, arraySize
<1>3. /\ pc = "build" /\ i < arraySize - 1
      /\ i \in Nat /\ i % 2 = 0 /\ offset = nextPoT + i \div 2
  BY DEF BuildStep, IInv, LoopInv
<1>4. /\ i + 1 < offset /\ offset <= arraySize - 1 /\ offset \in Nat
      /\ nextPoT <= offset /\ 2 * (offset - nextPoT) = i
      /\ i + 2 <= arraySize - 1
  BY <1>1, <1>3
<1>5. CASE Malformed(merkles[i], merkles[i + 1])
  <2>1. pc' = "error" /\ UNCHANGED <<merkles, i, offset>>
    BY <1>5 DEF BuildStep
  <2>2. \E j \in 1..Len(txids) : txids[j] \in BadHex
    <3>1. PICK c \in {i, i + 1} : IsBad(merkles[c])
      BY <1>5 DEF Malformed
    <3>2. PICK t \in BadHex : merkles[c] = TxID(t)
      BY <3>1 DEF IsBad
    <3>3. c \in 0..(offset - 1)
      BY <1>3, <1>4
    <3>4. c < nextPoT
      <4> SUFFICES ASSUME ~ (c < nextPoT) PROVE FALSE
        OBVIOUS
      <4>1. c \in nextPoT..(offset - 1)
        BY <1>1, <1>4, <3>3
      <4>2. merkles[c] = ParentCell(merkles[2 * (c - nextPoT)],
                                    merkles[2 * (c - nextPoT) + 1])
        BY <4>1 DEF IInv, TreeInv
      <4> QED
        BY <3>2, <4>2, HashesDiffer DEF ParentCell
    <3>5. merkles[c] = IF c < Len(txids) THEN TxID(txids[c + 1]) ELSE Nil
      BY <1>1, <3>3, <3>4 DEF IInv, TreeInv
    <3>6. c < Len(txids) /\ TxID(txids[c + 1]) = TxID(t)
      BY <3>2, <3>5, HashesDiffer
    <3>7. txids[c + 1] = t /\ c + 1 \in 1..Len(txids)
      BY <1>1, <3>3, <3>6 DEF TxID
    <3> QED
      BY <3>7
  <2>3. LoopInv'
    BY <1>2, <2>1 DEF IInv, LoopInv, PathPhases
  <2>4. TreeInv' /\ EmptyCellsLast'
    BY <1>2, <2>1 DEF IInv, TreeInv, EmptyCellsLast, LevelStart
  <2>5. PassedAreWellFormed'
    BY <1>2, <2>1, <2>2 DEF PassedAreWellFormed
  <2>6. CallsInv' /\ PathInv' /\ FoldInv'
    BY <1>2, <1>3, <2>1
       DEF IInv, CallsInv, PathInv, FoldInv, PathPhases, PathElement, Neighbour
  <2> QED
    BY <1>2, <2>1, <2>3, <2>4, <2>5, <2>6 DEF IInv
<1>6. CASE ~ Malformed(merkles[i], merkles[i + 1])
  <2>1. /\ pc' = pc /\ offset' = offset + 1 /\ i' = i + 2
        /\ merkles' = [merkles EXCEPT ![offset] =
                          ParentCell(merkles[i], merkles[i + 1])]
    BY <1>6 DEF BuildStep
  <2>2. LoopInv'
    BY <1>1, <1>2, <1>3, <1>4, <2>1 DEF LoopInv, PathPhases
  <2>3. /\ DOMAIN merkles = 0..(arraySize - 1)
        /\ DOMAIN merkles' = 0..(arraySize - 1)
        /\ \A j \in 0..(offset - 1) : merkles'[j] = merkles[j]
        /\ merkles'[offset] = ParentCell(merkles[i], merkles[i + 1])
    BY <1>1, <1>4, <2>1 DEF IInv, TreeInv
  <2>4. TreeInv'
    <3>1. \A j \in 0..(nextPoT - 1) :
             merkles'[j] = IF j < Len(txids) THEN TxID(txids[j + 1]) ELSE Nil
      <4>1. \A j \in 0..(nextPoT - 1) : j \in 0..(offset - 1)
        BY <1>1, <1>4
      <4> QED
        BY <2>3, <4>1 DEF IInv, TreeInv
    <3>2. ASSUME NEW j \in nextPoT..offset
          PROVE  merkles'[j] = ParentCell(merkles'[2 * (j - nextPoT)],
                                          merkles'[2 * (j - nextPoT) + 1])
      <4>1. /\ 2 * (j - nextPoT) \in 0..(offset - 1)
            /\ 2 * (j - nextPoT) + 1 \in 0..(offset - 1)
        BY <1>1, <1>4
      <4>2. CASE j = offset
        BY <1>4, <2>3, <4>1, <4>2
      <4>3. CASE j # offset
        <5>1. j \in nextPoT..(offset - 1) /\ j \in 0..(offset - 1)
          BY <1>1, <1>4, <4>3
        <5> QED
          BY <2>3, <4>1, <5>1 DEF IInv, TreeInv
      <4> QED
        BY <4>2, <4>3
    <3>3. nextPoT..(offset' - 1) = nextPoT..offset
      BY <1>1, <1>4, <2>1
    <3> QED
      BY <1>2, <2>3, <3>1, <3>2, <3>3 DEF TreeInv
  <2>5. EmptyCellsLast'
    <3> SUFFICES ASSUME NEW j \in 1..offset,
                        merkles'[j - 1] = Nil,
                        \A m \in PowersOfTwo : j # LevelStart(m)
                 PROVE  merkles'[j] = Nil
      <4>1. 1..(offset' - 1) = 1..offset
        BY <1>4, <2>1
      <4> QED
        BY <1>2, <4>1 DEF EmptyCellsLast, LevelStart
    <3>1. j \in Nat /\ j - 1 \in 0..(offset - 1)
      BY <1>4
    <3>2. merkles[j - 1] = Nil
      BY <2>3, <3>1
    <3>3. CASE j # offset
      <4>1. j \in 1..(offset - 1) /\ j \in 0..(offset - 1)
        BY <1>4, <3>1, <3>3
      <4> QED
        BY <2>3, <3>2, <4>1 DEF IInv, EmptyCellsLast
    <3>4. CASE j = offset
      <4>1. nextPoT # 1
        BY <1>1, <1>3
      <4>2. nextPoT = LevelStart(nextPoT \div 2)
        BY <1>1, <4>1 DEF LevelStart
      <4>3. offset - 1 \in nextPoT..(offset - 1) /\ i >= 2
        BY <1>1, <1>3, <1>4, <3>4, <4>1, <4>2
      <4>4. merkles[offset - 1] = ParentCell(merkles[i - 2], merkles[i - 1])
        <5>1. 2 * ((offset - 1) - nextPoT) = i - 2 /\ (i - 2) + 1 = i - 1
          BY <1>1, <1>3, <1>4
        <5> QED
          BY <4>3, <5>1 DEF IInv, TreeInv
      <4>5. merkles[i - 2] = Nil
        BY <3>2, <3>4, <4>4, HashesDiffer DEF ParentCell
      <4>6. \A m \in PowersOfTwo : i - 1 # LevelStart(m)
        <5> SUFFICES ASSUME NEW m \in PowersOfTwo, i - 1 = LevelStart(m)
                     PROVE  FALSE
          OBVIOUS
        <5>1. m \in Nat /\ i = 2 * (nextPoT - m) + 1
          BY <1>1, <1>3, PowersAssumption DEF LevelStart
        <5>2. nextPoT - m \in Int /\ i % 2 = 1
          BY <1>1, <5>1
        <5> QED
          BY <1>3, <5>2
      <4>7. merkles[i - 1] = Nil
        <5>1. i - 1 \in 1..(offset - 1) /\ (i - 1) - 1 = i - 2
          BY <1>3, <1>4, <4>3
        <5> QED
          BY <4>5, <4>6, <5>1 DEF IInv, EmptyCellsLast
      <4>8. \A m \in PowersOfTwo : i # LevelStart(m)
        <5> SUFFICES ASSUME NEW m \in PowersOfTwo, i = LevelStart(m) PROVE FALSE
          OBVIOUS
        <5>1. m \in Nat \ {0} /\ (m = 1 \/ (m % 2 = 0 /\ (m \div 2) \in PowersOfTwo))
          BY PowersAssumption
        <5>2. m # 1
          BY <1>1, <1>3 DEF LevelStart
        <5>3. offset = LevelStart(m \div 2)
          BY <1>1, <1>4, <5>1, <5>2 DEF LevelStart
        <5> QED
          BY <3>4, <5>1, <5>2, <5>3
      <4>9. merkles[i] = Nil
        <5>1. i \in 1..(offset - 1)
          BY <1>3, <1>4, <4>3
        <5> QED
          BY <4>7, <4>8, <5>1 DEF IInv, EmptyCellsLast
      <4> QED
        BY <2>3, <3>4, <4>9 DEF ParentCell
    <3> QED
      BY <3>3, <3>4
  <2>6. PassedAreWellFormed'
    <3> SUFFICES ASSUME NEW j \in 1..Len(txids), j <= i + 2
                 PROVE  txids[j] \notin BadHex
      BY <1>2, <1>3, <2>1 DEF PassedAreWellFormed
    <3>1. CASE j <= i
      BY <1>3, <3>1 DEF IInv, PassedAreWellFormed
    <3>2. CASE j > i
      <4>1. j - 1 \in {i, i + 1} /\ j - 1 < Len(txids) /\ i < Len(txids)
        BY <1>1, <1>3, <3>2
      <4>2. /\ j - 1 \in 0..(nextPoT - 1)
            /\ i \in 0..(nextPoT - 1)
        BY <1>1, <1>3, <4>1
      <4>3. merkles[j - 1] = TxID(txids[j]) /\ merkles[i] = TxID(txids[i + 1])
        BY <4>1, <4>2 DEF IInv, TreeInv
      <4>4. ~ IsBad(merkles[j - 1])
        BY <1>6, <4>1, <4>3, HashesDiffer DEF Malformed
      <4> QED
        BY <4>3, <4>4 DEF IsBad
    <3> QED
      BY <1>3, <3>1, <3>2
  <2>7. CallsInv' /\ PathInv' /\ FoldInv'
    BY <1>2, <1>3, <2>1
       DEF IInv, CallsInv, PathInv, FoldInv, PathPhases, PathElement, Neighbour
  <2> QED
    BY <1>2, <1>3, <2>1, <2>2, <2>4, <2>5, <2>6, <2>7 DEF IInv
<1> QED
  BY <1>5, <1>6

-----------------------------------------------------------------------------

\* One level of the tree: the cell getPathElements goes on to is the parent of
\* the node it stands on, hashed with the path element it returns, on the side
\* the parity of the index says.
LEMMA LevelUp ==
    ASSUME IInv, i = arraySize - 1,
           NEW c \in [index : Nat, start : Nat], OnLevel(c)
    PROVE  /\ c.start + c.index + 1 - (c.index % 2) <= arraySize - 1
           /\ SliceLen(c) >= 3
           /\ NextCall(c) \in [index : Nat, start : Nat]
           /\ merkles[NextCall(c).start + NextCall(c).index] =
                IF c.index % 2 = 1
                  THEN MerkleTreeParent(PathElement(c),
                                        merkles[c.start + c.index])
                  ELSE MerkleTreeParent(merkles[c.start + c.index],
                                        PathElement(c))
           /\ SliceLen(c) = 3 =>
                /\ NextCall(c).index = 0
                /\ NextCall(c).start = arraySize - 1
           /\ SliceLen(c) # 3 => OnLevel(NextCall(c))
<1>1. /\ nextPoT \in Nat \ {0}
      /\ arraySize = 2 * nextPoT - 1
      /\ offset = arraySize
      /\ i % 2 = 0
  <2>1. nextPoT \in Nat \ {0} /\ arraySize = 2 * nextPoT - 1
    BY PaddingFits DEF IInv
  <2>2. offset = nextPoT + i \div 2 /\ i % 2 = 0
    BY DEF IInv, LoopInv
  <2> QED
    BY <2>1, <2>2
<1>2. PICK m \in PowersOfTwo :
         /\ m >= 2 /\ m <= nextPoT
         /\ c.start = LevelStart(m) /\ c.index < m
         /\ merkles[c.start + c.index] # Nil
  BY DEF OnLevel
<1>3. m \in Nat /\ m % 2 = 0 /\ (m \div 2) \in PowersOfTwo /\ m \div 2 \in Nat
  BY <1>2, PowersAssumption
<1> DEFINE x == c.index
           s == 2 * nextPoT - 2 * m
           node == merkles[s + x]
           up == 2 * nextPoT - m + (x \div 2)
<1>4. x \in Nat /\ x < m /\ c.start = s /\ s \in Nat /\ node # Nil
  BY <1>1, <1>2, <1>3 DEF LevelStart
<1>5. SliceLen(c) = 2 * m - 1
  BY <1>1, <1>3, <1>4 DEF SliceLen
<1>6. /\ NextCall(c).index = x \div 2
      /\ NextCall(c).start = 2 * nextPoT - m
      /\ NextCall(c) \in [index : Nat, start : Nat]
  <2>1. s + ((2 * m - 1) + 1) \div 2 = 2 * nextPoT - m
    BY <1>1, <1>3, <1>4
  <2>2. x \div 2 \in Nat /\ 2 * nextPoT - m \in Nat
    BY <1>1, <1>2, <1>3, <1>4
  <2> QED
    BY <1>4, <1>5, <2>1, <2>2 DEF NextCall
<1>7. up \in nextPoT..(offset - 1)
  BY <1>1, <1>2, <1>3, <1>4
<1>8. 2 * (up - nextPoT) = s + 2 * (x \div 2)
  BY <1>1, <1>3, <1>4
<1>9. merkles[up] = ParentCell(merkles[s + 2 * (x \div 2)],
                               merkles[s + 2 * (x \div 2) + 1])
  <2>1. merkles[up] = ParentCell(merkles[2 * (up - nextPoT)],
                                 merkles[2 * (up - nextPoT) + 1])
    BY <1>7 DEF IInv, TreeInv
  <2> QED
    BY <1>8, <2>1
<1>10. merkles[up] = IF x % 2 = 1 THEN MerkleTreeParent(PathElement(c), node)
                                  ELSE MerkleTreeParent(node, PathElement(c))
  <2>1. CASE x % 2 = 0
    <3>1. 2 * (x \div 2) = x /\ s + (x + 1) = s + x + 1
      BY <1>4, <2>1
    <3>2. Neighbour(c) = merkles[s + x + 1]
      BY <1>4, <2>1, <3>1 DEF Neighbour
    <3>3. merkles[up] = ParentCell(node, Neighbour(c))
      BY <1>9, <3>1, <3>2
    <3> QED
      BY <1>4, <2>1, <3>3 DEF ParentCell, PathElement
  <2>2. CASE x % 2 # 0
    <3>1. /\ 2 * (x \div 2) = x - 1 /\ x >= 1 /\ x % 2 = 1
          /\ s + (x - 1) = s + x - 1 /\ s + (x - 1) + 1 = s + x
      BY <1>4, <2>2
    <3>2. Neighbour(c) = merkles[s + x - 1]
      BY <1>4, <2>2, <3>1 DEF Neighbour
    <3>3. merkles[up] = ParentCell(Neighbour(c), node)
      BY <1>9, <3>1, <3>2
    <3>4. Neighbour(c) # Nil
      <4> SUFFICES ASSUME merkles[s + x - 1] = Nil PROVE FALSE
        BY <3>2
      <4>1. s + x \in 1..(offset - 1)
        BY <1>1, <1>2, <1>3, <1>4, <3>1
      <4>2. \A p \in PowersOfTwo : s + x # LevelStart(p)
        <5> SUFFICES ASSUME NEW p \in PowersOfTwo, s + x = LevelStart(p)
                     PROVE  FALSE
          OBVIOUS
        <5>1. p \in Nat /\ x = 2 * (m - p)
          BY <1>1, <1>3, <1>4, PowersAssumption DEF LevelStart
        <5>2. m - p \in Int /\ x % 2 = 0
          BY <1>3, <5>1
        <5> QED
          BY <2>2, <5>2
      <4>3. (s + x) - 1 = s + x - 1
        BY <1>4
      <4> QED
        BY <1>4, <4>1, <4>2, <4>3 DEF IInv, EmptyCellsLast
    <3> QED
      BY <1>4, <3>1, <3>3, <3>4 DEF ParentCell, PathElement
  <2> QED
    BY <2>1, <2>2
<1>11. c.start + c.index + 1 - (c.index % 2) <= arraySize - 1
  <2>1. CASE x % 2 = 0
    BY <1>1, <1>2, <1>3, <1>4, <2>1
  <2>2. CASE x % 2 # 0
    BY <1>1, <1>2, <1>3, <1>4, <2>2
  <2> QED
    BY <2>1, <2>2
<1>12. ASSUME SliceLen(c) = 3
       PROVE  NextCall(c).index = 0 /\ NextCall(c).start = arraySize - 1
  <2>1. m = 2
    BY <1>3, <1>5, <1>12
  <2> QED
    BY <1>1, <1>4, <1>6, <2>1
<1>13. ASSUME SliceLen(c) # 3
       PROVE  OnLevel(NextCall(c))
  <2>1. m # 2 /\ m \div 2 >= 2 /\ m \div 2 <= nextPoT /\ x \div 2 < m \div 2
    BY <1>1, <1>2, <1>3, <1>4, <1>5, <1>13
  <2>2. NextCall(c).start = LevelStart(m \div 2)
    BY <1>1, <1>3, <1>6 DEF LevelStart
  <2>3. merkles[NextCall(c).start + NextCall(c).index] # Nil
    BY <1>6, <1>10, HashesDiffer
  <2> QED
    BY <1>3, <1>6, <2>1, <2>2, <2>3 DEF OnLevel
<1> QED
  BY <1>2, <1>3, <1>4, <1>5, <1>6, <1>10, <1>11, <1>12, <1>13

-----------------------------------------------------------------------------

\* A step that leaves the tree, the block and the loop alone preserves what
\* the invariant says about them.
LEMMA TreeUntouched ==
    ASSUME IInv,
           UNCHANGED <<txids, merkles, i, offset, caller>>,
           pc # "error", pc' # "error",
           pc' \in {"built"} \cup PathPhases,
           i = arraySize - 1
    PROVE  /\ nextPoT' = nextPoT /\ arraySize' = arraySize
           /\ LoopInv' /\ TreeInv' /\ EmptyCellsLast' /\ PassedAreWellFormed'
<1>1. nextPoT' = nextPoT /\ arraySize' = arraySize
  BY DEF nextPoT, arraySize
<1>2. LoopInv'
  BY <1>1 DEF IInv, LoopInv, PathPhases
<1>3. TreeInv'
  BY <1>1 DEF IInv, TreeInv
<1>4. EmptyCellsLast'
  BY <1>1 DEF IInv, EmptyCellsLast, LevelStart
<1>5. PassedAreWellFormed'
  BY DEF IInv, PassedAreWellFormed
<1> QED
  BY <1>1, <1>2, <1>3, <1>4, <1>5

\* The return of BuildMerkleTreeStore preserves the invariant.
LEMMA BuildReturnIInv == IInv /\ BuildReturn => IInv'
<1> SUFFICES ASSUME IInv, BuildReturn PROVE IInv'
  OBVIOUS
<1>1. arraySize \in Nat
  BY PaddingFits DEF IInv
<1>2. i = arraySize - 1 /\ pc = "build" /\ pc' = "built"
  BY <1>1 DEF BuildReturn, IInv, LoopInv
<1>3. LoopInv' /\ TreeInv' /\ EmptyCellsLast' /\ PassedAreWellFormed'
  BY <1>2, TreeUntouched DEF BuildReturn
<1>4. CallsInv' /\ PathInv' /\ FoldInv'
  BY <1>2 DEF BuildReturn, IInv, CallsInv, PathInv, FoldInv, PathPhases,
              PathElement, Neighbour
<1> QED
  BY <1>2, <1>3, <1>4 DEF IInv, BuildReturn

\* Asking for the path of a transaction preserves the invariant.
LEMMA GetTxMerklePathIInv == IInv /\ GetTxMerklePath => IInv'
<1> SUFFICES ASSUME IInv, GetTxMerklePath PROVE IInv'
  OBVIOUS
<1>1. /\ nextPoT \in PowersOfTwo
      /\ nextPoT \in Nat \ {0}
      /\ Len(txids) \in 1..nextPoT
      /\ arraySize = 2 * nextPoT - 1
      /\ arraySize \in Nat
  BY PaddingFits DEF IInv
<1>2. PICK x \in 0..(Len(txids) - 1) :
         /\ txIndex' = x
         /\ calls' = IF arraySize # 1 THEN <<[index |-> x, start |-> 0]>>
                                      ELSE <<>>
         /\ lsb' = x
         /\ working' = TxID(txids[x + 1])
  BY DEF GetTxMerklePath
<1>3. /\ pc = "built" /\ i = arraySize - 1 /\ x \in Nat
      /\ pc' = IF arraySize # 1 THEN "path" ELSE "fold"
      /\ UNCHANGED <<txids, merkles, i, offset, path, caller, k>>
  BY <1>1 DEF GetTxMerklePath, IInv, LoopInv
<1>4. /\ nextPoT' = nextPoT /\ arraySize' = arraySize
      /\ LoopInv' /\ TreeInv' /\ EmptyCellsLast' /\ PassedAreWellFormed'
  BY <1>3, TreeUntouched DEF PathPhases
<1>5. k = 1 /\ path = <<>>
  BY <1>3 DEF IInv, CallsInv, FoldInv, PathInv, PathPhases
<1>6. merkles[x] = TxID(txids[x + 1]) /\ merkles[x] # Nil
  <2>1. x \in 0..(nextPoT - 1) /\ x < Len(txids)
    BY <1>1
  <2> QED
    BY <2>1, HashesDiffer DEF IInv, TreeInv
<1>7. CASE arraySize = 1
  <2>1. x = 0 /\ pc' = "fold" /\ calls' = <<>>
    BY <1>1, <1>2, <1>3, <1>7
  <2>2. CallsInv'
    BY <1>4, <1>7, <2>1 DEF CallsInv, PathPhases
  <2>3. PathInv'
    BY <1>3, <1>5, <2>1 DEF PathInv
  <2>4. FoldInv'
    BY <1>2, <1>3, <1>4, <1>5, <1>6, <1>7, <2>1 DEF FoldInv, PathPhases, Root
  <2> QED
    BY <1>3, <1>4, <2>1, <2>2, <2>3, <2>4 DEF IInv, PathPhases
<1>8. CASE arraySize # 1
  <2> DEFINE c == [index |-> x, start |-> 0]
  <2>1. pc' = "path" /\ calls' = <<c>> /\ Len(calls') = 1 /\ calls'[1] = c
    BY <1>2, <1>3, <1>8
  <2>2. c \in [index : Nat, start : Nat]
    BY <1>3
  <2>3. \A q \in 1..Len(calls') : OnLevel(calls[q])'
    <3>1. nextPoT >= 2 /\ LevelStart(nextPoT) = 0 /\ x < nextPoT /\ 0 + x = x
      BY <1>1, <1>8 DEF LevelStart
    <3>2. LevelStart(nextPoT)' = 0 /\ merkles'[0 + x] # Nil
      BY <1>3, <1>4, <1>6, <3>1 DEF LevelStart
    <3>3. \E m \in PowersOfTwo :
             /\ m >= 2 /\ m <= nextPoT'
             /\ 0 = LevelStart(m)'
             /\ x < m
             /\ merkles'[0 + x] # Nil
      BY <1>1, <1>4, <3>1, <3>2
    <3>4. \A q \in 1..Len(calls') : calls'[q].start = 0 /\ calls'[q].index = x
      BY <2>1
    <3> QED
      BY <3>3, <3>4 DEF OnLevel
  <2>4. CallsInv'
    <3>1. calls' \in Seq([index : Nat, start : Nat]) /\ calls' # <<>>
      BY <2>1, <2>2
    <3>2. 1..(Len(calls') - 1) = {}
      BY <2>1
    <3> QED
      BY <1>2, <2>1, <2>3, <3>1, <3>2 DEF CallsInv, PathPhases
  <2>5. PathInv'
    BY <1>3, <1>5, <2>1 DEF PathInv
  <2>6. FoldInv'
    BY <1>2, <1>3, <1>5, <1>6, <2>1 DEF FoldInv, PathPhases
  <2> QED
    BY <1>3, <1>4, <2>1, <2>4, <2>5, <2>6 DEF IInv, PathPhases
<1> QED
  BY <1>7, <1>8

-----------------------------------------------------------------------------

\* In the phases after building, the loop has run to its end.
LEMMA TreeIsBuilt ==
    ASSUME IInv, pc \in PathPhases
    PROVE  i = arraySize - 1 /\ pc # "error"
BY DEF IInv, LoopInv, PathPhases

\* An element of a sequence over S is in S.
LEMMA ElementOf ==
    ASSUME NEW S, NEW s \in Seq(S), NEW q \in 1..Len(s)
    PROVE  s[q] \in S
OBVIOUS

\* What the invariant says about the calls getPathElements has made.
LEMMA CallFacts ==
    ASSUME IInv, pc \in PathPhases
    PROVE  /\ calls \in Seq([index : Nat, start : Nat])
           /\ Len(calls) \in Nat
           /\ \A q \in 1..Len(calls) :
                 calls[q] \in [index : Nat, start : Nat] /\ OnLevel(calls[q])
           /\ \A q \in 1..(Len(calls) - 1) :
                 calls[q + 1] = NextCall(calls[q]) /\ SliceLen(calls[q]) # 3
<1>1. calls \in Seq([index : Nat, start : Nat]) /\ Len(calls) \in Nat
  BY DEF IInv, CallsInv
<1>2. ASSUME NEW q \in 1..Len(calls)
      PROVE  calls[q] \in [index : Nat, start : Nat] /\ OnLevel(calls[q])
  <2>1. OnLevel(calls[q])
    BY DEF IInv, CallsInv
  <2> QED
    BY <1>1, <2>1, ElementOf
<1>3. \A q \in 1..(Len(calls) - 1) :
         calls[q + 1] = NextCall(calls[q]) /\ SliceLen(calls[q]) # 3
  BY DEF IInv, CallsInv
<1> QED
  BY <1>1, <1>2, <1>3

\* One call of getPathElements preserves the invariant.
LEMMA GetPathElementsIInv == IInv /\ getPathElements => IInv'
<1> SUFFICES ASSUME IInv, getPathElements PROVE IInv'
  OBVIOUS
<1> DEFINE Call == [index : Nat, start : Nat]
           n == Len(calls)
<1>1. /\ pc = "path" /\ pc' \in {"path", "fold"}
      /\ path' = Append(path, PathElement(Top))
      /\ UNCHANGED <<txids, merkles, i, offset, txIndex, caller, working, lsb, k>>
  BY DEF getPathElements
<1>2. i = arraySize - 1
  BY <1>1, TreeIsBuilt DEF PathPhases
<1>3. /\ nextPoT' = nextPoT /\ arraySize' = arraySize
      /\ LoopInv' /\ TreeInv' /\ EmptyCellsLast' /\ PassedAreWellFormed'
  BY <1>1, <1>2, TreeUntouched DEF PathPhases
<1>4. /\ calls \in Seq(Call) /\ n \in Nat \ {0}
      /\ Top = calls[n] /\ Top \in Call /\ OnLevel(Top)
      /\ calls[1] = [index |-> txIndex, start |-> 0]
      /\ \A q \in 1..n : OnLevel(calls[q])
      /\ \A q \in 1..(n - 1) :
            calls[q + 1] = NextCall(calls[q]) /\ SliceLen(calls[q]) # 3
  <2>1. calls \in Seq(Call) /\ calls # <<>>
    BY <1>1 DEF IInv, CallsInv
  <2>2. n \in Nat \ {0} /\ n \in 1..n
    BY <2>1
  <2>3. pc \in PathPhases
    BY <1>1 DEF PathPhases
  <2>4. calls[1] = [index |-> txIndex, start |-> 0]
    BY <2>1, <2>3 DEF IInv, CallsInv
  <2>5. /\ \A q \in 1..n : calls[q] \in Call /\ OnLevel(calls[q])
        /\ \A q \in 1..(n - 1) :
              calls[q + 1] = NextCall(calls[q]) /\ SliceLen(calls[q]) # 3
    BY <2>3, CallFacts
  <2> QED
    BY <2>1, <2>2, <2>4, <2>5 DEF Top
<1>5. /\ path \in Seq({path[j] : j \in 1..Len(path)}) /\ Len(path) = n - 1
      /\ \A q \in 1..(n - 1) : path[q] = PathElement(calls[q])
  BY <1>1, <1>4 DEF IInv, PathInv
<1>6. \A c \in Call : /\ PathElement(c)' = PathElement(c)
                      /\ NextCall(c)' = NextCall(c)
                      /\ SliceLen(c)' = SliceLen(c)
                      /\ OnLevel(c) => OnLevel(c)'
  BY <1>1, <1>3
     DEF PathElement, Neighbour, NextCall, SliceLen, OnLevel, LevelStart
<1>7. /\ Len(path') = n
      /\ path' \in Seq({path'[j] : j \in 1..Len(path')})
      /\ \A q \in 1..n : path'[q] = PathElement(calls[q])
  <2>1. Len(path') = n /\ path'[n] = PathElement(calls[n])
    BY <1>1, <1>4, <1>5
  <2>2. \A q \in 1..(n - 1) : path'[q] = path[q]
    BY <1>1, <1>4, <1>5
  <2>3. ASSUME NEW q \in 1..n PROVE path'[q] = PathElement(calls[q])
    <3>1. CASE q = n
      BY <2>1, <3>1
    <3>2. CASE q # n
      <4>1. q \in 1..(n - 1)
        BY <1>4, <3>2
      <4> QED
        BY <1>5, <2>2, <4>1
    <3> QED
      BY <3>1, <3>2
  <2>4. path' \in Seq({path'[j] : j \in 1..Len(path')})
    <3> DEFINE R == {path'[j] : j \in 1..n}
    <3>1. \A j \in 1..(n - 1) : path[j] \in R
      <4>1. \A j \in 1..(n - 1) : j \in 1..n
        BY <1>4
      <4> QED
        BY <2>2, <4>1
    <3>2. path \in Seq(R)
      <4>1. \A j \in 1..Len(path) : path[j] \in R
        BY <1>5, <3>1
      <4> HIDE DEF R
      <4> QED
        BY <1>5, <4>1
    <3>3. PathElement(Top) \in R
      BY <1>4, <2>1
    <3> QED
      BY <1>1, <2>1, <3>2, <3>3
  <2> QED
    BY <2>1, <2>3, <2>4
<1>8. k = 1 /\ lsb = calls[1].index
      /\ working = merkles[calls[1].start + calls[1].index]
  BY <1>1, <1>4 DEF IInv, FoldInv, PathPhases
<1>9. CASE SliceLen(Top) = 3
  <2>1. pc' = "fold" /\ calls' = calls
    BY <1>9 DEF getPathElements
  <2>2. \A q \in 1..n : OnLevel(calls[q])'
    BY <1>1, <1>3, <1>4, <2>1 DEF OnLevel, LevelStart
  <2>3. \A q \in 1..(n - 1) :
           calls[q + 1] = NextCall(calls[q])' /\ SliceLen(calls[q])' # 3
    BY <1>3, <1>4, <2>1 DEF NextCall, SliceLen
  <2>4. SliceLen(Top)' = 3
    BY <1>3, <1>9, <2>1 DEF SliceLen, Top
  <2>5. CallsInv'
    BY <1>1, <1>4, <2>1, <2>2, <2>3, <2>4 DEF CallsInv, PathPhases
  <2>6. PathInv'
    BY <1>1, <1>7, <2>1 DEF PathInv, PathElement, Neighbour
  <2>7. FoldInv'
    BY <1>1, <1>4, <1>8, <2>1 DEF IInv, FoldInv, PathPhases
  <2> QED
    BY <1>1, <1>3, <2>1, <2>5, <2>6, <2>7 DEF IInv, PathPhases
<1>10. CASE SliceLen(Top) # 3
  <2>1. pc' = "path" /\ calls' = Append(calls, NextCall(Top))
    BY <1>1, <1>10 DEF getPathElements
  <2>2. NextCall(Top) \in Call /\ OnLevel(NextCall(Top))
    BY <1>2, <1>4, <1>10, LevelUp
  <2>3. /\ calls' \in Seq(Call) /\ Len(calls') = n + 1
        /\ calls'[n + 1] = NextCall(calls[n])
        /\ \A q \in 1..n : calls'[q] = calls[q]
    BY <1>4, <2>1, <2>2
  <2>4. ASSUME NEW q \in 1..(n + 1)
        PROVE  OnLevel(calls[q])'
    <3>1. OnLevel(calls'[q])
      <4>1. CASE q = n + 1
        BY <1>4, <2>2, <2>3, <4>1
      <4>2. CASE q # n + 1
        <5>1. q \in 1..n
          BY <1>4, <4>2
        <5> QED
          BY <1>4, <2>3, <5>1
      <4> QED
        BY <4>1, <4>2
    <3> QED
      BY <1>1, <1>3, <3>1 DEF OnLevel, LevelStart
  <2>5. ASSUME NEW q \in 1..n
        PROVE  /\ calls'[q + 1] = NextCall(calls[q])'
               /\ SliceLen(calls[q])' # 3
    <3>1. calls'[q + 1] = NextCall(calls[q]) /\ SliceLen(calls[q]) # 3
      <4>1. CASE q = n
        BY <1>4, <1>10, <2>3, <4>1
      <4>2. CASE q # n
        <5>1. q \in 1..(n - 1) /\ q + 1 \in 1..n
          BY <1>4, <4>2
        <5> QED
          BY <1>4, <2>3, <5>1
      <4> QED
        BY <4>1, <4>2
    <3> QED
      BY <1>3, <2>3, <3>1 DEF NextCall, SliceLen
  <2>6. CallsInv'
    <3>1. /\ pc' = "path" /\ txIndex' = txIndex
          /\ "path" \in PathPhases /\ "path" \notin PathPhases \ {"path"}
      BY <1>1, <2>1 DEF PathPhases
    <3>2. n \in Nat \ {0} /\ 1 \in 1..n /\ Len(calls') # 0 /\ (n + 1) - 1 = n
      BY <1>4, <2>3
    <3>3. calls' # <<>> /\ calls'[1] = [index |-> txIndex', start |-> 0]
      BY <1>4, <2>3, <3>1, <3>2
    <3>4. \A q \in 1..Len(calls') : OnLevel(calls[q])'
      BY <2>3, <2>4
    <3>5. \A q \in 1..(Len(calls') - 1) :
             calls'[q + 1] = NextCall(calls[q])' /\ SliceLen(calls[q])' # 3
      BY <2>3, <2>5, <3>2
    <3> QED
      BY <2>3, <3>1, <3>3, <3>4, <3>5 DEF CallsInv
  <2>7. PathInv'
    <3>1. Len(path') = Len(calls') - 1
      BY <1>4, <1>7, <2>3
    <3>2. \A q \in 1..Len(path') : path'[q] = PathElement(calls'[q])
      BY <1>7, <2>3
    <3> QED
      BY <1>1, <1>7, <2>1, <3>1, <3>2 DEF PathInv, PathElement, Neighbour
  <2>8. FoldInv'
    BY <1>1, <1>4, <1>8, <2>1, <2>3 DEF IInv, FoldInv, PathPhases
  <2> QED
    BY <1>1, <1>3, <2>1, <2>6, <2>7, <2>8 DEF IInv, PathPhases
<1> QED
  BY <1>9, <1>10

-----------------------------------------------------------------------------

\* A step of the fold leaves what the invariant says about the path alone.
LEMMA PathUntouched ==
    ASSUME IInv, pc = "fold", pc' \in {"fold", "done", "rangeError"},
           UNCHANGED <<txids, merkles, i, offset, txIndex, calls, path, caller>>
    PROVE  /\ nextPoT' = nextPoT /\ arraySize' = arraySize
           /\ LoopInv' /\ TreeInv' /\ EmptyCellsLast' /\ PassedAreWellFormed'
           /\ CallsInv' /\ PathInv'
<1>1. /\ nextPoT' = nextPoT /\ arraySize' = arraySize
      /\ LoopInv' /\ TreeInv' /\ EmptyCellsLast' /\ PassedAreWellFormed'
  BY TreeIsBuilt, TreeUntouched DEF PathPhases
<1>2. CallsInv'
  BY <1>1 DEF IInv, CallsInv, PathPhases, OnLevel, LevelStart, NextCall,
              SliceLen, Top
<1>3. PathInv'
  BY DEF IInv, PathInv, PathElement, Neighbour
<1> QED
  BY <1>1, <1>2, <1>3

\* Folding one element of the path preserves the invariant.
LEMMA FoldIInv == IInv /\ Fold => IInv'
<1> SUFFICES ASSUME IInv, Fold PROVE IInv'
  OBVIOUS
<1> DEFINE n == Len(calls)
           c == calls[k]
<1>1. /\ pc = "fold" /\ pc' = "fold" /\ k <= Len(path)
      /\ working' = IF lsb % 2 = 1 THEN MerkleTreeParent(path[k], working)
                                   ELSE MerkleTreeParent(working, path[k])
      /\ lsb' = lsb \div 2
      /\ k' = k + 1
      /\ UNCHANGED <<txids, merkles, i, offset, txIndex, calls, path, caller>>
  BY DEF Fold
<1>2. /\ arraySize' = arraySize /\ i = arraySize - 1
      /\ LoopInv' /\ TreeInv' /\ EmptyCellsLast' /\ PassedAreWellFormed'
      /\ CallsInv' /\ PathInv'
  BY <1>1, PathUntouched, TreeIsBuilt DEF PathPhases
<1>3. calls \in Seq([index : Nat, start : Nat]) /\ n \in Nat /\ Len(path) = n
  BY <1>1 DEF IInv, CallsInv, PathInv
<1>4. k \in 1..n /\ path[k] = PathElement(c)
      /\ lsb = c.index /\ working = merkles[c.start + c.index]
      /\ lsb \in Nat /\ txIndex \in Nat
  <2>1. k \in Nat \ {0} /\ lsb \in Nat /\ txIndex \in Nat
    BY DEF IInv, FoldInv
  <2>2. k \in 1..n /\ k \in 1..Len(path)
    BY <1>1, <1>3, <2>1
  <2>3. pc \in PathPhases
    BY <1>1 DEF PathPhases
  <2>4. lsb = c.index /\ working = merkles[c.start + c.index]
    BY <2>2, <2>3 DEF IInv, FoldInv
  <2>5. path[k] = PathElement(c)
    BY <2>2 DEF IInv, PathInv
  <2> QED
    BY <2>1, <2>2, <2>4, <2>5
<1>5. c \in [index : Nat, start : Nat] /\ OnLevel(c)
  BY <1>1, <1>4, CallFacts DEF PathPhases
<1>6. /\ working' = merkles[NextCall(c).start + NextCall(c).index]
      /\ lsb' = NextCall(c).index
  BY <1>1, <1>2, <1>4, <1>5, LevelUp DEF NextCall
<1>7. CASE k < n
  <2>1. calls[k + 1] = NextCall(c)
    <3>1. k \in 1..(n - 1)
      BY <1>3, <1>4, <1>7
    <3> QED
      BY <1>1, <3>1, CallFacts DEF PathPhases
  <2>2. FoldInv'
    <3>1. k' \in Nat \ {0} /\ k' <= n /\ k' <= n + 1 /\ k' # n + 1
      <4> HIDE DEF n
      <4> QED
        BY <1>1, <1>3, <1>4, <1>7
    <3>2. lsb' \in Nat /\ txIndex' \in Nat
      <4>1. \A z \in Nat : z \div 2 \in Nat
        OBVIOUS
      <4> QED
        BY <1>1, <1>4, <4>1
    <3>3. k' = k + 1 /\ Len(calls') = n /\ pc' = "fold"
      BY <1>1
    <3>4. /\ lsb' = calls'[k'].index
          /\ working' = merkles'[calls'[k'].start + calls'[k'].index]
      BY <1>1, <1>6, <2>1
    <3> HIDE DEF n
    <3> QED
      BY <3>1, <3>2, <3>3, <3>4 DEF FoldInv, PathPhases
  <2> QED
    BY <1>1, <1>2, <2>2 DEF IInv
<1>8. CASE k = n
  <2>1. calls # <<>> /\ Top = c
    BY <1>3, <1>4, <1>8 DEF Top
  <2>2. SliceLen(c) = 3
    BY <1>1, <2>1 DEF IInv, CallsInv, PathPhases
  <2>3. NextCall(c).index = 0 /\ NextCall(c).start = arraySize - 1
    BY <1>2, <1>5, <2>2, LevelUp
  <2>4. arraySize \in Nat
    BY PaddingFits DEF IInv
  <2>5. lsb' = 0 /\ working' = Root'
    BY <1>1, <1>2, <1>6, <2>3, <2>4 DEF Root
  <2>6. FoldInv'
    BY <1>1, <1>3, <1>4, <1>8, <2>5 DEF FoldInv, PathPhases
  <2> QED
    BY <1>1, <1>2, <2>6 DEF IInv
<1> QED
  BY <1>3, <1>4, <1>7, <1>8

\* The returns of CalculateRoot and MerkleRootFromBranches preserve the
\* invariant; the second never finds a bit of the index left over.
LEMMA ReturnIInv ==
    IInv /\ (CalculateRootReturn \/ MerkleRootFromBranchesReturn) => IInv'
<1> SUFFICES ASSUME IInv, CalculateRootReturn \/ MerkleRootFromBranchesReturn
             PROVE  IInv'
  OBVIOUS
<1>1. /\ pc = "fold" /\ k > Len(path)
      /\ pc' \in {"done", "rangeError"}
      /\ lsb = 0 => pc' = "done"
      /\ UNCHANGED <<txids, merkles, i, offset, txIndex, calls, path, caller,
                     working, lsb, k>>
  <2>1. CASE CalculateRootReturn
    BY <2>1 DEF CalculateRootReturn
  <2>2. CASE MerkleRootFromBranchesReturn
    BY <2>2 DEF MerkleRootFromBranchesReturn, BitsLeft
  <2> QED
    BY <2>1, <2>2
<1>2. /\ arraySize' = arraySize
      /\ LoopInv' /\ TreeInv' /\ EmptyCellsLast' /\ PassedAreWellFormed'
      /\ CallsInv' /\ PathInv'
  BY <1>1, PathUntouched
<1>3. Len(calls) \in Nat /\ Len(path) = Len(calls)
  BY <1>1 DEF IInv, CallsInv, PathInv
<1>4. k = Len(calls) + 1 /\ lsb = 0
  BY <1>1, <1>3 DEF IInv, FoldInv, PathPhases
<1>5. FoldInv'
  BY <1>1, <1>2, <1>4 DEF IInv, FoldInv, PathPhases, Root
<1> QED
  BY <1>1, <1>2, <1>4, <1>5 DEF IInv, PathPhases

-----------------------------------------------------------------------------

\* The invariant is inductive.
THEOREM Invariance == Spec => []IInv
<1>1. IInv /\ [Next]_vars => IInv'
  <2> SUFFICES ASSUME IInv, [Next]_vars PROVE IInv'
    OBVIOUS
  <2>1. CASE UNCHANGED vars
    <3>1. nextPoT' = nextPoT /\ arraySize' = arraySize
      BY <2>1 DEF vars, nextPoT, arraySize
    <3>2. LoopInv' /\ TreeInv' /\ EmptyCellsLast' /\ PassedAreWellFormed'
      BY <2>1, <3>1 DEF vars, IInv, LoopInv, TreeInv, EmptyCellsLast,
                        PassedAreWellFormed, LevelStart
    <3>3. CallsInv'
      BY <2>1, <3>1 DEF vars, IInv, CallsInv, OnLevel, LevelStart, NextCall,
                        SliceLen, Top
    <3>4. PathInv'
      BY <2>1 DEF vars, IInv, PathInv, PathElement, Neighbour
    <3>5. FoldInv'
      BY <2>1, <3>1 DEF vars, IInv, FoldInv, Root
    <3> QED
      BY <2>1, <3>2, <3>3, <3>4, <3>5 DEF vars, IInv
  <2> QED
    BY <2>1, BuildStepIInv, BuildReturnIInv, GetTxMerklePathIInv,
       GetPathElementsIInv, FoldIInv, ReturnIInv DEF Next
<1> QED
  BY <1>1, InitIInv, PTL DEF Spec

\* Types are respected, and no indexing expression of the tree builder or of
\* getPathElements ever leaves its array.
THEOREM TypeCorrectness == Spec => []TypeOK
<1>1. IInv => TypeOK
  <2> SUFFICES ASSUME IInv PROVE TypeOK
    OBVIOUS
  <2>1. /\ nextPoT \in Nat \ {0} /\ arraySize = 2 * nextPoT - 1
    BY PaddingFits DEF IInv
  <2>2. i \in Nat /\ i % 2 = 0 /\ offset = nextPoT + i \div 2 /\ offset \in Nat
    BY <2>1 DEF IInv, LoopInv
  <2>3. pc = "build" /\ i < arraySize - 1 =>
           i + 1 < offset /\ offset <= arraySize - 1
    BY <2>1, <2>2
  <2>4. ASSUME pc = "path"
        PROVE  /\ Len(calls) > 0
               /\ Top.start + Top.index + 1 - (Top.index % 2) <= arraySize - 1
               /\ SliceLen(Top) >= 3
    <3>1. calls \in Seq([index : Nat, start : Nat]) /\ calls # <<>>
      BY <2>4 DEF IInv, CallsInv
    <3>2. Len(calls) \in Nat \ {0}
      BY <3>1
    <3>3. Top \in [index : Nat, start : Nat] /\ OnLevel(Top)
      <4>1. pc \in PathPhases /\ Len(calls) \in 1..Len(calls)
        BY <2>4, <3>2 DEF PathPhases
      <4> QED
        BY <4>1, CallFacts DEF Top
    <3>4. i = arraySize - 1
      BY <2>4, TreeIsBuilt DEF PathPhases
    <3>5. /\ Top.start + Top.index + 1 - (Top.index % 2) <= arraySize - 1
          /\ SliceLen(Top) >= 3
      <4> DEFINE c == Top
      <4>1. c \in [index : Nat, start : Nat] /\ OnLevel(c)
        BY <3>3
      <4> HIDE DEF c
      <4>2. /\ c.start + c.index + 1 - (c.index % 2) <= arraySize - 1
            /\ SliceLen(c) >= 3
        BY <3>4, <4>1, LevelUp
      <4> QED
        BY <4>2 DEF c
    <3> QED
      BY <3>2, <3>5
  <2> QED
    BY <2>2, <2>3, <2>4
       DEF TypeOK, IInv, TreeInv, CallsInv, PathInv, FoldInv
<1> QED
  BY <1>1, Invariance, PTL

\* For every block and every position in it, folding the extracted path gives
\* the root of the tree the path was extracted from.
THEOREM PathSoundness == Spec => []PathLeadsToRoot
<1>1. IInv => PathLeadsToRoot
  BY DEF IInv, CallsInv, FoldInv, PathLeadsToRoot, PathPhases
<1> QED
  BY <1>1, Invariance, PTL

\* MerkleRootFromBranches never rejects a path extracted from a tree.
THEOREM PathCompleteness == Spec => []PathCoversIndex
<1>1. IInv => PathCoversIndex
  BY DEF IInv, CallsInv, FoldInv, PathCoversIndex, PathPhases
<1> QED
  BY <1>1, Invariance, PTL

\* The tree builder fails exactly on the blocks with a malformed id.
THEOREM ErrorsAreJustified == Spec => []ErrorIffMalformed
<1>1. IInv => ErrorIffMalformed
  <2> SUFFICES ASSUME IInv PROVE ErrorIffMalformed
    OBVIOUS
  <2>1. ASSUME pc \in {"built"} \cup PathPhases, Len(txids) # 1,
               NEW j \in 1..Len(txids)
        PROVE  txids[j] \notin BadHex
    <3>1. Len(txids) \in 1..nextPoT /\ nextPoT \in Nat /\ arraySize = 2 * nextPoT - 1
      BY PaddingFits DEF IInv
    <3>2. i = arraySize - 1 /\ pc # "error"
      BY <2>1 DEF IInv, LoopInv, PathPhases
    <3>3. j <= i
      <4> DEFINE n == Len(txids)
      <4>1. n # 1 /\ n \in 1..nextPoT /\ j \in 1..n
        BY <2>1, <3>1
      <4> HIDE DEF n
      <4>2. nextPoT >= 2 /\ j <= nextPoT
        BY <3>1, <4>1
      <4> QED
        BY <3>1, <3>2, <4>2
    <3> QED
      BY <3>2, <3>3 DEF IInv, PassedAreWellFormed
  <2> QED
    BY <2>1 DEF IInv, PassedAreWellFormed, ErrorIffMalformed
<1> QED
  BY <1>1, Invariance, PTL

-----------------------------------------------------------------------------
(* The padded array and the tree of the list *)

\* Above(nextPoT)[h] cells are set aside for level h, and hold its nodes and
\* then nothing.
HoldsLevel(h) ==
    \A y \in 0..(Above(nextPoT)[h] - 1) :
        merkles[LevelStart(Above(nextPoT)[h]) + y] = PaddedCell(txids, h, y)

LEMMA PaddingIsShort ==
    ASSUME IInv
    PROVE  /\ IsList(txids) /\ nextPoT \in PowersOfTwo
           /\ Len(txids) <= nextPoT /\ nextPoT < 2 * Len(txids)
<1>1. Len(txids) \in 1..MaxTxs
  BY BlocksAssumption DEF IInv
<1> QED
  BY <1>1, MaxTxsAssumption, PaddingValues DEF nextPoT, IsList

LEMMA LeavesAreHeld ==
    ASSUME IInv
    PROVE  HoldsLevel(0)
<1>1. nextPoT \in Nat \ {0} /\ IsList(txids)
  BY PaddingFits, PaddingIsShort DEF IInv
<1>2. Above(nextPoT)[0] = nextPoT /\ Width(txids, 0) = Len(txids)
  BY <1>1, AboveValues, WidthValues
<1>3. ASSUME NEW y \in 0..(nextPoT - 1)
      PROVE  merkles[LevelStart(nextPoT) + y] = PaddedCell(txids, 0, y)
  <2>1. LevelStart(nextPoT) + y = y
    BY <1>1 DEF LevelStart
  <2>2. merkles[y] = IF y < Len(txids) THEN TxID(txids[y + 1]) ELSE Nil
    BY DEF IInv, TreeInv
  <2>3. y < Len(txids) => Node(txids, 0, y) = TxID(txids[y + 1])
    BY <1>1, NodeLeaf
  <2> QED
    BY <1>2, <2>1, <2>2, <2>3 DEF PaddedCell
<1> QED
  BY <1>2, <1>3 DEF HoldsLevel

LEMMA NextLevelIsHeld ==
    ASSUME IInv, offset = arraySize, NEW h \in Nat, h + 1 <= Height(txids),
           HoldsLevel(h)
    PROVE  HoldsLevel(h + 1)
<1> DEFINE m == Above(nextPoT)[h]
           u == Above(nextPoT)[h + 1]
<1>1. nextPoT \in Nat \ {0} /\ arraySize = 2 * nextPoT - 1 /\ IsList(txids)
  BY PaddingFits, PaddingIsShort DEF IInv
<1>2. u = m \div 2 /\ m \in Nat /\ u \in Nat
  BY <1>1, AboveValues
<1>3. /\ m \in PowersOfTwo /\ m \in 1..nextPoT
      /\ u \in PowersOfTwo /\ u \in 1..nextPoT
  <2>1. Height(txids) \in Nat
    BY <1>1, HeightExists DEF IsList
  <2>2. h \in 0..Height(txids) /\ h + 1 \in 0..Height(txids)
    BY <2>1
  <2> HIDE DEF m, u
  <2> QED
    BY <1>1, <2>2, PaddingIsShort, PaddedWidths DEF m, u
<1>4. \A y \in 0..(m - 1) : merkles[LevelStart(m) + y] = PaddedCell(txids, h, y)
  BY DEF HoldsLevel
<1> HIDE DEF m, u
<1>5. m = 2 * u /\ u \in Nat \ {0}
  <2>1. m = 1 \/ m % 2 = 0
    BY <1>3, PowersAssumption
  <2> QED
    BY <1>1, <1>2, <1>3, <2>1
<1>6. ASSUME NEW y \in 0..(u - 1)
      PROVE  merkles[LevelStart(u) + y] = PaddedCell(txids, h + 1, y)
  <2> DEFINE j == LevelStart(u) + y
             l == LevelStart(m) + 2 * y
             r == LevelStart(m) + (2 * y + 1)
  <2>1. /\ j \in nextPoT..(offset - 1)
        /\ 2 * (j - nextPoT) = l /\ 2 * (j - nextPoT) + 1 = r
        /\ 2 * y \in 0..(m - 1) /\ 2 * y + 1 \in 0..(m - 1) /\ y \in Nat
    BY <1>1, <1>3, <1>5 DEF LevelStart
  <2>2. merkles[l] = PaddedCell(txids, h, 2 * y)
        /\ merkles[r] = PaddedCell(txids, h, 2 * y + 1)
    BY <1>4, <2>1
  <2> HIDE DEF j, l, r
  <2>3. merkles[j] = ParentCell(merkles[2 * (j - nextPoT)],
                                merkles[2 * (j - nextPoT) + 1])
    BY <2>1 DEF IInv, TreeInv
  <2>4. merkles[j] = ParentCell(PaddedCell(txids, h, 2 * y),
                                PaddedCell(txids, h, 2 * y + 1))
    BY <2>1, <2>2, <2>3
  <2>5. PaddedCell(txids, h + 1, y) = merkles[j]
    BY <1>1, <2>1, <2>4, PaddedParent
  <2> QED
    BY <2>5 DEF j
<1> QED
  BY <1>6 DEF HoldsLevel, u

\* Every level up to the root's is held.
LEMMA LevelsAreHeld ==
    ASSUME IInv, offset = arraySize
    PROVE  \A h \in 0..Height(txids) : HoldsLevel(h)
<1>1. Height(txids) \in Nat
  BY PaddingIsShort, HeightExists DEF IsList
<1> DEFINE S == {h \in Nat : h <= Height(txids) => HoldsLevel(h)}
<1>2. 0 \in S
  BY LeavesAreHeld
<1>3. ASSUME NEW h \in Nat, h \in S PROVE h + 1 \in S
  BY <1>1, <1>3, NextLevelIsHeld
<1> HIDE DEF S
<1>4. \A h \in Nat : h \in S
  BY <1>2, <1>3, Induction
<1> QED
  BY <1>1, <1>4 DEF S

\* The root the padded array ends with is the Merkle root of the block's list,
\* whatever the number of transactions.
THEOREM RootSoundness == Spec => []RootIsMerkleRoot
<1>1. ASSUME IInv, pc \in {"built"} \cup PathPhases
      PROVE  Root = MerkleRoot(txids)
  <2>1. /\ nextPoT \in Nat \ {0} /\ arraySize = 2 * nextPoT - 1
        /\ i = arraySize - 1 /\ offset = nextPoT + i \div 2
    BY <1>1, PaddingFits DEF IInv, LoopInv
  <2>2. offset = arraySize
    BY <2>1
  <2>3. Height(txids) \in Nat /\ Width(txids, Height(txids)) = 1
    BY <1>1, PaddingIsShort, HeightExists DEF IsList
  <2>4. HoldsLevel(Height(txids))
    BY <1>1, <2>2, <2>3, LevelsAreHeld
  <2>5. Above(nextPoT)[Height(txids)] = 1
    BY <1>1, PaddingIsShort, PaddedHeight
  <2>6. merkles[LevelStart(1) + 0] = PaddedCell(txids, Height(txids), 0)
    BY <2>4, <2>5 DEF HoldsLevel
  <2>7. LevelStart(1) + 0 = arraySize - 1
    BY <2>1 DEF LevelStart
  <2> QED
    BY <2>3, <2>6, <2>7 DEF Root, MerkleRoot, PaddedCell
<1>2. IInv => RootIsMerkleRoot
  BY <1>1 DEF RootIsMerkleRoot
<1> QED
  BY <1>2, Invariance, PTL

=============================================================================

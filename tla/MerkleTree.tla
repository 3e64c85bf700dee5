----------------------------- MODULE MerkleTree -----------------------------
(***************************************************************************)
(* Building a block's Merkle tree in a linear array, extracting the path   *)
(* of one transaction from it, and recomputing the root from that path:    *)
(* BuildMerkleTreeStore, GetTxMerklePath, MerklePath.CalculateRoot and     *)
(* MerkleRootFromBranches.  One action is one pass of a loop, or one call  *)
(* of a recursive function.                                                *)
(***************************************************************************)
EXTENDS BlockTree

CONSTANTS Blocks,   \* the lists of transactions the tree is built from
          BadHex    \* the transactions whose id is not hexadecimal

ASSUME BlocksAssumption ==
    \A b \in Blocks : b \in Seq(Txs) /\ Len(b) \in 1..MaxTxs

VARIABLES
    pc,        \* the function running
    txids,     \* the block
    merkles,   \* the array, indexed from 0
    i,         \* left child of the next parent
    offset,    \* cell of the next parent
    txIndex,   \* position of the transaction the path is for
    calls,     \* the calls getPathElements made of itself, with their arguments
    path,      \* the path so far
    caller,    \* which of the two functions folds the path
    working,   \* the hash folded so far
    lsb,       \* what is left of the index
    k          \* position of the next path element to fold

vars == <<pc, txids, merkles, i, offset, txIndex, calls, path, caller,
          working, lsb, k>>

Callers == {"CalculateRoot", "MerkleRootFromBranches"}

nextPoT   == nextPowerOfTwo(Len(txids))
arraySize == nextPoT * 2 - 1

\* The array after copy(merkles, txids).
Leaves(b, size) ==
    [j \in 0..(size - 1) |-> IF j < Len(b) THEN TxID(b[j + 1]) ELSE Nil]

Init ==
    /\ pc = "build"
    /\ txids \in Blocks
    /\ merkles = Leaves(txids, arraySize)
    /\ i = 0
    /\ offset = nextPoT
    /\ txIndex = 0
    /\ calls = <<>>
    /\ path = <<>>
    /\ caller \in Callers
    /\ working = Nil
    /\ lsb = 0
    /\ k = 1

-----------------------------------------------------------------------------
(* BuildMerkleTreeStore *)

\* MerkleTreeParentStr fails on a child that is not hexadecimal.
IsBad(c) == \E t \in BadHex : c = TxID(t)
\* Mutant: only the left child is decoded.
MalformedLeft(l, r) == l # Nil /\ IsBad(l)
Malformed(l, r) == l # Nil /\ (IsBad(l) \/ IsBad(r))

BuildStep ==
    /\ pc = "build"
    /\ i < arraySize - 1
    /\ IF Malformed(merkles[i], merkles[i + 1])
         THEN /\ pc' = "error"
              /\ UNCHANGED <<merkles, i, offset>>
         ELSE /\ merkles' = [merkles EXCEPT ![offset] =
                                ParentCell(merkles[i], merkles[i + 1])]
              /\ offset' = offset + 1
              /\ i' = i + 2
              /\ UNCHANGED pc
    /\ UNCHANGED <<txids, txIndex, calls, path, caller, working, lsb, k>>

BuildReturn ==
    /\ pc = "build"
    /\ i >= arraySize - 1
    /\ pc' = "built"
    /\ UNCHANGED <<txids, merkles, i, offset, txIndex, calls, path, caller,
                   working, lsb, k>>

-----------------------------------------------------------------------------
(* GetTxMerklePath and getPathElements *)

\* The caller asks for the path of one of the block's transactions.
GetTxMerklePath ==
    /\ pc = "built"
    /\ \E x \in 0..(Len(txids) - 1) :
          /\ txids[x + 1] \notin BadHex
          /\ txIndex' = x
          /\ calls' = IF arraySize # 1 THEN <<[index |-> x, start |-> 0]>>
                                       ELSE <<>>
          /\ lsb' = x
          /\ working' = TxID(txids[x + 1])
    /\ pc' = IF arraySize # 1 THEN "path" ELSE "fold"
    /\ UNCHANGED <<txids, merkles, i, offset, path, caller, k>>

\* The call running, and the length of the slice merkles[start:] it is given.
Top == calls[Len(calls)]
SliceLen(c) == arraySize - c.start

\* The neighbour of a node, or the node itself where there is none.
Neighbour(c) ==
    LET x == IF c.index % 2 = 0 THEN c.index + 1 ELSE c.index - 1
    IN  merkles[c.start + x]

\* Mutant: the neighbour is taken even where it is empty.
PathElementRaw(c) == Neighbour(c)

PathElement(c) ==
    IF Neighbour(c) = Nil THEN merkles[c.start + c.index] ELSE Neighbour(c)

\* Mutant: half the slice is skipped, rounded down.
NextCallShort(c) ==
    [index |-> c.index \div 2, start |-> c.start + SliceLen(c) \div 2]

\* The arguments of the recursive call, one level up the tree.
NextCall(c) ==
    [index |-> c.index \div 2, start |-> c.start + (SliceLen(c) + 1) \div 2]

getPathElements ==
    /\ pc = "path"
    /\ path' = Append(path, PathElement(Top))
    /\ IF SliceLen(Top) = 3
         THEN pc' = "fold" /\ UNCHANGED calls
         ELSE calls' = Append(calls, NextCall(Top)) /\ UNCHANGED pc
    /\ UNCHANGED <<txids, merkles, i, offset, txIndex, caller, working, lsb, k>>

-----------------------------------------------------------------------------
(* MerklePath.CalculateRoot and MerkleRootFromBranches *)

Fold ==
    /\ pc = "fold"
    /\ k <= Len(path)
    /\ working' = IF lsb % 2 = 1 THEN MerkleTreeParent(path[k], working)
                                 ELSE MerkleTreeParent(working, path[k])
    /\ lsb' = lsb \div 2
    /\ k' = k + 1
    /\ UNCHANGED <<pc, txids, merkles, i, offset, txIndex, calls, path, caller>>

CalculateRootReturn ==
    /\ pc = "fold"
    /\ k > Len(path)
    /\ caller = "CalculateRoot"
    /\ pc' = "done"
    /\ UNCHANGED <<txids, merkles, i, offset, txIndex, calls, path, caller,
                   working, lsb, k>>

\* Mutant: zero counts as bits left over.
BitsLeftOrNone == lsb >= 0

\* An index with bits left over is out of range for the branches given.
BitsLeft == lsb > 0

MerkleRootFromBranchesReturn ==
    /\ pc = "fold"
    /\ k > Len(path)
    /\ caller = "MerkleRootFromBranches"
    /\ pc' = IF BitsLeft THEN "rangeError" ELSE "done"
    /\ UNCHANGED <<txids, merkles, i, offset, txIndex, calls, path, caller,
                   working, lsb, k>>

Next ==
    \/ BuildStep
    \/ BuildReturn
    \/ GetTxMerklePath
    \/ getPathElements
    \/ Fold
    \/ CalculateRootReturn
    \/ MerkleRootFromBranchesReturn

Spec == Init /\ [][Next]_vars

-----------------------------------------------------------------------------
(* Properties *)

\* The last cell of the array, which BuildMerkleRoot returns.
Root == merkles[arraySize - 1]

PathPhases == {"path", "fold", "done", "rangeError"}

\* Every variable has its type, and every cell the next step of a loop or of
\* a recursive call reads or writes lies inside the array: no indexing
\* expression of BuildMerkleTreeStore or getPathElements can panic.
TypeOK ==
    /\ pc \in {"build", "error", "built"} \cup PathPhases
    /\ txids \in Blocks
    /\ DOMAIN merkles = 0..(arraySize - 1)
    /\ i \in Nat /\ offset \in Nat /\ txIndex \in Nat
    /\ lsb \in Nat /\ k \in Nat \ {0}
    /\ calls \in Seq([index : Nat, start : Nat])
    /\ path \in Seq({path[j] : j \in 1..Len(path)})
    /\ caller \in Callers
    /\ pc = "build" /\ i < arraySize - 1 =>
          i + 1 < offset /\ offset <= arraySize - 1
    /\ pc = "path" =>
          /\ Len(calls) > 0
          /\ Top.start + Top.index + 1 - (Top.index % 2) <= arraySize - 1
          /\ SliceLen(Top) >= 3

\* The path GetTxMerklePath extracts leads CalculateRoot and
\* MerkleRootFromBranches from the transaction back to the root of the very
\* tree it was extracted from, whatever the number of transactions and the
\* position, duplicated nodes of odd levels included.
PathLeadsToRoot == pc \in {"done", "rangeError"} => working = Root

\* The path has exactly as many elements as the index has levels to climb:
\* MerkleRootFromBranches never reports an extracted path as out of range,
\* and the fold ends on the array's last cell rather than short of it.
PathCoversIndex == pc \in {"done", "rangeError"} => lsb = 0 /\ pc = "done"

\* The last cell of the padded array is the Merkle root of the list of
\* transactions: padding to a power of two with empty cells, and hashing a
\* node with itself where its neighbour is empty, computes what pairing the
\* levels of the unpadded list computes.
RootIsMerkleRoot ==
    pc \in {"built"} \cup PathPhases => Root = MerkleRoot(txids)

\* A malformed transaction id anywhere in a block of several transactions
\* makes BuildMerkleTreeStore return an error; it never disappears into a
\* root.  And the error is returned for no other reason.
ErrorIffMalformed ==
    /\ pc = "error" => \E j \in 1..Len(txids) : txids[j] \in BadHex
    /\ pc \in {"built"} \cup PathPhases =>
          \/ Len(txids) = 1
          \/ \A j \in 1..Len(txids) : txids[j] \notin BadHex

-----------------------------------------------------------------------------
(* The inductive invariant behind PathLeadsToRoot *)

\* The cell where the level of m nodes starts.
LevelStart(m) == 2 * nextPoT - 2 * m

\* How far the loop has come, and that it ran to the end before any path.
LoopInv ==
    /\ i \in Nat /\ i % 2 = 0 /\ i <= arraySize - 1
    /\ offset = nextPoT + i \div 2
    /\ pc \in {"built"} \cup PathPhases => i = arraySize - 1

\* The leaves are the block's ids, every filled inner cell is the parent of
\* the two cells below it.
TreeInv ==
    /\ DOMAIN merkles = 0..(arraySize - 1)
    /\ \A j \in 0..(nextPoT - 1) :
          merkles[j] = IF j < Len(txids) THEN TxID(txids[j + 1]) ELSE Nil
    /\ \A j \in nextPoT..(offset - 1) :
          merkles[j] = ParentCell(merkles[2 * (j - nextPoT)],
                                  merkles[2 * (j - nextPoT) + 1])

\* Within a level the empty cells come last.
EmptyCellsLast ==
    \A j \in 1..(offset - 1) :
        /\ merkles[j - 1] = Nil
        /\ \A m \in PowersOfTwo : j # LevelStart(m)
        => merkles[j] = Nil

\* No malformed id among the leaves the loop has passed.
PassedAreWellFormed ==
    /\ pc # "error" =>
          \A j \in 1..Len(txids) : j <= i => txids[j] \notin BadHex
    /\ pc = "error" => \E j \in 1..Len(txids) : txids[j] \in BadHex

\* Every call of getPathElements stands on a node of a level of the tree.
OnLevel(c) ==
    \E m \in PowersOfTwo :
        /\ m >= 2
        /\ m <= nextPoT
        /\ c.start = LevelStart(m)
        /\ c.index < m
        /\ merkles[c.start + c.index] # Nil

CallsInv ==
    /\ calls \in Seq([index : Nat, start : Nat])
    /\ pc \in PathPhases /\ calls # <<>> =>
          calls[1] = [index |-> txIndex, start |-> 0]
    /\ pc \in PathPhases /\ calls = <<>> => arraySize = 1
    /\ pc \in PathPhases => \A q \in 1..Len(calls) : OnLevel(calls[q])
    /\ pc \in PathPhases => \A q \in 1..(Len(calls) - 1) :
          /\ calls[q + 1] = NextCall(calls[q])
          /\ SliceLen(calls[q]) # 3
    /\ pc \in PathPhases \ {"path"} /\ calls # <<>> => SliceLen(Top) = 3
    /\ pc = "path" => calls # <<>>
    /\ pc \notin PathPhases => calls = <<>>

PathInv ==
    /\ path \in Seq({path[j] : j \in 1..Len(path)})
    /\ Len(path) = IF pc = "path" THEN Len(calls) - 1 ELSE Len(calls)
    /\ \A q \in 1..Len(path) : path[q] = PathElement(calls[q])

\* The fold stands on the node the k-th call stood on, or on the root.
FoldInv ==
    /\ k \in Nat \ {0} /\ lsb \in Nat /\ txIndex \in Nat
    /\ pc \notin PathPhases \ {"path"} => k = 1
    /\ pc \in PathPhases =>
          /\ k <= Len(calls) + 1
          /\ k <= Len(calls) =>
                /\ lsb = calls[k].index
                /\ working = merkles[calls[k].start + calls[k].index]
          /\ k = Len(calls) + 1 => lsb = 0 /\ working = Root
    /\ pc \in {"done", "rangeError"} => k = Len(calls) + 1
    /\ pc # "rangeError"

IInv ==
    /\ pc \in {"build", "error", "built"} \cup PathPhases
    /\ txids \in Blocks
    /\ caller \in Callers
    /\ LoopInv
    /\ TreeInv
    /\ EmptyCellsLast
    /\ PassedAreWellFormed
    /\ CallsInv
    /\ PathInv
    /\ FoldInv

=============================================================================

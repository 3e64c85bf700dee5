--------------------------------- MODULE Bump ---------------------------------
(***************************************************************************)
(* A BUMP from its making to its use: NewBUMPFromMerkleTreeAndIndex takes  *)
(* it from a block's Merkle tree, level by level; it is handed over as it  *)
(* is, as JSON, or as bytes; and CalculateRootGivenTxid folds it into the  *)
(* block's Merkle root.                                                    *)
(*                                                                         *)
(* A leaf is a record: its offset, its hash (Nil for a null pointer), and  *)
(* the flags txid and duplicate.                                           *)
(***************************************************************************)
EXTENDS BlockTree, Functions

CONSTANTS Blocks,    \* the lists of transactions
          Asked      \* the transactions a root is calculated for

ASSUME BumpAssumption ==
    /\ \A b \in Blocks : b \in Seq(Txs) /\ Len(b) \in 1..MaxTxs
    /\ Asked \subseteq Txs

VARIABLES
    block,
    txIndex,     \* position of the transaction the BUMP is made for
    pc,
    height,      \* the level the loop is at
    oddTxIndex,
    path,        \* bump.Path
    via,         \* how the BUMP was handed over
    txid,        \* the transaction its root is calculated for
    index,       \* the offset of that transaction
    workingHash

vars == <<block, txIndex, pc, height, oddTxIndex, path, via, txid, index,
          workingHash>>

making == <<block, txIndex, oddTxIndex>>

\* The array BuildMerkleTreeStoreChainHash makes of a block, from index 0.
merkleTree ==
    LET width == nextPowerOfTwo(Len(block))
        cell[j \in 0..(2 * width - 2)] ==
          IF j < width
            THEN IF j < Len(block) THEN TxID(block[j + 1]) ELSE Nil
            ELSE ParentCell(cell[2 * (j - width)], cell[2 * (j - width) + 1])
    IN  cell

numOfTxids == nextPowerOfTwo(Len(block))

\* int(math.Log2(numOfTxids)): how often numOfTxids is halved on its way to 1.
treeHeight == CHOOSE h \in 0..numOfTxids : Above(numOfTxids)[h] = 1

Init ==
    /\ block \in Blocks
    /\ txIndex \in 0..(Len(block) - 1)
    /\ pc = "new"
    /\ height = 0
    /\ oddTxIndex = FALSE
    /\ path = <<>>
    /\ via = "none"
    /\ txid \in Asked
    /\ index = 0
    /\ workingHash = Nil

-----------------------------------------------------------------------------
(* NewBUMPFromMerkleTreeAndIndex *)

Leaf(o, h, isTxid) ==
    [offset |-> o, hash |-> h, txid |-> isTxid, duplicate |-> h = Nil]

\* Mutant: positions count from 1.
txidLeafFromOne == Leaf(txIndex + 1, merkleTree[txIndex], TRUE)
txidLeaf        == Leaf(txIndex, merkleTree[txIndex], TRUE)

\* A tree of one cell has no path.
New ==
    /\ pc = "new"
    /\ IF Len(block) = 1
         THEN path' = << <<txidLeaf>> >> /\ pc' = "built"
         ELSE pc' = "levels" /\ UNCHANGED path
    /\ UNCHANGED <<making, height, via, txid, index, workingHash>>

\* The first cell of a level: numOfHashes, halved at each level, is the number
\* of cells to the next one.
numOfHashes(h) == Above(numOfTxids)[h]
levelOffset(h) == 2 * (numOfTxids - numOfHashes(h))

\* The other node of a pair.
PairedTo(offset) == IF offset % 2 = 0 THEN offset + 1 ELSE offset - 1

AddLevel ==
    /\ pc = "levels"
    /\ height < treeHeight
    /\ LET offset == Above(txIndex)[height] IN
       /\ path' = Append(path, <<Leaf(PairedTo(offset),
                                      merkleTree[levelOffset(height) + PairedTo(offset)],
                                      FALSE)>>)
       /\ oddTxIndex' = (oddTxIndex \/ offset % 2 = 1)
    /\ height' = height + 1
    /\ UNCHANGED <<block, txIndex, pc, via, txid, index, workingHash>>

\* The transaction joins the lowest level, behind its neighbour if any node on
\* its way to the root is a right one.
AddTxid ==
    /\ pc = "levels"
    /\ height = treeHeight
    /\ path' = [path EXCEPT ![1] = IF oddTxIndex THEN Append(@, txidLeaf)
                                                 ELSE <<txidLeaf>> \o @]
    /\ pc' = "built"
    /\ height' = 0
    /\ UNCHANGED <<making, via, txid, index, workingHash>>

-----------------------------------------------------------------------------
(* Bytes and NewBUMPFromBytes, or JSON and NewBUMPFromJSON *)

\* A leaf keeps its hash unless it is a duplicate; every level is sorted.
\* Mutant: the levels are taken as they come.
Unsorted(level) == level
Received(level) ==
    CHOOSE s \in [DOMAIN level -> Range(level)] :
        /\ Range(s) = Range(level)
        /\ \A i, j \in DOMAIN s : i < j => s[i].offset < s[j].offset

HandOver ==
    /\ pc = "built"
    /\ \/ via' = "bytes" /\ path' = [h \in DOMAIN path |-> Received(path[h])]
       \/ via' \in {"json", "itself"} /\ UNCHANGED path
    /\ pc' = "find"
    /\ UNCHANGED <<making, height, txid, index, workingHash>>

-----------------------------------------------------------------------------
(* CalculateRootGivenTxid *)

\* The lowest level is searched for the txid; the hash of every leaf before
\* it is dereferenced, and so are all of them if it is not there.
Matches == {j \in DOMAIN path[1] : path[1][j].hash = TxID(txid)}
Found   == CHOOSE j \in Matches : \A m \in Matches : j <= m
Looked  == IF Matches = {} THEN DOMAIN path[1] ELSE 1..Found

Find ==
    /\ pc = "find"
    /\ IF Len(path) = 1 /\ Len(path[1]) = 1
         THEN /\ pc' = "done" /\ workingHash' = TxID(txid)
              /\ UNCHANGED index
       ELSE IF \E j \in Looked : path[1][j].hash = Nil
         THEN pc' = "panic" /\ UNCHANGED <<index, workingHash>>
       ELSE IF Matches = {}
         THEN pc' = "notFound" /\ UNCHANGED <<index, workingHash>>
         ELSE /\ pc' = "fold" /\ workingHash' = TxID(txid)
              /\ index' = path[1][Found].offset
    /\ UNCHANGED <<making, height, path, via, txid>>

\* The leaf of this level whose offset differs in the last bit.
Offset   == PairedTo(Above(index)[height])
AtOffset == {j \in DOMAIN path[height + 1] : path[height + 1][j].offset = Offset}

\* Mutant: every leaf is hashed on the right.
AlwaysRight(leaf) == TRUE
OnTheRight(leaf)  == leaf.offset % 2 # 0

Digest(leaf) ==
    IF leaf.duplicate THEN MerkleTreeParent(workingHash, workingHash)
    ELSE IF OnTheRight(leaf) THEN MerkleTreeParent(workingHash, leaf.hash)
    ELSE MerkleTreeParent(leaf.hash, workingHash)

FoldLevel ==
    /\ pc = "fold"
    /\ height < Len(path)
    /\ IF AtOffset = {}
         THEN pc' = "noHash" /\ UNCHANGED <<workingHash, height>>
         ELSE /\ workingHash' =
                   Digest(path[height + 1][CHOOSE j \in AtOffset :
                                             \A m \in AtOffset : j <= m])
              /\ height' = height + 1
              /\ UNCHANGED pc
    /\ UNCHANGED <<making, path, via, txid, index>>

Return ==
    /\ pc = "fold"
    /\ height = Len(path)
    /\ pc' = "done"
    /\ UNCHANGED <<making, height, path, via, txid, index, workingHash>>

Next == New \/ AddLevel \/ AddTxid \/ HandOver \/ Find \/ FoldLevel \/ Return

Spec == Init /\ [][Next]_vars

-----------------------------------------------------------------------------
(* Properties *)

Ended == pc \in {"done", "notFound", "noHash", "panic"}

\* Every variable has its type, and the loop that makes the path reads no
\* cell beyond the tree.
TypeOK ==
    /\ pc \in {"new", "levels", "built", "find", "fold"} \/ Ended
    /\ height \in 0..treeHeight /\ oddTxIndex \in BOOLEAN
    /\ index \in Nat
    /\ \A h \in DOMAIN path : \A j \in DOMAIN path[h] :
          path[h][j].offset < numOfHashes(h - 1)

\* The transactions whose root the BUMP is good for: the one it was made for
\* and its neighbour.
GoodFor == {block[j + 1] : j \in {m \in 0..(Len(block) - 1) :
                                    m \div 2 = txIndex \div 2}}

\* The BUMP is for the last transaction of a block, and it has no neighbour: the
\* lowest level has a leaf without a hash.
LoneLast == Len(block) > 1 /\ txIndex % 2 = 0 /\ txIndex = Len(block) - 1

\* Both the transaction a BUMP was made for and its neighbour, though only
\* the first is flagged, lead to the block's Merkle root; no other id of the
\* block leads to any root, nor is a level without a hash ever met.  That
\* transaction and that neighbour are found but in one case: in the BUMP of a
\* last transaction without a neighbour, a leaf without a hash may be
\* dereferenced on the way to it (SortedIsSafe says when it is not).  In a block
\* of one transaction there is nothing to fold and nothing to find: whatever id
\* is asked for is answered as the root.
RootOrNotFound ==
    /\ pc = "done" =>
          IF Len(block) = 1
            THEN workingHash = TxID(txid)
            ELSE txid \in GoodFor /\ workingHash = MerkleRoot(block)
    /\ pc = "notFound" => txid \notin GoodFor
    /\ pc = "panic" => LoneLast
    /\ pc # "noHash"

\* A BUMP that went through bytes, whose levels are sorted again, is never
\* dereferenced at a leaf without a hash in the search for one of the
\* transactions it is good for.
SortedIsSafe == pc = "panic" /\ via = "bytes" => txid \notin GoodFor

=============================================================================

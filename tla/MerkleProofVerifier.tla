------------------------- MODULE MerkleProofVerifier -------------------------
(***************************************************************************)
(* VerifyMerkleProof, VerifyMerkleProofJSON and the verifyProof loop they  *)
(* share: one TSC Merkle proof, in binary or in JSON, is parsed, its target *)
(* is resolved to a Merkle root, and its nodes are folded into that root.  *)
(*                                                                         *)
(* A proof is a record: form (binary or json), txOrID (what the field      *)
(* holds: a txid, a tx, or something malformed), txid (the id it gives,    *)
(* which no code asks to be that of a transaction), targetType, target,    *)
(* proofType and composite (TRUE when they ask for what is unsupported),   *)
(* index, nodes, and reads: how many of the parser's reads the bytes of a  *)
(* binary proof are long enough for.  Hashes in JSON are in lower case, as *)
(* all of the library writes them.                                         *)
(***************************************************************************)
EXTENDS BlockTree

CONSTANTS TxsOf,         \* the transactions of each block, by its hash
          LongestChain,  \* the blocks the header chain finds
          Requests,      \* the proofs the verifier is asked about
          WordBits       \* width of the word 1 << nodeCount is computed in

\* A header has the root of its block's transactions; no block has as many
\* transactions as an index can count.
HashMerkleRoot == [b \in DOMAIN TxsOf |-> MerkleRoot(TxsOf[b])]
HeightOf       == [b \in DOMAIN TxsOf |-> Height(TxsOf[b])]

ASSUME ChainAssumption ==
    /\ LongestChain \subseteq DOMAIN TxsOf
    /\ WordBits \in Nat
    /\ \A b \in DOMAIN TxsOf : IsBlock(TxsOf[b]) /\ Height(TxsOf[b]) < WordBits

ASSUME RequestsAssumption ==
    \A r \in Requests :
        /\ r.form \in {"binary", "json"}
        /\ r.proofType \in BOOLEAN /\ r.composite \in BOOLEAN
        /\ r.index \in Nat /\ r.index < TwoTo[WordBits]
        /\ Len(r.nodes) \in Nat /\ r.reads \in Nat

\* A node "*": the hash is repeated; and a node of an unknown type in a binary
\* proof, or a node or an id that is not hexadecimal in JSON.
Star    == <<0, 0, 0>>
BadNode == <<0, 0, 0, 0>>

VARIABLES
    req,           \* the proof
    pc,            \* the step of the function
    merkleRoot,    \* the root the target stands for
    c,             \* the hash folded so far
    index,         \* what is left of the index
    k,             \* the next node
    isLastInTree,
    err,           \* the error returned, or "none"
    valid          \* whether the proof is valid

vars == <<req, pc, merkleRoot, c, index, k, isLastInTree, err, valid>>

Init ==
    /\ req \in Requests
    /\ pc = "parse"
    /\ merkleRoot = Nil
    /\ c = Nil
    /\ index = req.index
    /\ k = 1
    /\ isLastInTree = TRUE
    /\ err = "none"
    /\ valid = FALSE

\* Mutant: an error is returned with a proof said to be valid.
FailValid(e) ==
    /\ err' = e
    /\ pc' = "returned"
    /\ isLastInTree' = FALSE
    /\ valid' = TRUE
    /\ UNCHANGED <<req, merkleRoot, c, index, k>>

Fail(e) ==
    /\ err' = e
    /\ pc' = "returned"
    /\ isLastInTree' = FALSE
    /\ UNCHANGED <<req, merkleRoot, c, index, k, valid>>

Continue(step) ==
    /\ pc' = step
    /\ UNCHANGED <<req, err, valid, isLastInTree, index, k>>

-----------------------------------------------------------------------------

\* Mutant: one bit more than 1 << nodeCount.
ShiftedOneMore(n) == TwoTo[n + 1]

\* 1 << nodeCount in a word of WordBits bits.
ShiftedOne(n) == IF n >= WordBits THEN 0 ELSE TwoTo[n]

\* The reads of parseBinaryMerkleProof: the flags, the index and a length; the
\* txOrID; the target; the number of nodes; and each node.  A JSON proof is not
\* parsed here, and its index is not compared with the number of its nodes.
Reads == 4 + Len(req.nodes)
Whole(r) == r.form = "json" \/ r.reads >= 4 + Len(r.nodes)

\* What it refuses after its n-th read, and after the first n of them.
ErrorAt(n) ==
    IF req.form = "json" THEN "none"
    ELSE IF n = 1 /\ req.txOrID = "short" THEN "malformed"
    ELSE IF n = 2 /\ req.targetType = "other" THEN "flags"
    ELSE IF n = 4 /\ req.index >= ShiftedOne(Len(req.nodes)) THEN "invalidProof"
    ELSE IF n > 4 /\ req.nodes[n - 4] = BadNode THEN "malformed"
    ELSE "none"
ErrorsIn(n) ==
    {ErrorAt(m) : m \in {j \in 1..n : /\ ErrorAt(j) # "none"
                                      /\ \A i \in 1..(j - 1) : ErrorAt(i) = "none"}}

Parsed ==
    /\ ErrorsIn(Reads) = {}
    /\ Continue("txid")
    /\ UNCHANGED <<merkleRoot, c>>

Parse ==
    /\ pc = "parse"
    /\ Whole(req)
    /\ Parsed \/ \E e \in ErrorsIn(Reads) : Fail(e)

\* Bytes that end early: the next read panics, or, where their array has room to
\* spare, slices what happens to be there.  From the txOrID to the target one
\* slice follows another; after that an index expression panics, unless that
\* read was the last.
ReadsOn == IF req.reads < 3 THEN 3 ELSE req.reads + 1

Panic ==
    /\ pc' = "panicked"
    /\ UNCHANGED <<req, merkleRoot, c, index, k, isLastInTree, err, valid>>

ParseShort ==
    /\ pc = "parse"
    /\ ~ Whole(req)
    /\ \/ ErrorsIn(req.reads) = {} /\ Panic
       \/ \E e \in ErrorsIn(IF ErrorsIn(req.reads) = {} THEN ReadsOn ELSE req.reads) : Fail(e)
       \/ ReadsOn = Reads /\ Parsed

\* txidFromTxOrID: 64 characters are an id, whatever it is the id of; more have
\* to be a transaction, and its id is taken.  What parsing accepts of a binary
\* proof, validateTxOrID accepts too.
TxidFromTxOrID ==
    /\ pc = "txid"
    /\ IF req.txOrID \in {"short", "badTx"}
         THEN Fail("malformed")
         ELSE /\ c' = req.txid
              /\ Continue("target")
              /\ UNCHANGED merkleRoot

\* A target of the longest chain's blocks, a header or a root; no header is
\* looked up, and no proof of work checked, for the last two.
Target ==
    /\ pc = "target"
    /\ CASE req.targetType = "block" ->
              IF req.target \notin LongestChain
                THEN Fail("header")
                ELSE /\ merkleRoot' = HashMerkleRoot[req.target]
                     /\ Continue("flags")
                     /\ UNCHANGED c
         [] req.targetType \in {"header", "root"} ->
              /\ merkleRoot' = req.target
              /\ Continue("flags")
              /\ UNCHANGED c
         [] OTHER -> Fail("flags")

\* The JSON fields proofType and composite are checked; in a binary proof the
\* flags are masked to 8 and 16 and compared with 1, which neither can equal.
Unsupported ==
    IF req.form = "json"
      THEN req.proofType \/ req.composite
      ELSE \/ (IF req.proofType THEN 8 ELSE 0) = 1
           \/ (IF req.composite THEN 16 ELSE 0) = 1

Flags ==
    /\ pc = "flags"
    /\ IF Unsupported
         THEN Fail("flags")
         ELSE Continue("fold") /\ UNCHANGED <<merkleRoot, c>>

\* One node of verifyProof.
\* Mutant: odd positions are taken for left ones.
cIsRight == index % 2 = 1
cIsLeft  == index % 2 = 0
Sibling  == IF req.nodes[k] = Star THEN c ELSE req.nodes[k]

\* The last transaction is right all the way up, or paired with itself.
\* Mutant: compared before "*" is replaced.
LastUnlessStar == isLastInTree /\ (cIsLeft => c = req.nodes[k])
StillLast      == isLastInTree /\ (cIsLeft => c = Sibling)

\* MerkleTreeParentStr fails on what is not hexadecimal.
VerifyNode ==
    /\ pc = "fold"
    /\ k <= Len(req.nodes)
    /\ \/ /\ req.nodes[k] = Star /\ ~ cIsLeft
          /\ Fail("nodes")
       \/ /\ BadNode \in {req.nodes[k], c}
          /\ Fail("malformed")
       \/ /\ BadNode \notin {req.nodes[k], c}
          /\ req.nodes[k] # Star \/ cIsLeft
          /\ isLastInTree' = StillLast
          /\ c' = IF cIsLeft THEN MerkleTreeParent(c, Sibling)
                             ELSE MerkleTreeParent(Sibling, c)
          /\ index' = index \div 2
          /\ k' = k + 1
          /\ UNCHANGED <<req, pc, merkleRoot, err, valid>>

Return ==
    /\ pc = "fold"
    /\ k > Len(req.nodes)
    /\ valid' = (c = merkleRoot)
    /\ pc' = "returned"
    /\ UNCHANGED <<req, merkleRoot, c, index, k, isLastInTree, err>>

Next == Parse \/ ParseShort \/ TxidFromTxOrID \/ Target \/ Flags \/ VerifyNode \/ Return

Spec == Init /\ [][Next]_vars /\ WF_vars(Next)

-----------------------------------------------------------------------------
(* Properties *)

Returned == pc = "returned"
Accepted == Returned /\ err = "none" /\ valid

TypeOK ==
    /\ pc \in {"parse", "txid", "target", "flags", "fold", "returned",
              "panicked"}
    /\ index \in Nat /\ k \in 1..(Len(req.nodes) + 1)
    /\ isLastInTree \in BOOLEAN /\ valid \in BOOLEAN
    /\ err \in {"none", "malformed", "flags", "invalidProof", "header", "nodes"}
    /\ valid => err = "none"

-----------------------------------------------------------------------------
(* What the proofs are about *)

\* The blocks a proof can be about.
About(r) ==
    {b \in DOMAIN TxsOf :
        r.target = IF r.targetType = "block" THEN b ELSE HashMerkleRoot[b]}

\* The proofs; and those whose target is that of a block.
Claims == Requests
Anchored(r) == About(r) # {}

\* The level of a block's tree that the path of a proof begins at, and where on
\* it the id is; the proofs whose id is there, at an index that is its own if the
\* level has one; and those whose id is the last of the level.
Level(r, b) == HeightOf[b] - Len(r.nodes)
At(r, b) ==
    IF Level(r, b) < 0 THEN {}
    ELSE LET nodes == Levels(TxsOf[b])[Level(r, b)]
         IN  {y \in 0..(Len(nodes) - 1) : nodes[y + 1] = r.txid}
Holds(r) ==
    \A b \in About(r) : \E y \in At(r, b) :
        r.index < Width(TxsOf[b], Level(r, b)) => r.index = y
IsLast(r, b) == Level(r, b) >= 0 /\ Width(TxsOf[b], Level(r, b)) - 1 \in At(r, b)
Last(r)      == \A b \in About(r) : IsLast(r, b)

\* The nodes of the proof for position x of a block, "*" where the node is
\* repeated, and the proofs that are made of them.
HonestNodes(list, x) ==
    [l \in 1..Height(list) |->
      LET y == Above(x)[l - 1]
          z == IF y % 2 = 0 THEN y + 1 ELSE y - 1
      IN  IF z < Width(list, l - 1) THEN Node(list, l - 1, z) ELSE Star]
Belongs(r, b) ==
    /\ r.index < Len(TxsOf[b])
    /\ r.txid = TxID(TxsOf[b][r.index + 1])
    /\ r.nodes = HonestNodes(TxsOf[b], r.index)
Honest(r) ==
    /\ Whole(r)
    /\ r.txOrID \in {"txid", "tx"}
    /\ r.targetType \in {"block", "header", "root"}
    /\ r.targetType = "block" => r.target \in LongestChain
    /\ ~ r.proofType /\ ~ r.composite
    /\ \E b \in About(r) : Belongs(r, b)

\* What the caller is told.
Verdict ==
    IF pc = "panicked" THEN "panic"
    ELSE IF ~ Returned THEN "none"
    ELSE IF err # "none" THEN "error"
    ELSE IF ~ valid THEN "invalid"
    ELSE IF isLastInTree THEN "validLast" ELSE "valid"

Promise ==
    INSTANCE Inclusion WITH Proven <- Honest, claim <- req, answer <- Verdict

\* The verifier implements Inclusion: every call returns, or panics on bytes
\* that end early; no choice of nodes, repeated nodes, index and fields leads an
\* id that is not in the block's tree as many levels below the root as there
\* are nodes, or is at another place of that level, to the block's root; and the
\* proof an honest prover builds is accepted for every transaction of every
\* block, whatever the shape of the tree, and tells the last transaction from
\* the others.
ImplementsInclusion == Promise!Spec

\* isLastInTree is TRUE of an accepted proof exactly when the id is the last
\* node of the level its path begins at, also when the tree's levels are odd or
\* the proof is for one of the positions that node is repeated at.
LastMeansLast ==
    Accepted => \A b \in About(req) : isLastInTree <=> IsLast(req, b)

\* The path of an accepted proof is no longer than the tree is high.  If the id
\* is a transaction's, it begins at the leaves: no transaction passes for a node
\* further up, nor at an index of the leaves that is another's.  And a binary
\* proof's index fits its path, also where 1 << nodeCount overflows its word.
IndexFitsPath ==
    Accepted => \A b \in About(req) :
        /\ Level(req, b) >= 0
        /\ \A t \in Txs : req.txid = TxID(t) =>
              /\ Level(req, b) = 0
              /\ \E p \in 1..Len(TxsOf[b]) :
                    /\ TxsOf[b][p] = t
                    /\ req.index < Len(TxsOf[b]) => req.index + 1 = p
        /\ req.form = "binary" => req.index < TwoTo[Len(req.nodes)]

-----------------------------------------------------------------------------
(* The inductive invariant behind ImplementsInclusion *)

\* Whatever nodes were folded: when c is a node of a block's tree, the fold
\* has climbed to it from the id, which is a node as many levels below it as
\* nodes were folded; an index that agrees with the node is the id's, unless it
\* lies outside the id's level; and isLastInTree says whether the id is the last
\* of its level below the node.
SoundFrom(b, g, y) ==
    \E p \in 0..(Width(TxsOf[b], g) - 1) :
        /\ Node(TxsOf[b], g, p) = req.txid
        /\ Above(p)[k - 1] = y
        /\ index = y /\ req.index < Width(TxsOf[b], g) => req.index = p
        /\ isLastInTree <=> LastBelow(TxsOf[b], g, k - 1, y, p)
Sound ==
    \A b \in DOMAIN TxsOf : \A h \in 0..Len(TxsOf[b]) :
    \A y \in 0..(Width(TxsOf[b], h) - 1) :
        c = Node(TxsOf[b], h, y) => k - 1 <= h /\ SoundFrom(b, h - (k - 1), y)

\* An honest proof is on the way to the root.
OnTheWay ==
    Honest(req) =>
        /\ err = "none"
        /\ pc \in {"target", "flags", "fold", "returned"} =>
              \A b \in About(req) :
                 Belongs(req, b) => c = Node(TxsOf[b], k - 1, index)

\* What each step leaves for the next ones.
Judged   == Returned /\ err = "none"
Progress ==
    /\ ~ Returned => err = "none" /\ ~ valid
    /\ pc = "panicked" => ~ Whole(req)
    /\ pc \notin {"fold", "returned"} => k = 1 /\ isLastInTree
    /\ pc \notin {"parse", "panicked"} /\ err = "none" => ErrorsIn(Reads) = {}
    /\ pc \in {"flags", "fold"} \/ Judged =>
          \A b \in About(req) : merkleRoot = HashMerkleRoot[b]
    /\ Judged => k = Len(req.nodes) + 1 /\ valid = (c = merkleRoot)

IInv ==
    /\ TypeOK
    /\ req \in Requests
    /\ index = Above(req.index)[k - 1]
    /\ Progress
    /\ pc \in {"target", "flags", "fold"} \/ Judged => Sound
    /\ OnTheWay

=============================================================================

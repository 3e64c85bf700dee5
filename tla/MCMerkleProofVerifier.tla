------------------------ MODULE MCMerkleProofVerifier ------------------------
(***************************************************************************)
(* TLC instance of MerkleProofVerifier: blocks of one to five transactions *)
(* and proofs made of any of their hashes, at any index, together with the *)
(* proofs an honest prover would send.                                     *)
(***************************************************************************)
EXTENDS MerkleProofVerifier, FiniteSets, TLC

CONSTANT Sizes     \* the sizes of the blocks

MCTxs == 1..MaxTxs

BlockHash(n) == <<n, n, n, n, n>>
MCChain == {BlockHash(n) : n \in Sizes}
MCTxsOf == [b \in MCChain |-> [j \in 1..b[1] |-> j]]

\* Tables of what is used often: f @@ <<>> is f, computed once.
TreeHeight == [n \in Sizes |-> Height(MCTxsOf[BlockHash(n)])] @@ <<>>
RootOf     == [n \in Sizes |-> MerkleRoot(MCTxsOf[BlockHash(n)])] @@ <<>>
Hashes ==
    [n \in Sizes |-> UNION {{Node(MCTxsOf[BlockHash(n)], h, y) :
                               y \in 0..(Width(MCTxsOf[BlockHash(n)], h) - 1)} :
                            h \in 0..TreeHeight[n]}] @@ <<>>
MCHonestNodes ==
    [n \in Sizes |-> [x \in 0..(n - 1) |->
        SubSeq(HonestNodes(MCTxsOf[BlockHash(n)], x), 1, TreeHeight[n])] @@ <<>>] @@ <<>>

Proof(form, kind, id, ttype, target, ptype, comp, x, nodes) ==
    [form |-> form, txOrID |-> kind, txid |-> id, targetType |-> ttype,
     target |-> target, proofType |-> ptype, composite |-> comp,
     index |-> x, nodes |-> nodes, reads |-> 4 + Len(nodes)]

Plain(f, n, id, x, nodes) ==
    Proof(f, "txid", id, "block", BlockHash(n), FALSE, FALSE, x, nodes)

Forms == {"binary", "json"}

\* An id is any hash of the block's tree, or of a transaction outside it.
Ids(n) == Hashes[n] \cup {TxID(n + 1)}

HonestRequests ==
    UNION {{Plain(f, n, TxID(x + 1), x, MCHonestNodes[n][x]) :
              f \in Forms, x \in 0..(n - 1)} : n \in Sizes}
Paths(n) == {MCHonestNodes[n][y] : y \in 0..(n - 1)}

\* Any nodes, up to as many as the block's tree is high and one more for the
\* small ones, at any index they reach and the two after.
ForgedRequests ==
    UNION {UNION {
        {Plain(f, n, id, x, ns) :
            f \in Forms, id \in Ids(n), x \in 0..(2 ^ h + 1),
            ns \in [1..h -> Hashes[n] \cup {Star}]} :
        h \in 0..(TreeHeight[n] + (IF n < 3 THEN 1 ELSE 0))} :
        n \in Sizes \cap 1..3}

\* For the largest block, honest proofs with one node and the index changed, for
\* every transaction and one that is in no block.
Large == CHOOSE n \in Sizes : n > 3
TamperedNodes(n) ==
    {[ns EXCEPT ![l] = m] : ns \in Paths(n), l \in 1..TreeHeight[n],
                            m \in Hashes[n] \cup {Star, BadNode}}

TamperedRequests ==
    {Plain(f, Large, TxID(t), x, ns) :
        f \in Forms, t \in 1..(Large + 1),
        x \in 0..Large \cup {2 ^ TreeHeight[Large] - 1, 2 ^ TreeHeight[Large] + Large - 1},
        ns \in TamperedNodes(Large)}

\* The upper parts of their paths, for every hash of the tree and for what is
\* no hash; and the paths with one or two nodes more, as many as overflow the
\* word of 1 << nodeCount.
PartRequests ==
    {Plain(f, Large, id, x, SubSeq(ns, l, Len(ns))) :
        f \in Forms, id \in Ids(Large) \cup {BadNode}, x \in 0..(Large - 1),
        ns \in Paths(Large), l \in 1..(TreeHeight[Large] + 1)}
LongRequests ==
    {Plain(f, Large, TxID(t), x, ns \o more) :
        f \in Forms, t \in 1..(Large + 1), x \in {0, Large - 1, 2 ^ WordBits - 1},
        ns \in Paths(Large),
        more \in UNION {[1..l -> {Star, RootOf[Large]}] : l \in 1..2}}

\* The other fields, each with every value, on an honest proof; among the
\* targets a block the chain does not find and the root of a list that is no
\* block's.
FieldRequests ==
    UNION {{Proof(f, kind, TxID(1), tt[1], tt[2], ptype, comp, 0, ns) :
              f \in Forms, ns \in {MCHonestNodes[n][0]},
              kind \in {"txid", "tx", "badTx", "short"},
              tt \in {<<"block", BlockHash(n)>>, <<"block", BlockHash(0)>>,
                      <<"root", RootOf[n]>>, <<"header", RootOf[n]>>,
                      <<"root", MerkleRoot(<<1, 3>>)>>, <<"other", Nil>>},
              ptype \in BOOLEAN, comp \in BOOLEAN} : n \in Sizes}

\* An honest proof for that list.
StrangeRequests ==
    {Proof(f, "txid", TxID(1), "root", MerkleRoot(<<1, 3>>), FALSE, FALSE, 0,
           <<TxID(3)>>) : f \in Forms}

\* Binary proofs that end after any read: honest ones, those with other fields,
\* and those with a node of an unknown type.
ShortRequests ==
    UNION {{[r EXCEPT !.reads = l] : l \in 0..(3 + Len(r.nodes))} :
             r \in {q \in HonestRequests \cup FieldRequests : q.form = "binary"}
                     \cup {Plain("binary", n, TxID(1), 0, [MCHonestNodes[n][0] EXCEPT ![1] = BadNode]) :
                             n \in Sizes \ {1}}}

MCRequests ==
    TamperedRequests \cup ForgedRequests \cup ShortRequests \cup PartRequests
      \cup LongRequests \cup FieldRequests \cup HonestRequests \cup StrangeRequests

=============================================================================

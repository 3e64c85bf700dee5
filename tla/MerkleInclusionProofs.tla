------------------------ MODULE MerkleInclusionProofs ------------------------
(***************************************************************************)
(* Theorems about MerkleProofVerifier, for blocks of any size and proofs   *)
(* of any nodes, of any id, at any index: an accepted proof tells the      *)
(* truth about the block it is for, and the verifier implements the safety *)
(* of Inclusion.                                                           *)
(***************************************************************************)
EXTENDS MerkleProofVerifier, BlockTreeProofs

LEMMA TypesOfRequests ==
    ASSUME req \in Requests
    PROVE  /\ req.form \in {"binary", "json"}
           /\ req.proofType \in BOOLEAN /\ req.composite \in BOOLEAN
           /\ req.index \in Nat
           /\ Len(req.nodes) \in Nat /\ req.reads \in Nat
BY RequestsAssumption

LEMMA Blocks ==
    ASSUME NEW b \in DOMAIN TxsOf
    PROVE  /\ IsBlock(TxsOf[b]) /\ IsList(TxsOf[b])
           /\ Len(TxsOf[b]) \in Nat \ {0}
           /\ Height(TxsOf[b]) \in 0..Len(TxsOf[b]) /\ HeightOf[b] = Height(TxsOf[b])
           /\ Width(TxsOf[b], Height(TxsOf[b])) = 1
           /\ HashMerkleRoot[b] = Node(TxsOf[b], Height(TxsOf[b]), 0)
<1>1. IsBlock(TxsOf[b]) /\ IsList(TxsOf[b])
  BY ChainAssumption DEF IsBlock
<1>2. HashMerkleRoot[b] = Node(TxsOf[b], Height(TxsOf[b]), 0)
  BY DEF HashMerkleRoot, MerkleRoot
<1>3. HeightOf[b] = Height(TxsOf[b])
  BY DEF HeightOf
<1> QED
  BY <1>1, <1>2, <1>3, HeightExists DEF IsList

\* A node is an id or the hash of two nodes: none is "*" or malformed.
LEMMA NodesAreHashes ==
    ASSUME NEW b \in DOMAIN TxsOf, NEW h \in Nat, NEW y \in 0..(Width(TxsOf[b], h) - 1)
    PROVE  Node(TxsOf[b], h, y) # Star /\ Node(TxsOf[b], h, y) # BadNode
<1>1. IsBlock(TxsOf[b]) /\ IsList(TxsOf[b]) /\ Len(TxsOf[b]) \in Nat
  BY Blocks
<1>2. CASE h = 0
  <2>1. y \in 0..(Len(TxsOf[b]) - 1)
    BY <1>1, <1>2, WidthValues
  <2>2. Node(TxsOf[b], 0, y) = TxID(TxsOf[b][y + 1])
    BY <1>1, <2>1, NodeLeaf
  <2> QED
    BY <1>2, <2>2 DEF TxID, Star, BadNode
<1>3. CASE h # 0
  <2>1. PICK l, r : Node(TxsOf[b], h, y) = MerkleTreeParent(l, r)
    BY <1>1, <1>3, InnerNode
  <2> QED
    BY <2>1 DEF MerkleTreeParent, Star, BadNode
<1> QED
  BY <1>2, <1>3

-----------------------------------------------------------------------------
(* Folding *)

\* Before the first node c is the id itself, at whatever level it is a node.
LEMMA SoundAtStart ==
    ASSUME req \in Requests, req' = req, k' = 1, c' = req.txid, index' = req.index,
           isLastInTree' = TRUE
    PROVE  Sound'
<1> SUFFICES ASSUME NEW b \in DOMAIN TxsOf, NEW h \in 0..Len(TxsOf[b]),
                    NEW y \in 0..(Width(TxsOf[b], h) - 1),
                    c' = Node(TxsOf[b], h, y)
             PROVE  /\ k' - 1 <= h
                    /\ \E p \in 0..(Width(TxsOf[b], h - (k' - 1)) - 1) :
                          /\ Node(TxsOf[b], h - (k' - 1), p) = req.txid
                          /\ Above(p)[k' - 1] = y
                          /\ index' = y /\ req.index < Width(TxsOf[b], h - (k' - 1))
                                => req.index = p
                          /\ isLastInTree' <=> LastBelow(TxsOf[b], h - (k' - 1), k' - 1, y, p)
  BY DEF Sound, SoundFrom
<1>1. /\ IsList(TxsOf[b]) /\ Len(TxsOf[b]) \in Nat /\ h \in Nat
      /\ k' - 1 = 0 /\ k' - 1 <= h /\ h - (k' - 1) = h
  BY Blocks
<1>2. y \in Nat
  BY <1>1, WidthValues
<1>3. Above(y)[0] = y
  BY <1>2, AboveValues
<1>4. LastBelow(TxsOf[b], h, 0, y, y)
  <2>1. \A q \in 0..(Width(TxsOf[b], h) - 1) : q \in Nat /\ Above(q)[0] = q
    BY <1>1, WidthValues, AboveValues
  <2> QED
    BY <1>2, <2>1 DEF LastBelow
<1>5. /\ Node(TxsOf[b], h, y) = req.txid
      /\ Above(y)[k' - 1] = y
      /\ index' = y => req.index = y
      /\ isLastInTree' <=> LastBelow(TxsOf[b], h, k' - 1, y, y)
  BY <1>1, <1>3, <1>4
<1> QED
  BY <1>1, <1>5

\* Where the children of a node are, and that they differ unless there is one.
LEMMA Children ==
    ASSUME NEW list, IsBlock(list), IsList(list),
           NEW h \in Nat, NEW y \in 0..(Width(list, h + 1) - 1)
    PROVE  /\ y \in Nat
           /\ 2 * y \in 0..(Width(list, h) - 1)
           /\ RightChild(list, h, y) \in 0..(Width(list, h) - 1)
           /\ RightChild(list, h, y) \div 2 = y /\ (2 * y) \div 2 = y
           /\ Node(list, h, 2 * y) = Node(list, h, RightChild(list, h, y))
                => 2 * y = RightChild(list, h, y)
<1> DEFINE w == Width(list, h)
           r == RightChild(list, h, y)
<1>1. w \in Nat
  BY WidthValues
<1>2. y \in Nat /\ 2 * y \in 0..(w - 1)
  BY LeftChild
<1>3. r = IF 2 * y + 1 < w THEN 2 * y + 1 ELSE 2 * y
  BY DEF RightChild
<1>4. r \in 0..(w - 1) /\ r \div 2 = y /\ (2 * y) \div 2 = y
  <2> HIDE DEF w, r
  <2> QED
    BY <1>1, <1>2, <1>3
<1>5. Node(list, h, 2 * y) = Node(list, h, r) => 2 * y = r
  <2> HIDE DEF r
  <2> QED
    BY <1>2, <1>4, NodesDiffer
<1> QED
  BY <1>2, <1>4, <1>5

\* One node is folded.
LEMMA SoundFold ==
    ASSUME req \in Requests, req' = req, k \in Nat \ {0}, k' = k + 1,
           index = Above(req.index)[k - 1], index' = index \div 2,
           isLastInTree \in BOOLEAN, isLastInTree' = StillLast,
           c' = IF cIsLeft THEN MerkleTreeParent(c, Sibling)
                           ELSE MerkleTreeParent(Sibling, c),
           Sound
    PROVE  Sound'
<1> SUFFICES ASSUME NEW b \in DOMAIN TxsOf, NEW h \in 0..Len(TxsOf[b]),
                    NEW y \in 0..(Width(TxsOf[b], h) - 1),
                    c' = Node(TxsOf[b], h, y)
             PROVE  /\ k' - 1 <= h
                    /\ \E p \in 0..(Width(TxsOf[b], h - (k' - 1)) - 1) :
                          /\ Node(TxsOf[b], h - (k' - 1), p) = req.txid
                          /\ Above(p)[k' - 1] = y
                          /\ index' = y /\ req.index < Width(TxsOf[b], h - (k' - 1))
                                => req.index = p
                          /\ isLastInTree' <=> LastBelow(TxsOf[b], h - (k' - 1), k' - 1, y, p)
  BY DEF Sound, SoundFrom
<1> DEFINE list == TxsOf[b]
           g == h - 1
           n == k - 1
           s == g - n
           r == RightChild(list, g, y)
           x == IF cIsLeft THEN 2 * y ELSE r
<1>1. IsBlock(list) /\ IsList(list) /\ Len(list) \in Nat /\ req.index \in Nat
  BY Blocks, RequestsAssumption
<1>2. h # 0
  <2> SUFFICES ASSUME h = 0 PROVE FALSE
    OBVIOUS
  <2>1. y \in 0..(Len(list) - 1)
    BY <1>1, WidthValues
  <2>2. c' = TxID(list[y + 1])
    BY <1>1, <2>1, NodeLeaf
  <2>3. \E u, v : c' = MerkleTreeParent(u, v)
    OBVIOUS
  <2> QED
    BY <2>2, <2>3, IdIsNoParent
<1>3. g \in Nat /\ h = g + 1 /\ g \in 0..Len(list)
  BY <1>1, <1>2
<1> HIDE DEF g
<1>4. y \in 0..(Width(list, g + 1) - 1)
  BY <1>3
<1>5. /\ y \in Nat /\ 2 * y \in 0..(Width(list, g) - 1) /\ r \in 0..(Width(list, g) - 1)
      /\ r \div 2 = y /\ (2 * y) \div 2 = y
      /\ Node(list, g, 2 * y) = Node(list, g, r) => 2 * y = r
  BY <1>1, <1>3, <1>4, Children
<1>6. c' = MerkleTreeParent(Node(list, g, 2 * y), Node(list, g, r))
  BY <1>1, <1>3, <1>4, NodeChildren
<1>7. /\ c = Node(list, g, x)
      /\ cIsLeft => Sibling = Node(list, g, r)
  BY <1>6 DEF MerkleTreeParent
<1>8. x \in 0..(Width(list, g) - 1) /\ x \in {2 * y, r} /\ x \div 2 = y
  BY <1>5
<1> HIDE DEF r
<1>9. n \in Nat /\ n <= g /\ SoundFrom(b, s, x)
  <2> HIDE DEF x, list
  <2>1. k - 1 <= g /\ SoundFrom(b, g - (k - 1), x)
    BY <1>3, <1>7, <1>8 DEF Sound, list
  <2> QED
    BY <2>1
<1>10. s \in Nat /\ g = s + n /\ k' - 1 = n + 1 /\ h - (k' - 1) = s /\ k' - 1 <= h
  BY <1>3, <1>9
<1>11. PICK p \in 0..(Width(list, s) - 1) :
          /\ Node(list, s, p) = req.txid
          /\ Above(p)[n] = x
          /\ index = x /\ req.index < Width(list, s) => req.index = p
          /\ isLastInTree <=> LastBelow(list, s, n, x, p)
  <2> HIDE DEF x, s
  <2> QED
    BY <1>9 DEF SoundFrom
<1> HIDE DEF s, n
<1>12. Width(list, s) \in Nat /\ p \in Nat
  BY <1>1, <1>10, WidthValues
<1>13. Above(p)[n + 1] = y
  <2>1. Above(p)[n + 1] = Above(p)[n] \div 2
    BY <1>9, <1>12, AboveValues
  <2> HIDE DEF x
  <2> QED
    BY <1>8, <1>11, <2>1
<1>14. ASSUME index' = y, req.index < Width(list, s) PROVE req.index = p
  <2>1. index = Above(req.index)[n]
    BY DEF n
  <2>2. req.index \in 0..(Width(list, s) - 1)
    BY <1>1, <1>12, <1>14
  <2>3. index \in 0..(Width(list, g) - 1)
    <3>1. n \in Nat /\ s \in Nat /\ g = s + n
      BY <1>9, <1>10
    <3> HIDE DEF list
    <3>2. Above(req.index)[n] \in 0..(Width(list, s + n) - 1)
      BY <1>1, <2>2, <3>1, AboveFrom
    <3> QED
      BY <2>1, <3>1, <3>2
  <2>4. index = 2 * y \/ index = 2 * y + 1
    <3>1. Width(list, g) \in Nat /\ index \in Nat
      BY <1>1, <1>3, <2>3, WidthValues
    <3>2. index \div 2 = y /\ y \in Nat
      BY <1>5, <1>14
    <3> HIDE DEF x
    <3> QED
      BY <3>1, <3>2
  <2>5. index = x
    <3>1. CASE cIsLeft
      BY <1>5, <2>4, <3>1 DEF cIsLeft
    <3>2. CASE ~ cIsLeft
      <4>1. index = 2 * y + 1
        BY <1>5, <2>4, <3>2 DEF cIsLeft
      <4>2. 2 * y + 1 < Width(list, g)
        <5>1. Width(list, g) \in Nat
          BY <1>1, <1>3, WidthValues
        <5> QED
          BY <1>5, <2>3, <4>1, <5>1
      <4>3. r = 2 * y + 1
        BY <4>2 DEF r, RightChild
      <4> QED
        BY <3>2, <4>1, <4>3
    <3> QED
      BY <3>1, <3>2
  <2> QED
    BY <1>11, <1>14, <2>5
<1>15. isLastInTree' <=> LastBelow(list, s, n + 1, y, p)
  <2>1. StillLast <=> isLastInTree /\ x = r
    BY <1>5, <1>7 DEF StillLast
  <2>2. LastBelow(list, s, n + 1, y, p) <=> x = r /\ LastBelow(list, s, n, x, p)
    <3>1. /\ s \in Nat /\ n \in Nat /\ g \in Nat /\ g = s + n
          /\ p \in 0..(Width(list, s) - 1) /\ Above(p)[n] = x /\ Above(p)[n + 1] = y
      BY <1>3, <1>9, <1>10, <1>11, <1>13
    <3>2. y \in 0..(Width(list, g + 1) - 1) /\ IsList(list)
      BY <1>1, <1>4
    <3> HIDE DEF x, list
    <3> QED
      BY <3>1, <3>2, LastBelowParent DEF r
  <2> QED
    BY <1>11, <2>1, <2>2
<1>16. /\ Node(list, s, p) = req.txid
       /\ Above(p)[k' - 1] = y
       /\ index' = y /\ req.index < Width(list, s) => req.index = p
       /\ isLastInTree' <=> LastBelow(list, s, k' - 1, y, p)
  BY <1>10, <1>11, <1>13, <1>14, <1>15
<1> QED
  BY <1>10, <1>16

\* One node of an honest proof is folded: it is no error, and leads up.
LEMMA HonestFold ==
    ASSUME req \in Requests, NEW b \in About(req), Belongs(req, b),
           k \in 1..Len(req.nodes), index = Above(req.index)[k - 1],
           c = Node(TxsOf[b], k - 1, index)
    PROVE  /\ BadNode \notin {req.nodes[k], c}
           /\ req.nodes[k] # Star \/ cIsLeft
           /\ Node(TxsOf[b], k, index \div 2) =
                IF cIsLeft THEN MerkleTreeParent(c, Sibling)
                           ELSE MerkleTreeParent(Sibling, c)
           /\ index \div 2 = Above(req.index)[k]
<1> DEFINE list == TxsOf[b]
           g == k - 1
           y == index \div 2
           w == Width(list, g)
           r == RightChild(list, g, y)
           z == IF index % 2 = 0 THEN index + 1 ELSE index - 1
<1>1. /\ b \in DOMAIN TxsOf
      /\ IsBlock(list) /\ IsList(list) /\ Len(list) \in Nat /\ req.index \in Nat /\ Len(req.nodes) \in Nat
      /\ req.index \in 0..(Len(list) - 1)
  BY Blocks, RequestsAssumption DEF About, Belongs
<1>2. g \in Nat /\ k = g + 1
  BY <1>1
<1>3. Height(list) \in Nat /\ Len(req.nodes) = Height(list)
  <2>1. Height(list) \in Nat
    BY <1>1, HeightExists
  <2> QED
    BY <2>1 DEF Belongs, HonestNodes
<1>4. req.nodes[k] = IF z < w THEN Node(list, g, z) ELSE Star
  BY <1>1, <1>3 DEF Belongs, HonestNodes
<1> HIDE DEF g
<1>5. index \in 0..(w - 1) /\ w \in Nat /\ index \in Nat
  <2>1. index = Above(req.index)[g]
    BY DEF g
  <2>2. Above(req.index)[g] \in 0..(w - 1) /\ w \in Nat
    <3> HIDE DEF list
    <3> QED
      BY <1>1, <1>2, AboveInside, WidthValues
  <2> HIDE DEF w
  <2> QED
    BY <2>1, <2>2
<1>6. y = Above(req.index)[g + 1]
  BY <1>1, <1>2, AboveValues DEF g
<1>7. y \in 0..(Width(list, g + 1) - 1)
  <2>1. g + 1 \in Nat
    BY <1>2
  <2> HIDE DEF list, y
  <2>2. Above(req.index)[g + 1] \in 0..(Width(list, g + 1) - 1)
    BY <1>1, <2>1, AboveInside
  <2> QED
    BY <1>6, <2>2
<1>8. y \in Nat /\ 2 * y \in 0..(w - 1)
  BY <1>1, <1>2, <1>7, Children
<1>9. Node(list, k, y) = MerkleTreeParent(Node(list, g, 2 * y), Node(list, g, r))
  BY <1>1, <1>2, <1>7, NodeChildren
<1>10. c = Node(list, g, index)
  BY DEF g
<1>11. r = IF 2 * y + 1 < w THEN 2 * y + 1 ELSE 2 * y
  BY DEF RightChild
<1>12. c # BadNode
  BY <1>1, <1>2, <1>5, <1>10, NodesAreHashes
<1> HIDE DEF r, w, list
<1>13. CASE cIsLeft
  <2>1. index = 2 * y /\ z = 2 * y + 1
    BY <1>5, <1>13 DEF cIsLeft
  <2> HIDE DEF y, z
  <2>2. CASE z < w
    <3>1. r = z /\ z \in 0..(w - 1)
      BY <1>5, <1>8, <1>11, <2>1, <2>2
    <3>2. Node(list, g, z) # Star /\ Node(list, g, z) # BadNode
      BY <1>1, <1>2, <3>1, NodesAreHashes DEF list, w
    <3>3. req.nodes[k] = Node(list, g, z)
      BY <1>4, <2>2
    <3> QED
      BY <1>2, <1>6, <1>9, <1>10, <1>13, <1>12, <2>1, <3>1, <3>2, <3>3 DEF Sibling, list, y
  <2>3. CASE ~ (z < w)
    <3>1. r = 2 * y
      BY <1>11, <2>1, <2>3
    <3>2. req.nodes[k] = Star
      BY <1>4, <2>3
    <3>3. Star # BadNode
      BY DEF Star, BadNode
    <3> QED
      BY <1>2, <1>6, <1>9, <1>10, <1>13, <1>12, <2>1, <3>1, <3>2, <3>3 DEF Sibling, list, y
  <2> QED
    BY <2>2, <2>3
<1>14. CASE ~ cIsLeft
  <2>1. index = 2 * y + 1 /\ z = 2 * y
    BY <1>5, <1>14 DEF cIsLeft
  <2> HIDE DEF y, z
  <2>2. r = index /\ z < w
    BY <1>5, <1>8, <1>11, <2>1
  <2>3. Node(list, g, z) # Star /\ Node(list, g, z) # BadNode
    BY <1>1, <1>2, <1>8, <2>1, NodesAreHashes DEF list, w
  <2>4. req.nodes[k] = Node(list, g, z)
    BY <1>4, <2>2
  <2> QED
    BY <1>2, <1>6, <1>9, <1>10, <1>14, <1>12, <2>1, <2>2, <2>3, <2>4 DEF Sibling, list, y
<1> QED
  BY <1>13, <1>14

\* No honest proof is refused before its nodes are folded.
LEMMA HonestParses ==
    ASSUME req \in Requests, Honest(req)
    PROVE  ErrorsIn(Reads) = {} /\ ~ Unsupported
<1>1. PICK b \in About(req) : Belongs(req, b)
  BY DEF Honest
<1> DEFINE list == TxsOf[b]
<1>2. /\ b \in DOMAIN TxsOf
      /\ IsBlock(list) /\ IsList(list) /\ Len(list) \in Nat /\ req.index \in Nat
      /\ req.index \in 0..(Len(list) - 1)
  BY <1>1, Blocks, RequestsAssumption DEF About, Belongs
<1>3. Height(list) \in Nat /\ Height(list) < WordBits /\ WordBits \in Nat
  BY <1>2, HeightExists, ChainAssumption
<1>4. /\ Len(req.nodes) = Height(list)
      /\ \A l \in 1..Len(req.nodes) :
            \/ req.nodes[l] = Star
            \/ \E z \in 0..(Width(list, l - 1) - 1) : req.nodes[l] = Node(list, l - 1, z)
  <2>1. req.nodes = HonestNodes(list, req.index)
    BY <1>1 DEF Belongs
  <2>2. Len(req.nodes) = Height(list)
    BY <1>3, <2>1 DEF HonestNodes
  <2>3. ASSUME NEW l \in 1..Len(req.nodes), req.nodes[l] # Star
        PROVE  \E z \in 0..(Width(list, l - 1) - 1) : req.nodes[l] = Node(list, l - 1, z)
    <3> DEFINE y == Above(req.index)[l - 1]
               z == IF y % 2 = 0 THEN y + 1 ELSE y - 1
    <3>1. l - 1 \in Nat
      BY <1>3, <2>2
    <3>2. req.nodes[l] = IF z < Width(list, l - 1) THEN Node(list, l - 1, z) ELSE Star
      BY <1>3, <2>1, <2>2 DEF HonestNodes
    <3>3. y \in Nat
      BY <1>2, <3>1, AboveValues
    <3>4. Width(list, l - 1) \in Nat
      BY <1>2, <3>1, WidthValues
    <3> HIDE DEF y
    <3>5. z \in Nat
      BY <3>3
    <3> HIDE DEF z
    <3> QED
      BY <2>3, <3>2, <3>4, <3>5
  <2> QED
    BY <2>2, <2>3
<1>5. req.index < ShiftedOne(Len(req.nodes))
  <2>1. req.index < TwoTo[Height(list)]
    BY <1>2, AboveHeight
  <2> QED
    BY <1>3, <1>4, <2>1 DEF ShiftedOne
<1>6. ~ (req.index >= ShiftedOne(Len(req.nodes)))
  <2>1. ShiftedOne(Len(req.nodes)) \in Nat
    BY <1>3, <1>4, TwoToValues DEF ShiftedOne
  <2> QED
    BY <1>2, <1>5, <2>1
<1>7. ASSUME NEW l \in 1..Len(req.nodes) PROVE req.nodes[l] # BadNode
  <2>1. l - 1 \in Nat
    BY <1>3, <1>4
  <2>2. CASE req.nodes[l] = Star
    BY <2>2 DEF Star, BadNode
  <2>3. CASE req.nodes[l] # Star
    BY <1>2, <1>4, <2>1, <2>3, NodesAreHashes
  <2> QED
    BY <2>2, <2>3
<1>8. ErrorsIn(Reads) = {}
  <2>1. req.txOrID # "short" /\ req.targetType # "other"
    BY DEF Honest
  <2>2. ASSUME NEW m \in 1..Reads PROVE ErrorAt(m) = "none"
    <3>1. CASE m > 4
      <4>1. m - 4 \in 1..Len(req.nodes)
        BY <1>3, <1>4, <3>1 DEF Reads
      <4> QED
        BY <1>7, <3>1, <4>1 DEF ErrorAt
    <3>2. CASE ~ (m > 4)
      BY <1>6, <2>1, <3>2 DEF ErrorAt
    <3> QED
      BY <3>1, <3>2
  <2> QED
    BY <2>2 DEF ErrorsIn
<1>9. ~ Unsupported
  BY DEF Honest, Unsupported
<1> QED
  BY <1>8, <1>9

-----------------------------------------------------------------------------
(* The inductive invariant *)

LEMMA InitIInv == Init => IInv
<1> SUFFICES ASSUME Init PROVE IInv
  OBVIOUS
<1>1. req.index \in Nat /\ Len(req.nodes) \in Nat
  BY RequestsAssumption DEF Init
<1>2. k - 1 = 0 /\ Above(req.index)[0] = req.index
  BY <1>1, AboveValues DEF Init
<1>3. TypeOK
  <2>1. index \in Nat /\ k \in 1..(Len(req.nodes) + 1)
    BY <1>1 DEF Init
  <2>2. /\ pc = "parse" /\ isLastInTree = TRUE /\ valid = FALSE /\ err = "none"
    BY DEF Init
  <2> QED
    BY <2>1, <2>2 DEF TypeOK
<1>4. Progress
  BY DEF Init, Progress, Returned, Judged
<1>5. OnTheWay
  BY DEF Init, OnTheWay
<1> QED
  BY <1>1, <1>2, <1>3, <1>4, <1>5 DEF Init, IInv, Judged, Returned

\* An error ends the call; an honest proof gives none.
LEMMA FailIInv ==
    ASSUME IInv, pc # "returned", ~ Honest(req),
           NEW e \in {"malformed", "flags", "invalidProof", "header", "nodes"}, Fail(e)
    PROVE  IInv'
<1>1. /\ pc' = "returned" /\ err' = e /\ isLastInTree' = FALSE
      /\ UNCHANGED <<req, merkleRoot, c, index, k, valid>>
  BY DEF Fail
<1>2. ~ valid
  BY DEF IInv, Progress, Returned
<1>3. TypeOK'
  BY <1>1, <1>2 DEF IInv, TypeOK
<1>4. ~ Judged'
  BY <1>1 DEF Judged
<1>5. Progress'
  BY <1>1, <1>4 DEF Progress, Returned
<1>6. OnTheWay'
  BY <1>1 DEF OnTheWay
<1> QED
  BY <1>1, <1>3, <1>4, <1>5, <1>6 DEF IInv

\* What parsing refuses, and that it is the same for the same proof.
LEMMA ErrorsAre ==
    ASSUME NEW n, NEW e \in ErrorsIn(n)
    PROVE  e \in {"malformed", "flags", "invalidProof"}
BY DEF ErrorsIn, ErrorAt

LEMMA StaysParsed ==
    ASSUME req' = req, ErrorsIn(Reads) = {}
    PROVE  ErrorsIn(Reads)' = {}
<1>1. Reads' = Reads /\ \A m : ErrorAt(m)' = ErrorAt(m)
  BY DEF Reads, ErrorAt, ShiftedOne
<1> QED
  BY <1>1 DEF ErrorsIn

LEMMA ParsedIInv ==
    ASSUME IInv, pc = "parse", Parsed
    PROVE  IInv'
<1>1. /\ pc' = "txid"
      /\ UNCHANGED <<req, merkleRoot, c, index, k, isLastInTree, err, valid>>
  BY DEF Parsed, Continue
<1>2. ErrorsIn(Reads)' = {}
  BY <1>1, StaysParsed DEF Parsed
<1>3. TypeOK'
  BY <1>1 DEF IInv, TypeOK
<1>4. ~ Judged'
  BY <1>1 DEF Judged, Returned
<1>5. Progress'
  BY <1>1, <1>2, <1>4 DEF IInv, Progress, Returned
<1>6. OnTheWay'
  BY <1>1 DEF IInv, OnTheWay
<1> QED
  BY <1>1, <1>3, <1>4, <1>5, <1>6 DEF IInv

LEMMA ParseIInv == IInv /\ Parse => IInv'
<1> SUFFICES ASSUME IInv, Parse PROVE IInv'
  OBVIOUS
<1>1. CASE Parsed
  BY <1>1, ParsedIInv DEF Parse
<1>2. ASSUME NEW e \in ErrorsIn(Reads), Fail(e) PROVE IInv'
  <2>1. ~ Honest(req)
    BY <1>2, HonestParses DEF IInv
  <2>2. e \in {"malformed", "flags", "invalidProof"} /\ pc # "returned"
    BY <1>2, ErrorsAre DEF Parse
  <2> QED
    BY <1>2, <2>1, <2>2, FailIInv
<1> QED
  BY <1>1, <1>2 DEF Parse

\* Bytes that end early are not an honest proof's.
LEMMA ParseShortIInv == IInv /\ ParseShort => IInv'
<1> SUFFICES ASSUME IInv, ParseShort PROVE IInv'
  OBVIOUS
<1>1. pc = "parse" /\ ~ Whole(req) /\ ~ Honest(req)
  BY DEF ParseShort, Honest
<1>2. CASE Panic
  <2>1. /\ pc' = "panicked"
        /\ UNCHANGED <<req, merkleRoot, c, index, k, isLastInTree, err, valid>>
    BY <1>2 DEF Panic
  <2>2. TypeOK'
    BY <2>1 DEF IInv, TypeOK
  <2>3. ~ Judged'
    BY <2>1 DEF Judged, Returned
  <2>4. Progress'
    BY <1>1, <2>1, <2>3 DEF IInv, Progress, Returned, Whole
  <2>5. OnTheWay'
    BY <1>1, <2>1 DEF OnTheWay
  <2> QED
    BY <2>1, <2>2, <2>3, <2>4, <2>5 DEF IInv
<1>3. ASSUME NEW n, NEW e \in ErrorsIn(n), Fail(e) PROVE IInv'
  <2>1. e \in {"malformed", "flags", "invalidProof"}
    BY <1>3, ErrorsAre
  <2> QED
    BY <1>1, <1>3, <2>1, FailIInv
<1>4. CASE Parsed
  BY <1>1, <1>4, ParsedIInv
<1> QED
  BY <1>2, <1>3, <1>4 DEF ParseShort

LEMMA TxidIInv == IInv /\ TxidFromTxOrID => IInv'
<1> SUFFICES ASSUME IInv, TxidFromTxOrID PROVE IInv'
  OBVIOUS
<1>1. CASE req.txOrID \in {"short", "badTx"}
  <2>1. Fail("malformed") /\ pc # "returned"
    BY <1>1 DEF TxidFromTxOrID
  <2>2. ~ Honest(req)
    BY <1>1 DEF Honest
  <2> QED
    BY <2>1, <2>2, FailIInv
<1>2. CASE req.txOrID \notin {"short", "badTx"}
  <2>1. /\ pc = "txid" /\ pc' = "target" /\ c' = req.txid
        /\ UNCHANGED <<req, merkleRoot, index, k, isLastInTree, err, valid>>
    BY <1>2 DEF TxidFromTxOrID, Continue
  <2>2. /\ req \in Requests /\ req.index \in Nat
        /\ k = 1 /\ isLastInTree = TRUE /\ index = req.index /\ ErrorsIn(Reads) = {}
    <3>1. req \in Requests /\ req.index \in Nat /\ k = 1 /\ isLastInTree = TRUE
      BY <2>1, RequestsAssumption DEF IInv, Progress, TypeOK
    <3>2. k - 1 = 0 /\ index = Above(req.index)[k - 1]
      BY <3>1 DEF IInv
    <3>3. index = req.index
      BY <3>1, <3>2, AboveValues
    <3>4. ErrorsIn(Reads) = {}
      BY <2>1 DEF IInv, Progress, Returned
    <3> QED
      BY <3>1, <3>3, <3>4
  <2>3. ErrorsIn(Reads)' = {}
    BY <2>1, <2>2, StaysParsed
  <2>4. TypeOK'
    BY <2>1 DEF IInv, TypeOK
  <2>5. ~ Judged'
    BY <2>1 DEF Judged, Returned
  <2>6. Progress'
    BY <2>1, <2>3, <2>5 DEF IInv, Progress, Returned
  <2>7. Sound'
    BY <2>1, <2>2, SoundAtStart
  <2>8. \A b \in About(req) : Belongs(req, b) => c' = Node(TxsOf[b], k' - 1, index')
    <3> SUFFICES ASSUME NEW b \in About(req), Belongs(req, b)
                 PROVE  req.txid = Node(TxsOf[b], 0, req.index)
      BY <2>1, <2>2
    <3>1. b \in DOMAIN TxsOf /\ IsBlock(TxsOf[b]) /\ IsList(TxsOf[b]) /\ Len(TxsOf[b]) \in Nat
      BY Blocks DEF About
    <3>2. req.index \in 0..(Len(TxsOf[b]) - 1) /\ req.txid = TxID(TxsOf[b][req.index + 1])
      BY <2>2, <3>1 DEF Belongs
    <3> QED
      BY <3>1, <3>2, NodeLeaf
  <2>9. OnTheWay'
    <3>1. Honest(req) => err = "none"
      BY DEF IInv, OnTheWay
    <3> QED
      BY <2>1, <2>8, <3>1 DEF OnTheWay
  <2> QED
    BY <2>9, <2>1, <2>4, <2>5, <2>6, <2>7, <2>8 DEF IInv
<1> QED
  BY <1>1, <1>2

LEMMA TargetIInv == IInv /\ Target => IInv'
<1> SUFFICES ASSUME IInv, Target PROVE IInv'
  OBVIOUS
<1>1. pc = "target" /\ err = "none"
  BY DEF IInv, Progress, Returned, Target
<1>2. CASE req.targetType = "block" /\ req.target \notin LongestChain
  <2>1. Fail("header") /\ ~ Honest(req)
    BY <1>2 DEF Target, Honest
  <2> QED
    BY <1>1, <2>1, FailIInv
<1>3. CASE req.targetType \notin {"block", "header", "root"}
  <2>1. Fail("flags") /\ ~ Honest(req)
    BY <1>3 DEF Target, Honest
  <2> QED
    BY <1>1, <2>1, FailIInv
<1>4. ASSUME /\ merkleRoot' = IF req.targetType = "block" THEN HashMerkleRoot[req.target]
                                                          ELSE req.target
             /\ Continue("flags") /\ c' = c
      PROVE  IInv'
  <2>1. /\ pc' = "flags"
        /\ UNCHANGED <<req, c, index, k, isLastInTree, err, valid>>
    BY <1>4 DEF Continue
  <2>2. ErrorsIn(Reads)' = {}
    BY <1>1, <2>1, StaysParsed DEF IInv, Progress
  <2>3. TypeOK'
    BY <2>1 DEF IInv, TypeOK
  <2>4. ~ Judged'
    BY <2>1 DEF Judged, Returned
  <2>5. \A b \in About(req) : merkleRoot' = HashMerkleRoot[b]
    BY <1>4 DEF About
  <2>6. Progress'
    BY <1>1, <2>1, <2>2, <2>4, <2>5 DEF IInv, Progress, Returned, About, HashMerkleRoot
  <2>7. Sound'
    BY <1>1, <2>1 DEF IInv, Sound, SoundFrom
  <2>8. OnTheWay'
    BY <1>1, <2>1 DEF IInv, OnTheWay
  <2> QED
    BY <2>1, <2>3, <2>4, <2>6, <2>7, <2>8 DEF IInv
<1> QED
  BY <1>2, <1>3, <1>4 DEF Target

LEMMA FlagsIInv == IInv /\ Flags => IInv'
<1> SUFFICES ASSUME IInv, Flags PROVE IInv'
  OBVIOUS
<1>1. pc = "flags" /\ err = "none"
  BY DEF IInv, Progress, Returned, Flags
<1>2. CASE Unsupported
  <2>1. Fail("flags") /\ ~ Honest(req)
    BY <1>2, HonestParses DEF Flags, IInv
  <2> QED
    BY <1>1, <2>1, FailIInv
<1>3. CASE ~ Unsupported
  <2>1. /\ pc' = "fold"
        /\ UNCHANGED <<req, merkleRoot, c, index, k, isLastInTree, err, valid>>
    BY <1>3 DEF Flags, Continue
  <2>2. ErrorsIn(Reads)' = {}
    BY <1>1, <2>1, StaysParsed DEF IInv, Progress
  <2>3. TypeOK'
    BY <2>1 DEF IInv, TypeOK
  <2>4. ~ Judged'
    BY <2>1 DEF Judged, Returned
  <2>5. \A b \in About(req) : merkleRoot = HashMerkleRoot[b]
    BY <1>1 DEF IInv, Progress
  <2>6. Progress'
    BY <1>1, <2>1, <2>2, <2>4, <2>5 DEF IInv, Progress, Returned, About, HashMerkleRoot
  <2>7. Sound'
    BY <1>1, <2>1 DEF IInv, Sound, SoundFrom
  <2>8. OnTheWay'
    BY <1>1, <2>1 DEF IInv, OnTheWay
  <2> QED
    BY <2>1, <2>3, <2>4, <2>6, <2>7, <2>8 DEF IInv
<1> QED
  BY <1>2, <1>3

LEMMA VerifyNodeIInv == IInv /\ VerifyNode => IInv'
<1> SUFFICES ASSUME IInv, VerifyNode PROVE IInv'
  OBVIOUS
<1>1. /\ pc = "fold" /\ err = "none" /\ valid = FALSE /\ req \in Requests
      /\ index = Above(req.index)[k - 1] /\ req.index \in Nat
      /\ Len(req.nodes) \in Nat /\ k \in 1..Len(req.nodes) /\ Sound
  BY RequestsAssumption DEF IInv, TypeOK, Progress, Returned, VerifyNode
<1>2. ASSUME Honest(req)
      PROVE  BadNode \notin {req.nodes[k], c} /\ (req.nodes[k] # Star \/ cIsLeft)
  <2>1. PICK b \in About(req) : Belongs(req, b)
    BY <1>2 DEF Honest
  <2>2. c = Node(TxsOf[b], k - 1, index)
    BY <1>1, <1>2, <2>1 DEF IInv, OnTheWay
  <2> QED
    BY <1>1, <2>1, <2>2, HonestFold
<1>3. CASE req.nodes[k] = Star /\ ~ cIsLeft /\ Fail("nodes")
  BY <1>1, <1>2, <1>3, FailIInv
<1>4. CASE BadNode \in {req.nodes[k], c} /\ Fail("malformed")
  BY <1>1, <1>2, <1>4, FailIInv
<1>5. CASE /\ BadNode \notin {req.nodes[k], c}
           /\ req.nodes[k] # Star \/ cIsLeft
           /\ isLastInTree' = StillLast
           /\ c' = IF cIsLeft THEN MerkleTreeParent(c, Sibling)
                              ELSE MerkleTreeParent(Sibling, c)
           /\ index' = index \div 2
           /\ k' = k + 1
           /\ UNCHANGED <<req, pc, merkleRoot, err, valid>>
  <2>1. ErrorsIn(Reads)' = {}
    BY <1>1, <1>5, StaysParsed DEF IInv, Progress
  <2>2. index' = Above(req.index)[k' - 1] /\ index' \in Nat /\ k' - 1 = k
    <3>1. k - 1 \in Nat /\ (k - 1) + 1 = k /\ k' - 1 = k
      BY <1>1, <1>5
    <3> DEFINE g == k - 1
    <3>2. g + 1 = k /\ g \in Nat /\ g + 1 \in Nat
      BY <3>1
    <3>3. index = Above(req.index)[g]
      BY <1>1
    <3> HIDE DEF g
    <3>4. /\ Above(req.index)[g + 1] = Above(req.index)[g] \div 2
          /\ Above(req.index)[g + 1] \in Nat
      BY <1>1, <3>2, AboveValues
    <3> QED
      BY <1>5, <3>1, <3>2, <3>3, <3>4
  <2>3. TypeOK'
    <3>1. StillLast \in BOOLEAN /\ isLastInTree \in BOOLEAN
      BY DEF IInv, TypeOK, StillLast
    <3>2. k' \in 1..(Len(req.nodes) + 1)
      BY <1>1, <1>5
    <3>3. isLastInTree' \in BOOLEAN
      BY <1>5, <3>1
    <3> QED
      BY <1>1, <1>5, <2>2, <3>2, <3>3 DEF TypeOK
  <2>4. ~ Judged'
    BY <1>1, <1>5 DEF Judged, Returned
  <2>5. \A b \in About(req) : merkleRoot = HashMerkleRoot[b]
    BY <1>1 DEF IInv, Progress
  <2>6. Progress'
    BY <1>1, <1>5, <2>1, <2>4, <2>5 DEF IInv, Progress, Returned, About, HashMerkleRoot
  <2>7. Sound'
    <3>1. isLastInTree \in BOOLEAN /\ k \in Nat \ {0}
      BY <1>1 DEF IInv, TypeOK
    <3> QED
      BY <1>1, <1>5, <3>1, SoundFold
  <2>8. ASSUME Honest(req), NEW b \in About(req), Belongs(req, b)
        PROVE  c' = Node(TxsOf[b], k' - 1, index')
    <3>1. c = Node(TxsOf[b], k - 1, index)
      BY <1>1, <2>8 DEF IInv, OnTheWay
    <3>2. Node(TxsOf[b], k, index \div 2) =
                IF cIsLeft THEN MerkleTreeParent(c, Sibling)
                           ELSE MerkleTreeParent(Sibling, c)
      BY <1>1, <2>8, <3>1, HonestFold
    <3> QED
      BY <1>5, <2>2, <3>2
  <2>9. OnTheWay'
    BY <1>1, <1>5, <2>8 DEF OnTheWay
  <2> QED
    BY <1>1, <1>5, <2>2, <2>3, <2>4, <2>6, <2>7, <2>9 DEF IInv
<1> QED
  BY <1>3, <1>4, <1>5 DEF VerifyNode

LEMMA ReturnIInv == IInv /\ Return => IInv'
<1> SUFFICES ASSUME IInv, Return PROVE IInv'
  OBVIOUS
<1>1. /\ pc = "fold" /\ err = "none" /\ req \in Requests /\ pc' = "returned"
      /\ k \in 1..(Len(req.nodes) + 1) /\ k > Len(req.nodes) /\ Len(req.nodes) \in Nat
      /\ valid' = (c = merkleRoot)
      /\ UNCHANGED <<req, merkleRoot, c, index, k, isLastInTree, err>>
  BY RequestsAssumption DEF IInv, TypeOK, Progress, Returned, Return
<1>2. ErrorsIn(Reads)' = {}
  BY <1>1, StaysParsed DEF IInv, Progress
<1>3. TypeOK'
  BY <1>1 DEF IInv, TypeOK
<1>4. \A b \in About(req) : merkleRoot = HashMerkleRoot[b]
  BY <1>1 DEF IInv, Progress
<1>5. k = Len(req.nodes) + 1
  BY <1>1
<1>6. Progress'
  BY <1>1, <1>2, <1>4, <1>5 DEF Progress, Returned, Judged, About, HashMerkleRoot
<1>7. Sound'
  BY <1>1 DEF IInv, Sound, SoundFrom
<1>8. OnTheWay'
  BY <1>1 DEF IInv, OnTheWay
<1> QED
  BY <1>1, <1>3, <1>6, <1>7, <1>8 DEF IInv

\* Every state the verifier reaches satisfies the inductive invariant.
THEOREM Invariance == Spec => []IInv
<1>1. ASSUME IInv, UNCHANGED vars PROVE IInv'
  <2>1. UNCHANGED <<req, pc, merkleRoot, c, index, k, isLastInTree, err, valid>>
    BY <1>1 DEF vars
  <2>2. TypeOK' /\ (Sound => Sound')
    BY <1>1, <2>1 DEF IInv, TypeOK, Sound, SoundFrom
  <2>3. Progress'
    BY <1>1, <2>1, StaysParsed DEF IInv, Progress, Judged, Returned, Whole, About,
                                   HashMerkleRoot
  <2>4. OnTheWay'
    BY <1>1, <2>1 DEF IInv, OnTheWay
  <2> QED
    BY <1>1, <2>1, <2>2, <2>3, <2>4 DEF IInv, Judged, Returned
<1>2. IInv /\ [Next]_vars => IInv'
  BY <1>1, ParseIInv, ParseShortIInv, TxidIInv, TargetIInv, FlagsIInv, VerifyNodeIInv, ReturnIInv DEF Next
<1> QED
  BY InitIInv, <1>2, PTL DEF Spec

-----------------------------------------------------------------------------
(* Theorems *)

\* Every variable keeps its type, and no proof is said to be valid together
\* with an error, whatever the proof.
THEOREM TypeCorrect == Spec => []TypeOK
<1>1. IInv => TypeOK
  BY DEF IInv
<1> QED
  BY <1>1, Invariance, PTL

\* What an accepted proof shows of every block it can be about: the id is a node
\* as many levels below the root as it has nodes, at the index it gives.
LEMMA AcceptedTellsTheTruth ==
    ASSUME IInv, Accepted, NEW b \in About(req)
    PROVE  /\ Level(req, b) \in Nat
           /\ \E y \in At(req, b) : req.index < Width(TxsOf[b], Level(req, b)) => req.index = y
           /\ isLastInTree <=> IsLast(req, b)
<1> DEFINE list == TxsOf[b]
           h == Height(list)
           n == Len(req.nodes)
           g == Level(req, b)
           w == Width(list, g)
<1>1. /\ b \in DOMAIN TxsOf /\ IsBlock(list) /\ IsList(list) /\ Len(list) \in Nat \ {0}
      /\ h \in 0..Len(list) /\ h \in Nat /\ Width(list, h) = 1
      /\ HashMerkleRoot[b] = Node(list, h, 0) /\ g = h - n
  BY Blocks DEF About, Level
<1>2. /\ Judged /\ Sound /\ c = HashMerkleRoot[b] /\ k - 1 = n
      /\ req.index \in Nat /\ n \in Nat
      /\ index = Above(req.index)[n]
  <2>1. n \in Nat /\ req.index \in Nat
    BY RequestsAssumption DEF IInv
  <2>2. Judged /\ Sound /\ c = HashMerkleRoot[b] /\ k = n + 1
    BY DEF IInv, Progress, Accepted, Judged
  <2>3. index = Above(req.index)[k - 1]
    BY DEF IInv
  <2> QED
    BY <2>1, <2>2, <2>3
<1>3. 0 \in 0..(Width(list, h) - 1)
  BY <1>1
<1> HIDE DEF g, h
<1>4. n <= h /\ SoundFrom(b, g, 0)
  <2> HIDE DEF n
  <2>1. k - 1 <= h /\ SoundFrom(b, h - (k - 1), 0)
    BY <1>1, <1>2, <1>3 DEF Sound
  <2> QED
    BY <1>1, <1>2, <2>1
<1> HIDE DEF n
<1>5. g \in Nat /\ h = g + n
  BY <1>1, <1>2, <1>4
<1>6. w \in Nat
  BY <1>1, <1>5, WidthValues
<1>7. PICK p \in 0..(w - 1) :
          /\ Node(list, g, p) = req.txid
          /\ index = 0 /\ req.index < w => req.index = p
          /\ isLastInTree <=> LastBelow(list, g, n, 0, p)
  BY <1>2, <1>4 DEF SoundFrom
<1>8. ASSUME NEW q \in 0..(w - 1) PROVE Above(q)[n] = 0
  <2>1. Above(q)[n] \in 0..(1 - 1)
    BY <1>1, <1>2, <1>5, AboveFrom
  <2> QED
    BY <2>1
<1>9. req.index < w => req.index = p
  <2> SUFFICES ASSUME req.index < w PROVE index = 0
    BY <1>7
  <2>1. req.index \in 0..(w - 1)
    BY <1>2, <1>6
  <2> QED
    BY <1>2, <1>8, <2>1
<1>10. LastBelow(list, g, n, 0, p) <=> p = w - 1
  BY <1>6, <1>8 DEF LastBelow
<1>11. At(req, b) = {p}
  <2>1. At(req, b) = {y \in 0..(w - 1) : Node(list, g, y) = req.txid}
    BY <1>5 DEF At, Width, Node, g
  <2>2. ASSUME NEW y \in 0..(w - 1), Node(list, g, y) = req.txid PROVE y = p
    BY <1>1, <1>5, <1>7, <2>2, NodesDiffer
  <2> QED
    BY <1>7, <2>1, <2>2
<1>12. IsLast(req, b) <=> p = w - 1
  BY <1>5, <1>11 DEF IsLast, g
<1> QED
  BY <1>5, <1>7, <1>9, <1>10, <1>11, <1>12 DEF g

\* isLastInTree is TRUE of an accepted proof exactly when the id is the last
\* node of the level its path begins at: for blocks of every size, any id and
\* any nodes.
THEOREM LastIsLast == Spec => []LastMeansLast
<1>1. IInv => LastMeansLast
  BY AcceptedTellsTheTruth DEF LastMeansLast
<1> QED
  BY <1>1, Invariance, PTL

\* A binary proof's index is one a path of its length can have, also where the
\* bound on it overflows.
LEMMA IndexIsBounded ==
    ASSUME req \in Requests, ErrorsIn(Reads) = {}, req.form = "binary"
    PROVE  req.index < TwoTo[Len(req.nodes)]
<1>1. req.index \in Nat /\ Len(req.nodes) \in Nat
  BY RequestsAssumption
<1>2. ErrorAt(4) = "none"
  <2>1. 1..Reads = 1..(4 + Len(req.nodes)) /\ \A j \in 1..4 : j \in 1..Reads
    BY <1>1 DEF Reads
  <2>2. \A j \in 1..4 : (\A i \in 1..(j - 1) : ErrorAt(i) = "none") => ErrorAt(j) = "none"
    BY <2>1 DEF ErrorsIn
  <2>3. ErrorAt(1) = "none"
    BY <2>2
  <2>4. ErrorAt(2) = "none"
    <3>1. \A i \in 1..(2 - 1) : i = 1
      OBVIOUS
    <3> QED
      BY <2>2, <2>3, <3>1
  <2>5. ErrorAt(3) = "none"
    <3>1. \A i \in 1..(3 - 1) : i = 1 \/ i = 2
      OBVIOUS
    <3> QED
      BY <2>2, <2>3, <2>4, <3>1
  <2> QED
    <3>1. \A i \in 1..(4 - 1) : i = 1 \/ i = 2 \/ i = 3
      OBVIOUS
    <3> QED
      BY <2>2, <2>3, <2>4, <2>5, <3>1
<1>3. ~ (req.index >= ShiftedOne(Len(req.nodes)))
  BY <1>2 DEF ErrorAt
<1>4. TwoTo[Len(req.nodes)] \in Nat /\ WordBits \in Nat
  BY <1>1, TwoToValues, ChainAssumption
<1> QED
  BY <1>1, <1>3, <1>4 DEF ShiftedOne

\* No accepted proof is longer than the block's tree is high; one of a
\* transaction begins at the leaves, at the transaction's index if it is one of
\* theirs; and a binary proof's index fits its path.
THEOREM PathsFit == Spec => []IndexFitsPath
<1>1. ASSUME IInv, Accepted, NEW b \in About(req), NEW t \in Txs, req.txid = TxID(t)
      PROVE  /\ Level(req, b) = 0
             /\ \E p \in 1..Len(TxsOf[b]) :
                   /\ TxsOf[b][p] = t
                   /\ req.index < Len(TxsOf[b]) => req.index + 1 = p
  <2> DEFINE list == TxsOf[b]
             g == Level(req, b)
  <2>1. IsList(list) /\ Len(list) \in Nat \ {0} /\ req.index \in Nat
    BY <1>1, Blocks, RequestsAssumption DEF About, IInv
  <2>2. g \in Nat
    BY <1>1, AcceptedTellsTheTruth
  <2>3. PICK y \in At(req, b) : req.index < Width(list, g) => req.index = y
    BY <1>1, AcceptedTellsTheTruth
  <2>4. y \in 0..(Width(list, g) - 1) /\ Node(list, g, y) = TxID(t)
    BY <1>1, <2>2, <2>3 DEF At, Width, Node
  <2> HIDE DEF g
  <2>5. g = 0
    <3> SUFFICES ASSUME g # 0 PROVE FALSE
      OBVIOUS
    <3>1. PICK l, r : Node(list, g, y) = MerkleTreeParent(l, r)
      BY <2>1, <2>2, <2>4, InnerNode
    <3> QED
      BY <2>4, <3>1, IdIsNoParent
  <2>6. y \in 0..(Len(list) - 1) /\ Width(list, 0) = Len(list)
    BY <2>1, <2>4, <2>5, WidthValues
  <2>7. list[y + 1] = t
    BY <2>1, <2>4, <2>5, <2>6, NodeLeaf DEF TxID
  <2>8. y + 1 \in 1..Len(list) /\ (req.index < Len(list) => req.index + 1 = y + 1)
    BY <2>1, <2>3, <2>5, <2>6
  <2> QED
    BY <2>5, <2>7, <2>8 DEF g
<1>2. ASSUME IInv, Accepted, req.form = "binary" PROVE req.index < TwoTo[Len(req.nodes)]
  BY <1>2, IndexIsBounded DEF IInv, Progress, Accepted, Returned
<1>3. ASSUME IInv, Accepted, NEW b \in About(req) PROVE Level(req, b) >= 0
  <2>1. Level(req, b) \in Nat
    BY <1>3, AcceptedTellsTheTruth
  <2> QED
    BY <2>1
<1>4. IInv => IndexFitsPath
  BY <1>1, <1>2, <1>3 DEF IndexFitsPath
<1> QED
  BY <1>4, Invariance, PTL

-----------------------------------------------------------------------------
(* The refinement *)

\* The proof that belongs to a transaction is accepted.
LEMMA HonestIsValid ==
    ASSUME IInv, Returned, Honest(req)
    PROVE  Accepted
<1>1. Judged
  BY DEF IInv, OnTheWay, Judged
<1>2. PICK b \in About(req) : Belongs(req, b)
  BY DEF Honest
<1> DEFINE list == TxsOf[b]
<1>3. /\ b \in DOMAIN TxsOf /\ IsBlock(list) /\ IsList(list) /\ Len(list) \in Nat \ {0}
      /\ Height(list) \in Nat /\ HashMerkleRoot[b] = Node(list, Height(list), 0)
  BY Blocks DEF About
<1>4. /\ k = Len(req.nodes) + 1 /\ valid = (c = merkleRoot)
      /\ merkleRoot = HashMerkleRoot[b] /\ c = Node(list, k - 1, index)
      /\ req.index \in Nat /\ Len(req.nodes) \in Nat
      /\ index = Above(req.index)[k - 1]
  BY <1>1, <1>2, RequestsAssumption DEF IInv, Progress, OnTheWay, Judged, Returned
<1>5. Len(req.nodes) = Height(list) /\ req.index \in 0..(Len(list) - 1)
  BY <1>2, <1>3, <1>4 DEF Belongs, HonestNodes
<1>6. k - 1 = Height(list) /\ Above(req.index)[Height(list)] = 0
  BY <1>3, <1>4, <1>5, AboveHeight
<1>7. c = merkleRoot
  BY <1>3, <1>4, <1>6
<1>8. valid
  BY <1>4, <1>7
<1> QED
  BY <1>1, <1>8 DEF Accepted, Judged

\* The answer is one of those Inclusion allows.
TrueAnswer == Verdict # "none" => Verdict \in Promise!Answers(req)

LEMMA AnswersAreTrue == IInv => TrueAnswer
<1> SUFFICES ASSUME IInv, Verdict # "none" PROVE Verdict \in Promise!Answers(req)
  BY DEF TrueAnswer
<1>1. CASE pc = "panicked"
  <2>1. ~ Whole(req) /\ ~ Honest(req)
    BY <1>1 DEF IInv, Progress, Honest
  <2>2. Verdict = "panic"
    BY <1>1 DEF Verdict
  <2> QED
    BY <2>1, <2>2 DEF Promise!Answers, Promise!Refusals
<1>2. CASE pc # "panicked"
  <2>1. Returned /\ Verdict \in {"error", "invalid", "valid", "validLast"}
    BY <1>2 DEF Verdict
  <2>2. CASE About(req) = {}
    BY <2>1, <2>2 DEF Promise!Answers, Promise!Refusals, Anchored
  <2>3. CASE About(req) # {} /\ ~ Accepted
    <3>1. ~ Honest(req)
      BY <2>1, <2>3, HonestIsValid
    <3>2. Verdict \in {"error", "invalid"}
      BY <1>2, <2>1, <2>3 DEF Verdict, Accepted
    <3> QED
      BY <2>3, <3>1, <3>2 DEF Promise!Answers, Promise!Refusals, Anchored
  <2>4. CASE About(req) # {} /\ Accepted
    <3>1. Holds(req)
      BY <2>4, AcceptedTellsTheTruth DEF Holds
    <3>2. isLastInTree <=> Last(req)
      <4>1. \A b \in About(req) : isLastInTree <=> IsLast(req, b)
        BY <2>4, AcceptedTellsTheTruth
      <4> QED
        BY <2>4, <4>1 DEF Last
    <3>3. Verdict = IF Last(req) THEN "validLast" ELSE "valid"
      BY <1>2, <2>4, <3>2 DEF Verdict, Accepted
    <3> QED
      BY <2>4, <3>1, <3>3 DEF Promise!Answers, Promise!Valid, Anchored
  <2> QED
    BY <2>2, <2>3, <2>4
<1> QED
  BY <1>1, <1>2

\* The verifier implements the safety of Inclusion: the answers it gives are
\* true to every block, of any size, a proof can be about, and the proof an
\* honest prover builds is accepted.
THEOREM Refinement == Spec => Promise!Safety
<1>1. Init => Promise!Init
  BY DEF Init, Promise!Init, Claims, Verdict, Returned
<1>2. IInv /\ TrueAnswer' /\ [Next]_vars => [Promise!Answer]_<<req, Verdict>>
  <2> SUFFICES ASSUME IInv, TrueAnswer', [Next]_vars
               PROVE  [Promise!Answer]_<<req, Verdict>>
    OBVIOUS
  <2>1. CASE UNCHANGED vars
    BY <2>1 DEF vars, Verdict, Returned
  <2>2. CASE Next
    <3>1. req' = req /\ ~ Returned /\ pc # "panicked"
      BY <2>2 DEF Next, Parse, ParseShort, Parsed, Panic, TxidFromTxOrID, Target, Flags,
                  VerifyNode, Return, Fail, Continue, Returned
    <3>2. Verdict = "none"
      BY <3>1 DEF Verdict
    <3>3. CASE Verdict' = "none"
      BY <3>1, <3>2, <3>3
    <3>4. CASE Verdict' # "none"
      <4>1. Promise!Answers(req)' = Promise!Answers(req)
        BY <3>1 DEF Promise!Answers, Promise!Valid, Promise!Refusals, Anchored, Holds,
                    Last, IsLast, At, Level, HeightOf, Whole, Honest, About, Belongs,
                    HonestNodes, HashMerkleRoot
      <4>2. Verdict' \in Promise!Answers(req)
        BY <3>4, <4>1 DEF TrueAnswer
      <4> QED
        BY <3>1, <3>2, <4>2 DEF Promise!Answer
    <3> QED
      BY <3>3, <3>4
  <2> QED
    BY <2>1, <2>2
<1>3. Spec => []IInv /\ []TrueAnswer
  BY Invariance, AnswersAreTrue, PTL
<1> QED
  BY <1>1, <1>2, <1>3, PTL DEF Spec, Promise!Safety

=============================================================================

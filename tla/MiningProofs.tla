----------------------------- MODULE MiningProofs -----------------------------
(***************************************************************************)
(* Theorems about Mining, for jobs, blocks and targets of any size, and    *)
(* bytes of any number of bits.                                            *)
(***************************************************************************)
EXTENDS Mining, BlockTreeProofs

-----------------------------------------------------------------------------
(* Products and powers *)

\* A product grows with its first factor.
LEMMA ProductGrows ==
    ASSUME NEW a \in Nat, NEW b \in Nat, NEW d \in Nat, a <= b
    PROVE  a * d <= b * d
<1>1. b * d = a * d + (b - a) * d
  OBVIOUS
<1>2. (b - a) * d \in Nat
  <2>1. b - a \in Nat
    OBVIOUS
  <2> HIDE DEF Nat
  <2> QED
    BY <2>1
<1> QED
  BY <1>1, <1>2

\* What quotient and remainder are.
LEMMA Division ==
    ASSUME NEW n \in Nat, NEW d \in Nat \ {0}
    PROVE  /\ n \div d \in Nat /\ n % d \in 0..(d - 1)
           /\ n = d * (n \div d) + (n % d)
OBVIOUS

\* There are no others.
LEMMA DivisionIsUnique ==
    ASSUME NEW d \in Nat \ {0}, NEW q \in Nat, NEW r \in 0..(d - 1)
    PROVE  (d * q + r) % d = r /\ (d * q + r) \div d = q
OBVIOUS

\* A power of a sum is the product of the powers.
LEMMA TwoToSum ==
    ASSUME NEW a \in Nat, NEW b \in Nat
    PROVE  TwoTo[a + b] = TwoTo[a] * TwoTo[b]
<1> DEFINE S == {n \in Nat : TwoTo[a + n] = TwoTo[a] * TwoTo[n]}
<1>1. 0 \in S
  BY TwoToValues
<1>2. ASSUME NEW n \in Nat, n \in S PROVE n + 1 \in S
  <2>1. TwoTo[a + n] = TwoTo[a] * TwoTo[n]
    BY <1>2
  <2>2. /\ TwoTo[(a + n) + 1] = 2 * TwoTo[a + n] /\ TwoTo[n + 1] = 2 * TwoTo[n]
        /\ TwoTo[a] \in Nat /\ TwoTo[n] \in Nat
    BY TwoToValues
  <2>3. TwoTo[a] * (2 * TwoTo[n]) = 2 * (TwoTo[a] * TwoTo[n])
    BY <2>2
  <2>4. (a + n) + 1 = a + (n + 1)
    OBVIOUS
  <2> QED
    BY <2>1, <2>2, <2>3, <2>4
<1> HIDE DEF S
<1>3. b \in S
  BY <1>1, <1>2, Induction
<1> QED
  BY <1>3 DEF S

-----------------------------------------------------------------------------
(* Targets *)

\* What a number shifted by some bytes is.
LEMMA ShiftedValues ==
    ASSUME NEW n \in Nat, NEW k \in Nat
    PROVE  /\ ByteBits * k \in Nat /\ TwoTo[ByteBits * k] \in Nat \ {0}
           /\ Shifted(n, k) = n * TwoTo[ByteBits * k] /\ Shifted(n, k) \in Nat
<1>1. ByteBits * k \in Nat
  BY MiningAssumption
<1>2. TwoTo[ByteBits * k] \in Nat \ {0}
  BY <1>1, TwoToValues
<1> QED
  BY <1>1, <1>2 DEF Shifted

\* Shifting twice is shifting by the sum.
LEMMA ShiftedSum ==
    ASSUME NEW j \in Nat, NEW k \in Nat
    PROVE  TwoTo[ByteBits * (j + k)] = TwoTo[ByteBits * j] * TwoTo[ByteBits * k]
<1>1. ByteBits * j \in Nat /\ ByteBits * k \in Nat
  BY MiningAssumption
<1>2. ByteBits * (j + k) = ByteBits * j + ByteBits * k
  BY MiningAssumption
<1> QED
  BY <1>1, <1>2, TwoToSum

\* The parts of the compact form are numbers; where the sign is not set, the
\* mantissa with it is the mantissa.
LEMMA CompactValues ==
    ASSUME job.bits \in Nat
    PROVE  /\ Mantissa \in Nat /\ Exponent \in Nat
           /\ job.bits % TwoTo[3 * ByteBits] \in Nat
           /\ ~ IsNegative => job.bits % TwoTo[3 * ByteBits] = Mantissa
<1> DEFINE s == SignBit
<1>1. 3 * ByteBits - 1 \in Nat /\ 3 * ByteBits \in Nat
  BY MiningAssumption
<1>2. /\ s \in Nat \ {0} /\ TwoTo[3 * ByteBits] \in Nat \ {0}
      /\ TwoTo[(3 * ByteBits - 1) + 1] = 2 * s
  BY <1>1, TwoToValues DEF SignBit
<1>3. (3 * ByteBits - 1) + 1 = 3 * ByteBits
  BY MiningAssumption
<1>4. TwoTo[3 * ByteBits] = 2 * s
  BY <1>2, <1>3
<1>5. /\ Mantissa \in 0..(s - 1)
      /\ job.bits \div s \in Nat /\ job.bits = s * (job.bits \div s) + Mantissa
  BY <1>2, Division DEF Mantissa
<1>6. Exponent \in Nat /\ job.bits % TwoTo[3 * ByteBits] \in Nat
  <2> DEFINE w == TwoTo[3 * ByteBits]
  <2>1. w \in Nat \ {0}
    BY <1>2
  <2>2. Exponent = job.bits \div w
    BY DEF Exponent
  <2> HIDE DEF w
  <2>3. job.bits \div w \in Nat /\ job.bits % w \in 0..(w - 1)
    BY <2>1, Division
  <2>4. job.bits % w \in Nat
    BY <2>1, <2>3
  <2> QED
    BY <2>2, <2>3, <2>4 DEF w
<1>7. ASSUME ~ IsNegative PROVE job.bits % TwoTo[3 * ByteBits] = Mantissa
  <2> DEFINE k == job.bits \div s
             j == k \div 2
  <2>1. k \in Nat /\ k % 2 # 1
    BY <1>5, <1>7 DEF IsNegative
  <2>2. j \in Nat /\ k = 2 * j
    BY <2>1
  <2> HIDE DEF j
  <2>3. job.bits = s * (2 * j) + Mantissa
    BY <1>5, <2>2
  <2> HIDE DEF s, k
  <2>4. s * (2 * j) = (2 * s) * j
    BY <1>2, <2>2
  <2>5. Mantissa \in 0..(2 * s - 1) /\ 2 * s \in Nat \ {0}
    BY <1>2, <1>5
  <2>6. ((2 * s) * j + Mantissa) % (2 * s) = Mantissa
    BY <2>2, <2>5, DivisionIsUnique
  <2> QED
    BY <1>4, <2>3, <2>4, <2>6
<1> QED
  BY <1>2, <1>5, <1>6, <1>7

\* A hash below the expanded target meets the target the compact form stands
\* for, and the difficulty's target is not below it.
LEMMA TargetIsMet ==
    ASSUME job.bits \in Nat, NEW x \in Nat, x < ExpandTargetFromAsInt
    PROVE  /\ ~ IsNegative
           /\ (x + 1) * Shifted(1, 3) <= Shifted(Mantissa, Exponent)
           /\ toCompactSize >= ExpandTargetFromAsInt
           /\ Exponent >= 3 => toCompactSize = ExpandTargetFromAsInt
<1> DEFINE M == Mantissa
           e == Exponent
           D == TwoTo[ByteBits * (3 - e)]
           U == TwoTo[ByteBits * (e - 3)]
           E == TwoTo[ByteBits * e]
           C == TwoTo[ByteBits * 3]
           bn == IF e <= 3 THEN M \div Shifted(1, 3 - e) ELSE Shifted(M, e - 3)
<1>1. M \in Nat /\ e \in Nat
  BY CompactValues
<1>2. ExpandTargetFromAsInt = IF IsNegative THEN -bn ELSE bn
  BY DEF ExpandTargetFromAsInt
<1>3. E \in Nat \ {0} /\ C \in Nat \ {0} /\ Shifted(1, 3) = C /\ Shifted(M, e) = M * E
  <2>1. E \in Nat \ {0} /\ Shifted(M, e) = M * E
    BY <1>1, ShiftedValues
  <2>2. C \in Nat \ {0} /\ Shifted(1, 3) = 1 * C
    BY ShiftedValues
  <2> HIDE DEF C
  <2> QED
    BY <2>1, <2>2
<1>4. ASSUME e <= 3
      PROVE  D \in Nat \ {0} /\ Shifted(1, 3 - e) = D /\ C = D * E
  <2>1. 3 - e \in Nat /\ (3 - e) + e = 3
    BY <1>1, <1>4
  <2>2. D \in Nat \ {0} /\ Shifted(1, 3 - e) = 1 * D
    BY <2>1, ShiftedValues
  <2>3. TwoTo[ByteBits * ((3 - e) + e)] = D * E
    BY <1>1, <2>1, ShiftedSum
  <2> HIDE DEF D
  <2> QED
    BY <2>1, <2>2, <2>3
<1>5. ASSUME e > 3
      PROVE  U \in Nat \ {0} /\ Shifted(M, e - 3) = M * U /\ E = U * C
  <2>1. e - 3 \in Nat /\ (e - 3) + 3 = e
    BY <1>1, <1>5
  <2>2. U \in Nat \ {0} /\ Shifted(M, e - 3) = M * U
    BY <1>1, <2>1, ShiftedValues
  <2>3. TwoTo[ByteBits * ((e - 3) + 3)] = U * C
    BY <1>1, <2>1, ShiftedSum
  <2> QED
    BY <2>1, <2>2, <2>3
<1>6. toCompactSize = (job.bits % TwoTo[3 * ByteBits])
                        * (IF e < 3 THEN 1 ELSE Shifted(1, e - 3))
  BY DEF toCompactSize
<1> HIDE DEF M, e, D, U, E, C
<1>7. bn \in Nat
  <2>1. CASE e <= 3
    BY <1>1, <1>4, <2>1, Division
  <2>2. CASE e > 3
    BY <1>1, <1>5, <2>2
  <2> QED
    BY <1>1, <2>1, <2>2
<1>8. ~ IsNegative /\ x < bn /\ ExpandTargetFromAsInt = bn
  <2> HIDE DEF bn
  <2> QED
    BY <1>2, <1>7
<1>9. toCompactSize = M * (IF e < 3 THEN 1 ELSE Shifted(1, e - 3))
  BY <1>6, <1>8, CompactValues DEF M
<1>10. CASE e <= 3
  <2>1. bn = M \div D
    BY <1>4, <1>10
  <2>2. bn * D <= M /\ bn <= M
    <3> HIDE DEF bn
    <3>1. M = D * bn + (M % D) /\ M % D \in Nat
      <4>1. M = D * (M \div D) + (M % D) /\ M % D \in 0..(D - 1)
        BY <1>1, <1>4, <1>10, Division
      <4> QED
        BY <1>4, <1>10, <2>1, <4>1
    <3>2. 1 <= D /\ D \in Nat
      BY <1>4, <1>10
    <3>3. 1 * bn <= D * bn
      BY <1>7, <3>2, ProductGrows
    <3>4. D * bn = bn * D /\ D * bn \in Nat
      BY <1>7, <3>2
    <3> QED
      BY <1>1, <1>7, <3>1, <3>3, <3>4
  <2> HIDE DEF bn
  <2>3. (x + 1) * D <= bn * D
    BY <1>4, <1>7, <1>8, <1>10, ProductGrows
  <2>4. (x + 1) * D \in Nat /\ (x + 1) * D <= M
    BY <1>1, <1>4, <1>7, <1>10, <2>2, <2>3
  <2>5. ((x + 1) * D) * E <= M * E
    BY <1>1, <1>3, <2>4, ProductGrows
  <2>6. (x + 1) * (D * E) = ((x + 1) * D) * E
    BY <1>3, <1>4, <1>10
  <2>7. (x + 1) * Shifted(1, 3) <= Shifted(M, e)
    BY <1>3, <1>4, <1>10, <2>5, <2>6
  <2>8. toCompactSize = M
    <3>1. Shifted(1, 0) = 1
      BY TwoToValues, MiningAssumption DEF Shifted
    <3> QED
      BY <1>1, <1>9, <1>10, <3>1
  <2>9. e = 3 => bn = M
    <3> SUFFICES ASSUME e = 3 PROVE bn = M
      OBVIOUS
    <3>1. D = 1
      BY <1>1, TwoToValues, MiningAssumption DEF D
    <3>2. M \div 1 = M
      BY <1>1
    <3> QED
      BY <2>1, <3>1, <3>2
  <2> QED
    BY <1>1, <1>7, <1>8, <1>10, <2>2, <2>7, <2>8, <2>9 DEF M, e
<1>11. CASE e > 3
  <2>1. bn = M * U /\ U \in Nat \ {0}
    BY <1>1, <1>5, <1>11
  <2> HIDE DEF bn
  <2>2. (x + 1) * C <= bn * C
    BY <1>3, <1>7, <1>8, ProductGrows
  <2>3. (M * U) * C = M * (U * C)
    BY <1>1, <1>3, <2>1
  <2>4. (x + 1) * Shifted(1, 3) <= Shifted(M, e)
    BY <1>3, <1>5, <1>11, <2>1, <2>2, <2>3
  <2>5. toCompactSize = bn
    <3>1. e - 3 \in Nat /\ ~ (e < 3)
      BY <1>1, <1>11
    <3>2. Shifted(1, e - 3) = 1 * U
      BY <3>1, ShiftedValues DEF U
    <3> QED
      BY <1>9, <2>1, <3>1, <3>2
  <2> QED
    BY <1>7, <1>8, <2>4, <2>5 DEF M, e
<1> QED
  BY <1>1, <1>10, <1>11

-----------------------------------------------------------------------------
(* The root of the block *)

\* The fold over the branches of the coinbase arrives at the Merkle root: its
\* i-th value is the first node of level i.
LEMMA RootFromBranches ==
    ASSUME NEW others \in Nat, NEW branches,
           Len(branches) = Height(List(others)),
           \A h \in 1..Height(List(others)) : branches[h] = Node(List(others), h - 1, 1)
    PROVE  RootFrom(branches) = MerkleRoot(List(others))
<1> DEFINE list == List(others)
           H == Height(list)
           acc == CHOOSE f : f = [i \in 0..H |->
                      IF i = 0 THEN TxID(1) ELSE MerkleTreeParent(f[i - 1], branches[i])]
           nodes == [i \in 0..H |-> Node(list, i, 0)]
<1>1. IsList(list) /\ Len(list) = others + 1 /\ list[1] = 1
  BY DEF List, IsList
<1>2. /\ H \in Nat /\ Width(list, H) = 1
      /\ \A g \in 0..(H - 1) : Width(list, g) # 1
  BY <1>1, HeightExists DEF IsList
<1>3. Node(list, 0, 0) = TxID(1)
  <2>1. 0 \in 0..(Len(list) - 1)
    BY <1>1
  <2>2. Node(list, 0, 0) = TxID(list[0 + 1])
    BY <1>1, <2>1, NodeLeaf
  <2> QED
    BY <1>1, <2>2
<1> HIDE DEF list, H
<1>4. ASSUME NEW i \in Nat, i + 1 \in 1..H
      PROVE  Node(list, i + 1, 0) = MerkleTreeParent(Node(list, i, 0), branches[i + 1])
  <2>1. i \in 0..(H - 1)
    BY <1>2, <1>4
  <2>2. Width(list, i) \in Nat \ {0} /\ Width(list, i + 1) \in Nat \ {0}
    <3>1. \A h \in Nat : Width(list, h) \in Nat \ {0}
      BY <1>1, WidthValues
    <3>2. i + 1 \in Nat
      OBVIOUS
    <3> HIDE DEF list
    <3> QED
      BY <3>1, <3>2
  <2>3. 1 < Width(list, i)
    BY <1>2, <2>1, <2>2
  <2>4. 0 \in 0..(Width(list, i + 1) - 1)
    BY <2>2
  <2>5. Node(list, i + 1, 0) =
          MerkleTreeParent(Node(list, i, 2 * 0), Node(list, i, RightChild(list, i, 0)))
    BY <1>1, <2>4, NodeChildren
  <2>6. RightChild(list, i, 0) = 1 /\ 2 * 0 = 0
    BY <2>3 DEF RightChild
  <2>7. branches[i + 1] = Node(list, (i + 1) - 1, 1)
    BY <1>4 DEF list, H
  <2>8. (i + 1) - 1 = i
    OBVIOUS
  <2> QED
    BY <2>5, <2>6, <2>7, <2>8
<1>5. nodes = [i \in 0..H |->
                 IF i = 0 THEN TxID(1) ELSE MerkleTreeParent(nodes[i - 1], branches[i])]
  <2> SUFFICES ASSUME NEW i \in 0..H, i # 0
               PROVE  nodes[i] = MerkleTreeParent(nodes[i - 1], branches[i])
    BY <1>3
  <2>1. i - 1 \in Nat /\ (i - 1) + 1 = i /\ (i - 1) + 1 \in 1..H /\ i - 1 \in 0..H
    BY <1>2
  <2>2. Node(list, i, 0) = MerkleTreeParent(Node(list, i - 1, 0), branches[i])
    BY <1>4, <2>1
  <2> QED
    BY <2>1, <2>2
<1>6. acc = [i \in 0..H |->
               IF i = 0 THEN TxID(1) ELSE MerkleTreeParent(acc[i - 1], branches[i])]
  <2> DEFINE Folds(f) == f = [i \in 0..H |->
                IF i = 0 THEN TxID(1) ELSE MerkleTreeParent(f[i - 1], branches[i])]
  <2>1. \E f : Folds(f)
    BY <1>5
  <2>2. acc = CHOOSE f : Folds(f)
    OBVIOUS
  <2> HIDE DEF Folds, acc
  <2>3. Folds(acc)
    BY <2>1, <2>2
  <2> QED
    BY <2>3 DEF Folds
<1> HIDE DEF acc, nodes
<1> DEFINE S == {i \in Nat : i <= H => acc[i] = nodes[i]}
<1>7. 0 \in S
  BY <1>2, <1>5, <1>6
<1>8. ASSUME NEW i \in Nat, i \in S PROVE i + 1 \in S
  <2> SUFFICES ASSUME i + 1 <= H PROVE acc[i + 1] = nodes[i + 1]
    OBVIOUS
  <2> DEFINE next == i + 1
  <2>1. next \in 0..H /\ next # 0 /\ next - 1 = i /\ i <= H
    BY <1>2
  <2>2. acc[i] = nodes[i]
    BY <1>8, <2>1
  <2> HIDE DEF next
  <2>3. /\ acc[next] = MerkleTreeParent(acc[i], branches[next])
        /\ nodes[next] = MerkleTreeParent(nodes[i], branches[next])
    BY <1>5, <1>6, <2>1
  <2> QED
    BY <2>2, <2>3 DEF next
<1> HIDE DEF S
<1>9. H \in S
  BY <1>2, <1>7, <1>8, Induction
<1>10. acc[H] = Node(list, H, 0)
  BY <1>2, <1>9 DEF S, nodes
<1>11. RootFrom(branches) = acc[H]
  BY DEF RootFrom, acc, H, list
<1> QED
  BY <1>10, <1>11 DEF MerkleRoot, H, list

-----------------------------------------------------------------------------
(* The inductive invariant *)

\* The parts and the coinbase are what the job makes of them.
CoinbaseInv ==
    /\ pc = "parts" => coinbase1 = [declared |-> 0, data |-> 0]
    /\ pc # "parts" => coinbase1 = makeCoinbase1(job.text)
    /\ pc \notin {"parts", "error"} => coinbase2 = makeCoinbaseOutputTransactions
    /\ pc \notin {"parts", "error", "build"} =>
          /\ coinbase.declared = coinbase1.declared
          /\ coinbase.script = coinbase1.data + job.nonces[1] + job.nonces[2]
          /\ coinbase.stated = coinbase2.stated /\ coinbase.outputs = coinbase2.outputs

\* The header has the root of the block from then on.
HeaderInv ==
    /\ pc \in {"parts", "build", "root", "error"} => header.fields = job.fields
    /\ pc \in {"mine", "rangePanic", "mined", "sent", "parsed"} =>
          header = [root |-> MerkleRoot(List(job.others)),
                    fields |-> [job.fields EXCEPT !.root = 32]]

\* A block that was mined meets the target.
TargetInv ==
    /\ hash \in Hashes \cup {0}
    /\ pc \in {"mined", "sent", "parsed"} =>
          hash \in Hashes /\ hash < ExpandTargetFromAsInt

\* The bytes hold the block, and what is read from them is it, where the
\* parts have the lengths they state.
BlockInv ==
    /\ pc \in {"sent", "parsed"} =>
          stream = [header |-> header, count |-> job.others + 1,
                    txs |-> <<coinbase>> \o [j \in 1..job.others |-> j + 1]]
    /\ DOMAIN parsed = {"result", "header", "txs"}
    /\ parsed.result \in {"none", "block", "error", "rangePanic"}
    /\ pc = "parsed" =>
          (header.fields = Fields /\ TxOK(coinbase) =>
             parsed = [result |-> "block", header |-> header, txs |-> stream.txs])

IInv ==
    /\ pc \in {"parts", "build", "root", "mine", "mined", "sent", "parsed",
               "error", "rangePanic"}
    /\ job \in Jobs
    /\ CoinbaseInv /\ HeaderInv /\ TargetInv /\ BlockInv

-----------------------------------------------------------------------------
(* The invariant *)

\* What the jobs are.
LEMMA JobValues ==
    ASSUME job \in Jobs
    PROVE  /\ job.text \in Nat /\ job.others \in Nat /\ job.bits \in Nat
           /\ job.nonces[1] \in Nat /\ job.nonces[2] \in Nat
           /\ job.fields \in [prev : Nat, root : Nat, bits : Nat]
           /\ RootFrom(Branches[job.others]) = MerkleRoot(List(job.others))
<1>1. /\ {job.text, job.others, job.bits} \subseteq Nat
      /\ job.nonces \in Nat \X Nat
      /\ job.fields \in [prev : Nat, root : Nat, bits : Nat]
  BY MiningAssumption
<1>2. /\ Len(Branches[job.others]) = Height(List(job.others))
      /\ \A h \in 1..Height(List(job.others)) :
            Branches[job.others][h] = Node(List(job.others), h - 1, 1)
  BY MiningAssumption
<1>3. RootFrom(Branches[job.others]) = MerkleRoot(List(job.others))
  BY <1>1, <1>2, RootFromBranches
<1> QED
  BY <1>1, <1>3

\* Nothing is made yet when a job arrives.
LEMMA InitIInv == Init => IInv
<1> SUFFICES ASSUME Init PROVE IInv
  OBVIOUS
<1> QED
  BY DEF Init, IInv, CoinbaseInv, HeaderInv, TargetInv, BlockInv

\* The coinbase is put together.
LEMMA CoinbaseStep ==
    ASSUME IInv, GetCoinbaseParts \/ BuildCoinbase PROVE IInv'
<1>1. CASE GetCoinbaseParts
  <2>1. /\ pc = "parts" /\ coinbase1' = makeCoinbase1(job.text)
        /\ UNCHANGED <<job, coinbase, header, hash, stream, parsed>>
        /\ \/ pc' = "error"
           \/ pc' = "build" /\ coinbase2' = makeCoinbaseOutputTransactions
    BY <1>1 DEF GetCoinbaseParts
  <2>2. CoinbaseInv'
    BY <2>1 DEF CoinbaseInv, makeCoinbase1, makeCoinbaseOutputTransactions
  <2>3. HeaderInv' /\ TargetInv'
    BY <2>1 DEF IInv, HeaderInv, TargetInv
  <2>4. BlockInv'
    BY <2>1 DEF IInv, BlockInv
  <2> QED
    BY <2>1, <2>2, <2>3, <2>4 DEF IInv
<1>2. CASE BuildCoinbase
  <2>1. /\ pc = "build" /\ pc' = "root"
        /\ UNCHANGED <<job, coinbase1, coinbase2, header, hash, stream, parsed>>
        /\ coinbase'.declared = coinbase1.declared
        /\ coinbase'.script = coinbase1.data + job.nonces[1] + job.nonces[2]
        /\ coinbase'.stated = coinbase2.stated /\ coinbase'.outputs = coinbase2.outputs
    BY <1>2 DEF BuildCoinbase
  <2>2. CoinbaseInv'
    BY <2>1 DEF IInv, CoinbaseInv, makeCoinbase1, makeCoinbaseOutputTransactions
  <2>3. HeaderInv' /\ TargetInv'
    BY <2>1 DEF IInv, HeaderInv, TargetInv
  <2>4. BlockInv'
    BY <2>1 DEF IInv, BlockInv
  <2> QED
    BY <2>1, <2>2, <2>3, <2>4 DEF IInv
<1> QED
  BY <1>1, <1>2

\* The header gets its root.
LEMMA HeaderStep ==
    ASSUME IInv, BuildMerkleRootFromCoinbase PROVE IInv'
<1>1. /\ pc = "root" /\ pc' = "mine"
      /\ header' = [root |-> RootFrom(Branches[job.others]),
                    fields |-> [header.fields EXCEPT !.root = 32]]
      /\ UNCHANGED <<job, coinbase1, coinbase2, coinbase, hash, stream, parsed>>
  BY DEF BuildMerkleRootFromCoinbase
<1>2. header' = [root |-> MerkleRoot(List(job.others)),
                 fields |-> [job.fields EXCEPT !.root = 32]]
  BY <1>1, JobValues DEF IInv, HeaderInv
<1>3. CoinbaseInv'
  BY <1>1 DEF IInv, CoinbaseInv, makeCoinbase1, makeCoinbaseOutputTransactions
<1>4. HeaderInv' /\ TargetInv'
  BY <1>1, <1>2 DEF IInv, HeaderInv, TargetInv
<1>5. BlockInv'
  BY <1>1 DEF IInv, BlockInv
<1> QED
  BY <1>1, <1>3, <1>4, <1>5 DEF IInv

\* The expanded target is that of the job.
LEMMA SameTarget ==
    ASSUME job' = job PROVE ExpandTargetFromAsInt' = ExpandTargetFromAsInt
BY DEF ExpandTargetFromAsInt, Exponent, Mantissa, IsNegative, SignBit, Shifted

\* A nonce is tried.
LEMMA ValidStep ==
    ASSUME IInv, Valid PROVE IInv'
<1>1. /\ pc = "mine" /\ pc' \in {"rangePanic", "mined", "mine"}
      /\ UNCHANGED <<job, coinbase1, coinbase2, coinbase, header, stream, parsed>>
      /\ hash' \in Hashes \cup {0}
      /\ pc' = "mined" => hash' \in Hashes /\ hash' < ExpandTargetFromAsInt
  BY DEF Valid, IInv, TargetInv
<1>2. CoinbaseInv'
  BY <1>1 DEF IInv, CoinbaseInv, makeCoinbase1, makeCoinbaseOutputTransactions
<1>3. HeaderInv'
  BY <1>1 DEF IInv, HeaderInv
<1>4. TargetInv'
  BY <1>1, SameTarget DEF TargetInv
<1>5. BlockInv'
  BY <1>1 DEF IInv, BlockInv
<1> QED
  BY <1>1, <1>2, <1>3, <1>4, <1>5 DEF IInv

\* The block is written, and read.
LEMMA BlockStep ==
    ASSUME IInv, Bytes \/ NewBlockFromBytes PROVE IInv'
<1>1. CASE Bytes
  <2>1. /\ pc = "mined" /\ pc' = "sent"
        /\ stream' = [header |-> header, count |-> job.others + 1,
                      txs |-> <<coinbase>> \o [j \in 1..job.others |-> j + 1]]
        /\ UNCHANGED <<job, coinbase1, coinbase2, coinbase, header, hash, parsed>>
    BY <1>1 DEF Bytes
  <2>2. CoinbaseInv'
    BY <2>1 DEF IInv, CoinbaseInv, makeCoinbase1, makeCoinbaseOutputTransactions
  <2>3. HeaderInv'
    BY <2>1 DEF IInv, HeaderInv
  <2>4. TargetInv'
    BY <2>1, SameTarget DEF IInv, TargetInv
  <2>5. BlockInv'
    BY <2>1 DEF IInv, BlockInv
  <2> QED
    BY <2>1, <2>2, <2>3, <2>4, <2>5 DEF IInv
<1>2. CASE NewBlockFromBytes
  <2>1. /\ pc = "sent" /\ pc' = "parsed"
        /\ UNCHANGED <<job, coinbase1, coinbase2, coinbase, header, hash, stream>>
    BY <1>2 DEF NewBlockFromBytes
  <2> DEFINE others == [j \in 1..job.others |-> j + 1]
             txs == <<coinbase>> \o others
  <2>2. stream = [header |-> header, count |-> job.others + 1, txs |-> txs]
    BY <2>1 DEF IInv, BlockInv
  <2>3. job.others \in Nat
    BY JobValues DEF IInv
  <2>4. txs[1] = coinbase /\ SubSeq(txs, 1, job.others + 1) = txs
    <3>1. others \in Seq(Nat) /\ Len(others) = job.others
      BY <2>3
    <3> DEFINE T == {coinbase} \cup Nat
    <3>2. <<coinbase>> \in Seq(T) /\ others \in Seq(T)
      BY <3>1
    <3> HIDE DEF others, T
    <3>3. txs \in Seq(T) /\ Len(txs) = 1 + job.others /\ txs[1] = coinbase
      BY <2>3, <3>1, <3>2, ConcatProperties
    <3> QED
      BY <2>3, <3>3, SubSeqProperties
  <2>5. ASSUME header.fields = Fields, TxOK(coinbase)
        PROVE  parsed' = [result |-> "block", header |-> header, txs |-> stream.txs]
    BY <1>2, <2>2, <2>4, <2>5 DEF NewBlockFromBytes, Read, Count
  <2>6. /\ DOMAIN parsed' = {"result", "header", "txs"}
        /\ parsed'.result \in {"none", "block", "error", "rangePanic"}
    <3>1. \A result :
             /\ DOMAIN Failed(result) = {"result", "header", "txs"}
             /\ Failed(result).result = result
      BY DEF IInv, BlockInv, Failed
    <3>2. DOMAIN Misread = {"result", "header", "txs"} /\ Misread.result = "block"
      BY DEF Misread
    <3>3. \/ /\ DOMAIN parsed' = {"result", "header", "txs"}
             /\ parsed'.result = "block"
          \/ parsed' \in {Misread, Failed("error"), Failed("rangePanic")}
      BY <1>2 DEF NewBlockFromBytes
    <3> QED
      BY <3>1, <3>2, <3>3
  <2>7. CoinbaseInv'
    BY <2>1 DEF IInv, CoinbaseInv, makeCoinbase1, makeCoinbaseOutputTransactions
  <2>8. HeaderInv'
    BY <2>1 DEF IInv, HeaderInv
  <2>9. TargetInv'
    BY <2>1, SameTarget DEF IInv, TargetInv
  <2>10. BlockInv'
    BY <2>1, <2>5, <2>6 DEF IInv, BlockInv, TxOK
  <2> QED
    BY <2>1, <2>7, <2>8, <2>9, <2>10 DEF IInv
<1> QED
  BY <1>1, <1>2

\* Every step of a miner and of who reads the block keeps the invariant.
LEMMA NextIInv == IInv /\ [Next]_vars => IInv'
<1>1. CASE UNCHANGED vars
  BY <1>1, SameTarget DEF vars, IInv, CoinbaseInv, HeaderInv, TargetInv, BlockInv,
     makeCoinbase1, makeCoinbaseOutputTransactions
<1> QED
  BY <1>1, CoinbaseStep, HeaderStep, ValidStep, BlockStep DEF Next

\* From the first part of a coinbase to the block read by someone else,
\* everything is what the job makes of it.
THEOREM Invariance == Spec => []IInv
BY InitIInv, NextIInv, PTL DEF Spec

-----------------------------------------------------------------------------
(* What follows from it *)

\* The state has its type; the first part of a coinbase states and has no more
\* than the hundred bytes the network allows, and the script built from it with
\* extra nonces that fit has no more.
THEOREM TypeCorrect == Spec => []TypeOK
<1>1. ASSUME IInv PROVE TypeOK
  <2>1. coinbase1.data \in 0..ScriptLimit /\ coinbase1.declared \in 0..ScriptLimit
    BY <1>1, JobValues DEF IInv, CoinbaseInv, makeCoinbase1, AtMost, ScriptLimit,
       spaceForExtraNonce
  <2>2. ASSUME pc \notin {"parts", "error", "build"},
               job.nonces[1] + job.nonces[2] <= spaceForExtraNonce
        PROVE  coinbase.script \in 0..ScriptLimit
    <3>1. job.text \in Nat /\ job.nonces[1] \in Nat /\ job.nonces[2] \in Nat
      BY <1>1, JobValues DEF IInv
    <3>2. \A n \in Nat : AtMost(4 + n, 88) \in Nat /\ AtMost(4 + n, 88) <= 88
      BY DEF AtMost
    <3>3. coinbase1.data = AtMost(4 + job.text, 88)
      BY <1>1, <2>2 DEF IInv, CoinbaseInv, makeCoinbase1, ScriptLimit, spaceForExtraNonce
    <3>4. coinbase1.data \in Nat /\ coinbase1.data <= 88
      BY <3>1, <3>2, <3>3
    <3>5. coinbase.script = coinbase1.data + job.nonces[1] + job.nonces[2]
      BY <1>1, <2>2 DEF IInv, CoinbaseInv
    <3>6. job.nonces[1] + job.nonces[2] <= 12
      BY <2>2 DEF spaceForExtraNonce
    <3>7. \A a, b, c \in Nat : a <= 88 /\ b + c <= 12 => a + b + c \in 0..100
      OBVIOUS
    <3> DEFINE a == coinbase1.data
               b == job.nonces[1]
               c == job.nonces[2]
    <3>8. a \in Nat /\ b \in Nat /\ c \in Nat /\ a <= 88 /\ b + c <= 12
      BY <3>1, <3>4, <3>6
    <3>9. coinbase.script = a + b + c
      BY <3>5
    <3> HIDE DEF a, b, c
    <3>10. coinbase.script \in 0..100
      BY <3>7, <3>8, <3>9
    <3> QED
      BY <3>10 DEF ScriptLimit
  <2> QED
    BY <1>1, <2>1, <2>2 DEF IInv, TargetInv, BlockInv, TypeOK
<1> QED
  BY <1>1, Invariance, PTL

\* A hash that Valid accepts is below the target the compact form stands for,
\* and the difficulty reported of the block never overstates its work, whatever
\* the sign, the exponent and the number of bits in a byte.
THEOREM MinedWorkMeetsTarget == Spec => []WorkMeetsTarget
<1>1. ASSUME IInv PROVE WorkMeetsTarget
  <2> SUFFICES ASSUME pc \in {"mined", "sent", "parsed"}
               PROVE  /\ ~ IsNegative
                      /\ (hash + 1) * Shifted(1, 3) <= Shifted(Mantissa, Exponent)
                      /\ toCompactSize >= ExpandTargetFromAsInt
                      /\ Exponent >= 3 => toCompactSize = ExpandTargetFromAsInt
    BY DEF WorkMeetsTarget
  <2>1. hash \in Nat /\ hash < ExpandTargetFromAsInt /\ job.bits \in Nat
    BY <1>1, JobValues, MiningAssumption DEF IInv, TargetInv
  <2> QED
    BY <2>1, TargetIsMet
<1> QED
  BY <1>1, Invariance, PTL

\* A block mined with extra nonces that fill the space left for them, under a
\* header whose fields have their lengths, is read back as it was, under the
\* Merkle root of its list of transactions, however many there are.
THEOREM MinedBlocksReadBack == Spec => []MinedBlockReadsBack
<1>1. ASSUME IInv PROVE MinedBlockReadsBack
  <2> SUFFICES ASSUME pc = "parsed", job.fields = Fields,
                      job.nonces[1] + job.nonces[2] = spaceForExtraNonce
               PROVE  parsed = [result |-> "block",
                                header |-> [root |-> MerkleRoot(List(job.others)),
                                            fields |-> Fields],
                                txs |-> <<coinbase>> \o [j \in 1..job.others |-> j + 1]]
    BY DEF MinedBlockReadsBack
  <2>1. header = [root |-> MerkleRoot(List(job.others)), fields |-> Fields]
    <3>1. [Fields EXCEPT !.root = 32] = Fields
      BY DEF Fields
    <3> QED
      BY <1>1, <3>1 DEF IInv, HeaderInv
  <2>2. TxOK(coinbase)
    <3>1. coinbase.declared = coinbase.script
      <4>1. /\ coinbase1.declared = coinbase1.data + spaceForExtraNonce
            /\ coinbase1.data \in Nat
        BY <1>1, JobValues DEF IInv, CoinbaseInv, makeCoinbase1, AtMost, ScriptLimit,
           spaceForExtraNonce
      <4>2. /\ coinbase.declared = coinbase1.declared
            /\ coinbase.script = coinbase1.data + job.nonces[1] + job.nonces[2]
            /\ job.nonces[1] \in Nat /\ job.nonces[2] \in Nat
        BY <1>1, JobValues DEF IInv, CoinbaseInv
      <4> QED
        BY <4>1, <4>2 DEF spaceForExtraNonce
    <3>2. coinbase.stated = coinbase.outputs
      BY <1>1 DEF IInv, CoinbaseInv, makeCoinbaseOutputTransactions
    <3> QED
      BY <3>1, <3>2 DEF TxOK
  <2>3. header.fields = Fields
    BY <2>1
  <2>4. parsed = [result |-> "block", header |-> header, txs |-> stream.txs]
    BY <1>1, <2>2, <2>3 DEF IInv, BlockInv
  <2>5. stream.txs = <<coinbase>> \o [j \in 1..job.others |-> j + 1]
    <3> DEFINE txs == <<coinbase>> \o [j \in 1..job.others |-> j + 1]
    <3>1. stream = [header |-> header, count |-> job.others + 1, txs |-> txs]
      BY <1>1 DEF IInv, BlockInv
    <3> HIDE DEF txs
    <3>2. stream.txs = txs
      BY <3>1
    <3> QED
      BY <3>2 DEF txs
  <2> QED
    BY <2>1, <2>4, <2>5
<1> QED
  BY <1>1, Invariance, PTL

=============================================================================

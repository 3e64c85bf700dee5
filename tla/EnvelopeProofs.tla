---------------------------- MODULE EnvelopeProofs ----------------------------
(***************************************************************************)
(* Theorems about Envelope, for envelopes of any shape, with any number of *)
(* parents and callbacks.                                                  *)
(***************************************************************************)
EXTENDS Envelope, FiniteSetTheorems, SequenceTheorems, TLAPS

-----------------------------------------------------------------------------
(* Sequences *)

\* A sequence of n elements, whatever they are.
IsSeq(q, n) == n \in Nat /\ Len(q) = n /\ q = [j \in 1..n |-> q[j]]

\* What that says.
LEMMA SeqValues ==
    ASSUME NEW q, NEW n, IsSeq(q, n)
    PROVE  n \in Nat /\ Len(q) = n /\ DOMAIN q = 1..n
BY DEF IsSeq

\* What Sequences calls one is one, and the other way round.
LEMMA SeqIsSeq ==
    ASSUME NEW q, NEW T
    PROVE  /\ q \in Seq(T) => IsSeq(q, Len(q))
           /\ \A n : IsSeq(q, n) /\ (\A j \in 1..n : q[j] \in T) => q \in Seq(T)
<1>1. ASSUME q \in Seq(T) PROVE IsSeq(q, Len(q))
  BY <1>1, LenProperties DEF IsSeq
<1>2. ASSUME NEW n, IsSeq(q, n), \A j \in 1..n : q[j] \in T PROVE q \in Seq(T)
  <2>1. n \in Nat /\ q \in [1..n -> T]
    BY <1>2 DEF IsSeq
  <2> QED
    BY <2>1, SeqDef
<1> QED
  BY <1>1, <1>2

\* A sequence of one.
LEMMA One ==
    ASSUME NEW e
    PROVE  IsSeq(<<e>>, 1) /\ <<e>>[1] = e
<1>1. <<e>> = [j \in 1..1 |-> e] /\ Len(<<e>>) = 1 /\ <<e>>[1] = e
  OBVIOUS
<1>2. <<e>> = [j \in 1..1 |-> <<e>>[j]]
  BY <1>1
<1> QED
  BY <1>1, <1>2 DEF IsSeq

\* One sequence after another, by a name.
Both(q, r) == q \o r

\* Both are there, and in their order.
LEMMA Joined ==
    ASSUME NEW q, NEW r, NEW m \in Nat, NEW n \in Nat, IsSeq(q, m), IsSeq(r, n)
    PROVE  /\ IsSeq(Both(q, r), m + n)
           /\ \A j \in 1..m : Both(q, r)[j] = q[j]
           /\ \A j \in 1..n : Both(q, r)[m + j] = r[j]
<1> DEFINE T == {q[j] : j \in 1..m} \cup {r[j] : j \in 1..n}
<1>1. (\A j \in 1..m : q[j] \in T) /\ (\A j \in 1..n : r[j] \in T)
  OBVIOUS
<1> HIDE DEF T
<1>2. q \in Seq(T) /\ r \in Seq(T)
  BY <1>1, SeqIsSeq
<1>3. Len(q) = m /\ Len(r) = n /\ m \in Nat /\ n \in Nat
  BY SeqValues
<1>4. /\ q \o r \in Seq(T) /\ Len(q \o r) = Len(q) + Len(r)
      /\ \A j \in 1..(Len(q) + Len(r)) :
            (q \o r)[j] = IF j <= Len(q) THEN q[j] ELSE r[j - Len(q)]
  BY <1>2, ConcatProperties
<1>5. IsSeq(q \o r, m + n)
  BY <1>3, <1>4, SeqIsSeq
<1>6. ASSUME NEW j \in 1..n PROVE (q \o r)[m + j] = r[j]
  <2> DEFINE k == m + j
  <2>1. k \in 1..(Len(q) + Len(r)) /\ ~ (k <= Len(q)) /\ k - Len(q) = j
    BY <1>3
  <2> HIDE DEF k
  <2>2. (q \o r)[k] = r[j]
    BY <1>4, <2>1
  <2> QED
    BY <2>2 DEF k
<1>7. \A j \in 1..m : (q \o r)[j] = q[j]
  BY <1>3, <1>4
<1> QED
  BY <1>5, <1>6, <1>7 DEF Both

\* A sequence with another element at one place, by a name.
With(q, k, e) == [q EXCEPT ![k] = e]

\* At the last place.
LEMMA LastChanged ==
    ASSUME NEW q, NEW n \in Nat, IsSeq(q, n), NEW e, n # 0
    PROVE  /\ IsSeq(With(q, n, e), n) /\ With(q, n, e)[n] = e
           /\ \A j \in 1..(n - 1) : With(q, n, e)[j] = q[j]
<1> DEFINE r == [q EXCEPT ![n] = e]
<1>1. n \in Nat \ {0} /\ q = [j \in 1..n |-> q[j]] /\ DOMAIN q = 1..n
  BY DEF IsSeq
<1>2. DOMAIN r = 1..n /\ r[n] = e /\ \A j \in 1..(n - 1) : r[j] = q[j]
  BY <1>1
<1>3. r = [j \in 1..n |-> r[j]]
  BY <1>1
<1> HIDE DEF r
<1>4. Len(r) = n
  BY <1>1, <1>3
<1>5. IsSeq(r, n)
  BY <1>1, <1>3, <1>4 DEF IsSeq
<1> QED
  BY <1>2, <1>5 DEF r, With

\* With one more, by a name.
Added(q, e) == Append(q, e)

\* One element more, at the end.
LEMMA LastAdded ==
    ASSUME NEW q, NEW n \in Nat, IsSeq(q, n), NEW e
    PROVE  /\ IsSeq(Added(q, e), n + 1) /\ Added(q, e)[n + 1] = e
           /\ \A j \in 1..n : Added(q, e)[j] = q[j]
<1> DEFINE r == Append(q, e)
           T == {q[j] : j \in 1..n} \cup {e}
<1>1. q \in Seq(T) /\ e \in T
  BY SeqIsSeq
<1>2. Len(q) = n /\ n \in Nat
  BY SeqValues
<1> HIDE DEF T
<1>3. r \in Seq(T) /\ Len(r) = n + 1 /\ r[n + 1] = e /\ \A j \in 1..n : r[j] = q[j]
  BY <1>1, <1>2, AppendProperties
<1>4. IsSeq(r, n + 1)
  BY <1>3, SeqIsSeq
<1> QED
  BY <1>3, <1>4 DEF Added

\* Without its last.
LEMMA LastCut ==
    ASSUME NEW q, NEW n \in Nat, IsSeq(q, n), n # 0
    PROVE  /\ IsSeq(SubSeq(q, 1, n - 1), n - 1)
           /\ \A j \in 1..(n - 1) : SubSeq(q, 1, n - 1)[j] = q[j]
<1> DEFINE r == SubSeq(q, 1, n - 1)
           T == {q[j] : j \in 1..n}
<1>1. q \in Seq(T) /\ n \in Nat \ {0} /\ Len(q) = n
  BY SeqIsSeq, SeqValues
<1> HIDE DEF T, r
<1>2. n - 1 \in Int /\ \A j \in 1..(n - 1) : q[j] \in T
  BY <1>1
<1>3. /\ r \in Seq(T) /\ Len(r) = (IF 1 <= n - 1 THEN n - 1 - 1 + 1 ELSE 0)
      /\ \A j \in 1..(n - 1 - 1 + 1) : r[j] = q[1 + j - 1]
  BY <1>2, SubSeqProperties DEF r
<1>4. ASSUME NEW j \in 1..(n - 1) PROVE r[j] = q[j]
  <2> DEFINE k == 1 + j - 1
  <2>1. k = j /\ j \in 1..(n - 1 - 1 + 1)
    BY <1>1
  <2> HIDE DEF k
  <2>2. r[j] = q[k]
    BY <1>3, <2>1 DEF k
  <2> QED
    BY <2>1, <2>2
<1>5. Len(r) = n - 1
  <2>1. Len(r) = IF 1 <= n - 1 THEN n - 1 - 1 + 1 ELSE 0
    BY <1>3
  <2> QED
    BY <1>1, <2>1
<1>6. IsSeq(r, n - 1)
  BY <1>3, <1>5, SeqIsSeq
<1> QED
  BY <1>4, <1>6 DEF r

-----------------------------------------------------------------------------
(* What is written of a node *)

\* The proof of a node, if it is written.
LEMMA ProofFlakes ==
    ASSUME NEW x
    PROVE  /\ x.proof \in Unwritten => IsSeq(ProofOf(x), 0)
           /\ x.proof \notin Unwritten => /\ IsSeq(ProofOf(x), 1)
                                   /\ ProofOf(x)[1] = Flake("proof", x.proof)
<1>1. IsSeq(<<>>, 0)
  BY DEF IsSeq
<1> QED
  BY <1>1, One DEF ProofOf

\* A transaction, its callbacks, and its proof.
LEMMA CrunchyNutFlakes ==
    ASSUME NEW x, x.mapi \in Nat,
           NEW p, p = IF x.proof \in Unwritten THEN 0 ELSE 1
    PROVE  /\ IsSeq(CrunchyNut(x), (1 + x.mapi) + p)
           /\ CrunchyNut(x)[1] = Flake("tx", x.raw)
           /\ \A j \in 2..(1 + x.mapi) : CrunchyNut(x)[j] = Flake("mapi", x.tx)
           /\ x.proof \notin Unwritten =>
                 CrunchyNut(x)[2 + x.mapi] = Flake("proof", x.proof)
<1> DEFINE n == x.mapi
           T == <<Flake("tx", x.raw)>>
           M == [j \in 1..n |-> Flake("mapi", x.tx)]
           P == ProofOf(x)
<1>1. IsSeq(T, 1) /\ T[1] = Flake("tx", x.raw)
  BY One
<1>2. n \in Nat /\ p \in Nat /\ IsSeq(M, n) /\ \A j \in 1..n : M[j] = Flake("mapi", x.tx)
  BY DEF IsSeq
<1>3. IsSeq(P, p) /\ (x.proof \notin Unwritten => P[1] = Flake("proof", x.proof))
  BY ProofFlakes
<1>4. CrunchyNut(x) = T \o M \o P
  BY DEF CrunchyNut
<1> HIDE DEF T, M, P, n
<1> DEFINE TM == Both(T, M)
<1>5. /\ IsSeq(TM, 1 + n) /\ \A j \in 1..1 : TM[j] = T[j]
      /\ \A j \in 1..n : TM[1 + j] = M[j]
  BY <1>1, <1>2, Joined
<1> HIDE DEF TM
<1> DEFINE W == Both(TM, P)
<1>6. /\ IsSeq(W, (1 + n) + p) /\ \A j \in 1..(1 + n) : W[j] = TM[j]
      /\ \A j \in 1..p : W[(1 + n) + j] = P[j]
  BY <1>2, <1>3, <1>5, Joined
<1>7. CrunchyNut(x) = W
  BY <1>4 DEF TM, Both
<1> HIDE DEF W
<1>8. W[1] = Flake("tx", x.raw)
  BY <1>1, <1>2, <1>5, <1>6
<1>9. ASSUME NEW j \in 2..(1 + n) PROVE W[j] = Flake("mapi", x.tx)
  <2> DEFINE k == j - 1
  <2>1. k \in 1..n /\ j = 1 + k
    BY <1>2
  <2> HIDE DEF k
  <2>2. TM[1 + k] = Flake("mapi", x.tx)
    BY <1>2, <1>5, <2>1
  <2> QED
    BY <1>2, <1>6, <2>1, <2>2
<1>10. ASSUME x.proof \notin Unwritten PROVE W[2 + n] = Flake("proof", x.proof)
  <2>1. p = 1 /\ (1 + n) + 1 = 2 + n
    BY <1>2, <1>10
  <2> QED
    BY <1>3, <1>6, <1>10, <2>1
<1> QED
  BY <1>6, <1>7, <1>8, <1>9, <1>10 DEF n

\* In both formats, one transaction, and a proof if one is written.
IsBlock(B, n, x) ==
    /\ IsSeq(B, n) /\ n >= 1 /\ B[1] = Flake("tx", x.raw)
    /\ \A j \in 2..n : B[j].type # "tx"
    /\ (\E j \in 2..n : B[j].type = "proof") <=> x.proof \notin Unwritten

\* A flake has the type it is made with.
LEMMA FlakeValues ==
    ASSUME NEW type, NEW data
    PROVE  Flake(type, data).type = type /\ Flake(type, data).data = data
BY DEF Flake

\* The transaction comes first, and a proof, if there is one, last.
LEMMA CrunchyNutBlock ==
    ASSUME NEW x, x.mapi \in Nat PROVE \E n \in Nat : IsBlock(CrunchyNut(x), n, x)
<1> DEFINE B == CrunchyNut(x)
           n == x.mapi
           p == IF x.proof \in Unwritten THEN 0 ELSE 1
<1>1. /\ IsSeq(B, (1 + n) + p) /\ B[1] = Flake("tx", x.raw)
      /\ \A j \in 2..(1 + n) : B[j] = Flake("mapi", x.tx)
      /\ x.proof \notin Unwritten => B[2 + n] = Flake("proof", x.proof)
  BY CrunchyNutFlakes
<1> HIDE DEF B
<1>2. \A j \in 2..(1 + n) : B[j].type = "mapi"
  BY <1>1, FlakeValues
<1>3. CASE x.proof \in Unwritten
  <2>1. (1 + n) + p = 1 + n
    BY <1>3
  <2>2. IsBlock(B, 1 + n, x)
    BY <1>1, <1>2, <1>3, <2>1 DEF IsBlock
  <2> QED
    BY <2>2 DEF B
<1>4. CASE x.proof \notin Unwritten
  <2>1. (1 + n) + p = 2 + n
    BY <1>4
  <2>2. /\ B[2 + n].type = "proof" /\ 2 + n \in 2..(2 + n)
        /\ \A j \in 2..(2 + n) : j = 2 + n \/ j \in 2..(1 + n)
    BY <1>1, <1>4, FlakeValues
  <2>3. \A j \in 2..(2 + n) : B[j].type # "tx"
    BY <1>2, <2>2
  <2>4. IsBlock(B, 2 + n, x)
    BY <1>1, <1>4, <2>1, <2>2, <2>3 DEF IsBlock
  <2> QED
    BY <2>4 DEF B
<1> QED
  BY <1>3, <1>4

\* So it is in the other format, where there are three flakes unless a proof is
\* malformed.
LEMMA SpecialKBlock ==
    ASSUME NEW x PROVE \E n \in Nat : IsBlock(SpecialK(x), n, x)
<1> DEFINE T == <<Flake("tx", x.raw)>>
           P == IF x.proof = NoProof THEN <<Flake("none", NoTx)>> ELSE ProofOf(x)
           M == CASE x.proof = Malformed -> <<>>
                  [] x.proof # Malformed /\ x.mapi = 0 -> <<Flake("none", NoTx)>>
                  [] OTHER -> <<Flake("mapi", x.tx)>>
           p == IF x.proof # NoProof /\ x.proof = Malformed THEN 0 ELSE 1
           m == IF x.proof = Malformed THEN 0 ELSE 1
<1>1. IsSeq(T, 1) /\ T[1] = Flake("tx", x.raw)
  BY One
<1>2. /\ IsSeq(P, p)
      /\ p = 1 => P[1].type = IF x.proof \in Unwritten THEN "none" ELSE "proof"
  <2>1. CASE x.proof = NoProof
    BY <2>1, FlakeValues, One DEF Unwritten
  <2>2. CASE x.proof # NoProof /\ x.proof = Malformed
    <3>1. P = <<>> /\ p = 0
      BY <2>2 DEF ProofOf, Unwritten
    <3> QED
      BY <3>1 DEF IsSeq
  <2>3. CASE x.proof \notin Unwritten
    <3>1. P = <<Flake("proof", x.proof)>> /\ p = 1
      BY <2>3 DEF ProofOf, Unwritten
    <3> QED
      BY <2>3, <3>1, FlakeValues, One
  <2> QED
    BY <2>1, <2>2, <2>3 DEF Unwritten
<1>3. IsSeq(M, m) /\ (m = 1 => M[1].type \in {"none", "mapi"})
  <2>1. CASE x.proof = Malformed
    BY <2>1 DEF IsSeq
  <2>2. CASE x.proof # Malformed
    BY <2>2, FlakeValues, One
  <2> QED
    BY <2>1, <2>2
<1>4. SpecialK(x) = T \o P \o M
  BY DEF SpecialK
<1>5. /\ p \in {0, 1} /\ m \in {0, 1} /\ (x.proof \notin Unwritten => p = 1)
      /\ p = 0 => x.proof \in Unwritten
  BY DEF Unwritten
<1> HIDE DEF T, P, M, p, m
<1> DEFINE TP == Both(T, P)
<1>6. /\ IsSeq(TP, 1 + p) /\ \A j \in 1..1 : TP[j] = T[j]
      /\ \A j \in 1..p : TP[1 + j] = P[j]
  BY <1>1, <1>2, <1>5, Joined
<1> HIDE DEF TP
<1> DEFINE B == Both(TP, M)
<1>7. /\ IsSeq(B, (1 + p) + m) /\ \A j \in 1..(1 + p) : B[j] = TP[j]
      /\ \A j \in 1..m : B[(1 + p) + j] = M[j]
  BY <1>3, <1>5, <1>6, Joined
<1>8. SpecialK(x) = B
  BY <1>4 DEF TP, Both
<1> HIDE DEF B
<1> DEFINE n == (1 + p) + m
<1>9. n \in Nat /\ n >= 1 /\ IsSeq(B, n) /\ B[1] = Flake("tx", x.raw)
  BY <1>1, <1>5, <1>6, <1>7
<1>10. p = 1 => 2 \in 2..n /\ B[2] = P[1]
  <2> SUFFICES ASSUME p = 1 PROVE 2 \in 2..n /\ B[2] = P[1]
    OBVIOUS
  <2>1. TP[1 + 1] = P[1] /\ 2 \in 1..(1 + p) /\ 2 \in 2..n
    BY <1>5, <1>6
  <2> QED
    BY <1>7, <2>1
<1>11. ASSUME NEW j \in 2..n, j # 2 \/ p # 1
       PROVE  B[j].type \in {"none", "mapi"}
  <2>1. m = 1 /\ j = (1 + p) + 1
    <3>1. j \in Int /\ 2 <= j /\ j <= (1 + p) + m /\ (j # 2 \/ p # 1)
      BY <1>5, <1>11
    <3>2. CASE p = 0
      BY <1>5, <3>1, <3>2
    <3>3. CASE p = 1
      BY <1>5, <3>1, <3>3
    <3> QED
      BY <1>5, <3>2, <3>3
  <2>2. B[(1 + p) + 1] = M[1]
    <3>1. 1 \in 1..m
      BY <2>1
    <3> QED
      BY <1>7, <3>1, Zenon
  <2> QED
    BY <1>3, <2>1, <2>2
<1>12. /\ \A j \in 2..n : B[j].type # "tx"
       /\ (\E j \in 2..n : B[j].type = "proof") <=> x.proof \notin Unwritten
  BY <1>2, <1>5, <1>10, <1>11
<1>13. IsBlock(B, n, x)
  BY <1>9, <1>12 DEF IsBlock
<1> QED
  BY <1>8, <1>9, <1>13

-----------------------------------------------------------------------------
(* The chain that is written *)

Places == {"write", "open", "read", "done", "error", "panic"}

\* What is written, and what there is left to write.
WriterInv ==
    /\ pc \in Places /\ err \in BOOLEAN
    /\ pc = "write" => format # "received"
    /\ format # "received" =>
          envelope \in Envelopes /\ format \in {"crunchyNut", "specialK"} /\ version = 1
    /\ nodes \subseteq Envelopes
    /\ IsSeq(stream, Len(stream))
    /\ \A j \in TxFlakes : stream[j].data \in Txs \cup {Garbled, Short}
    /\ format # "received" /\ Len(stream) = 0 => nodes = {envelope}
    /\ pc # "write" => nodes = {}

\* The last transaction before this that is written without a proof spends it.
IsLast(x, S) == x \in S /\ \A y \in S : y <= x
IsSpent(j) ==
    \E x \in Spender(j) : IsLast(x, Spender(j)) /\ Spends(stream[x].data, stream[j].data)

Unproven == {x \in TxFlakes : ~ Proven(x)}

\* Whatever is left is spent by the last transaction without a proof, and as
\* long as that is the last of all, something is left or an error has been
\* returned; after an error it is.
ChainInv ==
    format # "received" =>
        /\ \A j \in TxFlakes \ {1} : IsSpent(j)
        /\ nodes # {} /\ Len(stream) # 0 =>
              \E x \in Unproven : /\ IsLast(x, Unproven)
                                  /\ \A n \in nodes : Spends(stream[x].data, n.raw)
        /\ \A j \in Unproven : IsLast(j, TxFlakes) => nodes # {} \/ err
        /\ err => nodes = {} /\ \E j \in Unproven : IsLast(j, TxFlakes)

\* A block adds one transaction, and leaves those before it as they were.
LEMMA Appended ==
    ASSUME NEW n \in Nat, NEW x, NEW B, NEW L \in Nat, IsSeq(stream, L),
           IsBlock(B, n, x), stream' = Both(stream, B)
    PROVE  /\ IsSeq(stream', Len(stream')) /\ L + 1 <= Len(stream')
           /\ TxFlakes \subseteq 1..L /\ TxFlakes' = TxFlakes \cup {L + 1}
           /\ Unproven' = Unproven \cup (IF x.proof \in Unwritten THEN {L + 1} ELSE {})
           /\ \A j \in 1..L : stream'[j] = stream[j]
           /\ stream'[L + 1].data = x.raw
<1> DEFINE s == stream'
<1>1. /\ IsSeq(B, n) /\ n >= 1 /\ B[1] = Flake("tx", x.raw)
      /\ \A j \in 2..n : B[j].type # "tx"
      /\ (\E j \in 2..n : B[j].type = "proof") <=> x.proof \notin Unwritten
  BY DEF IsBlock
<1>2. /\ IsSeq(s, L + n) /\ \A j \in 1..L : s[j] = stream[j]
      /\ \A j \in 1..n : s[L + j] = B[j]
  BY <1>1, Joined
<1>3. Len(s) = L + n /\ DOMAIN s = 1..(L + n) /\ DOMAIN stream = 1..L
  BY <1>2, SeqValues
<1>4. s[L + 1].type = "tx" /\ s[L + 1].data = x.raw
  BY <1>1, <1>2, FlakeValues
<1>5. ASSUME NEW m \in 1..(L + n), m > L + 1
      PROVE  s[m].type # "tx" /\ m - L \in 2..n /\ s[m] = B[m - L]
  <2> DEFINE k == m - L
  <2>1. k \in 2..n /\ k \in 1..n /\ m = L + k
    BY <1>1, <1>5
  <2> HIDE DEF k
  <2>2. s[m] = B[k] /\ B[k].type # "tx"
    BY <1>1, <1>2, <2>1
  <2> QED
    BY <2>1, <2>2 DEF k
<1>6. TxFlakes' = {j \in 1..(L + n) : s[j].type = "tx"}
  BY <1>3 DEF TxFlakes
<1>7. TxFlakes = {j \in 1..L : stream[j].type = "tx"}
  BY <1>3 DEF TxFlakes
<1> HIDE DEF s
<1>8. TxFlakes' = TxFlakes \cup {L + 1}
  <2>1. ASSUME NEW j \in 1..(L + n)
        PROVE  s[j].type = "tx" <=> j \in TxFlakes \/ j = L + 1
    BY <1>2, <1>4, <1>5, <1>7
  <2>2. TxFlakes \subseteq 1..(L + n) /\ L + 1 \in 1..(L + n)
    BY <1>1, <1>7
  <2> QED
    BY <1>6, <2>1, <2>2
<1>9. \A j : Proven(j)' <=> \E m \in 1..(L + n) :
                /\ m > j /\ s[m].type = "proof"
                /\ \A y \in TxFlakes' : y <= j \/ y > m
  BY <1>3 DEF Proven, s
<1>10. \A j : Proven(j) <=> \E m \in 1..L :
                /\ m > j /\ stream[m].type = "proof"
                /\ \A y \in TxFlakes : y <= j \/ y > m
  BY <1>3 DEF Proven
<1>11. ASSUME NEW j \in TxFlakes PROVE Proven(j)' <=> Proven(j)
  <2>1. j \in 1..L
    BY <1>7
  <2>2. ASSUME Proven(j) PROVE Proven(j)'
    <3>1. PICK m \in 1..L : /\ m > j /\ stream[m].type = "proof"
                            /\ \A y \in TxFlakes : y <= j \/ y > m
      BY <1>10, <2>2
    <3>2. \A y \in TxFlakes' : y <= j \/ y > m
      BY <1>8, <3>1
    <3>3. m \in 1..(L + n) /\ s[m].type = "proof"
      BY <1>1, <1>2, <3>1
    <3> QED
      BY <1>9, <3>1, <3>2, <3>3
  <2>3. ASSUME Proven(j)' PROVE Proven(j)
    <3>1. PICK m \in 1..(L + n) : /\ m > j /\ s[m].type = "proof"
                                  /\ \A y \in TxFlakes' : y <= j \/ y > m
      BY <1>9, <2>3
    <3>2. L + 1 > m
      BY <1>8, <2>1, <3>1
    <3>3. m \in 1..L /\ stream[m].type = "proof"
      BY <1>2, <3>1, <3>2
    <3>4. \A y \in TxFlakes : y <= j \/ y > m
      BY <1>8, <3>1
    <3> QED
      BY <1>10, <3>1, <3>3, <3>4
  <2> QED
    BY <2>2, <2>3
<1>12. Proven(L + 1)' <=> x.proof \notin Unwritten
  <2>1. \A m : \A y \in TxFlakes' : y <= L + 1 \/ y > m
    BY <1>7, <1>8
  <2>2. ASSUME Proven(L + 1)' PROVE x.proof \notin Unwritten
    <3>1. PICK m \in 1..(L + n) : m > L + 1 /\ s[m].type = "proof"
      BY <1>9, <2>2
    <3> QED
      BY <1>1, <1>5, <3>1
  <2>3. ASSUME x.proof \notin Unwritten PROVE Proven(L + 1)'
    <3>1. PICK k \in 2..n : B[k].type = "proof"
      BY <1>1, <2>3
    <3> DEFINE m == L + k
    <3>2. m \in 1..(L + n) /\ m > L + 1 /\ s[m] = B[k]
      BY <1>2
    <3> HIDE DEF m
    <3>3. /\ m > L + 1 /\ s[m].type = "proof"
          /\ \A y \in TxFlakes' : y <= L + 1 \/ y > m
      BY <2>1, <3>1, <3>2
    <3> QED
      BY <1>9, <3>2, <3>3
  <2> QED
    BY <2>2, <2>3
<1>13. Unproven' = Unproven \cup (IF x.proof \in Unwritten THEN {L + 1} ELSE {})
  <2>1. ASSUME NEW j \in TxFlakes'
        PROVE  ~ Proven(j)' <=> j \in Unproven \/ (j = L + 1 /\ x.proof \in Unwritten)
    <3>1. CASE j \in TxFlakes
      <4>1. j # L + 1
        BY <1>7, <3>1
      <4> QED
        BY <1>11, <3>1, <4>1 DEF Unproven
    <3>2. CASE j = L + 1
      <4>1. j \notin Unproven
        BY <1>7, <3>2 DEF Unproven
      <4> QED
        BY <1>12, <3>2, <4>1
    <3> QED
      BY <1>8, <2>1, <3>1, <3>2
  <2>2. Unproven' = {j \in TxFlakes' : ~ Proven(j)'}
    BY DEF Unproven
  <2>3. Unproven \subseteq TxFlakes'
    BY <1>8 DEF Unproven
  <2> QED
    BY <1>8, <2>1, <2>2, <2>3
<1> QED
  BY <1>1, <1>2, <1>3, <1>4, <1>7, <1>8, <1>13 DEF s

\* What the envelopes are; one without a proof has parents to go down to.
LEMMA NodeValues ==
    ASSUME NEW x \in Envelopes
    PROVE  /\ x.tx \in Txs /\ x.raw \in Txs \cup {Garbled} /\ x.mapi \in Nat
           /\ ValuesOf(x.parents) \subseteq Envelopes
           /\ \A n \in ValuesOf(x.parents) : Spends(x.raw, n.raw)
           /\ HasParents(x) => x.proof = NoProof
           /\ x.proof = NoProof => HasParents(x) /\ ValuesOf(x.parents) # {}
<1>1. /\ x.tx \in Txs /\ x.raw \in {x.tx, Garbled} /\ x.mapi \in Nat
      /\ x.parents \in [DOMAIN x.parents -> Envelopes]
      /\ DOMAIN x.parents \subseteq Parents[x.tx]
      /\ \A t \in DOMAIN x.parents : x.parents[t].tx = t
      /\ x.proof = NoProof => DOMAIN x.parents # {}
  BY EnvelopeAssumption DEF IsEnvelope
<1>2. DOMAIN x.parents # {} => x.parents # <<>>
  OBVIOUS
<1>3. ValuesOf(x.parents) \subseteq Envelopes
  BY <1>1 DEF ValuesOf
<1>4. ASSUME NEW n \in ValuesOf(x.parents) PROVE Spends(x.raw, n.raw)
  <2>1. n.raw \in {n.tx, Garbled} /\ n.tx \in Parents[x.tx]
    BY <1>1, <1>3, EnvelopeAssumption DEF IsEnvelope, ValuesOf
  <2> QED
    BY <1>1, <2>1 DEF Spends
<1>5. DOMAIN x.parents # {} => ValuesOf(x.parents) # {}
  BY DEF ValuesOf
<1> QED
  BY <1>1, <1>2, <1>3, <1>4, <1>5 DEF HasParents

\* The candidates are those without a proof.
LEMMA SpenderValues ==
    /\ Unproven \subseteq TxFlakes /\ Unproven' \subseteq TxFlakes'
    /\ \A j : Spender(j) = {y \in Unproven : y < j}
    /\ \A j : Spender(j)' = {y \in Unproven' : y < j}
<1>1. \A j : Spender(j) = {y \in Unproven : y < j}
  BY DEF Spender, Unproven
<1>2. \A j : Spender(j)' = {y \in Unproven' : y < j}
  BY DEF Spender, Unproven
<1> QED
  BY <1>1, <1>2 DEF Unproven

\* Nothing is written yet.
LEMMA InitWriter == Init => WriterInv /\ ChainInv
<1> SUFFICES ASSUME Init PROVE WriterInv /\ ChainInv
  OBVIOUS
<1>1. CASE pc = "write"
  <2>1. /\ stream = <<>> /\ nodes = {envelope} /\ envelope \in Envelopes
        /\ format \in {"crunchyNut", "specialK"} /\ version = 1 /\ err = FALSE
    BY <1>1 DEF Init
  <2>2. Len(stream) = 0 /\ IsSeq(stream, 0) /\ TxFlakes = {}
    BY <2>1 DEF IsSeq, TxFlakes
  <2> QED
    BY <1>1, <2>1, <2>2 DEF WriterInv, ChainInv, Unproven, Places
<1>2. CASE pc # "write"
  <2>1. PICK r \in Received : /\ stream = r.flakes /\ nodes = {} /\ err = FALSE
                             /\ pc = "open" /\ format = "received"
    BY <1>2 DEF Init
  <2>2. /\ stream \in Seq(ValuesOf(stream))
        /\ \A f \in ValuesOf(stream) : f.type = "tx" => f.data \in Txs \cup {Garbled, Short}
    BY <2>1, EnvelopeAssumption DEF IsReceived
  <2>3. IsSeq(stream, Len(stream))
    BY <2>2, SeqIsSeq
  <2>4. \A j \in TxFlakes : stream[j].data \in Txs \cup {Garbled, Short}
    BY <2>2 DEF TxFlakes, ValuesOf
  <2> QED
    BY <2>1, <2>3, <2>4 DEF WriterInv, ChainInv, Places
<1> QED
  BY <1>1, <1>2

\* What a node that is written adds.
LEMMA SerialiseAppends ==
    ASSUME WriterInv, NEW x \in Envelopes,
           stream' = stream \o (IF format = "crunchyNut" THEN CrunchyNut(x)
                                                         ELSE SpecialK(x))
    PROVE  LET L == Len(stream)
           IN  /\ L \in Nat /\ IsSeq(stream', Len(stream')) /\ L + 1 <= Len(stream')
               /\ TxFlakes \subseteq 1..L /\ TxFlakes' = TxFlakes \cup {L + 1}
               /\ Unproven' = Unproven \cup (IF x.proof \in Unwritten THEN {L + 1} ELSE {})
               /\ \A j \in 1..L : stream'[j] = stream[j]
               /\ stream'[L + 1].data = x.raw
<1> DEFINE B == IF format = "crunchyNut" THEN CrunchyNut(x) ELSE SpecialK(x)
           L == Len(stream)
<1>1. PICK n \in Nat : IsBlock(B, n, x)
  BY NodeValues, CrunchyNutBlock, SpecialKBlock
<1>2. IsSeq(stream, L) /\ L \in Nat
  BY SeqValues DEF WriterInv
<1>3. stream' = Both(stream, B)
  BY DEF Both
<1> HIDE DEF B, L
<1>4. /\ IsSeq(stream', Len(stream')) /\ L + 1 <= Len(stream')
      /\ TxFlakes \subseteq 1..L /\ TxFlakes' = TxFlakes \cup {L + 1}
      /\ Unproven' = Unproven \cup (IF x.proof \in Unwritten THEN {L + 1} ELSE {})
      /\ \A j \in 1..L : stream'[j] = stream[j]
      /\ stream'[L + 1].data = x.raw
  BY <1>1, <1>2, <1>3, Appended
<1> QED
  BY <1>2, <1>4 DEF L

\* A node is written.
LEMMA SerialiseWriter ==
    ASSUME WriterInv, ChainInv, Serialise PROVE (WriterInv /\ ChainInv)'
<1>1. PICK x \in nodes :
         /\ stream' = stream \o (IF format = "crunchyNut" THEN CrunchyNut(x)
                                                          ELSE SpecialK(x))
         /\ err' = (x.proof = Malformed)
         /\ nodes' = IF err' THEN {}
                     ELSE IF HasParents(x) THEN ValuesOf(x.parents) ELSE nodes \ {x}
  BY DEF Serialise
<1>2. x \in Envelopes
  BY <1>1 DEF WriterInv
<1>3. pc = "write" /\ format # "received" /\ UNCHANGED <<envelope, format, pc, version>>
  BY DEF Serialise, WriterInv
<1> DEFINE L == Len(stream)
<1>4. /\ L \in Nat /\ IsSeq(stream', Len(stream')) /\ L + 1 <= Len(stream')
      /\ TxFlakes \subseteq 1..L /\ TxFlakes' = TxFlakes \cup {L + 1}
      /\ Unproven' = Unproven \cup (IF x.proof \in Unwritten THEN {L + 1} ELSE {})
      /\ \A j \in 1..L : stream'[j] = stream[j]
      /\ stream'[L + 1].data = x.raw
  BY <1>1, <1>2, SerialiseAppends
<1>5. /\ nodes' \subseteq Envelopes
      /\ err' \in BOOLEAN /\ (err' => x.proof \in Unwritten /\ nodes' = {})
      /\ x.proof \in Unwritten /\ ~ err' =>
            nodes' # {} /\ \A n \in nodes' : Spends(x.raw, n.raw)
      /\ x.proof \notin Unwritten => nodes' = nodes \ {x} /\ ~ err'
  <2>1. err' \in BOOLEAN /\ (err' <=> x.proof = Malformed)
    BY <1>1, Zenon
  <2>2. CASE err'
    <3>1. nodes' = {} /\ x.proof \in Unwritten
      BY <1>1, <2>1, <2>2 DEF Unwritten
    <3> QED
      BY <2>1, <2>2, <3>1
  <2>3. CASE ~ err' /\ x.proof = NoProof
    <3>1. nodes' = ValuesOf(x.parents) /\ HasParents(x) /\ ValuesOf(x.parents) # {}
      BY <1>1, <1>2, <2>3, NodeValues
    <3>2. x.proof \in Unwritten
      BY <2>3 DEF Unwritten
    <3> QED
      BY <1>2, <2>1, <2>3, <3>1, <3>2, NodeValues
  <2>4. CASE ~ err' /\ x.proof # NoProof
    <3>1. nodes' = nodes \ {x} /\ x.proof \notin Unwritten
      BY <1>1, <1>2, <2>1, <2>4, NodeValues DEF Unwritten
    <3>2. nodes' \subseteq Envelopes
      BY <3>1 DEF WriterInv
    <3> QED
      BY <2>1, <2>4, <3>1, <3>2
  <2> QED
    BY <2>2, <2>3, <2>4
<1>14. err' => nodes' = {}
  BY <1>5
<1>6. Len(stream') # 0
  <2> HIDE DEF L
  <2>1. Len(stream') \in Nat
    BY <1>4, SeqValues
  <2> QED
    BY <1>4, <2>1
<1>7. x.raw \in Txs \cup {Garbled}
  BY <1>2, NodeValues
<1>8. L = 0 => nodes = {x}
  BY <1>1, <1>3 DEF WriterInv
<1> HIDE DEF L
<1>9. WriterInv'
  <2>1. \A j \in TxFlakes' : stream'[j].data \in Txs \cup {Garbled, Short}
    BY <1>4, <1>7 DEF WriterInv
  <2> QED
    BY <1>3, <1>4, <1>5, <1>6, <2>1 DEF WriterInv
<1>10. ASSUME NEW j \in TxFlakes' \ {1} PROVE IsSpent(j)'
  <2>1. CASE j \in TxFlakes
    <3>1. PICK y \in Spender(j) : IsLast(y, Spender(j)) /\ Spends(stream[y].data, stream[j].data)
      BY <1>3, <1>10, <2>1 DEF ChainInv, IsSpent
    <3>2. Spender(j)' = Spender(j)
      <4>1. j \in 1..L /\ ~ (L + 1 < j)
        BY <1>4, <2>1
      <4>2. {u \in Unproven' : u < j} = {u \in Unproven : u < j}
        BY <1>4, <4>1
      <4> QED
        BY <4>2, SpenderValues
    <3>3. stream'[j] = stream[j] /\ stream'[y] = stream[y]
      BY <1>4, <2>1, <3>1, SpenderValues
    <3>4. /\ y \in Spender(j)' /\ IsLast(y, Spender(j)')
          /\ Spends(stream'[y].data, stream'[j].data)
      BY <3>1, <3>2, <3>3
    <3> QED
      BY <3>4 DEF IsSpent
  <2>2. CASE j = L + 1
    <3>1. L # 0 /\ nodes # {}
      BY <1>1, <1>10, <2>2
    <3>2. PICK y \in Unproven : /\ IsLast(y, Unproven)
                                /\ \A n \in nodes : Spends(stream[y].data, n.raw)
      BY <1>3, <3>1 DEF ChainInv, L
    <3>3. Spender(j)' = Unproven
      <4>1. \A u \in Unproven : u \in 1..L
        BY <1>4, SpenderValues
      <4>2. {u \in Unproven' : u < j} = Unproven
        BY <1>4, <2>2, <4>1
      <4> QED
        BY <4>2, SpenderValues
    <3>4. stream'[y] = stream[y] /\ stream'[j].data = x.raw
      BY <1>4, <2>2, <3>2, SpenderValues
    <3>5. /\ y \in Spender(j)' /\ IsLast(y, Spender(j)')
          /\ Spends(stream'[y].data, stream'[j].data)
      BY <1>1, <3>2, <3>3, <3>4
    <3> QED
      BY <3>5 DEF IsSpent
  <2> QED
    BY <1>4, <1>10, <2>1, <2>2
<1>11. ASSUME nodes' # {}
       PROVE  \E y \in Unproven' : /\ IsLast(y, Unproven')
                                   /\ \A n \in nodes' : Spends(stream'[y].data, n.raw)
  <2>1. CASE x.proof \in Unwritten
    <3>1. L + 1 \in Unproven' /\ \A y \in Unproven' : y <= L + 1
      BY <1>4, <2>1, SpenderValues
    <3>2. \A n \in nodes' : Spends(stream'[L + 1].data, n.raw)
      BY <1>4, <1>5, <1>11, <1>14, <2>1
    <3> QED
      BY <3>1, <3>2 DEF IsLast
  <2>2. CASE x.proof \notin Unwritten
    <3>1. nodes' = nodes \ {x} /\ nodes # {} /\ L # 0
      BY <1>5, <1>8, <1>11, <2>2
    <3>2. PICK y \in Unproven : /\ IsLast(y, Unproven)
                                /\ \A n \in nodes : Spends(stream[y].data, n.raw)
      BY <1>3, <3>1 DEF ChainInv, L
    <3>3. Unproven' = Unproven
      BY <1>4, <2>2
    <3>4. stream'[y] = stream[y]
      BY <1>4, <3>2, SpenderValues
    <3> QED
      BY <3>1, <3>2, <3>3, <3>4 DEF IsLast
  <2> QED
    BY <2>1, <2>2
<1>12. ASSUME NEW j \in Unproven', IsLast(j, TxFlakes')
       PROVE  nodes' # {} \/ err'
  <2>1. j \in TxFlakes' /\ L + 1 \in TxFlakes' /\ L + 1 <= j
    BY <1>4, <1>12, SpenderValues DEF IsLast
  <2>2. j = L + 1 /\ L + 1 \notin Unproven
    BY <1>4, <2>1, SpenderValues
  <2> QED
    BY <1>4, <1>5, <1>12, <2>2
<1>15. err' => \E j \in Unproven' : IsLast(j, TxFlakes')
  <2>1. err' => L + 1 \in Unproven'
    BY <1>4, <1>5
  <2>2. IsLast(L + 1, TxFlakes')
    BY <1>4 DEF IsLast
  <2> QED
    BY <2>1, <2>2
<1>13. ChainInv'
  BY <1>10, <1>11, <1>12, <1>14, <1>15 DEF ChainInv
<1> QED
  BY <1>9, <1>13

\* The other steps write nothing.
LEMMA NextWriter ==
    WriterInv /\ ChainInv /\ [Next]_vars => (WriterInv /\ ChainInv)'
<1> SUFFICES ASSUME WriterInv, ChainInv, [Next]_vars PROVE (WriterInv /\ ChainInv)'
  OBVIOUS
<1>1. CASE Serialise
  BY <1>1, SerialiseWriter
<1>2. ASSUME UNCHANGED writer, pc' \in Places, pc' # "write" => nodes = {},
             pc' = "write" => pc = "write"
      PROVE  (WriterInv /\ ChainInv)'
  <2>1. /\ UNCHANGED <<envelope, format, nodes, err, version, stream>> /\ TxFlakes' = TxFlakes
        /\ Unproven' = Unproven
        /\ \A j : (Proven(j)' <=> Proven(j)) /\ Spender(j)' = Spender(j)
    BY <1>2 DEF writer, TxFlakes, Unproven, Proven, Spender
  <2>2. WriterInv'
    BY <1>2, <2>1 DEF WriterInv
  <2>3. ChainInv'
    BY <2>1 DEF ChainInv, IsSpent
  <2> QED
    BY <2>2, <2>3
<1>3. CASE SerialiseReturn
  BY <1>2, <1>3 DEF SerialiseReturn, Places
<1>6. CASE Open
  <2>1. UNCHANGED writer /\ pc = "open" /\ pc' \in {"read", "error", "panic"}
    BY <1>6 DEF Open
  <2> QED
    BY <1>2, <2>1 DEF WriterInv, Places
<1>4. CASE ReadFlake \/ Inputs \/ End \/ Return
  <2>1. UNCHANGED writer /\ pc = "read" /\ pc' \in {"read", "done", "panic"}
    BY <1>4 DEF ReadFlake, Inputs, End, Return
  <2> QED
    BY <1>2, <2>1 DEF WriterInv, Places
<1>5. CASE UNCHANGED vars
  BY <1>2, <1>5 DEF vars, writer, WriterInv
<1> QED
  BY <1>1, <1>3, <1>4, <1>5, <1>6 DEF Next

\* In both formats what is written is the beginning of a chain: every
\* transaction is spent by the last before it that came without a proof, however
\* many parents a transaction has and in whatever order the map gives them.  It
\* ends in a proof if and only if the serialiser has not come to a malformed one.
THEOREM WrittenChains == Spec => []WrittenIsChain
<1>1. ASSUME WriterInv, ChainInv PROVE WrittenIsChain
  <2> SUFFICES ASSUME pc # "write", format # "received"
               PROVE  /\ \A j \in TxFlakes \ {1} :
                            /\ Spender(j) # {}
                            /\ LET x == CHOOSE x \in Spender(j) : \A y \in Spender(j) : y <= x
                               IN  Spends(stream[x].data, stream[j].data)
                      /\ \A j \in TxFlakes : Last(j) => (Proven(j) <=> ~ err)
    BY DEF WrittenIsChain
  <2>1. ASSUME NEW j \in TxFlakes \ {1}
        PROVE  /\ Spender(j) # {}
               /\ LET x == CHOOSE x \in Spender(j) : \A y \in Spender(j) : y <= x
                  IN  Spends(stream[x].data, stream[j].data)
    <3> DEFINE S == Spender(j)
               x == CHOOSE x \in S : \A y \in S : y <= x
    <3>1. PICK z \in S : (\A y \in S : y <= z) /\ Spends(stream[z].data, stream[j].data)
      BY <1>1, <2>1 DEF ChainInv, IsSpent, IsLast
    <3>2. S \subseteq Nat
      BY <1>1, SeqValues DEF Spender, TxFlakes, WriterInv
    <3> HIDE DEF S
    <3>3. x \in S /\ \A y \in S : y <= x
      BY <3>1
    <3> HIDE DEF x
    <3>4. x = z
      BY <3>1, <3>2, <3>3
    <3> QED
      BY <3>1, <3>4 DEF S, x
  <2>2. ASSUME NEW j \in TxFlakes, Last(j) PROVE Proven(j) <=> ~ err
    <3>1. IsLast(j, TxFlakes) /\ nodes = {}
      BY <1>1, <2>2 DEF Last, IsLast, WriterInv
    <3>2. CASE ~ err
      BY <1>1, <3>1, <3>2 DEF ChainInv, Unproven
    <3>3. CASE err
      <4>1. PICK k \in Unproven : IsLast(k, TxFlakes)
        BY <1>1, <3>3 DEF ChainInv
      <4>2. TxFlakes \subseteq Nat
        BY <1>1, SeqValues DEF TxFlakes, WriterInv
      <4>3. k = j
        BY <3>1, <4>1, <4>2 DEF IsLast
      <4> QED
        BY <3>3, <4>1, <4>3 DEF Unproven
    <3> QED
      BY <3>2, <3>3
  <2> QED
    BY <2>1, <2>2
<1> QED
  BY <1>1, InitWriter, NextWriter, PTL DEF Spec

-----------------------------------------------------------------------------
(* The parser *)

IsNode(x) ==
    /\ x = [tx |-> x.tx, proof |-> x.proof, mapi |-> x.mapi, parents |-> x.parents]
    /\ x.tx \in Txs \cup {NoTx}

\* A call is for one of n nodes, and so are those it is to make.
IsCall(c, n) ==
    /\ c = [node |-> c.node, at |-> c.at, inputs |-> c.inputs]
    /\ c.node \in 1..n /\ c.inputs \subseteq 1..n

\* Calls of which all but the last wait for the next.
IsStack(cs, k, n) ==
    /\ IsSeq(cs, k)
    /\ \A j \in 1..k : IsCall(cs[j], n)
    /\ \A j \in 1..(k - 1) : cs[j].at = "inputs"

\* Where the parser stands: a call that is to read a flake has one, and the
\* first call only returns when there are no more.
ReaderInv ==
    /\ pc \in {"write", "open"} => offset = 1 /\ made = <<Blank>> /\ calls = <<Parse(1)>>
    /\ offset \in 1..(Len(stream) + 1)
    /\ IsSeq(made, Len(made)) /\ \A m \in 1..Len(made) : IsNode(made[m])
    /\ IsStack(calls, Len(calls), Len(made))
    /\ pc = "read" /\ Len(calls) # 0 /\ Call.at = "flake" => More
    /\ Len(calls) = 0 => ~ More
    /\ pc = "done" /\ format # "specialK" => Len(calls) = 0

\* Another call in place of the last.
LEMMA StackThen ==
    ASSUME NEW cs, NEW k \in Nat \ {0}, NEW n \in Nat, IsStack(cs, k, n),
           NEW m \in Nat, n <= m, NEW c, IsCall(c, m)
    PROVE  /\ IsStack(With(cs, k, c), k, m) /\ With(cs, k, c)[k] = c
           /\ \A j \in 1..(k - 1) : With(cs, k, c)[j] = cs[j]
<1> DEFINE r == With(cs, k, c)
<1>1. IsSeq(r, k) /\ r[k] = c /\ \A j \in 1..(k - 1) : r[j] = cs[j]
  BY LastChanged DEF IsStack
<1> HIDE DEF r
<1>2. \A j \in 1..k : IsCall(r[j], m)
  <2> SUFFICES ASSUME NEW j \in 1..k PROVE IsCall(r[j], m)
    OBVIOUS
  <2>1. CASE j = k
    BY <1>1, <2>1
  <2>2. CASE j # k
    <3>1. r[j] = cs[j] /\ IsCall(cs[j], n)
      BY <1>1, <2>2 DEF IsStack
    <3> QED
      BY <3>1 DEF IsCall
  <2> QED
    BY <2>1, <2>2
<1>3. \A j \in 1..(k - 1) : r[j].at = "inputs"
  BY <1>1 DEF IsStack
<1>4. IsStack(r, k, m)
  BY <1>1, <1>2, <1>3 DEF IsStack
<1> QED
  BY <1>1, <1>4 DEF r

\* A call that the last one makes, and waits for.
LEMMA StackCall ==
    ASSUME NEW cs, NEW k \in Nat \ {0}, NEW n \in Nat, IsStack(cs, k, n),
           NEW c, IsCall(c, n), cs[k].at = "inputs"
    PROVE  /\ IsStack(Added(cs, c), k + 1, n) /\ Added(cs, c)[k + 1] = c
           /\ \A j \in 1..k : Added(cs, c)[j] = cs[j]
<1> DEFINE r == Added(cs, c)
<1>1. IsSeq(r, k + 1) /\ r[k + 1] = c /\ \A j \in 1..k : r[j] = cs[j]
  <2>1. IsSeq(cs, k) /\ k \in Nat
    BY DEF IsStack
  <2> QED
    BY <2>1, LastAdded
<1> HIDE DEF r
<1>2. \A j \in 1..(k + 1) : IsCall(r[j], n)
  <2> SUFFICES ASSUME NEW j \in 1..(k + 1) PROVE IsCall(r[j], n)
    OBVIOUS
  <2>1. j = k + 1 \/ j \in 1..k
    OBVIOUS
  <2> QED
    BY <1>1, <2>1 DEF IsStack
<1>3. \A j \in 1..((k + 1) - 1) : r[j].at = "inputs"
  <2> SUFFICES ASSUME NEW j \in 1..((k + 1) - 1) PROVE r[j].at = "inputs"
    OBVIOUS
  <2>1. j \in 1..k /\ (j = k \/ j \in 1..(k - 1))
    OBVIOUS
  <2> QED
    BY <1>1, <2>1 DEF IsStack
<1>4. IsStack(r, k + 1, n)
  BY <1>1, <1>2, <1>3 DEF IsStack
<1> QED
  BY <1>1, <1>4 DEF r

\* The last call returns.
LEMMA StackReturn ==
    ASSUME NEW cs, NEW k \in Nat \ {0}, NEW n \in Nat, IsStack(cs, k, n)
    PROVE  /\ IsStack(SubSeq(cs, 1, k - 1), k - 1, n)
           /\ \A j \in 1..(k - 1) : SubSeq(cs, 1, k - 1)[j] = cs[j]
<1> DEFINE r == SubSeq(cs, 1, k - 1)
<1>1. IsSeq(r, k - 1) /\ \A j \in 1..(k - 1) : r[j] = cs[j]
  BY LastCut DEF IsStack
<1> HIDE DEF r
<1>2. \A j \in 1..(k - 1) : IsCall(r[j], n)
  BY <1>1 DEF IsStack
<1>3. \A j \in 1..((k - 1) - 1) : r[j].at = "inputs"
  BY <1>1 DEF IsStack
<1>4. IsStack(r, k - 1, n)
  BY <1>1, <1>2, <1>3 DEF IsStack
<1> QED
  BY <1>1, <1>4 DEF r

\* There is a node for each of the parents, next to those there are.
LEMMA NodesAreMade ==
    ASSUME NEW t \in Txs, IsSeq(made, Len(made))
    PROVE  LET n == Cardinality(Parents[t])
           IN  /\ n \in Nat
               /\ (CHOOSE f \in NewNodes(t) : TRUE)
                     \in [Parents[t] -> (Len(made) + 1)..(Len(made) + n)]
<1> DEFINE P == Parents[t]
           n == Cardinality(P)
           L == Len(made)
<1>1. n \in Nat /\ ExistsBijection(1..n, P) /\ L \in Nat
  BY EnvelopeAssumption, FS_CardinalityType, SeqValues
<1>2. PICK g \in [1..n -> P] : \A u \in P : \E j \in 1..n : g[j] = u
  BY <1>1 DEF ExistsBijection, Bijection, Surjection
<1> DEFINE f == [u \in P |-> L + (CHOOSE j \in 1..n : g[j] = u)]
<1>3. \A u \in P : /\ f[u] - L \in 1..n /\ g[f[u] - L] = u
                   /\ f[u] \in (L + 1)..(L + n)
  <2> SUFFICES ASSUME NEW u \in P
               PROVE  /\ f[u] - L \in 1..n /\ g[f[u] - L] = u
                      /\ f[u] \in (L + 1)..(L + n)
    OBVIOUS
  <2> DEFINE j == CHOOSE j \in 1..n : g[j] = u
  <2>1. j \in 1..n /\ g[j] = u /\ f[u] = L + j
    BY <1>2
  <2> HIDE DEF j, f
  <2>2. f[u] - L = j
    BY <1>1, <2>1
  <2> QED
    BY <1>1, <2>1, <2>2
<1>4. f \in [P -> (L + 1)..(L + n)]
  BY <1>3
<1> HIDE DEF f
<1>5. \A u, v \in P : f[u] = f[v] => u = v
  BY <1>3
<1>6. f \in NewNodes(t)
  BY <1>4, <1>5 DEF NewNodes
<1>7. \A h \in NewNodes(t) : h \in [P -> (L + 1)..(L + n)]
  BY DEF NewNodes
<1> QED
  BY <1>1, <1>6, <1>7

\* The last call.
LEMMA TopCall ==
    ASSUME ReaderInv, Len(calls) # 0
    PROVE  /\ Len(calls) \in Nat \ {0} /\ Len(made) \in Nat
           /\ IsStack(calls, Len(calls), Len(made))
           /\ Call = calls[Len(calls)] /\ IsCall(Call, Len(made))
<1>1. Len(calls) \in Nat /\ Len(made) \in Nat
  BY SeqValues DEF ReaderInv, IsStack
<1> QED
  BY <1>1 DEF ReaderInv, IsStack, Call

\* One element is another, and the others are the same.
LEMMA OneChanged ==
    ASSUME NEW q, NEW n \in Nat, IsSeq(q, n), NEW k \in 1..n, NEW e
    PROVE  /\ IsSeq(With(q, k, e), n) /\ With(q, k, e)[k] = e
           /\ \A j \in 1..n : j # k => With(q, k, e)[j] = q[j]
<1> DEFINE r == [q EXCEPT ![k] = e]
<1>1. q = [j \in 1..n |-> q[j]] /\ DOMAIN q = 1..n
  BY DEF IsSeq
<1>2. DOMAIN r = 1..n /\ r[k] = e /\ \A j \in 1..n : j # k => r[j] = q[j]
  BY <1>1
<1>3. r = [j \in 1..n |-> r[j]]
  BY <1>1
<1> HIDE DEF r
<1>4. Len(r) = n
  BY <1>1, <1>3
<1>5. IsSeq(r, n)
  BY <1>3, <1>4 DEF IsSeq
<1> QED
  BY <1>2, <1>5 DEF r, With

\* And some more follow, all the same.
Extended(q, k, e, n, more) == With(q, k, e) \o [j \in 1..n |-> more]

IsExtension(r, q, L, k, e, n, more) ==
    /\ IsSeq(r, L + n) /\ Len(r) = L + n
    /\ r[k] = e /\ \A j \in 1..L : j # k => r[j] = q[j]
    /\ \A j \in 1..n : r[L + j] = more

\* What is made of the element that changed, of the others and of the new ones.
LEMMA OneChangedSomeAdded ==
    ASSUME NEW q, NEW L \in Nat, IsSeq(q, L), NEW k \in 1..L, NEW e,
           NEW n \in Nat, NEW more
    PROVE  IsExtension(Extended(q, k, e, n, more), q, L, k, e, n, more)
<1> DEFINE Z == [j \in 1..n |-> more]
           M == With(q, k, e)
<1>1. IsSeq(M, L) /\ M[k] = e /\ \A j \in 1..L : j # k => M[j] = q[j]
  BY OneChanged
<1>2. IsSeq(Z, n) /\ \A j \in 1..n : Z[j] = more
  BY DEF IsSeq
<1> HIDE DEF M, Z
<1>3. /\ IsSeq(Both(M, Z), L + n) /\ \A j \in 1..L : Both(M, Z)[j] = M[j]
      /\ \A j \in 1..n : Both(M, Z)[L + j] = Z[j]
  BY <1>1, <1>2, Joined
<1>4. Extended(q, k, e, n, more) = Both(M, Z)
  BY DEF Extended, Both, M, Z
<1>5. Len(Both(M, Z)) = L + n
  BY <1>3, SeqValues
<1> QED
  BY <1>1, <1>2, <1>3, <1>4, <1>5 DEF IsExtension

\* Whether flakes of the transaction at the offset follow it.
Own == offset + 1 <= Len(stream) /\ stream[offset + 1].type # "tx"
NodesOf(t) == CHOOSE f \in NewNodes(t) : TRUE

\* What is made of the flake of a transaction.
LEMMA TxMakes ==
    ASSUME ReaderInv, Len(calls) # 0, NEW t \in Txs, stream[offset].data = t,
           Tx(stream[offset])
    PROVE  LET L == Len(made)
               k == Call.node
               n == Cardinality(Parents[t])
           IN  /\ L \in Nat /\ k \in 1..L /\ n \in Nat /\ L + n \in Nat
               /\ NodesOf(t) \in [Parents[t] -> (L + 1)..(L + n)]
               /\ IsSeq(made', L + n) /\ Len(made') = L + n
               /\ made'[k] = [made[k] EXCEPT !.tx = t,
                                             !.parents = IF Own THEN @ ELSE NodesOf(t)]
               /\ \A j \in 1..L : j # k => made'[j] = made[j]
               /\ \A j \in 1..n : made'[L + j] = Blank
<1> DEFINE L == Len(made)
           k == Call.node
           n == Cardinality(Parents[t])
           x == [made[k] EXCEPT !.tx = t, !.parents = IF Own THEN @ ELSE NodesOf(t)]
<1>1. L \in Nat /\ k \in 1..L /\ IsSeq(made, L)
  BY TopCall DEF IsCall, ReaderInv
<1>2. n \in Nat /\ NodesOf(t) \in [Parents[t] -> (L + 1)..(L + n)]
  BY <1>1, NodesAreMade DEF NodesOf
<1>3. made' = Extended(made, k, x, n, Blank)
  <2>1. made' = [made EXCEPT ![Call.node].tx = t,
                             ![Call.node].parents = IF Own THEN @ ELSE NodesOf(t)]
                   \o [j \in 1..Cardinality(Parents[t]) |-> Blank]
    BY DEF Tx, Own, NodesOf
  <2>2. [made EXCEPT ![k].tx = t, ![k].parents = IF Own THEN @ ELSE NodesOf(t)]
           = With(made, k, x)
    BY <1>1, SeqValues DEF With
  <2> QED
    BY <2>1, <2>2 DEF Extended
<1>4. x = [made[k] EXCEPT !.tx = t, !.parents = IF Own THEN @ ELSE NodesOf(t)]
  OBVIOUS
<1> HIDE DEF x, L, k, n
<1>5. IsExtension(Extended(made, k, x, n, Blank), made, L, k, x, n, Blank)
  BY <1>1, <1>2, OneChangedSomeAdded
<1>6. L + n \in Nat
  BY <1>1, <1>2
<1>7. /\ IsSeq(made', L + n) /\ Len(made') = L + n /\ made'[k] = x
      /\ \A j \in 1..L : j # k => made'[j] = made[j]
      /\ \A j \in 1..n : made'[L + j] = Blank
  BY <1>3, <1>5 DEF IsExtension
<1> QED
  BY <1>1, <1>2, <1>4, <1>6, <1>7 DEF L, k, n

\* The first call is made for the envelope.
LEMMA InitReader == Init => ReaderInv
<1> SUFFICES ASSUME Init PROVE ReaderInv
  OBVIOUS
<1>1. /\ pc \in {"write", "open"} /\ offset = 1 /\ made = <<Blank>>
      /\ calls = <<Parse(1)>>
  BY DEF Init, Parse
<1>2. IsSeq(made, 1) /\ made[1] = Blank /\ IsSeq(calls, 1) /\ calls[1] = Parse(1)
  BY <1>1, One
<1>3. Len(made) = 1 /\ Len(calls) = 1 /\ Len(stream) \in Nat
  BY <1>1, InitWriter, SeqValues DEF WriterInv
<1>4. IsNode(Blank)
  BY DEF IsNode, Blank
<1>5. IsCall(Parse(1), 1)
  BY DEF IsCall, Parse
<1>6. IsStack(calls, 1, 1)
  BY <1>2, <1>5 DEF IsStack
<1>7. \A m \in 1..1 : IsNode(made[m])
  BY <1>2, <1>4
<1> QED
  BY <1>1, <1>2, <1>3, <1>6, <1>7 DEF ReaderInv

\* Nothing is read while something is written, and none of it before there is.
LEMMA WriteReader ==
    ASSUME WriterInv, WriterInv', ReaderInv, Serialise \/ SerialiseReturn \/ Open
    PROVE  ReaderInv'
<1>1. Len(calls) # 0 /\ offset = 1 /\ made = <<Blank>> /\ calls = <<Parse(1)>>
  <2>1. pc \in {"write", "open"}
    BY DEF Serialise, SerialiseReturn, Open
  <2>2. calls = <<Parse(1)>> /\ offset = 1 /\ made = <<Blank>>
    BY <2>1 DEF ReaderInv
  <2> QED
    BY <2>2
<1>2. UNCHANGED <<offset, made, calls>>
  BY DEF Serialise, SerialiseReturn, Open, reader
<1>3. Len(stream) \in Nat /\ Len(stream') \in Nat
  BY SeqValues DEF WriterInv
<1>4. pc' = "read" => More'
  <2> SUFFICES ASSUME pc' = "read" PROVE More'
    OBVIOUS
  <2>1. stream # <<>> /\ stream' = stream
    BY DEF Serialise, SerialiseReturn, Open, writer
  <2>2. Len(stream) # 0
    <3>1. stream = [j \in 1..Len(stream) |-> stream[j]]
      BY DEF WriterInv, IsSeq
    <3>2. Len(stream) = 0 => DOMAIN stream = {}
      BY <3>1
    <3> QED
      BY <2>1, <3>1, <3>2
  <2> QED
    BY <1>1, <1>2, <1>3, <2>1, <2>2 DEF More
<1>5. pc' = "done" => format' = "specialK"
  BY DEF Serialise, SerialiseReturn, Open, writer, WriterInv
<1>6. offset' \in 1..(Len(stream') + 1)
  BY <1>1, <1>2, <1>3
<1> QED
  BY <1>1, <1>2, <1>4, <1>5, <1>6 DEF ReaderInv

\* Another call in place of the last one, and one that it makes.
LEMMA ThenSteps ==
    ASSUME ReaderInv, Len(calls) # 0, NEW m \in Nat, Len(made) <= m, NEW c, IsCall(c, m)
    PROVE  /\ calls' = Then(c) =>
                 /\ IsStack(calls', Len(calls'), m) /\ Len(calls') = Len(calls)
                 /\ Call' = c
                 /\ \A j \in 1..(Len(calls) - 1) : calls'[j] = calls[j]
           /\ \A d : IsCall(d, m) /\ c.at = "inputs" /\ calls' = Added(Then(c), d) =>
                 /\ IsStack(calls', Len(calls'), m) /\ Len(calls') = Len(calls) + 1
                 /\ Call' = d /\ calls'[Len(calls)] = c
                 /\ \A j \in 1..(Len(calls) - 1) : calls'[j] = calls[j]
<1>1. /\ Len(calls) \in Nat \ {0} /\ Len(made) \in Nat
      /\ IsStack(calls, Len(calls), Len(made))
  BY TopCall
<1> DEFINE T == With(calls, Len(calls), c)
<1>2. /\ IsStack(T, Len(calls), m) /\ T[Len(calls)] = c
      /\ \A j \in 1..(Len(calls) - 1) : T[j] = calls[j]
  BY <1>1, StackThen
<1>3. Then(c) = T
  BY DEF Then, With
<1> HIDE DEF T
<1>4. \A q, n : IsStack(q, n, m) => Len(q) = n
  BY SeqValues DEF IsStack
<1>5. ASSUME calls' = T
      PROVE  /\ IsStack(calls', Len(calls'), m) /\ Len(calls') = Len(calls)
             /\ Call' = c
             /\ \A j \in 1..(Len(calls) - 1) : calls'[j] = calls[j]
  <2>1. Len(T) = Len(calls)
    BY <1>2, <1>4
  <2> QED
    BY <1>2, <1>5, <2>1 DEF Call
<1>6. ASSUME NEW d, IsCall(d, m), c.at = "inputs", calls' = Added(T, d)
      PROVE  /\ IsStack(calls', Len(calls'), m) /\ Len(calls') = Len(calls) + 1
             /\ Call' = d /\ calls'[Len(calls)] = c
             /\ \A j \in 1..(Len(calls) - 1) : calls'[j] = calls[j]
  <2> DEFINE A == Added(T, d)
  <2>1. T[Len(calls)].at = "inputs"
    BY <1>2, <1>6
  <2>2. /\ IsStack(A, Len(calls) + 1, m) /\ A[Len(calls) + 1] = d
        /\ \A j \in 1..Len(calls) : A[j] = T[j]
    BY <1>1, <1>2, <1>6, <2>1, StackCall
  <2> HIDE DEF A
  <2>3. Len(A) = Len(calls) + 1
    BY <1>4, <2>2
  <2>4. A[Len(calls)] = c /\ \A j \in 1..(Len(calls) - 1) : A[j] = calls[j]
    BY <1>1, <1>2, <2>2
  <2>5. calls' = A
    BY <1>6 DEF A
  <2> QED
    BY <2>2, <2>3, <2>4, <2>5 DEF Call
<1> QED
  BY <1>3, <1>5, <1>6

\* The flake of a transaction is read.
LEMMA TxReader ==
    ASSUME WriterInv, ReaderInv, ReadFlake, ~ Panics(stream[offset]), Tx(stream[offset])
    PROVE  ReaderInv'
<1>1. /\ pc = "read" /\ pc' = pc /\ Len(calls) # 0 /\ Call.at = "flake" /\ More
      /\ offset' = offset + 1 /\ UNCHANGED <<format, stream>>
  <2>1. /\ pc = "read" /\ Len(calls) # 0 /\ Call.at = "flake" /\ More
        /\ UNCHANGED <<format, stream>>
    BY DEF ReadFlake, writer, ReaderInv
  <2>2. pc' = pc
    BY DEF ReadFlake
  <2>3. offset' = offset + 1
    BY DEF Tx
  <2> QED
    BY <2>1, <2>2, <2>3
<1>2. Len(stream) \in Nat /\ DOMAIN stream = 1..Len(stream) /\ offset \in 1..Len(stream)
  BY <1>1, SeqValues DEF WriterInv, ReaderInv, More
<1> DEFINE t == stream[offset].data
           L == Len(made)
           k == Call.node
           n == Cardinality(Parents[t])
           loop == [node |-> k, at |-> "inputs", inputs |-> ValuesOf(NodesOf(t))]
<1>3. t \in Txs
  BY <1>2 DEF WriterInv, TxFlakes, Tx, Panics
<1>4. /\ L \in Nat /\ k \in 1..L /\ n \in Nat /\ L + n \in Nat
      /\ NodesOf(t) \in [Parents[t] -> (L + 1)..(L + n)]
      /\ IsSeq(made', L + n) /\ Len(made') = L + n
      /\ made'[k] = [made[k] EXCEPT !.tx = t,
                                    !.parents = IF Own THEN @ ELSE NodesOf(t)]
      /\ \A j \in 1..L : j # k => made'[j] = made[j]
      /\ \A j \in 1..n : made'[L + j] = Blank
  <2> HIDE DEF t
  <2>1. stream[offset].data = t
    BY DEF t
  <2> QED
    BY <1>1, <1>3, <2>1, TxMakes, Zenon
<1>5. calls' = IF Own THEN Added(Then(loop), Parse(k)) ELSE Then(loop)
  BY DEF Tx, Own, NodesOf, Parse, Added
<1>6. ValuesOf(NodesOf(t)) \subseteq 1..(L + n)
  <2>1. \A m \in (L + 1)..(L + n) : m \in 1..(L + n)
    BY <1>4
  <2>2. \A u \in Parents[t] : NodesOf(t)[u] \in (L + 1)..(L + n)
    BY <1>4
  <2>3. DOMAIN NodesOf(t) = Parents[t]
    BY <1>4
  <2> HIDE DEF t, L, k, n
  <2> QED
    BY <2>1, <2>2, <2>3 DEF ValuesOf
<1>7. \A j \in 1..L : IsNode(made[j])
  BY DEF ReaderInv
<1> HIDE DEF t, L, k, n
<1>8. IsCall(loop, L + n) /\ IsCall(Parse(k), L + n) /\ loop.at = "inputs"
      /\ Parse(k).at = "flake"
  BY <1>4, <1>6 DEF IsCall, Parse
<1>9. \A j \in 1..(L + n) : IsNode(made'[j])
  <2> SUFFICES ASSUME NEW j \in 1..(L + n) PROVE IsNode(made'[j])
    OBVIOUS
  <2>1. CASE j = k
    <3>1. IsNode(made[k])
      BY <1>4, <1>7
    <3> QED
      BY <1>3, <1>4, <2>1, <3>1 DEF IsNode
  <2>2. CASE j # k /\ j \in 1..L
    BY <1>4, <1>7, <2>2
  <2>3. CASE j \notin 1..L
    <3>1. PICK i \in 1..n : j = L + i
      <4>1. j - L \in 1..n /\ j = L + (j - L)
        BY <1>4, <2>3
      <4> QED
        BY <4>1
    <3>2. made'[j] = Blank
      BY <1>4, <3>1
    <3> QED
      BY <3>2 DEF IsNode, Blank
  <2> QED
    BY <2>1, <2>2, <2>3
<1>10. /\ IsStack(calls', Len(calls'), L + n) /\ Len(calls') # 0
       /\ Call' = IF Own THEN Parse(k) ELSE loop
  <2> HIDE DEF loop
  <2>1. Len(calls) \in Nat
    BY TopCall, <1>1
  <2>2. Len(made) <= L + n
    BY <1>4 DEF L
  <2>3. CASE Own
    BY <1>1, <1>4, <1>5, <1>8, <2>1, <2>2, <2>3, ThenSteps
  <2>4. CASE ~ Own
    BY <1>1, <1>4, <1>5, <1>8, <2>1, <2>2, <2>4, ThenSteps
  <2> QED
    BY <2>3, <2>4
<1>11. Call'.at = "flake" => More'
  <2>1. Own => More'
    BY <1>1, <1>2 DEF Own, More
  <2>2. ~ Own => Call'.at # "flake"
    BY <1>8, <1>10
  <2> QED
    BY <2>1, <2>2
<1>12. IsSeq(made', Len(made')) /\ IsStack(calls', Len(calls'), Len(made'))
       /\ \A j \in 1..Len(made') : IsNode(made'[j])
  BY <1>4, <1>9, <1>10
<1>13. offset' \in 1..(Len(stream') + 1)
  BY <1>1, <1>2
<1> QED
  BY <1>1, <1>10, <1>11, <1>12, <1>13 DEF ReaderInv

\* What is made of another flake.
LEMMA OtherMakes ==
    ASSUME ReaderInv, Len(calls) # 0, Proof(stream[offset]) \/ Mapi(stream[offset])
    PROVE  /\ Call.node \in 1..Len(made)
           /\ IsSeq(made', Len(made)) /\ Len(made') = Len(made)
           /\ \A j \in 1..Len(made) : j # Call.node => made'[j] = made[j]
           /\ Proof(stream[offset]) =>
                 made'[Call.node] =
                   [made[Call.node] EXCEPT !.proof = flagType(stream[offset].data)]
           /\ Mapi(stream[offset]) =>
                 made'[Call.node] = [made[Call.node] EXCEPT !.mapi = @ + 1]
           /\ calls' = Then(At("end"))
<1>1. /\ Len(made) \in Nat /\ Call.node \in 1..Len(made) /\ IsSeq(made, Len(made))
      /\ DOMAIN made = 1..Len(made)
  BY TopCall, SeqValues DEF IsCall, ReaderInv
<1>2. ASSUME NEW x, made' = With(made, Call.node, x)
      PROVE  /\ IsSeq(made', Len(made)) /\ Len(made') = Len(made)
             /\ made'[Call.node] = x
             /\ \A j \in 1..Len(made) : j # Call.node => made'[j] = made[j]
  <2> DEFINE W == With(made, Call.node, x)
  <2>1. /\ IsSeq(W, Len(made)) /\ W[Call.node] = x
        /\ \A j \in 1..Len(made) : j # Call.node => W[j] = made[j]
    BY <1>1, OneChanged
  <2>2. Len(W) = Len(made)
    BY <2>1, SeqValues
  <2> QED
    BY <1>2, <2>1, <2>2
<1>3. CASE Proof(stream[offset])
  <2> DEFINE x == [made[Call.node] EXCEPT !.proof = flagType(stream[offset].data)]
  <2>1. made' = With(made, Call.node, x) /\ calls' = Then(At("end"))
    BY <1>1, <1>3 DEF Proof, With
  <2>2. ~ Mapi(stream[offset])
    BY <1>3 DEF Proof, Mapi
  <2> QED
    BY <1>1, <1>2, <2>1, <2>2
<1>4. CASE Mapi(stream[offset])
  <2> DEFINE x == [made[Call.node] EXCEPT !.mapi = @ + 1]
  <2>1. made' = With(made, Call.node, x) /\ calls' = Then(At("end"))
    BY <1>1, <1>4 DEF Mapi, With
  <2>2. ~ Proof(stream[offset])
    BY <1>4 DEF Proof, Mapi
  <2> QED
    BY <1>1, <1>2, <2>1, <2>2
<1> QED
  BY <1>3, <1>4

\* A call at another place is one.
LEMMA AtIsCall ==
    ASSUME NEW n \in Nat, IsCall(Call, n), NEW place
    PROVE  /\ IsCall(At(place), n) /\ At(place).at = place
           /\ At(place).node = Call.node /\ At(place).inputs = Call.inputs
BY DEF IsCall, At

\* So is one with less to do.
LEMMA LessIsCall ==
    ASSUME NEW n \in Nat, NEW c, IsCall(c, n), NEW m
    PROVE  /\ IsCall([c EXCEPT !.inputs = @ \ {m}], n)
           /\ [c EXCEPT !.inputs = @ \ {m}].at = c.at
           /\ [c EXCEPT !.inputs = @ \ {m}].node = c.node
           /\ [c EXCEPT !.inputs = @ \ {m}].inputs = c.inputs \ {m}
<1>1. DOMAIN c = {"node", "at", "inputs"} /\ c.node \in 1..n /\ c.inputs \subseteq 1..n
  BY DEF IsCall
<1> QED
  BY <1>1 DEF IsCall

\* Another flake is read.
LEMMA OtherReader ==
    ASSUME WriterInv, ReaderInv, ReadFlake, ~ Panics(stream[offset]),
           Proof(stream[offset]) \/ Mapi(stream[offset]) \/ Other(stream[offset])
    PROVE  ReaderInv'
<1>1. /\ pc = "read" /\ pc' = pc /\ Len(calls) # 0 /\ More
      /\ offset' = offset + 1 /\ UNCHANGED <<format, stream>>
  <2>1. /\ pc = "read" /\ Len(calls) # 0 /\ More /\ UNCHANGED <<format, stream>>
    BY DEF ReadFlake, writer, ReaderInv
  <2>2. pc' = pc
    BY DEF ReadFlake
  <2>3. offset' = offset + 1
    BY DEF Proof, Mapi, Other
  <2> QED
    BY <2>1, <2>2, <2>3
<1>2. Len(stream) \in Nat /\ offset \in 1..Len(stream)
  BY <1>1, SeqValues DEF WriterInv, ReaderInv, More
<1>3. /\ Call.node \in 1..Len(made)
      /\ IsSeq(made', Len(made)) /\ Len(made') = Len(made)
      /\ \A j \in 1..Len(made) : j # Call.node => made'[j] = made[j]
      /\ \/ made'[Call.node] =
              [made[Call.node] EXCEPT !.proof = flagType(stream[offset].data)]
         \/ made'[Call.node] = [made[Call.node] EXCEPT !.mapi = @ + 1]
         \/ made'[Call.node] = made[Call.node]
      /\ calls' = Then(At("end"))
  <2>1. CASE Other(stream[offset])
    <3>1. made' = made /\ calls' = Then(At("end"))
      BY <2>1 DEF Other
    <3>2. Call.node \in 1..Len(made) /\ IsSeq(made, Len(made))
      BY <1>1, TopCall DEF IsCall, ReaderInv
    <3> QED
      BY <3>1, <3>2
  <2>2. CASE Proof(stream[offset]) \/ Mapi(stream[offset])
    BY <1>1, <2>2, OtherMakes
  <2> QED
    BY <2>1, <2>2
<1>4. /\ Len(calls) \in Nat /\ Len(made) \in Nat
      /\ IsCall(At("end"), Len(made)) /\ At("end").at = "end"
  BY <1>1, TopCall, AtIsCall
<1>5. /\ IsStack(calls', Len(calls'), Len(made)) /\ Len(calls') = Len(calls)
      /\ Call' = At("end")
  BY <1>1, <1>3, <1>4, ThenSteps
<1>6. \A j \in 1..Len(made) : IsNode(made'[j])
  <2> SUFFICES ASSUME NEW j \in 1..Len(made) PROVE IsNode(made'[j])
    OBVIOUS
  <2>1. IsNode(made[j])
    BY DEF ReaderInv
  <2>2. CASE j = Call.node
    <3>1. \/ made'[j] = [made[j] EXCEPT !.proof = flagType(stream[offset].data)]
          \/ made'[j] = [made[j] EXCEPT !.mapi = @ + 1]
          \/ made'[j] = made[j]
      BY <1>3, <2>2
    <3> QED
      BY <2>1, <3>1 DEF IsNode
  <2>3. CASE j # Call.node
    BY <1>3, <2>1, <2>3
  <2> QED
    BY <2>2, <2>3
<1>7. /\ IsSeq(made', Len(made')) /\ \A j \in 1..Len(made') : IsNode(made'[j])
      /\ IsStack(calls', Len(calls'), Len(made'))
  BY <1>3, <1>5, <1>6
<1>8. Len(calls') # 0 /\ Call'.at # "flake"
  BY <1>1, <1>4, <1>5
<1>9. offset' \in 1..(Len(stream') + 1)
  BY <1>1, <1>2
<1> QED
  BY <1>1, <1>7, <1>8, <1>9 DEF ReaderInv

\* The loop over the parents makes a call, or ends.
LEMMA InputsReader ==
    ASSUME ReaderInv, Inputs PROVE ReaderInv'
<1>1. /\ pc = "read" /\ Len(calls) # 0 /\ Call.at = "inputs"
      /\ UNCHANGED <<pc, offset, made, format, stream>> /\ (More' <=> More)
  BY DEF Inputs, writer, More
<1>2. /\ Len(calls) \in Nat /\ Len(made) \in Nat /\ IsCall(Call, Len(made))
  BY <1>1, TopCall
<1>3. CASE calls' = Then(At("end"))
  <2>1. IsCall(At("end"), Len(made)) /\ At("end").at = "end"
    BY <1>2, AtIsCall
  <2>2. /\ IsStack(calls', Len(calls'), Len(made)) /\ Len(calls') = Len(calls)
        /\ Call' = At("end")
    BY <1>1, <1>2, <1>3, <2>1, ThenSteps
  <2>3. Len(calls') # 0 /\ Call'.at # "flake"
    BY <1>1, <2>1, <2>2
  <2> QED
    BY <1>1, <2>2, <2>3 DEF ReaderInv
<1>4. ASSUME More, NEW m \in Call.inputs,
             calls' = Append(Then([Call EXCEPT !.inputs = @ \ {m}]), Parse(m))
      PROVE  ReaderInv'
  <2> DEFINE c == [Call EXCEPT !.inputs = @ \ {m}]
  <2>1. IsCall(c, Len(made)) /\ c.at = "inputs" /\ IsCall(Parse(m), Len(made))
    <3>1. IsCall(c, Len(made)) /\ c.at = Call.at
      BY <1>2, LessIsCall
    <3> HIDE DEF c
    <3>2. IsCall(c, Len(made)) /\ c.at = "inputs"
      BY <1>1, <3>1
    <3>3. IsCall(Parse(m), Len(made))
      BY <1>2, <1>4 DEF IsCall, Parse
    <3> QED
      BY <3>2, <3>3
  <2>2. calls' = Added(Then(c), Parse(m))
    BY <1>4 DEF Added
  <2> HIDE DEF c
  <2>3. IsStack(calls', Len(calls'), Len(made)) /\ Len(calls') = Len(calls) + 1
    BY <1>1, <1>2, <2>1, <2>2, ThenSteps
  <2>4. Len(calls') # 0
    BY <1>2, <2>3
  <2> QED
    BY <1>1, <1>4, <2>3, <2>4 DEF ReaderInv
<1> QED
  BY <1>3, <1>4 DEF Inputs

\* A call that is done reads what is left, or returns.
LEMMA EndReader ==
    ASSUME ReaderInv, End PROVE ReaderInv'
<1>1. /\ pc = "read" /\ Len(calls) # 0
      /\ UNCHANGED <<pc, offset, made, format, stream>> /\ (More' <=> More)
      /\ calls' = IF More THEN Then(Parse(Call.node))
                          ELSE SubSeq(calls, 1, Len(calls) - 1)
  BY DEF End, writer, More
<1>2. /\ Len(calls) \in Nat \ {0} /\ Len(made) \in Nat /\ IsCall(Call, Len(made))
      /\ IsStack(calls, Len(calls), Len(made))
  BY <1>1, TopCall
<1>3. CASE More
  <2>1. IsCall(Parse(Call.node), Len(made))
    BY <1>2 DEF IsCall, Parse
  <2>2. IsStack(calls', Len(calls'), Len(made)) /\ Len(calls') = Len(calls)
    BY <1>1, <1>2, <1>3, <2>1, ThenSteps
  <2>3. Len(calls') # 0
    BY <1>1, <2>2
  <2> QED
    BY <1>1, <1>3, <2>2, <2>3 DEF ReaderInv
<1>4. CASE ~ More
  <2> DEFINE r == SubSeq(calls, 1, Len(calls) - 1)
  <2>1. IsStack(r, Len(calls) - 1, Len(made))
        /\ \A j \in 1..(Len(calls) - 1) : r[j] = calls[j]
    BY <1>2, StackReturn
  <2> HIDE DEF r
  <2>2. Len(r) = Len(calls) - 1
    BY <2>1, SeqValues DEF IsStack
  <2>3. calls' = r
    BY <1>1, <1>4 DEF r
  <2>4. IsStack(calls', Len(calls'), Len(made))
    BY <2>1, <2>2, <2>3
  <2>5. Len(calls') # 0 => Call'.at = "inputs"
    <3> SUFFICES ASSUME Len(calls') # 0 PROVE calls'[Len(calls')].at = "inputs"
      BY DEF Call
    <3>1. Len(r) \in 1..(Len(calls) - 1)
      BY <1>2, <2>2, <2>3
    <3> QED
      BY <1>2, <2>1, <2>3, <3>1 DEF IsStack
  <2> QED
    BY <1>1, <1>4, <2>4, <2>5 DEF ReaderInv
<1> QED
  BY <1>3, <1>4

\* Every step keeps what is known of the parser.
LEMMA NextReader ==
    WriterInv /\ WriterInv' /\ ReaderInv /\ [Next]_vars => ReaderInv'
<1> SUFFICES ASSUME WriterInv, WriterInv', ReaderInv, [Next]_vars PROVE ReaderInv'
  OBVIOUS
<1>1. CASE Serialise \/ SerialiseReturn \/ Open
  BY <1>1, WriteReader
<1>2. CASE ReadFlake /\ ~ Panics(stream[offset])
  BY <1>2, TxReader, OtherReader DEF ReadFlake
<1>3. CASE Inputs
  BY <1>3, InputsReader
<1>4. CASE End
  BY <1>4, EndReader
<1>5. ASSUME UNCHANGED <<format, stream, offset, made, calls>>,
             pc' = pc \/ (pc' = "done" /\ Len(calls) = 0) \/ pc' = "panic"
      PROVE  ReaderInv'
  <2>1. (More' <=> More) /\ Call' = Call
    BY <1>5 DEF More, Call
  <2> QED
    BY <1>5, <2>1 DEF ReaderInv
<1>6. CASE Return
  BY <1>5, <1>6 DEF Return, reader, writer
<1>7. CASE UNCHANGED vars
  BY <1>5, <1>7 DEF vars
<1>8. CASE ReadFlake /\ Panics(stream[offset])
  BY <1>5, <1>8 DEF ReadFlake, reader, writer
<1> QED
  BY <1>1, <1>2, <1>3, <1>4, <1>6, <1>7, <1>8 DEF Next

\* What has been read has parsed.
WholeInv ==
    /\ \A j \in 1..(offset - 1) : ~ Panics(stream[j])
    /\ pc = "read" \/ (pc = "done" /\ format # "specialK") =>
          version = 1 /\ Len(stream) # 0

\* Every step reads one flake that parses, or none.
LEMMA NextWhole ==
    WriterInv /\ ReaderInv /\ WholeInv /\ [Next]_vars => WholeInv'
<1> SUFFICES ASSUME WriterInv, ReaderInv, WholeInv, [Next]_vars PROVE WholeInv'
  OBVIOUS
<1>1. offset \in Nat /\ IsSeq(stream, Len(stream))
  BY SeqValues DEF WriterInv, ReaderInv
<1>2. CASE Serialise
  <2>1. pc = "write" /\ pc' = pc /\ offset' = offset
    BY <1>2 DEF Serialise, reader
  <2>2. offset' = 1
    BY <2>1 DEF ReaderInv
  <2> QED
    BY <2>1, <2>2 DEF WholeInv
<1>3. ASSUME UNCHANGED <<stream, version, format, offset>>,
             \/ pc' \in {"open", "error", "panic"}
             \/ pc' = "done" /\ (pc = "read" \/ format = "specialK")
             \/ pc' = "read" /\ (pc = "read" \/ (version = 1 /\ Len(stream) # 0))
             \/ pc' = pc
      PROVE  WholeInv'
  BY <1>3 DEF WholeInv, Panics
<1>4. CASE SerialiseReturn
  BY <1>3, <1>4 DEF SerialiseReturn, writer, reader, WriterInv
<1>5. CASE Open
  <2>1. Len(stream) = 0 => stream = <<>>
    <3>1. stream = [j \in 1..Len(stream) |-> stream[j]]
      BY <1>1 DEF IsSeq
    <3> QED
      BY <3>1
  <2>2. pc' = "panic" \/ pc' = "error" \/ (pc' = "read" /\ version = 1 /\ stream # <<>>)
    BY <1>5 DEF Open
  <2> QED
    BY <1>3, <1>5, <2>1, <2>2 DEF Open, writer, reader
<1>6. CASE ReadFlake
  <2>1. CASE Panics(stream[offset])
    BY <1>3, <1>6, <2>1 DEF ReadFlake, writer, reader
  <2>2. CASE ~ Panics(stream[offset])
    <3>1. /\ offset' = offset + 1 /\ UNCHANGED <<stream, version, format, pc>>
          /\ pc = "read"
      BY <1>6, <2>2 DEF ReadFlake, Tx, Proof, Mapi, Other, writer
    <3>2. ASSUME NEW j \in 1..(offset' - 1) PROVE ~ Panics(stream[j])
      <4>1. j \in 1..(offset - 1) \/ j = offset
        BY <1>1, <3>1
      <4> QED
        BY <2>2, <4>1 DEF WholeInv
    <3> QED
      BY <3>1, <3>2 DEF WholeInv, Panics
  <2> QED
    BY <2>1, <2>2
<1>7. CASE Inputs \/ End
  BY <1>3, <1>7 DEF Inputs, End, writer
<1>8. CASE Return
  BY <1>3, <1>8 DEF Return, writer, reader
<1>9. CASE UNCHANGED vars
  BY <1>3, <1>9 DEF vars
<1> QED
  BY <1>2, <1>4, <1>5, <1>6, <1>7, <1>8, <1>9 DEF Next

IInv == WriterInv /\ ChainInv /\ ReaderInv /\ WholeInv

\* What is written is a chain, and the parser has a flake whenever it is to
\* read one.
THEOREM Invariance == Spec => []IInv
<1>1. Init => IInv
  <2>1. Init => WholeInv
    BY DEF Init, WholeInv
  <2> QED
    BY <2>1, InitWriter, InitReader DEF IInv
<1>2. IInv /\ [Next]_vars => IInv'
  BY NextWriter, NextReader, NextWhole DEF IInv
<1> QED
  BY <1>1, <1>2, PTL DEF Spec

\* No byte beyond the end is read, and the parser ends where the bytes end,
\* whatever the envelope that was serialised.
THEOREM TypeCorrect == Spec => []TypeOK
<1>1. ASSUME IInv PROVE TypeOK
  <2>1. Len(made) \in Nat /\ DOMAIN made = 1..Len(made) /\ DOMAIN calls = 1..Len(calls)
    BY <1>1, SeqValues DEF IInv, ReaderInv, IsStack
  <2>2. \A m \in DOMAIN made : made[m].tx \in Txs \cup {NoTx}
    BY <1>1, <2>1 DEF IInv, ReaderInv, IsNode
  <2>3. \A k \in DOMAIN calls : /\ calls[k].node \in DOMAIN made
                                /\ calls[k].inputs \subseteq DOMAIN made
    BY <1>1, <2>1 DEF IInv, ReaderInv, IsStack, IsCall
  <2>4. calls # <<>> => Len(calls) # 0
    BY <2>1
  <2>5. Len(calls) = 0 => offset = Len(stream) + 1
    BY <1>1, SeqValues DEF IInv, ReaderInv, More, WriterInv
  <2> QED
    BY <1>1, <2>2, <2>3, <2>4, <2>5 DEF IInv, ReaderInv, WriterInv, TypeOK, More, Places
<1> QED
  BY <1>1, Invariance, PTL

\* Whatever bytes are received, an envelope comes of them only if they begin with
\* version 1 and every flake in them parses: in no order of the recursion is one
\* stepped over.
THEOREM WholeOnly == Spec => []OnlyWholeIsRead
<1>1. ASSUME IInv PROVE OnlyWholeIsRead
  <2> SUFFICES ASSUME pc = "done", format # "specialK"
               PROVE  /\ version = 1 /\ Len(stream) >= 1
                      /\ \A j \in DOMAIN stream :
                            /\ stream[j].data # Short
                            /\ stream[j].type \in {"tx", "proof", "mapi"} =>
                                  stream[j].data # Garbled
    BY DEF OnlyWholeIsRead
  <2>1. Len(stream) \in Nat /\ DOMAIN stream = 1..Len(stream)
    BY <1>1, SeqValues DEF IInv, WriterInv
  <2>2. offset = Len(stream) + 1
    BY <1>1, <2>1 DEF IInv, ReaderInv, More
  <2>3. version = 1 /\ Len(stream) # 0 /\ \A j \in 1..(offset - 1) : ~ Panics(stream[j])
    BY <1>1 DEF IInv, WholeInv
  <2>4. \A j \in DOMAIN stream : ~ Panics(stream[j])
    BY <2>1, <2>2, <2>3
  <2> QED
    BY <2>1, <2>3, <2>4 DEF Panics
<1> QED
  BY <1>1, Invariance, PTL

-----------------------------------------------------------------------------
(* Chains, from the first flake to the last *)

Mapis(s)    == s[Len(s)].mapi
LastFlake(s) == Len(s) + Mapis(s) + 1

\* Every transaction; then the callbacks of the last, and its proof.
FlakeAt(s, j) ==
    IF j <= Len(s) THEN Flake("tx", s[j].tx)
    ELSE IF j <= Len(s) + Mapis(s) THEN Flake("mapi", s[Len(s)].tx)
    ELSE Flake("proof", s[Len(s)].proof)

\* The flakes written, and the node that comes next.
ChainWritten(s) ==
    format = "crunchyNut" /\ envelope = s[1] =>
        /\ \A j \in 1..Len(stream) : stream[j] = FlakeAt(s, j)
        /\ \/ nodes = {} /\ Len(stream) = LastFlake(s)
           \/ \E k \in 1..Len(s) : nodes = {s[k]} /\ Len(stream) = k - 1

\* What chains are made of.
LEMMA ChainValues ==
    ASSUME NEW s \in Chains
    PROVE  /\ Len(s) \in Nat \ {0} /\ Mapis(s) \in Nat
           /\ \A k \in 1..Len(s) : s[k] \in Envelopes /\ s[k].raw = s[k].tx
           /\ \A k \in 1..(Len(s) - 1) :
                 /\ s[k].proof = NoProof /\ s[k].mapi = 0
                 /\ Parents[s[k].tx] = {s[k + 1].tx}
                 /\ DOMAIN s[k].parents = Parents[s[k].tx]
                 /\ HasParents(s[k]) /\ ValuesOf(s[k].parents) = {s[k + 1]}
           /\ s[Len(s)].parents = <<>>
           /\ s[Len(s)].proof \notin Unwritten /\ s[Len(s)].proof \notin {Garbled, Short}
<1>1. s \in Seq(Envelopes) /\ IsChain(s)
  BY EnvelopeAssumption
<1>2. Len(s) \in Nat \ {0} /\ \A k \in 1..Len(s) : s[k] \in Envelopes
  BY <1>1 DEF IsChain
<1>3. /\ s[Len(s)].parents = <<>>
      /\ s[Len(s)].proof \notin Unwritten /\ s[Len(s)].proof \notin {Garbled, Short}
  BY <1>1 DEF IsChain, Unwritten
<1>4. Mapis(s) \in Nat
  <2>1. Len(s) \in 1..Len(s)
    BY <1>2
  <2> QED
    BY <1>2, <2>1, NodeValues DEF Mapis
<1>5. ASSUME NEW k \in 1..(Len(s) - 1)
      PROVE  /\ s[k].proof = NoProof /\ s[k].mapi = 0 /\ s[k].raw = s[k].tx
             /\ Parents[s[k].tx] = {s[k + 1].tx}
             /\ DOMAIN s[k].parents = Parents[s[k].tx]
             /\ HasParents(s[k]) /\ ValuesOf(s[k].parents) = {s[k + 1]}
  <2> DEFINE x == s[k]
             y == s[k + 1]
             P == Parents[x.tx]
  <2>1. /\ x = [tx |-> x.tx, raw |-> x.tx, proof |-> NoProof, mapi |-> 0,
                parents |-> [t \in P |-> y]]
        /\ P = {y.tx}
    BY <1>1 DEF IsChain
  <2>2. x \in Envelopes
    BY <1>2
  <2> HIDE DEF x, y, P
  <2>3. x.proof = NoProof /\ x.mapi = 0 /\ x.raw = x.tx /\ x.parents = [t \in P |-> y]
    BY <2>1
  <2>4. DOMAIN x.parents = P /\ ValuesOf(x.parents) = {y}
    BY <2>1, <2>3 DEF ValuesOf
  <2>5. HasParents(x)
    BY <2>2, <2>3, NodeValues
  <2> QED
    BY <2>1, <2>3, <2>4, <2>5 DEF x, y, P
<1>6. ASSUME NEW k \in 1..Len(s) PROVE s[k].raw = s[k].tx
  <2>1. k = Len(s) \/ k \in 1..(Len(s) - 1)
    BY <1>2
  <2>2. s[Len(s)].raw = s[Len(s)].tx
    BY <1>1 DEF IsChain
  <2> QED
    BY <1>5, <2>1, <2>2
<1> QED
  BY <1>2, <1>3, <1>4, <1>5, <1>6

\* What is written of a node of a chain.
LEMMA ChainBlock ==
    ASSUME NEW s \in Chains, NEW k \in 1..Len(s)
    PROVE  \E n \in Nat :
              /\ IsSeq(CrunchyNut(s[k]), n)
              /\ n = IF k = Len(s) THEN Mapis(s) + 2 ELSE 1
              /\ \A j \in 1..n : CrunchyNut(s[k])[j] = FlakeAt(s, (k - 1) + j)
<1> DEFINE B == CrunchyNut(s[k])
           c == s[k].mapi
           p == IF s[k].proof \in Unwritten THEN 0 ELSE 1
<1>1. c \in Nat /\ Len(s) \in Nat \ {0}
  BY ChainValues, NodeValues
<1>2. /\ IsSeq(B, (1 + c) + p) /\ B[1] = Flake("tx", s[k].tx)
      /\ \A j \in 2..(1 + c) : B[j] = Flake("mapi", s[k].tx)
      /\ s[k].proof \notin Unwritten => B[2 + c] = Flake("proof", s[k].proof)
  BY <1>1, ChainValues, CrunchyNutFlakes
<1> HIDE DEF B
<1>3. CASE k = Len(s)
  <2>1. c = Mapis(s) /\ s[k].proof \notin Unwritten
    BY <1>3, ChainValues DEF Mapis
  <2>2. IsSeq(B, c + 2)
    <3>1. (1 + c) + p = c + 2
      BY <1>1, <2>1
    <3> QED
      BY <1>2, <3>1
  <2>3. ASSUME NEW j \in 1..(c + 2) PROVE B[j] = FlakeAt(s, (k - 1) + j)
    <3> DEFINE i == (k - 1) + j
    <3>1. i \in Nat /\ (i <= Len(s) <=> j = 1) /\ (i <= Len(s) + c <=> j <= 1 + c)
      BY <1>1, <1>3
    <3>2. CASE j = 1
      <4>1. i = k /\ i <= Len(s)
        BY <1>3, <3>2
      <4> HIDE DEF i
      <4>2. FlakeAt(s, i) = Flake("tx", s[k].tx)
        BY <4>1 DEF FlakeAt
      <4> QED
        BY <1>2, <3>2, <4>2 DEF i
    <3>3. CASE j \in 2..(1 + c)
      <4> HIDE DEF i
      <4>1. FlakeAt(s, i) = Flake("mapi", s[k].tx)
        BY <1>3, <2>1, <3>1, <3>3 DEF FlakeAt
      <4> QED
        BY <1>2, <3>3, <4>1 DEF i
    <3>4. CASE j = 2 + c
      <4>1. ~ (i <= Len(s)) /\ ~ (i <= Len(s) + c)
        BY <1>1, <3>1, <3>4
      <4> HIDE DEF i
      <4>2. FlakeAt(s, i) = Flake("proof", s[k].proof)
        BY <1>3, <2>1, <4>1 DEF FlakeAt
      <4> QED
        BY <1>2, <2>1, <3>4, <4>2 DEF i
    <3> QED
      BY <1>1, <3>2, <3>3, <3>4
  <2> QED
    BY <1>1, <1>3, <2>1, <2>2, <2>3 DEF B
<1>4. CASE k # Len(s)
  <2>1. k \in 1..(Len(s) - 1)
    BY <1>1, <1>4
  <2>2. s[k].proof \in Unwritten /\ c = 0
    BY <2>1, ChainValues DEF Unwritten
  <2>3. IsSeq(B, 1)
    <3>1. (1 + c) + p = 1
      BY <2>2
    <3> QED
      BY <1>2, <3>1
  <2>4. FlakeAt(s, k) = Flake("tx", s[k].tx)
    BY <1>1, <2>1 DEF FlakeAt
  <2>5. \A j \in 1..1 : B[j] = FlakeAt(s, (k - 1) + j)
    <3>1. (k - 1) + 1 = k
      OBVIOUS
    <3> QED
      BY <1>2, <2>4, <3>1
  <2> QED
    BY <1>4, <2>3, <2>5 DEF B
<1> QED
  BY <1>3, <1>4

\* The chain is written node by node.
LEMMA SerialiseChain ==
    ASSUME WriterInv, NEW s \in Chains, ChainWritten(s), Serialise
    PROVE  ChainWritten(s)'
<1> SUFFICES ASSUME format = "crunchyNut", envelope = s[1]
             PROVE  /\ \A j \in 1..Len(stream') : stream'[j] = FlakeAt(s, j)
                    /\ \/ nodes' = {} /\ Len(stream') = LastFlake(s)
                       \/ \E k \in 1..Len(s) : nodes' = {s[k]} /\ Len(stream') = k - 1
  BY DEF ChainWritten, Serialise
<1>1. PICK x \in nodes :
         /\ stream' = stream \o CrunchyNut(x)
         /\ err' = (x.proof = Malformed)
         /\ nodes' = IF err' THEN {}
                     ELSE IF HasParents(x) THEN ValuesOf(x.parents) ELSE nodes \ {x}
  BY DEF Serialise
<1>2. PICK k \in 1..Len(s) : nodes = {s[k]} /\ Len(stream) = k - 1
  BY <1>1 DEF ChainWritten
<1> DEFINE B == CrunchyNut(s[k])
<1>3. x = s[k]
  BY <1>1, <1>2
<1>4. PICK n \in Nat : /\ IsSeq(B, n) /\ n = IF k = Len(s) THEN Mapis(s) + 2 ELSE 1
                       /\ \A j \in 1..n : B[j] = FlakeAt(s, (k - 1) + j)
  BY ChainBlock
<1>5. stream' = Both(stream, B)
  BY <1>1, <1>3 DEF Both
<1>6. IsSeq(stream, k - 1) /\ k - 1 \in Nat
  BY <1>2, SeqValues DEF WriterInv
<1> HIDE DEF B
<1>7. /\ IsSeq(stream', (k - 1) + n)
      /\ \A j \in 1..(k - 1) : stream'[j] = stream[j]
      /\ \A j \in 1..n : stream'[(k - 1) + j] = B[j]
  BY <1>4, <1>5, <1>6, Joined
<1>8. Len(stream') = (k - 1) + n
  BY <1>7, SeqValues
<1>9. ASSUME NEW j \in 1..((k - 1) + n) PROVE stream'[j] = FlakeAt(s, j)
  <2>1. CASE j <= k - 1
    <3>1. j \in 1..(k - 1)
      BY <1>6, <2>1
    <3>2. \A i \in 1..(k - 1) : stream[i] = FlakeAt(s, i)
      BY <1>2 DEF ChainWritten
    <3> QED
      BY <1>7, <3>1, <3>2
  <2>2. CASE ~ (j <= k - 1)
    <3>1. PICK i \in 1..n : j = (k - 1) + i
      <4>1. j - (k - 1) \in 1..n /\ j = (k - 1) + (j - (k - 1))
        BY <1>4, <1>6, <2>2
      <4> QED
        BY <4>1
    <3> QED
      BY <1>4, <1>7, <3>1
  <2> QED
    BY <2>1, <2>2
<1>10. CASE k = Len(s)
  <2>1. ~ HasParents(s[k])
    BY <1>10, ChainValues DEF HasParents
  <2>2. nodes' = {}
    BY <1>1, <1>2, <1>3, <1>10, <2>1, ChainValues
  <2>3. Len(s) \in Nat /\ Mapis(s) \in Nat
    BY ChainValues
  <2>4. (k - 1) + n = LastFlake(s)
    BY <1>4, <1>10, <2>3 DEF LastFlake
  <2> QED
    BY <1>8, <1>9, <2>2, <2>4
<1>11. CASE k # Len(s)
  <2>1. k \in 1..(Len(s) - 1) /\ k + 1 \in 1..Len(s)
    BY <1>11, ChainValues
  <2>2. nodes' = {s[k + 1]}
    <3>1. HasParents(s[k]) /\ ValuesOf(s[k].parents) = {s[k + 1]} /\ nodes # {}
      BY <1>2, <2>1, ChainValues
    <3>2. ~ err'
      <4>1. s[k].proof # Malformed
        BY <2>1, ChainValues, EnvelopeAssumption
      <4> QED
        BY <1>1, <1>3, <4>1, Zenon
    <3> QED
      BY <1>1, <1>3, <3>1, <3>2
  <2>3. (k - 1) + n = (k + 1) - 1
    BY <1>4, <1>11
  <2> QED
    BY <1>8, <1>9, <2>1, <2>2, <2>3
<1> QED
  BY <1>10, <1>11

\* What is made of the k-th node of a chain before its o-th flake is read.
SoFar(s, k, o) ==
    [tx      |-> IF k < o THEN s[k].tx ELSE NoTx,
     proof   |-> IF k = Len(s) /\ o > LastFlake(s) THEN flagType(s[k].proof) ELSE NoProof,
     mapi    |-> IF k = Len(s) /\ o > Len(s)
                   THEN (IF o <= LastFlake(s) THEN o - Len(s) - 1 ELSE Mapis(s)) ELSE 0,
     parents |-> IF k < Len(s) /\ k < o THEN [t \in DOMAIN s[k].parents |-> k + 1]
                                        ELSE <<>>]

\* The call for the next node, or the one that is about to make it; and, when
\* there are no more, calls for the last.
CallAt(call, s, o) ==
    /\ o <= Len(s) =>
          \/ call = Parse(o)
          \/ call = [node |-> o - 1, at |-> "inputs", inputs |-> {o}]
    /\ Len(s) < o /\ o <= LastFlake(s) =>
          call.node = Len(s) /\ call.at \in {"flake", "end"}

\* Node k is made of the k-th transaction.
ChainRead(s) ==
    format = "crunchyNut" /\ envelope = s[1] =>
        /\ pc \notin {"error", "panic"}
        /\ \A k \in 1..Len(s) : k <= offset =>
              k <= Len(made) /\ made[k] = SoFar(s, k, offset)
        /\ offset <= Len(s) => Len(made) = offset
        /\ CallAt(Call, s, offset)

\* Reading a flake that is not its own leaves a node as it was.
LEMMA SoFarKept ==
    ASSUME NEW s \in Chains, NEW k \in 1..Len(s), NEW o \in Nat,
           k < o, k < Len(s) \/ o > LastFlake(s)
    PROVE  SoFar(s, k, o + 1) = SoFar(s, k, o)
<1>1. Len(s) \in Nat /\ Mapis(s) \in Nat /\ LastFlake(s) > Len(s) /\ LastFlake(s) \in Nat
  BY ChainValues DEF LastFlake
<1>2. (k < o + 1) /\ (k < o)
  OBVIOUS
<1>3. CASE k < Len(s)
  BY <1>1, <1>2, <1>3 DEF SoFar
<1>4. CASE k = Len(s)
  BY <1>1, <1>2, <1>4 DEF SoFar
<1> QED
  BY <1>1, <1>3, <1>4

\* What is read of a transaction, a callback and a proof.
LEMMA SoFarAdded ==
    ASSUME NEW s \in Chains, NEW o \in Nat \ {0}
    PROVE  /\ o <= Len(s) => SoFar(s, o, o) = Blank
           /\ o < Len(s) => SoFar(s, o, o + 1) =
                 [tx |-> s[o].tx, proof |-> NoProof, mapi |-> 0,
                  parents |-> [t \in DOMAIN s[o].parents |-> o + 1]]
           /\ o = Len(s) => SoFar(s, o, o + 1) =
                 [tx |-> s[o].tx, proof |-> NoProof, mapi |-> 0, parents |-> <<>>]
           /\ Len(s) < o /\ o < LastFlake(s) => SoFar(s, Len(s), o + 1) =
                 [SoFar(s, Len(s), o) EXCEPT !.mapi = @ + 1]
           /\ o = LastFlake(s) => SoFar(s, Len(s), o + 1) =
                 [SoFar(s, Len(s), o) EXCEPT !.proof = flagType(s[Len(s)].proof)]
<1> DEFINE K == Len(s)
           c == Mapis(s)
<1>1. K \in Nat \ {0} /\ c \in Nat /\ LastFlake(s) = K + c + 1
  BY ChainValues DEF LastFlake
<1>2. o <= K => SoFar(s, o, o) = Blank
  BY <1>1 DEF SoFar, Blank
<1>3. ASSUME o < K
      PROVE  SoFar(s, o, o + 1) =
                [tx |-> s[o].tx, proof |-> NoProof, mapi |-> 0,
                 parents |-> [t \in DOMAIN s[o].parents |-> o + 1]]
  <2> DEFINE f == [t \in DOMAIN s[o].parents |-> o + 1]
  <2>1. SoFar(s, o, o + 1) =
           [tx      |-> IF o < o + 1 THEN s[o].tx ELSE NoTx,
            proof   |-> IF o = Len(s) /\ o + 1 > LastFlake(s)
                          THEN flagType(s[o].proof) ELSE NoProof,
            mapi    |-> IF o = Len(s) /\ o + 1 > Len(s)
                          THEN (IF o + 1 <= LastFlake(s) THEN (o + 1) - Len(s) - 1
                                                         ELSE Mapis(s)) ELSE 0,
            parents |-> IF o < Len(s) /\ o < o + 1 THEN f ELSE <<>>]
    BY DEF SoFar
  <2> HIDE DEF f
  <2>2. SoFar(s, o, o + 1) = [tx |-> s[o].tx, proof |-> NoProof, mapi |-> 0, parents |-> f]
    BY <1>1, <1>3, <2>1
  <2> QED
    BY <2>2 DEF f
<1>4. ASSUME o = K
      PROVE  SoFar(s, o, o + 1) =
                [tx |-> s[o].tx, proof |-> NoProof, mapi |-> 0, parents |-> <<>>]
  BY <1>1, <1>4 DEF SoFar
<1>5. ASSUME K < o, o < LastFlake(s)
      PROVE  SoFar(s, K, o + 1) = [SoFar(s, K, o) EXCEPT !.mapi = @ + 1]
  <2>1. SoFar(s, K, o) = [tx |-> s[K].tx, proof |-> NoProof, mapi |-> o - K - 1,
                          parents |-> <<>>]
    BY <1>1, <1>5 DEF SoFar
  <2>2. SoFar(s, K, o + 1) = [tx |-> s[K].tx, proof |-> NoProof, mapi |-> o - K,
                              parents |-> <<>>]
    BY <1>1, <1>5 DEF SoFar
  <2>3. (o - K - 1) + 1 = o - K
    BY <1>1
  <2> QED
    BY <2>1, <2>2, <2>3
<1>6. ASSUME o = LastFlake(s)
      PROVE  SoFar(s, K, o + 1) =
                [SoFar(s, K, o) EXCEPT !.proof = flagType(s[Len(s)].proof)]
  <2>1. SoFar(s, K, o) = [tx |-> s[K].tx, proof |-> NoProof, mapi |-> c, parents |-> <<>>]
    BY <1>1, <1>6 DEF SoFar
  <2>2. SoFar(s, K, o + 1) = [tx |-> s[K].tx, proof |-> flagType(s[K].proof), mapi |-> c,
                              parents |-> <<>>]
    BY <1>1, <1>6 DEF SoFar
  <2> QED
    BY <2>1, <2>2
<1> QED
  BY <1>2, <1>3, <1>4, <1>5, <1>6

\* The flakes there are when the writer has returned.
LEMMA ChainFlakes ==
    ASSUME WriterInv, NEW s \in Chains, ChainWritten(s), pc # "write",
           format = "crunchyNut", envelope = s[1]
    PROVE  /\ Len(stream) = LastFlake(s) /\ LastFlake(s) \in Nat /\ LastFlake(s) > Len(s)
           /\ \A j \in 1..LastFlake(s) : stream[j] = FlakeAt(s, j)
           /\ \A j \in 1..LastFlake(s) : stream[j].type = "tx" <=> j <= Len(s)
           /\ \A j \in 1..Len(s) : stream[j].data = s[j].tx
           /\ \A j \in 1..LastFlake(s) : stream[j].type = "mapi" =>
                 Len(s) < j /\ j < LastFlake(s)
           /\ \A j \in 1..LastFlake(s) : stream[j].type = "proof" =>
                 j = LastFlake(s) /\ stream[j].data = s[Len(s)].proof
           /\ \A j \in 1..LastFlake(s) : ~ Panics(stream[j]) /\ ~ Other(stream[j])
<1>1. /\ Len(s) \in Nat \ {0} /\ Mapis(s) \in Nat /\ LastFlake(s) = Len(s) + Mapis(s) + 1
  BY ChainValues DEF LastFlake
<1>2. nodes = {}
  BY DEF WriterInv
<1>3. Len(stream) = LastFlake(s) /\ \A j \in 1..LastFlake(s) : stream[j] = FlakeAt(s, j)
  <2>1. \A k : nodes # {s[k]}
    BY <1>2
  <2>2. Len(stream) = LastFlake(s)
    BY <2>1 DEF ChainWritten
  <2>3. \A j \in 1..Len(stream) : stream[j] = FlakeAt(s, j)
    BY DEF ChainWritten
  <2> QED
    BY <2>2, <2>3
<1>4. ASSUME NEW j \in 1..LastFlake(s)
      PROVE  /\ stream[j].type = "tx" <=> j <= Len(s)
             /\ j <= Len(s) => stream[j].data = s[j].tx
             /\ stream[j].type = "mapi" => Len(s) < j /\ j < LastFlake(s)
             /\ stream[j].type = "proof" =>
                   j = LastFlake(s) /\ stream[j].data = s[Len(s)].proof
             /\ ~ Panics(stream[j]) /\ ~ Other(stream[j])
  <2>1. stream[j] = FlakeAt(s, j)
    BY <1>3
  <2>5. \A i \in 1..Len(s) : s[i].tx \notin {Garbled, Short}
    <3> SUFFICES ASSUME NEW i \in 1..Len(s) PROVE s[i].tx \notin {Garbled, Short}
      OBVIOUS
    <3>1. s[i] \in Envelopes
      BY ChainValues
    <3>2. s[i].tx \in Txs
      BY <3>1, NodeValues
    <3> QED
      BY <3>2, EnvelopeAssumption
  <2>2. CASE j <= Len(s)
    <3>1. FlakeAt(s, j) = Flake("tx", s[j].tx)
      BY <2>2 DEF FlakeAt
    <3>2. stream[j].type = "tx" /\ stream[j].data = s[j].tx
      BY <2>1, <3>1, FlakeValues
    <3>3. ~ Panics(stream[j]) /\ ~ Other(stream[j])
      BY <2>2, <2>5, <3>2 DEF Panics, Other
    <3> QED
      BY <2>2, <3>2, <3>3
  <2>3. CASE ~ (j <= Len(s)) /\ j <= Len(s) + Mapis(s)
    <3>1. FlakeAt(s, j) = Flake("mapi", s[Len(s)].tx)
      BY <2>3 DEF FlakeAt
    <3>2. stream[j].type = "mapi" /\ stream[j].data = s[Len(s)].tx
      BY <2>1, <3>1, FlakeValues
    <3>3. ~ Panics(stream[j]) /\ ~ Other(stream[j])
      BY <1>1, <2>5, <3>2 DEF Panics, Other
    <3> QED
      BY <1>1, <2>3, <3>2, <3>3
  <2>4. CASE ~ (j <= Len(s)) /\ ~ (j <= Len(s) + Mapis(s))
    <3>1. FlakeAt(s, j) = Flake("proof", s[Len(s)].proof)
      BY <2>4 DEF FlakeAt
    <3>2. stream[j].type = "proof" /\ stream[j].data = s[Len(s)].proof
      BY <2>1, <3>1, FlakeValues
    <3>3. ~ Panics(stream[j]) /\ ~ Other(stream[j])
      BY <3>2, ChainValues DEF Panics, Other
    <3> QED
      BY <1>1, <2>4, <3>2, <3>3
  <2> QED
    BY <2>2, <2>3, <2>4
<1>5. LastFlake(s) \in Nat /\ LastFlake(s) > Len(s)
  BY <1>1
<1>6. \A j \in 1..Len(s) : j \in 1..LastFlake(s) /\ j <= Len(s)
  BY <1>1, <1>5
<1> QED
  BY <1>3, <1>4, <1>5, <1>6

\* Every flake of a chain is read.
LEMMA ReadsFlake ==
    ASSUME WriterInv, ReaderInv, NEW s \in Chains, ChainWritten(s),
           ReadFlake, format = "crunchyNut", envelope = s[1]
    PROVE  /\ pc = "read" /\ pc' = pc /\ Len(calls) # 0 /\ Call.at = "flake" /\ More
           /\ offset' = offset + 1 /\ UNCHANGED <<format, envelope, stream>>
           /\ Tx(stream[offset]) \/ Proof(stream[offset]) \/ Mapi(stream[offset])
<1>1. /\ pc = "read" /\ Len(calls) # 0 /\ Call.at = "flake" /\ More
      /\ UNCHANGED <<format, envelope, stream>>
  BY DEF ReadFlake, writer, ReaderInv
<1>2. offset \in 1..Len(stream)
  BY <1>1, SeqValues DEF WriterInv, ReaderInv, More
<1>3. ~ Panics(stream[offset]) /\ ~ Other(stream[offset])
  BY <1>1, <1>2, ChainFlakes
<1>4. /\ pc' = pc
      /\ Tx(stream[offset]) \/ Proof(stream[offset]) \/ Mapi(stream[offset])
  BY <1>3 DEF ReadFlake
<1>5. offset' = offset + 1
  BY <1>4 DEF Tx, Proof, Mapi
<1> QED
  BY <1>1, <1>4, <1>5

\* What is made of a node when its transaction is read.
LEMMA BlankRead ==
    ASSUME NEW x, NEW f
    PROVE  [Blank EXCEPT !.tx = x, !.parents = f] =
              [tx |-> x, proof |-> NoProof, mapi |-> 0, parents |-> f]
<1> DEFINE r == [Blank EXCEPT !.tx = x, !.parents = f]
<1>1. r = [Blank EXCEPT !.tx = x, !.parents = f]
  OBVIOUS
<1> HIDE DEF r
<1>2. r = [tx |-> x, proof |-> NoProof, mapi |-> 0, parents |-> f]
  BY <1>1 DEF Blank
<1> QED
  BY <1>1, <1>2

\* The transaction of a node is read: the parser goes down to the next.
LEMMA ReadChainTx ==
    ASSUME WriterInv, ReaderInv, NEW s \in Chains, ChainWritten(s), ChainRead(s),
           ReadFlake, format = "crunchyNut", envelope = s[1], offset < Len(s)
    PROVE  ChainRead(s)'
<1> DEFINE u == s[offset + 1].tx
           t == s[offset].tx
<1>1. /\ pc = "read" /\ pc' = pc /\ Len(calls) # 0 /\ Call.at = "flake" /\ More
      /\ offset' = offset + 1 /\ UNCHANGED <<format, envelope, stream>>
      /\ Tx(stream[offset]) \/ Proof(stream[offset]) \/ Mapi(stream[offset])
  BY ReadsFlake
<1>2. /\ Len(stream) = LastFlake(s) /\ LastFlake(s) \in Nat /\ LastFlake(s) > Len(s)
      /\ \A j \in 1..LastFlake(s) : stream[j].type = "tx" <=> j <= Len(s)
      /\ \A j \in 1..Len(s) : stream[j].data = s[j].tx
  BY <1>1, ChainFlakes
<1>3. /\ offset \in Nat \ {0} /\ Len(s) \in Nat /\ offset \in 1..Len(s)
      /\ offset + 1 \in 1..Len(s) /\ offset \in 1..(Len(s) - 1)
      /\ offset <= Len(s) /\ offset + 1 <= Len(s) /\ offset + 1 \in Nat \ {0}
  BY <1>2, ChainValues DEF ReaderInv
<1>4. Tx(stream[offset]) /\ stream[offset].data = t
  <2>1. stream[offset].type = "tx"
    BY <1>2, <1>3
  <2> QED
    BY <1>1, <1>2, <1>3, <2>1 DEF Proof, Mapi
<1>5. t \in Txs /\ Parents[t] = {u} /\ DOMAIN s[offset].parents = {u}
  <2>1. s[offset] \in Envelopes
    BY <1>3, ChainValues
  <2>2. /\ Parents[s[offset].tx] = {s[offset + 1].tx}
        /\ DOMAIN s[offset].parents = Parents[s[offset].tx]
    BY <1>3, ChainValues
  <2> QED
    BY <2>1, <2>2, NodeValues
<1>6. ~ Own
  BY <1>2, <1>3 DEF Own
<1>7. Call = Parse(offset) /\ Call.node = offset
  <2>1. Call = Parse(offset)
    BY <1>1, <1>3 DEF ChainRead, CallAt
  <2> QED
    BY <2>1 DEF Parse
<1>8. /\ Len(made) = offset
      /\ \A k \in 1..offset : made[k] = SoFar(s, k, offset)
  BY <1>3 DEF ChainRead
<1>9. Cardinality(Parents[t]) = 1
  BY <1>5, FS_Singleton
<1>10. /\ NodesOf(t) \in [Parents[t] -> (offset + 1)..(offset + 1)]
       /\ Len(made') = offset + 1
       /\ made'[offset] = [made[offset] EXCEPT !.tx = t, !.parents = NodesOf(t)]
       /\ \A j \in 1..offset : j # offset => made'[j] = made[j]
       /\ \A j \in 1..1 : made'[offset + j] = Blank
  <2>1. LET L == Len(made)
            k == Call.node
            n == Cardinality(Parents[t])
        IN  /\ NodesOf(t) \in [Parents[t] -> (L + 1)..(L + n)]
            /\ Len(made') = L + n
            /\ made'[k] = [made[k] EXCEPT !.tx = t,
                                          !.parents = IF Own THEN @ ELSE NodesOf(t)]
            /\ \A j \in 1..L : j # k => made'[j] = made[j]
            /\ \A j \in 1..n : made'[L + j] = Blank
    BY <1>1, <1>4, <1>5, TxMakes
  <2> HIDE DEF t
  <2> QED
    BY <1>6, <1>7, <1>8, <1>9, <2>1
<1>11. NodesOf(t) = [v \in DOMAIN s[offset].parents |-> offset + 1]
  BY <1>3, <1>5, <1>10
<1>12. Call' = [node |-> offset, at |-> "inputs", inputs |-> {offset + 1}]
  <2> DEFINE loop == [node |-> Call.node, at |-> "inputs", inputs |-> ValuesOf(NodesOf(t))]
  <2>1. calls' = Then(loop)
    BY <1>4, <1>6 DEF Tx, Own, NodesOf
  <2>2. ValuesOf(NodesOf(t)) = {offset + 1}
    BY <1>5, <1>11 DEF ValuesOf
  <2>3. loop = [node |-> offset, at |-> "inputs", inputs |-> {offset + 1}]
    BY <1>7, <2>2
  <2>4. IsCall(loop, offset + 1) /\ Len(made) <= offset + 1 /\ offset + 1 \in Nat
    BY <1>3, <1>8, <2>3 DEF IsCall
  <2> HIDE DEF loop
  <2>5. Call' = loop
    BY <1>1, <2>1, <2>4, ThenSteps
  <2> QED
    BY <2>3, <2>5
<1>13. made'[offset] = SoFar(s, offset, offset + 1)
  <2>1. made[offset] = Blank
    <3>1. SoFar(s, offset, offset) = Blank
      BY <1>3, SoFarAdded
    <3> QED
      BY <1>3, <1>8, <3>1
  <2>2. made'[offset] = [tx |-> t, proof |-> NoProof, mapi |-> 0, parents |-> NodesOf(t)]
    <3> HIDE DEF t
    <3>1. made'[offset] = [Blank EXCEPT !.tx = t, !.parents = NodesOf(t)]
      BY <1>10, <2>1
    <3> QED
      BY <3>1 DEF Blank
  <2>3. SoFar(s, offset, offset + 1) =
           [tx |-> t, proof |-> NoProof, mapi |-> 0,
            parents |-> [v \in DOMAIN s[offset].parents |-> offset + 1]]
    BY <1>3, SoFarAdded
  <2> QED
    BY <1>11, <2>2, <2>3
<1>14. made'[offset + 1] = SoFar(s, offset + 1, offset + 1)
  <2>1. SoFar(s, offset + 1, offset + 1) = Blank
    BY <1>3, SoFarAdded
  <2> QED
    BY <1>10, <2>1
<1>15. ASSUME NEW k \in 1..Len(s), k <= offset + 1
       PROVE  k <= Len(made') /\ made'[k] = SoFar(s, k, offset + 1)
  <2>1. CASE k < offset
    <3>1. SoFar(s, k, offset + 1) = SoFar(s, k, offset)
      BY <1>3, <2>1, SoFarKept
    <3>2. k \in 1..offset /\ k # offset
      BY <1>3, <2>1
    <3> QED
      BY <1>3, <1>8, <1>10, <3>1, <3>2
  <2>2. CASE k = offset
    BY <1>3, <1>10, <1>13, <2>2
  <2>3. CASE k = offset + 1
    BY <1>3, <1>10, <1>14, <2>3
  <2> QED
    BY <1>3, <1>15, <2>1, <2>2, <2>3
<1>16. CallAt(Call', s, offset + 1)
  <2>1. (offset + 1) - 1 = offset /\ offset + 1 <= Len(s)
    BY <1>3
  <2>2. Call' = [node |-> (offset + 1) - 1, at |-> "inputs", inputs |-> {offset + 1}]
    BY <1>12, <2>1
  <2> QED
    BY <1>1, <1>3, <2>1, <2>2 DEF CallAt
<1> QED
  BY <1>1, <1>10, <1>15, <1>16 DEF ChainRead, CallAt

\* The last transaction is read: what follows is read into the same node.
LEMMA ReadChainLast ==
    ASSUME WriterInv, ReaderInv, NEW s \in Chains, ChainWritten(s), ChainRead(s),
           ReadFlake, format = "crunchyNut", envelope = s[1], offset = Len(s)
    PROVE  ChainRead(s)'
<1> DEFINE t == s[offset].tx
<1>1. /\ pc = "read" /\ pc' = pc /\ Len(calls) # 0 /\ Call.at = "flake" /\ More
      /\ offset' = offset + 1 /\ UNCHANGED <<format, envelope, stream>>
      /\ Tx(stream[offset]) \/ Proof(stream[offset]) \/ Mapi(stream[offset])
  BY ReadsFlake
<1>2. /\ Len(stream) = LastFlake(s) /\ LastFlake(s) \in Nat /\ LastFlake(s) > Len(s)
      /\ \A j \in 1..LastFlake(s) : stream[j].type = "tx" <=> j <= Len(s)
      /\ \A j \in 1..Len(s) : stream[j].data = s[j].tx
  BY <1>1, ChainFlakes
<1>3. /\ offset \in Nat \ {0} /\ Len(s) \in Nat /\ offset \in 1..Len(s)
      /\ offset <= Len(s) /\ ~ (offset + 1 <= Len(s)) /\ offset + 1 <= LastFlake(s)
      /\ offset \in 1..LastFlake(s) /\ offset + 1 \in 1..LastFlake(s)
  BY <1>2, ChainValues
<1>4. Tx(stream[offset]) /\ stream[offset].data = t
  <2>1. stream[offset].type = "tx"
    BY <1>2, <1>3
  <2> QED
    BY <1>1, <1>2, <1>3, <2>1 DEF Proof, Mapi
<1>5. t \in Txs
  <2>1. s[offset] \in Envelopes
    BY <1>3, ChainValues
  <2> QED
    BY <2>1, NodeValues
<1>6. Own
  <2>1. stream[offset + 1].type # "tx"
    BY <1>2, <1>3
  <2> QED
    BY <1>2, <1>3, <2>1 DEF Own
<1>7. Call = Parse(offset) /\ Call.node = offset
  <2>1. Call = Parse(offset)
    BY <1>1, <1>3 DEF ChainRead, CallAt
  <2> QED
    BY <2>1 DEF Parse
<1>8. /\ Len(made) = offset
      /\ \A k \in 1..offset : made[k] = SoFar(s, k, offset)
  BY <1>3 DEF ChainRead
<1> DEFINE m == Cardinality(Parents[t])
<1>9. /\ m \in Nat /\ Len(made') = offset + m
      /\ NodesOf(t) \in [Parents[t] -> (offset + 1)..(offset + m)]
      /\ made'[offset] = [tx |-> t, proof |-> NoProof, mapi |-> 0, parents |-> <<>>]
      /\ \A j \in 1..offset : j # offset => made'[j] = made[j]
  <2>1. LET L == Len(made)
            k == Call.node
            n == Cardinality(Parents[t])
        IN  /\ n \in Nat /\ NodesOf(t) \in [Parents[t] -> (L + 1)..(L + n)]
            /\ Len(made') = L + n
            /\ made'[k] = [made[k] EXCEPT !.tx = t,
                                          !.parents = IF Own THEN @ ELSE NodesOf(t)]
            /\ \A j \in 1..L : j # k => made'[j] = made[j]
    BY <1>1, <1>4, <1>5, TxMakes
  <2>2. made[offset] = Blank
    <3>1. SoFar(s, offset, offset) = Blank
      BY <1>3, SoFarAdded
    <3> QED
      BY <1>3, <1>8, <3>1
  <2> HIDE DEF t
  <2>3. made'[offset] = [made[offset] EXCEPT !.tx = t, !.parents = @]
    BY <1>6, <1>7, <2>1
  <2>4. [Blank EXCEPT !.tx = t, !.parents = @] =
           [tx |-> t, proof |-> NoProof, mapi |-> 0, parents |-> <<>>]
    <3>1. Blank.parents = <<>>
      BY DEF Blank
    <3>2. [Blank EXCEPT !.tx = t, !.parents = @] = [Blank EXCEPT !.tx = t, !.parents = <<>>]
      BY <3>1
    <3>3. [Blank EXCEPT !.tx = t, !.parents = <<>>] =
             [tx |-> t, proof |-> NoProof, mapi |-> 0, parents |-> <<>>]
      BY BlankRead
    <3> QED
      BY <3>2, <3>3
  <2> QED
    BY <1>7, <1>8, <2>1, <2>2, <2>3, <2>4
<1>10. Call' = Parse(offset)
  <2> DEFINE loop == [node |-> Call.node, at |-> "inputs", inputs |-> ValuesOf(NodesOf(t))]
  <2>1. calls' = Added(Then(loop), Parse(offset))
    BY <1>4, <1>6, <1>7 DEF Tx, Own, NodesOf, Added
  <2>2. ValuesOf(NodesOf(t)) \subseteq 1..(offset + m)
    <3> HIDE DEF m, t
    <3> QED
      BY <1>3, <1>9 DEF ValuesOf
  <2> HIDE DEF m, t
  <2>3. /\ IsCall(loop, offset + m) /\ IsCall(Parse(offset), offset + m)
        /\ Len(made) <= offset + m /\ offset + m \in Nat /\ loop.at = "inputs"
    BY <1>3, <1>7, <1>8, <1>9, <2>2 DEF IsCall, Parse
  <2> HIDE DEF loop
  <2> QED
    BY <1>1, <2>1, <2>3, ThenSteps
<1>11. made'[offset] = SoFar(s, offset, offset + 1)
  <2>1. SoFar(s, offset, offset + 1) =
           [tx |-> t, proof |-> NoProof, mapi |-> 0, parents |-> <<>>]
    BY <1>3, SoFarAdded
  <2> QED
    BY <1>9, <2>1
<1>12. ASSUME NEW k \in 1..Len(s)
       PROVE  k <= Len(made') /\ made'[k] = SoFar(s, k, offset + 1)
  <2> HIDE DEF m, t
  <2>1. CASE k < offset
    <3>1. SoFar(s, k, offset + 1) = SoFar(s, k, offset)
      BY <1>3, <2>1, SoFarKept
    <3>2. k \in 1..offset /\ k # offset
      BY <1>3, <2>1
    <3>3. made'[k] = made[k] /\ made[k] = SoFar(s, k, offset)
      BY <1>8, <1>9, <3>2
    <3> QED
      BY <1>3, <1>9, <2>1, <3>1, <3>3
  <2>2. CASE k = offset
    BY <1>3, <1>9, <1>11, <2>2
  <2> QED
    BY <1>3, <2>1, <2>2
<1>13. CallAt(Call', s, offset + 1)
  <2>1. Call'.node = Len(s) /\ Call'.at = "flake"
    BY <1>10 DEF Parse
  <2> QED
    BY <1>3, <2>1 DEF CallAt
<1> QED
  BY <1>1, <1>3, <1>12, <1>13 DEF ChainRead

\* A callback, or the proof, is read into the last node.
LEMMA ReadChainOther ==
    ASSUME WriterInv, ReaderInv, NEW s \in Chains, ChainWritten(s), ChainRead(s),
           ReadFlake, format = "crunchyNut", envelope = s[1], offset > Len(s)
    PROVE  ChainRead(s)'
<1>1. /\ pc = "read" /\ pc' = pc /\ Len(calls) # 0 /\ Call.at = "flake" /\ More
      /\ offset' = offset + 1 /\ UNCHANGED <<format, envelope, stream>>
      /\ Tx(stream[offset]) \/ Proof(stream[offset]) \/ Mapi(stream[offset])
  BY ReadsFlake
<1>2. /\ Len(stream) = LastFlake(s) /\ LastFlake(s) \in Nat /\ LastFlake(s) > Len(s)
      /\ \A j \in 1..LastFlake(s) : stream[j].type = "tx" <=> j <= Len(s)
      /\ \A j \in 1..LastFlake(s) : stream[j].type = "mapi" =>
            Len(s) < j /\ j < LastFlake(s)
      /\ \A j \in 1..LastFlake(s) : stream[j].type = "proof" =>
            j = LastFlake(s) /\ stream[j].data = s[Len(s)].proof
  BY <1>1, ChainFlakes
<1>3. /\ offset \in Nat \ {0} /\ Len(s) \in Nat \ {0} /\ offset \in 1..LastFlake(s)
      /\ Len(s) < offset /\ offset <= LastFlake(s) /\ ~ (offset <= Len(s))
      /\ ~ (offset + 1 <= Len(s))
  BY <1>1, <1>2, ChainValues DEF ReaderInv, More
<1>4. Call.node = Len(s)
  BY <1>3 DEF ChainRead, CallAt
<1>5. \A k \in 1..Len(s) : k <= Len(made) /\ made[k] = SoFar(s, k, offset)
  BY <1>3 DEF ChainRead
<1>6. ~ Tx(stream[offset])
  <2>1. stream[offset].type # "tx"
    BY <1>2, <1>3
  <2> QED
    BY <2>1 DEF Tx
<1>7. /\ Len(made') = Len(made) /\ calls' = Then(At("end"))
      /\ \A j \in 1..Len(made) : j # Call.node => made'[j] = made[j]
      /\ Proof(stream[offset]) =>
            made'[Call.node] = [made[Call.node] EXCEPT !.proof = flagType(stream[offset].data)]
      /\ Mapi(stream[offset]) =>
            made'[Call.node] = [made[Call.node] EXCEPT !.mapi = @ + 1]
  BY <1>1, <1>6, OtherMakes
<1>8. made'[Len(s)] = SoFar(s, Len(s), offset + 1)
  <2>1. made[Len(s)] = SoFar(s, Len(s), offset)
    BY <1>3, <1>5
  <2>2. CASE Mapi(stream[offset])
    <3>1. offset < LastFlake(s)
      BY <1>2, <1>3, <2>2 DEF Mapi
    <3>2. SoFar(s, Len(s), offset + 1) = [SoFar(s, Len(s), offset) EXCEPT !.mapi = @ + 1]
      BY <1>3, <3>1, SoFarAdded
    <3>3. made'[Len(s)] = [made[Len(s)] EXCEPT !.mapi = @ + 1]
      BY <1>4, <1>7, <2>2
    <3> QED
      BY <2>1, <3>2, <3>3
  <2>3. CASE Proof(stream[offset])
    <3>1. offset = LastFlake(s) /\ stream[offset].data = s[Len(s)].proof
      BY <1>2, <1>3, <2>3 DEF Proof
    <3>2. SoFar(s, Len(s), offset + 1) =
             [SoFar(s, Len(s), offset) EXCEPT !.proof = flagType(s[Len(s)].proof)]
      BY <1>3, <3>1, SoFarAdded
    <3>3. made'[Len(s)] =
             [made[Len(s)] EXCEPT !.proof = flagType(s[Len(s)].proof)]
      BY <1>4, <1>7, <2>3, <3>1
    <3> QED
      BY <2>1, <3>2, <3>3
  <2> QED
    BY <1>1, <1>6, <2>2, <2>3
<1>9. ASSUME NEW k \in 1..Len(s)
      PROVE  k <= Len(made') /\ made'[k] = SoFar(s, k, offset + 1)
  <2>1. CASE k = Len(s)
    BY <1>5, <1>7, <1>8, <2>1
  <2>2. CASE k # Len(s)
    <3>1. k < offset /\ k < Len(s)
      BY <1>3, <2>2
    <3>2. SoFar(s, k, offset + 1) = SoFar(s, k, offset)
      BY <1>3, <3>1, SoFarKept
    <3>3. k \in 1..Len(made) /\ made[k] = SoFar(s, k, offset)
      <4>1. k <= Len(made) /\ made[k] = SoFar(s, k, offset)
        BY <1>5
      <4> QED
        BY <1>1, <4>1, TopCall
    <3> QED
      BY <1>4, <1>7, <2>2, <3>2, <3>3
  <2> QED
    BY <2>1, <2>2
<1>10. Call' = At("end") /\ Call'.node = Len(s) /\ Call'.at = "end"
  <2>1. /\ IsCall(At("end"), Len(made)) /\ At("end").at = "end"
        /\ At("end").node = Call.node /\ Len(made) \in Nat
    BY <1>1, TopCall, AtIsCall
  <2>2. Call' = At("end")
    BY <1>1, <1>7, <2>1, ThenSteps
  <2> QED
    BY <1>4, <2>1, <2>2
<1>11. CallAt(Call', s, offset + 1)
  BY <1>3, <1>10 DEF CallAt
<1> QED
  BY <1>1, <1>3, <1>9, <1>11 DEF ChainRead

\* The first node is made, of nothing, before the first flake is read.
LEMMA InitChain ==
    ASSUME Init, NEW s \in Chains PROVE ChainWritten(s) /\ ChainRead(s)
<1> SUFFICES ASSUME envelope = s[1] PROVE ChainWritten(s) /\ ChainRead(s)
  BY DEF ChainWritten, ChainRead
<1>9. s[1] \in Envelopes
  BY ChainValues
<1>1. /\ pc = "write" /\ nodes = {s[1]} /\ stream = <<>> /\ offset = 1 /\ made = <<Blank>>
      /\ calls = <<Parse(1)>>
  BY <1>9, EnvelopeAssumption DEF Init, Parse
<1>2. Len(s) \in Nat \ {0} /\ 1 \in 1..Len(s) /\ 1 <= Len(s)
  BY ChainValues
<1>3. Len(stream) = 0 /\ Len(made) = 1 /\ made[1] = Blank /\ Call = Parse(1)
  BY <1>1 DEF Call
<1>4. ChainWritten(s)
  <2>1. \A j \in 1..Len(stream) : stream[j] = FlakeAt(s, j)
    BY <1>3
  <2>2. nodes = {s[1]} /\ Len(stream) = 1 - 1
    BY <1>1, <1>3
  <2> QED
    BY <1>2, <2>1, <2>2 DEF ChainWritten
<1>5. SoFar(s, 1, 1) = Blank
  <2>1. \A o \in Nat \ {0} : o <= Len(s) => SoFar(s, o, o) = Blank
    BY SoFarAdded
  <2> QED
    BY <1>2, <2>1
<1>6. \A k \in 1..Len(s) : k <= 1 => k <= Len(made) /\ made[k] = SoFar(s, k, 1)
  BY <1>3, <1>5
<1>7. CallAt(Call, s, 1)
  BY <1>2, <1>3 DEF CallAt
<1>8. ChainRead(s)
  BY <1>1, <1>3, <1>6, <1>7 DEF ChainRead
<1> QED
  BY <1>4, <1>8

\* Nothing is read while something is written.
LEMMA ReadKept ==
    ASSUME NEW s \in Chains, ChainRead(s), UNCHANGED <<envelope, format, offset, made, calls>>,
           pc' = pc \/ pc' \notin {"error", "panic"}
    PROVE  ChainRead(s)'
<1>1. Call' = Call
  BY DEF Call
<1> QED
  BY <1>1 DEF ChainRead, CallAt

\* What is written stays.
LEMMA WrittenKept ==
    ASSUME NEW s \in Chains, ChainWritten(s), UNCHANGED <<envelope, format, nodes, stream>>
    PROVE  ChainWritten(s)'
BY DEF ChainWritten

\* The loop over the parents of a node of a chain calls for the next one.
LEMMA InputsChain ==
    ASSUME WriterInv, ReaderInv, NEW s \in Chains, ChainWritten(s), ChainRead(s), Inputs
    PROVE  ChainRead(s)'
<1> SUFFICES ASSUME format = "crunchyNut", envelope = s[1] PROVE ChainRead(s)'
  BY DEF ChainRead, Inputs, writer
<1>1. /\ pc = "read" /\ Len(calls) # 0 /\ Call.at = "inputs"
      /\ UNCHANGED <<pc, offset, made, format, envelope>>
  BY DEF Inputs, writer
<1>2. Len(stream) = LastFlake(s) /\ LastFlake(s) \in Nat /\ LastFlake(s) > Len(s)
  BY <1>1, ChainFlakes
<1>3. offset \in Nat \ {0} /\ Len(s) \in Nat \ {0} /\ Len(made) \in Nat
  BY <1>1, <1>2, ChainValues, TopCall DEF ReaderInv
<1>4. CallAt(Call, s, offset)
  BY DEF ChainRead
<1>5. CallAt(Call', s, offset)
  <2>1. CASE offset <= Len(s)
    <3> DEFINE c == [Call EXCEPT !.inputs = @ \ {offset}]
    <3>1. Call = [node |-> offset - 1, at |-> "inputs", inputs |-> {offset}]
      <4>1. Parse(offset).at # "inputs"
        BY DEF Parse
      <4> QED
        BY <1>1, <1>4, <2>1, <4>1 DEF CallAt
    <3>2. More /\ Call.inputs = {offset}
      BY <1>2, <1>3, <2>1, <3>1 DEF More
    <3>3. calls' = Added(Then(c), Parse(offset))
      BY <3>2 DEF Inputs, Added
    <3>4. IsCall(Call, Len(made)) /\ offset \in 1..Len(made)
      <4>1. IsCall(Call, Len(made))
        BY <1>1, TopCall
      <4> QED
        BY <3>2, <4>1 DEF IsCall
    <3>5. IsCall(c, Len(made)) /\ c.at = "inputs" /\ IsCall(Parse(offset), Len(made))
      <4>1. IsCall(c, Len(made)) /\ c.at = Call.at
        BY <1>3, <3>4, LessIsCall
      <4> HIDE DEF c
      <4>2. IsCall(Parse(offset), Len(made))
        BY <3>4 DEF IsCall, Parse
      <4> QED
        BY <1>1, <4>1, <4>2
    <3> HIDE DEF c
    <3>6. Call' = Parse(offset)
      BY <1>1, <1>3, <3>3, <3>5, ThenSteps
    <3> QED
      BY <1>3, <2>1, <3>6 DEF CallAt
  <2>2. CASE Len(s) < offset /\ offset <= LastFlake(s)
    BY <1>1, <1>4, <2>2 DEF CallAt
  <2>3. CASE offset > LastFlake(s)
    BY <1>2, <1>3, <2>3 DEF CallAt
  <2> QED
    BY <1>2, <1>3, <2>1, <2>2, <2>3
<1> QED
  BY <1>1, <1>5 DEF ChainRead

\* A call that has read a flake of the last node, and not the last one, reads
\* the next into the same node.
LEMMA EndChain ==
    ASSUME WriterInv, ReaderInv, NEW s \in Chains, ChainWritten(s), ChainRead(s), End
    PROVE  ChainRead(s)'
<1> SUFFICES ASSUME format = "crunchyNut", envelope = s[1] PROVE ChainRead(s)'
  BY DEF ChainRead, End, writer
<1>1. /\ pc = "read" /\ Len(calls) # 0 /\ Call.at = "end"
      /\ UNCHANGED <<pc, offset, made, format, envelope>>
      /\ More => calls' = Then(Parse(Call.node))
  BY DEF End, writer
<1>2. Len(stream) = LastFlake(s) /\ LastFlake(s) \in Nat /\ LastFlake(s) > Len(s)
  BY <1>1, ChainFlakes
<1>3. offset \in Nat \ {0} /\ Len(s) \in Nat \ {0} /\ Len(made) \in Nat
  BY <1>1, <1>2, ChainValues, TopCall DEF ReaderInv
<1>4. CallAt(Call, s, offset)
  BY DEF ChainRead
<1>5. CallAt(Call', s, offset)
  <2>1. CASE offset <= Len(s)
    <3>1. Parse(offset).at # "end"
      BY DEF Parse
    <3> QED
      BY <1>1, <1>4, <2>1, <3>1 DEF CallAt
  <2>2. CASE Len(s) < offset /\ offset <= LastFlake(s)
    <3>1. More
      BY <1>2, <2>2 DEF More
    <3>2. Call.node = Len(s)
      BY <1>4, <2>2 DEF CallAt
    <3>3. IsCall(Parse(Call.node), Len(made))
      <4>1. IsCall(Call, Len(made))
        BY <1>1, TopCall
      <4> QED
        BY <4>1 DEF IsCall, Parse
    <3>4. Call' = Parse(Call.node)
      BY <1>1, <1>3, <3>1, <3>3, ThenSteps
    <3>5. Call'.node = Len(s) /\ Call'.at = "flake"
      BY <3>2, <3>4 DEF Parse
    <3> QED
      BY <1>3, <2>2, <3>5 DEF CallAt
  <2>3. CASE offset > LastFlake(s)
    BY <1>2, <1>3, <2>3 DEF CallAt
  <2> QED
    BY <1>2, <1>3, <2>1, <2>2, <2>3
<1> QED
  BY <1>1, <1>5 DEF ChainRead

\* Every step keeps what is known of a chain.
LEMMA NextChain ==
    ASSUME WriterInv, ReaderInv, NEW s \in Chains, ChainWritten(s), ChainRead(s),
           [Next]_vars
    PROVE  ChainWritten(s)' /\ ChainRead(s)'
<1>1. CASE Serialise
  BY <1>1, SerialiseChain, ReadKept DEF Serialise, reader
<1>2. CASE SerialiseReturn \/ Return \/ UNCHANGED vars
  <2>1. UNCHANGED <<writer, reader>> /\ (pc' = pc \/ pc' \notin {"error", "panic"})
    BY <1>2 DEF SerialiseReturn, Return, vars, writer, reader
  <2> QED
    BY <2>1, ReadKept, WrittenKept DEF writer, reader
<1>6. CASE Open
  <2>1. UNCHANGED <<writer, reader>> /\ pc = "open"
    BY <1>6 DEF Open
  <2>2. CASE format = "crunchyNut" /\ envelope = s[1]
    <3>1. Len(stream) = LastFlake(s) /\ LastFlake(s) \in Nat /\ LastFlake(s) > Len(s)
      BY <2>1, <2>2, ChainFlakes
    <3>2. Len(stream) # 0 /\ version = 1
      BY <2>2, <3>1, ChainValues DEF WriterInv
    <3>3. stream # <<>>
      BY <3>2
    <3>4. pc' = "read"
      BY <1>6, <3>2, <3>3, EnvelopeAssumption DEF Open
    <3> QED
      BY <2>1, <3>4, ReadKept, WrittenKept DEF writer, reader
  <2>3. CASE ~ (format = "crunchyNut" /\ envelope = s[1])
    BY <2>1, <2>3, WrittenKept DEF ChainRead, writer
  <2> QED
    BY <2>2, <2>3
<1>3. CASE ReadFlake
  <2>1. UNCHANGED <<envelope, format, nodes, stream>>
    BY <1>3 DEF ReadFlake, writer
  <2>2. ChainWritten(s)'
    BY <2>1, WrittenKept
  <2>3. CASE format = "crunchyNut" /\ envelope = s[1]
    <3>1. offset \in Nat /\ Len(s) \in Nat
      BY ChainValues DEF ReaderInv
    <3>2. offset < Len(s) \/ offset = Len(s) \/ offset > Len(s)
      BY <3>1
    <3>3. ChainRead(s)'
      BY <1>3, <2>3, <3>2, ReadChainTx, ReadChainLast, ReadChainOther
    <3> QED
      BY <2>2, <3>3
  <2>4. CASE ~ (format = "crunchyNut" /\ envelope = s[1])
    <3>1. ChainRead(s)'
      BY <2>1, <2>4 DEF ChainRead
    <3> QED
      BY <2>2, <3>1
  <2> QED
    BY <2>3, <2>4
<1>4. CASE Inputs
  BY <1>4, InputsChain, WrittenKept DEF Inputs, writer
<1>5. CASE End
  BY <1>5, EndChain, WrittenKept DEF End, writer
<1> QED
  BY <1>1, <1>2, <1>3, <1>4, <1>5, <1>6 DEF Next

\* What is made of a chain in the end.
LEMMA SoFarEnds ==
    ASSUME NEW s \in Chains, NEW k \in 1..Len(s)
    PROVE  SoFar(s, k, LastFlake(s) + 1) = ReadBack(s, k)
<1>1. /\ Len(s) \in Nat \ {0} /\ Mapis(s) \in Nat /\ LastFlake(s) = Len(s) + Mapis(s) + 1
  BY ChainValues DEF LastFlake
<1>2. /\ LastFlake(s) \in Nat /\ LastFlake(s) + 1 > LastFlake(s)
      /\ LastFlake(s) + 1 > Len(s) /\ ~ (LastFlake(s) + 1 <= LastFlake(s))
      /\ k < LastFlake(s) + 1
  BY <1>1
<1> DEFINE f == [t \in DOMAIN s[k].parents |-> k + 1]
<1>3. CASE k < Len(s)
  <2>1. k \in 1..(Len(s) - 1) /\ k # Len(s)
    BY <1>1, <1>3
  <2>2. s[k].mapi = 0
    BY <2>1, ChainValues
  <2>3. SoFar(s, k, LastFlake(s) + 1) =
           [tx |-> s[k].tx, proof |-> NoProof, mapi |-> 0, parents |-> f]
    BY <1>2, <1>3, <2>1 DEF SoFar
  <2>4. ReadBack(s, k) =
           [tx |-> s[k].tx, proof |-> NoProof, mapi |-> 0, parents |-> f]
    BY <2>1, <2>2 DEF ReadBack
  <2> QED
    BY <2>3, <2>4
<1>4. CASE k = Len(s)
  <2>1. s[k].parents = <<>> /\ s[k].mapi = Mapis(s) /\ ~ (k < Len(s))
    BY <1>1, <1>4, ChainValues DEF Mapis
  <2>2. f = <<>>
    BY <2>1
  <2> HIDE DEF f
  <2>3. SoFar(s, k, LastFlake(s) + 1) =
           [tx |-> s[k].tx, proof |-> flagType(s[k].proof), mapi |-> Mapis(s),
            parents |-> <<>>]
    BY <1>2, <1>4, <2>1 DEF SoFar
  <2>4. ReadBack(s, k) =
           [tx |-> s[k].tx, proof |-> flagType(s[k].proof), mapi |-> s[k].mapi,
            parents |-> f]
    BY <1>4 DEF ReadBack, f
  <2> QED
    BY <2>1, <2>2, <2>3, <2>4
<1> QED
  BY <1>1, <1>3, <1>4

\* A chain that is serialised as CrunchyNut is read back as it was, whatever
\* its length and the number of callbacks of its last transaction.
THEOREM ChainsAreReadBack == Spec => []ChainsReadBack
<1> DEFINE CInv == \A s \in Chains : ChainWritten(s) /\ ChainRead(s)
<1>1. Init => CInv
  BY InitChain
<1>2. IInv /\ CInv /\ [Next]_vars => CInv'
  <2> SUFFICES ASSUME IInv, CInv, [Next]_vars, NEW s \in Chains
               PROVE  ChainWritten(s)' /\ ChainRead(s)'
    OBVIOUS
  <2> QED
    BY NextChain DEF IInv
<1>3. IInv /\ CInv => ChainsReadBack
  <2> SUFFICES ASSUME IInv, CInv, NEW s \in Chains,
                      format = "crunchyNut", envelope = s[1]
               PROVE  /\ pc \notin {"error", "panic"}
                      /\ pc = "done" => \A k \in 1..Len(s) :
                            k \in DOMAIN made /\ made[k] = ReadBack(s, k)
    BY DEF ChainsReadBack
  <2>1. WriterInv /\ ReaderInv /\ ChainWritten(s) /\ ChainRead(s)
    BY DEF IInv
  <2>8. pc \notin {"error", "panic"}
    BY <2>1 DEF ChainRead
  <2> SUFFICES ASSUME pc = "done", NEW k \in 1..Len(s)
               PROVE  k \in DOMAIN made /\ made[k] = ReadBack(s, k)
    BY <2>8
  <2>2. Len(stream) = LastFlake(s) /\ LastFlake(s) \in Nat /\ LastFlake(s) > Len(s)
    BY <2>1, ChainFlakes
  <2>3. offset = LastFlake(s) + 1
    <3>1. ~ More /\ offset \in 1..(Len(stream) + 1)
      BY <2>1 DEF ReaderInv
    <3> QED
      BY <2>2, <3>1 DEF More
  <2>4. Len(s) \in Nat /\ k <= offset
    BY <2>2, <2>3, ChainValues
  <2>5. k <= Len(made) /\ made[k] = SoFar(s, k, offset)
    BY <2>1, <2>4 DEF ChainRead
  <2>6. made[k] = ReadBack(s, k)
    BY <2>3, <2>5, SoFarEnds
  <2>7. k \in DOMAIN made
    <3>1. Len(made) \in Nat /\ DOMAIN made = 1..Len(made)
      BY <2>1, SeqValues DEF ReaderInv
    <3> QED
      BY <2>5, <3>1
  <2> QED
    BY <2>6, <2>7
<1> QED
  BY <1>1, <1>2, <1>3, Invariance, PTL DEF Spec

=============================================================================

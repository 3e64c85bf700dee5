------------------------------ MODULE MCEnvelope ------------------------------
(***************************************************************************)
(* TLC instance of Envelope: chains of up to four transactions, with up to *)
(* two callbacks at their end and a proof of every kind of target;         *)
(* envelopes in which a transaction has three parents, or in which a proof *)
(* or a raw transaction is not as it should be; and bytes received of up   *)
(* to three flakes of every kind, and some of more.                        *)
(***************************************************************************)
EXTENDS Envelope, TLC

CONSTANTS p, q, a, b, c, d, e

MCTxs == {p, q, a, b, c, d, e}
MCParents == (p :> {a}) @@ (q :> {a, b, d}) @@ (a :> {b}) @@ (b :> {c})
          @@ (c :> {d}) @@ (d :> {e}) @@ (e :> {})

PrevOf(t) == CHOOSE u \in MCParents[t] : TRUE
Bare(t) == [tx |-> t, raw |-> t, proof |-> NoProof, mapi |-> 0, parents |-> <<>>]
Anchor(t, tt, calls_) == [Bare(t) EXCEPT !.proof = [tx |-> t, targetType |-> tt],
                                         !.mapi = calls_]
Over(t, nodes_) ==
    [Bare(t) EXCEPT !.parents = [u \in {x.tx : x \in nodes_} |->
                                    CHOOSE x \in nodes_ : x.tx = u]]

\* The chains from t of n transactions.
RECURSIVE ChainsFrom(_, _)
ChainsFrom(t, n) ==
    IF n = 1 THEN {<<Anchor(t, tt, m)>> : tt \in {"hash", "header", "merkleRoot"},
                                          m \in 0..2}
    ELSE {<<Over(t, {s[1]})>> \o s : s \in ChainsFrom(PrevOf(t), n - 1)}

MCChains == UNION {ChainsFrom(p, n) : n \in 1..4}

\* Parents with a proof and without one, and both at once.
Leaf(t) == Anchor(t, "hash", 0)
OverC   == Over(b, {Over(c, {Leaf(d)})})
MCForks ==
    {Over(q, {x, y, Leaf(d)}) : x \in {Leaf(a), Over(a, {Leaf(b)}), Over(a, {OverC})},
                                y \in {Leaf(b), OverC, Over(b, {Leaf(c)})}}
      \cup {[Over(p, {Leaf(a)}) EXCEPT !.mapi = 1],
            [Leaf(p) EXCEPT !.parents = a :> Leaf(a)]}

\* A proof is not written or does not parse, a raw transaction is not whole.
Odd(t, pf) == [Leaf(t) EXCEPT !.proof = pf, !.mapi = 1]
MCBroken ==
    {Over(p, {Odd(a, pf)}) : pf \in {Malformed, Garbled}}
      \cup {Over(q, {Odd(a, Malformed), y, Leaf(d)}) :
                 y \in {Leaf(b), OverC, Over(b, {Odd(c, Malformed)})}}
      \cup {Odd(p, Malformed), [Over(p, {Leaf(a)}) EXCEPT !.raw = Garbled],
            Over(p, {[Over(a, {OverC}) EXCEPT !.raw = Garbled]})}

\* Bytes that no serialiser here has written.
MCFlakes == {Flake("tx", p), Flake("tx", q), Flake("tx", Garbled),
             Flake("proof", Leaf(d).proof), Flake("proof", Garbled),
             Flake("mapi", p), Flake("mapi", Garbled),
             Flake("other", Garbled), Flake("other", Short)}
MCReceived ==
    {[version |-> 1, flakes |-> f] : f \in UNION {[1..n -> MCFlakes] : n \in 0..3}}
      \cup {[version |-> v, flakes |-> <<>>] : v \in {2, Short}}
      \cup {[version |-> v, flakes |-> <<Flake("tx", q), Flake("mapi", q),
                   Flake("tx", a), Flake("other", Garbled), Flake("tx", b),
                   Flake("proof", Leaf(b).proof), Flake("tx", d), x>>] :
                v \in {1, 2}, x \in MCFlakes \cup {Flake("tx", Short)}}

\* A node, and those of its parents.
RECURSIVE Nodes(_)
Nodes(x) == {x} \cup UNION {Nodes(x.parents[t]) : t \in DOMAIN x.parents}

MCEnvelopes == UNION {Nodes(x) : x \in {s[1] : s \in MCChains} \cup MCForks
                                                               \cup MCBroken}

=============================================================================

------------------------------ MODULE MCMining ------------------------------
(***************************************************************************)
(* TLC instance of Mining: a good job varied in one respect at a time, and *)
(* every shape of compact target.                                          *)
(***************************************************************************)
EXTENDS Mining

MCTxs == 1..MaxTxs

Good == [height |-> 500000, text |-> 40, wallet |-> "ok", witness |-> "none",
         minerID |-> FALSE, nonces |-> <<8, 4>>, others |-> 2,
         bits |-> 255 + 512 * 4, fields |-> Fields]

\* With three bits in a byte: eight bits of mantissa, a sign, an exponent.
Bits == {m + 256 * s + 512 * e : m \in {0, 1, 9, 255}, s \in 0..1, e \in 0..7}

MCHashes == {0, 1, 3, 8, 71, 255, 2039, 1000000}

MCJobs ==
    {[Good EXCEPT !.bits = b] : b \in Bits}
      \cup {[Good EXCEPT !.text = t, !.nonces = n, !.height = h] :
              t \in {0, 83, 84, 85, 200}, n \in {<<8, 4>>, <<6, 6>>, <<8, 8>>, <<4, 4>>},
              h \in {0, 2 ^ 24}}
      \cup {[Good EXCEPT !.wallet = w, !.witness = c, !.minerID = m] :
              w \in {"ok", "bad"}, c \in {"none", "ok", "bad"}, m \in BOOLEAN}
      \cup {[Good EXCEPT !.others = n] : n \in 0..(MaxTxs - 1)}
      \cup {[Good EXCEPT !.fields = [prev |-> p, root |-> r, bits |-> b]] :
              p \in {31, 32, 33}, r \in {0, 32}, b \in {3, 4, 5}}

MCBranches ==
    [n \in 0..(MaxTxs - 1) |->
        [h \in 1..Height(List(n)) |-> Node(List(n), h - 1, 1)]]

=============================================================================

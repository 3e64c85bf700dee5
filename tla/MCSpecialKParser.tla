-------------------------- MODULE MCSpecialKParser --------------------------
(***************************************************************************)
(* TLC instance of SpecialKParser: a tip a that spends b and c, both of    *)
(* which spend d, and the streams that tell the interesting cases apart.   *)
(***************************************************************************)
EXTENDS SpecialKParser, TLC

CONSTANTS a, b, c, d

MCTxs == {a, b, c, d}
MCInputs == (a :> {b, c}) @@ (b :> {d}) @@ (c :> {d}) @@ (d :> {})

MCStreams ==
    { \* the tip alone, anchored
      <<a, a, a>>,
      \* both parents, one anchored
      <<a, Null, Null, b, Null, b, c, c, Null>>,
      \* a chain, anchored at its end, with callbacks
      <<a, Null, a, b, Null, Null, d, d, Null>>,
      \* the same, proof, callback and transactions out of order
      <<a, d, b, d, Null, Null, b, Null, Null>>,
      \* a diamond
      <<a, Null, Null, b, Null, Null, c, Null, Null, d, Null, Null>>,
      \* d hangs from b, which has a proof
      <<a, Null, Null, b, b, Null, d, Null, Null>>,
      \* malformed flakes of each kind
      <<a, Null, Null, Bad, Null, Null, c, c, Null>>,
      <<a, Null, Null, b, Bad, Null>>,
      <<a, Null, Bad, b, b, Null>> }

\* Streams whose transactions are all placed or anchored, for the comment
\* over the assembly loop.
CommentStreams == { <<a, Null, Null, b, b, Null>> }

=============================================================================

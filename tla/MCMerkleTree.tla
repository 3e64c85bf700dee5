---------------------------- MODULE MCMerkleTree ----------------------------
(***************************************************************************)
(* TLC instance of MerkleTree: one block of every size up to MaxTxs, and   *)
(* blocks of several sizes with one malformed id at every position.        *)
(***************************************************************************)
EXTENDS MerkleTree

\* Transactions are numbers; 0 is the one whose id is not hexadecimal.
MCTxs == 0..MaxTxs
MCBadHex == {0}

Prefix(n) == [j \in 1..n |-> j]

WithBad(n, j, b) == [Prefix(n) EXCEPT ![j] = b]

MCBlocks ==
    {Prefix(n) : n \in 1..MaxTxs}
      \cup {WithBad(n, j, b) : n \in 2..MaxTxs, j \in 1..2, b \in BadHex}
      \cup {WithBad(n, n, b) : n \in 2..MaxTxs, b \in BadHex}

=============================================================================

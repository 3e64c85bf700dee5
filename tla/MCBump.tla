------------------------------- MODULE MCBump -------------------------------
(***************************************************************************)
(* TLC instance of Bump: blocks of every size up to MaxTxs, a BUMP for     *)
(* every position, used for every transaction of the largest block.        *)
(***************************************************************************)
EXTENDS Bump

MCTxs == 1..MaxTxs
MCBlocks == {[j \in 1..n |-> j] : n \in 1..MaxTxs}

=============================================================================

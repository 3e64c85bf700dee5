----------------------------- MODULE MerkleHash -----------------------------
(***************************************************************************)
(* The hash algebra under go-bc's Merkle trees, and the shape of the       *)
(* linear array that stores one.                                           *)
(*                                                                         *)
(* A double SHA-256 is modelled as a free constructor: the id of a         *)
(* transaction t is <<t>>, the parent of two nodes l and r is <<l, r>>, so *)
(* two hashes are equal exactly when they were computed from equal inputs. *)
(* Hashes are in display order; the byte reversals the code performs       *)
(* before and after each hash cancel out.                                  *)
(***************************************************************************)
EXTENDS Integers, Sequences

CONSTANTS Txs,          \* the transactions a block can hold
          MaxTxs,       \* bound: the largest number of transactions in a block
          PowersOfTwo   \* the powers of two an array of leaves is padded to

\* The empty string (or nil pointer) that marks an array cell with no node.
Nil == <<>>

\* The id of a transaction.
TxID(t) == <<t>>

\* A set of positive integers closed under halving: powers of two only.
ASSUME PowersAssumption ==
    \A p \in PowersOfTwo :
        /\ p \in Nat \ {0}
        /\ p = 1 \/ (p % 2 = 0 /\ (p \div 2) \in PowersOfTwo)

\* MaxTxs leaves can be padded: between n and 2n there is a power of two.
ASSUME MaxTxsAssumption ==
    /\ MaxTxs \in Nat
    /\ \A n \in 1..MaxTxs :
          n \in PowersOfTwo \/ \E p \in PowersOfTwo : n < p /\ p < 2 * n

\* The hash of the concatenation of two nodes.
MerkleTreeParent(l, r) == <<l, r>>

\* n itself when it is a power of two (n & (n-1) = 0), else the next one up.
nextPowerOfTwo(n) ==
    IF n \in PowersOfTwo
      THEN n
      ELSE CHOOSE p \in PowersOfTwo : n < p /\ p < 2 * n

\* Mutant of ParentCell: no case for a node without a neighbour.
LoneParentCell(l, r) == IF l = Nil THEN Nil ELSE MerkleTreeParent(l, r)

\* The three cases of the loop that fills the inner cells of the array.
ParentCell(l, r) ==
    IF l = Nil THEN Nil
    ELSE IF r = Nil THEN MerkleTreeParent(l, l)
    ELSE MerkleTreeParent(l, r)

=============================================================================

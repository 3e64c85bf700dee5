---------------------------- MODULE AncestryCreator ----------------------------
(***************************************************************************)
(* creator.CreateTxAncestry: the transactions a payment spends from, and   *)
(* theirs, are read from a transaction store and a proof store until every *)
(* chain of spends ends in a proof.  Each call of the recursion is a frame *)
(* of stack.  The application implements the stores: a read fails or finds *)
(* nothing at any time, and a proof is found at one read and not at the    *)
(* next, as blocks are mined and forgotten.                                *)
(***************************************************************************)
EXTENDS Integers, Sequences

CONSTANTS
    Txs,      \* transactions
    Inputs,   \* the outputs each spends: a sequence of [tx, vout]
    Stored,   \* those the transaction store can find; each has inputs
    Proofs,   \* the proofs the proof store can have of each of them
    NoProof   \* none

VARIABLES
    tip,     \* the payment
    stack,   \* the calls: [tx, i, parents], parents a node by transaction
    step,    \* what the last call does
    made,    \* the AncestryJSON returned: a node [tx, proof, parents]
    reads    \* how often the transaction store was read

vars == <<tip, stack, step, made, reads>>

Node(t, proof, parents) == [tx |-> t, proof |-> proof, parents |-> parents]
Frame(t) == [tx |-> t, i |-> 1, parents |-> <<>>]

Init ==
    /\ tip \in Txs
    /\ stack = <<Frame(tip)>>
    /\ step = IF Inputs[tip] = <<>> THEN "ErrNoTxInputs" ELSE "input"
    /\ made = Node(tip, NoProof, <<>>)
    /\ reads = 0

Call  == stack[Len(stack)]
pTxID == Inputs[Call.tx][Call.i].tx

\* Mutant: the work is done again.
Redone  == FALSE
Already == pTxID \in DOMAIN Call.parents

\* A parent that was added for an earlier input is skipped.
Skip ==
    /\ step = "input"
    /\ Call.i <= Len(Inputs[Call.tx])
    /\ Already
    /\ stack' = [stack EXCEPT ![Len(stack)].i = @ + 1]
    /\ UNCHANGED <<tip, step, made, reads>>

\* Whatever fails, fails the whole call.
Tx ==
    /\ step = "input"
    /\ Call.i <= Len(Inputs[Call.tx])
    /\ ~ Already
    /\ reads' = reads + 1
    /\ \/ step' = "failed"
       \/ pTxID \in Stored /\ step' = "proof"
    /\ UNCHANGED <<tip, stack, made>>

\* The caller's frame with the node of its input's parent.
\* Mutant: and one input is passed over.
AdoptAndSkip(frame, node) ==
    [frame EXCEPT !.i = @ + 2,
                  !.parents = [t \in DOMAIN @ \cup {node.tx} |->
                                  IF t = node.tx THEN node ELSE @[t]]]
Adopt(frame, node) ==
    [frame EXCEPT !.i = @ + 1,
                  !.parents = [t \in DOMAIN @ \cup {node.tx} |->
                                  IF t = node.tx THEN node ELSE @[t]]]

\* Mutant: the recursion is forgotten.
NoRecursion ==
    /\ stack' = [stack EXCEPT ![Len(stack)] =
                    Adopt(@, Node(pTxID, NoProof, <<>>))]
    /\ step' = "input"
Recurse ==
    /\ stack' = Append(stack, Frame(pTxID))
    /\ step' = "input"

\* A transaction with a proof needs no parents.
MerkleProof ==
    /\ step = "proof"
    /\ \/ step' = "failed" /\ UNCHANGED stack
       \/ \E proof \in Proofs[pTxID] :
             /\ stack' = [stack EXCEPT ![Len(stack)] =
                             Adopt(@, Node(pTxID, proof, <<>>))]
             /\ step' = "input"
       \/ Recurse
    /\ UNCHANGED <<tip, made, reads>>

ReturnToCaller ==
    /\ step = "input"
    /\ Call.i > Len(Inputs[Call.tx])
    /\ Len(stack) > 1
    /\ stack' = [SubSeq(stack, 1, Len(stack) - 1) EXCEPT ![Len(stack) - 1] =
                    Adopt(@, Node(Call.tx, NoProof, Call.parents))]
    /\ UNCHANGED <<tip, step, made, reads>>

Return ==
    /\ step = "input"
    /\ Call.i > Len(Inputs[Call.tx])
    /\ Len(stack) = 1
    /\ made' = Node(Call.tx, NoProof, Call.parents)
    /\ step' = "returned"
    /\ UNCHANGED <<tip, stack, reads>>

CreateTxAncestry ==
    Skip \/ Tx \/ MerkleProof \/ ReturnToCaller \/ Return

Spec == Init /\ [][CreateTxAncestry]_vars

=============================================================================

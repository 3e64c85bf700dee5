------------------------------- MODULE Inclusion -------------------------------
(***************************************************************************)
(* What the Merkle proof verifier promises, without hashes, nodes or       *)
(* targets: it is asked once whether an id is a node of a block's tree, so *)
(* many levels below the root, at an index of that level; and its answer   *)
(* is true to the block.  The promise is about nodes: that an id is a      *)
(* transaction's, whoever asks has to know.                                *)
(***************************************************************************)
CONSTANTS
    Claims,       \* what can be asked
    Anchored(_),  \* whether a claim is about a block that exists
    Holds(_),     \* whether it is true of that block
    Last(_),      \* whether it is about the last node of its level
    Proven(_),    \* whether it comes with the proof that belongs to it
    Whole(_)      \* whether all of it was sent

VARIABLES claim, answer

Init ==
    /\ claim \in Claims
    /\ answer = "none"

\* A claim that is not true is never called valid; a true one may be refused,
\* unless its proof is the one it should have.  One that was not sent to its
\* end may panic.  About what is no block, only known to the caller as a root
\* or a header, nothing is promised.
Valid(x)    == IF Last(x) THEN "validLast" ELSE "valid"
Refusals(x) == {"invalid", "error"} \cup (IF Whole(x) THEN {} ELSE {"panic"})
Answers(x)  ==
    IF ~ Anchored(x) THEN Refusals(x) \cup {"valid", "validLast"}
    ELSE (IF Proven(x) THEN {} ELSE Refusals(x))
           \cup (IF Holds(x) THEN {Valid(x)} ELSE {})

Answer ==
    /\ answer = "none"
    /\ answer' \in Answers(claim)
    /\ UNCHANGED claim

\* Answers are true; and one is given.
Safety == Init /\ [][Answer]_<<claim, answer>>
Spec   == Safety /\ WF_<<claim, answer>>(Answer)

=============================================================================

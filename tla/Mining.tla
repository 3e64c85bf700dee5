-------------------------------- MODULE Mining --------------------------------
(***************************************************************************)
(* What a miner does with the library: it makes the parts of a coinbase    *)
(* transaction, joins them around an extra nonce, folds its id into a      *)
(* Merkle root, looks for a nonce that meets the target, and sends the     *)
(* block as bytes to someone who parses it.                                *)
(*                                                                         *)
(* Bytes are counted, not spelled; a byte of a target has ByteBits bits.   *)
(***************************************************************************)
EXTENDS BlockTree

CONSTANTS
    Jobs,       \* what is mined: see Init
    Branches,   \* the Merkle branches of a coinbase, for each number of others
    Hashes,     \* the numbers a header can hash to
    ByteBits    \* bits in a byte of a compact target: 8 in the code

\* The transactions of a block: the coinbase is the first.
List(others) == [j \in 1..(others + 1) |-> j]

\* The caller hands over the branches of the coinbase: its right neighbour, and
\* that of each node above it.
ASSUME MiningAssumption ==
    /\ Hashes \subseteq Nat /\ ByteBits \in Nat \ {0}
    /\ \A j \in Jobs :
          /\ {j.text, j.others, j.bits} \subseteq Nat
          /\ j.nonces \in Nat \X Nat
          /\ j.fields \in [prev : Nat, root : Nat, bits : Nat]
          /\ LET list == List(j.others)
             IN  /\ Len(Branches[j.others]) = Height(list)
                 /\ \A h \in 1..Height(list) : Branches[j.others][h] = Node(list, h - 1, 1)

VARIABLES
    job,        \* what is mined, from the caller
    pc,
    coinbase1,  \* [declared, data]: the length stated, and that of the data
    coinbase2,  \* [stated, outputs]: their number as stated, and as written
    coinbase,   \* [height, declared, script, stated, outputs]
    header,     \* [root, fields]
    hash,
    stream,     \* the block as bytes: [header, count, txs]
    parsed      \* what is read from them: [result, header, txs]

vars == <<job, pc, coinbase1, coinbase2, coinbase, header, hash, stream, parsed>>

\* A job: the height; the length of the text; the wallet, witness commitment
\* and miner id; the lengths of the two extra nonces; the number of
\* transactions besides the coinbase; the compact target; and the lengths of
\* the fields of the header, which one that comes as JSON may have wrong.
Init ==
    /\ job \in Jobs
    /\ pc = "parts"
    /\ coinbase1 = [declared |-> 0, data |-> 0]
    /\ coinbase2 = [stated |-> 0, outputs |-> 0]
    /\ coinbase = [height |-> 0, declared |-> 0, script |-> 0, stated |-> 0, outputs |-> 0]
    /\ header = [root |-> Nil, fields |-> job.fields]
    /\ hash = 0
    /\ stream = [header |-> header, count |-> 0, txs |-> <<>>]
    /\ parsed = [result |-> "none", header |-> header, txs |-> <<>>]

-----------------------------------------------------------------------------
(* Coinbase *)

ScriptLimit        == 100
spaceForExtraNonce == 12

AtMost(n, limit) == IF n > limit THEN limit ELSE n

\* Mutant: the text is cut where the script must end.
makeCoinbase1Full(text) ==
    LET data == AtMost(4 + text, ScriptLimit)
    IN  [declared |-> data + spaceForExtraNonce, data |-> data]

\* A byte for the length of the height, three bytes of it, and the text, cut
\* so that the extra nonces still fit.
makeCoinbase1(text) ==
    LET data == AtMost(4 + text, ScriptLimit - spaceForExtraNonce)
    IN  [declared |-> data + spaceForExtraNonce, data |-> data]

\* A number, then the outputs: the reward, and one for a witness commitment
\* and one for a miner id if there are any.
makeCoinbaseOutputTransactions ==
    LET more == (IF job.witness = "none" THEN 0 ELSE 1) + (IF job.minerID THEN 1 ELSE 0)
    IN  [stated |-> 1 + more, outputs |-> 1 + more]

GetCoinbaseParts ==
    /\ pc = "parts"
    /\ coinbase1' = makeCoinbase1(job.text)
    /\ IF job.wallet = "bad" \/ job.witness = "bad"
         THEN pc' = "error" /\ UNCHANGED coinbase2
         ELSE pc' = "build" /\ coinbase2' = makeCoinbaseOutputTransactions
    /\ UNCHANGED <<job, coinbase, header, hash, stream, parsed>>

\* The extra nonces come as they are, whatever their lengths.
BuildCoinbase ==
    /\ pc = "build"
    /\ coinbase' = [height   |-> job.height % TwoTo[24],
                    declared |-> coinbase1.declared,
                    script   |-> coinbase1.data + job.nonces[1] + job.nonces[2],
                    stated   |-> coinbase2.stated,
                    outputs  |-> coinbase2.outputs]
    /\ pc' = "root"
    /\ UNCHANGED <<job, coinbase1, coinbase2, header, hash, stream, parsed>>

\* Transaction 1 is the coinbase: it is on the left at every level.
RootFrom(branches) ==
    LET acc[i \in 0..Len(branches)] ==
            IF i = 0 THEN TxID(1) ELSE MerkleTreeParent(acc[i - 1], branches[i])
    IN  acc[Len(branches)]

\* The hash takes the place of the root the header came with.
BuildMerkleRootFromCoinbase ==
    /\ pc = "root"
    /\ header' = [root |-> RootFrom(Branches[job.others]),
                  fields |-> [header.fields EXCEPT !.root = 32]]
    /\ pc' = "mine"
    /\ UNCHANGED <<job, coinbase1, coinbase2, coinbase, hash, stream, parsed>>

-----------------------------------------------------------------------------
(* Targets *)

SignBit    == TwoTo[3 * ByteBits - 1]
Mantissa   == job.bits % SignBit
IsNegative == (job.bits \div SignBit) % 2 = 1
Exponent   == job.bits \div TwoTo[3 * ByteBits]

Shifted(n, bytes) == n * TwoTo[ByteBits * bytes]

\* Mutant: the sign is forgotten.
ExpandUnsigned ==
    IF Exponent <= 3 THEN Mantissa \div Shifted(1, 3 - Exponent)
                     ELSE Shifted(Mantissa, Exponent - 3)
ExpandTargetFromAsInt ==
    LET bn == IF Exponent <= 3 THEN Mantissa \div Shifted(1, 3 - Exponent)
                               ELSE Shifted(Mantissa, Exponent - 3)
    IN  IF IsNegative THEN -bn ELSE bn

\* The same number for the difficulty: the sign is part of the mantissa, and
\* a negative power of the base counts as one.
toCompactSize ==
    (job.bits % TwoTo[3 * ByteBits])
        * (IF Exponent < 3 THEN 1 ELSE Shifted(1, Exponent - 3))

\* The check a miner makes of each nonce, and everyone else of the one found;
\* fewer than four bytes of target panic.
Valid ==
    /\ pc = "mine"
    /\ IF header.fields.bits < 4
         THEN pc' = "rangePanic" /\ UNCHANGED hash
         ELSE /\ hash' \in Hashes
              /\ pc' = IF hash' < ExpandTargetFromAsInt THEN "mined" ELSE "mine"
    /\ UNCHANGED <<job, coinbase1, coinbase2, coinbase, header, stream, parsed>>

-----------------------------------------------------------------------------
(* Blocks *)

\* The fields of the header as they are; the number of transactions; each.
Bytes ==
    /\ pc = "mined"
    /\ stream' = [header |-> header, count |-> job.others + 1,
                  txs |-> <<coinbase>> \o [j \in 1..job.others |-> j + 1]]
    /\ pc' = "sent"
    /\ UNCHANGED <<job, coinbase1, coinbase2, coinbase, header, hash, parsed>>

\* The lengths the parser cuts the first 80 bytes into.
Fields    == [prev |-> 32, root |-> 32, bits |-> 4]
Length(f) == 12 + f.prev + f.root + f.bits

\* NewBlockHeaderFromBytes: fields whose lengths only add up to 80 bytes are
\* cut elsewhere, and the root is not the one that was written.
Read(h) == IF h.fields = Fields THEN h ELSE [root |-> Nil, fields |-> Fields]

\* A script that is not as long as it says takes bytes of what follows it.
TxOK(tx) == tx.declared = tx.script /\ tx.stated = tx.outputs

\* Mutant: one transaction less than there are.
CountLess(n) == n - 1
\* The number of transactions read.
Count(n)     == n

Failed(result) == [parsed EXCEPT !.result = result]
Misread        == [result |-> "block", header |-> [root |-> Nil, fields |-> Fields],
                   txs |-> <<>>]

\* What follows a header of another length, or a transaction that does not end
\* where it says, is read as whatever it happens to be.
NewBlockFromBytes ==
    /\ pc = "sent"
    /\ pc' = "parsed"
    /\ parsed' \in
         IF Length(stream.header.fields) = Length(Fields) /\ TxOK(stream.txs[1])
           THEN {[result |-> "block", header |-> Read(stream.header),
                  txs |-> SubSeq(stream.txs, 1, Count(stream.count))]}
           ELSE {Misread, Failed("error"), Failed("rangePanic")}
    /\ UNCHANGED <<job, coinbase1, coinbase2, coinbase, header, hash, stream>>

Next == GetCoinbaseParts \/ BuildCoinbase \/ BuildMerkleRootFromCoinbase
          \/ Valid \/ Bytes \/ NewBlockFromBytes

\* No fairness: nothing makes the search for a nonce end.
Spec == Init /\ [][Next]_vars

-----------------------------------------------------------------------------
(* Properties *)

\* The state has its type.  The first part of a coinbase states no more than
\* the hundred bytes the network allows of a script, and has no more, however
\* long its text; the script built from it has no more either, if its extra
\* nonces fit the space left for them.  BuildCoinbase takes longer ones too.
TypeOK ==
    /\ pc \in {"parts", "build", "root", "mine", "mined", "sent", "parsed",
               "error", "rangePanic"}
    /\ coinbase1.data \in 0..ScriptLimit /\ coinbase1.declared \in 0..ScriptLimit
    /\ pc \notin {"parts", "error", "build"}
         /\ job.nonces[1] + job.nonces[2] <= spaceForExtraNonce
       => coinbase.script \in 0..ScriptLimit
    /\ hash \in Hashes \cup {0}
    /\ parsed.result \in {"none", "block", "error", "rangePanic"}

\* A hash that Valid accepts is below the target the compact form stands for,
\* mantissa * base^(exponent - 3) rounded down, and no hash is below one whose
\* sign bit is set; the number DifficultyFromBits divides by is that target,
\* or, where a small exponent cuts the mantissa, a larger one: the difficulty
\* reported of a mined block never overstates its work.
WorkMeetsTarget ==
    pc \in {"mined", "sent", "parsed"} =>
        /\ ~ IsNegative
        /\ (hash + 1) * Shifted(1, 3) <= Shifted(Mantissa, Exponent)
        /\ toCompactSize >= ExpandTargetFromAsInt
        /\ Exponent >= 3 => toCompactSize = ExpandTargetFromAsInt

\* A block mined with extra nonces that fill the space left for them, under a
\* header whose fields have their lengths, is read back from its bytes as it
\* was: every transaction, and a header with the Merkle root of their list,
\* which the fold over the coinbase's branches has to arrive at, whatever the
\* length of the text and the outputs there are.  Of other extra nonces, and of
\* the odd fields a header from JSON may have, it says nothing: what is read then
\* is one of the outcomes of NewBlockFromBytes.
MinedBlockReadsBack ==
    pc = "parsed" /\ job.fields = Fields
       /\ job.nonces[1] + job.nonces[2] = spaceForExtraNonce
      => parsed = [result |-> "block",
                   header |-> [root |-> MerkleRoot(List(job.others)), fields |-> Fields],
                   txs |-> <<coinbase>> \o [j \in 1..job.others |-> j + 1]]

=============================================================================

----------------------------- MODULE PaymentFlow -----------------------------
(***************************************************************************)
(* A payment from end to end: its ancestry is created, encoded, perhaps    *)
(* turned into the JSON of the standard and back by someone on the way, in *)
(* whatever order Go ranges over the maps, and verified.                   *)
(***************************************************************************)
EXTENDS PaymentVerifier

CONSTANTS Stored, Proofs,          \* AncestryCreator
          Tips,                    \* the payments
          Options,                 \* the options its verification is given
          MaxRelays                \* how often the ancestry is passed on

\* A proof, as VerifyMerkleProof takes it.
MerkleProofs == [tx : Txs \cup {Malformed},
                 targetType : {"block", "root", "header"},
                 answer : {"truncated", "malformed", "error", "invalid", "valid"}]

\* Bytes() writes a transaction as it is written for its id.  A stored one has
\* inputs, and the store of proofs has nothing else.
WellFormed ==
    /\ Stored \subseteq Txs /\ Tips \subseteq Txs /\ MaxRelays \in Nat
    /\ \A t \in Stored \cup Tips : TxID[t] = t
    /\ NoProof \notin MerkleProofs
    /\ \A t \in Stored : Inputs[t] # <<>> /\ Proofs[t] \subseteq MerkleProofs

ASSUME StoreAssumption == WellFormed

VARIABLES
    tip, stack, step, made, reads,                          \* AncestryCreator
    nodes,    \* the nodes each call of serialiseInputs has not come to yet
    chunks,   \* the chunks written
    relays    \* how often the ancestry was passed on

creation == <<tip, stack, step, made, reads>>
encoding == <<nodes, chunks, relays>>
\* vars are those of PaymentVerifier.
flow == <<creation, vars, encoding>>

Creator == INSTANCE AncestryCreator

FlowInit ==
    /\ Creator!Init /\ tip \in Tips
    /\ ctor = <<>> /\ opts = Defaults
    /\ hasChain = TRUE /\ built = "yes"
    /\ pc = [g \in {1} |-> "none"]
    /\ payment = [g \in {1} |-> [tx |-> tip, version |-> 1, chunks |-> <<>>,
                              short |-> FALSE]]
    /\ given \in [{1} -> Options]
    /\ o = [g \in {1} |-> opts]
    /\ pos = [g \in {1} |-> 1]
    /\ txid = [g \in {1} |-> Malformed]
    /\ aa = [g \in {1} |-> <<>>]
    /\ todo = [g \in {1} |-> {}]
    /\ nodes = <<>> /\ chunks = <<>> /\ relays = 0

Create ==
    /\ Creator!CreateTxAncestry
    /\ UNCHANGED <<vars, encoding>>

-----------------------------------------------------------------------------
(* The encoders: the nodes of a map in any order, each followed by its proof *)
(* or, without one, by its parents.  The creator adds no mAPI callbacks.    *)

ValuesOf(f) == {f[t] : t \in DOMAIN f}

Bytes ==
    /\ step = "returned"
    /\ step' = "encode"
    /\ nodes' = <<ValuesOf(made.parents)>>
    /\ UNCHANGED <<tip, stack, made, reads, chunks, relays, vars>>

Calls == Len(nodes)

Written(node) ==
    <<[type |-> "tx", data |-> node.tx]>>
      \o (IF node.proof = NoProof THEN <<>>
          ELSE <<[type |-> "proof", data |-> node.proof]>>)

serialiseInputs ==
    /\ step = "encode"
    /\ Calls > 0
    /\ \E node \in nodes[Calls] :
          /\ chunks' = chunks \o Written(node)
          /\ nodes' = [nodes EXCEPT ![Calls] = @ \ {node}]
                        \o (IF node.proof = NoProof
                              THEN <<ValuesOf(node.parents)>> ELSE <<>>)
    /\ UNCHANGED <<creation, relays, vars>>

serialiseInputsReturn ==
    /\ step = "encode"
    /\ Calls > 0
    /\ nodes[Calls] = {}
    /\ nodes' = SubSeq(nodes, 1, Calls - 1)
    /\ UNCHANGED <<creation, chunks, relays, vars>>

\* The proof of each transaction, as parseAncestry leaves it: the one right
\* after the last chunk with that transaction.
Parsed(t) ==
    LET at   == {j \in DOMAIN chunks : chunks[j] = [type |-> "tx", data |-> t]}
        last == CHOOSE j \in at : \A m \in at : m <= j
    IN  IF last < Len(chunks) /\ chunks[last + 1].type = "proof"
          THEN chunks[last + 1].data ELSE NoProof

\* Mutant: the proof is given to another transaction.
Mixed(proof) == {[proof EXCEPT !.tx = tip]}

\* The JSON of a proof keeps its target and loses what kind of target it is,
\* so that its bytes present any target as the hash of a block: a root is not
\* one, and of a header 32 of 80 bytes are, the rest read as nodes.
Reencoded(proof) ==
    CASE proof.targetType = "block"  -> {proof}
      [] proof.targetType = "root"   ->
           {[proof EXCEPT !.targetType = "block", !.answer = "error"]}
      [] proof.targetType = "header" ->
           {[proof EXCEPT !.targetType = "block", !.answer = x] :
              x \in {"error", "malformed", "truncated"}}

\* NewAncestryJSONFromBytes, which fails on a proof that does not parse, then
\* Bytes of what it makes.
Relay ==
    /\ step = "encode"
    /\ Calls = 0
    /\ relays < MaxRelays
    /\ relays' = relays + 1
    /\ chunks' = <<>>
    /\ LET sent == {chunks[j].data : j \in {m \in DOMAIN chunks :
                                              chunks[m].type = "tx"}}
           proven == {t \in sent : Parsed(t) # NoProof}
       IN  /\ \A t \in proven : Parsed(t).answer \notin {"malformed", "truncated"}
           /\ \E f \in [proven -> UNION {Reencoded(Parsed(t)) : t \in proven}] :
                 /\ \A t \in proven : f[t] \in Reencoded(Parsed(t))
                 /\ nodes' = <<{[tx |-> t, parents |-> <<>>,
                                 proof |-> IF t \in proven THEN f[t] ELSE NoProof] :
                                  t \in sent}>>
    /\ UNCHANGED <<creation, vars>>

-----------------------------------------------------------------------------

Deliver ==
    /\ step = "encode"
    /\ Calls = 0
    /\ step' = "delivered"
    /\ payment' = [payment EXCEPT ![1].chunks = chunks]
    /\ pc' = [pc EXCEPT ![1] = "idle"]
    /\ UNCHANGED <<tip, stack, made, reads, encoding, ctor, opts, hasChain,
                   built, given, o, pos, txid, aa, todo>>

Verify ==
    /\ Call(1)
    /\ UNCHANGED <<creation, encoding>>

FlowNext == Create \/ Bytes \/ serialiseInputs \/ serialiseInputsReturn \/ Relay
          \/ Deliver \/ Verify

FlowSpec == FlowInit /\ [][FlowNext]_flow

-----------------------------------------------------------------------------
(* Properties *)

Failed  == step \in {"ErrNoTxInputs", "failed"}
Refused == pc[1] \in Errors \cup Panics

\* Every variable has its type; a call never stands beyond its inputs, and
\* nothing is verified that was not delivered.
FlowTypeOK ==
    /\ Failed \/ step \in {"input", "proof", "returned", "encode", "delivered"}
    /\ \A k \in DOMAIN stack : /\ stack[k].i \in 1..(Len(Inputs[stack[k].tx]) + 1)
                               /\ DOMAIN stack[k].parents \subseteq Stored
    /\ relays \in 0..MaxRelays
    /\ pc[1] # "none" => step = "delivered"
    /\ TypeOK \/ pc[1] = "none"

\* Stores that tell the truth, of transactions whose spends exist.
Truthful ==
    /\ \A t \in Stored : \A x \in Proofs[t] : x.tx = t /\ x.answer = "valid"
    /\ \A t \in Stored \cup Tips : \A i \in DOMAIN Inputs[t] :
          Inputs[t][i].tx \in Stored \cup Tips => InBounds(Inputs[t][i])

\* What was a proof about a root or a header, and is one about a block.
Misread(x) ==
    {y \in {[x EXCEPT !.targetType = "block", !.answer = a] :
              a \in {"error", "malformed", "truncated"}} : x.targetType # "block"}

\* The proofs of t that can arrive: those of the store and, once they were
\* passed on, what has become of them.
Evidence(t) == Proofs[t] \cup (IF relays = 0 THEN {}
                                ELSE UNION {Misread(x) : x \in Proofs[t]})

\* What the creator makes of stores that tell the truth is accepted, though a
\* store had a proof at one read and not at the next of the same transaction,
\* or had it no more, and in whatever order the maps were ranged over, unless
\* the fees asked for are not paid; or unless, passed on, it has a proof about
\* a root or a header.
Unpaid ==
    LET asked == Asked(1)
    IN  /\ asked.fees
        /\ \/ asked.feeQuote \in {NoQuote, NoFee, NoBytes}
           \/ ~ IsFeePaidEnough(tip, asked.feeQuote)
CreatedIsAccepted ==
    Refused => \/ Unpaid
               \/ /\ relays > 0
                  /\ \E t \in Stored : \E x \in Proofs[t] : \E j \in DOMAIN chunks :
                        chunks[j].data \in Misread(x)

\* The ancestry the verifier goes by is the one the creator found: every
\* ancestor has a proof the store has of it, none exchanged or given to another
\* transaction on the way, or else all that it spends from is there.
EvidenceKept ==
    pc[1] \in {"fees", "ancestors", "accepted"} =>
        \A t \in DOMAIN aa[1] :
            \/ t \in Stored /\ aa[1][t] \in Evidence(t)
            \/ /\ aa[1][t] = NoProof
               /\ \A j \in DOMAIN Inputs[t] : Inputs[t][j].tx \in DOMAIN aa[1]

\* Where a call of the creator stands: at an input, or past the last.
Places == UNION {{t} \X (1..(Len(Inputs[t]) + 1)) : t \in Txs}

\* The chains of distinct parents that lead back from the inputs of t, from the
\* i-th on.
Chains[x \in Places] ==
    LET t == x[1]
        i == x[2]
        u == Inputs[t][i].tx
    IN  IF i > Len(Inputs[t]) THEN 0
        ELSE Chains[<<t, i + 1>>]
               + (IF \E j \in 1..(i - 1) : Inputs[t][j].tx = u THEN 0
                  ELSE 1 + Chains[<<u, 1>>])

\* The stores are asked for a parent once for each chain of distinct
\* transactions that leads to it, however many inputs spend from it: "no point
\* in redoing the same work".
ReadsAreBounded == reads <= Chains[<<tip, 1>>]

-----------------------------------------------------------------------------

\* "NewAncestryJSONFromBytes is a way to create the JSON format for Ancestry
\* from the binary format", and Bytes "returns the serialised bytes" of it: an
\* ancestry passed on in that form is as good as it was.
RelayedIsAccepted == relays > 0 => ~ Refused

=============================================================================

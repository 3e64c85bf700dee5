------------------------------- MODULE Envelope -------------------------------
(***************************************************************************)
(* The serialisers of an envelope, in the CrunchyNut and in the SpecialK   *)
(* format, and the CrunchyNut parser, which reads what they write and what *)
(* may be received besides.  (SpecialKParser is the other parser.)         *)
(*                                                                         *)
(* An envelope is a node [tx, raw, proof, mapi, parents]: its TxID, what   *)
(* its RawTx decodes to, its proof or NoProof, how many callbacks it has,  *)
(* and a node for each of the parents given.  A proof is [tx, targetType], *)
(* or one of those below.                                                  *)
(***************************************************************************)
EXTENDS Integers, Sequences, FiniteSets

CONSTANTS
    Txs,        \* transactions
    Parents,    \* the transactions each spends from
    NoTx,       \* the TxID of a node not read yet
    NoProof,
    Malformed,  \* a proof that is not written: a field of it is not hex
    Garbled,    \* bytes that do not parse
    Short,      \* bytes that the array ends before the end of
    Received,   \* what may be received: [version, flakes]
    NoEnvelope, \* and no envelope here was serialised for
    Envelopes,  \* what is serialised: envelopes, and the nodes of their parents
    Chains      \* chains of them, node by node

\* A transaction without a proof comes with one of its parents at least.
IsEnvelope(x) ==
    /\ x.tx \in Txs /\ x.raw \in {x.tx, Garbled} /\ x.mapi \in Nat
    /\ x.parents \in [DOMAIN x.parents -> Envelopes]
    /\ DOMAIN x.parents \subseteq Parents[x.tx]
    /\ \A t \in DOMAIN x.parents : x.parents[t].tx = t
    /\ x.proof = NoProof => DOMAIN x.parents # {}

\* Each spends from the next alone and has no callbacks; the last comes with a
\* proof that is written and parsed and, maybe, with callbacks.
IsChain(s) ==
    /\ Len(s) >= 1
    /\ \A k \in 1..(Len(s) - 1) :
          s[k] = [tx |-> s[k].tx, raw |-> s[k].tx, proof |-> NoProof, mapi |-> 0,
                  parents |-> [t \in Parents[s[k].tx] |-> s[k + 1]]]
    /\ \A k \in 1..(Len(s) - 1) : Parents[s[k].tx] = {s[k + 1].tx}
    /\ s[Len(s)].raw = s[Len(s)].tx /\ s[Len(s)].parents = <<>>
    /\ s[Len(s)].proof \notin {NoProof, Malformed, Garbled, Short}

ValuesOf(f) == {f[t] : t \in DOMAIN f}
Flake(type, data) == [type |-> type, data |-> data]

\* A flake of a transaction holds one, unless it does not parse.
IsReceived(r) ==
    /\ r.flakes \in Seq(ValuesOf(r.flakes))
    /\ \A f \in ValuesOf(r.flakes) : /\ f = Flake(f.type, f.data)
                                     /\ f.type = "tx" => f.data \in Txs \cup {Garbled, Short}

ASSUME EnvelopeAssumption ==
    /\ \A t \in Txs : IsFiniteSet(Parents[t])
    /\ NoProof # Malformed /\ NoEnvelope \notin Envelopes
    /\ Garbled \notin Txs /\ Short \notin Txs \cup {1}
    /\ \A x \in Envelopes : IsEnvelope(x)
    /\ \A r \in Received : IsReceived(r)
    /\ \A s \in Chains : s \in Seq(Envelopes) /\ IsChain(s)

VARIABLES
    envelope,  \* what is serialised
    format,    \* crunchyNut or specialK, or received when nothing is serialised
    pc,
    nodes,     \* the parents its loop has not come to yet
    err,       \* the serialiser has returned an error
    version,   \* the first byte
    stream,    \* the flakes written or received
    offset,    \* the flake read next
    made,      \* the nodes the parser has made: the first is the result
    calls      \* its calls: [node, at, inputs]

vars == <<envelope, format, pc, nodes, err, version, stream, offset, made, calls>>
reader == <<offset, made, calls>>
writer == <<envelope, format, nodes, err, version, stream>>

\* Parents of a node read are numbers of nodes in made.
Blank == [tx |-> NoTx, proof |-> NoProof, mapi |-> 0, parents |-> <<>>]

Init ==
    /\ \/ /\ envelope \in Envelopes /\ format \in {"crunchyNut", "specialK"}
          /\ pc = "write" /\ nodes = {envelope} /\ version = 1 /\ stream = <<>>
       \/ /\ envelope = NoEnvelope /\ format = "received"
          /\ pc = "open" /\ nodes = {}
          /\ \E r \in Received : version = r.version /\ stream = r.flakes
    /\ err = FALSE
    /\ offset = 1
    /\ made = <<Blank>>
    /\ calls = <<[node |-> 1, at |-> "flake", inputs |-> {}]>>

-----------------------------------------------------------------------------
(* Serialisers *)

Unwritten == {NoProof, Malformed}
ProofOf(node) == IF node.proof \in Unwritten THEN <<>>
                 ELSE <<Flake("proof", node.proof)>>

\* CrunchyNut has a flake for every callback; SpecialK has three flakes for
\* every transaction, and one of no length for what there is not.  Of a node
\* with a malformed proof they write what comes before it.  A raw transaction
\* that is not hex is written as far as it is; callbacks are strings and a
\* number, which json.Marshal always encodes.
CrunchyNut(node) ==
    <<Flake("tx", node.raw)>>
      \o [j \in 1..node.mapi |-> Flake("mapi", node.tx)] \o ProofOf(node)
SpecialK(node) ==
    <<Flake("tx", node.raw)>>
      \o (IF node.proof = NoProof THEN <<Flake("none", NoTx)>> ELSE ProofOf(node))
      \o (CASE node.proof = Malformed -> <<>>
            [] node.proof # Malformed /\ node.mapi = 0 -> <<Flake("none", NoTx)>>
            [] OTHER -> <<Flake("mapi", node.tx)>>)

\* Mutant: the parents of a node with a proof are written too.
AlwaysDown(node)  == node.parents # <<>>
HasParents(node) == node.parents # <<>> /\ node.proof = NoProof

\* The loop over a map, in any order.  At the first node with parents to go
\* down to it returns what the call for them returns: the nodes it has not
\* come to are not written.  At a malformed proof all the calls return.
Serialise ==
    /\ pc = "write"
    /\ \E node \in nodes :
          /\ stream' = stream \o (IF format = "crunchyNut" THEN CrunchyNut(node)
                                                           ELSE SpecialK(node))
          /\ err' = (node.proof = Malformed)
          /\ nodes' = IF err' THEN {}
                      ELSE IF HasParents(node) THEN ValuesOf(node.parents)
                                               ELSE nodes \ {node}
    /\ UNCHANGED <<envelope, format, pc, version, reader>>

\* The error is printed, and what has been written is returned all the same.
SerialiseReturn ==
    /\ pc = "write"
    /\ nodes = {}
    /\ pc' = IF format = "crunchyNut" THEN "open" ELSE "done"
    /\ UNCHANGED <<writer, reader>>

-----------------------------------------------------------------------------
(* NewCrunchyNutEnvelopeFromBytes, parseCrunchyNutFlakesRecursively *)

\* The version is checked; bytes that end before it, or after it, are not.
Open ==
    /\ pc = "open"
    /\ pc' = CASE version = Short -> "panic"
                [] version \notin {1, Short} -> "error"
                [] OTHER -> IF stream = <<>> THEN "panic" ELSE "read"
    /\ UNCHANGED <<writer, reader>>

Call == calls[Len(calls)]
\* Mutant: one flake more than there are.
MoreThanAll == offset <= Len(stream) + 1
More == offset <= Len(stream)
Then(call) == [calls EXCEPT ![Len(calls)] = call]
Parse(node) == [node |-> node, at |-> "flake", inputs |-> {}]
At(place) == [Call EXCEPT !.at = place]

\* A new node for each parent.
NewNodes(t) ==
    {f \in [Parents[t] -> (Len(made) + 1)..(Len(made) + Cardinality(Parents[t]))] :
        \A u, v \in Parents[t] : f[u] = f[v] => u = v}

\* The parents are only kept when another transaction or nothing follows;
\* otherwise a call for the same node reads what does.  Either way, the loop
\* over the parents reads what is left into them.
Tx(flake) ==
    LET parents == CHOOSE f \in NewNodes(flake.data) : TRUE
        next    == offset + 1
        own     == next <= Len(stream) /\ stream[next].type # "tx"
        loop    == [node |-> Call.node, at |-> "inputs",
                    inputs |-> ValuesOf(parents)]
    IN  /\ flake.type = "tx"
        /\ made' = [made EXCEPT ![Call.node].tx = flake.data,
                                ![Call.node].parents = IF own THEN @ ELSE parents]
                     \o [j \in 1..Cardinality(Parents[flake.data]) |-> Blank]
        /\ calls' = IF own THEN Append(Then(loop), Parse(Call.node)) ELSE Then(loop)
        /\ offset' = next

\* The target of a proof is a header or, in name, the hash of a block.
flagType(proof) ==
    [proof EXCEPT !.targetType = IF @ = "header" THEN "header" ELSE "blockhash"]

Proof(flake) ==
    /\ flake.type = "proof"
    /\ made' = [made EXCEPT ![Call.node].proof = flagType(flake.data)]
    /\ calls' = Then(At("end"))
    /\ offset' = offset + 1

\* Mutant: the list is made anew for every callback.
MapiAnew(flake) ==
    /\ flake.type = "mapi"
    /\ made' = [made EXCEPT ![Call.node].mapi = 1]
    /\ calls' = Then(At("end"))
    /\ offset' = offset + 1
Mapi(flake) ==
    /\ flake.type = "mapi"
    /\ made' = [made EXCEPT ![Call.node].mapi = @ + 1]
    /\ calls' = Then(At("end"))
    /\ offset' = offset + 1

\* Mutant: the offset is left where it is.
OtherAgain(flake) ==
    /\ flake.type \notin {"tx", "proof", "mapi"}
    /\ calls' = Then(At("end"))
    /\ UNCHANGED <<offset, made>>
\* A flake of a type it does not know is printed.
Other(flake) ==
    /\ flake.type \notin {"tx", "proof", "mapi"}
    /\ calls' = Then(At("end"))
    /\ offset' = offset + 1
    /\ UNCHANGED made

\* Mutant: a callback that does not parse is left out.
LeftOut(flake) ==
    \/ flake.data = Short
    \/ flake.data = Garbled /\ flake.type \in {"tx", "proof"}
\* The error of a flake that does not parse is printed and the nil pointer that
\* comes with it is used; the slice of a flake cut short is out of range.
\* (Where the array goes on behind the slice, the flake is whole: it holds what
\* is there.)
Panics(flake) ==
    \/ flake.data = Short
    \/ flake.data = Garbled /\ flake.type \in {"tx", "proof", "mapi"}

ReadFlake ==
    /\ pc = "read"
    /\ calls # <<>> /\ Call.at = "flake"
    /\ LET flake == stream[offset]
       IN  \/ /\ Panics(flake)
             /\ pc' = "panic"
             /\ UNCHANGED reader
          \/ /\ ~ Panics(flake)
             /\ Tx(flake) \/ Proof(flake) \/ Mapi(flake) \/ Other(flake)
             /\ UNCHANGED pc
    /\ UNCHANGED writer

\* The loop over the parents, in any order, while there are flakes.
Inputs ==
    /\ pc = "read"
    /\ calls # <<>> /\ Call.at = "inputs"
    /\ \/ /\ Call.inputs = {} \/ ~ More
          /\ calls' = Then(At("end"))
       \/ /\ More
          /\ \E m \in Call.inputs :
                calls' = Append(Then([Call EXCEPT !.inputs = @ \ {m}]), Parse(m))
    /\ UNCHANGED <<pc, offset, made, writer>>

\* Whatever is left is read into the same node.
End ==
    /\ pc = "read"
    /\ calls # <<>> /\ Call.at = "end"
    /\ calls' = IF More THEN Then(Parse(Call.node))
                        ELSE SubSeq(calls, 1, Len(calls) - 1)
    /\ UNCHANGED <<pc, offset, made, writer>>

Return ==
    /\ pc = "read"
    /\ calls = <<>>
    /\ pc' = "done"
    /\ UNCHANGED <<writer, reader>>

Next == Serialise \/ SerialiseReturn \/ Open \/ ReadFlake \/ Inputs \/ End \/ Return

Spec == Init /\ [][Next]_vars /\ WF_vars(Next)

-----------------------------------------------------------------------------
(* Properties *)

\* Every variable has its type; a call that is to read a flake has one, so
\* that no byte beyond the end is read, and what is read is read once.
TypeOK ==
    /\ pc \in {"write", "open", "read", "done", "error", "panic"}
    /\ offset \in 1..(Len(stream) + 1)
    /\ \A m \in DOMAIN made : made[m].tx \in Txs \cup {NoTx}
    /\ \A k \in DOMAIN calls : /\ calls[k].node \in DOMAIN made
                               /\ calls[k].inputs \subseteq DOMAIN made
    /\ pc = "read" /\ calls # <<>> /\ Call.at = "flake"
          => offset <= Len(stream)
    /\ pc = "done" /\ format # "specialK" => offset = Len(stream) + 1

\* The flakes of transactions, and the one before each of which the last
\* without a proof comes.
TxFlakes == {j \in DOMAIN stream : stream[j].type = "tx"}
Proven(j) == \E m \in DOMAIN stream :
                 /\ m > j /\ stream[m].type = "proof"
                 /\ \A x \in TxFlakes : x <= j \/ x > m
Spender(j) == {x \in TxFlakes : x < j /\ ~ Proven(x)}

\* A transaction that is not written whole spends nothing one could name.
Spends(t, u) == Garbled \in {t, u} \/ u \in Parents[t]

Last(j) == \A x \in TxFlakes : x <= j

\* What is written, in either format and whether or not a proof was malformed,
\* is the beginning of a chain: every transaction after the tip is spent by the
\* last one before it that came without a proof.  And it ends in a proof unless
\* the serialiser has returned an error, when it does not.
WrittenIsChain ==
    pc # "write" /\ format # "received" =>
        /\ \A j \in TxFlakes \ {1} :
              /\ Spender(j) # {}
              /\ LET x == CHOOSE x \in Spender(j) : \A y \in Spender(j) : y <= x
                 IN  Spends(stream[x].data, stream[j].data)
        /\ \A j \in TxFlakes : Last(j) => (Proven(j) <=> ~ err)

\* What the parser makes of a node of a chain: the names of target types are
\* those it knows, and a parent is the node made for it.
ReadBack(s, k) ==
    [tx      |-> s[k].tx,
     proof   |-> IF k = Len(s) THEN flagType(s[k].proof) ELSE NoProof,
     mapi    |-> s[k].mapi,
     parents |-> [t \in DOMAIN s[k].parents |-> k + 1]]

\* A chain that is serialised as CrunchyNut is parsed, and read back as it was,
\* with its proof and its callbacks in place, whatever the order of the map: the
\* parser reads flakes into the node its call is for, whichever transaction they
\* are.  Callbacks of a transaction without a proof are not in a chain: after
\* them the next transaction is read into the same node.
ChainsReadBack ==
    \A s \in Chains :
        format = "crunchyNut" /\ envelope = s[1] =>
            /\ pc \notin {"error", "panic"}
            /\ pc = "done" => \A k \in 1..Len(s) :
                  k \in DOMAIN made /\ made[k] = ReadBack(s, k)

\* No envelope comes of bytes of which a part does not parse or is missing: the
\* errors are only printed, and it is the panic that keeps the caller from an
\* envelope without what was lost.
OnlyWholeIsRead ==
    pc = "done" /\ format # "specialK" =>
        /\ version = 1 /\ Len(stream) >= 1
        /\ \A j \in DOMAIN stream :
              /\ stream[j].data # Short
              /\ stream[j].type \in {"tx", "proof", "mapi"} => stream[j].data # Garbled

\* Serialising and parsing end, flakes of types the parser does not know and
\* those that do not parse included.
Termination == <>(pc \in {"done", "error", "panic"})

=============================================================================

---------------------------- MODULE PaymentVerifier ----------------------------
(***************************************************************************)
(* verifier.VerifyPayment, with parseAncestry and the verify options: the  *)
(* verifier is built once, and any number of goroutines call it, each with *)
(* options of its own.                                                     *)
(*                                                                         *)
(* A transaction is one way of writing it: a name of Txs stands for some   *)
(* bytes that parse as a transaction and for their hash, which an input    *)
(* can name.  TxID is the name of the same transaction as the library      *)
(* writes it, whose hash is its id; bytes in the extended format, or with  *)
(* lengths longer than they have to be, hash to something else.            *)
(*                                                                         *)
(* A proof is a record: tx, the id in it; targetType, "block" when it has  *)
(* to be looked up in the header chain; and answer, what VerifyMerkleProof *)
(* makes of it: "truncated" (it is indexed beyond its end), "malformed"    *)
(* (it does not parse, and there is no response), "error" (a response and  *)
(* an error), "invalid", "valid".  A panic ends the call it happens in.    *)
(***************************************************************************)
EXTENDS Integers, Sequences, FiniteSets

CONSTANTS
    Txs,         \* transactions, each written in some way
    TxID,        \* the same transaction, as it is written for its id
    Inputs,      \* the outputs each spends: a sequence of [tx, vout]
    Outputs,     \* the satoshis of each of its outputs
    Word,        \* satoshis are added up modulo this: 2^64
    Malformed,   \* the contents of a chunk that does not parse
    Overrun,     \* those of callbacks one of which ends beyond their chunk
    NoProof,     \* the proof of an ancestor that came without one
    HeaderChains,\* whether the verifier is built with a header chain or nil
    Callers,     \* the goroutines that may call the verifier
    Workloads    \* [ctor, calls]: the options of the verifier, and the payment
                 \* and the options of the calls, one by each of some callers;
                 \* a payment is [tx, version, chunks, short], version 0 for
                 \* no bytes; when it is short its last chunk states a length
                 \* beyond their end, and is given with what it then holds

ASSUME PaymentAssumption ==
    /\ \A t \in Txs : Inputs[t] \in Seq([tx : Txs, vout : Nat])
    /\ Word \in Nat \ {0}
    /\ \A t \in Txs : Outputs[t] \in Seq(0..(Word - 1))
    /\ \A t \in Txs : /\ TxID[t] \in Txs /\ TxID[TxID[t]] = TxID[t]
                      /\ Inputs[TxID[t]] = Inputs[t]
                      /\ Outputs[TxID[t]] = Outputs[t]
    /\ {Malformed, Overrun} \cap Txs = {}
    /\ \A w \in Workloads :
          /\ DOMAIN w.calls \subseteq Callers
          /\ \A g \in DOMAIN w.calls :
                LET pay == w.calls[g].payment IN
                /\ pay.tx \in Txs /\ TxID[pay.tx] = pay.tx
                /\ Len(pay.chunks) \in Nat

VARIABLES
    ctor,      \* the options NewPaymentVerifier was called with
    opts,      \* v.opts
    hasChain,  \* v.bhc # nil
    built,     \* whether NewPaymentVerifier has returned, and with what
    pc,        \* what each caller is doing
    payment,   \* what it asks
    given,     \* the options of its call
    o,         \* the options the call goes by
    pos,       \* the chunk it parses next
    txid,      \* the transaction parsed last
    aa,        \* the ancestry parsed so far: proof by transaction
    todo       \* the ancestors its last loop has not come to yet

vars == <<ctor, opts, hasChain, built, pc, payment, given, o, pos, txid, aa,
          todo>>

verifier == <<ctor, opts, hasChain, built>>
request  == <<payment, given>>

-----------------------------------------------------------------------------
(* Options *)

\* No quote; one that lacks a type of fee; one of so much for zero bytes.
NoQuote == -1
NoFee   == -2
NoBytes == -3

Defaults == [proofs |-> TRUE, fees |-> FALSE, script |-> TRUE,
             feeQuote |-> NoQuote]

\* One functional option; fees is the satoshis the quote asks of the payment.
Apply(opt, op) ==
    CASE op.opt = "VerifyProofs"   -> [opt EXCEPT !.proofs = TRUE]
      [] op.opt = "NoVerifyProofs" -> [opt EXCEPT !.proofs = FALSE]
      [] op.opt = "VerifyFees"     -> [opt EXCEPT !.fees = TRUE,
                                                  !.feeQuote = op.quote]
      [] op.opt = "NoVerifyFees"   -> [opt EXCEPT !.fees = FALSE,
                                                  !.feeQuote = NoQuote]
      [] op.opt = "VerifyScript"   -> [opt EXCEPT !.script = TRUE]
      [] op.opt = "NoVerifyScript" -> [opt EXCEPT !.script = FALSE]
      [] op.opt = "NoVerifySPV"    -> [opt EXCEPT !.proofs = FALSE,
                                                  !.script = FALSE]
      [] op.opt = "VerifySPV"      -> [opt EXCEPT !.proofs = TRUE,
                                                  !.script = TRUE]

\* The options in the order they are given.
ApplyAll(opt, list) ==
    LET f[j \in 0..Len(list)] ==
          IF j = 0 THEN opt ELSE Apply(f[j - 1], list[j])
    IN  f[Len(list)]

Init ==
    /\ \E w \in Workloads :
          /\ ctor = w.ctor
          /\ payment = [g \in DOMAIN w.calls |-> w.calls[g].payment]
          /\ given = [g \in DOMAIN w.calls |-> w.calls[g].opts]
    /\ opts = Defaults
    /\ hasChain \in HeaderChains
    /\ built = "no"
    /\ pc = [g \in DOMAIN payment |-> "idle"]
    /\ o = [g \in DOMAIN payment |-> Defaults]
    /\ pos = [g \in DOMAIN payment |-> 1]
    /\ txid = [g \in DOMAIN payment |-> Malformed]
    /\ aa = [g \in DOMAIN payment |-> <<>>]
    /\ todo = [g \in DOMAIN payment |-> {}]

\* The constructor refuses a nil header chain when proofs are to be verified.
NewPaymentVerifier ==
    /\ built = "no"
    /\ opts' = ApplyAll(Defaults, ctor)
    /\ built' = IF opts'.proofs /\ ~ hasChain THEN "error" ELSE "yes"
    /\ UNCHANGED <<ctor, hasChain, pc, request, o, pos, txid, aa, todo>>

-----------------------------------------------------------------------------
(* VerifyPayment, as far as parseAncestry *)

Goto(g, step) == pc' = [pc EXCEPT ![g] = step]

\* Mutant: the call changes the verifier's options instead of a copy.
VerifyPaymentInPlace(g) ==
    /\ built = "yes"
    /\ pc[g] = "idle"
    /\ opts' = ApplyAll(opts, given[g])
    /\ o' = [o EXCEPT ![g] = opts']
    /\ Goto(g, "header")
    /\ UNCHANGED <<ctor, hasChain, built, request, pos, txid, aa, todo>>

\* The call works on a copy of the verifier's options.  The guard compares
\* the verifier, not its header chain, with nil, and is never true here.
VerifyPayment(g) ==
    /\ built = "yes"
    /\ pc[g] = "idle"
    /\ o' = [o EXCEPT ![g] = ApplyAll(opts, given[g])]
    /\ Goto(g, "header")
    /\ UNCHANGED <<verifier, request, pos, txid, aa, todo>>

Chunks(g) == payment[g].chunks

\* Mutant: the first chunk may be anything.
AnyFirst(g)  == TRUE
FirstIsTx(g) == Chunks(g)[1].type = "tx"

\* The version, and the first chunk, which has to be a transaction.
parseAncestry(g) ==
    /\ pc[g] = "header"
    /\ Goto(g, IF payment[g].version = 0 THEN "rangePanic"
               ELSE IF payment[g].version # 1 THEN "ErrUnsupporredVersion"
               ELSE IF Chunks(g) = <<>> THEN "ErrCannotCalculateFeePaid"
               ELSE IF ~ FirstIsTx(g) THEN "ErrTipTxConfirmed"
               ELSE "parse")
    /\ UNCHANGED <<verifier, request, o, pos, txid, aa, todo>>

\* Mutant: the map is made anew.
Only(f, t, proof) == [u \in {t} |-> proof]
With(f, t, proof) ==
    [u \in DOMAIN f \cup {t} |-> IF u = t THEN proof ELSE f[u]]

\* Every chunk is stepped over before its type is looked at.
\* Mutant: one of an unknown type is not.
StepUnlessOther(g) ==
    IF Chunks(g)[pos[g]].type = "other" THEN pos[g] ELSE pos[g] + 1
Step(g) == pos[g] + 1

Short(g) == payment[g].short /\ pos[g] = Len(Chunks(g))

\* One chunk.  A transaction is filed under the hash of its bytes.  A proof is
\* kept unparsed with the transaction before it, in the place of an earlier one;
\* a transaction sent again loses its proof.  A slice that ends beyond the bytes
\* panics, unless their array has room to spare: it holds whatever is there.
\* One of callbacks that ends beyond their chunk may hold what comes after it.
parseChunk(g) ==
    /\ pc[g] = "parse"
    /\ pos[g] <= Len(Chunks(g))
    /\ LET chunk == Chunks(g)[pos[g]] IN
       \/ /\ Short(g) \/ (chunk.type = "mapi" /\ chunk.data = Overrun)
          /\ Goto(g, "rangePanic")
          /\ UNCHANGED <<pos, txid, aa>>
       \/ /\ \/ chunk.type = "tx" /\ chunk.data \notin Txs
             \/ chunk.type = "mapi" /\ chunk.data \in {Malformed, Overrun}
          /\ Goto(g, "ErrParse")
          /\ UNCHANGED <<pos, txid, aa>>
       \/ /\ chunk.type = "tx"
          /\ chunk.data \in Txs
          /\ Inputs[chunk.data] = <<>>
          /\ Goto(g, "ErrNoTxInputsToVerify")
          /\ UNCHANGED <<pos, txid, aa>>
       \/ /\ chunk.type = "tx"
          /\ chunk.data \in Txs
          /\ Inputs[chunk.data] # <<>>
          /\ txid' = [txid EXCEPT ![g] = chunk.data]
          /\ aa' = [aa EXCEPT ![g] = With(@, chunk.data, NoProof)]
          /\ pos' = [pos EXCEPT ![g] = Step(g)]
          /\ UNCHANGED pc
       \/ /\ chunk.type = "proof"
          /\ aa' = [aa EXCEPT ![g][txid[g]] = chunk.data]
          /\ pos' = [pos EXCEPT ![g] = Step(g)]
          /\ UNCHANGED <<pc, txid>>
       \/ /\ \/ chunk.type = "mapi" /\ chunk.data # Malformed
             \/ chunk.type = "other"
          /\ pos' = [pos EXCEPT ![g] = Step(g)]
          /\ UNCHANGED <<pc, txid, aa>>
    /\ UNCHANGED <<verifier, request, o, todo>>

\* Mutant: the verifier's option is read, not the call's.
GlobalFees(g) == opts.fees
FeesOn(g)     == o[g].fees

\* The payment joins its ancestry under its id, without a proof.
parseReturn(g) ==
    /\ pc[g] = "parse"
    /\ pos[g] > Len(Chunks(g))
    /\ aa' = [aa EXCEPT ![g] = With(@, payment[g].tx, NoProof)]
    /\ todo' = [todo EXCEPT ![g] = DOMAIN aa'[g]]
    /\ Goto(g, IF FeesOn(g) THEN "fees" ELSE "ancestors")
    /\ UNCHANGED <<verifier, request, o, pos, txid>>

-----------------------------------------------------------------------------
(* The checks *)

\* An output is out of bounds when its transaction has no such output.
InBounds(in) == in.vout < Len(Outputs[in.tx])
Satoshis(in) == Outputs[in.tx][in.vout + 1]

Sum(s) == LET f[j \in 0..Len(s)] == IF j = 0 THEN 0 ELSE f[j - 1] + s[j]
          IN  f[Len(s)]
Spent(t) == Sum([j \in DOMAIN Inputs[t] |-> Satoshis(Inputs[t][j])])
Paid(t)  == Sum(Outputs[t])

\* For a quote that asks for so many satoshis at the size of the transaction.
\* Both sums are those of unsigned words, and wrap.
IsFeePaidEnough(t, quote) ==
    LET in  == Spent(t) % Word
        out == Paid(t) % Word
    IN  in >= out /\ in - out >= quote

\* The loop over the payment's inputs stops at the first that is missing.
FeesResult(g) ==
    LET t == payment[g].tx
        fails == {j \in DOMAIN Inputs[t] : \/ Inputs[t][j].tx \notin DOMAIN aa[g]
                                           \/ ~ InBounds(Inputs[t][j])}
        first == CHOOSE j \in fails : \A m \in fails : j <= m
    IN  IF o[g].feeQuote = NoQuote THEN "ErrNoFeeQuoteSupplied"
        ELSE IF fails # {}
          THEN IF Inputs[t][first].tx \notin DOMAIN aa[g]
                 THEN "ErrNoFeeQuoteSupplied" ELSE "ErrMissingOutput"
        ELSE IF o[g].feeQuote = NoFee THEN "ErrFeeTypeNotFound"
        ELSE IF o[g].feeQuote = NoBytes THEN "dividePanic"
        ELSE IF ~ IsFeePaidEnough(t, o[g].feeQuote) THEN "ErrFeePaidNotEnough"
        ELSE "ancestors"

VerifyFees(g) ==
    /\ pc[g] = "fees"
    /\ Goto(g, FeesResult(g))
    /\ UNCHANGED <<verifier, request, o, pos, txid, aa, todo>>

\* inputsToCheck has one input of each parent: the last.
inputsToCheck(t) ==
    {Inputs[t][j] : j \in {k \in DOMAIN Inputs[t] :
        \A m \in DOMAIN Inputs[t] : Inputs[t][m].tx = Inputs[t][k].tx => m <= k}}

\* The proof has to be of the id of the transaction parsed, which need not be
\* what its bytes hash to.
\* Mutant: a proof of any transaction will do.
NeverMismatch(proof, t) == FALSE
Mismatch(proof, t)      == proof.tx # TxID[t]

\* What comes of the proofs option for ancestor t: of a proof that looks a
\* block up when the header chain is nil, a nil pointer dereference.
ProofResult(g, t) ==
    LET proof == aa[g][t] IN
    IF ~ o[g].proofs THEN "ok"
    ELSE IF proof = NoProof
      THEN IF \E in \in inputsToCheck(t) : in.tx \notin DOMAIN aa[g]
             THEN "ErrProofOrInputMissing" ELSE "ok"
    ELSE IF proof.answer = "truncated" THEN "rangePanic"
    ELSE IF proof.answer = "malformed" THEN "ErrInvalidProof"
    ELSE IF proof.targetType = "block" /\ ~ hasChain THEN "nilPanic"
    ELSE IF Mismatch(proof, t) THEN "ErrTxIDMismatch"
    ELSE IF proof.answer # "valid" THEN "ErrInvalidProof"
    ELSE "ok"

\* What comes of the script option: the scripts themselves always verify.
ScriptResult(g, t) ==
    IF ~ o[g].script THEN "ok"
    ELSE IF \E in \in inputsToCheck(t) : in.tx \in DOMAIN aa[g] /\ ~ InBounds(in)
      THEN "ErrInputRefsOutOfBoundsOutput"
    ELSE "ok"

\* One pass of the loop over the ancestry, which Go orders at random.
VerifyAncestor(g) ==
    /\ pc[g] = "ancestors"
    /\ \E t \in todo[g] :
          LET result == IF Inputs[t] = <<>> THEN "ErrNoTxInputsToVerify"
                        ELSE IF ProofResult(g, t) # "ok" THEN ProofResult(g, t)
                        ELSE ScriptResult(g, t)
          IN  /\ todo' = [todo EXCEPT ![g] = @ \ {t}]
              /\ IF result = "ok" THEN UNCHANGED pc ELSE Goto(g, result)
    /\ UNCHANGED <<verifier, request, o, pos, txid, aa>>

Return(g) ==
    /\ pc[g] = "ancestors"
    /\ todo[g] = {}
    /\ Goto(g, "accepted")
    /\ UNCHANGED <<verifier, request, o, pos, txid, aa, todo>>

Call(g) == \/ VerifyPayment(g) \/ parseAncestry(g) \/ parseChunk(g)
           \/ parseReturn(g) \/ VerifyFees(g) \/ VerifyAncestor(g) \/ Return(g)

Calling == DOMAIN payment

Next == NewPaymentVerifier \/ \E g \in Calling : Call(g)

\* Every goroutine that calls the verifier runs.
Spec == /\ Init /\ [][Next]_vars
        /\ WF_vars(NewPaymentVerifier)
        /\ \A g \in Callers : WF_vars(g \in Calling /\ Call(g))

-----------------------------------------------------------------------------
(* Properties *)

Running == {"idle", "header", "parse", "fees", "ancestors"}
Errors == {"ErrUnsupporredVersion", "ErrCannotCalculateFeePaid",
           "ErrTipTxConfirmed", "ErrParse", "ErrNoTxInputsToVerify",
           "ErrNoFeeQuoteSupplied", "ErrMissingOutput", "ErrFeeTypeNotFound",
           "ErrFeePaidNotEnough",
           "ErrProofOrInputMissing", "ErrInvalidProof", "ErrTxIDMismatch",
           "ErrInputRefsOutOfBoundsOutput"}

Panics == {"nilPanic", "rangePanic", "dividePanic"}

Accepted(g) == pc[g] = "accepted"

\* What the caller asked for: the defaults, changed by the options of the
\* constructor and then by those of this call alone.
Asked(g) == ApplyAll(ApplyAll(Defaults, ctor), given[g])

\* Every variable has its type, and a proof or a callback is never attached
\* to the nil entry parseAncestry's map has for a transaction not yet seen.
TypeOK ==
    /\ built \in {"no", "yes", "error"}
    /\ \A g \in Calling :
          /\ pc[g] \in Running \cup Errors \cup {"accepted"} \cup Panics
          /\ pos[g] \in 1..(Len(Chunks(g)) + 1)
          /\ DOMAIN aa[g] \subseteq Txs
          /\ todo[g] \subseteq DOMAIN aa[g]
          /\ /\ pc[g] = "parse" /\ pos[g] <= Len(Chunks(g))
             /\ Chunks(g)[pos[g]].type \in {"proof", "mapi"}
             => txid[g] \in DOMAIN aa[g]

\* The transactions of the ancestry sent, by the hashes of the bytes sent, and
\* those of which a proof is sent that VerifyMerkleProof accepts.
Sent(g) == {Chunks(g)[j].data : j \in {m \in 1..Len(Chunks(g)) :
                                         Chunks(g)[m].type = "tx"}}
Proven(g) ==
    {t \in Sent(g) : \E j \in 2..Len(Chunks(g)) :
                        /\ Chunks(g)[j].type = "proof"
                        /\ Chunks(g)[j].data.tx = TxID[t]
                        /\ Chunks(g)[j].data.answer = "valid"}

\* A payment is accepted, by a call asked to verify proofs, only when every
\* chain of spends that leads back from it, each input naming the hash of bytes
\* that were sent, ends at bytes whose transaction has a valid proof of its id
\* among those sent: no ancestor on the way is missing.  What another call was
\* asked does not weaken that.  (That bytes hash to the id of
\* their transaction is not checked.)
AnchoredAncestry ==
    \A g \in Calling :
        Accepted(g) /\ Asked(g).proofs =>
            \E S \in SUBSET Sent(g) :
                \A t \in (S \ Proven(g)) \cup {payment[g].tx} :
                    \A j \in DOMAIN Inputs[t] : Inputs[t][j].tx \in S

\* A payment is accepted, by a call asked to verify fees, only when all the
\* outputs it spends were sent and pay, in the arithmetic of words, the quote
\* of that very call.
FeesCovered ==
    \A g \in Calling :
        Accepted(g) /\ Asked(g).fees =>
            LET t == payment[g].tx IN
            /\ \A j \in DOMAIN Inputs[t] :
                  Inputs[t][j].tx \in Sent(g) \cup {t} /\ InBounds(Inputs[t][j])
            /\ Asked(g).feeQuote \notin {NoQuote, NoFee, NoBytes}
            /\ IsFeePaidEnough(t, Asked(g).feeQuote)

\* The checks a caller switched off do not refuse its payment: what another
\* call asked for does not leak into this one.
OptionsIsolated ==
    \A g \in Calling :
        /\ pc[g] \in {"ErrInvalidProof", "ErrTxIDMismatch",
                      "ErrProofOrInputMissing"} => Asked(g).proofs
        /\ pc[g] \in {"ErrNoFeeQuoteSupplied", "ErrMissingOutput",
                      "ErrFeeTypeNotFound", "ErrFeePaidNotEnough",
                      "dividePanic"} => Asked(g).fees
        /\ pc[g] = "ErrInputRefsOutOfBoundsOutput" => Asked(g).script

\* A payment with all its ancestors: its chunks parse; every proof is a valid
\* one of the transaction it comes after; each transaction sent without a
\* proof, and the payment, spends from transactions that were sent; and the
\* outputs spent exist.
TxChunks(cs)      == {j \in 1..Len(cs) : cs[j].type = "tx"}
Follows(cs, m, j) == j < m /\ \A x \in TxChunks(cs) : x <= j \/ x > m
OwnProof(proof, t) ==
    proof # NoProof /\ proof.tx = TxID[t] /\ proof.answer = "valid"

Ancestry(pay) == {pay.chunks[j].data : j \in TxChunks(pay.chunks)} \cup {pay.tx}
SpendsFrom(t, S) == \A i \in DOMAIN Inputs[t] : Inputs[t][i].tx \in S

Honest(pay) ==
    LET cs == pay.chunks IN
    /\ pay.version = 1 /\ ~ pay.short
    /\ cs # <<>> /\ cs[1].type = "tx"
    /\ \A j \in 1..Len(cs) :
          /\ cs[j].type \in {"tx", "proof", "mapi", "other"}
          /\ cs[j].type = "mapi" => cs[j].data \notin {Malformed, Overrun}
          /\ cs[j].type = "tx" => cs[j].data \in Txs
    /\ \A t \in Ancestry(pay) :
          /\ Inputs[t] # <<>>
          /\ \A i \in DOMAIN Inputs[t] :
                Inputs[t][i].tx \in Ancestry(pay) => InBounds(Inputs[t][i])
    /\ \A j \in TxChunks(cs) :
          LET proofs == {m \in 1..Len(cs) : cs[m].type = "proof" /\ Follows(cs, m, j)}
          IN  /\ \A m \in proofs : OwnProof(cs[m].data, cs[j].data)
              /\ proofs = {} => SpendsFrom(cs[j].data, Ancestry(pay))
    /\ SpendsFrom(pay.tx, Ancestry(pay))

\* Such a payment is refused for nothing but its fees, and only by a call
\* that asks for them, in whatever order its ancestors were sent, whatever
\* callbacks and unknown chunks lie between them, and in whatever order Go
\* ranges over the map; no slice ends beyond the bytes, and a panic needs a
\* verifier without a header chain that is asked for proofs all the same, or a
\* quote for zero bytes.
HonestIsAccepted ==
    \A g \in Calling : Honest(payment[g]) =>
        /\ pc[g] \in Errors =>
              /\ Asked(g).fees
              /\ \/ Asked(g).feeQuote \in {NoQuote, NoFee}
                 \/ ~ IsFeePaidEnough(payment[g].tx, Asked(g).feeQuote)
        /\ pc[g] # "rangePanic"
        /\ pc[g] = "nilPanic" => Asked(g).proofs /\ ~ hasChain
        /\ pc[g] = "dividePanic" => Asked(g).fees /\ Asked(g).feeQuote = NoBytes

\* Every call on a verifier returns, or panics.
Termination ==
    built = "yes" ~> \A g \in Calling : pc[g] \notin Running

-----------------------------------------------------------------------------
(* What the documentation says *)

\* "Merkle Proof Verifier is required when proofs is set": a call that asks
\* for proofs of a verifier without a header chain gets that error.
ProofsNeedChain == \A g \in Calling : pc[g] # "nilPanic"

\* The test "tx with input indexing out of bounds output errors".
SpendsAreInBounds ==
    \A g \in Calling :
        Accepted(g) /\ Asked(g).script =>
            \A t \in Sent(g) \cup {payment[g].tx} : \A j \in DOMAIN Inputs[t] :
                Inputs[t][j].tx \in Sent(g) \cup {payment[g].tx}
                  => InBounds(Inputs[t][j])

=============================================================================

---------------------------- MODULE PaymentProofs ----------------------------
(***************************************************************************)
(* Theorems about PaymentVerifier, for any transactions, any payments and  *)
(* any number of callers with any options; and, in the second half, about  *)
(* PaymentFlow: whatever the stores hold, what the creator makes of it     *)
(* arrives at the verifier as it was made.                                 *)
(***************************************************************************)
EXTENDS PaymentFlow, FiniteSetTheorems, SequenceTheorems, WellFoundedInduction, TLAPS

-----------------------------------------------------------------------------
(* The inductive invariant *)

Checking == {"fees", "ancestors", "accepted"}

\* A call goes by what its caller asked for, whatever the others do.
OptionsInv(g) ==
    /\ built # "yes" => pc[g] = "idle"
    /\ pc[g] # "idle" => o[g] = Asked(g)
    /\ pc[g] = "fees" => Asked(g).fees

\* Where the parser stands.
ParserInv(g) ==
    /\ payment[g].tx \in Txs /\ Len(Chunks(g)) \in Nat
    /\ pos[g] \in 1..(Len(Chunks(g)) + 1)
    /\ pc[g] \in {"idle", "header"} => aa[g] = <<>> /\ pos[g] = 1 /\ todo[g] = {}
    /\ pc[g] = "parse" => Chunks(g) # <<>> /\ FirstIsTx(g) /\ todo[g] = {}
    /\ pc[g] = "parse" /\ pos[g] # 1 => txid[g] \in DOMAIN aa[g]

\* Every ancestor was sent, or is the payment, with a proof that was sent.
ProofSent(g, proof) ==
    \E j \in 2..Len(Chunks(g)) : /\ Chunks(g)[j].type = "proof"
                                 /\ Chunks(g)[j].data = proof
AncestryInv(g) ==
    /\ DOMAIN aa[g] \subseteq Txs \cap (Sent(g) \cup {payment[g].tx})
    /\ todo[g] \subseteq DOMAIN aa[g]
    /\ \A t \in DOMAIN aa[g] :
          aa[g][t] = NoProof \/ ProofSent(g, aa[g][t])
    /\ pc[g] \in Checking => /\ payment[g].tx \in DOMAIN aa[g]
                             /\ aa[g][payment[g].tx] = NoProof

\* The ancestors the last loop has come to passed, and so did the fees.
ChecksInv(g) ==
    /\ pc[g] \in {"ancestors", "accepted"} =>
          \A t \in DOMAIN aa[g] \ todo[g] : ProofResult(g, t) = "ok"
    /\ pc[g] = "fees" => todo[g] = DOMAIN aa[g]
    /\ pc[g] = "accepted" => todo[g] = {}
    /\ pc[g] \in {"ancestors", "accepted"} /\ Asked(g).fees =>
          FeesResult(g) = "ancestors"

CallInv(g) ==
    /\ pc[g] \in Running \cup Errors \cup {"accepted"} \cup Panics
    /\ OptionsInv(g) /\ ParserInv(g) /\ AncestryInv(g) /\ ChecksInv(g)

Domains ==
    /\ DOMAIN pc = Calling /\ DOMAIN o = Calling /\ DOMAIN pos = Calling
    /\ DOMAIN txid = Calling /\ DOMAIN aa = Calling /\ DOMAIN todo = Calling

IInv ==
    /\ built \in {"no", "yes", "error"}
    /\ opts = IF built = "no" THEN Defaults ELSE ApplyAll(Defaults, ctor)
    /\ Domains
    /\ \A g \in Calling : CallInv(g)
    /\ OptionsIsolated

-----------------------------------------------------------------------------

\* The state Init describes satisfies the invariant.
LEMMA InitIInv == Init => IInv
<1> SUFFICES ASSUME Init PROVE IInv
  OBVIOUS
<1>1. Domains
  BY DEF Init, Domains, Calling
<1>2. ASSUME NEW g \in Calling PROVE CallInv(g)
  <2>1. PICK w \in Workloads :
           /\ payment = [h \in DOMAIN w.calls |-> w.calls[h].payment]
           /\ given = [h \in DOMAIN w.calls |-> w.calls[h].opts]
    BY DEF Init
  <2>2. payment[g].tx \in Txs /\ Len(Chunks(g)) \in Nat
    BY <1>2, <2>1, PaymentAssumption DEF Calling, Chunks
  <2>3. /\ pc[g] = "idle" /\ pos[g] = 1 /\ aa[g] = <<>> /\ todo[g] = {}
        /\ DOMAIN aa[g] = {}
    BY <1>2 DEF Init, Calling
  <2>4. OptionsInv(g)
    BY <2>3 DEF OptionsInv
  <2>5. ParserInv(g)
    BY <2>2, <2>3 DEF ParserInv
  <2>6. AncestryInv(g)
    BY <2>3 DEF AncestryInv, Checking
  <2>7. ChecksInv(g)
    BY <2>3 DEF ChecksInv
  <2> QED
    BY <2>3, <2>4, <2>5, <2>6, <2>7 DEF CallInv, Running
<1>3. OptionsIsolated
  BY DEF Init, OptionsIsolated, Calling
<1> QED
  BY <1>1, <1>2, <1>3 DEF Init, IInv

-----------------------------------------------------------------------------
(* Steps of one call leave the others alone *)

\* All that the invariant says of a call h is unchanged.
Same(h) ==
    /\ pc'[h] = pc[h] /\ o'[h] = o[h] /\ pos'[h] = pos[h]
    /\ txid'[h] = txid[h] /\ aa'[h] = aa[h] /\ todo'[h] = todo[h]

\* A call that is not affected keeps its part of the invariant.
LEMMA SameCallInv ==
    ASSUME NEW h, CallInv(h), Same(h), built = "yes", UNCHANGED <<verifier, request>>
    PROVE  CallInv(h)'
<1>1. /\ Chunks(h)' = Chunks(h) /\ Asked(h)' = Asked(h) /\ Sent(h)' = Sent(h)
      /\ built' = built /\ payment'[h] = payment[h] /\ hasChain' = hasChain
  BY DEF Chunks, Asked, Sent, verifier, request
<1>2. OptionsInv(h)'
  BY <1>1 DEF CallInv, OptionsInv, Same
<1>3. ParserInv(h)'
  BY <1>1 DEF CallInv, ParserInv, FirstIsTx, Same
<1>4. AncestryInv(h)'
  BY <1>1 DEF CallInv, AncestryInv, ProofSent, Same
<1>5. ChecksInv(h)'
  <2>1. \A t : ProofResult(h, t)' = ProofResult(h, t)
    BY <1>1 DEF ProofResult, Same, inputsToCheck, Mismatch
  <2>2. FeesResult(h)' = FeesResult(h)
    BY <1>1 DEF FeesResult, Same, InBounds, IsFeePaidEnough, Spent, Paid, Satoshis
  <2> QED
    BY <1>1, <2>1, <2>2 DEF CallInv, ChecksInv, Same
<1> QED
  BY <1>2, <1>3, <1>4, <1>5 DEF CallInv, Same

\* A step of g changes the state of g alone.
LEMMA OthersAreSame ==
    ASSUME Domains, NEW g \in Calling, Call(g)
    PROVE  /\ built = "yes" \/ pc[g] # "idle"
           /\ Domains'
           /\ UNCHANGED <<verifier, request>>
           /\ \A h \in Calling \ {g} : Same(h)
<1>1. CASE VerifyPayment(g)
  BY <1>1 DEF VerifyPayment, Domains, Calling, Same, Goto, verifier, request
<1>2. CASE parseAncestry(g)
  BY <1>2 DEF parseAncestry, Domains, Calling, Same, Goto, verifier, request
<1>3. CASE parseChunk(g)
  BY <1>3 DEF parseChunk, Domains, Calling, Same, Goto, verifier, request
<1>4. CASE parseReturn(g)
  BY <1>4 DEF parseReturn, Domains, Calling, Same, Goto, verifier, request
<1>5. CASE VerifyFees(g)
  BY <1>5 DEF VerifyFees, Domains, Calling, Same, Goto, verifier, request
<1>6. CASE VerifyAncestor(g)
  <2>1. /\ UNCHANGED <<verifier, request, o, pos, txid, aa>> /\ pc[g] # "idle"
        /\ \E t \in todo[g] : todo' = [todo EXCEPT ![g] = @ \ {t}]
        /\ UNCHANGED pc \/ \E r : pc' = [pc EXCEPT ![g] = r]
    BY <1>6 DEF VerifyAncestor, Goto
  <2> QED
    BY <2>1 DEF Domains, Calling, Same, verifier, request
<1>7. CASE Return(g)
  BY <1>7 DEF Return, Domains, Calling, Same, Goto, verifier, request
<1> QED
  BY <1>1, <1>2, <1>3, <1>4, <1>5, <1>6, <1>7 DEF Call

-----------------------------------------------------------------------------
(* What a step of g does to g *)

\* The part of OptionsIsolated that is about g.
Isolated(g) ==
    /\ pc[g] \in {"ErrInvalidProof", "ErrTxIDMismatch",
                  "ErrProofOrInputMissing"} => Asked(g).proofs
    /\ pc[g] \in {"ErrNoFeeQuoteSupplied", "ErrMissingOutput",
                  "ErrFeeTypeNotFound", "ErrFeePaidNotEnough",
                  "dividePanic"} => Asked(g).fees
    /\ pc[g] = "ErrInputRefsOutOfBoundsOutput" => Asked(g).script

\* No step of a call changes what it was asked, or what it was sent.
LEMMA Fixed ==
    ASSUME NEW g, UNCHANGED <<verifier, request>>
    PROVE  /\ Chunks(g)' = Chunks(g) /\ Asked(g)' = Asked(g) /\ Sent(g)' = Sent(g)
           /\ built' = built /\ payment'[g] = payment[g] /\ hasChain' = hasChain
           /\ FirstIsTx(g)' = FirstIsTx(g)
           /\ \A proof : ProofSent(g, proof)' = ProofSent(g, proof)
BY DEF Chunks, Asked, Sent, verifier, request, FirstIsTx, ProofSent

\* The call takes over the verifier's options and adds its own.
LEMMA VerifyPaymentStep ==
    ASSUME IInv, NEW g \in Calling, VerifyPayment(g)
    PROVE  CallInv(g)' /\ Isolated(g)'
<1>1. /\ pc'[g] = "header" /\ built = "yes" /\ pc[g] = "idle"
      /\ o'[g] = ApplyAll(opts, given[g])
      /\ pos'[g] = pos[g] /\ aa'[g] = aa[g] /\ todo'[g] = todo[g]
      /\ UNCHANGED <<verifier, request>>
  BY DEF VerifyPayment, Goto, IInv, Domains, verifier, request
<1>2. CallInv(g) /\ opts = ApplyAll(Defaults, ctor)
  BY <1>1 DEF IInv
<1>3. OptionsInv(g)'
  <2>1. o'[g] = Asked(g)
    BY <1>1, <1>2 DEF Asked
  <2> QED
    BY <1>1, <2>1, Fixed DEF OptionsInv
<1>4. ParserInv(g)'
  BY <1>1, <1>2, Fixed DEF CallInv, ParserInv
<1>5. AncestryInv(g)'
  BY <1>1, <1>2, Fixed DEF CallInv, ParserInv, AncestryInv, Checking
<1>6. ChecksInv(g)'
  BY <1>1 DEF ChecksInv
<1> QED
  BY <1>1, <1>3, <1>4, <1>5, <1>6 DEF CallInv, Isolated, Running

\* The version and the first chunk are checked; nothing is parsed yet.
LEMMA ParseAncestryStep ==
    ASSUME IInv, NEW g \in Calling, parseAncestry(g)
    PROVE  CallInv(g)' /\ Isolated(g)'
<1>1. /\ pc[g] = "header"
      /\ pc'[g] \in {"rangePanic", "ErrUnsupporredVersion", "parse",
                     "ErrCannotCalculateFeePaid", "ErrTipTxConfirmed"}
      /\ pc'[g] = "parse" => Chunks(g) # <<>> /\ FirstIsTx(g)
      /\ o'[g] = o[g] /\ pos'[g] = pos[g] /\ aa'[g] = aa[g] /\ todo'[g] = todo[g]
      /\ UNCHANGED <<verifier, request>>
  BY DEF parseAncestry, Goto, IInv, Domains, verifier, request
<1>2. CallInv(g)
  BY DEF IInv
<1>3. OptionsInv(g)'
  BY <1>1, <1>2, Fixed DEF CallInv, OptionsInv
<1>4. ParserInv(g)'
  BY <1>1, <1>2, Fixed DEF CallInv, ParserInv
<1>5. AncestryInv(g)'
  BY <1>1, <1>2, Fixed DEF CallInv, ParserInv, AncestryInv, Checking
<1>6. ChecksInv(g)'
  BY <1>1 DEF ChecksInv
<1> QED
  BY <1>1, <1>3, <1>4, <1>5, <1>6 DEF CallInv, Isolated, Running, Errors, Panics

\* One chunk adds a transaction that was sent, or a proof that was sent, to
\* an ancestry that has the transaction the proof is filed under.
LEMMA ParseChunkStep ==
    ASSUME IInv, NEW g \in Calling, parseChunk(g)
    PROVE  CallInv(g)' /\ Isolated(g)'
<1> DEFINE chunk == Chunks(g)[pos[g]]
<1>1. /\ pc[g] = "parse" /\ o'[g] = o[g] /\ todo'[g] = todo[g]
      /\ UNCHANGED <<verifier, request>>
      /\ pos[g] <= Len(Chunks(g))
  BY DEF parseChunk, IInv, Domains, verifier, request
<1>2. /\ CallInv(g) /\ Len(Chunks(g)) \in Nat /\ payment[g].tx \in Txs
      /\ pos[g] \in 1..Len(Chunks(g)) /\ todo[g] = {}
      /\ Chunks(g) # <<>> /\ FirstIsTx(g)
      /\ pos[g] # 1 => txid[g] \in DOMAIN aa[g]
  BY <1>1 DEF IInv, CallInv, ParserInv
<1>3. \/ /\ pc'[g] \in {"rangePanic", "ErrParse", "ErrNoTxInputsToVerify"}
         /\ pos'[g] = pos[g] /\ txid'[g] = txid[g] /\ aa'[g] = aa[g]
      \/ /\ chunk.type = "tx" /\ chunk.data \in Txs
         /\ pc'[g] = "parse" /\ pos'[g] = pos[g] + 1
         /\ txid'[g] = chunk.data
         /\ aa'[g] = With(aa[g], chunk.data, NoProof)
      \/ /\ chunk.type = "proof"
         /\ pc'[g] = "parse" /\ pos'[g] = pos[g] + 1
         /\ txid'[g] = txid[g]
         /\ aa'[g] = [aa[g] EXCEPT ![txid[g]] =
                                   chunk.data]
      \/ /\ chunk.type \in {"mapi", "other"}
         /\ pc'[g] = "parse" /\ pos'[g] = pos[g] + 1
         /\ txid'[g] = txid[g] /\ aa'[g] = aa[g]
  BY <1>1 DEF parseChunk, Goto, Step, IInv, Domains
<1>4. pos[g] = 1 => chunk.type = "tx"
  BY <1>2 DEF FirstIsTx
<1>5. OptionsInv(g)'
  BY <1>1, <1>2, <1>3, Fixed DEF CallInv, OptionsInv
<1>6. ParserInv(g)'
  <2>1. pos'[g] \in 1..(Len(Chunks(g)) + 1)
    BY <1>2, <1>3
  <2>2. pc'[g] = "parse" => txid'[g] \in DOMAIN aa'[g]
    BY <1>2, <1>3, <1>4 DEF With
  <2>3. pc'[g] \notin {"idle", "header"}
    BY <1>3
  <2> QED
    BY <1>1, <1>2, <2>1, <2>2, <2>3, Fixed DEF ParserInv
<1>7. AncestryInv(g)'
  <2>1. DOMAIN aa'[g] \subseteq Txs \cap (Sent(g) \cup {payment[g].tx})
    <3>1. DOMAIN aa[g] \subseteq Txs \cap (Sent(g) \cup {payment[g].tx})
      BY <1>2 DEF CallInv, AncestryInv
    <3>2. chunk.type = "tx" => chunk.data \in Sent(g)
      BY <1>2 DEF Sent
    <3> QED
      BY <1>3, <3>1, <3>2 DEF With
  <2>2. ASSUME NEW t \in DOMAIN aa'[g]
        PROVE  aa'[g][t] = NoProof \/ ProofSent(g, aa'[g][t])
    <3>1. \A u \in DOMAIN aa[g] :
            aa[g][u] = NoProof \/ ProofSent(g, aa[g][u])
      BY <1>2 DEF CallInv, AncestryInv
    <3>2. chunk.type = "proof" => ProofSent(g, chunk.data)
      <4>1. chunk.type = "proof" => pos[g] \in 2..Len(Chunks(g))
        BY <1>2, <1>4
      <4> QED
        BY <4>1 DEF ProofSent
    <3> QED
      BY <1>3, <2>2, <3>1, <3>2 DEF With
  <2> QED
    BY <1>1, <1>2, <1>3, <2>1, <2>2, Fixed DEF AncestryInv, Checking
<1>8. ChecksInv(g)'
  BY <1>3 DEF ChecksInv
<1> QED
  BY <1>3, <1>5, <1>6, <1>7, <1>8 DEF CallInv, Isolated, Running, Errors, Panics

\* The payment joins its ancestry without a proof, and the checks begin.
LEMMA ParseReturnStep ==
    ASSUME IInv, NEW g \in Calling, parseReturn(g)
    PROVE  CallInv(g)' /\ Isolated(g)'
<1>1. /\ pc[g] = "parse" /\ o'[g] = o[g] /\ pos'[g] = pos[g]
      /\ txid'[g] = txid[g]
      /\ aa'[g] = With(aa[g], payment[g].tx, NoProof)
      /\ todo'[g] = DOMAIN aa'[g]
      /\ pc'[g] = IF o[g].fees THEN "fees" ELSE "ancestors"
      /\ UNCHANGED <<verifier, request>>
  BY DEF parseReturn, FeesOn, Goto, IInv, Domains, verifier, request
<1>2. CallInv(g) /\ o[g] = Asked(g)
  BY <1>1 DEF IInv, CallInv, OptionsInv
<1>3. OptionsInv(g)'
  BY <1>1, <1>2, Fixed DEF CallInv, OptionsInv
<1>4. ParserInv(g)'
  BY <1>1, <1>2, Fixed DEF CallInv, ParserInv
<1>5. AncestryInv(g)'
  BY <1>1, <1>2, Fixed DEF CallInv, AncestryInv, ParserInv, With
<1>6. ChecksInv(g)'
  BY <1>1, <1>2, Fixed DEF ChecksInv
<1> QED
  BY <1>1, <1>3, <1>4, <1>5, <1>6 DEF CallInv, Isolated, Running

\* The checks read nothing a step of the checks changes.
LEMMA SameResults ==
    ASSUME NEW g, UNCHANGED <<verifier, request>>, o'[g] = o[g], aa'[g] = aa[g]
    PROVE  /\ \A t : ProofResult(g, t)' = ProofResult(g, t)
           /\ FeesResult(g)' = FeesResult(g)
<1>1. hasChain' = hasChain /\ payment'[g] = payment[g]
  BY DEF verifier, request
<1>2. \A t : ProofResult(g, t)' = ProofResult(g, t)
  BY <1>1 DEF ProofResult, inputsToCheck, Mismatch
<1>3. FeesResult(g)' = FeesResult(g)
  BY <1>1 DEF FeesResult, InBounds, IsFeePaidEnough, Spent, Paid, Satoshis
<1> QED
  BY <1>2, <1>3

\* The fees are checked by the call's own quote.
LEMMA VerifyFeesStep ==
    ASSUME IInv, NEW g \in Calling, VerifyFees(g)
    PROVE  CallInv(g)' /\ Isolated(g)'
<1>1. /\ pc[g] = "fees" /\ pc'[g] = FeesResult(g)
      /\ o'[g] = o[g] /\ pos'[g] = pos[g] /\ txid'[g] = txid[g]
      /\ aa'[g] = aa[g] /\ todo'[g] = todo[g]
      /\ UNCHANGED <<verifier, request>>
  BY DEF VerifyFees, Goto, IInv, Domains, verifier, request
<1>2. CallInv(g) /\ Asked(g).fees
  BY <1>1 DEF IInv, CallInv, OptionsInv
<1>3. FeesResult(g) \in {"ErrNoFeeQuoteSupplied", "ErrMissingOutput",
                         "ErrFeeTypeNotFound", "dividePanic",
                         "ErrFeePaidNotEnough", "ancestors"}
  BY DEF FeesResult
<1>4. OptionsInv(g)'
  BY <1>1, <1>2, <1>3, Fixed DEF CallInv, OptionsInv
<1>5. ParserInv(g)'
  BY <1>1, <1>2, <1>3, Fixed DEF CallInv, ParserInv
<1>6. AncestryInv(g)'
  BY <1>1, <1>2, <1>3, Fixed DEF CallInv, AncestryInv, Checking
<1>7. ChecksInv(g)'
  BY <1>1, <1>2, <1>3, Fixed, SameResults DEF CallInv, ChecksInv
<1> QED
  BY <1>1, <1>2, <1>3, <1>4, <1>5, <1>6, <1>7, Fixed
     DEF CallInv, Isolated, Running, Errors, Panics

\* What the two checks of one ancestor can come to.
LEMMA Results ==
    ASSUME NEW g, NEW t
    PROVE  /\ ProofResult(g, t) \in {"ok", "ErrProofOrInputMissing", "rangePanic",
                                     "ErrInvalidProof", "nilPanic", "ErrTxIDMismatch"}
           /\ ProofResult(g, t) \in {"ErrInvalidProof", "ErrTxIDMismatch",
                                     "ErrProofOrInputMissing"} => o[g].proofs
           /\ ScriptResult(g, t) \in {"ok", "ErrInputRefsOutOfBoundsOutput"}
           /\ ScriptResult(g, t) = "ErrInputRefsOutOfBoundsOutput" => o[g].script
BY DEF ProofResult, ScriptResult

\* An ancestor that leaves the loop's list has passed, or ends the call.
LEMMA VerifyAncestorStep ==
    ASSUME IInv, NEW g \in Calling, VerifyAncestor(g)
    PROVE  CallInv(g)' /\ Isolated(g)'
<1> DEFINE result(t) == IF Inputs[t] = <<>> THEN "ErrNoTxInputsToVerify"
                        ELSE IF ProofResult(g, t) # "ok" THEN ProofResult(g, t)
                        ELSE ScriptResult(g, t)
<1>1. /\ pc[g] = "ancestors" /\ UNCHANGED <<verifier, request, o, pos, txid, aa>>
      /\ \E t \in todo[g] :
            /\ todo' = [todo EXCEPT ![g] = @ \ {t}]
            /\ IF result(t) = "ok" THEN UNCHANGED pc
                                   ELSE pc' = [pc EXCEPT ![g] = result(t)]
  BY DEF VerifyAncestor, Goto
<1>2. PICK t \in todo[g] : /\ todo' = [todo EXCEPT ![g] = @ \ {t}]
                           /\ IF result(t) = "ok" THEN UNCHANGED pc
                                ELSE pc' = [pc EXCEPT ![g] = result(t)]
  BY <1>1
<1>3. CallInv(g) /\ o[g] = Asked(g) /\ g \in DOMAIN pc /\ g \in DOMAIN todo
  BY <1>1 DEF IInv, CallInv, OptionsInv, Domains
<1>4. /\ todo'[g] = todo[g] \ {t}
      /\ pc'[g] = IF result(t) = "ok" THEN "ancestors" ELSE result(t)
      /\ o'[g] = o[g] /\ pos'[g] = pos[g] /\ txid'[g] = txid[g] /\ aa'[g] = aa[g]
      /\ UNCHANGED <<verifier, request>>
  <2> HIDE DEF result
  <2> QED
    BY <1>1, <1>2, <1>3
<1>5. pc'[g] = "ancestors" => ProofResult(g, t) = "ok"
  BY <1>4, Results
<1>6. pc'[g] \in {"ancestors", "ErrNoTxInputsToVerify", "ErrProofOrInputMissing",
                  "rangePanic", "ErrInvalidProof", "nilPanic", "ErrTxIDMismatch",
                  "ErrInputRefsOutOfBoundsOutput"}
  BY <1>4, Results
<1>7. /\ pc'[g] \in {"ErrInvalidProof", "ErrTxIDMismatch",
                     "ErrProofOrInputMissing"} => Asked(g).proofs
      /\ pc'[g] = "ErrInputRefsOutOfBoundsOutput" => Asked(g).script
  BY <1>3, <1>4, Results
<1> HIDE DEF result
<1>8. OptionsInv(g)'
  BY <1>1, <1>3, <1>4, <1>6, Fixed DEF CallInv, OptionsInv
<1>9. ParserInv(g)'
  BY <1>1, <1>3, <1>4, <1>6, Fixed DEF CallInv, ParserInv
<1>10. AncestryInv(g)'
  BY <1>1, <1>3, <1>4, <1>6, Fixed DEF CallInv, AncestryInv, Checking
<1>11. ChecksInv(g)'
  <2>1. pc'[g] \notin {"fees", "accepted"}
    BY <1>6
  <2>2. pc'[g] = "ancestors" =>
          \A u \in DOMAIN aa[g] \ todo'[g] : ProofResult(g, u) = "ok"
    BY <1>1, <1>3, <1>4, <1>5 DEF CallInv, ChecksInv
  <2>3. pc'[g] = "ancestors" /\ Asked(g).fees => FeesResult(g) = "ancestors"
    BY <1>1, <1>3 DEF CallInv, ChecksInv
  <2> QED
    BY <1>4, <2>1, <2>2, <2>3, Fixed, SameResults DEF ChecksInv
<1> QED
  BY <1>4, <1>6, <1>7, <1>8, <1>9, <1>10, <1>11, Fixed
     DEF CallInv, Isolated, Running, Errors, Panics

\* A payment is accepted when no ancestor is left to check.
LEMMA ReturnStep ==
    ASSUME IInv, NEW g \in Calling, Return(g)
    PROVE  CallInv(g)' /\ Isolated(g)'
<1>1. /\ pc[g] = "ancestors" /\ todo[g] = {} /\ pc'[g] = "accepted"
      /\ o'[g] = o[g] /\ pos'[g] = pos[g] /\ txid'[g] = txid[g]
      /\ aa'[g] = aa[g] /\ todo'[g] = todo[g]
      /\ UNCHANGED <<verifier, request>>
  BY DEF Return, Goto, IInv, Domains, verifier, request
<1>2. CallInv(g)
  BY DEF IInv
<1>3. OptionsInv(g)'
  BY <1>1, <1>2, Fixed DEF CallInv, OptionsInv
<1>4. ParserInv(g)'
  BY <1>1, <1>2, Fixed DEF CallInv, ParserInv
<1>5. AncestryInv(g)'
  BY <1>1, <1>2, Fixed DEF CallInv, AncestryInv, Checking
<1>6. ChecksInv(g)'
  BY <1>1, <1>2, Fixed, SameResults DEF CallInv, ChecksInv
<1> QED
  BY <1>1, <1>3, <1>4, <1>5, <1>6 DEF CallInv, Isolated

-----------------------------------------------------------------------------
(* The invariant *)

\* A step of a call preserves the invariant.
LEMMA CallStep ==
    ASSUME IInv, NEW g \in Calling, Call(g)
    PROVE  IInv'
<1>1. CallInv(g)' /\ Isolated(g)'
  BY VerifyPaymentStep, ParseAncestryStep, ParseChunkStep, ParseReturnStep,
     VerifyFeesStep, VerifyAncestorStep, ReturnStep DEF Call
<1>2. /\ built = "yes" /\ Domains' /\ UNCHANGED <<verifier, request>>
      /\ \A h \in Calling \ {g} : Same(h)
  BY OthersAreSame DEF IInv, CallInv, OptionsInv
<1>3. Calling' = Calling
  BY <1>2 DEF Calling, request
<1>4. ASSUME NEW h \in Calling PROVE CallInv(h)'
  BY <1>1, <1>2, <1>4, SameCallInv DEF IInv
<1>5. ASSUME NEW h \in Calling PROVE Isolated(h)'
  <2>1. CASE h = g
    BY <1>1, <2>1
  <2>2. CASE h # g
    BY <1>2, <1>5, <2>2, Fixed DEF IInv, OptionsIsolated, Isolated, Same
  <2> QED
    BY <2>1, <2>2
<1>6. OptionsIsolated'
  BY <1>3, <1>5 DEF OptionsIsolated, Isolated
<1>7. built' = built /\ opts' = opts /\ ctor' = ctor
  BY <1>2 DEF verifier
<1> QED
  BY <1>2, <1>3, <1>4, <1>6, <1>7 DEF IInv

\* Nobody calls the verifier before it is built.
LEMMA NewPaymentVerifierStep == IInv /\ NewPaymentVerifier => IInv'
<1> SUFFICES ASSUME IInv, NewPaymentVerifier PROVE IInv'
  OBVIOUS
<1>1. /\ UNCHANGED <<ctor, hasChain, pc, request, o, pos, txid, aa, todo>>
      /\ built = "no" /\ built' \in {"yes", "error"}
      /\ opts' = ApplyAll(Defaults, ctor)
  BY DEF NewPaymentVerifier
<1>2. Calling' = Calling /\ Domains'
  BY <1>1 DEF IInv, Domains, Calling, request
<1>3. ASSUME NEW h \in Calling PROVE CallInv(h)'
  <2>1. /\ CallInv(h) /\ pc[h] = "idle"
        /\ pc' = pc /\ pos' = pos /\ aa' = aa /\ todo' = todo
        /\ Chunks(h)' = Chunks(h) /\ Sent(h)' = Sent(h) /\ payment' = payment
    BY <1>1, <1>3 DEF IInv, CallInv, OptionsInv, Chunks, Sent, request
  <2>2. OptionsInv(h)' /\ ChecksInv(h)'
    BY <2>1 DEF OptionsInv, ChecksInv
  <2>3. ParserInv(h)'
    BY <2>1 DEF CallInv, ParserInv
  <2>4. AncestryInv(h)'
    BY <2>1 DEF CallInv, ParserInv, AncestryInv, Checking
  <2> QED
    BY <2>1, <2>2, <2>3, <2>4 DEF CallInv, Running
<1>4. OptionsIsolated'
  <2>1. \A h \in Calling : pc'[h] = "idle"
    BY <1>1 DEF IInv, CallInv, OptionsInv
  <2> QED
    BY <1>2, <2>1 DEF OptionsIsolated
<1> QED
  BY <1>1, <1>2, <1>3, <1>4 DEF IInv

\* Nothing changes.
LEMMA StutterStep == IInv /\ UNCHANGED vars => IInv'
<1> SUFFICES ASSUME IInv, UNCHANGED vars PROVE IInv'
  OBVIOUS
<1>1. UNCHANGED <<ctor, opts, hasChain, built, pc, payment, given, o, pos, txid,
                  aa, todo>>
  BY DEF vars
<1>2. Calling' = Calling /\ Domains'
  BY <1>1 DEF IInv, Domains, Calling
<1>3. ASSUME NEW h \in Calling PROVE CallInv(h)'
  <2>1. CallInv(h)
    BY <1>3 DEF IInv
  <2>2. OptionsInv(h)' /\ ParserInv(h)'
    BY <1>1, <2>1 DEF CallInv, OptionsInv, ParserInv, Asked, Chunks, FirstIsTx
  <2>3. AncestryInv(h)'
    BY <1>1, <2>1 DEF CallInv, AncestryInv, Chunks, Sent, ProofSent
  <2>4. ChecksInv(h)'
    BY <1>1, <2>1, SameResults DEF CallInv, ChecksInv, Asked, verifier, request
  <2> QED
    BY <1>1, <2>1, <2>2, <2>3, <2>4 DEF CallInv
<1>4. OptionsIsolated'
  BY <1>1, <1>2 DEF IInv, OptionsIsolated, Asked
<1> QED
  BY <1>1, <1>2, <1>3, <1>4 DEF IInv

\* The invariant holds however the steps of the calls interleave.
THEOREM Invariance == Spec => []IInv
<1>1. IInv /\ [Next]_vars => IInv'
  BY NewPaymentVerifierStep, CallStep, StutterStep DEF Next
<1> QED
  BY <1>1, InitIInv, PTL DEF Spec

-----------------------------------------------------------------------------
(* What follows from it *)

\* What the invariant says of the types.
LEMMA TypeInvariant == IInv => TypeOK
<1> SUFFICES ASSUME IInv PROVE TypeOK
  OBVIOUS
<1>1. ASSUME NEW g \in Calling
      PROVE  /\ pc[g] \in Running \cup Errors
                            \cup {"accepted"} \cup Panics
             /\ pos[g] \in 1..(Len(Chunks(g)) + 1)
             /\ DOMAIN aa[g] \subseteq Txs
             /\ todo[g] \subseteq DOMAIN aa[g]
  BY <1>1 DEF IInv, CallInv, ParserInv, AncestryInv
<1>2. ASSUME NEW g \in Calling, pc[g] = "parse",
             Chunks(g)[pos[g]].type \in {"proof", "mapi"}
      PROVE  txid[g] \in DOMAIN aa[g]
  <2>1. ParserInv(g)
    BY <1>2 DEF IInv, CallInv
  <2>2. pos[g] # 1
    BY <1>2, <2>1 DEF ParserInv, FirstIsTx
  <2> QED
    BY <1>2, <2>1, <2>2 DEF ParserInv
<1> QED
  BY <1>1, <1>2 DEF IInv, TypeOK

\* Every variable has its type, and a proof is only ever filed under a
\* transaction that was parsed before it.
THEOREM TypeCorrect == Spec => []TypeOK
BY TypeInvariant, Invariance, PTL

\* A check that a caller switched off never refuses its payment, whatever
\* the options of the calls that run at the same time.
THEOREM OptionsAreIsolated == Spec => []OptionsIsolated
<1>1. IInv => OptionsIsolated
  BY DEF IInv
<1> QED
  BY <1>1, Invariance, PTL

\* A payment accepted by a call that asks for fees pays the quote of that
\* call, out of outputs that were all sent, in sums that wrap as words do.
THEOREM FeesAreCovered == Spec => []FeesCovered
<1>1. IInv => FeesCovered
  <2> SUFFICES ASSUME IInv, NEW g \in Calling, Accepted(g), Asked(g).fees
               PROVE  LET t == payment[g].tx IN
                      /\ \A j \in DOMAIN Inputs[t] :
                            /\ Inputs[t][j].tx \in Sent(g) \cup {t}
                            /\ InBounds(Inputs[t][j])
                      /\ Asked(g).feeQuote \notin {NoQuote, NoFee, NoBytes}
                      /\ IsFeePaidEnough(t, Asked(g).feeQuote)
    BY DEF FeesCovered
  <2> DEFINE t == payment[g].tx
             fails == {j \in DOMAIN Inputs[t] : \/ Inputs[t][j].tx \notin DOMAIN aa[g]
                                                \/ ~ InBounds(Inputs[t][j])}
  <2>1. /\ FeesResult(g) = "ancestors" /\ o[g] = Asked(g)
        /\ DOMAIN aa[g] \subseteq Sent(g) \cup {t}
    BY DEF IInv, CallInv, Accepted, ChecksInv, OptionsInv, AncestryInv
  <2>2. /\ o[g].feeQuote \notin {NoQuote, NoFee, NoBytes} /\ fails = {}
        /\ IsFeePaidEnough(t, o[g].feeQuote)
    BY <2>1 DEF FeesResult
  <2> QED
    BY <2>1, <2>2
<1> QED
  BY <1>1, Invariance, PTL

\* Among the inputs that spend one parent, inputsToCheck has the last.
LEMMA EveryParentIsChecked ==
    ASSUME NEW t \in Txs, NEW j \in DOMAIN Inputs[t]
    PROVE  \E in \in inputsToCheck(t) : in.tx = Inputs[t][j].tx
<1> DEFINE n == Len(Inputs[t])
           same == {k \in DOMAIN Inputs[t] : Inputs[t][k].tx = Inputs[t][j].tx}
           after == {n - k : k \in same}
<1>1. n \in Nat /\ DOMAIN Inputs[t] = 1..n
  BY PaymentAssumption
<1>2. after \subseteq Nat /\ after # {}
  <2>1. n - j \in after
    BY <1>1
  <2>2. \A k \in same : n - k \in Nat
    BY <1>1
  <2> QED
    BY <2>1, <2>2
<1>3. PICK d \in after : \A e \in after : ~ (<<e, d>> \in OpToRel(<, Nat))
  BY <1>2, NatLessThanWellFounded, WFMin
<1>4. PICK k \in same : d = n - k
  BY <1>3
<1>5. \A m \in same : m <= k
  <2> TAKE m \in same
  <2>1. n - m \in after /\ n - m \in Nat /\ n - k \in Nat /\ m \in 1..n /\ k \in 1..n
    BY <1>1, <1>2, <1>4
  <2>2. ~ (n - m < n - k)
    BY <1>3, <1>4, <2>1 DEF OpToRel
  <2> QED
    BY <1>1, <2>1, <2>2
<1>6. Inputs[t][k] \in inputsToCheck(t)
  BY <1>4, <1>5 DEF inputsToCheck
<1> QED
  BY <1>4, <1>6

\* An ancestor that passed, and whose valid proof was not sent, has all its
\* parents in the ancestry.
LEMMA PassedUnproven ==
    ASSUME IInv, NEW g \in Calling, Accepted(g), Asked(g).proofs,
           NEW t \in DOMAIN aa[g], t \notin Proven(g) \/ t = payment[g].tx,
           t \in Sent(g) \/ t = payment[g].tx
    PROVE  \A j \in DOMAIN Inputs[t] : Inputs[t][j].tx \in DOMAIN aa[g]
<1>1. /\ CallInv(g) /\ o[g].proofs /\ ProofResult(g, t) = "ok" /\ t \in Txs
      /\ aa[g][payment[g].tx] = NoProof
  BY DEF IInv, CallInv, Accepted, ChecksInv, OptionsInv, AncestryInv, Checking
<1>2. aa[g][t] = NoProof
  <2> SUFFICES ASSUME aa[g][t] # NoProof PROVE FALSE
    OBVIOUS
  <2>1. /\ aa[g][t].answer = "valid" /\ aa[g][t].tx = TxID[t]
    BY <1>1, Results DEF ProofResult, Mismatch
  <2>3. ProofSent(g, aa[g][t])
    BY <1>1 DEF CallInv, AncestryInv
  <2>4. t # payment[g].tx
    BY <1>1
  <2>5. t \in Proven(g)
    BY <2>1, <2>3, <2>4 DEF ProofSent, Proven
  <2> QED
    BY <2>4, <2>5
<1>3. \A in \in inputsToCheck(t) : in.tx \in DOMAIN aa[g]
  BY <1>1, <1>2 DEF ProofResult
<1> QED
  BY <1>1, <1>3, EveryParentIsChecked

\* The id of a transaction is a hash of it, its inputs included, so that no
\* chain of spends comes back to where it started: the transactions can be
\* ranked.  Then a payment accepted by a call that asks for proofs is
\* anchored, whatever is sent, in whatever order, and however often.
THEOREM AncestryIsAnchored ==
    ASSUME NEW Rank \in [Txs -> Nat],
           \A t \in Txs : \A j \in DOMAIN Inputs[t] :
                Rank[Inputs[t][j].tx] < Rank[t]
    PROVE  Spec => []AnchoredAncestry
<1>1. IInv => AnchoredAncestry
  <2> SUFFICES ASSUME IInv, NEW g \in Calling, Accepted(g), Asked(g).proofs
               PROVE  \E S \in SUBSET Sent(g) :
                          \A t \in (S \ Proven(g)) \cup {payment[g].tx} :
                              \A j \in DOMAIN Inputs[t] : Inputs[t][j].tx \in S
    BY DEF AnchoredAncestry
  <2> DEFINE p == payment[g].tx
             S == {t \in DOMAIN aa[g] : Rank[t] < Rank[p]}
  <2>1. /\ DOMAIN aa[g] \subseteq Txs \cap (Sent(g) \cup {p})
        /\ p \in DOMAIN aa[g]
    BY DEF IInv, CallInv, AncestryInv, Accepted, Checking
  <2>2. S \in SUBSET Sent(g)
    BY <2>1
  <2>3. ASSUME NEW t \in (S \ Proven(g)) \cup {p}, NEW j \in DOMAIN Inputs[t]
        PROVE  Inputs[t][j].tx \in S
    <3>1. /\ t \in DOMAIN aa[g]
          /\ t \notin Proven(g) \/ t = p
          /\ t \in Sent(g) \/ t = p
          /\ Rank[t] <= Rank[p]
      BY <2>1, <2>3
    <3>2. Inputs[t][j].tx \in DOMAIN aa[g]
      BY <2>1, <2>3, <3>1, PassedUnproven
    <3>3. Rank[Inputs[t][j].tx] < Rank[t]
      BY <2>1, <2>3, <3>1
    <3> QED
      BY <2>1, <3>1, <3>2, <3>3
  <2> QED
    BY <2>2, <2>3
<1> QED
  BY <1>1, Invariance, PTL

-----------------------------------------------------------------------------
(* What is parsed is what was sent *)

\* Of the chunks before p: a proof that follows the transaction of chunk j,
\* and that none does.
ProofBefore(cs, p, j, proof) ==
    \E m \in 1..Len(cs) : /\ m < p /\ cs[m].type = "proof" /\ Follows(cs, m, j)
                          /\ proof = cs[m].data
NoneBefore(cs, p, j) ==
    \A m \in 1..Len(cs) : m < p /\ cs[m].type = "proof" => ~ Follows(cs, m, j)

\* A transaction of the map came in a chunk; its proof is one that followed
\* this chunk, or none did.
Filed(g, t) ==
    \E j \in TxChunks(Chunks(g)) :
        /\ j < pos[g] /\ Chunks(g)[j].data = t
        /\ \/ ProofBefore(Chunks(g), pos[g], j, aa[g][t])
           \/ aa[g][t] = NoProof /\ NoneBefore(Chunks(g), pos[g], j)

\* The map is the part that was parsed, and the transaction parsed last is the
\* last of it.
ParsedInv(g) ==
    /\ \A t \in DOMAIN aa[g] : Filed(g, t)
    /\ \A j \in TxChunks(Chunks(g)) :
          j < pos[g] => Chunks(g)[j].data \in DOMAIN aa[g]
    /\ pos[g] # 1 =>
          \E l \in TxChunks(Chunks(g)) :
              /\ l < pos[g] /\ Chunks(g)[l].data = txid[g]
              /\ \A x \in TxChunks(Chunks(g)) : x <= l \/ x >= pos[g]

\* The map is all that was sent, and the payment.
CompleteInv(g) ==
    /\ pos[g] > Len(Chunks(g))
    /\ DOMAIN aa[g] = Ancestry(payment[g])
    /\ \A t \in DOMAIN aa[g] \ {payment[g].tx} : Filed(g, t)

SentInv(g) ==
    /\ pc[g] = "parse" => ParsedInv(g)
    /\ pc[g] \in Checking => CompleteInv(g)

\* A step that leaves the parser's variables alone.
LEMMA SameSentInv ==
    ASSUME NEW h, SentInv(h), UNCHANGED <<verifier, request>>,
           pos'[h] = pos[h], txid'[h] = txid[h], aa'[h] = aa[h],
           pc'[h] = pc[h] \/ (pc'[h] \in Checking /\ pc[h] \in Checking)
                          \/ pc'[h] \notin Checking \cup {"parse"}
    PROVE  SentInv(h)'
<1>1. Chunks(h)' = Chunks(h) /\ payment'[h] = payment[h]
  BY Fixed
<1>2. \A t : Filed(h, t)' = Filed(h, t)
  BY <1>1 DEF Filed, ProofBefore, NoneBefore, Follows, TxChunks
<1>3. ParsedInv(h)' = ParsedInv(h)
  BY <1>1, <1>2 DEF ParsedInv, TxChunks
<1>4. CompleteInv(h)' = CompleteInv(h)
  <2>1. Ancestry(payment[h])' = Ancestry(payment[h])
    BY <1>1
  <2> QED
    BY <1>1, <1>2, <2>1 DEF CompleteInv
<1> QED
  BY <1>3, <1>4 DEF SentInv, Checking

\* Nothing is parsed before the first chunk.
LEMMA SentHeader ==
    ASSUME IInv, NEW g \in Calling, SentInv(g), parseAncestry(g)
    PROVE  SentInv(g)'
<1>1. /\ pc[g] = "header" /\ pc'[g] \notin Checking
      /\ pos'[g] = pos[g] /\ aa'[g] = aa[g]
      /\ UNCHANGED <<verifier, request>>
  BY DEF parseAncestry, Goto, Checking, IInv, Domains, verifier, request
<1>2. aa[g] = <<>> /\ pos[g] = 1
  BY <1>1 DEF IInv, CallInv, ParserInv
<1>3. DOMAIN aa'[g] = {} /\ pos'[g] = 1 /\ Chunks(g)' = Chunks(g)
  BY <1>1, <1>2, Fixed
<1>4. \A j \in TxChunks(Chunks(g)) : ~ (j < 1)
  BY DEF IInv, CallInv, ParserInv, TxChunks
<1>5. ParsedInv(g)'
  BY <1>3, <1>4 DEF ParsedInv
<1> QED
  BY <1>1, <1>5 DEF SentInv

\* One chunk: a transaction has no proof before it, a proof goes to the
\* transaction it follows, and anything else changes nothing.
LEMMA SentChunk ==
    ASSUME IInv, NEW g \in Calling, SentInv(g), parseChunk(g)
    PROVE  SentInv(g)'
<1> DEFINE cs == Chunks(g)
           chunk == cs[pos[g]]
<1>1. /\ pc[g] = "parse" /\ o'[g] = o[g] /\ todo'[g] = todo[g]
      /\ UNCHANGED <<verifier, request>>
      /\ pos[g] <= Len(cs)
  BY DEF parseChunk, IInv, Domains, verifier, request
<1>2. /\ Len(cs) \in Nat /\ pos[g] \in 1..Len(cs) /\ pos[g] \in Nat
      /\ pos[g] # 1 => txid[g] \in DOMAIN aa[g]
      /\ FirstIsTx(g)
  BY <1>1 DEF IInv, CallInv, ParserInv
<1>3. pos[g] \in 1..Len(cs) /\ 1..Len(cs) \subseteq Nat
  BY <1>2
<1>4. \/ pc'[g] \notin Checking \cup {"parse"}
      \/ /\ pc'[g] = "parse" /\ pos'[g] = pos[g] + 1
         /\ \/ /\ chunk.type = "tx"
               /\ txid'[g] = chunk.data
               /\ aa'[g] = With(aa[g], chunk.data, NoProof)
            \/ /\ chunk.type = "proof"
               /\ txid'[g] = txid[g]
               /\ aa'[g] = [aa[g] EXCEPT ![txid[g]] = chunk.data]
            \/ /\ chunk.type \in {"mapi", "other"}
               /\ txid'[g] = txid[g] /\ aa'[g] = aa[g]
  BY <1>1 DEF parseChunk, Goto, Step, Checking, IInv, Domains
<1> SUFFICES ASSUME pc'[g] = "parse" PROVE ParsedInv(g)'
  BY <1>4 DEF SentInv, Checking
<1>5. /\ pos'[g] = pos[g] + 1
      /\ \/ /\ chunk.type = "tx"
            /\ txid'[g] = chunk.data
            /\ aa'[g] = With(aa[g], chunk.data, NoProof)
         \/ /\ chunk.type = "proof"
            /\ txid'[g] = txid[g]
            /\ aa'[g] = [aa[g] EXCEPT ![txid[g]] = chunk.data]
         \/ /\ chunk.type \in {"mapi", "other"}
            /\ txid'[g] = txid[g] /\ aa'[g] = aa[g]
  BY <1>4
<1>6. Chunks(g)' = cs
  BY <1>1, Fixed
<1>7. ParsedInv(g)
  BY <1>1 DEF SentInv
<1>8. \A t : Filed(g, t)' <=>
         \E j \in TxChunks(cs) :
            /\ j < pos'[g] /\ cs[j].data = t
            /\ \/ ProofBefore(cs, pos'[g], j, aa'[g][t])
               \/ aa'[g][t] = NoProof /\ NoneBefore(cs, pos'[g], j)
  BY <1>6 DEF Filed, ProofBefore, NoneBefore, Follows, TxChunks
<1>12. \A j, proof : ProofBefore(cs, pos[g], j, proof) => ProofBefore(cs, pos[g] + 1, j, proof)
  BY <1>2, <1>3 DEF ProofBefore
<1>9. pos[g] \in TxChunks(cs) <=> chunk.type = "tx"
  BY <1>3 DEF TxChunks
<1>10. TxChunks(cs) \subseteq Nat
  BY <1>3 DEF TxChunks
<1> HIDE DEF cs, chunk
<1>11. CASE chunk.type = "tx"
  <2>1. ASSUME NEW t \in DOMAIN aa'[g] PROVE Filed(g, t)'
    <3>1. CASE t = chunk.data
      <4>1. aa'[g][t] = NoProof
        BY <1>4, <1>5, <1>11, <2>1, <3>1 DEF With
      <4>2. NoneBefore(cs, pos[g] + 1, pos[g])
        BY <1>2, <1>3 DEF NoneBefore, Follows
      <4> QED
        BY <1>2, <1>5, <1>8, <1>9, <1>11, <3>1, <4>1, <4>2 DEF chunk
    <3>2. CASE t # chunk.data
      <4>1. t \in DOMAIN aa[g] /\ aa'[g][t] = aa[g][t]
        BY <1>4, <1>5, <1>11, <2>1, <3>2 DEF With
      <4>2. PICK j \in TxChunks(cs) :
               /\ j < pos[g] /\ cs[j].data = t
               /\ \/ ProofBefore(cs, pos[g], j, aa[g][t])
                  \/ aa[g][t] = NoProof /\ NoneBefore(cs, pos[g], j)
        BY <1>7, <4>1 DEF ParsedInv, Filed, cs
      <4>3. NoneBefore(cs, pos[g], j) => NoneBefore(cs, pos[g] + 1, j)
        <5>1. \A m \in 1..Len(cs) : m < pos[g] + 1 => m < pos[g] \/ m = pos[g]
          BY <1>2, <1>3
        <5>2. cs[pos[g]].type # "proof"
          BY <1>11 DEF chunk
        <5> QED
          BY <5>1, <5>2 DEF NoneBefore
      <4>4. j < pos'[g]
        BY <1>2, <1>5, <1>10, <4>2
      <4> QED
        BY <1>5, <1>8, <1>12, <4>1, <4>2, <4>3, <4>4
    <3> QED
      BY <3>1, <3>2
  <2>2. ASSUME NEW j \in TxChunks(cs), j < pos[g] + 1 PROVE cs[j].data \in DOMAIN aa'[g]
    <3>1. j < pos[g] \/ j = pos[g]
      BY <1>2, <1>10, <2>2
    <3> QED
      BY <1>5, <1>7, <1>11, <2>2, <3>1 DEF ParsedInv, With, cs, chunk
  <2>3. /\ pos[g] \in TxChunks(cs) /\ pos[g] < pos[g] + 1 /\ cs[pos[g]].data = txid'[g]
        /\ \A x \in TxChunks(cs) : x <= pos[g] \/ x >= pos[g] + 1
    BY <1>2, <1>4, <1>5, <1>9, <1>10, <1>11 DEF chunk
  <2> QED
    BY <1>5, <1>6, <2>1, <2>2, <2>3 DEF ParsedInv
<1>13. CASE chunk.type # "tx"
  <2>1. pos[g] # 1
    BY <1>2, <1>13 DEF FirstIsTx, chunk, cs
  <2>2. PICK l \in TxChunks(cs) :
           /\ l < pos[g] /\ cs[l].data = txid[g]
           /\ \A x \in TxChunks(cs) : x <= l \/ x >= pos[g]
    BY <1>7, <2>1 DEF ParsedInv, cs
  <2>3. /\ DOMAIN aa'[g] = DOMAIN aa[g] /\ txid'[g] = txid[g]
        /\ txid[g] \in DOMAIN aa[g]
    BY <1>2, <1>4, <1>5, <1>13, <2>1
  <2>4. pos[g] \notin TxChunks(cs)
    BY <1>9, <1>13
  <2>5. Follows(cs, pos[g], l)
    BY <1>2, <1>10, <2>2, <2>4 DEF Follows
  <2>6. chunk.type = "proof" =>
            ProofBefore(cs, pos[g] + 1, l, chunk.data)
    BY <1>2, <1>3, <2>5 DEF ProofBefore, chunk
  <2>7. ASSUME NEW t \in DOMAIN aa'[g] PROVE Filed(g, t)'
    <3>1. PICK j \in TxChunks(cs) :
             /\ j < pos[g] /\ cs[j].data = t
             /\ \/ ProofBefore(cs, pos[g], j, aa[g][t])
                \/ aa[g][t] = NoProof /\ NoneBefore(cs, pos[g], j)
      BY <1>7, <2>3, <2>7 DEF ParsedInv, Filed, cs
    <3>2. j < pos'[g]
      BY <1>2, <1>5, <1>10, <3>1
    <3>3. CASE chunk.type = "proof" /\ t = txid[g]
      <4>1. aa'[g][t] = chunk.data
        BY <1>5, <2>3, <3>3
      <4>2. l < pos'[g]
        BY <1>2, <1>5, <1>10, <2>2
      <4> QED
        BY <1>5, <1>8, <2>2, <2>6, <3>3, <4>1, <4>2
    <3>4. CASE ~ (chunk.type = "proof" /\ t = txid[g])
      <4>1. aa'[g][t] = aa[g][t]
        BY <1>5, <1>13, <2>3, <2>7, <3>4
      <4>2. NoneBefore(cs, pos[g], j) => NoneBefore(cs, pos[g] + 1, j)
        <5>1. \A m \in 1..Len(cs) : m < pos[g] + 1 => m < pos[g] \/ m = pos[g]
          BY <1>2, <1>3
        <5>2. chunk.type = "proof" => ~ Follows(cs, pos[g], j)
          <6> SUFFICES ASSUME chunk.type = "proof", Follows(cs, pos[g], j) PROVE FALSE
            OBVIOUS
          <6>1. l <= j /\ j <= l
            BY <1>2, <1>10, <2>2, <3>1 DEF Follows
          <6>2. j = l
            BY <1>10, <6>1
          <6> QED
            BY <2>2, <3>1, <3>4, <6>2
        <5> QED
          BY <5>1, <5>2 DEF NoneBefore, chunk
      <4> QED
        BY <1>5, <1>8, <1>12, <3>1, <3>2, <4>1, <4>2
    <3> QED
      BY <3>3, <3>4
  <2>8. ASSUME NEW j \in TxChunks(cs), j < pos[g] + 1 PROVE cs[j].data \in DOMAIN aa'[g]
    <3>1. j < pos[g]
      BY <1>2, <1>10, <2>4, <2>8
    <3> QED
      BY <1>7, <2>3, <2>8, <3>1 DEF ParsedInv, cs
  <2>9. /\ l < pos[g] + 1 /\ cs[l].data = txid'[g]
        /\ \A x \in TxChunks(cs) : x <= l \/ x >= pos[g] + 1
    BY <1>2, <1>10, <2>2, <2>3, <2>4
  <2> QED
    BY <1>5, <1>6, <2>7, <2>8, <2>9 DEF ParsedInv
<1> QED
  BY <1>11, <1>13


\* The map is finished: it has all that was sent, and the payment without a
\* proof.
LEMMA SentParsed ==
    ASSUME IInv, NEW g \in Calling, SentInv(g), parseReturn(g)
    PROVE  SentInv(g)'
<1> DEFINE cs == Chunks(g)
           S == Ancestry(payment[g])
<1>1. /\ pc[g] = "parse" /\ pos[g] > Len(cs) /\ pos'[g] = pos[g]
      /\ pc'[g] \in {"fees", "ancestors"}
      /\ aa'[g] = With(aa[g], payment[g].tx, NoProof)
      /\ UNCHANGED <<verifier, request>>
  BY DEF parseReturn, Goto, IInv, Domains, verifier, request
<1>2. /\ Len(cs) \in Nat /\ pos[g] \in 1..(Len(cs) + 1)
      /\ \A m \in 1..Len(cs) : m < pos[g]
  BY <1>1 DEF IInv, CallInv, ParserInv
<1>3. ParsedInv(g)
  BY <1>1 DEF SentInv
<1>4. S = {cs[j].data : j \in TxChunks(cs)} \cup {payment[g].tx}
  BY DEF Ancestry, Chunks
<1>5. TxChunks(cs) \subseteq 1..Len(cs)
  BY DEF TxChunks
<1>6. DOMAIN aa'[g] = S
  <2>1. \A j \in TxChunks(cs) : cs[j].data \in DOMAIN aa[g]
    BY <1>2, <1>3, <1>5 DEF ParsedInv
  <2>2. \A t \in DOMAIN aa[g] : t \in S
    BY <1>3, <1>4 DEF ParsedInv, Filed
  <2> HIDE DEF cs, S
  <2> QED
    BY <1>1, <1>4, <2>1, <2>2 DEF With
<1>7. payment'[g] = payment[g] /\ Chunks(g)' = cs
  BY <1>1, Fixed
<1>8. ASSUME NEW t \in S \ {payment[g].tx} PROVE Filed(g, t)'
  <2>1. t \in DOMAIN aa[g] /\ aa'[g][t] = aa[g][t]
    BY <1>1, <1>6, <1>8 DEF With
  <2>2. Filed(g, t)
    BY <1>3, <2>1 DEF ParsedInv
  <2> QED
    BY <1>1, <1>7, <2>1, <2>2
       DEF Filed, ProofBefore, NoneBefore, Follows, TxChunks
<1>9. Ancestry(payment[g])' = S
  BY <1>7
<1>10. CompleteInv(g)'
  <2> HIDE DEF S
  <2> QED
    BY <1>1, <1>6, <1>7, <1>8, <1>9 DEF CompleteInv
<1> QED
  BY <1>1, <1>10 DEF SentInv

\* The other steps do not touch the map.
LEMMA SentStep ==
    ASSUME IInv, NEW g \in Calling, SentInv(g), Call(g)
    PROVE  SentInv(g)'
<1>1. CASE VerifyPayment(g) \/ VerifyFees(g) \/ VerifyAncestor(g) \/ Return(g)
  <2>1. /\ UNCHANGED <<verifier, request, pos, txid, aa>>
        /\ pc'[g] = pc[g] \/ (pc'[g] \in Checking /\ pc[g] \in Checking)
                          \/ pc'[g] \notin Checking \cup {"parse"}
    <3>1. CASE VerifyPayment(g)
      BY <3>1 DEF VerifyPayment, Goto, Checking, IInv, Domains, verifier, request
    <3>2. CASE VerifyFees(g)
      <4>1. FeesResult(g) \in {"ErrNoFeeQuoteSupplied", "ErrMissingOutput",
                               "ErrFeeTypeNotFound", "dividePanic",
                               "ErrFeePaidNotEnough", "ancestors"}
        BY DEF FeesResult
      <4> QED
        BY <3>2, <4>1 DEF VerifyFees, Goto, Checking, IInv, Domains, verifier, request
    <3>3. CASE VerifyAncestor(g)
      <4>1. /\ pc[g] = "ancestors"
            /\ UNCHANGED <<verifier, request, pos, txid, aa>>
            /\ \/ UNCHANGED pc
               \/ pc'[g] = "ErrNoTxInputsToVerify"
               \/ \E t : pc'[g] = ProofResult(g, t) /\ ProofResult(g, t) # "ok"
               \/ \E t : pc'[g] = ScriptResult(g, t) /\ ScriptResult(g, t) # "ok"
        BY <3>3 DEF VerifyAncestor, Goto, IInv, Domains, verifier, request
      <4> QED
        BY <4>1, Results DEF Checking
    <3>4. CASE Return(g)
      BY <3>4 DEF Return, Goto, Checking, IInv, Domains, verifier, request
    <3> QED
      BY <1>1, <3>1, <3>2, <3>3, <3>4
  <2> QED
    BY <2>1, SameSentInv
<1> QED
  BY <1>1, SentHeader, SentChunk, SentParsed DEF Call

SInv == \A g \in Calling : SentInv(g)

\* Whatever calls run beside it, a call goes by what it was sent.
LEMMA SentInvariance == Spec => []SInv
<1>1. Init => SInv
  BY DEF Init, SInv, SentInv, Checking, Calling
<1>2. IInv /\ SInv /\ [Next]_vars => SInv'
  <2> SUFFICES ASSUME IInv, SInv, [Next]_vars PROVE SInv'
    OBVIOUS
  <2>1. CASE NewPaymentVerifier
    <3>1. built = "no" /\ pc' = pc /\ UNCHANGED request
      BY <2>1 DEF NewPaymentVerifier, request
    <3>2. Calling' = Calling /\ \A h \in Calling : pc[h] = "idle"
      BY <3>1 DEF IInv, CallInv, OptionsInv, Calling, request
    <3> QED
      BY <3>1, <3>2 DEF SInv, SentInv, Checking
  <2>2. ASSUME NEW g \in Calling, Call(g) PROVE SInv'
    <3>1. /\ UNCHANGED <<verifier, request>>
          /\ \A h \in Calling \ {g} : Same(h)
      BY <2>2, OthersAreSame DEF IInv
    <3>2. Calling' = Calling
      BY <3>1 DEF Calling, request
    <3>3. ASSUME NEW h \in Calling PROVE SentInv(h)'
      <4>1. SentInv(h)
        BY <3>3 DEF SInv
      <4>2. CASE h # g
        BY <3>1, <3>3, <4>1, <4>2, SameSentInv DEF Same
      <4> QED
        BY <2>2, <4>1, <4>2, SentStep
    <3> QED
      BY <3>2, <3>3 DEF SInv
  <2>3. CASE UNCHANGED vars
    <3>1. UNCHANGED <<verifier, request, pc, pos, txid, aa>> /\ Calling' = Calling
      BY <2>3 DEF vars, Calling, verifier, request
    <3> QED
      BY <3>1, SameSentInv DEF SInv
  <2> QED
    BY <2>1, <2>2, <2>3 DEF Next
<1> QED
  BY <1>1, <1>2, Invariance, PTL DEF Spec

-----------------------------------------------------------------------------
(* Honest payments *)

\* What a call may be refused for.
Justified(g) ==
    /\ pc[g] \in Errors =>
          /\ Asked(g).fees
          /\ \/ Asked(g).feeQuote \in {NoQuote, NoFee}
             \/ ~ IsFeePaidEnough(payment[g].tx, Asked(g).feeQuote)
    /\ pc[g] # "rangePanic"
    /\ pc[g] = "nilPanic" => Asked(g).proofs /\ ~ hasChain
    /\ pc[g] = "dividePanic" => Asked(g).fees /\ Asked(g).feeQuote = NoBytes

HInv == \A g \in Calling : Honest(payment[g]) => Justified(g)

\* The chunks of an honest payment, without the record they come in.
LEMMA HonestChunks ==
    ASSUME NEW g, Honest(payment[g])
    PROVE  /\ payment[g].version = 1 /\ ~ payment[g].short
           /\ Chunks(g) # <<>> /\ Chunks(g)[1].type = "tx"
           /\ \A j \in 1..Len(Chunks(g)) :
                /\ Chunks(g)[j].type \in {"tx", "proof", "mapi", "other"}
                /\ Chunks(g)[j].type = "mapi" =>
                      Chunks(g)[j].data \notin {Malformed, Overrun}
                /\ Chunks(g)[j].type = "tx" => Chunks(g)[j].data \in Txs
           /\ \A t \in Ancestry(payment[g]) :
                /\ Inputs[t] # <<>>
                /\ \A i \in DOMAIN Inputs[t] :
                      Inputs[t][i].tx \in Ancestry(payment[g]) => InBounds(Inputs[t][i])
           /\ \A j \in TxChunks(Chunks(g)) :
                /\ Chunks(g)[j].data \in Ancestry(payment[g])
                /\ \A m \in 1..Len(Chunks(g)) :
                      Chunks(g)[m].type = "proof" /\ Follows(Chunks(g), m, j) =>
                        OwnProof(Chunks(g)[m].data, Chunks(g)[j].data)
                /\ (\A m \in 1..Len(Chunks(g)) :
                      Chunks(g)[m].type = "proof" => ~ Follows(Chunks(g), m, j)) =>
                        SpendsFrom(Chunks(g)[j].data, Ancestry(payment[g]))
           /\ SpendsFrom(payment[g].tx, Ancestry(payment[g]))
<1>1. ASSUME NEW j \in TxChunks(Chunks(g))
      PROVE  /\ Chunks(g)[j].data \in Ancestry(payment[g])
             /\ \A m \in 1..Len(Chunks(g)) :
                   Chunks(g)[m].type = "proof" /\ Follows(Chunks(g), m, j) =>
                     OwnProof(Chunks(g)[m].data, Chunks(g)[j].data)
             /\ (\A m \in 1..Len(Chunks(g)) :
                   Chunks(g)[m].type = "proof" => ~ Follows(Chunks(g), m, j)) =>
                     SpendsFrom(Chunks(g)[j].data, Ancestry(payment[g]))
  <2> DEFINE proofs == {m \in 1..Len(Chunks(g)) :
                          Chunks(g)[m].type = "proof" /\ Follows(Chunks(g), m, j)}
  <2>1. /\ \A m \in proofs : OwnProof(Chunks(g)[m].data, Chunks(g)[j].data)
        /\ proofs = {} => SpendsFrom(Chunks(g)[j].data, Ancestry(payment[g]))
    BY <1>1 DEF Honest, Chunks
  <2>2. Chunks(g)[j].data \in Ancestry(payment[g])
    BY <1>1 DEF Ancestry, Chunks
  <2> QED
    BY <2>1, <2>2
<1> QED
  BY <1>1 DEF Honest, Chunks

\* The proofs an honest payment leaves in the map are those of their own
\* transactions, and what has none has all that it spends from.
LEMMA HonestAncestry ==
    ASSUME IInv, NEW g \in Calling, SentInv(g), Honest(payment[g]), pc[g] \in Checking,
           NEW t \in DOMAIN aa[g]
    PROVE  /\ t \in Ancestry(payment[g]) /\ DOMAIN aa[g] = Ancestry(payment[g])
           /\ OwnProof(aa[g][t], t) \/ (aa[g][t] = NoProof /\ SpendsFrom(t, DOMAIN aa[g]))
<1>1. CompleteInv(g) /\ DOMAIN aa[g] = Ancestry(payment[g])
  BY DEF SentInv, CompleteInv
<1>2. CASE t = payment[g].tx
  BY <1>1, <1>2, HonestChunks DEF IInv, CallInv, AncestryInv
<1>3. CASE t # payment[g].tx
  <2>1. PICK j \in TxChunks(Chunks(g)) :
           /\ j < pos[g] /\ Chunks(g)[j].data = t
           /\ \/ ProofBefore(Chunks(g), pos[g], j, aa[g][t])
              \/ aa[g][t] = NoProof /\ NoneBefore(Chunks(g), pos[g], j)
    BY <1>1, <1>3 DEF CompleteInv, Filed
  <2>2. \A m \in 1..Len(Chunks(g)) : m < pos[g]
    BY <1>1 DEF CompleteInv, IInv, CallInv, ParserInv
  <2>3. CASE ProofBefore(Chunks(g), pos[g], j, aa[g][t])
    <3>1. PICK m \in 1..Len(Chunks(g)) :
             /\ Chunks(g)[m].type = "proof" /\ Follows(Chunks(g), m, j)
             /\ aa[g][t] = Chunks(g)[m].data
      BY <2>3 DEF ProofBefore
    <3> QED
      BY <1>1, <2>1, <3>1, HonestChunks
  <2>4. CASE aa[g][t] = NoProof /\ NoneBefore(Chunks(g), pos[g], j)
    <3>1. \A m \in 1..Len(Chunks(g)) :
             Chunks(g)[m].type = "proof" => ~ Follows(Chunks(g), m, j)
      BY <2>2, <2>4 DEF NoneBefore
    <3> QED
      BY <1>1, <2>1, <2>4, <3>1, HonestChunks
  <2> QED
    BY <2>1, <2>3, <2>4
<1> QED
  BY <1>2, <1>3

\* The header and the chunks are as they should be.
LEMMA HonestParse ==
    ASSUME IInv, NEW g \in Calling, Honest(payment[g]), Justified(g),
           parseAncestry(g) \/ parseChunk(g)
    PROVE  pc'[g] = "parse"
<1>1. CASE parseAncestry(g)
  BY <1>1, HonestChunks DEF parseAncestry, FirstIsTx, Goto, IInv, Domains
<1>2. CASE parseChunk(g)
  <2> DEFINE chunk == Chunks(g)[pos[g]]
  <2>1. pc[g] = "parse" /\ pos[g] \in 1..Len(Chunks(g))
    <3>1. pc[g] = "parse" /\ pos[g] <= Len(Chunks(g))
      BY <1>2 DEF parseChunk
    <3>2. Len(Chunks(g)) \in Nat /\ pos[g] \in 1..(Len(Chunks(g)) + 1)
      BY DEF IInv, CallInv, ParserInv
    <3> QED
      BY <3>1, <3>2
  <2>2. chunk.type = "tx" => chunk.data \in Ancestry(payment[g])
    BY <2>1, HonestChunks DEF TxChunks
  <2>3. /\ chunk.type \in {"tx", "proof", "mapi", "other"}
        /\ chunk.type = "mapi" => chunk.data \notin {Malformed, Overrun}
        /\ chunk.type = "tx" => chunk.data \in Txs /\ Inputs[chunk.data] # <<>>
    BY <2>1, <2>2, HonestChunks
  <2>4. ~ Short(g)
    BY HonestChunks DEF Short
  <2> QED
    BY <1>2, <2>1, <2>3, <2>4 DEF parseChunk, Goto, IInv, Domains
<1> QED
  BY <1>1, <1>2

\* All that the payment spends is there: only the fees can be too small.
LEMMA HonestFees ==
    ASSUME IInv, NEW g \in Calling, SentInv(g), Honest(payment[g]), VerifyFees(g)
    PROVE  Justified(g)'
<1> DEFINE t == payment[g].tx
           fails == {j \in DOMAIN Inputs[t] : \/ Inputs[t][j].tx \notin DOMAIN aa[g]
                                              \/ ~ InBounds(Inputs[t][j])}
<1>1. /\ pc[g] = "fees" /\ pc'[g] = FeesResult(g)
      /\ UNCHANGED <<verifier, request>>
  BY DEF VerifyFees, Goto, IInv, Domains, verifier, request
<1>2. /\ o[g] = Asked(g) /\ Asked(g).fees
      /\ DOMAIN aa[g] = Ancestry(payment[g])
  BY <1>1 DEF IInv, CallInv, OptionsInv, SentInv, CompleteInv, Checking
<1>3. fails = {}
  <2>1. t \in Ancestry(payment[g])
    BY DEF Ancestry
  <2> QED
    BY <1>2, <2>1, HonestChunks DEF SpendsFrom
<1>4. \/ pc'[g] = "ancestors"
      \/ pc'[g] = "dividePanic" /\ Asked(g).feeQuote = NoBytes
      \/ /\ pc'[g] \in Errors
         /\ \/ Asked(g).feeQuote \in {NoQuote, NoFee}
            \/ ~ IsFeePaidEnough(t, Asked(g).feeQuote)
  BY <1>1, <1>2, <1>3 DEF FeesResult, Errors
<1>5. payment'[g] = payment[g] /\ Asked(g)' = Asked(g)
  BY <1>1, Fixed
<1>6. IsFeePaidEnough(t, Asked(g).feeQuote)' = IsFeePaidEnough(t, Asked(g).feeQuote)
  BY <1>5 DEF IsFeePaidEnough, Spent, Paid, Satoshis
<1> QED
  BY <1>2, <1>4, <1>5, <1>6 DEF Justified, Errors

\* Every ancestor passes, unless it takes a header chain there is none of.
LEMMA HonestAncestor ==
    ASSUME IInv, NEW g \in Calling, SentInv(g), Honest(payment[g]), VerifyAncestor(g)
    PROVE  Justified(g)'
<1> DEFINE result(t) == IF Inputs[t] = <<>> THEN "ErrNoTxInputsToVerify"
                        ELSE IF ProofResult(g, t) # "ok" THEN ProofResult(g, t)
                        ELSE ScriptResult(g, t)
<1>1. /\ pc[g] = "ancestors" /\ UNCHANGED <<verifier, request>>
      /\ \E t \in todo[g] : IF result(t) = "ok" THEN UNCHANGED pc
                            ELSE pc' = [pc EXCEPT ![g] = result(t)]
  BY DEF VerifyAncestor, Goto
<1>2. PICK t \in todo[g] : IF result(t) = "ok" THEN UNCHANGED pc
                           ELSE pc' = [pc EXCEPT ![g] = result(t)]
  BY <1>1
<1>3. /\ o[g] = Asked(g) /\ g \in DOMAIN pc /\ t \in DOMAIN aa[g]
  BY <1>1, <1>2 DEF IInv, CallInv, OptionsInv, AncestryInv, Domains
<1>4. /\ t \in Ancestry(payment[g]) /\ DOMAIN aa[g] = Ancestry(payment[g])
      /\ OwnProof(aa[g][t], t) \/ (aa[g][t] = NoProof /\ SpendsFrom(t, DOMAIN aa[g]))
  BY <1>1, <1>3, HonestAncestry DEF Checking
<1>5. /\ Inputs[t] # <<>>
      /\ \A in \in inputsToCheck(t) : in.tx \in DOMAIN aa[g] => InBounds(in)
  BY <1>4, HonestChunks DEF inputsToCheck
<1>6. ScriptResult(g, t) = "ok"
  BY <1>5 DEF ScriptResult
<1>7. \/ ProofResult(g, t) = "ok"
      \/ ProofResult(g, t) = "nilPanic" /\ ~ hasChain /\ o[g].proofs
  <2>1. CASE OwnProof(aa[g][t], t)
    BY <2>1 DEF ProofResult, OwnProof, Mismatch
  <2>2. CASE aa[g][t] = NoProof /\ SpendsFrom(t, DOMAIN aa[g])
    BY <2>2 DEF ProofResult, SpendsFrom, inputsToCheck
  <2> QED
    BY <1>4, <2>1, <2>2
<1>8. \/ pc'[g] = "ancestors"
      \/ pc'[g] = "nilPanic" /\ ~ hasChain /\ Asked(g).proofs
  <2>1. result(t) = "ok" \/ (result(t) = "nilPanic" /\ ~ hasChain /\ Asked(g).proofs)
    BY <1>3, <1>5, <1>6, <1>7
  <2> HIDE DEF result
  <2> QED
    BY <1>1, <1>2, <1>3, <2>1
<1>9. Asked(g)' = Asked(g) /\ hasChain' = hasChain
  BY <1>1, Fixed
<1> QED
  BY <1>8, <1>9 DEF Justified, Errors

\* No step of a call that was asked something honest refuses it.
LEMMA HonestStep ==
    ASSUME IInv, NEW g \in Calling, SentInv(g), Honest(payment[g]), Justified(g), Call(g)
    PROVE  Justified(g)'
<1>1. CASE VerifyPayment(g) \/ parseReturn(g) \/ Return(g)
  <2>1. pc'[g] \in {"header", "fees", "ancestors", "accepted"}
    BY <1>1 DEF VerifyPayment, parseReturn, Return, Goto, IInv, Domains
  <2> QED
    BY <2>1 DEF Justified, Errors
<1>2. CASE parseAncestry(g) \/ parseChunk(g)
  BY <1>2, HonestParse DEF Justified, Errors
<1> QED
  BY <1>1, <1>2, HonestFees, HonestAncestor DEF Call

\* A payment with all its ancestors, proofs and outputs is refused for nothing
\* but its fees, whatever it is, and whatever calls run beside it.
THEOREM HonestPaymentsPass == Spec => []HonestIsAccepted
<1>1. Init => HInv
  BY DEF Init, HInv, Justified, Errors, Calling
<1>2. IInv /\ SInv /\ HInv /\ [Next]_vars => HInv'
  <2> SUFFICES ASSUME IInv, SInv, HInv, [Next]_vars PROVE HInv'
    OBVIOUS
  <2>1. CASE NewPaymentVerifier
    <3>1. /\ built = "no" /\ pc' = pc /\ payment' = payment
          /\ UNCHANGED request
      BY <2>1 DEF NewPaymentVerifier, request
    <3>2. Calling' = Calling /\ \A h \in Calling : pc[h] = "idle"
      BY <3>1 DEF IInv, CallInv, OptionsInv, Calling
    <3> QED
      BY <3>1, <3>2 DEF HInv, Justified, Errors
  <2>2. ASSUME NEW g \in Calling, Call(g) PROVE HInv'
    <3>1. /\ UNCHANGED <<verifier, request>>
          /\ \A h \in Calling \ {g} : Same(h)
      BY <2>2, OthersAreSame DEF IInv
    <3>2. Calling' = Calling /\ payment' = payment
      BY <3>1 DEF Calling, request
    <3>3. ASSUME NEW h \in Calling, Honest(payment[h]) PROVE Justified(h)'
      <4>1. Justified(h) /\ SentInv(h)
        BY <3>3 DEF HInv, SInv
      <4>2. CASE h # g
        <5>1. pc'[h] = pc[h]
          BY <3>1, <3>3, <4>2 DEF Same
        <5>2. /\ Asked(h)' = Asked(h) /\ hasChain' = hasChain
              /\ payment'[h] = payment[h]
          BY <3>1, Fixed
        <5>3. IsFeePaidEnough(payment[h].tx, Asked(h).feeQuote)'
                = IsFeePaidEnough(payment[h].tx, Asked(h).feeQuote)
          BY <5>2 DEF IsFeePaidEnough, Spent, Paid, Satoshis
        <5> QED
          BY <4>1, <5>1, <5>2, <5>3 DEF Justified, Errors
      <4> QED
        BY <2>2, <3>3, <4>1, <4>2, HonestStep
    <3>4. \A h \in Calling : Honest(payment[h])' => Honest(payment[h])
      BY <3>2
    <3> QED
      BY <3>2, <3>3, <3>4 DEF HInv
  <2>3. CASE UNCHANGED vars
    <3>1. /\ UNCHANGED <<verifier, request, pc>> /\ payment' = payment
          /\ Calling' = Calling /\ hasChain' = hasChain
      BY <2>3 DEF vars, verifier, request, Calling
    <3>2. ASSUME NEW h \in Calling
          PROVE  /\ Asked(h)' = Asked(h)
                 /\ IsFeePaidEnough(payment[h].tx, Asked(h).feeQuote)'
                      = IsFeePaidEnough(payment[h].tx, Asked(h).feeQuote)
      <4>1. Asked(h)' = Asked(h)
        BY <3>1, Fixed
      <4> QED
        BY <3>1, <4>1 DEF IsFeePaidEnough, Spent, Paid, Satoshis
    <3>3. \A h \in Calling : Honest(payment[h])' => Honest(payment[h])
      BY <3>1
    <3> QED
      BY <3>1, <3>2, <3>3 DEF HInv, Justified, Errors
  <2> QED
    BY <2>1, <2>2, <2>3 DEF Next
<1>3. HInv => HonestIsAccepted
  BY DEF HInv, HonestIsAccepted, Justified
<1> QED
  BY <1>1, <1>2, <1>3, Invariance, SentInvariance, PTL DEF Spec

-----------------------------------------------------------------------------
(***************************************************************************)
(* From here on the payments are those the creator makes of the stores.    *)
(***************************************************************************)
USE StoreAssumption

-----------------------------------------------------------------------------
(* Trees of ancestors *)

Parents(t) == {Inputs[t][i].tx : i \in 1..Len(Inputs[t])}

\* A set of nodes, each of which has a proof from the store or all its parents.
IsClosed(S) ==
    \A x \in S :
        /\ x.tx \in Stored
        /\ \/ x.proof \in Proofs[x.tx]
           \/ /\ x.proof = NoProof
              /\ DOMAIN x.parents = Parents(x.tx)
              /\ \A t \in DOMAIN x.parents : /\ x.parents[t] \in S
                                             /\ x.parents[t].tx = t

\* A node that leads to proofs along every chain of its spends.
IsTree(x) == \E S : IsClosed(S) /\ x \in S

\* Nodes of these transactions.
AreTrees(parents) == \A t \in DOMAIN parents : IsTree(parents[t]) /\ parents[t].tx = t

\* A node with a proof is one.
LEMMA ProvenIsTree ==
    ASSUME NEW t \in Stored, NEW proof \in Proofs[t]
    PROVE  IsTree(Creator!Node(t, proof, <<>>))
<1> DEFINE x == Creator!Node(t, proof, <<>>)
<1>1. IsClosed({x})
  BY DEF IsClosed, Creator!Node
<1> QED
  BY <1>1 DEF IsTree

\* So is one with all its parents, when they are.
LEMMA ParentsMakeTree ==
    ASSUME NEW t \in Stored, NEW parents, DOMAIN parents = Parents(t), AreTrees(parents)
    PROVE  IsTree(Creator!Node(t, NoProof, parents))
<1> DEFINE x == Creator!Node(t, NoProof, parents)
           Of(u) == CHOOSE S : IsClosed(S) /\ parents[u] \in S
           All == {x} \cup UNION {Of(u) : u \in DOMAIN parents}
<1>1. \A u \in DOMAIN parents : IsClosed(Of(u)) /\ parents[u] \in Of(u)
  BY DEF AreTrees, IsTree
<1> HIDE DEF Of
<1>2. ASSUME NEW y \in UNION {Of(u) : u \in DOMAIN parents}
      PROVE  /\ y.tx \in Stored
             /\ \/ y.proof \in Proofs[y.tx]
                \/ /\ y.proof = NoProof
                   /\ DOMAIN y.parents = Parents(y.tx)
                   /\ \A v \in DOMAIN y.parents : /\ y.parents[v] \in All
                                                  /\ y.parents[v].tx = v
  BY <1>1 DEF IsClosed
<1>3. /\ x.tx = t /\ x.proof = NoProof /\ x.parents = parents
  BY DEF Creator!Node
<1>4. \A v \in DOMAIN parents : parents[v] \in All /\ parents[v].tx = v
  BY <1>1 DEF AreTrees
<1>5. IsClosed(All)
  <2> HIDE DEF x
  <2> QED
    BY <1>2, <1>3, <1>4 DEF IsClosed
<1> QED
  BY <1>5 DEF IsTree

\* What is known of a node of a tree.
LEMMA TreeIs ==
    ASSUME NEW x, IsTree(x)
    PROVE  /\ x.tx \in Stored
           /\ \/ x.proof \in Proofs[x.tx]
              \/ /\ x.proof = NoProof
                 /\ DOMAIN x.parents = Parents(x.tx)
                 /\ AreTrees(x.parents)
BY DEF IsTree, IsClosed, AreTrees

-----------------------------------------------------------------------------
(* What the creator has found *)

FrameInv(f) ==
    /\ DOMAIN f = {"tx", "i", "parents"}
    /\ f.tx \in Txs
    /\ f.i \in 1..(Len(Inputs[f.tx]) + 1)
    /\ DOMAIN f.parents = {Inputs[f.tx][j].tx : j \in 1..(f.i - 1)}
    /\ AreTrees(f.parents)

\* A call of the recursion is about the parent its caller has come to.
LinkInv(s, k) ==
    k > 1 => /\ s[k].tx \in Stored
             /\ s[k - 1].i <= Len(Inputs[s[k - 1].tx])
             /\ s[k].tx = Inputs[s[k - 1].tx][s[k - 1].i].tx

StackInv(s) ==
    /\ Len(s) \in Nat \ {0} /\ \E S : s \in Seq(S)
    /\ \A k \in 1..Len(s) : FrameInv(s[k]) /\ LinkInv(s, k)
    /\ s[1].tx = tip

CreatorInv ==
    /\ step \in {"ErrNoTxInputs", "failed", "input", "proof", "returned",
                 "encode", "delivered"}
    /\ tip \in Tips
    /\ step # "ErrNoTxInputs" => Inputs[tip] # <<>>
    /\ StackInv(stack)
    /\ step = "proof" => /\ Creator!Call.i <= Len(Inputs[Creator!Call.tx])
                         /\ Creator!pTxID \in Stored
    /\ step = "returned" => DOMAIN made.parents = Parents(tip) /\ AreTrees(made.parents)

\* A transaction has a number of inputs.
LEMMA InputsLength == ASSUME NEW t \in Txs PROVE Len(Inputs[t]) \in Nat
<1>1. Inputs[t] \in Seq([tx : Txs, vout : Nat])
  BY PaymentAssumption
<1> QED
  BY <1>1, LenProperties

\* The frame of a call that has come to none of its inputs.
LEMMA NewFrame ==
    ASSUME NEW t \in Txs
    PROVE  FrameInv(Creator!Frame(t))
<1>1. Len(Inputs[t]) \in Nat
  BY InputsLength
<1> QED
  BY <1>1 DEF FrameInv, Creator!Frame, AreTrees

\* A call that has come to its next input, with the parent it is about.
LEMMA Adopted ==
    ASSUME NEW f, FrameInv(f), f.i <= Len(Inputs[f.tx]),
           NEW node, IsTree(node), node.tx = Inputs[f.tx][f.i].tx
    PROVE  /\ FrameInv(Creator!Adopt(f, node))
           /\ Creator!Adopt(f, node).tx = f.tx
<1> DEFINE g == Creator!Adopt(f, node)
           ps == [t \in DOMAIN f.parents \cup {node.tx} |->
                    IF t = node.tx THEN node ELSE f.parents[t]]
<1>1. /\ DOMAIN g = {"tx", "i", "parents"}
      /\ g.tx = f.tx /\ g.i = f.i + 1 /\ g.parents = ps
  <2>1. g = [f EXCEPT !.i = f.i + 1, !.parents = ps]
    BY DEF Creator!Adopt
  <2> HIDE DEF ps, g
  <2> QED
    BY <2>1 DEF FrameInv
<1>2. f.i \in 1..Len(Inputs[f.tx]) /\ f.i + 1 \in 1..(Len(Inputs[f.tx]) + 1)
  <2>1. Len(Inputs[f.tx]) \in Nat /\ f.i \in 1..(Len(Inputs[f.tx]) + 1)
    BY InputsLength DEF FrameInv
  <2> QED
    BY <2>1
<1>3. DOMAIN ps = {Inputs[f.tx][j].tx : j \in 1..(f.i + 1 - 1)}
  BY <1>2 DEF FrameInv
<1>4. AreTrees(ps)
  BY DEF FrameInv, AreTrees
<1> HIDE DEF ps, g
<1>5. FrameInv(g) /\ g.tx = f.tx
  BY <1>1, <1>2, <1>3, <1>4 DEF FrameInv
<1> QED
  BY <1>5 DEF g

\* An input whose parent is there already adds nothing.
LEMMA Skipped ==
    ASSUME NEW f, FrameInv(f), f.i <= Len(Inputs[f.tx]),
           Inputs[f.tx][f.i].tx \in DOMAIN f.parents
    PROVE  /\ FrameInv([f EXCEPT !.i = @ + 1])
           /\ [f EXCEPT !.i = @ + 1].tx = f.tx
<1> DEFINE g == [f EXCEPT !.i = @ + 1]
<1>1. /\ DOMAIN g = {"tx", "i", "parents"}
      /\ g.tx = f.tx /\ g.i = f.i + 1 /\ g.parents = f.parents
  BY DEF FrameInv
<1>2. f.i \in 1..Len(Inputs[f.tx]) /\ f.i + 1 \in 1..(Len(Inputs[f.tx]) + 1)
  <2>1. Len(Inputs[f.tx]) \in Nat /\ f.i \in 1..(Len(Inputs[f.tx]) + 1)
    BY InputsLength DEF FrameInv
  <2> QED
    BY <2>1
<1>3. DOMAIN f.parents = {Inputs[f.tx][j].tx : j \in 1..(f.i + 1 - 1)}
  BY <1>2 DEF FrameInv
<1> HIDE DEF g
<1>4. FrameInv(g) /\ g.tx = f.tx
  BY <1>1, <1>2, <1>3 DEF FrameInv
<1> QED
  BY <1>4 DEF g

\* The last call goes on; those it was called from wait for it.
LEMMA TopReplaced ==
    ASSUME NEW s, StackInv(s), NEW f, FrameInv(f), f.tx = s[Len(s)].tx
    PROVE  StackInv([s EXCEPT ![Len(s)] = f])
<1> DEFINE n == Len(s)
           r == [s EXCEPT ![n] = f]
<1>1. PICK S : s \in Seq(S)
  BY DEF StackInv
<1>2. r \in Seq(S \cup {f}) /\ Len(r) = n /\ n \in Nat \ {0}
      /\ r[n] = f /\ \A k \in 1..n : k # n => r[k] = s[k]
  BY <1>1 DEF StackInv
<1> HIDE DEF r
<1>3. ASSUME NEW k \in 1..n PROVE FrameInv(r[k])
  BY <1>2 DEF StackInv
<1>4. ASSUME NEW k \in 1..n PROVE LinkInv(r, k)
  <2>1. CASE k = 1
    BY <2>1 DEF LinkInv
  <2>2. CASE k > 1
    <3>1. k - 1 \in 1..n /\ k - 1 # n /\ r[k - 1] = s[k - 1] /\ r[k].tx = s[k].tx
      BY <1>2, <2>2
    <3> QED
      BY <3>1 DEF StackInv, LinkInv
  <2> QED
    BY <1>2, <2>1, <2>2
<1>5. r[1].tx = tip
  BY <1>2 DEF StackInv
<1>6. StackInv(r)
  BY <1>2, <1>3, <1>4, <1>5 DEF StackInv
<1> QED
  BY <1>6 DEF r

\* A call for the parent the last one has come to.
LEMMA Pushed ==
    ASSUME NEW s, StackInv(s), s[Len(s)].i <= Len(Inputs[s[Len(s)].tx]),
           NEW t \in Stored \cap Txs, t = Inputs[s[Len(s)].tx][s[Len(s)].i].tx
    PROVE  StackInv(Append(s, Creator!Frame(t)))
<1> DEFINE n == Len(s)
           f == Creator!Frame(t)
           r == Append(s, f)
<1>1. PICK S : s \in Seq(S)
  BY DEF StackInv
<1>2. r \in Seq(S \cup {f}) /\ Len(r) = n + 1 /\ n \in Nat \ {0}
      /\ r[n + 1] = f /\ \A k \in 1..n : r[k] = s[k]
  <2>1. s \in Seq(S \cup {f}) /\ n \in Nat \ {0}
    BY <1>1 DEF StackInv
  <2> HIDE DEF f
  <2> QED
    BY <2>1
<1>3. f.tx = t /\ FrameInv(f)
  BY NewFrame DEF Creator!Frame
<1> HIDE DEF r, f
<1>4. ASSUME NEW k \in 1..(n + 1) PROVE FrameInv(r[k])
  <2>1. k \in 1..n \/ k = n + 1
    BY <1>2
  <2> QED
    BY <1>2, <1>3, <2>1 DEF StackInv
<1>5. ASSUME NEW k \in 1..(n + 1) PROVE LinkInv(r, k)
  <2>1. CASE k <= n
    <3>1. k \in 1..n /\ r[k] = s[k] /\ (k > 1 => r[k - 1] = s[k - 1])
      <4>1. k \in 1..n /\ (k > 1 => k - 1 \in 1..n)
        BY <1>2, <2>1
      <4> QED
        BY <1>2, <4>1
    <3> QED
      BY <3>1 DEF StackInv, LinkInv
  <2>2. CASE k = n + 1
    <3>1. /\ r[k] = f /\ k - 1 = n /\ n \in 1..n /\ r[n] = s[n]
      BY <1>2, <2>2
    <3> QED
      BY <1>3, <3>1 DEF LinkInv
  <2>3. k \in Int /\ n \in Int /\ k <= n + 1
    BY <1>2
  <2>4. k <= n \/ k = n + 1
    BY <2>3
  <2> QED
    BY <2>1, <2>2, <2>4
<1>6. r[1].tx = tip
  <2>1. 1 \in 1..n
    BY <1>2
  <2> QED
    BY <1>2, <2>1 DEF StackInv
<1>7. StackInv(r)
  <2>1. Len(r) \in Nat \ {0} /\ \E T : r \in Seq(T)
    BY <1>2
  <2>2. \A k \in 1..Len(r) : FrameInv(r[k]) /\ LinkInv(r, k)
    BY <1>2, <1>4, <1>5
  <2> HIDE DEF n
  <2> QED
    BY <1>6, <2>1, <2>2 DEF StackInv
<1> QED
  BY <1>7 DEF r, f

\* The last call returns to its caller.
LEMMA Popped ==
    ASSUME NEW s, StackInv(s), Len(s) > 1
    PROVE  /\ StackInv(SubSeq(s, 1, Len(s) - 1))
           /\ Len(SubSeq(s, 1, Len(s) - 1)) = Len(s) - 1
           /\ SubSeq(s, 1, Len(s) - 1)[Len(s) - 1] = s[Len(s) - 1]
<1> DEFINE n == Len(s) - 1
           r == SubSeq(s, 1, n)
<1>1. PICK S : s \in Seq(S)
  BY DEF StackInv
<1>2. r \in Seq(S) /\ Len(r) = n /\ n \in Nat \ {0} /\ \A k \in 1..n : r[k] = s[k]
  BY <1>1 DEF StackInv
<1> HIDE DEF r
<1>3. ASSUME NEW k \in 1..n PROVE FrameInv(r[k]) /\ LinkInv(r, k)
  <2>1. k \in 1..Len(s) /\ r[k] = s[k] /\ (k > 1 => r[k - 1] = s[k - 1])
    BY <1>2
  <2> QED
    BY <2>1 DEF StackInv, LinkInv
<1>4. r[1].tx = tip
  BY <1>2 DEF StackInv
<1>5. StackInv(r) /\ Len(r) = n /\ r[n] = s[n]
  BY <1>2, <1>3, <1>4 DEF StackInv
<1> QED
  BY <1>5 DEF r

\* What the creator does keeps the order of the store it reads.
LEMMA CreateStep ==
    ASSUME CreatorInv, Create
    PROVE  /\ CreatorInv' /\ tip' = tip
           /\ step \in {"input", "proof"}
           /\ step' \in {"input", "proof", "failed", "returned"}
           /\ UNCHANGED <<vars, encoding>>
<1> DEFINE n == Len(stack)
           call == stack[n]
           t == Inputs[call.tx][call.i].tx
<1>1. /\ StackInv(stack) /\ n \in Nat \ {0} /\ FrameInv(call) /\ call.tx \in Txs
      /\ n \in 1..n /\ tip \in Tips /\ Inputs[tip] # <<>> /\ stack[1].tx = tip
  <2>1. StackInv(stack) /\ tip \in Tips
    BY DEF CreatorInv
  <2>2. step # "ErrNoTxInputs"
    BY DEF Create, Creator!CreateTxAncestry, Creator!Skip,
       Creator!Tx, Creator!MerkleProof, Creator!ReturnToCaller,
       Creator!Return
  <2> QED
    BY <2>1, <2>2 DEF CreatorInv, StackInv, FrameInv
<1>2. Creator!Call = call /\ Creator!pTxID = t
  BY DEF Creator!Call, Creator!pTxID
<1>3. call.i \in 1..(Len(Inputs[call.tx]) + 1) /\ Len(Inputs[call.tx]) \in Nat
  BY <1>1, PaymentAssumption DEF FrameInv
<1>4. UNCHANGED <<vars, encoding>>
  BY DEF Create
<1>5. CASE Creator!Skip
  <2>1. /\ step = "input" /\ UNCHANGED <<tip, step, made, reads>>
        /\ call.i <= Len(Inputs[call.tx]) /\ t \in DOMAIN call.parents
        /\ stack' = [stack EXCEPT ![n] = [call EXCEPT !.i = @ + 1]]
    BY <1>2, <1>5 DEF Creator!Skip, Creator!Already
  <2>2. StackInv(stack')
    BY <1>1, <2>1, Skipped, TopReplaced
  <2> QED
    BY <1>1, <1>4, <2>1, <2>2 DEF CreatorInv, StackInv
<1>6. CASE Creator!Tx
  <2>1. /\ step = "input" /\ UNCHANGED <<tip, stack, made>>
        /\ step' = "failed" \/ (t \in Stored /\ step' = "proof")
        /\ call.i <= Len(Inputs[call.tx])
    BY <1>2, <1>6 DEF Creator!Tx
  <2>2. Creator!Call' = call /\ Creator!pTxID' = t
    BY <2>1 DEF Creator!Call, Creator!pTxID
  <2> QED
    BY <1>1, <1>4, <2>1, <2>2 DEF CreatorInv, StackInv
<1>7. CASE Creator!MerkleProof
  <2>1. /\ step = "proof" /\ UNCHANGED <<tip, made, reads>>
        /\ call.i <= Len(Inputs[call.tx]) /\ t \in Stored
        /\ \/ step' = "failed" /\ UNCHANGED stack
           \/ /\ step' = "input"
              /\ \E proof \in Proofs[t] :
                    stack' = [stack EXCEPT ![n] = Creator!Adopt(@,
                                  Creator!Node(t, proof, <<>>))]
           \/ /\ step' = "input"
              /\ stack' = Append(stack, Creator!Frame(t))
    BY <1>2, <1>7 DEF Creator!MerkleProof, Creator!Recurse, CreatorInv
  <2>2. StackInv(stack')
    <3>1. ASSUME NEW proof \in Proofs[t],
                 stack' = [stack EXCEPT ![n] = Creator!Adopt(@,
                               Creator!Node(t, proof, <<>>))]
          PROVE  StackInv(stack')
      <4> DEFINE node == Creator!Node(t, proof, <<>>)
      <4>1. IsTree(node) /\ node.tx = t
        BY <2>1, ProvenIsTree DEF Creator!Node
      <4> HIDE DEF node
      <4>2. /\ FrameInv(Creator!Adopt(call, node))
            /\ Creator!Adopt(call, node).tx = call.tx
        BY <1>1, <2>1, <4>1, Adopted
      <4> QED
        BY <1>1, <3>1, <4>2, TopReplaced DEF node
    <3>2. t \in Stored \cap Txs
      BY <2>1 DEF WellFormed
    <3> QED
      BY <1>1, <2>1, <3>1, <3>2, Pushed
  <2> QED
    BY <1>1, <1>4, <2>1, <2>2 DEF CreatorInv, StackInv
<1>8. CASE Creator!ReturnToCaller
  <2> DEFINE rest == SubSeq(stack, 1, n - 1)
             node == Creator!Node(call.tx, NoProof, call.parents)
  <2>1. /\ step = "input" /\ UNCHANGED <<tip, step, made, reads>>
        /\ call.i > Len(Inputs[call.tx]) /\ n > 1
        /\ stack' = [rest EXCEPT ![n - 1] = Creator!Adopt(@, node)]
    BY <1>2, <1>8 DEF Creator!ReturnToCaller
  <2>2. StackInv(rest) /\ Len(rest) = n - 1 /\ rest[n - 1] = stack[n - 1]
    BY <1>1, <2>1, Popped
  <2>3. LinkInv(stack, n) /\ FrameInv(stack[n - 1])
    BY <1>1, <2>1 DEF StackInv
  <2>4. IsTree(node) /\ node.tx = call.tx
    <3>1. call.i = Len(Inputs[call.tx]) + 1
      BY <1>3, <2>1
    <3>2. DOMAIN call.parents = Parents(call.tx) /\ AreTrees(call.parents)
      BY <1>1, <1>3, <3>1 DEF FrameInv, Parents
    <3> QED
      BY <2>1, <2>3, <3>2, ParentsMakeTree DEF LinkInv, Creator!Node
  <2> HIDE DEF node, rest
  <2>5. /\ FrameInv(Creator!Adopt(stack[n - 1], node))
        /\ Creator!Adopt(stack[n - 1], node).tx = stack[n - 1].tx
    BY <2>1, <2>3, <2>4, Adopted DEF LinkInv
  <2>6. StackInv(stack')
    BY <2>1, <2>2, <2>5, TopReplaced
  <2> QED
    BY <1>1, <1>4, <2>1, <2>6 DEF CreatorInv, StackInv
<1>9. CASE Creator!Return
  <2>1. /\ step = "input" /\ step' = "returned" /\ UNCHANGED <<tip, stack, reads>>
        /\ call.i > Len(Inputs[call.tx]) /\ n = 1
        /\ made'.parents = call.parents
    BY <1>2, <1>9 DEF Creator!Return, Creator!Node
  <2>2. call.i = Len(Inputs[call.tx]) + 1 /\ call.tx = tip
    BY <1>1, <1>3, <2>1
  <2>3. DOMAIN call.parents = Parents(tip) /\ AreTrees(call.parents)
    BY <1>1, <1>3, <2>2 DEF FrameInv, Parents
  <2> QED
    BY <1>1, <1>4, <2>1, <2>3 DEF CreatorInv, StackInv
<1> QED
  BY <1>5, <1>6, <1>7, <1>8, <1>9 DEF Create, Creator!CreateTxAncestry

-----------------------------------------------------------------------------
(* What is being written *)

SentTxs      == {chunks[j].data : j \in TxChunks(chunks)}
NodesOf(ns)  == UNION {ns[k] : k \in 1..Len(ns)}
PendingNodes == NodesOf(nodes)

\* The transactions written, and those still to be.
Around == SentTxs \cup {x.tx : x \in PendingNodes}

\* A node to be written has a proof that is its own, or its parents are to be
\* written after it or are there.
Backed(x) ==
    /\ x.tx \in Stored
    /\ \/ x.proof \in Evidence(x.tx)
       \/ /\ x.proof = NoProof
          /\ IsTree(x) \/ (x.parents = <<>> /\ Parents(x.tx) \subseteq Around)

TxInv(j) ==
    /\ chunks[j] = [type |-> "tx", data |-> chunks[j].data]
    /\ chunks[j].data \in Stored
    /\ \/ j < Len(chunks) /\ chunks[j + 1].type = "proof"
       \/ Parents(chunks[j].data) \subseteq Around
ProofInv(j) ==
    /\ j > 1 /\ chunks[j].type = "proof" /\ chunks[j - 1].type = "tx"
    /\ chunks[j].data \in Evidence(chunks[j - 1].data)

EncoderInv ==
    /\ relays \in 0..MaxRelays
    /\ \E S : chunks \in Seq(S)
    /\ \E S : nodes \in Seq(S)
    /\ \A j \in 1..Len(chunks) : TxInv(j) \/ ProofInv(j)
    /\ \A x \in PendingNodes : Backed(x)
    /\ Parents(tip) \subseteq Around

\* What arrives as a proof is one.
LEMMA EvidenceIsProof ==
    ASSUME NEW t \in Stored, NEW y \in Evidence(t)
    PROVE  /\ y \in MerkleProofs /\ y # NoProof
           /\ y \in Proofs[t] \/ y.targetType = "block"
<1>1. ASSUME NEW x \in MerkleProofs, NEW a \in {"error", "malformed", "truncated"}
      PROVE  /\ [x EXCEPT !.targetType = "block", !.answer = a] \in MerkleProofs
             /\ [x EXCEPT !.targetType = "block", !.answer = a].targetType = "block"
  BY DEF MerkleProofs
<1>2. Proofs[t] \subseteq MerkleProofs
  BY DEF WellFormed
<1>3. CASE y \in Proofs[t]
  BY <1>2, <1>3 DEF WellFormed
<1>4. CASE \E x \in Proofs[t] : y \in Misread(x)
  <2>1. PICK x \in Proofs[t] : y \in Misread(x)
    BY <1>4
  <2>2. PICK a \in {"error", "malformed", "truncated"} :
           y = [x EXCEPT !.targetType = "block", !.answer = a]
    BY <2>1 DEF Misread
  <2>3. y \in MerkleProofs /\ y.targetType = "block"
    BY <1>1, <1>2, <2>1, <2>2
  <2> QED
    BY <2>3 DEF WellFormed
<1> QED
  BY <1>3, <1>4 DEF Evidence

\* The creator's result, with nothing written of it.
LEMMA BytesStep ==
    ASSUME CreatorInv, Bytes, chunks = <<>>, nodes = <<>>, relays = 0
    PROVE  CreatorInv' /\ EncoderInv' /\ tip' = tip /\ step' = "encode"
<1>1. /\ step = "returned" /\ step' = "encode"
      /\ nodes' = <<ValuesOf(made.parents)>>
      /\ UNCHANGED <<tip, stack, made, chunks, relays>>
  BY DEF Bytes
<1>2. CreatorInv'
  BY <1>1 DEF CreatorInv, StackInv
<1>3. DOMAIN made.parents = Parents(tip) /\ AreTrees(made.parents)
  BY <1>1 DEF CreatorInv
<1>4. PendingNodes' = ValuesOf(made.parents)
  BY <1>1 DEF PendingNodes, NodesOf
<1>5. Parents(tip) \subseteq Around'
  BY <1>3, <1>4 DEF Around, ValuesOf, AreTrees
<1>6. \A x \in PendingNodes' : Backed(x)'
  <2>1. \A x \in PendingNodes' : IsTree(x)
    BY <1>3, <1>4 DEF ValuesOf, AreTrees
  <2>2. \A t : Proofs[t] \subseteq Evidence(t)'
    BY DEF Evidence
  <2> QED
    BY <2>1, <2>2, TreeIs DEF Backed
<1>7. /\ relays' \in 0..MaxRelays /\ Len(chunks') = 0 /\ chunks' \in Seq({})
      /\ nodes' \in Seq({ValuesOf(made.parents)})
  BY <1>1 DEF WellFormed
<1>8. Parents(tip)' = Parents(tip)
  BY <1>1 DEF Parents
<1>9. \A j \in 1..Len(chunks') : FALSE
  BY <1>7
<1>10. EncoderInv'
  BY <1>5, <1>6, <1>7, <1>8, <1>9 DEF EncoderInv
<1> QED
  BY <1>1, <1>2, <1>10

\* The chunks of one node come after those before it.
LEMMA ChunksWritten ==
    ASSUME NEW cs, NEW S, cs \in Seq(S), NEW x
    PROVE  LET L == Len(cs)
               r == cs \o Written(x)
           IN  /\ L \in Nat /\ \E T : r \in Seq(T)
               /\ \A j \in 1..L : r[j] = cs[j]
               /\ r[L + 1] = [type |-> "tx", data |-> x.tx]
               /\ x.proof = NoProof => Len(r) = L + 1
               /\ x.proof # NoProof =>
                     Len(r) = L + 2 /\ r[L + 2] = [type |-> "proof", data |-> x.proof]
<1> DEFINE L == Len(cs)
           a == [type |-> "tx", data |-> x.tx]
           b == [type |-> "proof", data |-> x.proof]
           T == S \cup {a, b}
           w == Written(x)
<1>1. cs \in Seq(T) /\ <<a>> \in Seq(T) /\ <<b>> \in Seq(T) /\ <<>> \in Seq(T)
  OBVIOUS
<1> HIDE DEF T
<1>2. L \in Nat
  BY LenProperties
<1>3. /\ w \in Seq(T) /\ w[1] = a
      /\ x.proof = NoProof => Len(w) = 1
      /\ x.proof # NoProof => Len(w) = 2 /\ w[2] = b
  <2>1. CASE x.proof = NoProof
    BY <1>1, <2>1, ConcatEmptySeq DEF Written
  <2>2. CASE x.proof # NoProof
    <3>1. w = <<a>> \o <<b>>
      BY <2>2 DEF Written
    <3> HIDE DEF w
    <3>2. /\ <<a>> \o <<b>> \in Seq(T) /\ Len(<<a>> \o <<b>>) = Len(<<a>>) + Len(<<b>>)
          /\ \A i \in 1..(Len(<<a>>) + Len(<<b>>)) :
                (<<a>> \o <<b>>)[i] = IF i <= Len(<<a>>) THEN <<a>>[i]
                                      ELSE <<b>>[i - Len(<<a>>)]
      BY <1>1, ConcatProperties
    <3> QED
      BY <2>2, <3>1, <3>2
  <2> QED
    BY <2>1, <2>2
<1> HIDE DEF w, a, b
<1>4. /\ cs \o w \in Seq(T) /\ Len(cs \o w) = L + Len(w)
      /\ \A i \in 1..(L + Len(w)) :
            (cs \o w)[i] = IF i <= L THEN cs[i] ELSE w[i - L]
  BY <1>1, <1>3, ConcatProperties
<1>5. Len(w) \in {1, 2} /\ (x.proof = NoProof \/ x.proof # NoProof)
  BY <1>3
<1>6. \A j \in 1..L : (cs \o w)[j] = cs[j]
  BY <1>2, <1>4, <1>5
<1>7. (cs \o w)[L + 1] = a
  BY <1>2, <1>3, <1>4, <1>5
<1>8. x.proof # NoProof => (cs \o w)[L + 2] = b
  BY <1>2, <1>3, <1>4
<1>9. /\ x.proof = NoProof => Len(cs \o w) = L + 1
      /\ x.proof # NoProof => Len(cs \o w) = L + 2
  BY <1>2, <1>3, <1>4
<1> QED
  BY <1>2, <1>4, <1>6, <1>7, <1>8, <1>9 DEF w, a, b

\* The calls of the encoder after node x: one has a node less, and there is one
\* more when the node has parents to be written.
Left(ns, x, values) == [ns EXCEPT ![Len(ns)] = @ \ {x}]
                          \o (IF x.proof = NoProof THEN <<values>> ELSE <<>>)

\* The nodes left to write, after the next one is: the others, and its parents
\* where it has no proof.
LEMMA NodesLeft ==
    ASSUME NEW ns, NEW S, ns \in Seq(S), Len(ns) > 0, NEW x \in ns[Len(ns)], NEW values
    PROVE  /\ \E T : Left(ns, x, values) \in Seq(T)
           /\ NodesOf(ns) \ {x} \subseteq NodesOf(Left(ns, x, values))
           /\ NodesOf(Left(ns, x, values)) \subseteq
                 NodesOf(ns) \cup (IF x.proof = NoProof THEN values ELSE {})
           /\ x.proof = NoProof => values \subseteq NodesOf(Left(ns, x, values))
<1> DEFINE n == Len(ns)
           m == [ns EXCEPT ![n] = @ \ {x}]
           w == IF x.proof = NoProof THEN <<values>> ELSE <<>>
           T == S \cup {ns[n] \ {x}, values}
           r == Left(ns, x, values)
<1>1. n \in Nat /\ n \in 1..n /\ ns \in Seq(T) /\ values \in T /\ ns[n] \ {x} \in T
  BY LenProperties
<1>2. <<values>> \in Seq(T) /\ <<>> \in Seq(T)
  BY <1>1
<1>3. w \in Seq(T)
  BY <1>2
<1> HIDE DEF T
<1>4. m \in Seq(T) /\ Len(m) = n /\ m[n] = ns[n] \ {x}
      /\ \A k \in 1..n : k # n => m[k] = ns[k]
  BY <1>1, ExceptSeq
<1>5. /\ x.proof = NoProof => Len(w) = 1 /\ w[1] = values
      /\ x.proof # NoProof => Len(w) = 0
  OBVIOUS
<1>6. r = m \o w
  BY DEF Left
<1> HIDE DEF m, w, r
<1>7. /\ m \o w \in Seq(T) /\ Len(m \o w) = Len(m) + Len(w)
      /\ \A i \in 1..(Len(m) + Len(w)) :
            (m \o w)[i] = IF i <= Len(m) THEN m[i] ELSE w[i - Len(m)]
  <2>1. m \in Seq(T) /\ w \in Seq(T)
    BY <1>3, <1>4
  <2> QED
    BY <2>1, ConcatProperties
<1> HIDE DEF n
<1>8. /\ r \in Seq(T) /\ Len(r) = n + Len(w)
      /\ \A i \in 1..(n + Len(w)) : r[i] = IF i <= n THEN m[i] ELSE w[i - n]
  BY <1>4, <1>6, <1>7
<1>9. CASE x.proof = NoProof
  <2>1. /\ Len(r) = n + 1 /\ r[n + 1] = values
        /\ \A k \in 1..n : r[k] = m[k]
    <3>1. Len(w) = 1 /\ w[1] = values
      BY <1>5, <1>9
    <3>2. ASSUME NEW i \in 1..(n + 1), i = n + 1 PROVE r[i] = values
      <4>1. ~ (i <= n) /\ i - n = 1
        BY <1>1, <3>2
      <4>2. r[i] = IF i <= n THEN m[i] ELSE w[i - n]
        BY <1>8, <3>1, <3>2
      <4> QED
        BY <3>1, <4>1, <4>2
    <3>3. n + 1 \in 1..(n + 1)
      BY <1>1
    <3>4. \A k \in 1..n : k \in 1..(n + 1) /\ k <= n
      BY <1>1
    <3> QED
      BY <1>8, <3>1, <3>2, <3>3, <3>4
  <2>2. \A k \in 1..Len(r) : k \in 1..n \/ k = n + 1
    BY <1>1, <2>1
  <2>3. n + 1 \in 1..Len(r) /\ 1..n \subseteq 1..Len(r)
    BY <1>1, <2>1
  <2> QED
    BY <1>4, <1>8, <1>9, <2>1, <2>2, <2>3 DEF n, r, NodesOf
<1>10. CASE x.proof # NoProof
  <2>1. Len(r) = n /\ \A k \in 1..n : r[k] = m[k]
    <3>1. Len(w) = 0 /\ n + 0 = n /\ \A k \in 1..n : k <= n
      BY <1>1, <1>5, <1>10
    <3> QED
      BY <1>8, <3>1
  <2> QED
    BY <1>4, <1>8, <1>10, <2>1 DEF n, r, NodesOf
<1> QED
  BY <1>9, <1>10

\* What is known of a node stays known as more is written.
LEMMA StillBacked ==
    ASSUME NEW x, Backed(x), Around \subseteq Around', relays' = relays
    PROVE  Backed(x)'
<1>1. Evidence(x.tx)' = Evidence(x.tx)
  BY DEF Evidence
<1> QED
  BY <1>1 DEF Backed

\* One node is written.
LEMMA EncodeStep ==
    ASSUME EncoderInv, serialiseInputs
    PROVE  EncoderInv'
<1> DEFINE L == Len(chunks)
<1>1. /\ Len(nodes) > 0 /\ UNCHANGED <<tip, relays>>
      /\ \E node \in nodes[Len(nodes)] :
            /\ chunks' = chunks \o Written(node)
            /\ nodes' = [nodes EXCEPT ![Len(nodes)] = @ \ {node}]
                          \o (IF node.proof = NoProof
                                THEN <<ValuesOf(node.parents)>> ELSE <<>>)
  BY DEF serialiseInputs, Calls, creation
<1>2. PICK node \in nodes[Len(nodes)] :
            /\ chunks' = chunks \o Written(node)
            /\ nodes' = [nodes EXCEPT ![Len(nodes)] = @ \ {node}]
                          \o (IF node.proof = NoProof
                                THEN <<ValuesOf(node.parents)>> ELSE <<>>)
  BY <1>1
<1>3. node \in PendingNodes /\ Backed(node)
  <2>1. Len(nodes) \in 1..Len(nodes)
    BY <1>1 DEF EncoderInv
  <2> QED
    BY <1>2, <2>1 DEF PendingNodes, NodesOf, EncoderInv
<1>4. /\ L \in Nat /\ \E T : chunks' \in Seq(T)
      /\ \A j \in 1..L : chunks'[j] = chunks[j]
      /\ chunks'[L + 1] = [type |-> "tx", data |-> node.tx]
      /\ node.proof = NoProof => Len(chunks') = L + 1
      /\ node.proof # NoProof =>
            /\ Len(chunks') = L + 2
            /\ chunks'[L + 2] = [type |-> "proof", data |-> node.proof]
  BY <1>2, ChunksWritten DEF EncoderInv
<1>5. /\ \E T : nodes' \in Seq(T)
      /\ PendingNodes \ {node} \subseteq PendingNodes'
      /\ PendingNodes' \subseteq PendingNodes
            \cup (IF node.proof = NoProof THEN ValuesOf(node.parents) ELSE {})
      /\ node.proof = NoProof => ValuesOf(node.parents) \subseteq PendingNodes'
  <2>1. PICK S : nodes \in Seq(S)
    BY DEF EncoderInv
  <2>2. nodes' = Left(nodes, node, ValuesOf(node.parents))
    BY <1>2 DEF Left
  <2> QED
    BY <1>1, <2>1, <2>2, NodesLeft DEF PendingNodes
<1>6. L + 1 \in 1..Len(chunks') /\ 1..L \subseteq 1..Len(chunks')
  BY <1>4
<1>7. SentTxs \subseteq SentTxs' /\ node.tx \in SentTxs'
  BY <1>4, <1>6 DEF SentTxs, TxChunks
<1>8. Around \subseteq Around'
  BY <1>5, <1>7 DEF Around
<1>9. \A t : Evidence(t)' = Evidence(t)
  BY <1>1 DEF Evidence
<1>10. node.proof = NoProof => /\ Parents(node.tx) \subseteq Around'
                               /\ \A x \in ValuesOf(node.parents) : IsTree(x)
  <2> SUFFICES ASSUME node.proof = NoProof
               PROVE  /\ Parents(node.tx) \subseteq Around'
                      /\ \A x \in ValuesOf(node.parents) : IsTree(x)
    OBVIOUS
  <2>1. node.tx \in Stored /\ node.proof \notin Evidence(node.tx)
    BY <1>3, EvidenceIsProof DEF Backed
  <2>2. CASE IsTree(node)
    <3>1. node.proof \notin Proofs[node.tx]
      BY <2>1 DEF Evidence
    <3>2. DOMAIN node.parents = Parents(node.tx) /\ AreTrees(node.parents)
      BY <2>2, <3>1, TreeIs
    <3> QED
      BY <1>5, <3>2 DEF AreTrees, Around, ValuesOf
  <2>3. CASE node.parents = <<>> /\ Parents(node.tx) \subseteq Around
    BY <1>8, <2>3 DEF ValuesOf
  <2> QED
    BY <1>3, <2>1, <2>2, <2>3 DEF Backed
<1>11. \A x \in PendingNodes' : Backed(x)'
  <2>1. \A x \in PendingNodes : Backed(x)'
    BY <1>1, <1>8, StillBacked DEF EncoderInv
  <2>2. ASSUME NEW x \in ValuesOf(node.parents), node.proof = NoProof
        PROVE  Backed(x)'
    <3>1. Proofs[x.tx] \subseteq Evidence(x.tx)'
      BY DEF Evidence
    <3> QED
      BY <1>10, <2>2, <3>1, TreeIs DEF Backed
  <2> QED
    BY <1>5, <2>1, <2>2
<1>12. ASSUME NEW j \in 1..Len(chunks') PROVE TxInv(j)' \/ ProofInv(j)'
  <2>1. CASE j \in 1..L
    <3>1. /\ chunks'[j] = chunks[j]
          /\ j < L => j < Len(chunks') /\ chunks'[j + 1] = chunks[j + 1]
          /\ j > 1 => chunks'[j - 1] = chunks[j - 1]
      <4>1. L \in Nat /\ j \in Int /\ 1 <= j /\ j <= L
        BY <1>4, <2>1
      <4>2. chunks'[j] = chunks[j]
        BY <1>4, <2>1
      <4>3. ASSUME j < L
            PROVE  j < Len(chunks') /\ chunks'[j + 1] = chunks[j + 1]
        <5>1. j + 1 \in 1..L
          BY <4>1, <4>3
        <5>2. chunks'[j + 1] = chunks[j + 1]
          BY <1>4, <5>1
        <5>3. j < Len(chunks')
          BY <1>4, <1>6, <4>1, <4>3
        <5> QED
          BY <5>2, <5>3
      <4>4. ASSUME j > 1
            PROVE  chunks'[j - 1] = chunks[j - 1]
        <5>1. j - 1 \in 1..L
          BY <4>1, <4>4
        <5> QED
          BY <1>4, <5>1
      <4> QED
        BY <4>2, <4>3, <4>4
    <3>2. CASE TxInv(j)
      BY <1>8, <3>1, <3>2 DEF TxInv
    <3>3. CASE ProofInv(j)
      BY <1>9, <3>1, <3>3 DEF ProofInv
    <3> QED
      BY <2>1, <3>2, <3>3 DEF EncoderInv
  <2>2. CASE j = L + 1
    <3>1. /\ chunks'[j] = [type |-> "tx", data |-> chunks'[j].data]
          /\ chunks'[j].data = node.tx /\ node.tx \in Stored
      BY <1>3, <1>4, <2>2 DEF Backed
    <3>2. CASE node.proof = NoProof
      BY <1>10, <3>1, <3>2 DEF TxInv
    <3>3. CASE node.proof # NoProof
      <4>1. j < Len(chunks') /\ j + 1 = L + 2
        BY <1>4, <2>2, <3>3
      <4>2. chunks'[j + 1].type = "proof"
        BY <1>4, <3>3, <4>1
      <4> QED
        BY <3>1, <4>1, <4>2 DEF TxInv
    <3> QED
      BY <3>2, <3>3
  <2>3. CASE j = L + 2 /\ node.proof # NoProof
    <3>1. j > 1 /\ j - 1 = L + 1
      BY <1>4, <2>3
    <3>2. /\ chunks'[j].type = "proof" /\ chunks'[j].data = node.proof
          /\ chunks'[j - 1].type = "tx" /\ chunks'[j - 1].data = node.tx
      BY <1>4, <2>3, <3>1
    <3>3. chunks'[j].data \in Evidence(node.tx)
      BY <1>3, <2>3, <3>2 DEF Backed
    <3> QED
      BY <1>9, <3>1, <3>2, <3>3 DEF ProofInv
  <2>4. j \in 1..L \/ j = L + 1 \/ (j = L + 2 /\ node.proof # NoProof)
    <3>1. CASE node.proof = NoProof
      BY <1>4, <3>1
    <3>2. CASE node.proof # NoProof
      BY <1>4, <3>2
    <3> QED
      BY <3>1, <3>2
  <2> QED
    BY <2>1, <2>2, <2>3, <2>4
<1>13. Parents(tip)' \subseteq Around'
  BY <1>1, <1>8 DEF EncoderInv, Parents
<1> QED
  BY <1>1, <1>4, <1>5, <1>11, <1>12, <1>13 DEF EncoderInv

\* A call of the encoder that has written all its nodes returns.
LEMMA EncodeReturn ==
    ASSUME EncoderInv, serialiseInputsReturn
    PROVE  EncoderInv'
<1> DEFINE n == Len(nodes)
<1>1. /\ n > 0 /\ nodes[n] = {} /\ nodes' = SubSeq(nodes, 1, n - 1)
      /\ UNCHANGED <<tip, chunks, relays>>
  BY DEF serialiseInputsReturn, Calls, creation
<1>2. PICK S : nodes \in Seq(S)
  BY DEF EncoderInv
<1>3. /\ n \in Nat /\ nodes' \in Seq(S) /\ Len(nodes') = n - 1
      /\ \A k \in 1..(n - 1) : nodes'[k] = nodes[k]
  <2>1. n \in Nat /\ n - 1 \in Int /\ 1 \in Int /\ \A i \in 1..(n - 1) : nodes[i] \in S
    BY <1>2
  <2> DEFINE m == n - 1
  <2>2. /\ SubSeq(nodes, 1, m) \in Seq(S)
        /\ Len(SubSeq(nodes, 1, m)) = IF 1 <= m THEN m - 1 + 1 ELSE 0
        /\ \A i \in 1..(m - 1 + 1) : SubSeq(nodes, 1, m)[i] = nodes[1 + i - 1]
    <3> HIDE DEF m
    <3> QED
      BY <2>1, SubSeqProperties DEF m
  <2>3. m - 1 + 1 = m /\ \A i \in 1..m : 1 + i - 1 = i
    BY <2>1
  <2>4. m \in Nat
    BY <1>1, <2>1
  <2> HIDE DEF m
  <2>5. \A i \in 1..m : SubSeq(nodes, 1, m)[i] = nodes[i]
    BY <2>2, <2>3
  <2>6. Len(SubSeq(nodes, 1, m)) = m
    BY <2>2, <2>3, <2>4
  <2> QED
    BY <1>1, <2>1, <2>2, <2>5, <2>6 DEF m
<1>4. PendingNodes' = PendingNodes
  <2>1. \A k \in 1..n : k \in 1..(n - 1) \/ k = n
    BY <1>3
  <2>2. \A k \in 1..(n - 1) : k \in 1..n
    BY <1>3
  <2>3. \A y : (\E k \in 1..n : y \in nodes[k]) <=> (\E k \in 1..(n - 1) : y \in nodes'[k])
    BY <1>1, <1>3, <2>1, <2>2
  <2>4. \A y : y \in PendingNodes' <=> \E k \in 1..(n - 1) : y \in nodes'[k]
    BY <1>3 DEF PendingNodes, NodesOf
  <2>5. \A y : y \in PendingNodes <=> \E k \in 1..n : y \in nodes[k]
    BY DEF PendingNodes, NodesOf
  <2> QED
    BY <2>3, <2>4, <2>5
<1>5. Around' = Around
  BY <1>1, <1>4 DEF Around, SentTxs, TxChunks
<1>6. \A t : Evidence(t)' = Evidence(t)
  BY <1>1 DEF Evidence
<1>7. \A x \in PendingNodes' : Backed(x)'
  BY <1>1, <1>4, <1>5, StillBacked DEF EncoderInv
<1>8. \A j \in 1..Len(chunks') : TxInv(j)' \/ ProofInv(j)'
  BY <1>1, <1>5, <1>6 DEF EncoderInv, TxInv, ProofInv
<1> QED
  BY <1>1, <1>3, <1>5, <1>7, <1>8 DEF EncoderInv, Parents

-----------------------------------------------------------------------------
(* Passing the ancestry on *)

\* A set of numbers that are not above n has a last one.
LEMMA LastNumber ==
    ASSUME NEW n \in Nat, NEW S \in SUBSET (1..n), S # {}
    PROVE  \E j \in S : \A m \in S : m <= j
<1> DEFINE R == {ss \in Nat \X Nat : ss[1] < ss[2]}
           T == {n - j : j \in S}
<1>1. IsWellFoundedOn(R, Nat)
  BY NatLessThanWellFounded DEF OpToRel
<1>2. T \in SUBSET Nat /\ T # {}
  <2>1. \A j \in S : n - j \in Nat
    OBVIOUS
  <2>2. PICK j \in S : TRUE
    OBVIOUS
  <2>3. n - j \in T
    OBVIOUS
  <2> QED
    BY <2>1, <2>3
<1> HIDE DEF R, T
<1>3. PICK k \in T : \A l \in T : ~ (<<l, k>> \in R)
  BY <1>1, <1>2, WFMin
<1>4. \A l \in T : ~ (l < k)
  BY <1>2, <1>3 DEF R
<1>5. PICK j \in S : k = n - j
  BY DEF T
<1>6. ASSUME NEW m \in S PROVE m <= j
  <2>1. n - m \in T
    BY DEF T
  <2> QED
    BY <1>4, <1>5, <2>1
<1> QED
  BY <1>6

\* The proof a transaction arrives with is its own; without one it arrives
\* with what it spends from.
LEMMA ParsedIsOwn ==
    ASSUME EncoderInv, NEW t \in SentTxs
    PROVE  /\ t \in Stored
           /\ \/ Parsed(t) \in Evidence(t)
              \/ Parsed(t) = NoProof /\ Parents(t) \subseteq Around
<1> DEFINE tx == [type |-> "tx", data |-> t]
           at == {j \in DOMAIN chunks : chunks[j] = tx}
           last == CHOOSE j \in at : \A m \in at : m <= j
<1>1. Len(chunks) \in Nat /\ DOMAIN chunks = 1..Len(chunks)
  BY LenProperties DEF EncoderInv
<1>2. at # {}
  <2>1. PICK j \in 1..Len(chunks) : chunks[j].type = "tx" /\ chunks[j].data = t
    BY DEF SentTxs, TxChunks
  <2>2. chunks[j] = tx
    BY <2>1 DEF EncoderInv, TxInv, ProofInv
  <2> QED
    BY <1>1, <2>2
<1>3. last \in at
  <2>1. \E j \in at : \A m \in at : m <= j
    BY <1>1, <1>2, LastNumber
  <2> HIDE DEF at
  <2> QED
    BY <2>1
<1> HIDE DEF last
<1>4. /\ last \in 1..Len(chunks) /\ last \in Nat
      /\ chunks[last].type = "tx" /\ chunks[last].data = t
  BY <1>1, <1>3
<1>5. TxInv(last)
  BY <1>4 DEF EncoderInv, ProofInv
<1>6. Parsed(t) = IF last < Len(chunks) /\ chunks[last + 1].type = "proof"
                         THEN chunks[last + 1].data ELSE NoProof
  BY DEF Parsed, last
<1>7. CASE last < Len(chunks) /\ chunks[last + 1].type = "proof"
  <2> DEFINE next == last + 1
  <2>1. next \in 1..Len(chunks) /\ next - 1 = last
    BY <1>1, <1>4, <1>7
  <2>2. chunks[next].type = "proof"
    BY <1>7
  <2> HIDE DEF next
  <2>3. ProofInv(next)
    <3>1. TxInv(next) \/ ProofInv(next)
      BY <2>1 DEF EncoderInv
    <3>2. ~ TxInv(next)
      BY <2>2 DEF TxInv
    <3> QED
      BY <3>1, <3>2
  <2>4. chunks[next].data \in Evidence(t)
    BY <1>4, <2>1, <2>3 DEF ProofInv
  <2> QED
    BY <1>4, <1>5, <1>6, <1>7, <2>4 DEF TxInv, next
<1>8. CASE ~ (last < Len(chunks) /\ chunks[last + 1].type = "proof")
  BY <1>4, <1>5, <1>6, <1>8 DEF TxInv
<1> QED
  BY <1>7, <1>8

\* A proof is itself after it was passed on, or has become one about a block.
LEMMA ReencodedIsEvidence ==
    ASSUME NEW t \in Stored, NEW y \in Evidence(t),
           NEW z \in Reencoded(y), relays' # 0
    PROVE  z \in Evidence(t)'
<1>1. Proofs[t] \cup UNION {Misread(x) : x \in Proofs[t]} = Evidence(t)'
  BY DEF Evidence
<1>2. y \in Evidence(t)'
  BY <1>1 DEF Evidence
<1>3. CASE y.targetType = "block"
  BY <1>2, <1>3 DEF Reencoded
<1>4. CASE y.targetType # "block"
  <2>1. y \in Proofs[t] /\ y.targetType \in {"root", "header"}
    BY <1>4, EvidenceIsProof DEF MerkleProofs
  <2>2. z \in Misread(y)
    BY <2>1 DEF Reencoded, Misread
  <2> QED
    BY <1>1, <2>1, <2>2
<1> QED
  BY <1>3, <1>4

\* Every transaction is passed on, with its proof or with what it spends from.
LEMMA RelayStep ==
    ASSUME EncoderInv, Relay
    PROVE  EncoderInv'
<1> DEFINE proven == {t \in SentTxs : Parsed(t) # NoProof}
           Made(f) == {[tx |-> t, parents |-> <<>>,
                        proof |-> IF t \in proven THEN f[t] ELSE NoProof] : t \in SentTxs}
<1>1. /\ Len(nodes) = 0 /\ relays < MaxRelays /\ relays' = relays + 1 /\ chunks' = <<>>
      /\ tip' = tip
  BY DEF Relay, Calls, creation
<1>2. \E f : /\ \A t \in proven : f[t] \in Reencoded(Parsed(t))
             /\ nodes' = <<Made(f)>>
  <2>1. SentTxs = {chunks[j].data : j \in {m \in DOMAIN chunks : chunks[m].type = "tx"}}
    <3>1. DOMAIN chunks = 1..Len(chunks)
      BY LenProperties DEF EncoderInv
    <3> QED
      BY <3>1 DEF SentTxs, TxChunks
  <2> QED
    BY <2>1 DEF Relay
<1>3. PICK f : /\ \A t \in proven : f[t] \in Reencoded(Parsed(t))
               /\ nodes' = <<Made(f)>>
  BY <1>2
<1>4. PendingNodes' = Made(f)
  BY <1>3 DEF PendingNodes, NodesOf
<1>5. SentTxs' = {} /\ Around = SentTxs
  <2>1. \A j \in 1..Len(chunks') : FALSE
    BY <1>1
  <2>2. SentTxs' = {}
    BY <2>1 DEF SentTxs, TxChunks
  <2>3. PendingNodes = {}
    BY <1>1 DEF PendingNodes, NodesOf
  <2> QED
    BY <2>2, <2>3 DEF Around
<1>6. Around' = Around
  <2>1. \A x \in Made(f) : x.tx \in SentTxs
    OBVIOUS
  <2>2. ASSUME NEW t \in SentTxs PROVE \E x \in Made(f) : x.tx = t
    <3>1. [tx |-> t, parents |-> <<>>,
           proof |-> IF t \in proven THEN f[t] ELSE NoProof] \in Made(f)
      OBVIOUS
    <3> HIDE DEF proven, Made
    <3> QED
      BY <3>1
  <2> HIDE DEF Made
  <2> QED
    BY <1>4, <1>5, <2>1, <2>2 DEF Around
<1>7. relays' # 0 /\ relays' \in 0..MaxRelays
  BY <1>1 DEF EncoderInv, WellFormed
<1>8. ASSUME NEW x \in PendingNodes' PROVE Backed(x)'
  <2>1. PICK t \in SentTxs :
           /\ x.tx = t /\ x.parents = <<>>
           /\ x.proof = IF t \in proven THEN f[t] ELSE NoProof
    BY <1>4, <1>8
  <2>2. /\ t \in Stored
        /\ \/ Parsed(t) \in Evidence(t)
           \/ Parsed(t) = NoProof /\ Parents(t) \subseteq Around
    BY ParsedIsOwn
  <2>3. CASE t \in proven
    <3>1. x.proof \in Reencoded(Parsed(t)) /\ Parsed(t) \in Evidence(t)
      BY <1>3, <2>1, <2>2, <2>3
    <3>2. x.proof \in Evidence(t)'
      BY <1>7, <2>2, <3>1, ReencodedIsEvidence
    <3> QED
      BY <2>1, <2>2, <3>2 DEF Backed
  <2>4. CASE t \notin proven
    <3>1. Parents(t) \subseteq Around'
      BY <1>6, <2>2, <2>4, EvidenceIsProof
    <3> QED
      BY <2>1, <2>2, <2>4, <3>1 DEF Backed
  <2> QED
    BY <2>3, <2>4
<1>9. /\ \E S : chunks' \in Seq(S)
      /\ \E S : nodes' \in Seq(S)
      /\ \A j \in 1..Len(chunks') : FALSE
  <2>1. chunks' \in Seq({}) /\ Len(chunks') = 0
    BY <1>1
  <2>2. nodes' \in Seq({Made(f)})
    BY <1>3
  <2> QED
    BY <2>1, <2>2
<1>10. Parents(tip)' \subseteq Around'
  BY <1>1, <1>6 DEF EncoderInv, Parents
<1> QED
  BY <1>7, <1>8, <1>9, <1>10 DEF EncoderInv

-----------------------------------------------------------------------------
(* The whole flow *)

\* The verifier is built, with a header chain, and is asked about the payment.
Receiver ==
    /\ ctor = <<>> /\ opts = ApplyAll(Defaults, ctor) /\ hasChain = TRUE /\ built = "yes"
    /\ Calling = {1} /\ Domains
    /\ DOMAIN payment[1] = {"tx", "version", "chunks", "short"}
    /\ payment[1].tx = tip /\ payment[1].version = 1 /\ ~ payment[1].short

\* Nothing has been delivered.
Waiting ==
    /\ pc[1] = "none" /\ step # "delivered"
    /\ pos[1] = 1 /\ aa[1] = <<>> /\ todo[1] = {}

\* What was written is being verified.
Arrived ==
    /\ pc[1] # "none" /\ step = "delivered"
    /\ nodes = <<>> /\ payment[1].chunks = chunks
    /\ IInv /\ SentInv(1)
    /\ Honest(payment[1]) => Justified(1)

FlowInv ==
    /\ CreatorInv
    /\ step \in {"encode", "delivered"} => EncoderInv
    /\ step \notin {"encode", "delivered"} => chunks = <<>> /\ nodes = <<>> /\ relays = 0
    /\ Receiver
    /\ Waiting \/ Arrived

\* No options leave the options as they are.
LEMMA NoOptions == ASSUME NEW opt PROVE ApplyAll(opt, <<>>) = opt
<1> DEFINE Is(f) == f = [j \in 0..Len(<<>>) |->
                           IF j = 0 THEN opt ELSE Apply(f[j - 1], <<>>[j])]
           g == [j \in {0} |-> opt]
<1>1. Len(<<>>) = 0 /\ 0..0 = {0}
  OBVIOUS
<1>2. Is(g)
  BY <1>1
<1>3. \E f : Is(f)
  BY <1>2
<1>4. ASSUME NEW f, Is(f) PROVE f[Len(<<>>)] = opt
  BY <1>1, <1>4
<1>5. ApplyAll(opt, <<>>) = (CHOOSE f : Is(f))[Len(<<>>)]
  BY DEF ApplyAll
<1>6. Is(CHOOSE f : Is(f))
  <2> HIDE DEF Is
  <2> QED
    BY <1>3
<1> HIDE DEF Is
<1> QED
  BY <1>4, <1>5, <1>6

\* Before anything is asked of the creator, all of it holds.
LEMMA InitFlowInv == ASSUME FlowInit PROVE FlowInv
<1>1. /\ tip \in Tips /\ tip \in Txs
      /\ stack = <<Creator!Frame(tip)>>
      /\ step = IF Inputs[tip] = <<>> THEN "ErrNoTxInputs" ELSE "input"
      /\ chunks = <<>> /\ nodes = <<>> /\ relays = 0
  BY DEF FlowInit, Creator!Init, WellFormed
<1>2. CreatorInv
  <2>1. stack \in Seq({Creator!Frame(tip)}) /\ Len(stack) = 1
        /\ stack[1] = Creator!Frame(tip)
    BY <1>1
  <2>2. StackInv(stack)
    <3>1. FrameInv(stack[1]) /\ stack[1].tx = tip
      BY <1>1, <2>1, NewFrame DEF Creator!Frame
    <3>2. \A k \in 1..Len(stack) : k = 1 /\ ~ (k > 1)
      BY <2>1
    <3> QED
      BY <2>1, <3>1, <3>2 DEF StackInv, LinkInv
  <2> QED
    BY <1>1, <2>2 DEF CreatorInv
<1>3. Receiver
  <2>1. ctor = <<>> /\ opts = ApplyAll(Defaults, ctor)
    BY NoOptions DEF FlowInit
  <2> QED
    BY <2>1 DEF FlowInit, Receiver, Calling, Domains
<1>4. Waiting
  BY <1>1 DEF FlowInit, Waiting
<1> QED
  BY <1>1, <1>2, <1>3, <1>4 DEF FlowInv

\* The creator and the encoder do nothing to the verifier.
LEMMA StillWaiting ==
    ASSUME FlowInv, UNCHANGED vars, tip' = tip, step # "delivered",
           step' # "delivered"
    PROVE  Receiver' /\ Waiting'
<1>1. Waiting /\ Receiver
  BY DEF FlowInv, Arrived
<1>2. UNCHANGED <<ctor, opts, hasChain, built, pc, payment, given, o, pos, txid, aa, todo>>
  BY DEF vars
<1> QED
  BY <1>1, <1>2 DEF Receiver, Waiting, Calling, Domains

\* What the creator has found is not changed afterwards.
LEMMA StillCreated ==
    ASSUME CreatorInv, UNCHANGED <<tip, stack, made>>, step \in {"encode", "delivered"},
           step' \in {"encode", "delivered"}
    PROVE  CreatorInv'
BY DEF CreatorInv, StackInv

\* What the encoder has written is not changed afterwards.
LEMMA StillEncoded ==
    ASSUME EncoderInv, UNCHANGED <<tip, nodes, chunks, relays>>
    PROVE  EncoderInv'
<1>1. /\ PendingNodes' = PendingNodes /\ Around' = Around
      /\ \A t : Evidence(t)' = Evidence(t)
  BY DEF PendingNodes, NodesOf, Around, SentTxs, TxChunks, Evidence
<1>2. \A x \in PendingNodes' : Backed(x)'
  BY <1>1 DEF EncoderInv, Backed
<1>3. \A j \in 1..Len(chunks') : TxInv(j)' \/ ProofInv(j)'
  BY <1>1 DEF EncoderInv, TxInv, ProofInv
<1> QED
  BY <1>1, <1>2, <1>3 DEF EncoderInv

\* The call is asked about what was written.
LEMMA DeliverStep ==
    ASSUME FlowInv, Deliver
    PROVE  FlowInv'
<1>1. /\ step = "encode" /\ step' = "delivered" /\ Len(nodes) = 0
      /\ payment' = [payment EXCEPT ![1].chunks = chunks]
      /\ pc' = [pc EXCEPT ![1] = "idle"]
      /\ UNCHANGED <<tip, stack, made, reads, nodes, chunks, relays, ctor, opts,
                     hasChain, built, given, o, pos, txid, aa, todo>>
  BY DEF Deliver, Calls, encoding
<1>2. CreatorInv /\ EncoderInv /\ Receiver /\ Waiting
  BY <1>1 DEF FlowInv, Arrived
<1>3. CreatorInv'
  BY <1>1, <1>2, StillCreated
<1>4. EncoderInv'
  BY <1>1, <1>2, StillEncoded
<1>5. /\ Calling' = {1} /\ DOMAIN payment'[1] = {"tx", "version", "chunks", "short"}
      /\ payment'[1].tx = tip /\ payment'[1].version = 1 /\ payment'[1].chunks = chunks
      /\ ~ payment'[1].short
      /\ pc'[1] = "idle" /\ DOMAIN pc' = {1}
  BY <1>1, <1>2 DEF Receiver, Calling, Domains
<1>6. Receiver'
  BY <1>1, <1>2, <1>5 DEF Receiver, Domains
<1>7. CallInv(1)'
  <2>1. /\ payment'[1].tx \in Txs /\ Len(chunks) \in Nat
    BY <1>2, <1>5, LenProperties DEF CreatorInv, StackInv, FrameInv, EncoderInv
  <2>2. OptionsInv(1)' /\ ChecksInv(1)'
    BY <1>5 DEF OptionsInv, ChecksInv
  <2>3. ParserInv(1)'
    BY <1>1, <1>2, <1>5, <2>1 DEF ParserInv, Waiting, Chunks
  <2>4. AncestryInv(1)'
    BY <1>1, <1>2, <1>5 DEF AncestryInv, Waiting, Checking
  <2> QED
    BY <1>5, <2>2, <2>3, <2>4 DEF CallInv, Running
<1>8. IInv'
  <2>1. OptionsIsolated'
    BY <1>5 DEF OptionsIsolated
  <2> QED
    BY <1>5, <1>6, <1>7, <2>1 DEF IInv, Receiver
<1>9. SentInv(1)' /\ Justified(1)'
  BY <1>5 DEF SentInv, Justified, Checking, Errors
<1>10. nodes = <<>>
  BY <1>1, <1>2, EmptySeq DEF EncoderInv
<1> QED
  BY <1>1, <1>3, <1>4, <1>5, <1>6, <1>8, <1>9, <1>10 DEF FlowInv, Arrived

\* The verifier goes through what has arrived.
LEMMA VerifyStep ==
    ASSUME FlowInv, Verify
    PROVE  FlowInv'
<1>1. Call(1) /\ UNCHANGED <<creation, encoding>>
  BY DEF Verify
<1>2. UNCHANGED <<tip, stack, step, made, reads, nodes, chunks, relays>>
  BY <1>1 DEF creation, encoding
<1>3. pc[1] # "none"
  BY <1>1 DEF Call, VerifyPayment, parseAncestry, parseChunk, parseReturn, VerifyFees,
     VerifyAncestor, Return
<1>4. Arrived /\ Receiver /\ 1 \in Calling
  BY <1>3 DEF FlowInv, Waiting, Receiver
<1>5. IInv' /\ SentInv(1)'
  BY <1>1, <1>4, CallStep, SentStep DEF Arrived
<1>6. /\ UNCHANGED <<ctor, opts, hasChain, built>> /\ payment' = payment
      /\ Calling' = Calling /\ Domains'
  <2>1. UNCHANGED <<verifier, request>> /\ Domains'
    BY <1>1, <1>4, OthersAreSame DEF Receiver
  <2> QED
    BY <2>1 DEF verifier, request, Calling
<1>7. Honest(payment[1])' => Justified(1)'
  BY <1>1, <1>4, <1>6, HonestStep DEF Arrived
<1>8. pc'[1] # "none"
  <2>1. CallInv(1)'
    BY <1>4, <1>5, <1>6 DEF IInv
  <2> QED
    BY <2>1 DEF CallInv, Running, Errors, Panics
<1>9. Arrived'
  BY <1>2, <1>4, <1>5, <1>6, <1>7, <1>8 DEF Arrived
<1>10. CreatorInv' /\ EncoderInv'
  BY <1>2, <1>4, StillCreated, StillEncoded DEF FlowInv, Arrived
<1>11. Receiver'
  BY <1>2, <1>4, <1>6 DEF Receiver
<1> QED
  BY <1>2, <1>4, <1>9, <1>10, <1>11 DEF FlowInv, Arrived

\* Every step of the flow keeps it.
LEMMA FlowStep == ASSUME FlowInv, [FlowNext]_flow PROVE FlowInv'
<1>1. CASE Create
  <2>1. /\ CreatorInv' /\ tip' = tip
        /\ step \in {"input", "proof"}
        /\ step' \in {"input", "proof", "failed", "returned"}
        /\ UNCHANGED <<vars, encoding>>
    BY <1>1, CreateStep DEF FlowInv
  <2>2. Receiver' /\ Waiting'
    BY <2>1, StillWaiting
  <2> QED
    BY <2>1, <2>2 DEF FlowInv, encoding
<1>2. CASE Bytes
  <2>1. step = "returned" /\ UNCHANGED vars
    BY <1>2 DEF Bytes
  <2>2. CreatorInv' /\ EncoderInv' /\ tip' = tip /\ step' = "encode"
    BY <1>2, <2>1, BytesStep DEF FlowInv
  <2>3. Receiver' /\ Waiting'
    BY <2>1, <2>2, StillWaiting
  <2> QED
    BY <2>2, <2>3 DEF FlowInv
<1>3. CASE serialiseInputs \/ serialiseInputsReturn \/ Relay
  <2>1. /\ step = "encode" /\ UNCHANGED <<vars, creation>>
    BY <1>3 DEF serialiseInputs, serialiseInputsReturn, Relay
  <2>2. UNCHANGED <<tip, stack, step, made>>
    BY <2>1 DEF creation
  <2>3. EncoderInv'
    BY <1>3, <2>1, EncodeStep, EncodeReturn, RelayStep DEF FlowInv
  <2>4. CreatorInv'
    BY <2>1, <2>2, StillCreated DEF FlowInv
  <2>5. Receiver' /\ Waiting'
    BY <2>1, <2>2, StillWaiting
  <2> QED
    BY <2>1, <2>2, <2>3, <2>4, <2>5 DEF FlowInv
<1>4. CASE UNCHANGED flow
  <2>1. /\ UNCHANGED <<creation, vars, encoding>>
        /\ UNCHANGED <<tip, stack, step, made, reads, nodes, chunks, relays>>
        /\ UNCHANGED <<ctor, opts, hasChain, built, pc, payment, given, o, pos, txid, aa,
                       todo>>
    BY <1>4 DEF flow, creation, vars, encoding
  <2>2. UNCHANGED vars /\ UNCHANGED <<verifier, request>> /\ Calling' = Calling
    BY <2>1 DEF vars, verifier, request, Calling
  <2>3. CreatorInv'
    BY <2>1 DEF FlowInv, CreatorInv, StackInv, Creator!Call, Creator!pTxID
  <2>4. EncoderInv => EncoderInv'
    BY <2>1, StillEncoded
  <2>5. Receiver'
    BY <2>1, <2>2 DEF FlowInv, Receiver, Domains
  <2>6. Waiting => Waiting'
    BY <2>1 DEF Waiting
  <2>7. Arrived => Arrived'
    <3> SUFFICES ASSUME Arrived PROVE Arrived'
      OBVIOUS
    <3>1. IInv'
      BY <2>2, StutterStep DEF Arrived
    <3>2. SentInv(1)'
      BY <2>1, <2>2, SameSentInv DEF Arrived
    <3>3. Honest(payment[1])' => Justified(1)'
      <4>1. Asked(1)' = Asked(1) /\ payment' = payment /\ hasChain' = hasChain /\ pc' = pc
        BY <2>1, <2>2, Fixed
      <4>2. IsFeePaidEnough(payment[1].tx, Asked(1).feeQuote)'
              = IsFeePaidEnough(payment[1].tx, Asked(1).feeQuote)
        BY <4>1 DEF IsFeePaidEnough, Spent, Paid, Satoshis
      <4>3. Justified(1) => Justified(1)'
        BY <4>1, <4>2 DEF Justified, Errors
      <4> QED
        BY <4>1, <4>3 DEF Arrived
    <3> QED
      BY <2>1, <3>1, <3>2, <3>3 DEF Arrived
  <2> QED
    BY <2>1, <2>3, <2>4, <2>5, <2>6, <2>7 DEF FlowInv
<1> QED
  BY <1>1, <1>2, <1>3, <1>4, DeliverStep, VerifyStep DEF FlowNext

\* The flow keeps this from its beginning, whatever the stores hold.
THEOREM FlowInvariance == FlowSpec => []FlowInv
<1>1. FlowInit => FlowInv
  BY InitFlowInv
<1>2. FlowInv /\ [FlowNext]_flow => FlowInv'
  BY FlowStep
<1> QED
  BY <1>1, <1>2, PTL DEF FlowSpec

-----------------------------------------------------------------------------
(* What follows from it *)

\* Every variable has its type: no call of the creator stands beyond the inputs
\* of its transaction, none of its parents is unknown to the store, and nothing
\* is verified that was not delivered.
THEOREM FlowTypeCorrect == FlowSpec => []FlowTypeOK
<1>1. ASSUME FlowInv PROVE FlowTypeOK
  <2>1. CreatorInv /\ StackInv(stack)
    BY <1>1 DEF FlowInv, CreatorInv
  <2>2. ASSUME NEW k \in DOMAIN stack
        PROVE  /\ stack[k].i \in 1..(Len(Inputs[stack[k].tx]) + 1)
               /\ DOMAIN stack[k].parents \subseteq Stored
    <3>1. k \in 1..Len(stack)
      BY <2>1, <2>2, LenProperties DEF StackInv
    <3>2. FrameInv(stack[k])
      BY <2>1, <3>1 DEF StackInv
    <3> QED
      BY <3>2, TreeIs DEF FrameInv, AreTrees
  <2>3. relays \in 0..MaxRelays
    BY <1>1 DEF FlowInv, EncoderInv, WellFormed
  <2>4. pc[1] = "none" \/ (step = "delivered" /\ TypeOK)
    BY <1>1, TypeInvariant DEF FlowInv, Waiting, Arrived, Receiver
  <2> QED
    BY <2>1, <2>2, <2>3, <2>4 DEF FlowTypeOK, Failed, CreatorInv
<1> QED
  BY <1>1, FlowInvariance, PTL

\* To spend from a set is to have all parents in it.
LEMMA SpendsFromParents ==
    ASSUME NEW t \in Txs, NEW S
    PROVE  SpendsFrom(t, S) <=> Parents(t) \subseteq S
<1>1. DOMAIN Inputs[t] = 1..Len(Inputs[t])
  BY PaymentAssumption, LenProperties
<1> QED
  BY <1>1 DEF SpendsFrom, Parents

\* Each transaction arrives with a proof of its own right after it, or with
\* what it spends from.
LEMMA WhatArrives ==
    ASSUME CreatorInv, EncoderInv, nodes = <<>>
    PROVE  /\ SentTxs \subseteq Stored /\ Parents(tip) \subseteq SentTxs
           /\ \A j \in 1..Len(chunks) : chunks[j].type \in {"tx", "proof"}
           /\ \A j \in TxChunks(chunks) :
                 /\ \A m \in 1..Len(chunks) :
                       chunks[m].type = "proof" /\ Follows(chunks, m, j) =>
                         chunks[m].data \in Evidence(chunks[j].data)
                 /\ (\A m \in 1..Len(chunks) :
                       chunks[m].type = "proof" => ~ Follows(chunks, m, j)) =>
                         Parents(chunks[j].data) \subseteq SentTxs
<1>1. Around = SentTxs
  <2>1. PendingNodes = {}
    BY DEF PendingNodes, NodesOf
  <2> QED
    BY <2>1 DEF Around
<1>2. Len(chunks) \in Nat /\ \A j \in 1..Len(chunks) : TxInv(j) \/ ProofInv(j)
  BY LenProperties DEF EncoderInv
<1>3. \A j \in TxChunks(chunks) : j \in 1..Len(chunks) /\ TxInv(j)
  BY <1>2 DEF TxChunks, ProofInv
<1>4. \A m \in 1..Len(chunks) : chunks[m].type = "proof" => ProofInv(m)
  <2>1. \A m \in 1..Len(chunks) : TxInv(m) => chunks[m].type = "tx"
    BY DEF TxInv
  <2> QED
    BY <1>2, <2>1
<1>5. SentTxs \subseteq Stored
  BY <1>3 DEF SentTxs, TxInv
<1>6. \A j \in 1..Len(chunks) : chunks[j].type \in {"tx", "proof"}
  <2>1. \A j \in 1..Len(chunks) : TxInv(j) => chunks[j].type = "tx"
    BY DEF TxInv
  <2> QED
    BY <1>2, <2>1 DEF ProofInv
<1>7. ASSUME NEW j \in TxChunks(chunks), NEW m \in 1..Len(chunks),
             chunks[m].type = "proof", Follows(chunks, m, j)
      PROVE  chunks[m].data \in Evidence(chunks[j].data)
  <2>1. ProofInv(m) /\ m > 1 /\ chunks[m - 1].type = "tx"
    BY <1>4, <1>7 DEF ProofInv
  <2>2. m - 1 \in TxChunks(chunks) /\ m - 1 < m /\ j \in 1..Len(chunks)
    BY <1>2, <1>3, <2>1 DEF TxChunks
  <2>3. m - 1 = j
    BY <1>2, <1>7, <2>2 DEF Follows
  <2> QED
    BY <2>1, <2>3 DEF ProofInv
<1>8. ASSUME NEW j \in TxChunks(chunks),
             \A m \in 1..Len(chunks) : chunks[m].type = "proof" => ~ Follows(chunks, m, j)
      PROVE  Parents(chunks[j].data) \subseteq SentTxs
  <2>1. TxInv(j) /\ j \in 1..Len(chunks)
    BY <1>3
  <2>2. ~ (j < Len(chunks) /\ chunks[j + 1].type = "proof")
    <3> SUFFICES ASSUME j < Len(chunks), chunks[j + 1].type = "proof" PROVE FALSE
      OBVIOUS
    <3> DEFINE m == j + 1
    <3>1. m \in 1..Len(chunks) /\ j < m
      BY <1>2, <2>1
    <3>2. \A x \in TxChunks(chunks) : x <= j \/ x > m
      <4> TAKE x \in TxChunks(chunks)
      <4>1. x # m /\ x \in 1..Len(chunks)
        BY <3>1 DEF TxChunks
      <4> QED
        BY <1>2, <2>1, <4>1
    <3> QED
      BY <1>8, <3>1, <3>2 DEF Follows
  <2> QED
    BY <1>1, <2>1, <2>2 DEF TxInv
<1> QED
  BY <1>1, <1>5, <1>6, <1>7, <1>8 DEF EncoderInv

\* Some proof arrives as what it is not.
AnyMisread ==
    /\ relays > 0
    /\ \E t \in Stored : \E x \in Proofs[t] : \E j \in DOMAIN chunks :
          chunks[j].data \in Misread(x)

\* When the stores tell the truth, what arrives is an honest payment, unless
\* something is misread.
LEMMA WhatArrivesIsHonest ==
    ASSUME Truthful, FlowInv, Arrived, ~ AnyMisread
    PROVE  Honest(payment[1])
<1>1. /\ CreatorInv /\ EncoderInv /\ nodes = <<>> /\ Inputs[tip] # <<>>
      /\ payment[1].chunks = chunks /\ payment[1].tx = tip /\ payment[1].version = 1
      /\ ~ payment[1].short
      /\ tip \in Txs /\ tip \in Tips
  BY DEF FlowInv, Arrived, Receiver, CreatorInv, WellFormed
<1>2. Len(chunks) \in Nat /\ DOMAIN chunks = 1..Len(chunks)
  BY <1>1, LenProperties DEF EncoderInv
<1>3. Ancestry(payment[1]) = SentTxs \cup {tip}
  BY <1>1 DEF Ancestry, SentTxs
<1>4. ASSUME NEW t \in Stored, NEW j \in 1..Len(chunks),
             chunks[j].data \in Evidence(t)
      PROVE  OwnProof(chunks[j].data, t)
  <2>1. \A x \in Proofs[t] : chunks[j].data \notin Misread(x) \/ relays = 0
    BY <1>1, <1>2 DEF AnyMisread, EncoderInv, WellFormed
  <2>2. chunks[j].data \in Proofs[t]
    BY <1>4, <2>1 DEF Evidence
  <2> QED
    BY <2>2, EvidenceIsProof, <1>4 DEF Truthful, OwnProof, WellFormed
<1>5. chunks # <<>> /\ chunks[1].type = "tx"
  <2>1. Len(Inputs[tip]) \in Nat \ {0}
    BY <1>1, PaymentAssumption, EmptySeq
  <2>2. Parents(tip) # {}
    <3>1. 1 \in 1..Len(Inputs[tip])
      BY <2>1
    <3>2. Inputs[tip][1].tx \in Parents(tip)
      BY <3>1 DEF Parents
    <3> QED
      BY <3>2
  <2>3. SentTxs # {}
    BY <1>1, <2>2, WhatArrives
  <2>4. 1 \in 1..Len(chunks)
    BY <1>2, <2>3 DEF SentTxs, TxChunks
  <2>5. ~ ProofInv(1)
    BY DEF ProofInv
  <2>6. TxInv(1)
    BY <1>1, <2>4, <2>5 DEF EncoderInv
  <2> QED
    BY <2>4, <2>6 DEF TxInv
<1>6. ASSUME NEW j \in 1..Len(chunks)
      PROVE  /\ chunks[j].type \in {"tx", "proof", "mapi", "other"}
             /\ chunks[j].type # "mapi"
             /\ chunks[j].type = "tx" => chunks[j].data \in Txs
  <2>1. CASE TxInv(j)
    <3>1. chunks[j].type = "tx" /\ chunks[j].data \in Txs
      BY <2>1 DEF TxInv, WellFormed
    <3> QED
      BY <3>1
  <2>2. CASE ProofInv(j)
    BY <2>2 DEF ProofInv
  <2> QED
    BY <1>1, <2>1, <2>2 DEF EncoderInv
<1>7. ASSUME NEW t \in SentTxs \cup {tip}
      PROVE  /\ t \in Txs /\ Inputs[t] # <<>>
             /\ \A i \in DOMAIN Inputs[t] :
                   Inputs[t][i].tx \in SentTxs \cup {tip} => InBounds(Inputs[t][i])
  <2>1. SentTxs \subseteq Stored
    BY <1>1, WhatArrives
  <2>2. \A in : InBounds(in) = InBounds(in)
    OBVIOUS
  <2> QED
    BY <1>1, <2>1, <2>2 DEF Truthful, WellFormed
<1>8. SpendsFrom(tip, SentTxs \cup {tip})
  BY <1>1, WhatArrives, SpendsFromParents
<1>9. ASSUME NEW j \in TxChunks(chunks)
      PROVE  LET proofs == {m \in 1..Len(chunks) :
                              chunks[m].type = "proof" /\ Follows(chunks, m, j)}
             IN  /\ \A m \in proofs : OwnProof(chunks[m].data, chunks[j].data)
                 /\ proofs = {} => SpendsFrom(chunks[j].data, SentTxs \cup {tip})
  <2> DEFINE t == chunks[j].data
  <2>1. t \in SentTxs /\ t \in Stored /\ t \in Txs
    BY <1>1, WhatArrives DEF SentTxs, WellFormed
  <2>2. \A m \in 1..Len(chunks) : chunks[m].type = "proof" /\ Follows(chunks, m, j) =>
           OwnProof(chunks[m].data, t)
    BY <1>1, <1>4, <2>1, WhatArrives
  <2>3. (\A m \in 1..Len(chunks) : chunks[m].type = "proof" => ~ Follows(chunks, m, j)) =>
           SpendsFrom(t, SentTxs \cup {tip})
    BY <1>1, <2>1, WhatArrives, SpendsFromParents
  <2> QED
    BY <2>2, <2>3
<1> QED
  BY <1>1, <1>3, <1>5, <1>6, <1>7, <1>8, <1>9 DEF Honest

\* What the creator makes of stores that tell the truth is refused for nothing
\* but its fees, however often it was passed on, unless a proof about a root or
\* a header was passed on with it.
THEOREM CreatedPaymentsPass ==
    ASSUME Truthful PROVE FlowSpec => []CreatedIsAccepted
<1>1. ASSUME FlowInv PROVE CreatedIsAccepted
  <2> SUFFICES ASSUME Refused, ~ AnyMisread PROVE Unpaid
    BY DEF CreatedIsAccepted, AnyMisread
  <2>1. pc[1] \in Errors \cup Panics
    BY DEF Refused, Errors
  <2>2. Arrived /\ Receiver
    BY <1>1, <2>1 DEF FlowInv, Waiting, Errors, Panics
  <2>3. Justified(1)
    BY <1>1, <2>2, WhatArrivesIsHonest DEF Arrived
  <2>4. /\ Asked(1).fees
        /\ \/ Asked(1).feeQuote \in {NoQuote, NoFee, NoBytes}
           \/ ~ IsFeePaidEnough(tip, Asked(1).feeQuote)
    BY <2>1, <2>2, <2>3 DEF Justified, Receiver, Panics
  <2> QED
    BY <2>4 DEF Unpaid
<1> QED
  BY <1>1, FlowInvariance, PTL

\* The ancestry the verifier goes by is the one the creator found: every
\* ancestor has a proof the store has of it, none exchanged or given to another
\* transaction on the way, or else all that it spends from is there.
THEOREM EvidenceIsKept == FlowSpec => []EvidenceKept
<1>1. ASSUME FlowInv, pc[1] \in Checking, NEW t \in DOMAIN aa[1]
      PROVE  \/ t \in Stored /\ aa[1][t] \in Evidence(t)
             \/ aa[1][t] = NoProof /\ SpendsFrom(t, DOMAIN aa[1])
  <2>1. /\ Arrived /\ Receiver /\ CreatorInv /\ EncoderInv
        /\ tip \in Txs /\ Chunks(1) = chunks
    BY <1>1 DEF FlowInv, Arrived, Waiting, Checking, CreatorInv, WellFormed, Chunks
  <2>2. /\ DOMAIN aa[1] = SentTxs \cup {tip} /\ pos[1] > Len(chunks)
        /\ \A u \in DOMAIN aa[1] \ {tip} : Filed(1, u)
        /\ Len(chunks) \in Nat /\ pos[1] \in Int /\ aa[1][tip] = NoProof
    BY <1>1, <2>1 DEF Arrived, Receiver, SentInv, CompleteInv, Ancestry, SentTxs, IInv,
       CallInv, ParserInv, AncestryInv
  <2>3. SentTxs \subseteq Stored /\ Parents(tip) \subseteq SentTxs
    BY <2>1, WhatArrives DEF Arrived
  <2>4. CASE t = tip
    BY <2>1, <2>2, <2>3, <2>4, SpendsFromParents
  <2>5. CASE t # tip
    <3>1. PICK j \in TxChunks(chunks) :
             /\ chunks[j].data = t
             /\ \/ ProofBefore(chunks, pos[1], j, aa[1][t])
                \/ aa[1][t] = NoProof /\ NoneBefore(chunks, pos[1], j)
      BY <2>1, <2>2, <2>5 DEF Filed
    <3>2. t \in Stored /\ t \in Txs
      BY <2>2, <2>3, <2>5 DEF WellFormed
    <3>3. CASE ProofBefore(chunks, pos[1], j, aa[1][t])
      <4>1. PICK m \in 1..Len(chunks) :
               /\ chunks[m].type = "proof" /\ Follows(chunks, m, j)
               /\ aa[1][t] = chunks[m].data
        BY <3>3 DEF ProofBefore
      <4>2. chunks[m].data \in Evidence(t)
        BY <2>1, <3>1, <4>1, WhatArrives DEF Arrived
      <4> QED
        BY <3>2, <4>1, <4>2, EvidenceIsProof
    <3>4. CASE aa[1][t] = NoProof /\ NoneBefore(chunks, pos[1], j)
      <4>1. \A m \in 1..Len(chunks) : chunks[m].type = "proof" => ~ Follows(chunks, m, j)
        BY <2>2, <3>4 DEF NoneBefore
      <4>2. Parents(t) \subseteq SentTxs
        BY <2>1, <3>1, <4>1, WhatArrives DEF Arrived
      <4> QED
        BY <2>2, <3>2, <3>4, <4>2, SpendsFromParents
    <3> QED
      BY <3>1, <3>3, <3>4
  <2> QED
    BY <2>4, <2>5
<1>2. ASSUME FlowInv PROVE EvidenceKept
  BY <1>1, <1>2 DEF EvidenceKept, Checking, SpendsFrom
<1> QED
  BY <1>2, FlowInvariance, PTL

-----------------------------------------------------------------------------
(* How often the stores are read *)

\* The steps of the definition of Chains: to the next input, and to the first
\* input of the parent of this one.
NextPlace(x)   == <<x[1], x[2] + 1>>
ParentPlace(x) == <<Inputs[x[1]][x[2]].tx, 1>>
IsInput(x)     == x[2] <= Len(Inputs[x[1]])
IsRepeated(x)  == \E j \in 1..(x[2] - 1) : Inputs[x[1]][j].tx = Inputs[x[1]][x[2]].tx

Counted(f, x) ==
    IF ~ IsInput(x) THEN 0
    ELSE f[NextPlace(x)] + (IF IsRepeated(x) THEN 0 ELSE 1 + f[ParentPlace(x)])

\* Where the steps lead.
LEMMA PlaceValues ==
    ASSUME NEW x \in Places
    PROVE  /\ x[1] \in Txs /\ x[2] \in Nat \ {0} /\ x = <<x[1], x[2]>>
           /\ Len(Inputs[x[1]]) \in Nat /\ x[2] <= Len(Inputs[x[1]]) + 1
           /\ IsInput(x) => /\ NextPlace(x) \in Places /\ ParentPlace(x) \in Places
                            /\ ParentPlace(x)[1] = Inputs[x[1]][x[2]].tx
<1>1. PICK t \in Txs : x \in {t} \X (1..(Len(Inputs[t]) + 1))
  BY DEF Places
<1>2. /\ x[1] = t /\ x[2] \in 1..(Len(Inputs[t]) + 1) /\ x = <<x[1], x[2]>>
  BY <1>1
<1>3. \A u \in Txs : Inputs[u] \in Seq([tx : Txs, vout : Nat]) /\ Len(Inputs[u]) \in Nat
  <2> TAKE u \in Txs
  <2>1. Inputs[u] \in Seq([tx : Txs, vout : Nat])
    BY PaymentAssumption
  <2> QED
    BY <2>1, LenProperties
<1>4. \A u \in Txs : \A i \in 1..(Len(Inputs[u]) + 1) : <<u, i>> \in Places
  BY DEF Places
<1>5. ASSUME IsInput(x) PROVE NextPlace(x) \in Places /\ ParentPlace(x) \in Places
  <2>1. x[2] \in 1..Len(Inputs[t]) /\ x[2] + 1 \in 1..(Len(Inputs[t]) + 1)
    BY <1>2, <1>3, <1>5 DEF IsInput
  <2>2. Inputs[t][x[2]].tx \in Txs
    <3>1. Inputs[t][x[2]] \in [tx : Txs, vout : Nat]
      BY <1>3, <2>1, ElementOfSeq
    <3> QED
      BY <3>1
  <2>3. 1 \in 1..(Len(Inputs[Inputs[t][x[2]].tx]) + 1)
    BY <1>3, <2>2
  <2> QED
    BY <1>2, <1>4, <2>1, <2>2, <2>3 DEF NextPlace, ParentPlace
<1> QED
  BY <1>2, <1>3, <1>5 DEF ParentPlace

\* No steps go on for ever, as spends do not: of places, one has no step that
\* leads to another of them.
LEMMA PlacesAreFounded ==
    ASSUME NEW Rank \in [Txs -> Nat],
           \A t \in Txs : \A j \in DOMAIN Inputs[t] :
                Rank[Inputs[t][j].tx] < Rank[t],
           NEW S, S \subseteq Places, S # {}
    PROVE  \E x \in S : IsInput(x) => NextPlace(x) \notin S /\ ParentPlace(x) \notin S
<1> DEFINE ranks == {Rank[x[1]] : x \in S}
<1>1. ranks \subseteq Nat /\ ranks # {}
  BY PlaceValues
<1>2. PICK r \in ranks : \A q \in ranks : ~ (<<q, r>> \in OpToRel(<, Nat))
  BY <1>1, NatLessThanWellFounded, WFMin
<1>3. PICK y \in S : r = Rank[y[1]]
  BY <1>2
<1> DEFINE n == Len(Inputs[y[1]])
           same == {x \in S : x[1] = y[1]}
           after == {n + 1 - x[2] : x \in same}
<1>4. \A x \in S : x[1] \in Txs /\ ~ (Rank[x[1]] < Rank[y[1]])
  BY <1>1, <1>2, <1>3, PlaceValues DEF OpToRel
<1>5. n \in Nat /\ \A x \in same : x[2] \in Nat \ {0} /\ x[2] <= n + 1
  BY PlaceValues
<1>6. after \subseteq Nat /\ after # {}
  <2>1. \A x \in same : n + 1 - x[2] \in Nat
    BY <1>5
  <2>2. n + 1 - y[2] \in after
    BY <1>3
  <2> HIDE DEF n, same
  <2> QED
    BY <2>1, <2>2
<1>7. PICK d \in after : \A e \in after : ~ (<<e, d>> \in OpToRel(<, Nat))
  BY <1>6, NatLessThanWellFounded, WFMin
<1>8. PICK x \in same : d = n + 1 - x[2]
  BY <1>7
<1>9. ASSUME IsInput(x) PROVE NextPlace(x) \notin S /\ ParentPlace(x) \notin S
  <2>1. NextPlace(x) \notin S
    <3> SUFFICES ASSUME NextPlace(x) \in S PROVE FALSE
      OBVIOUS
    <3>1. NextPlace(x) \in same /\ NextPlace(x)[2] = x[2] + 1
      BY <1>8 DEF NextPlace
    <3>2. n + 1 - (x[2] + 1) \in after
      BY <3>1
    <3> HIDE DEF after, same, n
    <3>3. n + 1 - (x[2] + 1) \in Nat /\ n + 1 - x[2] \in Nat
      BY <1>6, <1>7, <1>8, <3>2
    <3>4. ~ (n + 1 - (x[2] + 1) < n + 1 - x[2])
      <4>1. ~ (<<n + 1 - (x[2] + 1), n + 1 - x[2]>> \in OpToRel(<, Nat))
        BY <1>7, <1>8, <3>2
      <4> QED
        BY <3>3, <4>1 DEF OpToRel
    <3> QED
      BY <1>5, <1>8, <3>4
  <2>2. ParentPlace(x) \notin S
    <3>1. /\ x[1] = y[1] /\ x[2] \in DOMAIN Inputs[x[1]] /\ x[1] \in Txs
          /\ ParentPlace(x)[1] = Inputs[x[1]][x[2]].tx
      <4>1. x[1] = y[1] /\ x \in Places
        BY <1>8
      <4>2. x[1] \in Txs /\ x[2] \in Nat \ {0} /\ Len(Inputs[x[1]]) \in Nat
        BY <4>1, PlaceValues
      <4>3. Inputs[x[1]] \in Seq([tx : Txs, vout : Nat])
        BY <4>2, PaymentAssumption
      <4>4. DOMAIN Inputs[x[1]] = 1..Len(Inputs[x[1]])
        BY <4>3, LenProperties
      <4>5. x[2] \in DOMAIN Inputs[x[1]]
        BY <1>9, <4>2, <4>4 DEF IsInput
      <4>6. ParentPlace(x)[1] = Inputs[x[1]][x[2]].tx
        BY DEF ParentPlace
      <4> QED
        BY <4>1, <4>2, <4>5, <4>6
    <3>2. Rank[ParentPlace(x)[1]] < Rank[y[1]]
      BY <3>1
    <3> QED
      BY <1>4, <3>2
  <2> QED
    BY <2>1, <2>2
<1> QED
  BY <1>8, <1>9

\* A beginning of the function: where it is defined, so are the steps from there.
IsBeginning(f, D) ==
    /\ D \subseteq Places
    /\ \A x \in D : /\ f[x] = Counted(f, x) /\ f[x] \in Nat
                    /\ IsInput(x) => NextPlace(x) \in D /\ ParentPlace(x) \in D

\* Two beginnings agree.
LEMMA BeginningsAgree ==
    ASSUME NEW Rank \in [Txs -> Nat],
           \A t \in Txs : \A j \in DOMAIN Inputs[t] :
                Rank[Inputs[t][j].tx] < Rank[t],
           NEW f, NEW D, IsBeginning(f, D), NEW g, NEW E, IsBeginning(g, E),
           NEW z \in D \cap E
    PROVE  f[z] = g[z]
<1> DEFINE S == {x \in D \cap E : f[x] # g[x]}
<1> SUFFICES ASSUME S # {} PROVE FALSE
  OBVIOUS
<1>1. S \subseteq Places
  BY DEF IsBeginning
<1>2. PICK x \in S : IsInput(x) => NextPlace(x) \notin S /\ ParentPlace(x) \notin S
  BY <1>1, PlacesAreFounded
<1>3. f[x] = Counted(f, x) /\ g[x] = Counted(g, x) /\ f[x] # g[x]
  BY DEF IsBeginning
<1>4. IsInput(x) => /\ f[NextPlace(x)] = g[NextPlace(x)]
                    /\ f[ParentPlace(x)] = g[ParentPlace(x)]
  BY <1>2 DEF IsBeginning
<1>5. Counted(f, x) = Counted(g, x)
  BY <1>4 DEF Counted
<1> QED
  BY <1>3, <1>5

\* Two of them make one.
LEMMA BeginningsJoin ==
    ASSUME NEW Rank \in [Txs -> Nat],
           \A t \in Txs : \A j \in DOMAIN Inputs[t] :
                Rank[Inputs[t][j].tx] < Rank[t],
           NEW f, NEW D, IsBeginning(f, D), NEW g, NEW E, IsBeginning(g, E)
    PROVE  IsBeginning([x \in D \cup E |-> IF x \in D THEN f[x] ELSE g[x]], D \cup E)
<1> DEFINE h == [x \in D \cup E |-> IF x \in D THEN f[x] ELSE g[x]]
<1>1. (\A x \in D : h[x] = f[x]) /\ \A x \in E : h[x] = g[x]
  BY BeginningsAgree
<1> HIDE DEF h
<1>2. ASSUME NEW x \in D
      PROVE  /\ h[x] = Counted(h, x) /\ h[x] \in Nat
             /\ IsInput(x) => NextPlace(x) \in D /\ ParentPlace(x) \in D
  <2>1. /\ f[x] = Counted(f, x) /\ f[x] \in Nat
        /\ IsInput(x) => NextPlace(x) \in D /\ ParentPlace(x) \in D
    BY DEF IsBeginning
  <2>2. Counted(h, x) = Counted(f, x)
    BY <1>1, <2>1 DEF Counted
  <2> QED
    BY <1>1, <2>1, <2>2
<1>3. ASSUME NEW x \in E
      PROVE  /\ h[x] = Counted(h, x) /\ h[x] \in Nat
             /\ IsInput(x) => NextPlace(x) \in E /\ ParentPlace(x) \in E
  <2>1. /\ g[x] = Counted(g, x) /\ g[x] \in Nat
        /\ IsInput(x) => NextPlace(x) \in E /\ ParentPlace(x) \in E
    BY DEF IsBeginning
  <2>2. Counted(h, x) = Counted(g, x)
    BY <1>1, <2>1 DEF Counted
  <2> QED
    BY <1>1, <2>1, <2>2
<1>4. IsBeginning(h, D \cup E)
  BY <1>2, <1>3 DEF IsBeginning
<1> QED
  BY <1>4 DEF h

\* One more place.
LEMMA BeginningGrows ==
    ASSUME NEW h, NEW E, IsBeginning(h, E), NEW x \in Places, x \notin E,
           IsInput(x) => NextPlace(x) \in E /\ ParentPlace(x) \in E
    PROVE  \E f, D : IsBeginning(f, D) /\ x \in D
<1> DEFINE D == E \cup {x}
           f == [y \in D |-> IF y \in E THEN h[y] ELSE Counted(h, x)]
<1>1. f[x] = Counted(h, x) /\ \A y \in E : f[y] = h[y]
  OBVIOUS
<1> HIDE DEF f
<1>2. ASSUME NEW y \in E
      PROVE  /\ f[y] = Counted(f, y) /\ f[y] \in Nat
             /\ IsInput(y) => NextPlace(y) \in E /\ ParentPlace(y) \in E
  <2>1. /\ h[y] = Counted(h, y) /\ h[y] \in Nat
        /\ IsInput(y) => NextPlace(y) \in E /\ ParentPlace(y) \in E
    BY DEF IsBeginning
  <2>2. Counted(f, y) = Counted(h, y)
    BY <1>1, <2>1 DEF Counted
  <2> QED
    BY <1>1, <2>1, <2>2
<1>3. Counted(f, x) = Counted(h, x)
  BY <1>1 DEF Counted
<1>4. Counted(h, x) \in Nat
  <2>1. CASE ~ IsInput(x)
    BY <2>1 DEF Counted
  <2>2. CASE IsInput(x)
    <3>1. h[NextPlace(x)] \in Nat /\ h[ParentPlace(x)] \in Nat
      BY <2>2 DEF IsBeginning
    <3>2. \A m, n \in Nat : m + 0 \in Nat /\ m + (1 + n) \in Nat
      OBVIOUS
    <3> QED
      BY <2>2, <3>1, <3>2 DEF Counted
  <2> QED
    BY <2>1, <2>2
<1>5. IsBeginning(f, D)
  <2>1. D \subseteq Places
    BY DEF IsBeginning
  <2>2. ASSUME NEW y \in D
        PROVE  /\ f[y] = Counted(f, y) /\ f[y] \in Nat
               /\ IsInput(y) => NextPlace(y) \in D /\ ParentPlace(y) \in D
    BY <1>1, <1>2, <1>3, <1>4
  <2> QED
    BY <2>1, <2>2 DEF IsBeginning
<1> QED
  BY <1>5

\* So every place is in one.
LEMMA PlacesAreCounted ==
    ASSUME NEW Rank \in [Txs -> Nat],
           \A t \in Txs : \A j \in DOMAIN Inputs[t] :
                Rank[Inputs[t][j].tx] < Rank[t]
    PROVE  \A x \in Places : \E f, D : IsBeginning(f, D) /\ x \in D
<1> DEFINE S == {x \in Places : ~ \E f, D : IsBeginning(f, D) /\ x \in D}
<1> SUFFICES ASSUME S # {} PROVE FALSE
  OBVIOUS
<1>1. PICK x \in S : IsInput(x) => NextPlace(x) \notin S /\ ParentPlace(x) \notin S
  BY PlacesAreFounded
<1>2. x \in Places /\ ~ \E f, D : IsBeginning(f, D) /\ x \in D
  OBVIOUS
<1>3. \E h, E : /\ IsBeginning(h, E)
                /\ IsInput(x) => NextPlace(x) \in E /\ ParentPlace(x) \in E
  <2>1. CASE ~ IsInput(x)
    <3>1. IsBeginning(<<>>, {})
      BY DEF IsBeginning
    <3> QED
      BY <2>1, <3>1
  <2>2. CASE IsInput(x)
    <3>1. NextPlace(x) \in Places /\ ParentPlace(x) \in Places
      BY <1>2, <2>2, PlaceValues
    <3>2. PICK f, D : IsBeginning(f, D) /\ NextPlace(x) \in D
      BY <1>1, <2>2, <3>1
    <3>3. PICK g, E : IsBeginning(g, E) /\ ParentPlace(x) \in E
      BY <1>1, <2>2, <3>1
    <3>4. IsBeginning([y \in D \cup E |-> IF y \in D THEN f[y] ELSE g[y]], D \cup E)
      BY <3>2, <3>3, BeginningsJoin
    <3>5. NextPlace(x) \in D \cup E /\ ParentPlace(x) \in D \cup E
      BY <3>2, <3>3
    <3> QED
      BY <3>4, <3>5
  <2> QED
    BY <2>1, <2>2
<1> HIDE DEF S
<1>4. PICK h, E : /\ IsBeginning(h, E)
                  /\ IsInput(x) => NextPlace(x) \in E /\ ParentPlace(x) \in E
  BY <1>3
<1>5. x \notin E
  BY <1>2, <1>4
<1> QED
  BY <1>2, <1>4, <1>5, BeginningGrows

\* The function that Chains is by its definition exists, and this is what its
\* values are.
LEMMA ChainsValues ==
    ASSUME NEW Rank \in [Txs -> Nat],
           \A t \in Txs : \A j \in DOMAIN Inputs[t] :
                Rank[Inputs[t][j].tx] < Rank[t]
    PROVE  \A x \in Places : Chains[x] \in Nat /\ Chains[x] = Counted(Chains, x)
<1> DEFINE Has(f, x)  == \E D : IsBeginning(f, D) /\ x \in D
           Body(f) == [x \in Places |->
                         LET t == x[1]
                             i == x[2]
                             u == Inputs[t][i].tx
                         IN  IF i > Len(Inputs[t]) THEN 0
                             ELSE f[<<t, i + 1>>]
                                    + (IF \E j \in 1..(i - 1) : Inputs[t][j].tx = u THEN 0
                                       ELSE 1 + f[<<u, 1>>])]
           F == [x \in Places |-> (CHOOSE f : Has(f, x))[x]]
<1>1. \A f, g : \A x \in Places : Has(f, x) /\ Has(g, x) => f[x] = g[x]
  BY BeginningsAgree
<1>2. \A x \in Places : \E f : Has(f, x)
  BY PlacesAreCounted
<1>3. ASSUME NEW f, NEW x \in Places, Has(f, x)
      PROVE  /\ f[x] \in Nat /\ f[x] = Counted(f, x)
             /\ IsInput(x) => /\ NextPlace(x) \in Places /\ ParentPlace(x) \in Places
                              /\ Has(f, NextPlace(x)) /\ Has(f, ParentPlace(x))
  BY <1>3 DEF IsBeginning
<1> HIDE DEF Has
<1>4. ASSUME NEW x \in Places, NEW f, Has(f, x) PROVE F[x] = f[x]
  <2>1. Has(CHOOSE g : Has(g, x), x)
    BY <1>4
  <2>2. F[x] = (CHOOSE g : Has(g, x))[x]
    OBVIOUS
  <2> HIDE DEF F
  <2> QED
    BY <1>1, <1>4, <2>1, <2>2
<1>5. DOMAIN F = Places /\ F = [x \in Places |-> F[x]]
  OBVIOUS
<1> HIDE DEF F
<1>6. ASSUME NEW x \in Places PROVE F[x] \in Nat /\ F[x] = Counted(F, x)
  <2>1. PICK f : Has(f, x)
    BY <1>2
  <2>2. /\ f[x] \in Nat /\ f[x] = Counted(f, x)
        /\ IsInput(x) => /\ NextPlace(x) \in Places /\ ParentPlace(x) \in Places
                         /\ Has(f, NextPlace(x)) /\ Has(f, ParentPlace(x))
    BY <1>3, <2>1
  <2>3. F[x] = f[x] /\ (IsInput(x) => /\ F[NextPlace(x)] = f[NextPlace(x)]
                                      /\ F[ParentPlace(x)] = f[ParentPlace(x)])
    BY <1>4, <2>1, <2>2
  <2>4. Counted(F, x) = Counted(f, x)
    BY <2>3 DEF Counted
  <2> QED
    BY <2>2, <2>3, <2>4
<1>7. ASSUME NEW f PROVE Body(f) = [x \in Places |-> Counted(f, x)]
  <2>1. ASSUME NEW x \in Places
        PROVE  Body(f)[x] = Counted(f, x)
    <3>1. (x[2] > Len(Inputs[x[1]])) <=> ~ IsInput(x)
      BY PlaceValues DEF IsInput
    <3>2. Body(f)[x] =
             IF x[2] > Len(Inputs[x[1]]) THEN 0
             ELSE f[<<x[1], x[2] + 1>>]
                    + (IF \E j \in 1..(x[2] - 1) :
                             Inputs[x[1]][j].tx = Inputs[x[1]][x[2]].tx THEN 0
                       ELSE 1 + f[<<Inputs[x[1]][x[2]].tx, 1>>])
      OBVIOUS
    <3> HIDE DEF Body
    <3> QED
      BY <3>1, <3>2 DEF Counted, NextPlace, ParentPlace, IsRepeated
  <2>2. DOMAIN Body(f) = Places /\ Body(f) = [x \in Places |-> Body(f)[x]]
    OBVIOUS
  <2> HIDE DEF Body
  <2> QED
    BY <2>1, <2>2
<1>8. Chains = CHOOSE f : f = Body(f)
  BY DEF Chains
<1> HIDE DEF Body
<1>9. F = Body(F)
  <2>1. Body(F) = [x \in Places |-> Counted(F, x)]
    BY <1>7
  <2>2. \A x \in Places : F[x] = Counted(F, x)
    BY <1>6
  <2> QED
    BY <1>5, <2>1, <2>2
<1>10. Chains = Body(Chains)
  BY <1>8, <1>9
<1>11. Chains = [x \in Places |-> Counted(Chains, x)]
  BY <1>7, <1>10
<1>12. ASSUME NEW x \in Places PROVE Chains[x] = F[x]
  <2> DEFINE S == {y \in Places : Chains[y] # F[y]}
  <2> SUFFICES ASSUME S # {} PROVE FALSE
    OBVIOUS
  <2>1. PICK y \in S : IsInput(y) => NextPlace(y) \notin S /\ ParentPlace(y) \notin S
    BY PlacesAreFounded
  <2>2. Chains[y] = Counted(Chains, y) /\ F[y] = Counted(F, y) /\ Chains[y] # F[y]
    BY <1>6, <1>11
  <2>3. IsInput(y) => /\ Chains[NextPlace(y)] = F[NextPlace(y)]
                      /\ Chains[ParentPlace(y)] = F[ParentPlace(y)]
    BY <2>1, PlaceValues
  <2> QED
    BY <2>2, <2>3 DEF Counted
<1> QED
  BY <1>6, <1>11, <1>12

\* The chains ahead of a call that stands at the i-th input of t.
Ahead(t, i) == Chains[<<t, i>>]

\* They are those through this input and those through the next ones.
LEMMA AheadValues ==
    ASSUME NEW Rank \in [Txs -> Nat],
           \A t \in Txs : \A j \in DOMAIN Inputs[t] :
                Rank[Inputs[t][j].tx] < Rank[t],
           NEW t \in Txs, NEW i \in 1..(Len(Inputs[t]) + 1)
    PROVE  /\ Ahead(t, i) \in Nat
           /\ i <= Len(Inputs[t]) =>
                 LET u == Inputs[t][i].tx
                 IN  /\ u \in Txs /\ Ahead(t, i + 1) \in Nat /\ Ahead(u, 1) \in Nat
                     /\ Ahead(t, i) = IF \E j \in 1..(i - 1) : Inputs[t][j].tx = u
                                      THEN Ahead(t, i + 1)
                                      ELSE Ahead(t, i + 1) + (1 + Ahead(u, 1))
<1> DEFINE x == <<t, i>>
           u == Inputs[t][i].tx
<1>1. x \in Places
  BY DEF Places
<1>2. \A y \in Places : Chains[y] \in Nat /\ Chains[y] = Counted(Chains, y)
  BY ChainsValues
<1>3. ASSUME i <= Len(Inputs[t])
      PROVE  /\ u \in Txs /\ Ahead(t, i + 1) \in Nat /\ Ahead(u, 1) \in Nat
             /\ Ahead(t, i) = IF \E j \in 1..(i - 1) : Inputs[t][j].tx = u
                              THEN Ahead(t, i + 1)
                              ELSE Ahead(t, i + 1) + (1 + Ahead(u, 1))
  <2>1. IsInput(x) /\ NextPlace(x) = <<t, i + 1>> /\ ParentPlace(x) = <<u, 1>>
    BY <1>3 DEF IsInput, NextPlace, ParentPlace
  <2>2. NextPlace(x) \in Places /\ ParentPlace(x) \in Places /\ ParentPlace(x)[1] \in Txs
    <3>1. NextPlace(x) \in Places /\ ParentPlace(x) \in Places
      BY <1>1, <2>1, PlaceValues
    <3> QED
      BY <3>1, PlaceValues
  <2>3. IsRepeated(x) <=> \E j \in 1..(i - 1) : Inputs[t][j].tx = u
    BY DEF IsRepeated
  <2> HIDE DEF x, u
  <2>4. u \in Txs /\ Chains[NextPlace(x)] \in Nat /\ Chains[ParentPlace(x)] \in Nat
    BY <1>2, <2>1, <2>2
  <2>5. Chains[x] = IF IsRepeated(x) THEN Chains[NextPlace(x)]
                    ELSE Chains[NextPlace(x)] + (1 + Chains[ParentPlace(x)])
    BY <1>1, <1>2, <2>1, <2>4 DEF Counted
  <2>6. Chains[x] = Ahead(t, i)
    BY DEF Ahead, x
  <2> QED
    BY <2>1, <2>3, <2>4, <2>5, <2>6 DEF Ahead
<1>4. Ahead(t, i) \in Nat
  BY <1>1, <1>2 DEF Ahead
<1> QED
  BY <1>3, <1>4

\* How many reads there may have been when each call returns: a caller has the
\* chains through its next inputs ahead of it then.
IsBudget(B, s, t) ==
    /\ B \in [1..Len(s) -> Nat]
    /\ \A k \in 1..Len(s) : B[k] <= Ahead(t, 1)
    /\ \A k \in 1..(Len(s) - 1) : B[k + 1] + Ahead(s[k].tx, s[k].i + 1) <= B[k]

\* There is room for m reads when the last call returns.
HasRoom(s, t, m) == \E B : IsBudget(B, s, t) /\ m <= B[Len(s)]

\* The reads so far, with those of the last call and of the calls it makes.
ReadsInv ==
    /\ reads \in Nat /\ reads <= Ahead(tip, 1)
    /\ step = "input" =>
          HasRoom(stack, tip, reads + Ahead(Creator!Call.tx, Creator!Call.i))
    /\ step = "proof" =>
          HasRoom(stack, tip, reads + (Ahead(Creator!Call.tx, Creator!Call.i + 1)
                                         + Ahead(Creator!pTxID, 1)))

\* No call reads more than there are chains.
LEMMA RoomIsBounded ==
    ASSUME NEW s, Len(s) \in Nat \ {0}, NEW t, Ahead(t, 1) \in Nat,
           NEW m \in Nat, HasRoom(s, t, m)
    PROVE  m <= Ahead(t, 1)
<1>1. PICK B : IsBudget(B, s, t) /\ m <= B[Len(s)]
  BY DEF HasRoom
<1>2. Len(s) \in 1..Len(s)
  OBVIOUS
<1>3. B[Len(s)] \in Nat /\ B[Len(s)] <= Ahead(t, 1)
  BY <1>1, <1>2 DEF IsBudget
<1> QED
  BY <1>1, <1>3

\* Callers that wait keep what they have ahead.
LEMMA RoomKept ==
    ASSUME NEW s, Len(s) \in Nat \ {0}, NEW t, NEW m \in Nat, HasRoom(s, t, m),
           NEW r, Len(r) = Len(s), \A k \in 1..(Len(s) - 1) : r[k] = s[k],
           NEW p \in Nat, p <= m
    PROVE  HasRoom(r, t, p)
<1>1. PICK B : IsBudget(B, s, t) /\ m <= B[Len(s)]
  BY DEF HasRoom
<1>2. IsBudget(B, r, t)
  BY <1>1 DEF IsBudget
<1>3. B[Len(s)] \in Nat /\ p <= B[Len(s)]
  <2>1. Len(s) \in 1..Len(s)
    OBVIOUS
  <2>2. B[Len(s)] \in Nat
    BY <1>1, <2>1 DEF IsBudget
  <2> QED
    BY <1>1, <2>2
<1> QED
  BY <1>2, <1>3 DEF HasRoom

\* A call is made with what its caller does not need after it.
LEMMA RoomPushed ==
    ASSUME NEW s, Len(s) \in Nat \ {0}, NEW t, Ahead(t, 1) \in Nat,
           NEW m \in Nat, NEW own \in Nat, HasRoom(s, t, m + own),
           Ahead(s[Len(s)].tx, s[Len(s)].i + 1) = own,
           NEW r, Len(r) = Len(s) + 1, \A k \in 1..Len(s) : r[k] = s[k]
    PROVE  HasRoom(r, t, m)
<1>0. PICK B : IsBudget(B, s, t) /\ m + own <= B[Len(s)]
  BY DEF HasRoom
<1> DEFINE n == Len(s)
           D == [k \in 1..(n + 1) |-> IF k <= n THEN B[k] ELSE B[n] - own]
<1>1. /\ n \in Nat \ {0} /\ \A k \in 1..n : B[k] \in Nat /\ B[k] <= Ahead(t, 1)
      /\ \A k \in 1..(n - 1) : B[k + 1] + Ahead(s[k].tx, s[k].i + 1) <= B[k]
  BY <1>0 DEF IsBudget
<1>2. /\ \A k \in 1..n : D[k] = B[k]
      /\ D[n + 1] = B[n] - own /\ DOMAIN D = 1..(n + 1)
  BY <1>1
<1>3. B[n] \in Nat /\ B[n] - own \in Nat /\ m <= B[n] - own /\ B[n] - own <= B[n]
      /\ (B[n] - own) + own = B[n]
  BY <1>0, <1>1
<1> HIDE DEF D
<1>4. \A k \in 1..(n + 1) : k \in 1..n \/ k = n + 1
  BY <1>1
<1>5. \A k \in 1..(n + 1) : D[k] \in Nat
  BY <1>1, <1>2, <1>3, <1>4
<1>6. \A k \in 1..(n + 1) : D[k] <= Ahead(t, 1)
  <2>1. B[n] <= Ahead(t, 1)
    BY <1>1
  <2>2. B[n] - own <= Ahead(t, 1)
    BY <1>3, <2>1
  <2> QED
    BY <1>1, <1>2, <1>4, <2>2
<1>7. ASSUME NEW k \in 1..((n + 1) - 1)
      PROVE  D[k + 1] + Ahead(r[k].tx, r[k].i + 1) <= D[k]
  <2>1. CASE k \in 1..(n - 1)
    <3>1. k \in 1..n /\ k + 1 \in 1..n
      BY <1>1, <2>1
    <3> QED
      BY <1>1, <1>2, <2>1, <3>1
  <2>2. CASE k = n
    BY <1>1, <1>2, <1>3, <2>2
  <2> QED
    BY <1>1, <2>1, <2>2
<1>8. D \in [1..(n + 1) -> Nat]
  <2>1. D = [k \in 1..(n + 1) |-> D[k]]
    BY DEF D
  <2> QED
    BY <1>5, <2>1
<1>9. IsBudget(D, r, t) /\ m <= D[Len(r)]
  BY <1>2, <1>3, <1>6, <1>7, <1>8 DEF IsBudget
<1> QED
  BY <1>9 DEF HasRoom

\* A caller goes on with what is ahead of it then.
LEMMA RoomPopped ==
    ASSUME NEW s, NEW n \in Nat \ {0}, Len(s) = n + 1, NEW t,
           NEW m \in Nat, HasRoom(s, t, m), NEW own \in Nat,
           Ahead(s[n].tx, s[n].i + 1) = own,
           NEW r, Len(r) = n, \A k \in 1..(n - 1) : r[k] = s[k]
    PROVE  HasRoom(r, t, m + own)
<1>0. PICK B : IsBudget(B, s, t) /\ m <= B[n + 1]
  BY DEF HasRoom
<1> DEFINE D == [k \in 1..n |-> B[k]]
<1>1. /\ \A k \in 1..(n + 1) : B[k] \in Nat /\ B[k] <= Ahead(t, 1)
      /\ \A k \in 1..n : B[k + 1] + Ahead(s[k].tx, s[k].i + 1) <= B[k]
  <2>1. (n + 1) - 1 = n
    OBVIOUS
  <2> QED
    BY <1>0, <2>1 DEF IsBudget
<1>2. D \in [1..n -> Nat] /\ \A k \in 1..n : D[k] = B[k] /\ k \in 1..(n + 1)
  BY <1>1
<1> HIDE DEF D
<1>3. m + own <= D[n]
  <2>1. B[n + 1] + own <= B[n] /\ B[n + 1] \in Nat /\ B[n] \in Nat /\ n \in 1..n
    BY <1>1
  <2> QED
    BY <1>0, <1>2, <2>1
<1>4. \A k \in 1..(n - 1) : D[k + 1] + Ahead(r[k].tx, r[k].i + 1) <= D[k]
  <2> TAKE k \in 1..(n - 1)
  <2>1. k \in 1..n /\ k + 1 \in 1..n
    OBVIOUS
  <2> QED
    BY <1>1, <1>2, <2>1
<1>5. IsBudget(D, r, t) /\ m + own <= D[Len(r)]
  BY <1>1, <1>2, <1>3, <1>4 DEF IsBudget
<1> QED
  BY <1>5 DEF HasRoom

\* A call that adopts a node goes on to its next input.
LEMMA AdoptedAt ==
    ASSUME NEW f, FrameInv(f), NEW node
    PROVE  Creator!Adopt(f, node).tx = f.tx /\ Creator!Adopt(f, node).i = f.i + 1
<1> DEFINE ps == [t \in DOMAIN f.parents \cup {node.tx} |->
                    IF t = node.tx THEN node ELSE f.parents[t]]
<1>1. Creator!Adopt(f, node) = [f EXCEPT !.i = f.i + 1, !.parents = ps]
  BY DEF Creator!Adopt
<1> HIDE DEF ps
<1> QED
  BY <1>1 DEF FrameInv

\* A sequence with another last element.
LEMMA LastReplaced ==
    ASSUME NEW S, NEW s \in Seq(S), NEW m \in Nat \ {0}, Len(s) = m, NEW f,
           NEW r, r = [s EXCEPT ![m] = f]
    PROVE  /\ Len(r) = m /\ r[m] = f
           /\ \A k \in 1..m : k # m => r[k] = s[k]
<1>1. s \in Seq(S \cup {f})
  OBVIOUS
<1> QED
  BY <1>1

\* The payment has all its chains ahead of it.
LEMMA InitReads ==
    ASSUME NEW Rank \in [Txs -> Nat],
           \A t \in Txs : \A j \in DOMAIN Inputs[t] :
                Rank[Inputs[t][j].tx] < Rank[t],
           FlowInit
    PROVE  ReadsInv
<1>1. /\ tip \in Txs /\ stack = <<Creator!Frame(tip)>> /\ reads = 0 /\ step # "proof"
  BY DEF FlowInit, Creator!Init
<1>2. Ahead(tip, 1) \in Nat
  <2>1. Len(Inputs[tip]) \in Nat
    BY <1>1, PaymentAssumption
  <2>2. 1 \in 1..(Len(Inputs[tip]) + 1)
    BY <2>1
  <2> QED
    BY <1>1, <2>2, AheadValues
<1>3. Creator!Call.tx = tip /\ Creator!Call.i = 1 /\ Len(stack) = 1
  BY <1>1 DEF Creator!Call, Creator!Frame
<1> DEFINE B == [k \in 1..1 |-> Ahead(tip, 1)]
<1>4. IsBudget(B, stack, tip) /\ 0 + Ahead(tip, 1) <= B[Len(stack)]
  BY <1>2, <1>3 DEF IsBudget
<1> HIDE DEF B
<1>5. HasRoom(stack, tip, 0 + Ahead(tip, 1))
  BY <1>4 DEF HasRoom
<1> QED
  BY <1>1, <1>2, <1>3, <1>5 DEF ReadsInv

\* What the creator reads, it reads for a chain that was ahead.
LEMMA CreateReads ==
    ASSUME NEW Rank \in [Txs -> Nat],
           \A t \in Txs : \A j \in DOMAIN Inputs[t] :
                Rank[Inputs[t][j].tx] < Rank[t],
           CreatorInv, ReadsInv, Create
    PROVE  ReadsInv'
<1> DEFINE n == Len(stack)
           call == stack[n]
           i == call.i
           u == Inputs[call.tx][i].tx
           now == Ahead(call.tx, i)
           rest == Ahead(call.tx, i + 1)
           its == Ahead(u, 1)
<1>1. /\ StackInv(stack) /\ n \in Nat \ {0} /\ FrameInv(call) /\ call.tx \in Txs
      /\ tip \in Txs
  <2>1. StackInv(stack) /\ tip \in Tips
    BY DEF CreatorInv
  <2>2. n \in Nat \ {0} /\ n \in 1..n
    BY <2>1 DEF StackInv
  <2>3. FrameInv(call)
    BY <2>1, <2>2 DEF StackInv
  <2> QED
    BY <2>1, <2>2, <2>3 DEF FrameInv, WellFormed
<1>2. Creator!Call = call /\ Creator!pTxID = u
  BY DEF Creator!Call, Creator!pTxID
<1>3. i \in 1..(Len(Inputs[call.tx]) + 1) /\ Len(Inputs[call.tx]) \in Nat
  BY <1>1, InputsLength DEF FrameInv
<1>4. Ahead(tip, 1) \in Nat
  <2>1. Len(Inputs[tip]) \in Nat
    BY <1>1, PaymentAssumption
  <2>2. 1 \in 1..(Len(Inputs[tip]) + 1)
    BY <2>1
  <2> QED
    BY <1>1, <2>2, AheadValues
<1>5. now \in Nat
  BY <1>1, <1>3, AheadValues
<1>6. ASSUME i <= Len(Inputs[call.tx])
      PROVE  /\ rest \in Nat /\ its \in Nat
             /\ now = IF u \in DOMAIN call.parents THEN rest ELSE rest + (1 + its)
  <2>1. (\E j \in 1..(i - 1) : Inputs[call.tx][j].tx = u) <=> u \in DOMAIN call.parents
    BY <1>1 DEF FrameInv
  <2> QED
    BY <1>1, <1>3, <1>6, <2>1, AheadValues
<1>7. reads \in Nat /\ reads <= Ahead(tip, 1)
  BY DEF ReadsInv
<1>8. /\ step = "input" => HasRoom(stack, tip, reads + now)
      /\ step = "proof" => HasRoom(stack, tip, reads + (rest + its))
  BY <1>2 DEF ReadsInv
<1>9. ASSUME NEW r, r = stack', step' = "input", tip' = tip, reads' = reads,
             NEW m \in Nat, HasRoom(r, tip, reads + m),
             Ahead(r[Len(r)].tx, r[Len(r)].i) = m
      PROVE  ReadsInv'
  <2>1. Creator!Call' = r[Len(r)]
    BY <1>9 DEF Creator!Call
  <2>2. HasRoom(stack', tip', reads' + Ahead(Creator!Call'.tx, Creator!Call'.i))
    BY <1>9, <2>1
  <2> QED
    BY <1>7, <1>9, <2>2 DEF ReadsInv
<1>10. ASSUME step' \notin {"input", "proof"}, tip' = tip, reads' = reads
       PROVE  ReadsInv'
  BY <1>7, <1>10 DEF ReadsInv
<1> HIDE DEF call, n, i, u, now, rest, its
<1>11. CASE Creator!Skip
  <2>1. /\ step = "input" /\ UNCHANGED <<tip, step, made, reads>>
        /\ i <= Len(Inputs[call.tx]) /\ u \in DOMAIN call.parents
        /\ stack' = [stack EXCEPT ![n] = [call EXCEPT !.i = @ + 1]]
    BY <1>2, <1>11 DEF Creator!Skip, Creator!Already, call, n, i
  <2> DEFINE f == [call EXCEPT !.i = @ + 1]
             r == [stack EXCEPT ![n] = f]
  <2>2. f.tx = call.tx /\ f.i = i + 1
    BY <1>1 DEF FrameInv, i
  <2> HIDE DEF f
  <2>3. Len(r) = n /\ r[n] = f /\ \A k \in 1..(n - 1) : r[k] = stack[k]
    BY <1>1 DEF StackInv, n
  <2>4. r = stack'
    BY <2>1 DEF f
  <2> HIDE DEF r
  <2>5. now = rest /\ rest \in Nat
    BY <1>6, <2>1
  <2>6. HasRoom(r, tip, reads + rest)
    <3>1. HasRoom(stack, tip, reads + rest)
      BY <1>8, <2>1, <2>5
    <3>2. reads + rest \in Nat /\ reads + rest <= reads + rest
      BY <1>7, <2>5
    <3> QED
      BY <1>1, <2>3, <3>1, <3>2, RoomKept DEF n
  <2> QED
    BY <1>9, <2>1, <2>2, <2>3, <2>4, <2>5, <2>6 DEF rest
<1>12. CASE Creator!Tx
  <2>1. /\ step = "input" /\ UNCHANGED <<tip, stack, made>> /\ reads' = reads + 1
        /\ step' = "failed" \/ step' = "proof"
        /\ i <= Len(Inputs[call.tx]) /\ ~ u \in DOMAIN call.parents
    BY <1>2, <1>12 DEF Creator!Tx, Creator!Already, i
  <2>2. Creator!Call' = call /\ Creator!pTxID' = u
    BY <2>1 DEF Creator!Call, Creator!pTxID, call, n, u, i
  <2>3. now = rest + (1 + its) /\ rest \in Nat /\ its \in Nat
    BY <1>6, <2>1
  <2>4. HasRoom(stack, tip, reads' + (rest + its)) /\ reads' + (rest + its) \in Nat
    <3>1. reads + now = reads' + (rest + its)
      BY <1>7, <2>1, <2>3
    <3> QED
      BY <1>5, <1>7, <1>8, <2>1, <3>1
  <2>5. reads' + (rest + its) <= Ahead(tip, 1)
    BY <1>1, <1>4, <2>4, RoomIsBounded DEF n
  <2>6. reads' \in Nat /\ reads' <= Ahead(tip, 1)
    BY <1>4, <1>7, <2>1, <2>3, <2>5
  <2> QED
    BY <2>1, <2>2, <2>4, <2>6 DEF ReadsInv, rest, its, i
<1>13. CASE Creator!MerkleProof
  <2>1. /\ step = "proof" /\ UNCHANGED <<tip, made, reads>>
        /\ i <= Len(Inputs[call.tx]) /\ u \in Stored
        /\ \/ step' = "failed" /\ UNCHANGED stack
           \/ /\ step' = "input"
              /\ \E proof \in Proofs[u] :
                    stack' = [stack EXCEPT ![n] = Creator!Adopt(@,
                                  Creator!Node(u, proof, <<>>))]
           \/ /\ step' = "input"
              /\ stack' = Append(stack, Creator!Frame(u))
    BY <1>2, <1>13 DEF Creator!MerkleProof, Creator!Recurse, CreatorInv, n, i
  <2>2. rest \in Nat /\ its \in Nat
    BY <1>6, <2>1
  <2>3. HasRoom(stack, tip, reads + (rest + its))
    BY <1>8, <2>1
  <2>4. CASE step' = "failed" /\ UNCHANGED stack
    BY <1>10, <2>1, <2>4
  <2>5. ASSUME NEW node, step' = "input",
               stack' = [stack EXCEPT ![n] = Creator!Adopt(@, node)]
        PROVE  ReadsInv'
    <3> DEFINE f == Creator!Adopt(call, node)
               r == [stack EXCEPT ![n] = f]
    <3>1. f.tx = call.tx /\ f.i = i + 1
      BY <1>1, AdoptedAt DEF i
    <3> HIDE DEF f
    <3>2. Len(r) = n /\ r[n] = f /\ \A k \in 1..(n - 1) : r[k] = stack[k]
      BY <1>1 DEF StackInv, n
    <3>3. r = stack'
      BY <2>5 DEF f, call
    <3> HIDE DEF r
    <3>4. HasRoom(r, tip, reads + rest)
      <4>1. reads + rest \in Nat /\ reads + (rest + its) \in Nat
            /\ reads + rest <= reads + (rest + its)
        BY <1>7, <2>2
      <4> QED
        BY <1>1, <2>3, <3>2, <4>1, RoomKept DEF n
    <3> QED
      BY <1>9, <2>1, <2>2, <2>5, <3>1, <3>2, <3>3, <3>4 DEF rest
  <2>6. CASE step' = "input" /\ stack' = Append(stack, Creator!Frame(u))
    <3> DEFINE f == Creator!Frame(u)
               r == Append(stack, f)
    <3>1. f.tx = u /\ f.i = 1
      BY DEF Creator!Frame
    <3> HIDE DEF f
    <3>2. Len(r) = n + 1 /\ r[n + 1] = f /\ \A k \in 1..n : r[k] = stack[k]
      BY <1>1 DEF StackInv, n
    <3>3. r = stack'
      BY <2>6 DEF f
    <3> HIDE DEF r
    <3>4. HasRoom(r, tip, reads + its)
      <4>1. reads + its \in Nat /\ (reads + its) + rest = reads + (rest + its)
        BY <1>7, <2>2
      <4>2. HasRoom(stack, tip, (reads + its) + rest)
        BY <2>3, <4>1
      <4>3. Ahead(stack[Len(stack)].tx, stack[Len(stack)].i + 1) = rest
        BY DEF rest, call, n, i
      <4> QED
        BY <1>1, <1>4, <2>2, <3>2, <4>1, <4>2, <4>3, RoomPushed DEF n
    <3> QED
      BY <1>9, <2>1, <2>2, <2>6, <3>1, <3>2, <3>3, <3>4 DEF its
  <2> QED
    BY <2>1, <2>4, <2>5, <2>6
<1>14. CASE Creator!ReturnToCaller
  <2> DEFINE below == SubSeq(stack, 1, n - 1)
             node == Creator!Node(call.tx, NoProof, call.parents)
             g == stack[n - 1]
             f == Creator!Adopt(g, node)
             r == [below EXCEPT ![n - 1] = f]
             own == Ahead(g.tx, g.i + 1)
  <2>1. /\ step = "input" /\ UNCHANGED <<tip, step, made, reads>> /\ n > 1
        /\ stack' = [below EXCEPT ![n - 1] = Creator!Adopt(@, node)]
    BY <1>2, <1>14 DEF Creator!ReturnToCaller, n, call
  <2>2. StackInv(below) /\ Len(below) = n - 1 /\ below[n - 1] = g
    BY <1>1, <2>1, Popped DEF n
  <2>3. \A k \in 1..(n - 1) : below[k] = stack[k]
    BY <1>1 DEF StackInv, n
  <2>4. LinkInv(stack, n) /\ FrameInv(g) /\ n - 1 \in Nat \ {0}
    BY <1>1, <2>1 DEF StackInv, n
  <2>5. f.tx = g.tx /\ f.i = g.i + 1
    BY <2>4, AdoptedAt
  <2>6. own \in Nat
    <3>1. g.i <= Len(Inputs[g.tx]) /\ g.tx \in Txs /\ g.i \in 1..(Len(Inputs[g.tx]) + 1)
      BY <2>1, <2>4 DEF LinkInv, FrameInv
    <3> QED
      BY <3>1, AheadValues
  <2> HIDE DEF below, node, f
  <2>7. Len(r) = n - 1 /\ r[n - 1] = f /\ \A k \in 1..((n - 1) - 1) : r[k] = stack[k]
    <3>0. PICK S : below \in Seq(S)
      BY <2>2 DEF StackInv
    <3>3. r = [below EXCEPT ![n - 1] = f]
      OBVIOUS
    <3> HIDE DEF r
    <3>1. /\ Len(r) = n - 1 /\ r[n - 1] = f
          /\ \A k \in 1..(n - 1) : k # n - 1 => r[k] = below[k]
      <4>1. \A m \in Nat \ {0} : Len(below) = m /\ r = [below EXCEPT ![m] = f] =>
               /\ Len(r) = m /\ r[m] = f
               /\ \A k \in 1..m : k # m => r[k] = below[k]
        BY <3>0, LastReplaced
      <4> QED
        BY <2>2, <2>4, <3>3, <4>1
    <3>2. \A k \in 1..((n - 1) - 1) : k \in 1..(n - 1) /\ k # n - 1
      BY <2>4
    <3> QED
      BY <2>3, <3>1, <3>2
  <2>8. r = stack'
    BY <2>1, <2>2 DEF f
  <2> HIDE DEF r, g, own
  <2>9. HasRoom(stack, tip, reads)
    BY <1>1, <1>5, <1>7, <1>8, <2>1, RoomKept DEF n
  <2>10. HasRoom(r, tip, reads + own)
    <3>1. Len(stack) = (n - 1) + 1
      BY <1>1 DEF n
    <3>2. Ahead(stack[n - 1].tx, stack[n - 1].i + 1) = own
      BY DEF own, g
    <3> QED
      BY <1>7, <2>4, <2>6, <2>7, <2>9, <3>1, <3>2, RoomPopped
  <2>11. Ahead(r[Len(r)].tx, r[Len(r)].i) = own
    BY <2>5, <2>7 DEF own
  <2> QED
    BY <1>9, <2>1, <2>6, <2>8, <2>10, <2>11
<1>15. CASE Creator!Return
  BY <1>10, <1>15 DEF Creator!Return
<1> QED
  BY <1>11, <1>12, <1>13, <1>14, <1>15 DEF Create, Creator!CreateTxAncestry

\* Once it has returned, no store is read.
LEMMA OthersDoNotRead ==
    ASSUME ReadsInv, [FlowNext]_flow, ~ Create
    PROVE  ReadsInv'
<1>1. CASE UNCHANGED creation
  BY <1>1 DEF ReadsInv, creation, Creator!Call, Creator!pTxID
<1>2. CASE Bytes \/ Deliver
  <2>1. /\ UNCHANGED <<tip, reads>> /\ step' \notin {"input", "proof"}
    BY <1>2 DEF Bytes, Deliver
  <2> QED
    BY <2>1 DEF ReadsInv
<1> QED
  BY <1>1, <1>2 DEF FlowNext, flow, serialiseInputs, serialiseInputsReturn, Relay, Verify

\* The stores are asked for a parent no more than once for each chain of
\* distinct transactions that leads to it (spends lead back in time, as for
\* AncestryIsAnchored), whatever they answer.
THEOREM ReadsAreFew ==
    ASSUME NEW Rank \in [Txs -> Nat],
           \A t \in Txs : \A j \in DOMAIN Inputs[t] :
                Rank[Inputs[t][j].tx] < Rank[t]
    PROVE  FlowSpec => []ReadsAreBounded
<1>1. FlowInit => ReadsInv
  BY InitReads
<1>2. ReadsInv /\ FlowInv /\ [FlowNext]_flow => ReadsInv'
  <2> SUFFICES ASSUME ReadsInv, FlowInv, [FlowNext]_flow PROVE ReadsInv'
    OBVIOUS
  <2>1. CASE Create
    <3>1. CreatorInv
      BY <2>1 DEF FlowInv
    <3> QED
      BY <2>1, <3>1, CreateReads
  <2> QED
    BY <2>1, OthersDoNotRead
<1>3. ReadsInv => ReadsAreBounded
  BY DEF ReadsInv, ReadsAreBounded, Ahead
<1> QED
  BY <1>1, <1>2, <1>3, FlowInvariance, PTL DEF FlowSpec

=============================================================================

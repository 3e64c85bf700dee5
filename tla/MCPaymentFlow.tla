---------------------------- MODULE MCPaymentFlow ----------------------------
(***************************************************************************)
(* TLC instance of PaymentFlow: a payment p that spends an output of a and *)
(* two of b; a and b spend from c, c from the coinbase transaction d,      *)
(* whose input names no transaction (z).  A payment n has no inputs.       *)
(***************************************************************************)
EXTENDS PaymentFlow, TLC

CONSTANTS p, a, b, c, d, n, z

MCTxs == {p, a, b, c, d, n, z}
MCTxID == [t \in MCTxs |-> t]
Spends(t, v) == [tx |-> t, vout |-> v]
MCInputs == (p :> <<Spends(b, 0), Spends(a, 0), Spends(b, 1)>>)
         @@ (a :> <<Spends(c, 0)>>) @@ (b :> <<Spends(c, 1)>>)
         @@ (c :> <<Spends(d, 0)>>) @@ (d :> <<Spends(z, 0)>>)
         @@ (n :> <<>>) @@ (z :> <<>>)
MCOutputs == (p :> <<12>>) @@ (a :> <<10>>) @@ (b :> <<3, 2>>)
          @@ (c :> <<10, 5>>) @@ (d :> <<20>>) @@ (n :> <<>>) @@ (z :> <<>>)
MCStored == {a, b, c, d}

Proof(t, tt) == [tx |-> t, targetType |-> tt, answer |-> "valid"]
MCProofs == [t \in MCStored |->
               {Proof(t, tt) : tt \in CASE t = c -> {"block", "header"}
                                       [] t = d -> {"block", "root"}
                                       [] OTHER -> {"block"}}]
MCOptions   == {<<>>, <<[opt |-> "VerifyFees", quote |-> 3]>>}

=============================================================================

--------------------------- MODULE MCPaymentVerifier ---------------------------
(***************************************************************************)
(* TLC instance of PaymentVerifier: a payment p that spends an output of a *)
(* and one of b, both of which spend from c, and every way of sending, of  *)
(* proving and of leaving out the three; a payment q that spends two       *)
(* outputs of a, the first of them one that a does not have; a payment r   *)
(* that pays more than it spends, and a payment w whose outputs add up to  *)
(* more than a word holds; a payment s that spends an output of the bytes  *)
(* ae, which are a in the extended format, by their hash.                  *)
(***************************************************************************)
EXTENDS PaymentVerifier, TLC

CONSTANTS p, q, r, s, w, a, ae, b, c, d, n

MCTxs  == {p, q, r, s, w, a, ae, b, c, d, n}
MCTxID == [t \in MCTxs |-> IF t = ae THEN a ELSE t]
Spends(t, v) == [tx |-> t, vout |-> v]
MCInputs == (p :> <<Spends(a, 0), Spends(b, 0)>>)
         @@ (q :> <<Spends(a, 7), Spends(a, 0)>>)
         @@ (r :> <<Spends(a, 0)>>) @@ (w :> <<Spends(a, 0)>>)
         @@ (s :> <<Spends(ae, 0)>>) @@ (ae :> <<Spends(c, 0)>>)
         @@ (a :> <<Spends(c, 0)>>) @@ (b :> <<Spends(c, 1)>>)
         @@ (c :> <<Spends(d, 0)>>) @@ (d :> <<Spends(n, 0)>>) @@ (n :> <<>>)
MCOutputs == (p :> <<12>>) @@ (q :> <<9>>) @@ (r :> <<11>>) @@ (s :> <<6>>)
          @@ (w :> <<20, 14>>) @@ (a :> <<10>>) @@ (ae :> <<10>>) @@ (b :> <<5>>)
          @@ (c :> <<10, 5>>) @@ (d :> <<20>>) @@ (n :> <<20>>)

Tx(t)        == [type |-> "tx", data |-> t]
Proof(t, tt, ans) ==
    [type |-> "proof", data |-> [tx |-> t, targetType |-> tt, answer |-> ans]]
Valid(t)     == Proof(t, "block", "valid")
Mapi(x)      == [type |-> "mapi", data |-> x]
Other        == [type |-> "other", data |-> Malformed]
Pay(t, cs)   == [tx |-> t, version |-> 1, chunks |-> cs, short |-> FALSE]
Cut(t, cs)   == [Pay(t, cs) EXCEPT !.short = TRUE]

\* How a transaction is sent: not at all, alone, or with a proof.
Ways(t) == {<<>>, <<Tx(t)>>, <<Tx(t), Valid(t)>>}
OddWays(t) ==
    {<<Tx(t), Proof(t, tt, ans)>> :
        tt \in {"block", "root"},
        ans \in {"valid", "invalid", "error", "malformed", "truncated"}}
      \cup {<<Tx(t), Valid(c)>>,
            <<Tx(t), Valid(t), Proof(t, "root", "invalid")>>,
            <<Tx(t), Valid(t), Tx(t)>>,
            <<Tx(t), Mapi(t), Valid(t), Other>>,
            <<Tx(t), Mapi(Malformed)>>, <<Tx(t), Mapi(Overrun), Valid(t)>>}

HonestPayments ==
    {Pay(p, <<Tx(a), Valid(a), Tx(b), Valid(b)>>),
     Pay(p, <<Tx(b), Valid(b), Tx(a), Tx(c), Mapi(c), Valid(c)>>),
     Pay(p, <<Tx(a), Tx(b), Tx(c), Proof(c, "root", "valid")>>),
     Pay(p, <<Tx(c), Valid(c), Tx(p), Other, Tx(b), Tx(a)>>)}

MCPayments ==
    HonestPayments
      \cup {Pay(p, wa \o wb \o wc) : wa \in Ways(a) \cup OddWays(a),
                                     wb \in Ways(b), wc \in Ways(c)}
      \cup {Pay(p, <<Tx(p), Valid(p)>> \o wa) : wa \in Ways(a)}
      \cup {Pay(p, <<Tx(a), Tx(x)>>) : x \in {n, Malformed}}
      \cup {Pay(p, <<x, Tx(a)>>) : x \in {Valid(a), Other}}
      \cup {Cut(p, <<Tx(a), Valid(a), Tx(b)>> \o wc \o <<x>>) :
              wc \in Ways(c),
              x \in {Tx(c), Tx(Malformed), Valid(b), Proof(b, "block", "malformed"),
                     Mapi(b), Mapi(Overrun), Other}}
      \cup {Pay(n, <<Tx(a), Valid(a)>>)}
      \cup {Pay(q, <<Tx(a)>>)} \cup {Pay(t, <<Tx(a), Valid(a)>>) : t \in {r, s, w}}
      \cup {Pay(s, <<Tx(ae), Valid(t)>>) : t \in {a, ae}}
      \cup {Pay(p, <<Tx(ae), Valid(a), Tx(b), Valid(b)>>)}
      \cup {[Pay(p, <<Tx(a)>>) EXCEPT !.version = v] : v \in {0, 2}}

Opt(x)    == [opt |-> x]
Fees(fee) == [opt |-> "VerifyFees", quote |-> fee]

MCVerifyOpts ==
    {<<>>, <<Fees(3)>>, <<Fees(4)>>, <<Fees(NoQuote)>>,
     <<Opt("NoVerifyProofs"), Fees(3)>>,
     <<Opt("NoVerifySPV"), Opt("VerifyProofs"), Opt("NoVerifyFees")>>,
     <<Opt("VerifySPV"), Opt("NoVerifyScript")>>,
     <<Opt("NoVerifyProofs"), Opt("VerifyScript")>>}
MCCallOpts == MCVerifyOpts \cup {<<Fees(NoFee)>>, <<Fees(NoBytes)>>}

\* One call, with options for the verifier and for the call; and two calls
\* at once, with options of their own each.
Work(op, calls) == [ctor |-> op, calls |-> calls]
OneCall(pays, ctors, opts_) ==
    {Work(op, 1 :> [payment |-> pay, opts |-> os]) :
        op \in ctors, pay \in pays, os \in opts_}
SharedPayments ==
    {Pay(p, <<Tx(a), Tx(b), Tx(c), Valid(c)>>), Pay(p, <<Tx(a), Tx(b)>>)}
SharedOpts ==
    {<<>>, <<Fees(3)>>, <<Fees(4)>>, <<Opt("NoVerifySPV")>>}
TwoCalls ==
    {Work(op, f) :
        op \in SharedOpts,
        f \in [{1, 2} -> [payment : SharedPayments, opts : SharedOpts]]}

MCWorkloads == OneCall(MCPayments, MCVerifyOpts, MCCallOpts) \cup TwoCalls

\* What the documentation says, of a call with the default options; and of
\* one that asks for the proofs a verifier was built without.
DocWorkloads ==
    OneCall(HonestPayments \cup {Pay(q, <<Tx(a), Valid(a)>>)}, {<<>>}, {<<>>})
NilWorkloads ==
    OneCall(HonestPayments, {<<Opt("NoVerifyProofs")>>, <<Opt("VerifyProofs")>>},
            {<<Opt("NoVerifyProofs")>>, <<Opt("VerifyProofs")>>})

=============================================================================

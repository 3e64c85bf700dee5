SPECIFICATION Spec
CONSTANTS
    p = p
    q = q
    r = r
    s = s
    w = w
    a = a
    ae = ae
    b = b
    c = c
    d = d
    n = n
    Txs <- MCTxs
    TxID <- MCTxID
    Inputs <- MCInputs
    Outputs <- MCOutputs
    Word = 32
    Malformed = Malformed
    Overrun = Overrun
    NoProof = NoProof
    HeaderChains = {TRUE, FALSE}
    Callers = {1, 2}
    Workloads <- MCWorkloads
INVARIANTS
    TypeOK
    AnchoredAncestry
    FeesCovered
    HonestIsAccepted
    OptionsIsolated
PROPERTIES
    Termination
CHECK_DEADLOCK FALSE

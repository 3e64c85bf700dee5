SPECIFICATION Spec
CONSTANTS
    p = p
    q = q
    r = r
    s = s
    w = w
    a = a
    ae = ae
    b = b
    c = c
    d = d
    n = n
    Txs <- MCTxs
    TxID <- MCTxID
    Inputs <- MCInputs
    Outputs <- MCOutputs
    Word = 32
    Malformed = Malformed
    Overrun = Overrun
    NoProof = NoProof
    HeaderChains = {TRUE}
    Callers = {1, 2}
    Workloads <- DocWorkloads
INVARIANTS
    SpendsAreInBounds
CHECK_DEADLOCK FALSE

SPECIFICATION FlowSpec
CONSTANTS
    p = p
    a = a
    b = b
    c = c
    d = d
    n = n
    z = z
    Txs <- MCTxs
    TxID <- MCTxID
    Inputs <- MCInputs
    Outputs <- MCOutputs
    Word = 32
    Malformed = Malformed
    Overrun = Overrun
    NoProof = NoProof
    HeaderChains = {TRUE}
    Callers = {1}
    Workloads = {}
    Stored <- MCStored
    Proofs <- MCProofs
    Tips = {p, n}
    Options <- MCOptions
    MaxRelays = 2
INVARIANTS
    FlowTypeOK
    CreatedIsAccepted
    EvidenceKept
    ReadsAreBounded
CHECK_DEADLOCK FALSE

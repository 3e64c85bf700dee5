SPECIFICATION Spec
CONSTANTS
    p = p
    q = q
    a = a
    b = b
    c = c
    d = d
    e = e
    Txs <- MCTxs
    Parents <- MCParents
    NoTx = NoTx
    NoProof = NoProof
    Malformed = Malformed
    Garbled = Garbled
    Short = Short
    NoEnvelope = NoEnvelope
    Received <- MCReceived
    Envelopes <- MCEnvelopes
    Chains <- MCChains
INVARIANTS
    TypeOK
    ChainsReadBack
    WrittenIsChain
    OnlyWholeIsRead
PROPERTIES
    Termination
CHECK_DEADLOCK FALSE

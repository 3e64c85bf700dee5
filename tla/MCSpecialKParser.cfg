SPECIFICATION Spec
CONSTANTS
    a = a
    b = b
    c = c
    d = d
    Null = Null
    Bad = Bad
    None = None
    Txs <- MCTxs
    Inputs <- MCInputs
    Streams <- MCStreams
INVARIANTS
    TypeOK
    NoRace
    NothingLost
    MalformedNeverReturns
    EnvelopeIsTree
    ReturnsWhatWasGiven
PROPERTIES
    CollectionEnds
    Termination

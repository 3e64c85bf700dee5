SPECIFICATION Spec
CONSTANTS
    Txs <- MCTxs
    BadHex <- MCBadHex
    MaxTxs = 10
    PowersOfTwo = {1, 2, 4, 8, 16}
    Blocks <- MCBlocks
INVARIANTS
    TypeOK
    PathLeadsToRoot
    PathCoversIndex
    ErrorIffMalformed
    RootIsMerkleRoot
CHECK_DEADLOCK FALSE

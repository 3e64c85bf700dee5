SPECIFICATION Spec
CONSTANTS
    Txs <- MCTxs
    MaxTxs = 9
    PowersOfTwo = {1, 2, 4, 8, 16}
    Blocks <- MCBlocks
    Asked <- MCTxs
INVARIANTS
    TypeOK
    RootOrNotFound
    SortedIsSafe
CHECK_DEADLOCK FALSE

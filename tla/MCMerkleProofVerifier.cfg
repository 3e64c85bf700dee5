SPECIFICATION Spec
CONSTANTS
    Txs <- MCTxs
    MaxTxs = 5
    PowersOfTwo = {1, 2, 4, 8}
    Sizes = {1, 2, 3, 5}
    TxsOf <- MCTxsOf
    LongestChain <- MCChain
    Requests <- MCRequests
    WordBits = 4
INVARIANTS
    TypeOK
    
    

    
CHECK_DEADLOCK FALSE

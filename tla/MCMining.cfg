SPECIFICATION Spec
CONSTANTS
    MaxTxs = 6
    Txs <- MCTxs
    PowersOfTwo = {1, 2, 4, 8}
    Jobs <- MCJobs
    Branches <- MCBranches
    Hashes <- MCHashes
    ByteBits = 3
INVARIANTS
    TypeOK
    MinedBlockReadsBack
    WorkMeetsTarget
CHECK_DEADLOCK FALSE

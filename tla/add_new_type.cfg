\* add_pools over HTTP brings the first pool of its type.
SPECIFICATION Spec
CONSTANTS
    Pools = {"a", "b"}
    Logs <- MCLogs
    Absent = Absent
    Block <- MCBlock
    PoolOf <- MCPoolOf
    TypeOf <- TwoTypes
    IsSwap <- MCIsSwap
    InitPools = {"a"}
    Modes = {"latest"}
    StartBlock = 1
    MaxBlock = 4
    MaxBlocksPerBatch = 2
    RpcLag = 1
    SwapBuffer = 1
    MaxAdds = 1
    MaxRemovals = 0
INVARIANTS StatesConsistent
CHECK_DEADLOCK FALSE

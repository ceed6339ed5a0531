\* All three modes; a pool is removed and added back.
SPECIFICATION FairSpec
CONSTANTS
    Pools = {"a", "b"}
    Logs <- MCLogs
    Absent = Absent
    Block <- MCBlock
    PoolOf <- MCPoolOf
    TypeOf <- OneType
    IsSwap <- MCIsSwap
    InitPools = {"a", "b"}
    Modes = {"pending", "latest", "websocket"}
    StartBlock = 1
    MaxBlock = 4
    MaxBlocksPerBatch = 2
    RpcLag = 1
    SwapBuffer = 1
    MaxAdds = 1
    MaxRemovals = 1
INVARIANTS HandleTypeOK PendingStaysSpeculative ClonesInChainOrder
    SimulatorSeesBatch SwapsInPoolOrder
PROPERTIES ImplementsReplay CallsReturn CatchesUp
CHECK_DEADLOCK FALSE

\* Two URLs whose first subscriptions come up after bootstrap.
SPECIFICATION Spec
CONSTANTS
    Logs <- ThreeLogs
    Block <- MCBlock
    BlockStart <- MCBlockStart
    BufferSize = 2
    MaxEvents = 3
    Feeds = {f1, f2}
    StartBlock = 1
    MaxBlock = 4
    MaxReorgs = 0
    MaxReconnects = 1
    NodeLag = 0
    LogChannelSize = 1
    MaxBlocksPerBatch = 1
    BootRpcLag = FALSE
    BootRpcFails = FALSE
INVARIANT NothingLost

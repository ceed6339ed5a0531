\* Bootstrap while the chain is still at the block the pools were fetched at.
SPECIFICATION Spec
CONSTANTS
    Logs <- StartBlockLogs
    Block <- MCBlock
    BlockStart <- MCBlockStart
    BufferSize = 2
    MaxEvents = 3
    Feeds = {f1}
    StartBlock = 1
    MaxBlock = 3
    MaxReorgs = 0
    MaxReconnects = 1
    NodeLag = 0
    LogChannelSize = 1
    MaxBlocksPerBatch = 1
    BootRpcLag = FALSE
    BootRpcFails = FALSE
INVARIANT AppliedAtMostOnce

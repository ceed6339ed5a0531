\* Bootstrap while the RPC node is behind the websocket node.
SPECIFICATION Spec
CONSTANTS
    Logs <- ThreeLogs
    Block <- MCBlock
    BlockStart <- MCBlockStart
    BufferSize = 2
    MaxEvents = 3
    Feeds = {f1}
    StartBlock = 1
    MaxBlock = 4
    MaxReorgs = 0
    MaxReconnects = 1
    NodeLag = 1
    LogChannelSize = 1
    MaxBlocksPerBatch = 1
    BootRpcLag = TRUE
    BootRpcFails = FALSE
INVARIANT NothingLost

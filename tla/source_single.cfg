\* One websocket URL: reconnect gaps are filled over RPC.
SPECIFICATION FairSpec
CONSTANTS
    Logs <- ThreeLogs
    Block <- MCBlock
    BlockStart <- MCBlockStart
    BufferSize = 2
    MaxEvents = 3
    Feeds = {f1}
    StartBlock = 1
    MaxBlock = 4
    MaxReorgs = 0
    MaxReconnects = 2
    NodeLag = 1
    LogChannelSize = 1
    MaxBlocksPerBatch = 1
    BootRpcLag = FALSE
    BootRpcFails = FALSE
INVARIANTS TypeOK AppliedAtMostOnce NothingLost GapsCoverLosses CursorCoversApplied
PROPERTIES PricedInChainOrder ForwardedIsApplied

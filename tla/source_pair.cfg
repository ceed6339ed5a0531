\* Two websocket URLs: no gap is filled, duplicates are dropped within a
\* window of one key; a reorg may retract a log.
SPECIFICATION Spec
CONSTANTS
    Logs <- TwoLogs
    Block <- MCBlock
    BlockStart <- MCBlockStart
    BufferSize = 1
    MaxEvents = 1
    Feeds = {f1, f2}
    StartBlock = 1
    MaxBlock = 3
    MaxReorgs = 1
    MaxReconnects = 1
    NodeLag = 0
    LogChannelSize = 1
    MaxBlocksPerBatch = 2
    BootRpcLag = FALSE
    BootRpcFails = TRUE
SYMMETRY FeedSymmetry
INVARIANTS AppliedOncePerKey DedupWindow
CHECK_DEADLOCK FALSE

\* A reorg's retraction is queued when bootstrap drains the queue.
SPECIFICATION Spec
CONSTANTS
    Logs <- ThreeLogs
    Block <- MCBlock
    BlockStart <- MCBlockStart
    BufferSize = 2
    MaxEvents = 3
    Feeds = {f1}
    StartBlock = 1
    MaxBlock = 4
    MaxReorgs = 1
    MaxReconnects = 2
    NodeLag = 1
    LogChannelSize = 1
    MaxBlocksPerBatch = 1
    BootRpcLag = FALSE
    BootRpcFails = FALSE
PROPERTY RetractionNotApplied

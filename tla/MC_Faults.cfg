\* Transport failures up to a full retry streak and an interrupt at any
\* point where the checkpoint is consistent, on multi-transaction blocks.
CONSTANTS
    A = A
    B = B
    T1 = T1
    T2 = T2
    ZeroAddr = ZeroAddr
    Contract = Contract
    OtherContract = OtherContract
    TransferSingle = TransferSingle
    TransferBatch = TransferBatch
    ApprovalForAll = ApprovalForAll
    OtherTopic = OtherTopic
    Holders <- MCHolders
    Tokens <- MCTokens
    SupportedTokens <- MCSupported
    Seed <- MCSeed
    Chains <- MCChains
    AttemptCount = 3
    MaxFailures = 3
    MaxInterrupts = 1
    InterruptPoints = {"get_block", "receipt", "merge_block"}
    MaxBlocks = 2
    MaxTxs = 2
    MaxChainTxs = 2
SPECIFICATION Spec
INVARIANT CheckpointConsistent RetryCeilingRespected NoStaleHandle
\* The program exits at the chain head or on an exception.
CHECK_DEADLOCK FALSE

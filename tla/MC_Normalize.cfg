\* A holder spends all it has, the run stops at the next block, and the
\* operator resumes from the printed ledger.
CONSTANTS
    A = A
    B = B
    T1 = T1
    T2 = T2
    ZeroAddr = ZeroAddr
    Contract = Contract
    OtherContract = OtherContract
    TransferSingle = TransferSingle
    TransferBatch = TransferBatch
    ApprovalForAll = ApprovalForAll
    OtherTopic = OtherTopic
    Holders <- MCHolders
    Tokens <- MCTokens
    SupportedTokens <- MCSupported
    Seed <- MCSeed
    Chains <- MCChains
    AttemptCount = 3
    MaxFailures = 0
    MaxInterrupts = 1
    InterruptPoints = {"get_block"}
    MaxBlocks = 2
    MaxTxs = 1
    MaxChainTxs = 1
    MaxRestarts = 1
SPECIFICATION ResumeSpec
INVARIANT LoadedSeedNormalized
\* The last run exits at the chain head or on an exception.
CHECK_DEADLOCK FALSE

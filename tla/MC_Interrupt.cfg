\* An interrupt may also arrive between merge_owners(owners, block_owners)
\* and block_number += 1, where nothing in the program excludes it.
CONSTANTS
    A = A
    B = B
    T1 = T1
    T2 = T2
    ZeroAddr = ZeroAddr
    Contract = Contract
    OtherContract = OtherContract
    TransferSingle = TransferSingle
    TransferBatch = TransferBatch
    ApprovalForAll = ApprovalForAll
    OtherTopic = OtherTopic
    Holders <- MCHolders
    Tokens <- MCTokens
    SupportedTokens <- MCSupported
    Seed <- MCSeed
    Chains <- MCChains
    AttemptCount = 3
    MaxFailures = 0
    MaxInterrupts = 1
    InterruptPoints = {"get_block", "receipt", "merge_block", "advance"}
    MaxBlocks = 1
    MaxTxs = 1
    MaxChainTxs = 1
SPECIFICATION Spec
INVARIANT CheckpointConsistent
\* The program exits at the chain head or on an exception.
CHECK_DEADLOCK FALSE

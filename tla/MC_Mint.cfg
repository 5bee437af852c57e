\* The scan against one-block chains, with no failures: what the ledger
\* holds after a mint or a burn.
CONSTANTS
    A = A
    B = B
    T1 = T1
    T2 = T2
    ZeroAddr = ZeroAddr
    Contract = Contract
    OtherContract = OtherContract
    TransferSingle = TransferSingle
    TransferBatch = TransferBatch
    ApprovalForAll = ApprovalForAll
    OtherTopic = OtherTopic
    Holders <- MCHolders
    Tokens <- MCTokens
    SupportedTokens <- MCSupported
    Seed <- MCSeed
    Chains <- MCChains
    AttemptCount = 3
    MaxFailures = 0
    MaxInterrupts = 0
    InterruptPoints = {"get_block", "receipt", "merge_block"}
    MaxBlocks = 1
    MaxTxs = 1
    MaxChainTxs = 1
SPECIFICATION Spec
INVARIANT ZeroAccountNeverInLedger
\* The program exits at the chain head or on an exception.
CHECK_DEADLOCK FALSE

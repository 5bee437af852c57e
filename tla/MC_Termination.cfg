\* Termination of the scan under transport failures and an interrupt, on
\* chains of up to two blocks and two transactions.
CONSTANTS
    A = A
    B = B
    T1 = T1
    T2 = T2
    ZeroAddr = ZeroAddr
    Contract = Contract
    OtherContract = OtherContract
    TransferSingle = TransferSingle
    TransferBatch = TransferBatch
    ApprovalForAll = ApprovalForAll
    OtherTopic = OtherTopic
    Holders <- MCHolders
    Tokens <- MCTokens
    SupportedTokens <- MCSupported
    Seed <- MCSeed
    Chains <- MCChains
    AttemptCount = 3
    MaxFailures = 2
    MaxInterrupts = 1
    InterruptPoints = {"get_block", "receipt", "merge_block", "advance"}
    MaxBlocks = 2
    MaxTxs = 1
    MaxChainTxs = 1
SPECIFICATION Spec
PROPERTY Termination
\* The program exits at the chain head or on an exception.
CHECK_DEADLOCK FALSE

\* The scan against every small chain, with no transport failures and one
\* interrupt at the points where the program's checkpoint is consistent.
CONSTANTS
    A = A
    B = B
    T1 = T1
    T2 = T2
    ZeroAddr = ZeroAddr
    Contract = Contract
    OtherContract = OtherContract
    TransferSingle = TransferSingle
    TransferBatch = TransferBatch
    ApprovalForAll = ApprovalForAll
    OtherTopic = OtherTopic
    Holders <- MCHolders
    Tokens <- MCTokens
    SupportedTokens <- MCSupported
    Seed <- MCSeed
    Chains <- MCChains
    AttemptCount = 3
    MaxFailures = 0
    MaxInterrupts = 1
    InterruptPoints = {"get_block", "receipt", "merge_block"}
    MaxBlocks = 2
    MaxTxs = 2
    MaxChainTxs = 3
SPECIFICATION Spec
INVARIANT TypeOK HoldingsMatchChain FlowMatchesLedger UnhandledIsAudit
 
\* The program exits at the chain head or on an exception.
CHECK_DEADLOCK FALSE

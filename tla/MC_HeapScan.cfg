\* The ledger objects of the scan against every small chain: two blocks and
\* three transactions, so that an owner's dict is shared across the
\* transactions of one block and across blocks.
CONSTANTS
    A = A
    B = B
    T1 = T1
    T2 = T2
    ZeroAddr = ZeroAddr
    Contract = Contract
    OtherContract = OtherContract
    TransferSingle = TransferSingle
    TransferBatch = TransferBatch
    ApprovalForAll = ApprovalForAll
    OtherTopic = OtherTopic
    Holders <- MCHolders
    Tokens <- MCTokens
    SupportedTokens <- MCSupported
    Seed <- MCSeed
    Chains <- MCChains
    MaxBlocks = 2
    MaxTxs = 2
    MaxChainTxs = 3
SPECIFICATION Spec
PROPERTY AliasingInvisible
\* The program exits at the chain head.
CHECK_DEADLOCK FALSE

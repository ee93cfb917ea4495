SPECIFICATION MCSpec
CONSTANTS
    Block <- MCBlock
    BtcParent <- MCBtcParent
    BtcHeight <- MCBtcHeight
    StxBlock <- MCStxBlock
    StxParent <- MCStxParent
    StxHeight <- MCStxHeight
    StxRank <- MCStxRank
    Anchor <- MCAnchor
    Txid <- MCTxid
    TxIns <- MCTxIns
    TxOuts <- MCTxOuts
    OpReturnIds <- MCOpReturnIds
    BlockTxs <- MCBlockTxs
    Script <- MCScript
    DepositKey <- MCDepositKey
    LockTime <- MCLockTime
    EmilyDeposits <- MCEmilyDeposits
    NewShares <- MCNewShares
    StxEvents <- MCStxEvents
    Expired = {}
    BootstrapKeys = {"k0"}
    MaxReorgBlockCount = 2
    MaxMempoolPackageTxCount = 2
    DepositLocktimeBlockBuffer = 1
    StartHeight = 1
    VerificationWindow = 1
    ContextWindow = 2
    LimitWindow = 2
    Self = "me"
    BroadcastCapacity = 1
    Budgets <- MCBudgets
    Client = {c1, c2}
    Request = {r1}
    Voter = {v1, v2}
    Peer = {p1}
    Address = {a1, a2}
    MaxVersion = 2
    MaxWrites = 2
INVARIANTS
    ChainIsStored
    AnswersFollowTheChain
    MemoryStoreIsFaithful
PROPERTIES
    BestBlockAnnounced
CHECK_DEADLOCK FALSE

CONSTANTS
    Users = {u1, u2}
    Deployer = deployer
    None = None
    BootstrapSigners = bootstrap
    SbtcDeposit = deposit
    SbtcWithdrawal = withdrawal
    Contracts = {bootstrap, deposit, withdrawal, other}
    Upgrades = {other}
    SignerKeys = {k1}
    AggregateKeys = {a1}
    Txids = {t1}
    FullTxids = {t1}
    Forks = {f1, f2}
    Versions = {4, 7}
    Amounts = {0, 1}
    DUST_LIMIT = 0
    MaxSigners = 2
    MaxOutputs = 2
    MaxRequests = 2
    MaxHeight = 1
    MaxBatch = 2
    Block <- MCBlock
    BtcParent <- MCParent
    BtcHeight <- MCHeight
    StxBlock <- MCBlock
    StxParent <- MCParent
    StxHeight <- MCHeight
    StxRank <- MCRank
    Anchor <- MCAnchor
    TxIns <- Nothing
    TxOuts <- Nothing
    OpReturnIds <- Nothing
    Script <- MCScript
    DepositKey <- MCDepositKey
    LockTime <- MCLockTime
    Expired = {}
    MaxReorgBlockCount = 3
    MaxMempoolPackageTxCount = 3
    DepositLocktimeBlockBuffer = 2
    GroupBits = 7
    Width = 15
    AllocBytesLimit = 600
    MAX_MONEY = 1000000000
    SATURATED = 1500000000
    PACKAGE_MAX_VSIZE = 400
    MAX_PRESIGN_REQUEST_SIZE = 300
    MAX_MEMPOOL_PACKAGE_TX_COUNT = 3
    OP_RETURN_MAX_SIZE = 80
    DEPOSIT_LOCKTIME_BLOCK_BUFFER = 2
    WITHDRAWAL_MIN_CONFIRMATIONS = 6
    WITHDRAWAL_BLOCKS_EXPIRY = 24
    MIN_BITCOIN_FEE_RATE = 1
    MAX_BITCOIN_FEE_RATE = 1000
    Signer <- MCSigner
    Threshold = 2
    Coordinator <- MCCoordinator
    Genesis = "g"
    Deposit <- MCDeposit
    Outpoint <- MCOutpoint
    Amount <- MCAmount
    MaxFee <- MCMaxFee
    DepositWeight = 400
    DepositBlocks <- MCDepositBlocks
    Key = "key"
    GiftOutpoint <- MCGift
    GiftAmount = 20000
    Window = 10
    RetryWindow = 3
    MaxDeposits = 1
    Limits <- MCLimits
    Worlds <- MCWorlds
    gift = gift
    dep1 = dep1
    dep2 = dep2
    Parts = {"contracts", "deposits"}
SPECIFICATION MCSpec
INVARIANTS
    SbtcIsBacked
    RegistryConsistent
    MintsAreSwept
    MintsAreBacked
    SweepsHaveConsent
    AcceptedDepositsAreMinted
PROPERTIES
    DecisionsAreFinal
    SweptInTime

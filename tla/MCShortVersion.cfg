CONSTANTS
    Kinds = {"short_request"}
    MaxLength = 4
    GroupBits = 7
    Width = 15
    AllocBytesLimit = 600
    MAX_MONEY = 1000000000
    SATURATED = 1500000000
    PACKAGE_MAX_VSIZE = 400
    MAX_PRESIGN_REQUEST_SIZE = 300
    MAX_MEMPOOL_PACKAGE_TX_COUNT = 3
    OP_RETURN_MAX_SIZE = 8
    DEPOSIT_LOCKTIME_BLOCK_BUFFER = 3
    WITHDRAWAL_MIN_CONFIRMATIONS = 6
    WITHDRAWAL_BLOCKS_EXPIRY = 24
    MIN_BITCOIN_FEE_RATE = 1
    MAX_BITCOIN_FEE_RATE = 1000

SPECIFICATION AlgSpec
CHECK_DEADLOCK FALSE

INVARIANT ShortVersionsAreRecorded

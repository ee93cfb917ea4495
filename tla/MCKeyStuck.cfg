CONSTANTS
    Signers = {s1, s2, s3}
    Threshold = 2
    WITHDRAWAL_MIN_CONFIRMATIONS = 2
    WITHDRAWAL_BLOCKS_EXPIRY = 3
    WITHDRAWAL_EXPIRY_BUFFER = 1
    Worlds <- PackageWorld
    MaxHeight = 8
    MaxRequests = 1
    MaxTxs = 3
    Parts = {"keys"}
    dkg_verification_window = 0
    dkg_min_bitcoin_block_height = 0
    KeySigners = {k1, k2, k3}
    KeyThreshold = 2
    MaxKeyHeight = 3
SPECIFICATION MCSpec
INVARIANT ResumesDkg
SYMMETRY SignerSymmetry
CHECK_DEADLOCK FALSE

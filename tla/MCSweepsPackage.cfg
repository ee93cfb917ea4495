CONSTANTS
    Signers = {s1, s2, s3}
    Threshold = 2
    WITHDRAWAL_MIN_CONFIRMATIONS = 2
    WITHDRAWAL_BLOCKS_EXPIRY = 3
    WITHDRAWAL_EXPIRY_BUFFER = 1
    Worlds <- PackageWorld
    MaxHeight = 8
    MaxRequests = 1
    MaxTxs = 3
    Parts = {"sweeps"}
    dkg_verification_window = 1
    dkg_min_bitcoin_block_height = 2
    KeySigners = {k1, k2}
    KeyThreshold = 1
    MaxKeyHeight = 3
SPECIFICATION MCSpec
INVARIANT NeverPaidAndRejected
SYMMETRY SignerSymmetry
CHECK_DEADLOCK FALSE

CONSTANTS
    Signers = {s1, s2, s3}
    Threshold = 2
    WITHDRAWAL_MIN_CONFIRMATIONS = 2
    WITHDRAWAL_BLOCKS_EXPIRY = 4
    WITHDRAWAL_EXPIRY_BUFFER = 1
    Worlds <- AllWorlds
    MaxHeight = 9
    MaxRequests = 2
    MaxTxs = 3
    Parts = {"sweeps", "keys"}
    dkg_verification_window = 1
    dkg_min_bitcoin_block_height = 2
    KeySigners = {k1, k2}
    KeyThreshold = 1
    MaxKeyHeight = 3
SPECIFICATION MCSpec
INVARIANTS
    PaymentsMatchDecisions
    RegistryKeyIsUsable
    SweepsUseRegistryKeys
    OnePendingRound
PROPERTIES
    RejectsOnlyTheUnpayable
SYMMETRY SignerSymmetry
CHECK_DEADLOCK FALSE

CONSTANTS
    Parts = {"verification", "dkg"}
    Signers = {s1, s2, s3}
    MaxBlocks = 1
    DkgSigners = {s1, s2}
    Coordinator = s1
    MaxRestarts = 1
SPECIFICATION MCSpec
CHECK_DEADLOCK FALSE
INVARIANTS
    VerifiedIsSigned
    NoMessageLost
    SameKey
PROPERTIES
    RoundSpec
    RoundsComplete

SPECIFICATION MCSpec
CONSTANTS
    Parts = {"entries", "limits"}
    Deposits = {d1}
    RequestIds = {r1}
    SignerCalls = {s1}
    CronCalls = {c1}
    UserCalls = {u1, u2}
    NO_REORG_DEPTH = 1
    MaxPosts = 2
    Budgets <- MCBudgets
    None = None
INVARIANTS
    EntriesFollowTheChain
    LimitsHold
PROPERTIES
    LesserKeysOnlyRestrict
    ReorgEnds
CHECK_DEADLOCK FALSE

SPECIFICATION MCSpec
CONSTANTS
    Parts = {"entries"}
    Deposits = {d1}
    RequestIds = {r1}
    SignerCalls = {s1}
    CronCalls = {c1}
    UserCalls = {u1, u2}
    NO_REORG_DEPTH = 1
    MaxPosts = 2
    Budgets <- ForkBudgets
    None = None
INVARIANT ServesCanonicalWithdrawal
CHECK_DEADLOCK FALSE

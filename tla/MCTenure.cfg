SPECIFICATION MCSpec
CONSTANTS
    Parts = {"tenures", "clients"}
    s1 = s1
    s2 = s2
    t1 = t1
    t2 = t2
    Signer = {s1, s2}
    Leaders = {s1, s2}
    SignaturesRequired = 2
    Contract <- MCContract
    Swept <- MCSwept
    Estimate = {1, 3}
    stacks_fees_max_ustx = 2
    MaxTip = 2
    MaxFaults = 1
    STACKS_SIGN_REQUEST_LRU_SIZE = 2
    N = 3
    Task = {t1, t2}
    Deposit = {1, 2}
    Corrupt = {1}
    DEFAULT_MINIMUM_RETRY_COUNT = 2
    MaxFlips = 1
INVARIANTS
    TransactionsInOrder
    OncePerTenure
    ClientsAnswerTruly
PROPERTIES
    WorkGetsDone

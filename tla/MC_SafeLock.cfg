SPECIFICATION FairLockSpec
CONSTANTS
    Threads = {t1, t2}
    N = 2
    MaxKeys = 2
    MaxDepth = 2
INVARIANTS
    MutualExclusion
    SingleKey
PROPERTY
    LockReturns

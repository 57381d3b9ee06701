SPECIFICATION Spec
CONSTANTS
    t1 = t1
    t2 = t2
    Objs = {t1, t2}
    None = none
    JoinGarbage = {t2}
    Starts <- MCStarts
INVARIANTS
    OneRunner
    ThreadsAccounted
PROPERTIES
    JoinWaits
    JoinAllEnds
\* cancelAll and ___run take their two locks in opposite orders and can block each
\* other for good.
CHECK_DEADLOCK FALSE

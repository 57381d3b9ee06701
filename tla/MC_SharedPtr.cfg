SPECIFICATION Spec
CONSTANTS
    t1 = t1
    t2 = t2
    a1 = a1
    a2 = a2
    b1 = b1
    b2 = b2
    c1 = c1
    d1 = d1
    d2 = d2
    Threads = {t1, t2}
    Objects = {o1, o2}
    Locals = {a1, a2, b1, b2}
    Cells = {c1}
    Docks = {d1, d2}
    Home <- MCHome
    NULL = NULL
INVARIANTS
    RefInv
    NoUseAfterFree
    NoLeak

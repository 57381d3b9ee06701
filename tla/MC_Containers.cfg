SPECIFICATION Containers
CONSTANTS
    Socks = {s1, s2, s3}
    NULL = NULL
    PIECE = 2
    MaxMemsize = 4
    Keys = {1, 2, 3, 4}
    MaxCapacity = 8
    Objects = {a, b}
    Nodes = {n1, n2, n3, n4}
    Files = {f1, f2, f3}
    Times = {1, 2}
    NoFile = none
    MaxTimes = 3
INVARIANTS
    PollInv
    ContainersWhole
PROPERTIES
    ImplementsEventLoop
    ImplementsBag
    ImplementsFifo

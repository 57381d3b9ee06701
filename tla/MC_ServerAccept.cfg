SPECIFICATION Spec
CONSTANTS
    p1 = p1
    p2 = p2
    Hosts <- MCHosts
    None = None
    AnyPort = AnyPort
    File = File
INVARIANTS
    SocketsAccounted
    StopCloses
PROPERTIES
    StopReturns
\* repaireService() and the accept thread can block each other for good.
CHECK_DEADLOCK FALSE
CONSTANT MaxReplaced = 1
CONSTANT MaxFiles = 1

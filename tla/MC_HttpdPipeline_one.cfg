SPECIFICATION Spec
CONSTANTS
    Clients = {c1}
    ReqLen = 2
    MaxPieces = 3
    Answers = {"moved", "unmodified", "denied", "error", "file"}
    MayStop = TRUE
INVARIANTS PassWithinPollSet OwnersInv
PROPERTIES ShutdownCompletes DisconnectCleansUp

SPECIFICATION Spec
CONSTANTS
    Clients = {c1, c2}
    ReqLen = 2
    MaxPieces = 2
    Answers = {"file"}
    MayStop = FALSE
PROPERTIES InputIsRead

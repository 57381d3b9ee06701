SPECIFICATION Spec
CONSTANTS
    Clients = {c1, c2}
    N = 3
INVARIANTS
    LoopInv
PROPERTIES
    NoFalseFailure
    OperationReturns

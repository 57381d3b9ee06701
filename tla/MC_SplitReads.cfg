SPECIFICATION Spec
CONSTANTS
    Lengths = {0, 1, 3, 7}
    BlockSizes = {1, 2, 3}
    PullSizes = {1, 4}
    HeadMax = 12
    RecvMax = 3
    Word = 65536
    Bodies <- MCBodies
    Spills = {0, 1, 4, 8}
    RoomMax = 15
    Burst = 8
    Requests <- MCRequests
    MaxPacket = 6
    Documents <- MCDocuments
    MaxBlock = 60
INVARIANTS
    RequestAsSent
    AnswerHandedOver
    
    ListingAsSent

SPECIFICATION Spec
CONSTANTS
    Sizes = {0, 1, 4}
    Numbers = {0, 2, 4, 7}
    Word = 8
    MaxBuffer = 2
    HeaderLen = 2
    MaxReq = 2
INVARIANTS RangeInv BodyIsRange
PROPERTIES FileComplete StopEndsConnection

SPECIFICATION RemoteFiles
CONSTANTS
    Hosts = {h1, h2}
    Paths = {p1, p2}
    MaxRetry = 1
    MaxWire = 2
    Relative = Relative
    Nothing = Nothing
    Size = 4
    ReadSizes = {1, 2, 5}
    MaxBytes = 18
    H = 3
    Callers = {c1}
    MaxLookups = 2
INVARIANTS
    
    ReadRight
PROPERTIES
    PassCoversCache
    

CONSTANTS
    Levels = 2
    Seconds <- MCSeconds
    MaxRows = 2
    Start = 8
    MaxTime = 16
    MaxCrashes = 2
    MaxFaults = 1
SPECIFICATION HistorySpec
INVARIANT AveragesExact
PROPERTY RowsKept
CHECK_DEADLOCK FALSE

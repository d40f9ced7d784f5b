SPECIFICATION FairSpec
CONSTANTS
    RateSet = {0, 1, 2, 5}
    ThreadCounts = {1, 2}
    Runtime = 2
    Timeout = 1
    TicksPerSecond = 7
    SlicesPerSecond = 3
    Precision = 32
    ChecksPerSecond = 2
    FreeRun = 1
    Overload = 1
    MaxFree = 3
    Jumps = {3}
    MaxJumps = 2
INVARIANTS SliceEven NeverAhead UndisturbedIsComplete LimitKept
PROPERTIES LoopEnds

SPECIFICATION Spec
CONSTANTS
    RateSet = {5}
    ThreadCounts = {2}
    Runtime = 1
    Timeout = 1
    TicksPerSecond = 7
    SlicesPerSecond = 3
    Precision = 32
    ChecksPerSecond = 2
    FreeRun = 1
    Overload = 1
    MaxFree = 3
    Jumps = {}
    MaxJumps = 1
INVARIANTS FullRate

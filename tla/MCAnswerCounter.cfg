SPECIFICATION Spec
CONSTANTS
    Queries = {q1, q2}
    Lap = 4
    IdRange = 6
    MaxCount = 2
    MaxStale = 1
    q1 = q1
    q2 = q2
INVARIANTS RttExact RttNeverInflated MinExactAboveZero RcodesOfStep

SPECIFICATION FairSpec
CONSTANTS
    Jobs = {j1, j2}
    Texts = {j2}
    NumProducts = 1
    Rows = {r1, r2}
    Runs = {w1, w2}
    Iterations = 1
    None = None
    MaxWork = 2
    MaxRuns = 4
    MaxFaults = 1
INVARIANT WorkersInv
PROPERTY StuckForGood
PROPERTY WorkEnds
CHECK_DEADLOCK FALSE

SPECIFICATION Spec
CONSTANTS
    Keys = {k1, k2}
    Ids = {d1, d2}
    Threads = {t1, t2}
    None = None
    MaxHistory = 3
    MaxTopic = 3
    MaxRestarts = 1
SYMMETRY Symmetric
INVARIANT SameKeySameRecord
CHECK_DEADLOCK FALSE

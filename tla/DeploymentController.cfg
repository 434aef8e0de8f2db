SPECIFICATION Spec
CONSTANTS
    Keys = {k1, k2}
    Ids = {d1, d2}
    Threads = {t1, t2}
    None = None
    MaxHistory = 5
    MaxTopic = 2
    MaxRestarts = 1
SYMMETRY Symmetric
INVARIANT HistoryTold
INVARIANT OneDeploymentPerKey
PROPERTY FollowsLifecycle
CHECK_DEADLOCK FALSE

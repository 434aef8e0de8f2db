SPECIFICATION FairSpec
CONSTANTS
    Jobs = {j1, j2}
    Features = {f1}
    ListFeatures = ListFeatures
    Undecodable = Undecodable
    None = None
    Handlers = {h1}
    Watched = {j1}
    FaultKinds = {"malformed", "predict", "publish", "produce", "store", "expire"}
    MaxRequests = 2
    MaxFaults = 2
PROPERTY AnswerStable
PROPERTY JobAnswered
CHECK_DEADLOCK FALSE

SPECIFICATION Spec
CONSTANTS
    Jobs = {j1, j2}
    Features = {f1, f2}
    ListFeatures = ListFeatures
    Undecodable = Undecodable
    None = None
    Handlers = {h1, h2}
    Watched = {}
    FaultKinds = {"malformed", "predict", "publish", "produce", "store", "crash", "expire"}
    MaxRequests = 2
    MaxFaults = 2
SYMMETRY Symmetric
INVARIANT TypeOK
INVARIANT NoJobForgotten
INVARIANT PredictionOfSubmission
CHECK_DEADLOCK FALSE

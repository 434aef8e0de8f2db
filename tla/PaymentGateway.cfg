SPECIFICATION FairSpec
CONSTANTS
    Checkouts = {c1, c2}
    Retries = 2
    MaxFailures = 2
    ResetAfter = 1
    MaxTime = 2
INVARIANT GatewayInv
PROPERTY EveryCheckoutAnswered
CHECK_DEADLOCK FALSE

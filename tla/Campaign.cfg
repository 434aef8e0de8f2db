SPECIFICATION FairSpec
CONSTANTS
    Requests = {r1, r2}
    Campaigns = {c1}
    NumMarkets = 1
    InitTokens = 1
    MaxTokens = 2
    MaxTime = 2
    MaxSends = 2
    Activations = {r1}
    MaxDirect = 1
INVARIANT CampaignInv
PROPERTY RequestsEnd
CHECK_DEADLOCK FALSE

SPECIFICATION FairSpec
CONSTANTS
    Campaigns = {c1}
    Amounts = {1, 2}
    Default = 2
    Invalid = Invalid
    Undecodable = Undecodable
    Missing = Missing
    Handlers = {h1, h2}
    Requests <- Asked
    MaxUpdates = 2
    MaxEvents = 2
    MaxFailures = 2
INVARIANT FeaturesInv
PROPERTY CountingAddsOne
PROPERTY EventHandled
CHECK_DEADLOCK FALSE

SPECIFICATION Spec

CONSTANTS
    Parts =
        {"runtime", "publishing", "cleanup", "migration", "surface", "trainer", "autofix",
         "review", "feedback", "tokens", "calls", "gossip", "tenants"}
    None = None
    Empty = Empty
    Torn = Torn
    RtnNone = None
    AgtNone = None
    AgtTorn = Torn
    RegClients = {"c1", "c2"}
    RegTrainings = {"t1", "t2"}
    RegFiles = {"f9", "f10"}
    RegGlobbed <- MCRegGlobbed
    RegRank <- MCRegRank
    RegMaxRequests = 2
    DelExports = {"e1"}
    DelMaxWrites = 1
    ProRuns = {"a", "b"}
    ProScores = {1, 2, 3, 4}
    ProDelta = 2
    FedOffers <- MCFedOffers
    FedTasks <- MCFedTasks
    FedRequests = {"r1", "r2"}
    FedOrder <- MCFedOrder
    FedTTL = 1
    FedAttempts = 1
    FedMaxTime = 2
    FedMaxEntries = 2
    FedMaxTasks = 1
    EntInstances <- MCEntInstances
    EntPaths = {"p"}
    EntNumJobs = 3
    EntMemory <- MCEntMemory
    EntRenders <- MCEntRenders
    EntMinWorkers = 1
    EntMaxWorkers = 2
    EntTarget = 2
    EntMaxRoutes = 2
    EntMaxBatch = 2
    EntMaxReleases = 1
    ResCallers = {"a", "b"}
    ResKeys = {"k"}
    ResRetries = 1
    ResThreshold = 2
    ResOpenInterval = 1
    ResMaxTime = 2
    ResMaxCalls = 4
    PubRuns = {"r1", "r2"}
    PubDailyTarget = 1
    PubRetryBudget = 1
    PubNumJobs = 2
    PubMaxDay = 1
    PubMaxRestarts = 1
    ArbProducts <- MCArbProducts
    ArbReported <- MCArbReported
    ArbRates = {3, 4}
    ArbWhole = 10
    ArbMinProfit = 1
    ArbRequests = {"w1", "w2"}
    ArbMaxTime = 1
    DepMetrics <- MCDepMetrics
    DepMaxError = 1
    DepMaxLatency = 1
    DepStages = {1, 2}
    DepMaxDuration = 2
    DepManifests = {"m", "n", "n as JSON"}
    DepJson <- MCDepJson
    DepMaxMetrics = 2
    DepMaxRecords = 1
    ExcThreads = {"t1", "t2"}
    ExcOffers <- MCExcOffers
    ExcNumOrders = 3
    CleanFiles = {1, 2, 3, 4}
    CleanEntrypoints = {1}
    CleanProtected = {2}
    CleanTrees <- MCCleanTrees
    CleanMaxRuns = 2
    CleanMaxEdits = 1
    MigNodes <- MCMigNodes
    MigRoot <- MCMigRoot
    MigUp <- MCMigUp
    MigBase <- MCMigBase
    MigDirs = {"d", "e"}
    MigText = {"a", "b", "c", "m"}
    MigSkipped = {"m"}
    MigTrees <- MCMigTrees
    MigMaxRuns = 2
    SurNames = {"analytics", "pricing"}
    SurBaselineNames = {"analytics"}
    SurSources <- MCSurSources
    SurMaxEdits = 2
    SurMaxRuns = 2
    ScanScans = {"s1", "s2"}
    ScanMaxReads = 2
    ScanMaxRestarts = 1
    KeysAgents = {"a1", "a2"}
    KeysClients = {"c1", "c2"}
    KeysNames = {"acme"}
    KeysMaxKeys = 3
    KeysMaxAttempts = 2
    ProfitAbove = 6
    ProfitBelow = 5
    ProfitMaxMoney = 4
    CapLimit <- MCCapLimit
    CapMinReplicas = 2
    CapMaxReplicas = 5
    CapMetrics <- MCCapMetrics
    CapMaxWork = 3
    CapMaxRepeats = 1
    CapMaxLines = 3
    TrnRecords <- MCTrnRecords
    TrnTargets <- MCTrnTargets
    TrnCompose <- MCTrnCompose
    TrnWorkers <- MCTrnWorkers
    TrnSettings <- MCTrnSettings
    TrnMaxStarts = 2
    AfxFiles <- MCAfxFiles
    AfxBegun <- MCAfxBegun
    AfxNames = {1, 2}
    AfxNested = {1}
    AfxReports <- MCAfxReports
    AfxOutcomes <- MCAfxOutcomes
    AfxHolds <- MCAfxHolds
    AfxMaxAnalyses = 2
    AfxMaxEdits = 1
    AfxMaxJobs = 2
    RvwCalls = {"c1", "c2"}
    RvwBases = {"a/b", "a-b"}
    RvwBranchOf <- MCRvwBranchOf
    RvwPatches <- MCRvwPatches
    RvwMaxDeletes = 1
    RfbDeliveries <- MCRfbDeliveries
    RfbMaxDeliveries = 11
    TknReplicas = {"a", "b"}
    TknSettings <- MCTknSettings
    TknNames <- MCTknNames
    TknSkew = 1
    TknMaxTtl = 2
    TknMaxTime = 3
    TknMaxStarts = 2
    TknMaxTokens = 1
    RtcCalls = {"c"}
    RtcRetries = 3
    RtcTop = 1
    RtcListings <- MCRtcListings
    GspNodes = {"a", "b", "c"}
    GspWeights <- MCGspWeights
    GspForeign <- MCGspForeign
    GspMaxPayload = 2
    GspMaxSent = 2
    TntPeople = {"p", "q"}
    TntEmail <- MCTntEmail
    TntMaxRequests = 2
    TntFreeLimit = 1
    TntProLimit = 2
    TntMaxStops = 1
    Orders = {o1, o2}
    Incomplete = {i1}
    Others = {x1}
    Handlers = {h1, h2}
    NoEvent = None
    MaxDeliveries = 3
    RwdGains = {g1}
    RwdLosses = {l1}
    RwdNumAgents = 2
    RwdSlots = {s1, s2}
    RwdMaxDeliveries = 3
    RwdMaxSelects = 1
    RwdMaxFaults = 1

INVARIANTS
    TypeOK
    RuntimeInv
    PublishingInv
    ToolsInv
    AgentsInv

\* Each component stops where its bounds are used up.
CHECK_DEADLOCK FALSE

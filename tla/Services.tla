----------------------------- MODULE Services -------------------------------
(***************************************************************************)
(* Components that share no state with each other: each is an instance of  *)
(* its module with constants and variables of its own, and what it keeps.  *)
(***************************************************************************)
EXTENDS Integers, Sequences, FiniteSets

CONSTANTS
    None, Empty, Torn,
    RegClients, RegTrainings, RegFiles, RegGlobbed, RegRank, RegMaxRequests,
    DelExports, DelMaxWrites,
    ProRuns, ProScores, ProDelta,
    FedOffers, FedTasks, FedRequests, FedOrder, FedTTL, FedAttempts, FedMaxTime, FedMaxEntries,
    FedMaxTasks,
    ResCallers, ResKeys, ResRetries, ResThreshold, ResOpenInterval, ResMaxTime, ResMaxCalls,
    ArbProducts, ArbReported, ArbRates, ArbWhole, ArbMinProfit, ArbRequests, ArbMaxTime,
    ExcThreads, ExcOffers, ExcNumOrders,
    ScanScans, ScanMaxReads, ScanMaxRestarts,
    KeysAgents, KeysClients, KeysNames, KeysMaxKeys, KeysMaxAttempts,
    ProfitAbove, ProfitBelow, ProfitMaxMoney,
    CapLimit, CapMinReplicas, CapMaxReplicas, CapMetrics, CapMaxWork, CapMaxRepeats,
    CapMaxLines

VARIABLES
    regPolicy, regTraining, regBase, regShared, regReg, regSent, regMet,
    delExported, delRuntime, delWriting, delFresh, delPc, delHolds, delBackup, delBucket,
    delWrites, delClash, delChanged,
    proRun, proMetric, proDeployed, proAstray,
    fedUp, fedAttempt, fedNow, fedRows, fedAudit, fedRequest, fedTask, fedAsked, fedCommits,
    fedMissed, fedMet,
    resCall, resResponses, resFailures, resOpenedAt, resNow, resCalls, resGave, resMet,
    arbProducts, arbPayouts, arbEvents, arbNow, arbReports, arbScan, arbNewest, arbRaced,
    arbMixed,
    excOrders, excBuys, excSells, excThread, excTraded, excAsked, excOverlapped,
    scanRecord, scanTask, scanSarif, scanReading, scanAnswer, scanTold, scanEscaped, scanReads,
    scanRestarts,
    keysFile, keysAgent, keysTenants, keysClient, keysHeld, keysKeys, keysAttempts, keysRaced,
    keysCut,
    profitRevenue, profitCost, profitLoop, profitKilled, profitCause,
    capInflight, capWorking, capRepeats, capReplicas, capLines, capPolicies

-----------------------------------------------------------------------------
(* The model registry and the retraining loop.                             *)
registryVars ==
    <<regPolicy, regTraining, regBase, regShared, regReg, regSent, regMet>>
Registry == INSTANCE ModelRegistry WITH
    Clients <- RegClients, Trainings <- RegTrainings, Files <- RegFiles, Globbed <- RegGlobbed,
    Rank <- RegRank, MaxRequests <- RegMaxRequests, policy <- regPolicy,
    training <- regTraining, base <- regBase, shared <- regShared, reg <- regReg,
    sent <- regSent, met <- regMet

(* What the two stores keep between them.                                  *)
RegistryInv == Registry!RegistryInv

(* Without such a meeting a version never changes.  Whatever met, one left *)
(* in the registry's own store by a failure, with no request past its      *)
(* tests, stays like that for ever: every later request is refused.  And   *)
(* the answer of /latest goes from no model to one and then only upwards,  *)
(* in the order of strings.                                                *)
VersionsStay == Registry!VersionsStay

-----------------------------------------------------------------------------
(* Delivery of the exported policy to the runtime.                         *)
deliveryVars ==
    <<delExported, delRuntime, delWriting, delFresh, delPc, delHolds, delBackup, delBucket,
      delWrites, delClash, delChanged>>
Delivery == INSTANCE ModelDelivery WITH
    Exports <- DelExports, MaxWrites <- DelMaxWrites, exported <- delExported,
    runtime <- delRuntime, writing <- delWriting, fresh <- delFresh, pc <- delPc,
    holds <- delHolds, backup <- delBackup, bucket <- delBucket, writes <- delWrites,
    clash <- delClash, changed <- delChanged

(* The model file, its backup and its copy in the bucket are whole while   *)
(* nobody holds the file open, unless a process met another at an open     *)
(* file, was stopped while it wrote, or copied an export half written.     *)
WholeUnlessClash == Delivery!WholeUnlessClash

(* The S3 loop restores what it uploaded: it undoes a rollback or another  *)
(* write only when that came between its upload and its download.  And a   *)
(* model once there is never absent again, whatever fails, so that a       *)
(* backup and an upload always have one to restore.                        *)
LoopUndoesOnlyRaces == Delivery!LoopUndoesOnlyRaces

-----------------------------------------------------------------------------
(* Promotion by auto-ml.                                                   *)
promotionVars ==
    <<proRun, proMetric, proDeployed, proAstray>>
Promotion == INSTANCE ModelPromotion WITH
    Runs <- ProRuns, Scores <- ProScores, Delta <- ProDelta, run <- proRun,
    metric <- proMetric, deployed <- proDeployed, astray <- proAstray

(* Under the same condition a model is replaced only by one that scores    *)
(* better by the delta, and the metric kept follows it.                    *)
PromotionsImprove == Promotion!PromotionsImprove

-----------------------------------------------------------------------------
(* Federation and the scheduler.                                           *)
federationVars ==
    <<fedUp, fedAttempt, fedNow, fedRows, fedAudit, fedRequest, fedTask, fedAsked, fedCommits,
      fedMissed, fedMet>>
Fed == INSTANCE Federation WITH
    Offers <- FedOffers, Tasks <- FedTasks, Requests <- FedRequests, Order <- FedOrder,
    TTL <- FedTTL, Attempts <- FedAttempts, MaxTime <- FedMaxTime, MaxEntries <- FedMaxEntries,
    MaxTasks <- FedMaxTasks, up <- fedUp, attempt <- fedAttempt, now <- fedNow,
    rows <- fedRows, audit <- fedAudit, request <- fedRequest, task <- fedTask,
    asked <- fedAsked, commits <- fedCommits, missed <- fedMissed, met <- fedMet

(* Every commit has its entry in the audit log, is about to have it, or is *)
(* counted as missed; and the last entry of a node tells its row and the   *)
(* end of its lease, unless an entry was missed or two registrations of    *)
(* the node were under way together, which may log in another order than   *)
(* they committed.                                                         *)
LogExplainsRows == Fed!LogExplainsRows

(* A node is given to a task of the tenant that had it when the list was   *)
(* read, with its lease, capacity and readiness of then; in the task's     *)
(* region if one there would do.  It may belong to another tenant, or be   *)
(* out of its lease, by the time of the answer.                            *)
AssignedOwnNode == Fed!AssignedOwnNode

-----------------------------------------------------------------------------
(* The resilience controls of enterprise_maturity.                         *)
resilienceVars ==
    <<resCall, resResponses, resFailures, resOpenedAt, resNow, resCalls, resGave, resMet>>
Controls == INSTANCE Resilience WITH
    Callers <- ResCallers, Keys <- ResKeys, Retries <- ResRetries, Threshold <- ResThreshold,
    OpenInterval <- ResOpenInterval, MaxTime <- ResMaxTime, MaxCalls <- ResMaxCalls,
    call <- resCall, responses <- resResponses, failures <- resFailures,
    openedAt <- resOpenedAt, now <- resNow, calls <- resCalls, gave <- resGave, met <- resMet

(* Retries, breaker and store together.                                    *)
ResilienceInv == Controls!ResilienceInv

-----------------------------------------------------------------------------
(* Price comparison of arbitrage-engine.                                   *)
arbitrageVars ==
    <<arbProducts, arbPayouts, arbEvents, arbNow, arbReports, arbScan, arbNewest, arbRaced,
      arbMixed>>
Arbitrage == INSTANCE ArbitrageScan WITH
    Products <- ArbProducts, Reported <- ArbReported, Rates <- ArbRates, Whole <- ArbWhole,
    MinProfit <- ArbMinProfit, Requests <- ArbRequests, MaxTime <- ArbMaxTime,
    products <- arbProducts, payouts <- arbPayouts, events <- arbEvents, now <- arbNow,
    reports <- arbReports, scan <- arbScan, newest <- arbNewest, raced <- arbRaced,
    mixed <- arbMixed

(* What the scans and the report of commissions may rely on.               *)
ArbitrageInv == Arbitrage!ArbitrageInv

-----------------------------------------------------------------------------
(* The order book of the exchange.                                         *)
exchangeVars ==
    <<excOrders, excBuys, excSells, excThread, excTraded, excAsked, excOverlapped>>
Exchange == INSTANCE OrderBook WITH
    Threads <- ExcThreads, Offers <- ExcOffers, NumOrders <- ExcNumOrders, orders <- excOrders,
    buys <- excBuys, sells <- excSells, thread <- excThread, traded <- excTraded,
    asked <- excAsked, overlapped <- excOverlapped

(* What a trader may rely on.                                              *)
ExchangeInv == Exchange!ExchangeInv

-----------------------------------------------------------------------------
(* The background scans of security-api.                                   *)
scansVars ==
    <<scanRecord, scanTask, scanSarif, scanReading, scanAnswer, scanTold, scanEscaped,
      scanReads, scanRestarts>>
SecurityScan == INSTANCE SecurityScans WITH
    Scans <- ScanScans, MaxReads <- ScanMaxReads, MaxRestarts <- ScanMaxRestarts,
    record <- scanRecord, task <- scanTask, sarif <- scanSarif, reading <- scanReading,
    answer <- scanAnswer, told <- scanTold, escaped <- scanEscaped, reads <- scanReads,
    restarts <- scanRestarts

-----------------------------------------------------------------------------
(* Agent keys and tenant keys.                                             *)
keysVars ==
    <<keysFile, keysAgent, keysTenants, keysClient, keysHeld, keysKeys, keysAttempts,
      keysRaced, keysCut>>
AgentKey == INSTANCE AgentKeys WITH
    Agents <- KeysAgents, Clients <- KeysClients, Names <- KeysNames, MaxKeys <- KeysMaxKeys,
    MaxAttempts <- KeysMaxAttempts, file <- keysFile, agent <- keysAgent,
    tenants <- keysTenants, client <- keysClient, held <- keysHeld, keys <- keysKeys,
    attempts <- keysAttempts, raced <- keysRaced, cut <- keysCut

-----------------------------------------------------------------------------
(* The profit loop.                                                        *)
profitVars ==
    <<profitRevenue, profitCost, profitLoop, profitKilled, profitCause>>
Profit == INSTANCE ProfitControl WITH
    Above <- ProfitAbove, Below <- ProfitBelow, MaxMoney <- ProfitMaxMoney,
    revenue <- profitRevenue, cost <- profitCost, loop <- profitLoop, killed <- profitKilled,
    cause <- profitCause

-----------------------------------------------------------------------------
(* Admission, replicas and the infrastructure tuner.                       *)
capacityVars ==
    <<capInflight, capWorking, capRepeats, capReplicas, capLines, capPolicies>>
Capacity == INSTANCE CapacityAdvice WITH
    Limit <- CapLimit, MinReplicas <- CapMinReplicas, MaxReplicas <- CapMaxReplicas,
    Metrics <- CapMetrics, MaxWork <- CapMaxWork, MaxRepeats <- CapMaxRepeats,
    MaxLines <- CapMaxLines, inflight <- capInflight, working <- capWorking,
    repeats <- capRepeats, replicas <- capReplicas, lines <- capLines, policies <- capPolicies

-----------------------------------------------------------------------------
(* Access: a scan that ended says how and a completed one has its result;    *)
(* agents that start one after another sign with one key, and a tenant's key *)
(* is with its owner, unless an answer was lost.                             *)
AccessInv ==
    /\ SecurityScan!ScansInv
    /\ AgentKey!KeysInv

-----------------------------------------------------------------------------
(* Controls: a campaign is scaled only on a ratio it reached at both reads,  *)
(* lanes and replicas keep their limits, and a tuning policy follows from    *)
(* its metrics unless two actions tie.                                       *)
ControlsInv ==
    /\ Profit!ProfitInv
    /\ Capacity!CapacityInv
=============================================================================

---------------------------- MODULE MCServices ----------------------------
(***************************************************************************)
(* The components that share no state, checked together: those of          *)
(* Services, Routines and Agents, the payment webhook and the conversions, *)
(* with values for their constants.  A behaviour steps one of Parts,       *)
(* chosen at the start, while the others stay as they began.  What a run   *)
(* reaches is the union of what each part would reach in a run of its own. *)
(***************************************************************************)
EXTENDS PaymentWebhook, Services, Routines, Agents, TLC

CONSTANTS
    Parts,          \* the components this run steps
    RwdGains, RwdLosses, RwdNumAgents, RwdSlots, RwdMaxDeliveries, RwdMaxSelects, RwdMaxFaults

VARIABLES
    part,
    rwdWebhook, rwdDeliveries, rwdAcked, rwdRows, rwdIncrements, rwdCalls, rwdFeedback,
    rwdThreads, rwdLearned, rwdVersion, rwdSelects, rwdFaults

Offer(node, tenant, region, capacity) ==
    [node |-> node, tenant |-> tenant, region |-> region, capacity |-> capacity, ready |-> TRUE, fast |-> TRUE]
Token(tenant) == [signed |-> TRUE, tenant |-> tenant, region |-> "eu"]

Instance(service, endpoint, healthy) == [service |-> service, endpoint |-> endpoint, healthy |-> healthy]

Product(id, source, price) == [id |-> id, name |-> "lamp", source |-> source, price |-> price]

RegionMetrics == [region : {"ap", "eu"}, error : 1..2, latency : 1..2]

(* The orders of the exchange: two of each side, at two prices.              *)
ExcOffer(side, price, qty) == [side |-> side, price |-> price, qty |-> qty]

(* Import graphs of four files: a chain, a cycle beside it, a diamond.       *)
MCCleanTrees ==
    {[f \in 1..4 |-> CASE f = 1 -> {2} [] f = 2 -> {3} [] OTHER -> {}],
     [f \in 1..4 |-> CASE f = 3 -> {4} [] f = 4 -> {3} [] OTHER -> {}],
     [f \in 1..4 |-> CASE f = 1 -> {2, 3} [] f = 4 -> {} [] OTHER -> {4}]}

(* A tree of the migration: a directory with two files whose names would    *)
(* clash, a third in a directory below, one of node_modules and an image.    *)
NameUp == [n \in {"d", "a", "b", "e", "c", "m", "p"} |-> CASE n \in {"a", "b", "e"} -> "d" [] n = "c" -> "e" [] OTHER -> "root"]
NameBase == [n \in DOMAIN NameUp |-> IF n = "b" THEN "a" ELSE n]
NameContent(has, odd) == [has |-> has, odd |-> odd, lost |-> "nothing"]
NameTrees ==
    {[named |-> [n \in DOMAIN NameUp |-> IF n \in old THEN "lower" ELSE "current"],
      content |-> [f \in {"a", "b", "c", "m", "p"} |-> CASE f = "a" -> NameContent(has, TRUE)
                     [] f = "c" -> NameContent({"title", "upper"}, FALSE) [] OTHER -> NameContent({"lower"}, f = "b")]] :
     old \in {{"a", "d"}, {"b", "d", "e", "c"}}, has \in {{"lower"}, {"current"}, {"upper", "title"}}}

(* Routes of the surface: one that reads, one that writes, one that writes   *)
(* and is declared in a way the expressions do not find.                     *)
Route(method, path, plain) == [method |-> method, path |-> path, plain |-> plain]
MCSurSources ==
    {{[suffix |-> ".py", routes |-> {Route("PATCH", "/a", TRUE), Route("GET", "/a", TRUE)}]},
     {[suffix |-> ".js", routes |-> {Route("POST", "/b", TRUE)}], [suffix |-> ".py", routes |-> {Route("PUT", "/c", FALSE)}]}}

(* Lines of metrics: one for each action of the tuner.                       *)
Line(errors, latency, load, restarts, anomaly) ==
    [errors |-> errors, latency |-> latency, load |-> load, restarts |-> restarts, anomaly |-> anomaly]
MCCapMetrics ==
    {Line(TRUE, "high", "high", FALSE, TRUE), Line(FALSE, "high", "middle", FALSE, TRUE), Line(FALSE, "low", "low", FALSE, FALSE),
     Line(FALSE, "middle", "low", TRUE, FALSE)}

(* The trainer: two sound records and one that is not; two targets, one of  *)
(* each runtime; the two workers the program registers, and a third.         *)
MCTrnRecords == <<[sound |-> TRUE, demand |-> 3], [sound |-> FALSE, demand |-> 1], [sound |-> TRUE, demand |-> 11]>>
MCTrnTargets == <<[place |-> "h1", runtime |-> "k8s"], [place |-> "h2", runtime |-> "docker-compose"]>>
MCTrnCompose == [t \in {MCTrnTargets[1], MCTrnTargets[2]} |-> "v0"]
MCTrnWorkers ==
    <<[id |-> "node-1", capacity |-> 10, price |-> 2], [id |-> "node-2", capacity |-> 5, price |-> 1],
      [id |-> "node-3", capacity |-> 4, price |-> 1]>>
MCTrnSettings ==
    {[targets |-> "both", enabled |-> TRUE, image |-> "v1"], [targets |-> "both", enabled |-> TRUE, image |-> "v2"],
     [targets |-> "both", enabled |-> FALSE, image |-> "v1"], [targets |-> "malformed", enabled |-> FALSE, image |-> "v1"],
     [targets |-> "imageless", enabled |-> TRUE, image |-> "v1"]}

(* What an analysis leaves in two files of which the first is nested: one    *)
(* rule twice and one without a remedy; one that does not parse; nothing.    *)
AfxFile(sound, rules) == [sound |-> sound, rules |-> rules]
AfxLeft(a, b) == [n \in {1, 2} |-> IF n = 1 THEN a ELSE b]
MCAfxFiles == {"a.py", "b.py"}
MCAfxBegun ==
    {[f \in MCAfxFiles |-> IF f = "a.py" THEN p[1] ELSE p[2]] :
        p \in {<<{}, {}>>, <<{"yaml", "verify"}, {"yaml"}>>, <<{}, {"yaml"}>>, <<{"verify"}, {"yaml", "odd"}>>}}
MCAfxReports == {AfxFile(TRUE, <<"yaml", "sql", "yaml">>), AfxFile(TRUE, <<"verify">>), AfxFile(FALSE, <<>>)}
MCAfxOutcomes ==
    {AfxLeft(None, AfxFile(TRUE, <<"yaml", "sql", "yaml">>)), AfxLeft(AfxFile(FALSE, <<>>), AfxFile(TRUE, <<"verify">>)),
     AfxLeft(AfxFile(TRUE, <<"verify">>), AfxFile(TRUE, <<"verify">>)), AfxLeft(None, None)}

(* The review robot: two bases that share a fix branch, and one of its own;  *)
(* a patch with a secret, a plain one and a blank one.                       *)
RvwBranch == [b \in {"a/b", "a-b"} |-> "ai/fix-a-b"]
RvwPatch(text, secret) == [text |-> text, secret |-> secret]
RvwDelivery(context, findings, feedback) ==
    [signed |-> TRUE, event |-> "pull_request", context |-> context, findings |-> findings, feedback |-> feedback]
RvwFinding(severity, comment) == [severity |-> severity, comment |-> comment]
RvwFeedback(category, accepted) == [category |-> category, accepted |-> accepted]
RvwDeliveries ==
    {RvwDelivery(TRUE, <<RvwFinding("critical", TRUE), RvwFinding("medium", FALSE)>>, RvwFeedback("security", FALSE)),
     RvwDelivery(TRUE, <<RvwFinding("medium", TRUE)>>, RvwFeedback("perf", TRUE)),
     RvwDelivery(TRUE, <<>>, RvwFeedback("style", TRUE)), RvwDelivery(FALSE, <<>>, RvwFeedback("perf", TRUE)),
     [RvwDelivery(TRUE, <<>>, None) EXCEPT !.signed = FALSE], [RvwDelivery(TRUE, <<>>, None) EXCEPT !.event = "push"],
     RvwDelivery(TRUE, <<>>, None)}

(* Settings: two secrets, two lives, an issuer of its own; and five that are *)
(* refused or only for tests.                                                *)
TknBase == [secret |-> "s1", ttl |-> 2, issuer |-> "i", audience |-> "a", algorithm |-> "HS256", test |-> FALSE, stub |-> FALSE]
MCTknSettings ==
    {TknBase, [TknBase EXCEPT !.ttl = 1, !.stub = TRUE], [TknBase EXCEPT !.secret = "s2"], [TknBase EXCEPT !.issuer = "j", !.stub = TRUE],
     [TknBase EXCEPT !.audience = "b"], [TknBase EXCEPT !.ttl = 0], [TknBase EXCEPT !.ttl = 3],
     [TknBase EXCEPT !.algorithm = "none"], [TknBase EXCEPT !.secret = "change-me-in-production"],
     [TknBase EXCEPT !.secret = "short"], [TknBase EXCEPT !.secret = None, !.test = TRUE, !.stub = TRUE]}

(* Weights in sixteenths, of three agents that have two, one and two.        *)
MCGspWeights == [n \in {"a", "b", "c"} |-> CASE n = "a" -> <<0, 16>> [] n = "b" -> <<8>> [] OTHER -> <<24, 8>>]

(* Two people who register with one address, and a third.                    *)
MCTntEmail == [p \in {"p", "q"} |-> "e"]

-----------------------------------------------------------------------------
(* Constants of Services, Routines and Agents.                             *)
MCRegGlobbed == ("policy" :> {"f9", "f10"})
MCRegRank == ("f10" :> 1) @@ ("f9" :> 2)
MCFedOffers == {Offer("n1", "a", "eu", 1), Offer("n1", "b", "eu", 2), Offer("n2", "a", "us", 2)}
MCFedTasks == {[tenant |-> "a", region |-> "eu", needs |-> n, token |-> Token(t)] : <<n, t>> \in {<<1, "a">>, <<2, "b">>}}
MCFedOrder == ("n1" :> 1) @@ ("n2" :> 2)
MCEntInstances == {Instance("crawler", "a", TRUE), Instance("crawler", "b", TRUE), Instance("crawler", "b", FALSE)}
MCEntMemory == ("n1" :> 2) @@ ("n2" :> 3)
MCEntRenders == ("j1" :> 1) @@ ("j2" :> 2)
MCArbProducts == {Product("1", "shopee", 2), Product("2", "tiktok", 10)}
MCArbReported == {[source |-> "tiktok", id |-> "2"]}
MCDepMetrics == RegionMetrics
MCDepJson == ("m" :> "m") @@ ("n" :> "n as JSON") @@ ("n as JSON" :> "n as JSON")
MCExcOffers == {ExcOffer("buy", 1, 1), ExcOffer("buy", 2, 2), ExcOffer("buy", 2, 1), ExcOffer("sell", 1, 2), ExcOffer("sell", 2, 1)}
MCMigNodes == DOMAIN NameUp
MCMigRoot == "root"
MCMigUp == NameUp
MCMigBase == NameBase
MCMigTrees == NameTrees
MCCapLimit == [l \in {"critical", "best_effort"} |-> IF l = "critical" THEN 2 ELSE 1]
MCAfxHolds == {<<>>}
MCRvwBranchOf == RvwBranch
MCRvwPatches == {RvwPatch("p", TRUE), RvwPatch("q", FALSE), RvwPatch("", FALSE)}
MCRfbDeliveries == RvwDeliveries
MCTknNames == {[subject |-> "plain", scopes |-> "blank"], [subject |-> "long", scopes |-> "plain"], [subject |-> "plain", scopes |-> "odd"]}
MCRtcListings == {<<>>, <<TRUE, TRUE>>, <<TRUE, FALSE>>}
MCGspForeign == {<<>>, <<40>>}

ASSUME RegistryAssumption == Registry!RegistryAssumption
ASSUME DeliveryAssumption == Delivery!DeliveryAssumption
ASSUME PromotionAssumption == Promotion!PromotionAssumption
ASSUME FedAssumption == Fed!FederationAssumption
ASSUME RuntimeAssumption == Runtime!RuntimeAssumption
ASSUME ControlsAssumption == Controls!ResilienceAssumption
ASSUME PublishingAssumption == Publishing!PublishingAssumption
ASSUME ArbitrageAssumption == Arbitrage!ArbitrageAssumption
ASSUME PipelineAssumption == Pipeline!PipelineAssumption
ASSUME ExchangeAssumption == Exchange!BookAssumption
ASSUME CleanupAssumption == Cleanup!CleanupAssumption
ASSUME MigrationAssumption == Migration!MigrationAssumption
ASSUME SurfaceAssumption == Surface!SurfaceAssumption
ASSUME SecurityScanAssumption == SecurityScan!ScanAssumption
ASSUME AgentKeyAssumption == AgentKey!KeysAssumption
ASSUME ProfitAssumption == Profit!ProfitAssumption
ASSUME CapacityAssumption == Capacity!CapacityAssumption
ASSUME TrainerAssumption == Trainer!TrainerAssumption
ASSUME AutofixAssumption == Autofix!AutofixAssumption
ASSUME ReviewAssumption == Review!BotAssumption
ASSUME FeedbackAssumption == Feedback!FeedbackAssumption
ASSUME JwtAssumption == Jwt!TokensAssumption
ASSUME RetriedAssumption == Retried!CallsAssumption
ASSUME GossipAssumption == Gossip!GossipAssumption
ASSUME TenantsAssumption == Tenants!TenantsAssumption

-----------------------------------------------------------------------------
(* The services a conversion goes through.                                 *)
conversionsVars ==
    <<rwdWebhook, rwdDeliveries, rwdAcked, rwdRows, rwdIncrements, rwdCalls, rwdFeedback,
      rwdThreads, rwdLearned, rwdVersion, rwdSelects, rwdFaults>>
Conversions == INSTANCE RewardPipeline WITH
    Gains <- RwdGains, Losses <- RwdLosses, NumAgents <- RwdNumAgents, Slots <- RwdSlots,
    MaxDeliveries <- RwdMaxDeliveries, MaxSelects <- RwdMaxSelects, MaxFaults <- RwdMaxFaults,
    webhook <- rwdWebhook, deliveries <- rwdDeliveries, acked <- rwdAcked, rows <- rwdRows,
    increments <- rwdIncrements, calls <- rwdCalls, feedback <- rwdFeedback,
    threads <- rwdThreads, learned <- rwdLearned, version <- rwdVersion, selects <- rwdSelects,
    faults <- rwdFaults

ASSUME ConversionsAssumption == Conversions!PipelineAssumption

-----------------------------------------------------------------------------
vars ==
    <<part, webhookVars, conversionsVars, registryVars, deliveryVars, promotionVars,
      federationVars, runtimeVars, resilienceVars, publishingVars, arbitrageVars, pipelineVars,
      exchangeVars, cleanupVars, migrationVars, surfaceVars, scansVars, keysVars, profitVars,
      capacityVars, trainerVars, autofixVars, reviewVars, feedbackVars, tokensVars, callsVars,
      gossipVars, tenantsVars>>

Init ==
    /\ part \in Parts
    /\ WebhookInit
    /\ Conversions!Init
    /\ Registry!Init
    /\ Delivery!Init
    /\ part # "delivery" => delBucket = None
    /\ Promotion!Init
    /\ Fed!Init
    /\ Runtime!Init
    /\ Controls!Init
    /\ Publishing!Init
    /\ Arbitrage!Init
    /\ Pipeline!Init
    /\ part # "pipeline" => depMemory = TRUE /\ depDesired = "n"
    /\ Exchange!Init
    /\ Cleanup!Init
    /\ part # "cleanup" => cleanImports = CHOOSE t \in CleanTrees : TRUE
    /\ Migration!Init
    /\ part # "migration" => \E t \in {CHOOSE u \in NameTrees : TRUE} : migNamed = t.named /\ migContent = t.content
    /\ Surface!Init
    /\ SecurityScan!Init
    /\ AgentKey!Init
    /\ Profit!Init
    /\ Capacity!Init
    /\ Trainer!Init
    /\ Autofix!Init
    /\ part # "autofix" => afxHead = [code |-> [f \in MCAfxFiles |-> {}], sarif |-> AfxLeft(None, None)]
    /\ Review!Init
    /\ Feedback!Init
    /\ Jwt!Init
    /\ part # "tokens" => tknAhead = [r \in {"a", "b"} |-> 0]
    /\ Retried!Init
    /\ Gossip!Init
    /\ Tenants!Init
    /\ part # "tenants" => tntPooled = TRUE

WebhookStep ==
    /\ part = "webhook" /\ WebhookNext
    /\ UNCHANGED <<part, conversionsVars, registryVars, deliveryVars, promotionVars,
                  federationVars, runtimeVars, resilienceVars, publishingVars, arbitrageVars,
                  pipelineVars, exchangeVars, cleanupVars, migrationVars, surfaceVars,
                  scansVars, keysVars, profitVars, capacityVars, trainerVars, autofixVars,
                  reviewVars, feedbackVars, tokensVars, callsVars, gossipVars, tenantsVars>>

ConversionsStep ==
    /\ part = "conversions" /\ Conversions!Next
    /\ UNCHANGED <<part, webhookVars, registryVars, deliveryVars, promotionVars, federationVars,
                  runtimeVars, resilienceVars, publishingVars, arbitrageVars, pipelineVars,
                  exchangeVars, cleanupVars, migrationVars, surfaceVars, scansVars, keysVars,
                  profitVars, capacityVars, trainerVars, autofixVars, reviewVars, feedbackVars,
                  tokensVars, callsVars, gossipVars, tenantsVars>>

RegistryStep ==
    /\ part = "registry" /\ Registry!Next
    /\ UNCHANGED <<part, webhookVars, conversionsVars, deliveryVars, promotionVars,
                  federationVars, runtimeVars, resilienceVars, publishingVars, arbitrageVars,
                  pipelineVars, exchangeVars, cleanupVars, migrationVars, surfaceVars,
                  scansVars, keysVars, profitVars, capacityVars, trainerVars, autofixVars,
                  reviewVars, feedbackVars, tokensVars, callsVars, gossipVars, tenantsVars>>

DeliveryStep ==
    /\ part = "delivery" /\ Delivery!Next
    /\ UNCHANGED <<part, webhookVars, conversionsVars, registryVars, promotionVars,
                  federationVars, runtimeVars, resilienceVars, publishingVars, arbitrageVars,
                  pipelineVars, exchangeVars, cleanupVars, migrationVars, surfaceVars,
                  scansVars, keysVars, profitVars, capacityVars, trainerVars, autofixVars,
                  reviewVars, feedbackVars, tokensVars, callsVars, gossipVars, tenantsVars>>

PromotionStep ==
    /\ part = "promotion" /\ Promotion!Next
    /\ UNCHANGED <<part, webhookVars, conversionsVars, registryVars, deliveryVars,
                  federationVars, runtimeVars, resilienceVars, publishingVars, arbitrageVars,
                  pipelineVars, exchangeVars, cleanupVars, migrationVars, surfaceVars,
                  scansVars, keysVars, profitVars, capacityVars, trainerVars, autofixVars,
                  reviewVars, feedbackVars, tokensVars, callsVars, gossipVars, tenantsVars>>

FedStep ==
    /\ part = "federation" /\ Fed!Next
    /\ UNCHANGED <<part, webhookVars, conversionsVars, registryVars, deliveryVars,
                  promotionVars, runtimeVars, resilienceVars, publishingVars, arbitrageVars,
                  pipelineVars, exchangeVars, cleanupVars, migrationVars, surfaceVars,
                  scansVars, keysVars, profitVars, capacityVars, trainerVars, autofixVars,
                  reviewVars, feedbackVars, tokensVars, callsVars, gossipVars, tenantsVars>>

RuntimeStep ==
    /\ part = "runtime" /\ Runtime!Next
    /\ UNCHANGED <<part, webhookVars, conversionsVars, registryVars, deliveryVars,
                  promotionVars, federationVars, resilienceVars, publishingVars, arbitrageVars,
                  pipelineVars, exchangeVars, cleanupVars, migrationVars, surfaceVars,
                  scansVars, keysVars, profitVars, capacityVars, trainerVars, autofixVars,
                  reviewVars, feedbackVars, tokensVars, callsVars, gossipVars, tenantsVars>>

ControlsStep ==
    /\ part = "resilience" /\ Controls!Next
    /\ UNCHANGED <<part, webhookVars, conversionsVars, registryVars, deliveryVars,
                  promotionVars, federationVars, runtimeVars, publishingVars, arbitrageVars,
                  pipelineVars, exchangeVars, cleanupVars, migrationVars, surfaceVars,
                  scansVars, keysVars, profitVars, capacityVars, trainerVars, autofixVars,
                  reviewVars, feedbackVars, tokensVars, callsVars, gossipVars, tenantsVars>>

PublishingStep ==
    /\ part = "publishing" /\ Publishing!Next
    /\ UNCHANGED <<part, webhookVars, conversionsVars, registryVars, deliveryVars,
                  promotionVars, federationVars, runtimeVars, resilienceVars, arbitrageVars,
                  pipelineVars, exchangeVars, cleanupVars, migrationVars, surfaceVars,
                  scansVars, keysVars, profitVars, capacityVars, trainerVars, autofixVars,
                  reviewVars, feedbackVars, tokensVars, callsVars, gossipVars, tenantsVars>>

ArbitrageStep ==
    /\ part = "arbitrage" /\ Arbitrage!Next
    /\ UNCHANGED <<part, webhookVars, conversionsVars, registryVars, deliveryVars,
                  promotionVars, federationVars, runtimeVars, resilienceVars, publishingVars,
                  pipelineVars, exchangeVars, cleanupVars, migrationVars, surfaceVars,
                  scansVars, keysVars, profitVars, capacityVars, trainerVars, autofixVars,
                  reviewVars, feedbackVars, tokensVars, callsVars, gossipVars, tenantsVars>>

PipelineStep ==
    /\ part = "pipeline" /\ Pipeline!Next
    /\ UNCHANGED <<part, webhookVars, conversionsVars, registryVars, deliveryVars,
                  promotionVars, federationVars, runtimeVars, resilienceVars, publishingVars,
                  arbitrageVars, exchangeVars, cleanupVars, migrationVars, surfaceVars,
                  scansVars, keysVars, profitVars, capacityVars, trainerVars, autofixVars,
                  reviewVars, feedbackVars, tokensVars, callsVars, gossipVars, tenantsVars>>

ExchangeStep ==
    /\ part = "exchange" /\ Exchange!Next
    /\ UNCHANGED <<part, webhookVars, conversionsVars, registryVars, deliveryVars,
                  promotionVars, federationVars, runtimeVars, resilienceVars, publishingVars,
                  arbitrageVars, pipelineVars, cleanupVars, migrationVars, surfaceVars,
                  scansVars, keysVars, profitVars, capacityVars, trainerVars, autofixVars,
                  reviewVars, feedbackVars, tokensVars, callsVars, gossipVars, tenantsVars>>

CleanupStep ==
    /\ part = "cleanup" /\ Cleanup!Next
    /\ UNCHANGED <<part, webhookVars, conversionsVars, registryVars, deliveryVars,
                  promotionVars, federationVars, runtimeVars, resilienceVars, publishingVars,
                  arbitrageVars, pipelineVars, exchangeVars, migrationVars, surfaceVars,
                  scansVars, keysVars, profitVars, capacityVars, trainerVars, autofixVars,
                  reviewVars, feedbackVars, tokensVars, callsVars, gossipVars, tenantsVars>>

MigrationStep ==
    /\ part = "migration" /\ Migration!Next
    /\ UNCHANGED <<part, webhookVars, conversionsVars, registryVars, deliveryVars,
                  promotionVars, federationVars, runtimeVars, resilienceVars, publishingVars,
                  arbitrageVars, pipelineVars, exchangeVars, cleanupVars, surfaceVars,
                  scansVars, keysVars, profitVars, capacityVars, trainerVars, autofixVars,
                  reviewVars, feedbackVars, tokensVars, callsVars, gossipVars, tenantsVars>>

SurfaceStep ==
    /\ part = "surface" /\ Surface!Next
    /\ UNCHANGED <<part, webhookVars, conversionsVars, registryVars, deliveryVars,
                  promotionVars, federationVars, runtimeVars, resilienceVars, publishingVars,
                  arbitrageVars, pipelineVars, exchangeVars, cleanupVars, migrationVars,
                  scansVars, keysVars, profitVars, capacityVars, trainerVars, autofixVars,
                  reviewVars, feedbackVars, tokensVars, callsVars, gossipVars, tenantsVars>>

SecurityScanStep ==
    /\ part = "scans" /\ SecurityScan!Next
    /\ UNCHANGED <<part, webhookVars, conversionsVars, registryVars, deliveryVars,
                  promotionVars, federationVars, runtimeVars, resilienceVars, publishingVars,
                  arbitrageVars, pipelineVars, exchangeVars, cleanupVars, migrationVars,
                  surfaceVars, keysVars, profitVars, capacityVars, trainerVars, autofixVars,
                  reviewVars, feedbackVars, tokensVars, callsVars, gossipVars, tenantsVars>>

AgentKeyStep ==
    /\ part = "keys" /\ AgentKey!Next
    /\ UNCHANGED <<part, webhookVars, conversionsVars, registryVars, deliveryVars,
                  promotionVars, federationVars, runtimeVars, resilienceVars, publishingVars,
                  arbitrageVars, pipelineVars, exchangeVars, cleanupVars, migrationVars,
                  surfaceVars, scansVars, profitVars, capacityVars, trainerVars, autofixVars,
                  reviewVars, feedbackVars, tokensVars, callsVars, gossipVars, tenantsVars>>

ProfitStep ==
    /\ part = "profit" /\ Profit!Next
    /\ UNCHANGED <<part, webhookVars, conversionsVars, registryVars, deliveryVars,
                  promotionVars, federationVars, runtimeVars, resilienceVars, publishingVars,
                  arbitrageVars, pipelineVars, exchangeVars, cleanupVars, migrationVars,
                  surfaceVars, scansVars, keysVars, capacityVars, trainerVars, autofixVars,
                  reviewVars, feedbackVars, tokensVars, callsVars, gossipVars, tenantsVars>>

CapacityStep ==
    /\ part = "capacity" /\ Capacity!Next
    /\ UNCHANGED <<part, webhookVars, conversionsVars, registryVars, deliveryVars,
                  promotionVars, federationVars, runtimeVars, resilienceVars, publishingVars,
                  arbitrageVars, pipelineVars, exchangeVars, cleanupVars, migrationVars,
                  surfaceVars, scansVars, keysVars, profitVars, trainerVars, autofixVars,
                  reviewVars, feedbackVars, tokensVars, callsVars, gossipVars, tenantsVars>>

TrainerStep ==
    /\ part = "trainer" /\ Trainer!Next
    /\ UNCHANGED <<part, webhookVars, conversionsVars, registryVars, deliveryVars,
                  promotionVars, federationVars, runtimeVars, resilienceVars, publishingVars,
                  arbitrageVars, pipelineVars, exchangeVars, cleanupVars, migrationVars,
                  surfaceVars, scansVars, keysVars, profitVars, capacityVars, autofixVars,
                  reviewVars, feedbackVars, tokensVars, callsVars, gossipVars, tenantsVars>>

AutofixStep ==
    /\ part = "autofix" /\ Autofix!Next
    /\ UNCHANGED <<part, webhookVars, conversionsVars, registryVars, deliveryVars,
                  promotionVars, federationVars, runtimeVars, resilienceVars, publishingVars,
                  arbitrageVars, pipelineVars, exchangeVars, cleanupVars, migrationVars,
                  surfaceVars, scansVars, keysVars, profitVars, capacityVars, trainerVars,
                  reviewVars, feedbackVars, tokensVars, callsVars, gossipVars, tenantsVars>>

ReviewStep ==
    /\ part = "review" /\ Review!Next
    /\ UNCHANGED <<part, webhookVars, conversionsVars, registryVars, deliveryVars,
                  promotionVars, federationVars, runtimeVars, resilienceVars, publishingVars,
                  arbitrageVars, pipelineVars, exchangeVars, cleanupVars, migrationVars,
                  surfaceVars, scansVars, keysVars, profitVars, capacityVars, trainerVars,
                  autofixVars, feedbackVars, tokensVars, callsVars, gossipVars, tenantsVars>>

FeedbackStep ==
    /\ part = "feedback" /\ Feedback!Next
    /\ UNCHANGED <<part, webhookVars, conversionsVars, registryVars, deliveryVars,
                  promotionVars, federationVars, runtimeVars, resilienceVars, publishingVars,
                  arbitrageVars, pipelineVars, exchangeVars, cleanupVars, migrationVars,
                  surfaceVars, scansVars, keysVars, profitVars, capacityVars, trainerVars,
                  autofixVars, reviewVars, tokensVars, callsVars, gossipVars, tenantsVars>>

JwtStep ==
    /\ part = "tokens" /\ Jwt!Next
    /\ UNCHANGED <<part, webhookVars, conversionsVars, registryVars, deliveryVars,
                  promotionVars, federationVars, runtimeVars, resilienceVars, publishingVars,
                  arbitrageVars, pipelineVars, exchangeVars, cleanupVars, migrationVars,
                  surfaceVars, scansVars, keysVars, profitVars, capacityVars, trainerVars,
                  autofixVars, reviewVars, feedbackVars, callsVars, gossipVars, tenantsVars>>

RetriedStep ==
    /\ part = "calls" /\ Retried!Next
    /\ UNCHANGED <<part, webhookVars, conversionsVars, registryVars, deliveryVars,
                  promotionVars, federationVars, runtimeVars, resilienceVars, publishingVars,
                  arbitrageVars, pipelineVars, exchangeVars, cleanupVars, migrationVars,
                  surfaceVars, scansVars, keysVars, profitVars, capacityVars, trainerVars,
                  autofixVars, reviewVars, feedbackVars, tokensVars, gossipVars, tenantsVars>>

GossipStep ==
    /\ part = "gossip" /\ Gossip!Next
    /\ UNCHANGED <<part, webhookVars, conversionsVars, registryVars, deliveryVars,
                  promotionVars, federationVars, runtimeVars, resilienceVars, publishingVars,
                  arbitrageVars, pipelineVars, exchangeVars, cleanupVars, migrationVars,
                  surfaceVars, scansVars, keysVars, profitVars, capacityVars, trainerVars,
                  autofixVars, reviewVars, feedbackVars, tokensVars, callsVars, tenantsVars>>

TenantsStep ==
    /\ part = "tenants" /\ Tenants!Next
    /\ UNCHANGED <<part, webhookVars, conversionsVars, registryVars, deliveryVars,
                  promotionVars, federationVars, runtimeVars, resilienceVars, publishingVars,
                  arbitrageVars, pipelineVars, exchangeVars, cleanupVars, migrationVars,
                  surfaceVars, scansVars, keysVars, profitVars, capacityVars, trainerVars,
                  autofixVars, reviewVars, feedbackVars, tokensVars, callsVars, gossipVars>>

Next ==
    \/ WebhookStep
    \/ ConversionsStep
    \/ RegistryStep
    \/ DeliveryStep
    \/ PromotionStep
    \/ FedStep
    \/ RuntimeStep
    \/ ControlsStep
    \/ PublishingStep
    \/ ArbitrageStep
    \/ PipelineStep
    \/ ExchangeStep
    \/ CleanupStep
    \/ MigrationStep
    \/ SurfaceStep
    \/ SecurityScanStep
    \/ AgentKeyStep
    \/ ProfitStep
    \/ CapacityStep
    \/ TrainerStep
    \/ AutofixStep
    \/ ReviewStep
    \/ FeedbackStep
    \/ JwtStep
    \/ RetriedStep
    \/ GossipStep
    \/ TenantsStep

Spec == Init /\ [][Next]_vars

-----------------------------------------------------------------------------
(* Every component keeps its state within its types.  A component that     *)
(* does not step is as one of its behaviours begins: what holds of it then *)
(* is checked where it does.                                               *)
TypeOK ==
    /\ part = "webhook" => WebhookTypeOK
    /\ part = "conversions" => Conversions!TypeOK
    /\ part = "registry" => Registry!TypeOK
    /\ part = "delivery" => Delivery!TypeOK
    /\ part = "promotion" => Promotion!TypeOK
    /\ part = "federation" => Fed!TypeOK
    /\ part = "runtime" => Runtime!TypeOK
    /\ part = "resilience" => Controls!TypeOK
    /\ part = "publishing" => Publishing!TypeOK
    /\ part = "arbitrage" => Arbitrage!TypeOK
    /\ part = "pipeline" => Pipeline!TypeOK
    /\ part = "exchange" => Exchange!TypeOK
    /\ part = "cleanup" => Cleanup!TypeOK
    /\ part = "migration" => Migration!TypeOK
    /\ part = "surface" => Surface!TypeOK
    /\ part = "scans" => SecurityScan!TypeOK
    /\ part = "keys" => AgentKey!TypeOK
    /\ part = "profit" => Profit!TypeOK
    /\ part = "capacity" => Capacity!TypeOK
    /\ part = "trainer" => Trainer!TypeOK
    /\ part = "autofix" => Autofix!TypeOK
    /\ part = "review" => Review!TypeOK
    /\ part = "feedback" => Feedback!TypeOK
    /\ part = "tokens" => Jwt!TypeOK
    /\ part = "calls" => Retried!TypeOK
    /\ part = "gossip" => Gossip!TypeOK
    /\ part = "tenants" => Tenants!TypeOK

(* What one delivery after another leaves in the four services.            *)
PipelineInv == part = "conversions" => Conversions!PipelineInv

(* An agent forgets an update only when two of its requests overlap: the   *)
(* one that stores had loaded before another one stored.                   *)
ForgetsOnlyOnOverlap == Conversions!ForgetsOnlyOnOverlap
=============================================================================

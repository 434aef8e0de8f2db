----------------------------- MODULE Agents ---------------------------------
(***************************************************************************)
(* The agents and the platform they work for, like the components of       *)
(* Services: no two share state, each is an instance of its module with    *)
(* constants and variables of its own.                                     *)
(***************************************************************************)
EXTENDS Integers, Sequences, FiniteSets

CONSTANTS
    AgtNone, AgtTorn,
    TrnRecords, TrnTargets, TrnCompose, TrnWorkers, TrnSettings, TrnMaxStarts,
    AfxFiles, AfxBegun, AfxNames, AfxNested, AfxReports, AfxOutcomes, AfxHolds, AfxMaxAnalyses,
    AfxMaxEdits, AfxMaxJobs,
    RvwCalls, RvwBases, RvwBranchOf, RvwPatches, RvwMaxDeletes,
    RfbDeliveries, RfbMaxDeliveries,
    TknReplicas, TknSettings, TknNames, TknSkew, TknMaxTtl, TknMaxTime, TknMaxStarts,
    TknMaxTokens,
    RtcCalls, RtcRetries, RtcTop, RtcListings,
    GspNodes, GspWeights, GspForeign, GspMaxPayload, GspMaxSent,
    TntPeople, TntEmail, TntMaxRequests, TntFreeLimit, TntProLimit, TntMaxStops

VARIABLES
    trnFetched, trnCommitted, trnTrainer, trnPolicy, trnImage, trnLate, trnStarts,
    trnEverLearned, trnDropped, trnOvertaken,
    afxHead, afxAnalyses, afxJob, afxBus, afxPushed, afxPulls, afxHeard, afxEdits, afxJobs,
    rvwBase, rvwBranch, rvwCuts, rvwCall, rvwPulls, rvwLost, rvwWriters,
    rfbWeight, rfbAnswer, rfbLiked, rfbDisliked, rfbDeliveries,
    tknNow, tknAhead, tknSettings, tknStarts, tknTokens, tknShown,
    rtcCall, rtcMet,
    gspWeights, gspListening, gspFlying, gspSent, gspSpoilt, gspMet,
    tntUp, tntUsers, tntPerson, tntPro, tntDeployed, tntRequest, tntPooled, tntEvents, tntRows,
    tntRaced, tntPaid, tntCrossed, tntStops

-----------------------------------------------------------------------------
(* The loop of rl-trainer.                                                 *)
trainerVars ==
    <<trnFetched, trnCommitted, trnTrainer, trnPolicy, trnImage, trnLate, trnStarts,
      trnEverLearned, trnDropped, trnOvertaken>>
Trainer == INSTANCE TrainerLoop WITH
    None <- AgtNone, Torn <- AgtTorn, Records <- TrnRecords, Targets <- TrnTargets,
    Compose <- TrnCompose, Workers <- TrnWorkers, Settings <- TrnSettings,
    MaxStarts <- TrnMaxStarts, fetched <- trnFetched, committed <- trnCommitted,
    trainer <- trnTrainer, policy <- trnPolicy, image <- trnImage, late <- trnLate,
    starts <- trnStarts, everLearned <- trnEverLearned, dropped <- trnDropped,
    overtaken <- trnOvertaken

-----------------------------------------------------------------------------
(* The workflow that repairs what an analysis found.                       *)
autofixVars ==
    <<afxHead, afxAnalyses, afxJob, afxBus, afxPushed, afxPulls, afxHeard, afxEdits, afxJobs>>
Autofix == INSTANCE SecurityAutofix WITH
    None <- AgtNone, Files <- AfxFiles, Begun <- AfxBegun, Names <- AfxNames,
    Nested <- AfxNested, Reports <- AfxReports, Outcomes <- AfxOutcomes, Holds <- AfxHolds,
    MaxAnalyses <- AfxMaxAnalyses, MaxEdits <- AfxMaxEdits, MaxJobs <- AfxMaxJobs,
    head <- afxHead, analyses <- afxAnalyses, job <- afxJob, bus <- afxBus,
    pushed <- afxPushed, pulls <- afxPulls, heard <- afxHeard, edits <- afxEdits,
    jobs <- afxJobs

-----------------------------------------------------------------------------
(* The review robot's pull requests.                                       *)
reviewVars ==
    <<rvwBase, rvwBranch, rvwCuts, rvwCall, rvwPulls, rvwLost, rvwWriters>>
Review == INSTANCE ReviewBot WITH
    None <- AgtNone, Calls <- RvwCalls, Bases <- RvwBases, BranchOf <- RvwBranchOf,
    Patches <- RvwPatches, MaxDeletes <- RvwMaxDeletes, base <- rvwBase, branch <- rvwBranch,
    cuts <- rvwCuts, call <- rvwCall, pulls <- rvwPulls, lost <- rvwLost, writers <- rvwWriters

-----------------------------------------------------------------------------
(* The review robot's webhook.                                             *)
feedbackVars ==
    <<rfbWeight, rfbAnswer, rfbLiked, rfbDisliked, rfbDeliveries>>
Feedback == INSTANCE ReviewFeedback WITH
    None <- AgtNone, Deliveries <- RfbDeliveries, MaxDeliveries <- RfbMaxDeliveries,
    weight <- rfbWeight, answer <- rfbAnswer, liked <- rfbLiked, disliked <- rfbDisliked,
    deliveries <- rfbDeliveries

-----------------------------------------------------------------------------
(* The tokens of jwt-auth.                                                 *)
tokensVars ==
    <<tknNow, tknAhead, tknSettings, tknStarts, tknTokens, tknShown>>
Jwt == INSTANCE Tokens WITH
    None <- AgtNone, Replicas <- TknReplicas, Settings <- TknSettings, Names <- TknNames,
    Skew <- TknSkew, MaxTtl <- TknMaxTtl, MaxTime <- TknMaxTime, MaxStarts <- TknMaxStarts,
    MaxTokens <- TknMaxTokens, now <- tknNow, ahead <- tknAhead, settings <- tknSettings,
    starts <- tknStarts, tokens <- tknTokens, shown <- tknShown

-----------------------------------------------------------------------------
(* Calls that are tried again.                                             *)
callsVars ==
    <<rtcCall, rtcMet>>
Retried == INSTANCE RetriedCalls WITH
    None <- AgtNone, Calls <- RtcCalls, Retries <- RtcRetries, Top <- RtcTop,
    Listings <- RtcListings, call <- rtcCall, met <- rtcMet

-----------------------------------------------------------------------------
(* The weights that agents of the trainer gossip.                          *)
gossipVars ==
    <<gspWeights, gspListening, gspFlying, gspSent, gspSpoilt, gspMet>>
Gossip == INSTANCE WeightGossip WITH
    None <- AgtNone, Nodes <- GspNodes, Weights <- GspWeights, Foreign <- GspForeign,
    MaxPayload <- GspMaxPayload, MaxSent <- GspMaxSent, weights <- gspWeights,
    listening <- gspListening, flying <- gspFlying, sent <- gspSent, spoilt <- gspSpoilt,
    met <- gspMet

-----------------------------------------------------------------------------
(* The services behind the gateway.                                        *)
tenantsVars ==
    <<tntUp, tntUsers, tntPerson, tntPro, tntDeployed, tntRequest, tntPooled, tntEvents,
      tntRows, tntRaced, tntPaid, tntCrossed, tntStops>>
Tenants == INSTANCE PlatformTenants WITH
    None <- AgtNone, People <- TntPeople, Email <- TntEmail, MaxRequests <- TntMaxRequests,
    FreeLimit <- TntFreeLimit, ProLimit <- TntProLimit, MaxStops <- TntMaxStops, up <- tntUp,
    users <- tntUsers, person <- tntPerson, pro <- tntPro, deployed <- tntDeployed,
    request <- tntRequest, pooled <- tntPooled, events <- tntEvents, rows <- tntRows,
    raced <- tntRaced, paid <- tntPaid, crossed <- tntCrossed, stops <- tntStops

-----------------------------------------------------------------------------
(* The agents and the platform they sell: what the trainer skips, replaces   *)
(* or deploys is accounted for and its gossip averages what was sent; an     *)
(* autofix job offers what its own analysis found; a review robot's branch   *)
(* carries the patch of the request that opened it; retried calls are told   *)
(* apart from lost ones; a token stands for one that was issued and is not   *)
(* too old; a tenant exceeds its plan only by requests that ran together.    *)
AgentsInv ==
    /\ Trainer!TrainerInv
    /\ Autofix!AutofixInv
    /\ Review!ReviewInv
    /\ Feedback!FeedbackInv
    /\ Jwt!TokensInv
    /\ Retried!CallsInv
    /\ Gossip!GossipInv
    /\ Tenants!TenantsInv
=============================================================================

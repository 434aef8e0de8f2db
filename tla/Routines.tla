----------------------------- MODULE Routines -------------------------------
(***************************************************************************)
(* What runs beside the services, like the components of Services: daily   *)
(* publishing, the helpers of enterprise_maturity and the scripts that     *)
(* tend the repository.  No two share state.                               *)
(***************************************************************************)
EXTENDS Integers, Sequences, FiniteSets

CONSTANTS
    RtnNone,
    EntInstances, EntPaths, EntNumJobs, EntMemory, EntRenders, EntMinWorkers, EntMaxWorkers,
    EntTarget, EntMaxRoutes, EntMaxBatch, EntMaxReleases,
    PubRuns, PubDailyTarget, PubRetryBudget, PubNumJobs, PubMaxDay, PubMaxRestarts,
    DepMetrics, DepMaxError, DepMaxLatency, DepStages, DepMaxDuration, DepManifests, DepJson,
    DepMaxMetrics, DepMaxRecords,
    CleanFiles, CleanEntrypoints, CleanProtected, CleanTrees, CleanMaxRuns, CleanMaxEdits,
    MigNodes, MigRoot, MigUp, MigBase, MigDirs, MigText, MigSkipped, MigTrees, MigMaxRuns,
    SurNames, SurBaselineNames, SurSources, SurMaxEdits, SurMaxRuns

VARIABLES
    entInstances, entRoutes, entNextIdx, entRouted, entPicks, entQueue, entSent, entGot,
    entWorkers, entBacklog, entUsed, entRender, entSpurious,
    pubQueue, pubCounter, pubResults, pubDead, pubRun, pubToday, pubSent, pubFailures,
    pubPosted, pubCrowded, pubRestarts,
    depMemory, depViolations, depFixes, depDesired, depCurrent, depDrift, depEdited, depHealed,
    depAssessment, depPlan,
    cleanSource, cleanQuarantine, cleanImports, cleanManifest, cleanRun, cleanRuns, cleanEdits,
    cleanLost, cleanSettled,
    migNamed, migContent, migRun, migRuns,
    surTree, surManifest, surVerdict, surEdits, surRuns

-----------------------------------------------------------------------------
(* The runtime of enterprise_maturity.                                     *)
runtimeVars ==
    <<entInstances, entRoutes, entNextIdx, entRouted, entPicks, entQueue, entSent, entGot,
      entWorkers, entBacklog, entUsed, entRender, entSpurious>>
Runtime == INSTANCE EnterpriseRuntime WITH
    None <- RtnNone, Instances <- EntInstances, Paths <- EntPaths, NumJobs <- EntNumJobs,
    Memory <- EntMemory, Renders <- EntRenders, MinWorkers <- EntMinWorkers,
    MaxWorkers <- EntMaxWorkers, Target <- EntTarget, MaxRoutes <- EntMaxRoutes,
    MaxBatch <- EntMaxBatch, MaxReleases <- EntMaxReleases, instances <- entInstances,
    routes <- entRoutes, nextIdx <- entNextIdx, routed <- entRouted, picks <- entPicks,
    queue <- entQueue, sent <- entSent, got <- entGot, workers <- entWorkers,
    backlog <- entBacklog, used <- entUsed, render <- entRender, spurious <- entSpurious

(* What the parts that the runtime composes keep, in any order of calls.   *)
RuntimeInv == Runtime!RuntimeInv

-----------------------------------------------------------------------------
(* Daily publishing of arbitrage-engine.                                   *)
publishingVars ==
    <<pubQueue, pubCounter, pubResults, pubDead, pubRun, pubToday, pubSent, pubFailures,
      pubPosted, pubCrowded, pubRestarts>>
Publishing == INSTANCE PublishingQueue WITH
    Runs <- PubRuns, DailyTarget <- PubDailyTarget, RetryBudget <- PubRetryBudget,
    NumJobs <- PubNumJobs, MaxDay <- PubMaxDay, MaxRestarts <- PubMaxRestarts,
    queue <- pubQueue, counter <- pubCounter, results <- pubResults, dead <- pubDead,
    run <- pubRun, today <- pubToday, sent <- pubSent, failures <- pubFailures,
    posted <- pubPosted, crowded <- pubCrowded, restarts <- pubRestarts

(* The jobs and the days together.                                         *)
PublishingInv == Publishing!PublishingInv

-----------------------------------------------------------------------------
(* The deployment helpers of enterprise_maturity.                          *)
pipelineVars ==
    <<depMemory, depViolations, depFixes, depDesired, depCurrent, depDrift, depEdited,
      depHealed, depAssessment, depPlan>>
Pipeline == INSTANCE DeploymentPipeline WITH
    None <- RtnNone, Metrics <- DepMetrics, MaxError <- DepMaxError,
    MaxLatency <- DepMaxLatency, Stages <- DepStages, MaxDuration <- DepMaxDuration,
    Manifests <- DepManifests, Json <- DepJson, MaxMetrics <- DepMaxMetrics,
    MaxRecords <- DepMaxRecords, memory <- depMemory, violations <- depViolations,
    fixes <- depFixes, desired <- depDesired, current <- depCurrent, drift <- depDrift,
    edited <- depEdited, healed <- depHealed, assessment <- depAssessment, plan <- depPlan

(* What the four parts answer.                                             *)
DeploymentInv == Pipeline!DeploymentInv

-----------------------------------------------------------------------------
(* The cleanup audit of the repository's scripts.                          *)
cleanupVars ==
    <<cleanSource, cleanQuarantine, cleanImports, cleanManifest, cleanRun, cleanRuns,
      cleanEdits, cleanLost, cleanSettled>>
Cleanup == INSTANCE CleanupAudit WITH
    Files <- CleanFiles, Entrypoints <- CleanEntrypoints, Protected <- CleanProtected,
    Trees <- CleanTrees, MaxRuns <- CleanMaxRuns, MaxEdits <- CleanMaxEdits,
    source <- cleanSource, quarantine <- cleanQuarantine, imports <- cleanImports,
    manifest <- cleanManifest, run <- cleanRun, runs <- cleanRuns, edits <- cleanEdits,
    lost <- cleanLost, settled <- cleanSettled

-----------------------------------------------------------------------------
(* The scripts that replace the platform's former names.                   *)
migrationVars ==
    <<migNamed, migContent, migRun, migRuns>>
Migration == INSTANCE NameMigration WITH
    Nodes <- MigNodes, Root <- MigRoot, Up <- MigUp, Base <- MigBase, Dirs <- MigDirs,
    Text <- MigText, Skipped <- MigSkipped, Trees <- MigTrees, MaxRuns <- MigMaxRuns,
    named <- migNamed, content <- migContent, run <- migRun, runs <- migRuns

-----------------------------------------------------------------------------
(* The service surface manifest.                                           *)
surfaceVars ==
    <<surTree, surManifest, surVerdict, surEdits, surRuns>>
Surface == INSTANCE SurfaceManifest WITH
    None <- RtnNone, Names <- SurNames, BaselineNames <- SurBaselineNames,
    Sources <- SurSources, MaxEdits <- SurMaxEdits, MaxRuns <- SurMaxRuns, tree <- surTree,
    manifest <- surManifest, verdict <- surVerdict, edits <- surEdits, runs <- surRuns

-----------------------------------------------------------------------------
(* The tools of the repository: the cleanup moves only what nothing needed  *)
(* and its manifest accounts for the quarantine; the migration leaves an old *)
(* name only where it cannot reach and loses nothing but by its own writes;  *)
(* a surface manifest that is accepted protects every writing route.         *)
ToolsInv ==
    /\ Cleanup!CleanupInv
    /\ Migration!MigrationInv
    /\ Surface!SurfaceInv
=============================================================================

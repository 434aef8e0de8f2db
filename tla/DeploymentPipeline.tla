------------------------- MODULE DeploymentPipeline -------------------------
(***************************************************************************)
(* What EnterpriseRuntime offers a deployment: the verdict on a canary in  *)
(* several regions, a plan for the stages of a pipeline, a database of     *)
(* policy violations and their fixes, and the healing of manifests.        *)
(***************************************************************************)
EXTENDS Integers, FiniteSets, Sequences, SequencesExt, FiniteSetsExt

CONSTANTS
    Metrics,            \* of a region: [region, error, latency], canary less baseline
    MaxError, MaxLatency, \* max_error_delta, max_latency_delta_ms
    Stages,             \* names of stages, which have an order
    MaxDuration,        \* bound: the duration of a stage
    Manifests,
    Json,               \* what each manifest is after json.dumps and json.loads
    MaxMetrics, MaxRecords, \* bounds: metrics in an assessment, rows of a table
    None

PipelineAssumption ==
    /\ Stages \subseteq Nat /\ IsFiniteSet(Stages) /\ MaxDuration \in Nat /\ MaxError \in Nat /\ MaxLatency \in Nat
    /\ \A m \in Metrics : m.error \in Int /\ m.latency \in Int
    /\ Json \in [Manifests -> Manifests] /\ MaxRecords \in Nat /\ MaxMetrics \in Nat

Durations == 1..MaxDuration

VARIABLES
    memory,         \* db_path is ":memory:", as EnterpriseRuntime() has it
    violations,     \* rows of policy_violations, with ids 1, 2, ...
    fixes,          \* policy_fixes: the violation_id of each row
    desired, current, \* the manifest wanted and the one in place
    drift,          \* a ManifestDrift somebody holds: [desired, current]
    edited,         \* history: the manifest wanted was edited since the drift was detected
    healed,         \* history: the last thing done to the manifest in place was healing it
    assessment, plan \* the last answer, of one or the other

policyVars == <<memory, violations, fixes>>
manifestVars == <<desired, current, drift, edited, healed>>
vars == <<policyVars, manifestVars, assessment, plan>>

Timing == [stage : Stages, duration : Durations, parallelizable : BOOLEAN]

TypeOK ==
    /\ memory \in BOOLEAN /\ violations \in 0..MaxRecords /\ fixes \in Seq(1..MaxRecords + 1)
    /\ desired \in Manifests /\ current \in Manifests /\ edited \in BOOLEAN /\ healed \in BOOLEAN
    /\ drift \in [desired : Manifests, current : Manifests] \cup {None}
    /\ assessment = None \/ assessment.decision \in {"promote", "rollback"}
    /\ plan = None \/ plan.timings \subseteq Timing

Init ==
    /\ memory \in BOOLEAN /\ violations = 0 /\ fixes = <<>>
    /\ desired \in Manifests /\ current = desired /\ drift = None /\ edited = FALSE /\ healed = FALSE
    /\ assessment = None /\ plan = None

-----------------------------------------------------------------------------
(* The canary.  A region may be named by several metrics.                  *)
BadByBoth(m) == m.error > MaxError /\ m.latency > MaxLatency \* variant

Bad(m) == m.error > MaxError \/ m.latency > MaxLatency

Assess(given) ==
    LET rollback == {m \in ToSet(given) : Bad(m)}
        safe == ToSet(given) \ rollback
    IN /\ given # <<>>
       /\ assessment' = [given |-> given, decision |-> IF rollback # {} THEN "rollback" ELSE "promote",
                         safe |-> {m.region : m \in safe}, rollback |-> {m.region : m \in rollback}]
       /\ UNCHANGED <<policyVars, manifestVars, plan>>

(* The plan: what may run in parallel runs first and together, then the    *)
(* other stages by their names.  A sum is the number of its units.         *)
Longest(timings) == Max({0} \cup {t.duration : t \in timings})
Total(timings) == Cardinality(UNION {{t} \X (1..t.duration) : t \in timings})
TakesOf(groups) == Cardinality(UNION {{i} \X (1..Longest(groups[i])) : i \in DOMAIN groups})

InOrder(serial) == [k \in 1..Cardinality(serial) |-> {t \in serial : Cardinality({u \in serial : u.stage <= t.stage}) = k}]

OptimizeSumming(timings) == \* variant: the parallel stages are added up
    LET parallel == {t \in timings : t.parallelizable}
    IN /\ timings # {}
       /\ plan' = [timings |-> timings, groups |-> <<parallel>> \o InOrder(timings \ parallel), predicted |-> Total(timings)]
       /\ UNCHANGED <<policyVars, manifestVars, assessment>>

Optimize(timings) ==
    LET parallel == {t \in timings : t.parallelizable}
        serial == timings \ parallel
    IN /\ timings # {}
       /\ plan' = [timings |-> timings,
                   groups |-> (IF parallel = {} THEN <<>> ELSE <<parallel>>) \o InOrder(serial),
                   predicted |-> Longest(parallel) + Total(serial)]
       /\ UNCHANGED <<policyVars, manifestVars, assessment>>

-----------------------------------------------------------------------------
(* The database.  Every operation opens a connection of its own: one in    *)
(* memory is a new database without tables, and the operation raises.      *)
RecordViolation ==
    /\ ~memory /\ violations < MaxRecords
    /\ violations' = violations + 1
    /\ UNCHANGED <<memory, fixes, manifestVars, assessment, plan>>

RecordFixUnchecked(id) == \* variant: the id is not looked up
    /\ ~memory /\ Len(fixes) < MaxRecords
    /\ fixes' = Append(fixes, id)
    /\ UNCHANGED <<memory, violations, manifestVars, assessment, plan>>

RecordFix(id) ==
    /\ ~memory /\ id \in 1..violations /\ Len(fixes) < MaxRecords
    /\ fixes' = Append(fixes, id)
    /\ UNCHANGED <<memory, violations, manifestVars, assessment, plan>>

Snapshot == [violations |-> 1..violations, fixes |-> fixes]

-----------------------------------------------------------------------------
(* Manifests.  Nothing is kept between detecting a drift and healing it:   *)
(* the caller holds the drift, and puts in place what heal returns.        *)
Edit(m) ==
    /\ desired' = m /\ m # desired
    /\ edited' = TRUE /\ healed' = FALSE
    /\ UNCHANGED <<policyVars, current, drift, assessment, plan>>

Drift(m) ==
    /\ current' = m /\ healed' = FALSE
    /\ UNCHANGED <<policyVars, desired, drift, edited, assessment, plan>>

DetectDrift ==
    /\ drift' = IF desired = current THEN None ELSE [desired |-> desired, current |-> current]
    /\ edited' = FALSE /\ healed' = FALSE
    /\ UNCHANGED <<policyVars, desired, current, assessment, plan>>

HealBack == \* variant: the manifest of the wrong side
    /\ drift # None
    /\ current' = Json[drift.current] /\ healed' = TRUE
    /\ UNCHANGED <<policyVars, desired, drift, edited, assessment, plan>>

Heal ==
    /\ drift # None
    /\ current' = Json[drift.desired] /\ healed' = TRUE
    /\ UNCHANGED <<policyVars, desired, drift, edited, assessment, plan>>

(* Bound: one answer is given; it depends on nothing that came before.     *)
Answer ==
    /\ assessment = None /\ plan = None
    /\ \/ \E given \in BoundedSeq(Metrics, MaxMetrics) : Assess(given)
       \/ \E stages \in SUBSET Stages :
            \E d \in [stages -> Durations], p \in [stages -> BOOLEAN] :
              Optimize({[stage |-> s, duration |-> d[s], parallelizable |-> p[s]] : s \in stages})

Next ==
    \/ Answer
    \/ RecordViolation \/ \E id \in 1..MaxRecords + 1 : RecordFix(id)
    \/ \E m \in Manifests : Edit(m) \/ Drift(m)
    \/ DetectDrift \/ Heal

Spec == Init /\ [][Next]_vars

-----------------------------------------------------------------------------
(* A canary is promoted only if it is good in every region by both         *)
(* measures; every region is judged, and judged both ways only if it was   *)
(* given twice.                                                            *)
VerdictCoversRegions ==
    assessment # None =>
      LET given == ToSet(assessment.given)
      IN /\ assessment.decision = "promote"
              <=> \A m \in given : m.error <= MaxError /\ m.latency <= MaxLatency
         /\ assessment.safe \cup assessment.rollback = {m.region : m \in given}
         /\ assessment.safe \cap assessment.rollback # {} =>
              \E i, k \in DOMAIN assessment.given : i # k /\ assessment.given[i].region = assessment.given[k].region

(* The plan runs every stage once, those that may not run in parallel by   *)
(* themselves, and takes what was predicted.                               *)
PlanTakesPredicted ==
    plan # None =>
      /\ UNION ToSet(plan.groups) = plan.timings
      /\ \A i, k \in DOMAIN plan.groups : i # k => plan.groups[i] \cap plan.groups[k] = {}
      /\ \A g \in ToSet(plan.groups) : Cardinality(g) > 1 => \A t \in g : t.parallelizable
      /\ plan.predicted = TakesOf(plan.groups)

(* Every fix is of a violation that was recorded before it; and in memory  *)
(* nothing is ever recorded.                                               *)
FixesHaveViolations ==
    /\ ToSet(Snapshot.fixes) \subseteq Snapshot.violations
    /\ memory => Snapshot = [violations |-> {}, fixes |-> <<>>]

(* Healing ends a drift, unless the manifest wanted was edited after the   *)
(* drift was detected; if it does not survive the way through JSON, the    *)
(* drift is detected again after every healing.                            *)
HealedIsDesired == healed /\ ~edited => (current = desired <=> Json[desired] = desired)

(* What the four parts answer.                                             *)
DeploymentInv == VerdictCoversRegions /\ PlanTakesPredicted /\ FixesHaveViolations /\ HealedIsDesired
=============================================================================

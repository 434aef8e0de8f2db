--------------------------- MODULE ModelPromotion ---------------------------
(***************************************************************************)
(* The loop of auto-ml: train, evaluate, deploy what scores PROMOTE_DELTA  *)
(* more than the metric last saved, then save its score.  The three        *)
(* commands may fail or run into their time limit; nothing keeps two runs  *)
(* apart, or deployment and metric together.                               *)
(***************************************************************************)
EXTENDS Integers

CONSTANTS
    Runs,
    Scores,         \* scores an evaluation may give, in hundredths
    Delta           \* PROMOTE_DELTA

PromotionAssumption == Scores \subseteq Nat \ {0} /\ Delta \in Nat

VARIABLES
    run,            \* of each run: its step, the metric it loaded, its score
    metric,         \* metric.txt; 0 where the file is missing or empty
    deployed,       \* the score of the model deployed, 0 for none
    \* history
    astray          \* runs overlapped, or a deployment's metric was not saved

vars == <<run, metric, deployed, astray>>

Steps == {"train", "evaluate", "deploy", "truncate", "save"}
Ends == {"promoted", "rejected", "failed"}

TypeOK ==
    /\ run \in [Runs -> [step : Steps \cup Ends \cup {"idle"}, previous : Scores \cup {0}, score : Scores \cup {0}]]
    /\ metric \in Scores \cup {0} /\ deployed \in Scores \cup {0} /\ astray \in BOOLEAN

Init ==
    /\ run = [r \in Runs |-> [step |-> "idle", previous |-> 0, score |-> 0]]
    /\ metric = 0 /\ deployed = 0 /\ astray = FALSE

Overlaps(r) == \E q \in Runs \ {r} : run[q].step \in Steps

StartRun(r) ==
    /\ run[r].step = "idle"
    /\ run' = [run EXCEPT ![r].step = "train", ![r].previous = metric]
    /\ astray' = (astray \/ Overlaps(r))
    /\ UNCHANGED <<metric, deployed>>

Train(r) ==
    /\ run[r].step = "train"
    /\ \E step \in {"evaluate", "failed"} : run' = [run EXCEPT ![r].step = step]
    /\ UNCHANGED <<metric, deployed, astray>>

PromotesAnyBetter(previous, score) == score >= previous \* variant: without the delta

Promotes(previous, score) == score >= previous + Delta

Evaluate(r) ==
    /\ run[r].step = "evaluate"
    /\ \/ run' = [run EXCEPT ![r].step = "failed"]
       \/ \E s \in Scores :
            run' = [run EXCEPT ![r].score = s,
                               ![r].step = IF Promotes(run[r].previous, s) THEN "deploy" ELSE "rejected"]
    /\ UNCHANGED <<metric, deployed, astray>>

(* A deployment that fails or runs out of time may have been made.         *)
Deploy(r) ==
    /\ run[r].step = "deploy"
    /\ \/ run' = [run EXCEPT ![r].step = "truncate"] /\ deployed' = run[r].score /\ astray' = astray
       \/ /\ run' = [run EXCEPT ![r].step = "failed"]
          /\ deployed' \in {deployed, run[r].score} /\ astray' = (astray \/ deployed' # deployed)
    /\ UNCHANGED metric

(* write_text: a run stopped in between leaves an empty file, read as 0.   *)
SaveMetricLoaded(r) == \* variant: the metric that was loaded is saved
    \/ /\ run[r].step = "truncate" /\ metric' = 0
       /\ run' = [run EXCEPT ![r].step = "save"]
       /\ UNCHANGED <<deployed, astray>>
    \/ /\ run[r].step = "save" /\ metric' = run[r].previous
       /\ run' = [run EXCEPT ![r].step = "promoted"]
       /\ UNCHANGED <<deployed, astray>>

SaveMetric(r) ==
    \/ /\ run[r].step = "truncate" /\ metric' = 0
       /\ run' = [run EXCEPT ![r].step = "save"]
       /\ UNCHANGED <<deployed, astray>>
    \/ /\ run[r].step = "save" /\ metric' = run[r].score
       /\ run' = [run EXCEPT ![r].step = "promoted"]
       /\ UNCHANGED <<deployed, astray>>

Stop(r) ==
    /\ run[r].step \in Steps
    /\ run' = [run EXCEPT ![r].step = "failed"]
    /\ astray' = (astray \/ run[r].step \in {"truncate", "save"})
    /\ UNCHANGED <<metric, deployed>>

Next == \E r \in Runs : StartRun(r) \/ Train(r) \/ Evaluate(r) \/ Deploy(r) \/ SaveMetric(r) \/ Stop(r)

Spec == Init /\ [][Next]_vars

-----------------------------------------------------------------------------
(* Between runs the metric kept is that of the model deployed, unless runs *)
(* overlapped or one ended between its deployment and its save.            *)
MetricOfDeployed == (~astray /\ \A r \in Runs : run[r].step \notin Steps) => metric = deployed

(* Under the same condition a model is replaced only by one that scores    *)
(* better by the delta, and the metric kept follows it.                    *)
PromotionsImprove ==
    [][MetricOfDeployed' /\ (deployed' # deployed /\ ~astray => deployed' >= deployed + Delta)]_vars
=============================================================================

--------------------------- MODULE CapacityAdvice ---------------------------
(***************************************************************************)
(* What decides on capacity: the admission of work by lanes and the advice *)
(* on replicas (enterprise_maturity/performance), and the policy that the  *)
(* infrastructure tuner makes of recorded metrics (rl-trainer).  Loads are *)
(* classes: low, middle and high stand for the ranges the thresholds cut.  *)
(***************************************************************************)
EXTENDS Integers, FiniteSets, FiniteSetsExt

CONSTANTS
    Limit,          \* of each lane
    MinReplicas, MaxReplicas,
    Metrics,        \* what a line of metrics may say: [errors, latency, load, restarts, anomaly]
    MaxWork, MaxRepeats, MaxLines,
    None

CapacityAssumption ==
    /\ Limit \in [{"critical", "best_effort"} -> Nat] /\ MinReplicas \in Nat /\ MaxReplicas \in Nat
    /\ MinReplicas <= MaxReplicas /\ MaxWork \in Nat /\ MaxRepeats \in Nat /\ MaxLines \in Nat
    /\ IsFiniteSet(Metrics)

VARIABLES
    inflight,       \* the controller's count of each lane
    working,        \* work that was admitted and has not ended, by lane
    repeats,        \* completions reported once too often
    replicas,
    lines,          \* the recorded metrics
    policies        \* history: what was trained of these lines

admissionVars == <<inflight, working, repeats>>
vars == <<admissionVars, replicas, lines, policies>>

Lanes == {"critical", "best_effort"}
Actions == {"increase_timeout", "increase_retries", "scale_up", "scale_down", "no_op"}

TypeOK ==
    /\ inflight \in [Lanes -> Nat] /\ working \in [Lanes -> Nat] /\ repeats \in 0..MaxRepeats
    /\ replicas \in Nat /\ lines \in [Metrics -> 0..MaxLines]
    /\ \A p \in policies : p.dominant \in Actions /\ p.timeout \in {5, 10} /\ p.retries \in {6, 10} /\ p.max \in {8, 12}

Init ==
    /\ inflight = [l \in Lanes |-> 0] /\ working = [l \in Lanes |-> 0] /\ repeats = 0
    /\ replicas = MinReplicas /\ lines = [m \in Metrics |-> 0] /\ policies = {}

-----------------------------------------------------------------------------
Admit(l) ==
    /\ inflight[l] < Limit[l] /\ working[l] < MaxWork
    /\ inflight' = [inflight EXCEPT ![l] = @ + 1] /\ working' = [working EXCEPT ![l] = @ + 1]
    /\ UNCHANGED <<repeats, replicas, lines, policies>>

(* Work ends and is reported once, or once more.  The count stops at 0.    *)
ReleasedOther(l) == [inflight EXCEPT !["best_effort"] = Max({0, @ - 1})] \* variant: one lane for all
Released(l) == [inflight EXCEPT ![l] = Max({0, @ - 1})]

Complete(l) ==
    /\ working[l] > 0 /\ working' = [working EXCEPT ![l] = @ - 1]
    /\ inflight' = Released(l)
    /\ UNCHANGED <<repeats, replicas, lines, policies>>

CompleteAgain(l) ==
    /\ repeats < MaxRepeats /\ repeats' = repeats + 1
    /\ inflight' = Released(l)
    /\ UNCHANGED <<working, replicas, lines, policies>>

(* The advice, and that it is followed.                                    *)
RecommendedLoose(backlog, load, empty) == \* variant: the bound is tested before the step
    IF backlog THEN IF replicas < MaxReplicas THEN replicas + 2 ELSE replicas
    ELSE IF load = "high" THEN Min({MaxReplicas, replicas + 1})
    ELSE IF load = "low" /\ empty THEN Max({MinReplicas, replicas - 1})
    ELSE replicas

Recommended(backlog, load, empty) ==
    IF backlog THEN Min({MaxReplicas, replicas + 2})
    ELSE IF load = "high" THEN Min({MaxReplicas, replicas + 1})
    ELSE IF load = "low" /\ empty THEN Max({MinReplicas, replicas - 1})
    ELSE replicas

Follow ==
    /\ \E backlog, empty \in BOOLEAN, load \in {"low", "middle", "high"} :
         /\ backlog => ~empty
         /\ replicas' = Recommended(backlog, load, empty)
    /\ UNCHANGED <<admissionVars, lines, policies>>

-----------------------------------------------------------------------------
(* The action a line of metrics calls for.                                 *)
ChooseAction(m) ==
    IF m.anomaly /\ m.errors THEN "increase_retries"
    ELSE IF m.anomaly /\ m.latency = "high" THEN "scale_up"
    ELSE IF m.load = "high" THEN "scale_up"
    ELSE IF m.load = "low" /\ ~m.restarts THEN "scale_down"
    ELSE IF m.latency \in {"high", "middle"} THEN "increase_timeout"
    ELSE "no_op"

(* The lines that were recorded, and those that call for an action.        *)
Lines == {n \in Metrics \X (1..MaxLines) : n[2] <= lines[n[1]]}
Count(a) == Cardinality({n \in Lines : ChooseAction(n[1]) = a})

(* The dominant action is the first of the most frequent ones in the order *)
(* of a Python set of strings, which differs from one process to the next. *)
DominantSeen == {a \in Actions : Count(a) > 0} \* variant: any action that was called for
Dominant == {a \in Actions : \A b \in Actions : Count(b) <= Count(a)}

Policy(a) ==
    [dominant |-> a,
     timeout |-> IF a \in {"increase_timeout", "increase_retries"} THEN 10 ELSE 5,
     retries |-> IF a = "increase_retries" THEN 10 ELSE 6,
     max |-> IF a = "scale_up" THEN 12 ELSE 8]

Measure(m) ==
    /\ Cardinality(Lines) < MaxLines /\ lines' = [lines EXCEPT ![m] = @ + 1] /\ policies' = {}
    /\ UNCHANGED <<admissionVars, replicas>>

(* Without a line there is no policy.                                      *)
Train ==
    /\ Lines # {} /\ \E a \in Dominant : policies' = policies \cup {Policy(a)}
    /\ UNCHANGED <<admissionVars, replicas, lines>>

Next ==
    \/ \E l \in Lanes : Admit(l) \/ Complete(l) \/ CompleteAgain(l)
    \/ Follow \/ Train \/ \E m \in Metrics : Measure(m)

Spec == Init /\ [][Next]_vars

-----------------------------------------------------------------------------
(* A lane is never fuller than its limit, however full the other is, but   *)
(* by as much as was reported too often.                                   *)
LanesWithinLimits ==
    \A l \in Lanes : working[l] <= inflight[l] + repeats /\ inflight[l] <= Limit[l] /\ inflight[l] <= working[l]

(* Advice that is followed from within the bounds never leaves them.       *)
ReplicasWithin == replicas \in MinReplicas..MaxReplicas

(* Two policies that were trained of the same metrics differ only if two   *)
(* actions were called for equally often, and a policy calls for something *)
(* at least one line called for.                                           *)
PolicyDetermined ==
    /\ \A p, q \in policies : p # q => Count(p.dominant) = Count(q.dominant)
    /\ \A p \in policies : Count(p.dominant) > 0

(* What an operator may rely on.                                           *)
CapacityInv == LanesWithinLimits /\ ReplicasWithin /\ PolicyDetermined
=============================================================================

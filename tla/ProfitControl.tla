---------------------------- MODULE ProfitControl ----------------------------
(***************************************************************************)
(* The profit loop (services/core, analytics): a run looks at a campaign's *)
(* economics, then reads its revenue and its cost, one after the other,    *)
(* and scales, pauses or leaves it; revenue and cost grow meanwhile.       *)
(* Money is in whole units and the threshold is a ratio of two of them.    *)
(***************************************************************************)
EXTENDS Integers, FiniteSets

CONSTANTS
    Above, Below,   \* ROI_THRESHOLD is Above / Below
    MaxMoney,
    None

ProfitAssumption == Above \in Nat \ {0} /\ Below \in Nat \ {0} /\ MaxMoney \in Nat

VARIABLES
    revenue, cost,  \* the campaign's, as the repository has them
    loop,           \* the run: where it is, and revenue and cost at the time it read the revenue
    killed,         \* PROFIT_GLOBAL_KILL_SWITCH
    cause           \* history: the call of the last run, with revenue and cost when the revenue was read and at the call

moneyVars == <<revenue, cost>>
vars == <<moneyVars, loop, killed, cause>>

Money == 0..MaxMoney
Idle == [step |-> "idle", read |-> [revenue |-> 0, cost |-> 0]]

TypeOK ==
    /\ revenue \in Money /\ cost \in Money /\ killed \in BOOLEAN
    /\ loop \in [step : {"idle", "snapshot", "revenue", "cost"}, read : [revenue : Money, cost : Money]]
    /\ cause # None => cause.call \in {"scale", "pause", "stop_loss"}

Init ==
    /\ revenue = 0 /\ cost = 0 /\ loop = Idle /\ killed = FALSE /\ cause = None

-----------------------------------------------------------------------------
(* run_once: the switch is looked at first, and only then.                 *)
Begin ==
    /\ loop.step = "idle" /\ ~killed
    /\ \E step \in {"snapshot", "revenue"} : \* with an economics provider, or without
         loop' = [Idle EXCEPT !.step = step]
    /\ cause' = None /\ UNCHANGED <<moneyVars, killed>>

Told(call) == cause' = [call |-> call, then |-> loop.read, now |-> [revenue |-> revenue, cost |-> cost]]

Call(call) == Told(call) /\ loop' = Idle

(* The stop loss: the snapshot is of one moment.                           *)
Snapshot ==
    /\ loop.step = "snapshot"
    /\ \/ revenue - cost < 0 /\ Call("stop_loss")
       \/ revenue - cost >= 0 /\ loop' = [loop EXCEPT !.step = "revenue"] /\ UNCHANGED cause
    /\ UNCHANGED <<moneyVars, killed>>

FetchRevenue ==
    /\ loop.step = "revenue" /\ loop' = [loop EXCEPT !.step = "cost", !.read = [revenue |-> revenue, cost |-> cost]]
    /\ UNCHANGED <<moneyVars, killed, cause>>

(* The cost is read and the ratio decides; without a cost it counts as 0.  *)
Decide(r, c) ==
    \/ c > 0 /\ r * Below >= Above * c /\ Call("scale")
    \/ (c = 0 \/ r = 0) /\ Call("pause")
    \/ c > 0 /\ r > 0 /\ r * Below < Above * c /\ loop' = Idle /\ UNCHANGED cause

FetchCostFirst == \* variant: the cost is read before the revenue
    /\ loop.step = "cost" /\ Decide(revenue, loop.read.cost)
    /\ UNCHANGED <<moneyVars, killed>>

FetchCost ==
    /\ loop.step = "cost" /\ Decide(loop.read.revenue, cost)
    /\ UNCHANGED <<moneyVars, killed>>

(* The world: money comes in and goes out, the switch is set.              *)
Earn == revenue < MaxMoney /\ revenue' = revenue + 1 /\ UNCHANGED <<cost, loop, killed, cause>>
Pay == cost < MaxMoney /\ cost' = cost + 1 /\ UNCHANGED <<revenue, loop, killed, cause>>
Kill == ~killed /\ killed' = TRUE /\ UNCHANGED <<moneyVars, loop, cause>>

Next ==
    \/ Begin \/ Snapshot \/ FetchRevenue \/ FetchCost
    \/ Earn \/ Pay \/ Kill

Spec == Init /\ [][Next]_vars

-----------------------------------------------------------------------------
Reached(m) == m.cost > 0 => m.revenue * Below >= Above * m.cost

(* A campaign is scaled only if its ratio reached the threshold at both    *)
(* reads: the revenue of the first with the cost of the second can only    *)
(* understate what is earned.                                              *)
ScaleDeserved == cause # None /\ cause.call = "scale" => Reached(cause.then) /\ Reached(cause.now)

(* It is paused for a loss, for having earned nothing when that was read,  *)
(* or for having cost nothing yet: a campaign that has just begun.         *)
PauseExplained ==
    /\ cause # None /\ cause.call = "stop_loss" => cause.now.revenue < cause.now.cost
    /\ cause # None /\ cause.call = "pause" => cause.then.revenue = 0 \/ cause.now.cost = 0

(* What an operator may rely on.                                           *)
ProfitInv == ScaleDeserved /\ PauseExplained
=============================================================================

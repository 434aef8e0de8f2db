--------------------------- MODULE RewardPipeline ---------------------------
(***************************************************************************)
(* What one affiliate conversion sets off, service by service:             *)
(*   affiliate-webhook  inserts a row, then posts the increment, then      *)
(*                      posts the reward; it is one async function of      *)
(*                      blocking calls, so one conversion at a time;       *)
(*   reward-collector   reads the features, posts the update, emits        *)
(*                      feedback;                                          *)
(*   rl-coordinator     posts the update to each agent in turn;            *)
(*   rl-engine          (an agent) loads its whole LinUCB state from       *)
(*                      Redis, changes it and stores it whole.             *)
(* A caller that times out goes on; the callee does too.  reward-collector *)
(* and rl-coordinator are a "call" here, one for each posted reward.       *)
(***************************************************************************)
EXTENDS Naturals, Sequences, FiniteSets

CONSTANTS
    Gains,          \* conversions with revenue >= 0.02 * clicks
    Losses,         \* ... with less, whose reward is negative
    NumAgents,      \* length of rl-coordinator's AGENTS
    Slots,          \* requests an agent handles at a time
    None,
    MaxDeliveries,  \* bound: conversions posted
    MaxSelects,     \* bound: /select requests
    MaxFaults       \* bound: calls that fail or time out

Agents == 1..NumAgents
Conversions == Gains \cup Losses

Bag == [Conversions -> Nat]
Delivery == [conv : Conversions, at : {"insert", "increment", "reward", "await"}]
Call == [conv : Conversions, at : {"features", "agents", "ok", "failed"},
         next : 1..NumAgents + 1, updated : SUBSET Agents]
(* A request of an agent after its load: call is the position of the call  *)
(* that waits for it, 0 once none does; conv is None for a /select.        *)
Request == [call : Nat, conv : Conversions \cup {None}, loaded : Bag, version : Nat]

PipelineAssumption ==
    /\ Gains \cap Losses = {}
    /\ None \notin Conversions \cup Delivery \cup Request
    /\ NumAgents \in Nat \ {0}
    /\ MaxDeliveries \in Nat /\ MaxSelects \in Nat /\ MaxFaults \in Nat

VARIABLES
    webhook,        \* the conversion being handled and the next step, or None
    deliveries,
    acked,          \* conversions answered {"ok": true}
    rows,           \* campaign_metrics rows of each conversion
    increments,     \* times each was added to the online features
    calls,          \* the posted rewards
    feedback,       \* feedback records of each conversion
    threads,        \* the requests each agent is handling
    learned,        \* the updates each agent's stored state contains
    version,        \* history: times each agent's state was stored
    selects, faults

webhookVars == <<webhook, deliveries, acked, rows, increments>>
agentVars == <<threads, learned, version, selects>>
vars == <<webhookVars, calls, feedback, agentVars, faults>>

TypeOK ==
    /\ webhook \in Delivery \cup {None}
    /\ deliveries \in 0..MaxDeliveries
    /\ acked \subseteq Conversions
    /\ rows \in Bag /\ increments \in Bag /\ feedback \in Bag
    /\ calls \in Seq(Call)
    /\ threads \in [Agents -> [Slots -> Request \cup {None}]]
    /\ \A a \in Agents, s \in Slots : threads[a][s] # None =>
          threads[a][s].call \in 0..Len(calls)
    /\ learned \in [Agents -> Bag] /\ version \in [Agents -> Nat]
    /\ selects \in 0..MaxSelects /\ faults \in 0..MaxFaults

Nothing == [c \in Conversions |-> 0]

Init ==
    /\ webhook = None /\ deliveries = 0 /\ acked = {}
    /\ rows = Nothing /\ increments = Nothing /\ feedback = Nothing
    /\ calls = <<>>
    /\ threads = [a \in Agents |-> [s \in Slots |-> None]]
    /\ learned = [a \in Agents |-> Nothing] /\ version = [a \in Agents |-> 0]
    /\ selects = 0 /\ faults = 0

Fault == faults < MaxFaults /\ faults' = faults + 1

One(bag, c) == [bag EXCEPT ![c] = @ + 1]

-----------------------------------------------------------------------------
(* affiliate-webhook: conversion.                                          *)
At(step) == webhook # None /\ webhook.at = step

Proceed(step) == webhook' = [webhook EXCEPT !.at = step]

Deliver(c) ==
    /\ webhook = None
    /\ deliveries < MaxDeliveries
    /\ deliveries' = deliveries + 1
    /\ webhook' = [conv |-> c, at |-> "insert"]
    /\ UNCHANGED <<acked, rows, increments, calls, feedback, agentVars, faults>>

InsertRow ==
    /\ At("insert")
    /\ rows' = One(rows, webhook.conv)
    /\ Proceed("increment")
    /\ UNCHANGED <<deliveries, acked, increments, calls, feedback, agentVars, faults>>

Increment ==
    /\ At("increment")
    /\ increments' = One(increments, webhook.conv)
    /\ Proceed("reward")
    /\ UNCHANGED <<deliveries, acked, rows, calls, feedback, agentVars, faults>>

PostReward ==
    /\ At("reward")
    /\ calls' = Append(calls, [conv |-> webhook.conv, at |-> "features",
                               next |-> 1, updated |-> {}])
    /\ Proceed("await")
    /\ UNCHANGED <<deliveries, acked, rows, increments, feedback, agentVars, faults>>

Awaited == calls[Len(calls)]

AwaitAnything == Awaited.at \in {"ok", "failed"} \* variant: no raise_for_status

AwaitOk == Awaited.at = "ok"

Answered ==
    /\ At("await") /\ AwaitOk
    /\ acked' = acked \cup {webhook.conv}
    /\ webhook' = None
    /\ UNCHANGED <<deliveries, rows, increments, calls, feedback, agentVars, faults>>

(* The reward was refused: 502, the row and the increment stay.            *)
Refused ==
    /\ At("await") /\ Awaited.at = "failed"
    /\ webhook' = None
    /\ UNCHANGED <<deliveries, acked, rows, increments, calls, feedback, agentVars, faults>>

(* A call of the handler fails or times out: 500 or 502.  What it asked    *)
(* for may have been done.                                                 *)
Fail ==
    /\ webhook # None
    /\ Fault
    /\ webhook' = None
    /\ \/ At("insert") /\ rows' = One(rows, webhook.conv) /\ UNCHANGED increments
       \/ At("increment") /\ increments' = One(increments, webhook.conv) /\ UNCHANGED rows
       \/ UNCHANGED <<rows, increments>>
    /\ UNCHANGED <<deliveries, acked, calls, feedback, agentVars>>

-----------------------------------------------------------------------------
(* reward-collector: reward, and rl-coordinator: update.                   *)
AcceptedAlways(c) == TRUE \* variant: UpdateRequest.reward without ge=0

Accepted(c) == c \in Gains

(* A request of agent a that call n waits for.                             *)
Holds(a, s, n) == threads[a][s] # None /\ threads[a][s].call = n

(* The features are read and the update posted; rl-coordinator refuses a   *)
(* negative reward (422), and the call is answered 502.                    *)
Fetch(n) ==
    /\ calls[n].at = "features"
    /\ calls' = [calls EXCEPT ![n].at = IF Accepted(calls[n].conv) THEN "agents" ELSE "failed"]
    /\ UNCHANGED <<webhookVars, feedback, agentVars, faults>>

(* The features cannot be had, or one of the two services dies; a request  *)
(* an agent has by then goes on by itself.                                 *)
CallFails(n) ==
    /\ calls[n].at \in {"features", "agents"}
    /\ Fault
    /\ calls' = [calls EXCEPT ![n].at = "failed"]
    /\ threads' = [a \in Agents |-> [s \in Slots |->
          IF Holds(a, s, n) THEN [threads[a][s] EXCEPT !.call = 0] ELSE threads[a][s]]]
    /\ UNCHANGED <<webhookVars, feedback, learned, version, selects>>

Waiting(n, a) == \E s \in Slots : Holds(a, s, n)

(* The next agent of the loop, when none is being waited for.              *)
Turn(n, a) == calls[n].at = "agents" /\ calls[n].next = a

LoadForUpdate(a, c) == \* variant: select starts from an empty agent
    IF c = None THEN Nothing ELSE learned[a]

LoadState(a, c) == learned[a]

Loaded(a, n, c) ==
    \E s \in Slots :
        /\ threads[a][s] = None
        /\ threads' = [threads EXCEPT ![a][s] =
              [call |-> n, conv |-> c, version |-> version[a],
               loaded |-> LoadState(a, c)]]
        /\ UNCHANGED <<learned, version>>

(* The update reaches agent a, which loads its state.                      *)
PostAgent(n, a) ==
    /\ Turn(n, a) /\ ~Waiting(n, a)
    /\ Loaded(a, n, calls[n].conv)
    /\ UNCHANGED <<webhookVars, calls, feedback, selects, faults>>

AgentFailsSkipping(n, a) == \* variant: the failed agent is dropped from the list iterated over
    /\ Turn(n, a) /\ ~Waiting(n, a)
    /\ Fault
    /\ calls' = [calls EXCEPT ![n].next = a + 2]
    /\ UNCHANGED <<webhookVars, feedback, agentVars>>

(* Agent a is down, or answers an error: on to the next one.               *)
AgentFails(n, a) ==
    /\ Turn(n, a) /\ ~Waiting(n, a)
    /\ Fault
    /\ calls' = [calls EXCEPT ![n].next = a + 1]
    /\ UNCHANGED <<webhookVars, feedback, agentVars>>

AgentTimeoutRetried(n, a) == \* variant: a timeout is retried
    /\ Turn(n, a)
    /\ Fault
    /\ \E s \in Slots :
          /\ Holds(a, s, n)
          /\ threads' = [threads EXCEPT ![a][s].call = 0]
    /\ UNCHANGED <<webhookVars, calls, feedback, learned, version, selects>>

(* Agent a does not answer in time: on to the next one, and the request    *)
(* goes on by itself.                                                      *)
AgentTimeout(n, a) ==
    /\ Turn(n, a)
    /\ Fault
    /\ \E s \in Slots :
          /\ Holds(a, s, n)
          /\ threads' = [threads EXCEPT ![a][s].call = 0]
    /\ calls' = [calls EXCEPT ![n].next = a + 1]
    /\ UNCHANGED <<webhookVars, feedback, learned, version, selects>>

(* Every agent was tried: ok if one was updated.  The feedback record is   *)
(* produced if the broker lets it be.                                      *)
Finished(n) ==
    /\ calls[n].at = "agents" /\ calls[n].next = NumAgents + 1
    /\ calls' = [calls EXCEPT ![n].at = IF calls[n].updated = {} THEN "failed" ELSE "ok"]
    /\ \/ calls[n].updated # {} /\ feedback' = One(feedback, calls[n].conv)
       \/ UNCHANGED feedback
    /\ UNCHANGED <<webhookVars, agentVars, faults>>

-----------------------------------------------------------------------------
(* rl-engine: select and update.                                           *)
Select(a) ==
    /\ selects < MaxSelects
    /\ selects' = selects + 1
    /\ Loaded(a, 0, None)
    /\ UNCHANGED <<webhookVars, calls, feedback, faults>>

(* persist_agent: the whole state, as this request has it, and the answer. *)
Persist(a, s) ==
    LET r == threads[a][s] IN
    /\ r # None
    /\ learned' = [learned EXCEPT ![a] = IF r.conv = None THEN r.loaded
                                         ELSE One(r.loaded, r.conv)]
    /\ version' = [version EXCEPT ![a] = @ + 1]
    /\ threads' = [threads EXCEPT ![a][s] = None]
    /\ calls' = IF r.call = 0 THEN calls
                ELSE [calls EXCEPT ![r.call].next = a + 1, ![r.call].updated = @ \cup {a}]
    /\ UNCHANGED <<webhookVars, feedback, selects, faults>>

(* Redis or the agent fails: the state is not stored.                      *)
PersistFails(a, s) ==
    LET r == threads[a][s] IN
    /\ r # None
    /\ Fault
    /\ threads' = [threads EXCEPT ![a][s] = None]
    /\ calls' = IF r.call = 0 THEN calls ELSE [calls EXCEPT ![r.call].next = a + 1]
    /\ UNCHANGED <<webhookVars, feedback, learned, version, selects>>

-----------------------------------------------------------------------------
CallStep(n) ==
    \/ Fetch(n) \/ CallFails(n) \/ Finished(n)
    \/ \E a \in Agents : PostAgent(n, a) \/ AgentFails(n, a) \/ AgentTimeout(n, a)

Next ==
    \/ \E c \in Conversions : Deliver(c)
    \/ InsertRow \/ Increment \/ PostReward \/ Answered \/ Refused \/ Fail
    \/ \E n \in DOMAIN calls : CallStep(n)
    \/ \E a \in Agents : Select(a) \/ \E s \in Slots : Persist(a, s) \/ PersistFails(a, s)

Spec == Init /\ [][Next]_vars

-----------------------------------------------------------------------------
Updates(c) == {n \in DOMAIN calls : calls[n].conv = c /\ calls[n].updated # {}}

(* A partner that is answered ok has its conversion in campaign_metrics,   *)
(* in the online features and in a state some agent stored.                *)
AckedEverywhere ==
    \A c \in acked : rows[c] > 0 /\ increments[c] > 0 /\ Updates(c) # {}

(* The steps of a delivery are taken in order and once: whatever failed    *)
(* where, no service has seen a conversion more often than the one before. *)
StepsInOrder ==
    \A c \in Conversions :
        /\ increments[c] <= rows[c]
        /\ Cardinality({n \in DOMAIN calls : calls[n].conv = c}) <= increments[c]
        /\ feedback[c] <= Cardinality(Updates(c))
        /\ \A a \in Agents : learned[a][c]
              <= Cardinality({n \in DOMAIN calls : calls[n].conv = c})

(* A conversion at a loss is recorded and counted at every delivery, but   *)
(* never acknowledged nor learned from: reward-collector sends a negative  *)
(* reward, which rl-coordinator's UpdateRequest (main.py:26) refuses.      *)
LossNeverAccepted ==
    \A c \in Losses : c \notin acked /\ \A a \in Agents : learned[a][c] = 0

(* What one delivery after another leaves in the four services.            *)
PipelineInv == TypeOK /\ AckedEverywhere /\ StepsInOrder /\ LossNeverAccepted

(* An agent forgets an update only when two of its requests overlap: the   *)
(* one that stores had loaded before another one stored.                   *)
ForgetsOnlyOnOverlap ==
    [][\A a \in Agents, s \in Slots, c \in Conversions :
          /\ learned'[a][c] < learned[a][c]
          /\ threads[a][s] # None /\ threads'[a][s] = None
          => threads[a][s].version # version[a]]_vars
=============================================================================

-------------------------- MODULE CampaignFeatures --------------------------
(***************************************************************************)
(* The online features of a campaign, the Redis hash                       *)
(* campaign:{id}:features, and its two writers: the endpoints of           *)
(* services/feature-store, which load the hash, compute and save all of    *)
(* it, and services/stream-consumer, which counts one Kafka event under    *)
(* WATCH/MULTI, inserts a row of metrics and commits the offset.           *)
(*                                                                         *)
(* views, clicks and conv move alike and stand here as one count; of the   *)
(* other fields, max_budget and daily_cap are the ones with a rule.  A     *)
(* field the hash does not have reads as its default.                      *)
(***************************************************************************)
EXTENDS Naturals, Sequences

CONSTANTS
    Campaigns,
    Amounts,        \* values of max_budget and daily_cap
    Default,        \* the default of both
    Invalid,        \* an event that is not JSON, or not a CampaignEvent
    Undecodable,    \* an event that is not UTF-8
    Missing,        \* JSON null: a limit that is not given; also "nothing loaded"
    Handlers,       \* POST /features/{campaign_id} requests being handled
    Requests,       \* the FeatureUpdates they send
    MaxUpdates,     \* bound: requests of feature-store that write
    MaxEvents,      \* bound: events on the topic
    MaxFailures     \* bound: failing calls and crashes

ASSUME FeaturesAssumption ==
    /\ Amounts \subseteq Nat /\ Default \in Amounts
    /\ Missing \notin Nat
    /\ Invalid \notin Campaigns /\ Undecodable \notin Campaigns \cup {Invalid}
    /\ Requests \subseteq [mode : {"increment", "replace"}, count : Nat,
                            max : Amounts \cup {Missing}, cap : Amounts \cup {Missing}]
    /\ MaxUpdates \in Nat /\ MaxEvents \in Nat /\ MaxFailures \in Nat

VARIABLES
    stored,     \* the hash of each campaign
    handlers,   \* what each request has loaded, and its FeatureUpdate
    updates,    \* requests so far
    events,     \* topic events, one partition
    position,   \* events the consumer has polled
    committed,  \* ... and the offset Kafka keeps for the group
    step,       \* where the consumer is in handling event number position
    copy,       \* the count it read
    dirty,      \* the watched key was written since WATCH
    counted,    \* history: the times each event was counted in the hash
    metricRows, \* ... and the rows of campaign_metrics it made
    failed,     \* ... and the events whose handling raised
    failures

storeVars == <<handlers, updates>>
topicVars == <<events, position, committed>>
historyVars == <<counted, metricRows, failed>>
featureVars == <<stored, storeVars, topicVars, step, copy, dirty, historyVars, failures>>

Features == [count : Nat, max : Amounts, cap : Amounts]
Event == Campaigns \cup {Invalid, Undecodable}

StoreTypeOK ==
    /\ stored \in [Campaigns -> Features]
    /\ handlers \in [Handlers -> [campaign : Campaigns, loaded : Features, update : Requests]
                                   \cup {Missing}]
    /\ updates \in 0..MaxUpdates

AtWork == {"watch", "read", "execute", "persist", "commit"}

ConsumerTypeOK ==
    /\ events \in Seq(Event) /\ Len(events) <= MaxEvents
    /\ position \in 0..Len(events) /\ committed \in 0..position
    /\ step \in AtWork \cup {"poll", "down"}
    /\ step \in AtWork => position > committed /\ events[position] \in Campaigns
    /\ copy \in Nat
    /\ counted \in [1..MaxEvents -> Nat] /\ metricRows \in [1..MaxEvents -> Nat]
    /\ failed \subseteq 1..position
    /\ failures \in 0..MaxFailures

FeaturesTypeOK == StoreTypeOK /\ ConsumerTypeOK /\ dirty \in BOOLEAN

FeaturesInit ==
    /\ stored = [c \in Campaigns |-> [count |-> 0, max |-> Default, cap |-> Default]]
    /\ handlers = [h \in Handlers |-> Missing] /\ updates = 0
    /\ events = <<>> /\ position = 0 /\ committed = 0
    /\ step = "poll" /\ copy = 0 /\ dirty = FALSE
    /\ counted = [i \in 1..MaxEvents |-> 0] /\ metricRows = [i \in 1..MaxEvents |-> 0]
    /\ failed = {} /\ failures = 0

Failure == failures < MaxFailures /\ failures' = failures + 1

Current == events[position]

(* A write of another connection: it spoils the consumer's WATCH.          *)
Write(c, f) ==
    /\ stored' = [stored EXCEPT ![c] = f]
    /\ dirty' = (dirty \/ (step \in {"read", "execute"} /\ Current = c))

-----------------------------------------------------------------------------
(* feature-store: update_features.                                         *)
Load(h, c, u) ==
    /\ handlers[h] = Missing
    /\ updates < MaxUpdates
    /\ updates' = updates + 1
    /\ handlers' = [handlers EXCEPT ![h] = [campaign |-> c, loaded |-> stored[c], update |-> u]]
    /\ UNCHANGED <<stored, topicVars, step, copy, dirty, historyVars, failures>>

Given(value, otherwise) == IF value = Missing THEN otherwise ELSE value

Updated(f, u) ==
    [count |-> IF u.mode = "increment" THEN f.count + u.count ELSE u.count,
     max |-> Given(u.max, f.max),
     cap |-> Given(u.cap, f.cap)]

(* CampaignFeatures' validator.                                            *)
Valid(f) == f.cap <= f.max

SavedGiven(h) == \* variant: only the fields of the request are written
    Updated(stored[handlers[h].campaign], handlers[h].update)

Saved(h) == Updated(handlers[h].loaded, handlers[h].update)

Release(h) ==
    /\ handlers' = [handlers EXCEPT ![h] = Missing]
    /\ UNCHANGED <<updates, topicVars, step, copy, historyVars>>

Save(h) ==
    /\ handlers[h] # Missing
    /\ Valid(Updated(handlers[h].loaded, handlers[h].update))
    /\ Write(handlers[h].campaign, Saved(h))
    /\ Release(h)
    /\ UNCHANGED failures

(* The updated features are not valid (500), or Redis fails (503).         *)
SaveRefused(h) ==
    /\ handlers[h] # Missing
    /\ \/ ~Valid(Updated(handlers[h].loaded, handlers[h].update)) /\ UNCHANGED failures
       \/ Failure
    /\ Release(h)
    /\ UNCHANGED <<stored, dirty>>

(* Both PUTs: valid features replace what is stored, one campaign after    *)
(* the other; a failure half way leaves the ones already written.          *)
Put(c, f) ==
    /\ updates < MaxUpdates
    /\ updates' = updates + 1
    /\ Valid(f)
    /\ Write(c, f)
    /\ UNCHANGED <<handlers, topicVars, step, copy, historyVars, failures>>

-----------------------------------------------------------------------------
(* stream-consumer.                                                        *)
Publish(e) ==
    /\ Len(events) < MaxEvents
    /\ events' = Append(events, e)
    /\ UNCHANGED <<stored, storeVars, position, committed, step, copy, dirty,
                   historyVars, failures>>

Advance(from, to) ==
    /\ step = from /\ step' = to
    /\ UNCHANGED <<storeVars, events>>

Polled(to) ==
    /\ position < Len(events)
    /\ position' = position + 1
    /\ Advance("poll", to)
    /\ UNCHANGED <<stored, copy, dirty, counted, metricRows, failures>>

Decoding(e) == CASE e \in Campaigns -> "watch" [] e = Invalid -> "poll" [] OTHER -> "down"

Failing(e) == failed' = IF e = Invalid THEN failed \cup {position + 1} ELSE failed

PollUnvalidated == \* variant: CampaignEvent is not validated
    LET e == events[position + 1] IN
    Polled(IF e = Invalid THEN "watch" ELSE Decoding(e)) /\ Failing(e) /\ UNCHANGED committed

PollCommitting == \* variant: enable.auto.commit
    LET e == events[position + 1] IN
    Polled(Decoding(e)) /\ Failing(e) /\ committed' = position + 1

PollTolerant == \* variant: UnicodeDecodeError is caught too
    LET e == events[position + 1] IN
    Polled(IF e = Undecodable THEN "poll" ELSE Decoding(e)) /\ Failing(e) /\ UNCHANGED committed

(* enable.auto.commit is off: polling does not move the group's offset.    *)
Poll ==
    LET e == events[position + 1] IN
    Polled(Decoding(e)) /\ Failing(e) /\ UNCHANGED committed

StartWatch ==
    /\ Advance("watch", "read")
    /\ dirty' = FALSE
    /\ UNCHANGED <<stored, position, committed, copy, historyVars, failures>>

Read ==
    /\ Advance("read", "execute")
    /\ copy' = stored[Current].count
    /\ UNCHANGED <<stored, position, committed, dirty, historyVars, failures>>

Count ==
    /\ stored' = [stored EXCEPT ![Current].count = copy + 1]
    /\ counted' = [counted EXCEPT ![position] = @ + 1]

ExecuteUnwatched == \* variant: no WATCH
    /\ Advance("execute", "persist")
    /\ Count
    /\ UNCHANGED <<position, committed, copy, dirty, metricRows, failed, failures>>

ExecuteGoOn == \* variant: the loop is not left after the transaction
    /\ ~dirty
    /\ Advance("execute", "watch")
    /\ Count
    /\ UNCHANGED <<position, committed, copy, dirty, metricRows, failed, failures>>

Execute ==
    /\ ~dirty
    /\ Advance("execute", "persist")
    /\ Count
    /\ UNCHANGED <<position, committed, copy, dirty, metricRows, failed, failures>>

ConflictGivesUp == \* variant: a conflict leaves the event uncounted
    /\ dirty
    /\ Advance("execute", "poll")
    /\ UNCHANGED <<stored, position, committed, copy, dirty, historyVars, failures>>

(* WatchError: again from WATCH.                                           *)
Conflict ==
    /\ dirty
    /\ Advance("execute", "watch")
    /\ UNCHANGED <<stored, position, committed, copy, dirty, historyVars, failures>>

InsertMetrics == metricRows' = [metricRows EXCEPT ![position] = @ + 1]

PersistMetrics ==
    /\ Advance("persist", "commit")
    /\ InsertMetrics
    /\ UNCHANGED <<stored, position, committed, copy, dirty, counted, failed, failures>>

Commit ==
    /\ Advance("commit", "poll")
    /\ committed' = position
    /\ UNCHANGED <<stored, position, copy, dirty, historyVars, failures>>

RetryEvent == step' = "watch" \* variant: the event is handled again

GoOn == step' = "poll"

(* A call to Redis or PostgreSQL raised, having taken effect or not: the   *)
(* failure is logged and the loop goes on to the next event.               *)
Raise ==
    /\ Failure
    /\ \/ step \in {"watch", "read", "execute"} /\ UNCHANGED <<stored, counted, metricRows>>
       \/ step = "execute" /\ ~dirty /\ Count /\ UNCHANGED metricRows
       \/ step = "persist" /\ (InsertMetrics \/ UNCHANGED metricRows) /\ UNCHANGED <<stored, counted>>
    /\ GoOn
    /\ failed' = failed \cup {position}
    /\ UNCHANGED <<storeVars, topicVars, copy, dirty>>

(* The process dies, is stopped, or commit raises KafkaException, which    *)
(* the loop does not catch.                                                *)
Crash ==
    /\ step # "down"
    /\ Failure
    /\ step' = "down"
    /\ UNCHANGED <<stored, storeVars, topicVars, copy, dirty, historyVars>>

Restart ==
    /\ Advance("down", "poll")
    /\ position' = committed
    /\ failed' = failed \cap 1..committed
    /\ UNCHANGED <<stored, committed, copy, dirty, counted, metricRows, failures>>

-----------------------------------------------------------------------------
Store ==
    \/ \E h \in Handlers : Save(h) \/ SaveRefused(h) \/ \E c \in Campaigns, u \in Requests : Load(h, c, u)
    \/ \E c \in Campaigns, m \in Amounts, d \in Amounts :
          Put(c, [count |-> 0, max |-> m, cap |-> d])

Consumer == Poll \/ StartWatch \/ Read \/ Execute \/ Conflict \/ PersistMetrics \/ Commit \/ Restart

FeaturesNext == Store \/ (\E e \in Event : Publish(e)) \/ Consumer \/ Raise \/ Crash

FeaturesSpec == FeaturesInit /\ [][FeaturesNext]_featureVars

(* The consumer runs, and docker-compose.yml restarts it (restart: always).*)
FairSpec == FeaturesSpec /\ WF_featureVars(Consumer)

-----------------------------------------------------------------------------
(* What is stored can be loaded: a hash whose daily_cap exceeds its        *)
(* max_budget would make every later GET and POST of the campaign raise.   *)
(* Requests that each saw a valid hash may be saved in any order, and the  *)
(* hash is valid still, since a save writes one validated record whole.    *)
StoredLoads == \A c \in Campaigns : Valid(stored[c])

(* Counting an event adds one to what the hash holds at that moment, and   *)
(* changes nothing else of it: the consumer never undoes another write;    *)
(* and an event that failed is neither counted nor given a row later.      *)
CountingAddsOne ==
    [][\A i \in 1..MaxEvents :
         /\ counted'[i] # counted[i] => stored' = [stored EXCEPT ![events[i]].count = @ + 1]
         /\ i \in failed => counted'[i] = counted[i] /\ metricRows'[i] = metricRows[i]]_featureVars

(* An event the group will not see again was counted and has its row, or   *)
(* its handling raised.                                                    *)
CommittedIsHandled ==
    \A i \in 1..committed : (counted[i] > 0 /\ metricRows[i] > 0) \/ i \in failed

(* An event is counted more than once only after failures, one each, and   *)
(* has no more rows than it was counted.                                   *)
CountedOncePerRun ==
    \A i \in 1..MaxEvents : counted[i] <= 1 + failures /\ metricRows[i] <= counted[i]

(* A record that is not UTF-8 is fetched again at every restart: nothing   *)
(* behind it is ever handled.                                              *)
UndecodableBlocks ==
    \A i \in DOMAIN events : events[i] = Undecodable =>
        \A k \in i..MaxEvents : counted[k] = 0

(* What the store, the consumer and its group offset keep between them.    *)
FeaturesInv ==
    FeaturesTypeOK /\ StoredLoads /\ CommittedIsHandled /\ CountedOncePerRun /\ UndecodableBlocks

(* Every event with no such record before it is eventually handled, once   *)
(* writes to its campaign let a transaction through and calls succeed.     *)
EventHandled ==
    \A i \in 1..MaxEvents :
        (i <= Len(events) /\ \A k \in 1..i : events[k] # Undecodable)
          ~> (counted[i] > 0 /\ metricRows[i] > 0) \/ i \in failed

-----------------------------------------------------------------------------
(* Requests for TLC: counting, resetting, lowering both limits, and each    *)
(* limit by itself.                                                        *)
Asked ==
    LET update(mode, count, max, cap) == [mode |-> mode, count |-> count, max |-> max, cap |-> cap]
    IN { update("increment", 1, Missing, Missing), update("replace", 0, Missing, Missing),
         update("increment", 0, 1, 1), update("increment", 0, Missing, 2),
         update("increment", 0, 1, Missing) }
=============================================================================

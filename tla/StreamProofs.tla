---------------------------- MODULE StreamProofs ----------------------------
(* Theorems about the handlers of conversions and of campaign events:      *)
(* RewardPipeline, for any conversions, agents and requests an agent       *)
(* handles at a time, and any number of deliveries and faults; and         *)
(* CampaignFeatures, for any campaigns, limits, requests, events and       *)
(* failures.                                                               *)
EXTENDS RewardPipeline, CampaignFeatures, FiniteSetTheorems, SequenceTheorems, TLAPS

USE DEF PipelineAssumption

(* The rewards posted for c, those that ended ok, and those agent a may    *)
(* have been posted an update of, or never will be.                        *)
Calls(c) == {n \in DOMAIN calls : calls[n].conv = c}
Done(c) == {n \in Calls(c) : calls[n].at = "ok"}
Reached(a, c) ==
    {n \in Calls(c) : calls[n].at = "failed" \/ calls[n].next > a \/ Waiting(n, a)}

(* What a request stores when it ends well.                                *)
Stores(r) == IF r.conv = None THEN r.loaded ELSE One(r.loaded, r.conv)

(* The step a delivery is at says how far its conversion has come.         *)
DeliverySound ==
    /\ At("increment") => increments[webhook.conv] < rows[webhook.conv]
    /\ At("reward") => Cardinality(Calls(webhook.conv)) < increments[webhook.conv]
    /\ At("await") => Len(calls) > 0 /\ Awaited.conv = webhook.conv

(* A service is never ahead of the one before it.                          *)
InOrder ==
    \A c \in Conversions :
        increments[c] <= rows[c] /\ Cardinality(Calls(c)) <= increments[c]

CallsSound ==
    \A n \in DOMAIN calls :
        /\ calls[n].at \in {"agents", "ok"} => calls[n].conv \in Gains
        /\ calls[n].at = "ok" => calls[n].updated # {}

(* Each feedback record has a call of its own that ended ok.               *)
FeedbackPaid == \A c \in Conversions : feedback[c] <= Cardinality(Done(c))

(* A request is at most as new as the agent's state and, when it is as     *)
(* new, equal to it; the call that waits for one is at its agent, and      *)
(* waits for that one only.                                                *)
RequestsSound ==
    \A a \in Agents, s \in Slots : threads[a][s] # None =>
        /\ threads[a][s].conv \notin Losses
        /\ threads[a][s].version <= version[a]
        /\ threads[a][s].version = version[a] => threads[a][s].loaded = learned[a]
        /\ threads[a][s].call # 0 =>
              /\ Turn(threads[a][s].call, a)
              /\ \A t \in Slots : Holds(a, t, threads[a][s].call) => t = s

(* No copy of agent a's state, stored or about to be, contains more        *)
(* updates of c than calls have reached a with.                            *)
CopiesPaid ==
    \A a \in Agents, c \in Conversions :
        /\ learned[a][c] <= Cardinality(Reached(a, c))
        /\ \A s \in Slots : threads[a][s] # None =>
              Stores(threads[a][s])[c] <= Cardinality(Reached(a, c))

(* No copy contains an update of a conversion at a loss.                   *)
LossFree ==
    \A a \in Agents, c \in Losses :
        /\ learned[a][c] = 0
        /\ \A s \in Slots : threads[a][s] # None => threads[a][s].loaded[c] = 0

LossUnacked == acked \cap Losses = {}

DeliverySide == AckedEverywhere /\ DeliverySound /\ InOrder /\ LossUnacked
AgentSide == CallsSound /\ FeedbackPaid /\ RequestsSound /\ CopiesPaid /\ LossFree

IInv == TypeOK /\ DeliverySide /\ AgentSide

-----------------------------------------------------------------------------
(* Counting.                                                               *)
LEMMA Counted ==
    ASSUME NEW T, IsFiniteSet(T), NEW S, S \subseteq T
    PROVE  /\ IsFiniteSet(S) /\ Cardinality(S) \in Nat /\ Cardinality(T) \in Nat
           /\ Cardinality(S) <= Cardinality(T)
BY FS_Subset, FS_CardinalityType

LEMMA OneMore ==
    ASSUME NEW T, IsFiniteSet(T), NEW S, S \subseteq T, NEW n \in T, n \notin S
    PROVE  Cardinality(S) \in Nat /\ Cardinality(T) \in Nat /\ Cardinality(S) + 1 <= Cardinality(T)
<1>1. IsFiniteSet(S) /\ Cardinality(S) \in Nat /\ Cardinality(T) \in Nat
  BY Counted
<1>2. Cardinality(S \cup {n}) = Cardinality(S) + 1
  BY <1>1, FS_AddElement
<1>3. Cardinality(S \cup {n}) <= Cardinality(T)
  <2>1. S \cup {n} \subseteq T
    OBVIOUS
  <2> QED
    BY <2>1, Counted
<1> QED
  BY <1>1, <1>2, <1>3

LEMMA Positions ==
    ASSUME PipelineAssumption, NEW q \in Seq(Call)
    PROVE  IsFiniteSet(DOMAIN q) /\ DOMAIN q = 1..Len(q) /\ Len(q) \in Nat
<1>1. DOMAIN q = 1..Len(q) /\ Len(q) \in Nat
  OBVIOUS
<1>2. IsFiniteSet(1..Len(q))
  BY <1>1, FS_Interval
<1> QED
  BY <1>1, <1>2

LEMMA OneCount ==
    ASSUME NEW bag \in Bag, NEW c \in Conversions
    PROVE  /\ One(bag, c) \in Bag
           /\ \A d \in Conversions : One(bag, c)[d] = IF d = c THEN bag[d] + 1 ELSE bag[d]
BY DEF Bag, One

(* The sets counted are sets of calls.                                     *)
LEMMA CallSets ==
    ASSUME PipelineAssumption, TypeOK, NEW a, NEW c
    PROVE  /\ IsFiniteSet(Calls(c)) /\ Cardinality(Calls(c)) \in Nat
           /\ IsFiniteSet(Done(c)) /\ Cardinality(Done(c)) \in Nat
           /\ IsFiniteSet(Updates(c)) /\ Cardinality(Updates(c)) \in Nat
           /\ Cardinality(Reached(a, c)) \in Nat
           /\ Cardinality(Reached(a, c)) <= Cardinality(Calls(c))
<1>1. IsFiniteSet(DOMAIN calls)
  BY Positions DEF TypeOK
<1>2. Calls(c) \subseteq DOMAIN calls /\ Updates(c) \subseteq DOMAIN calls
  BY DEF Calls, Updates
<1>3. /\ IsFiniteSet(Calls(c)) /\ Cardinality(Calls(c)) \in Nat
      /\ IsFiniteSet(Updates(c)) /\ Cardinality(Updates(c)) \in Nat
  BY <1>1, <1>2, Counted
<1>4. Done(c) \subseteq Calls(c) /\ Reached(a, c) \subseteq Calls(c)
  BY DEF Done, Reached
<1> QED
  BY <1>3, <1>4, Counted

(* What the run checks follows from the invariant.                         *)
LEMMA InvImplies == ASSUME PipelineAssumption PROVE IInv => PipelineInv
<1> SUFFICES ASSUME IInv PROVE PipelineInv
  OBVIOUS
<1>0. TypeOK /\ DeliverySide /\ AgentSide
  BY DEF IInv
<1>1. ASSUME NEW c \in Conversions
      PROVE  /\ increments[c] <= rows[c]
             /\ Cardinality(Calls(c)) <= increments[c]
             /\ feedback[c] <= Cardinality(Updates(c))
             /\ \A a \in Agents : learned[a][c] <= Cardinality(Calls(c))
  <2>1. increments[c] <= rows[c] /\ Cardinality(Calls(c)) <= increments[c]
    BY <1>0 DEF DeliverySide, InOrder
  <2>2. feedback[c] <= Cardinality(Updates(c))
    <3>1. Done(c) \subseteq Updates(c)
      BY <1>0 DEF Done, Calls, Updates, AgentSide, CallsSound
    <3>2. Cardinality(Done(c)) <= Cardinality(Updates(c))
      BY <1>0, <3>1, CallSets, Counted
    <3>3. feedback[c] \in Nat /\ feedback[c] <= Cardinality(Done(c))
      BY <1>0 DEF AgentSide, FeedbackPaid, TypeOK, Bag
    <3>4. Cardinality(Done(c)) \in Nat /\ Cardinality(Updates(c)) \in Nat
      BY <1>0, CallSets
    <3> QED
      BY <3>2, <3>3, <3>4
  <2>3. ASSUME NEW a \in Agents PROVE learned[a][c] <= Cardinality(Calls(c))
    <3>1. learned[a][c] \in Nat /\ learned[a][c] <= Cardinality(Reached(a, c))
      BY <1>0 DEF AgentSide, CopiesPaid, TypeOK, Bag
    <3> QED
      BY <1>0, <3>1, CallSets
  <2> QED
    BY <2>1, <2>2, <2>3
<1>2. StepsInOrder
  BY <1>1 DEF StepsInOrder, Calls
<1>3. LossNeverAccepted
  BY <1>0 DEF AgentSide, LossFree, DeliverySide, LossUnacked, LossNeverAccepted
<1> QED
  BY <1>0, <1>2, <1>3 DEF PipelineInv, DeliverySide

LEMMA InvInit == ASSUME PipelineAssumption PROVE Init => IInv
<1> SUFFICES ASSUME Init PROVE IInv
  OBVIOUS
<1>1. TypeOK
  BY DEF Init, TypeOK, Bag, Nothing
<1>2. \A c, a : Calls(c) = {} /\ Done(c) = {} /\ Reached(a, c) = {}
  BY DEF Init, Calls, Done, Reached
<1>3. \A c, a : Cardinality(Calls(c)) = 0 /\ Cardinality(Done(c)) = 0 /\ Cardinality(Reached(a, c)) = 0
  BY <1>2, FS_EmptySet
<1>4. /\ \A c \in Conversions : rows[c] = 0 /\ increments[c] = 0 /\ feedback[c] = 0
      /\ \A a \in Agents, c \in Conversions : learned[a][c] = 0
      /\ \A a \in Agents, s \in Slots : threads[a][s] = None
      /\ ~At("increment") /\ ~At("reward") /\ ~At("await")
      /\ acked = {} /\ DOMAIN calls = {}
  BY DEF Init, Nothing, At
<1>5. DeliverySide
  BY <1>3, <1>4 DEF DeliverySide, AckedEverywhere, DeliverySound, InOrder, LossUnacked
<1>6. CallsSound /\ FeedbackPaid
  BY <1>3, <1>4 DEF CallsSound, FeedbackPaid
<1>7. RequestsSound /\ CopiesPaid /\ LossFree
  BY <1>3, <1>4 DEF RequestsSound, CopiesPaid, LossFree, Conversions
<1> QED
  BY <1>1, <1>5, <1>6, <1>7 DEF IInv, AgentSide

-----------------------------------------------------------------------------
(* Steps of the calls and the agents.                                      *)

(* A call that ended stays as it ended, and none loses its conversion or   *)
(* an agent it updated.                                                    *)
Evolves ==
    /\ DOMAIN calls' = DOMAIN calls
    /\ \A n \in DOMAIN calls :
          /\ calls'[n].conv = calls[n].conv
          /\ calls[n].updated \subseteq calls'[n].updated
          /\ calls[n].at = "ok" => calls'[n].at = "ok"

LEMMA Evolved ==
    ASSUME PipelineAssumption, TypeOK, TypeOK', Evolves, DeliverySide, UNCHANGED webhookVars
    PROVE  /\ DeliverySide'
           /\ \A c : Calls(c)' = Calls(c)
           /\ \A c : Done(c) \subseteq Done(c)' /\ Done(c)' \subseteq Calls(c)
<1>1. \A c : Calls(c)' = Calls(c)
  BY DEF Calls, Evolves
<1>2. \A c : Done(c) \subseteq Done(c)' /\ Done(c)' \subseteq Calls(c)
  BY <1>1 DEF Done, Evolves, Calls
<1>3. \A c : Updates(c) \subseteq Updates(c)'
  BY DEF Updates, Evolves
<1>4. Len(calls') = Len(calls) /\ Len(calls) \in Nat
  <2>1. /\ DOMAIN calls = 1..Len(calls) /\ Len(calls) \in Nat
        /\ DOMAIN calls' = 1..Len(calls') /\ Len(calls') \in Nat
    BY Positions DEF TypeOK
  <2> QED
    BY <2>1 DEF Evolves
<1>5. Len(calls) > 0 => Awaited'.conv = Awaited.conv
  <2>1. Len(calls) > 0 => Len(calls) \in DOMAIN calls
    BY <1>4, Positions DEF TypeOK
  <2> QED
    BY <1>4, <2>1 DEF Evolves, Awaited
<1>6. AckedEverywhere'
  BY <1>3 DEF AckedEverywhere, DeliverySide, webhookVars
<1>7. DeliverySound'
  BY <1>1, <1>4, <1>5 DEF DeliverySound, DeliverySide, webhookVars, At
<1> QED
  BY <1>1, <1>2, <1>6, <1>7 DEF DeliverySide, InOrder, LossUnacked, webhookVars

(* One call changes.                                                       *)
LEMMA OneCall ==
    ASSUME PipelineAssumption, TypeOK, NEW n \in DOMAIN calls, NEW d \in Call, calls' = [calls EXCEPT ![n] = d]
    PROVE  /\ calls' \in Seq(Call) /\ Len(calls') = Len(calls) /\ DOMAIN calls' = DOMAIN calls
           /\ calls[n] \in Call
           /\ \A m \in DOMAIN calls : calls'[m] = IF m = n THEN d ELSE calls[m]
<1>1. calls \in Seq(Call)
  BY DEF TypeOK
<1> QED
  BY <1>1

(* Requests only end, or stop being waited for.                            *)
RequestsEnd ==
    \A a \in Agents, s \in Slots : threads'[a][s] # None =>
        /\ threads[a][s] # None
        /\ threads'[a][s].conv = threads[a][s].conv
        /\ threads'[a][s].loaded = threads[a][s].loaded
        /\ threads'[a][s].version = threads[a][s].version
        /\ threads'[a][s].call \in {0, threads[a][s].call}

(* No state is stored but what a request has.                              *)
StoredByRequests ==
    \A a \in Agents :
        \/ learned'[a] = learned[a] /\ version'[a] = version[a]
        \/ /\ version'[a] = version[a] + 1
           /\ \E s \in Slots : threads[a][s] # None /\ learned'[a] = Stores(threads[a][s])

(* No reached agent is taken back.                                         *)
LEMMA CopiesKept ==
    ASSUME PipelineAssumption, TypeOK, TypeOK', CopiesPaid, LossFree, RequestsSound,
           RequestsEnd, StoredByRequests,
           \A c : Calls(c)' = Calls(c),
           \A a \in Agents, c \in Conversions : Reached(a, c) \subseteq Reached(a, c)'
    PROVE  CopiesPaid' /\ LossFree'
<1>1. ASSUME NEW a \in Agents, NEW c \in Conversions
      PROVE  /\ Cardinality(Reached(a, c)) \in Nat /\ Cardinality(Reached(a, c)') \in Nat
             /\ Cardinality(Reached(a, c)) <= Cardinality(Reached(a, c)')
  <2>1. Reached(a, c)' \subseteq Calls(c)
    BY DEF Reached
  <2>2. IsFiniteSet(Reached(a, c)')
    BY <2>1, CallSets, Counted
  <2> QED
    BY <2>2, Counted
<1>2. ASSUME NEW a \in Agents, NEW s \in Slots, threads[a][s] # None, NEW c \in Conversions
      PROVE  /\ Stores(threads[a][s])[c] \in Nat
             /\ Stores(threads[a][s])[c] <= Cardinality(Reached(a, c))
             /\ c \in Losses => Stores(threads[a][s])[c] = 0
  <2>1. threads[a][s] \in Request /\ threads[a][s].conv \notin Losses
    BY <1>2 DEF TypeOK, RequestsSound
  <2>2. Stores(threads[a][s])[c] \in Nat
    BY <2>1 DEF Request, Bag, Stores, One
  <2>3. Stores(threads[a][s])[c] <= Cardinality(Reached(a, c))
    BY <1>2 DEF CopiesPaid
  <2>4. ASSUME c \in Losses PROVE Stores(threads[a][s])[c] = 0
    <3>1. threads[a][s].loaded[c] = 0 /\ c # threads[a][s].conv
      BY <1>2, <2>1, <2>4 DEF LossFree
    <3> QED
      BY <2>1, <3>1 DEF Stores, One, Request, Bag
  <2> QED
    BY <2>2, <2>3, <2>4
<1>3. \A a \in Agents, s \in Slots : threads'[a][s] # None =>
          Stores(threads'[a][s]) = Stores(threads[a][s])
  BY DEF Stores, RequestsEnd
<1>4. ASSUME NEW a \in Agents, NEW c \in Conversions
      PROVE  /\ learned'[a][c] <= Cardinality(Reached(a, c)')
             /\ c \in Losses => learned'[a][c] = 0
  <2>1. CASE learned'[a] = learned[a]
    <3>1. learned[a][c] \in Nat /\ learned[a][c] <= Cardinality(Reached(a, c))
      BY DEF TypeOK, Bag, CopiesPaid
    <3> QED
      BY <1>1, <2>1, <3>1 DEF LossFree
  <2>2. CASE \E s \in Slots : threads[a][s] # None /\ learned'[a] = Stores(threads[a][s])
    <3>1. PICK s \in Slots : threads[a][s] # None /\ learned'[a] = Stores(threads[a][s])
      BY <2>2
    <3> QED
      BY <1>1, <1>2, <3>1
  <2> QED
    BY <2>1, <2>2 DEF StoredByRequests
<1>5. ASSUME NEW a \in Agents, NEW c \in Conversions, NEW s \in Slots, threads'[a][s] # None
      PROVE  /\ Stores(threads'[a][s])[c] <= Cardinality(Reached(a, c)')
             /\ c \in Losses => threads'[a][s].loaded[c] = 0
  <2>1. /\ Stores(threads[a][s])[c] \in Nat
        /\ Stores(threads[a][s])[c] <= Cardinality(Reached(a, c))
    BY <1>2, <1>5 DEF RequestsEnd
  <2>2. Stores(threads'[a][s])[c] <= Cardinality(Reached(a, c)')
    BY <1>1, <1>3, <1>5, <2>1
  <2> QED
    BY <1>5, <2>2 DEF LossFree, RequestsEnd
<1> QED
  BY <1>4, <1>5 DEF CopiesPaid, LossFree, Conversions

LEMMA FeedbackKept ==
    ASSUME PipelineAssumption, TypeOK, FeedbackPaid, feedback' = feedback,
           \A c : Done(c) \subseteq Done(c)' /\ Done(c)' \subseteq Calls(c)
    PROVE  FeedbackPaid'
<1>1. ASSUME NEW c \in Conversions PROVE feedback[c] <= Cardinality(Done(c)')
  <2>1. IsFiniteSet(Done(c)')
    BY CallSets, Counted
  <2>2. /\ Cardinality(Done(c)) \in Nat /\ Cardinality(Done(c)') \in Nat
        /\ Cardinality(Done(c)) <= Cardinality(Done(c)')
    BY <2>1, Counted
  <2>3. feedback[c] \in Nat /\ feedback[c] <= Cardinality(Done(c))
    BY DEF TypeOK, Bag, FeedbackPaid
  <2> QED
    BY <2>2, <2>3
<1> QED
  BY <1>1 DEF FeedbackPaid

LEMMA RequestsKept ==
    ASSUME PipelineAssumption, TypeOK, TypeOK', RequestsSound, RequestsEnd, StoredByRequests,
           \A a \in Agents, s \in Slots, n \in DOMAIN calls :
              threads'[a][s] # None /\ threads'[a][s].call = n => calls'[n] = calls[n]
    PROVE  RequestsSound'
<1>1. ASSUME NEW a \in Agents, NEW s \in Slots, threads'[a][s] # None
      PROVE  /\ threads'[a][s].conv \notin Losses
             /\ threads'[a][s].version <= version'[a]
             /\ threads'[a][s].version = version'[a] => threads'[a][s].loaded = learned'[a]
  <2>1. /\ threads[a][s].conv \notin Losses
        /\ threads[a][s].version <= version[a]
        /\ threads[a][s].version = version[a] => threads[a][s].loaded = learned[a]
    BY <1>1 DEF RequestsSound, RequestsEnd
  <2>2. version[a] \in Nat /\ threads[a][s].version \in Nat
    <3>1. threads[a][s] \in Request
      BY <1>1 DEF TypeOK, RequestsEnd
    <3> QED
      BY <3>1 DEF TypeOK, Request
  <2> QED
    BY <1>1, <2>1, <2>2 DEF RequestsEnd, StoredByRequests
<1>2. ASSUME NEW a \in Agents, NEW s \in Slots, threads'[a][s] # None, threads'[a][s].call # 0
      PROVE  /\ Turn(threads[a][s].call, a)'
             /\ \A t \in Slots : Holds(a, t, threads[a][s].call)' => t = s
  <2>1. threads'[a][s].call = threads[a][s].call /\ threads[a][s] # None
    BY <1>2 DEF RequestsEnd
  <2>2. threads[a][s].call \in DOMAIN calls
    <3>1. threads[a][s].call \in 1..Len(calls)
      BY <1>2, <2>1, Positions DEF TypeOK
    <3> QED
      BY <3>1, Positions DEF TypeOK
  <2>3. /\ Turn(threads[a][s].call, a)
        /\ \A t \in Slots : Holds(a, t, threads[a][s].call) => t = s
    BY <1>2, <2>1 DEF RequestsSound
  <2>4. calls'[threads[a][s].call] = calls[threads[a][s].call]
    BY <1>2, <2>1, <2>2
  <2>5. Turn(threads[a][s].call, a)'
    BY <2>1, <2>3, <2>4 DEF Turn
  <2>6. ASSUME NEW t \in Slots, Holds(a, t, threads[a][s].call)' PROVE t = s
    <3>1. threads[a][t] # None /\ threads[a][t].call = threads[a][s].call
      BY <1>2, <2>1, <2>6 DEF Holds, RequestsEnd
    <3> QED
      BY <2>3, <3>1 DEF Holds
  <2> QED
    BY <2>5, <2>6
<1> QED
  BY <1>1, <1>2 DEF RequestsSound

(* A step that leaves the deliveries and makes no copy: what is left to    *)
(* show of it.                                                             *)
LEMMA NoCopyMade ==
    ASSUME PipelineAssumption, IInv, TypeOK', Evolves, UNCHANGED webhookVars, RequestsEnd, StoredByRequests,
           CallsSound', feedback' = feedback \/ FeedbackPaid',
           \A a \in Agents, s \in Slots, n \in DOMAIN calls :
              threads'[a][s] # None /\ threads'[a][s].call = n => calls'[n] = calls[n],
           \A a \in Agents, n \in DOMAIN calls :
              /\ calls[n].at = "failed" => calls'[n].at = "failed"
              /\ calls[n].next > a => calls'[n].at = "failed" \/ calls'[n].next > a
              /\ Waiting(n, a) => calls'[n].at = "failed" \/ calls'[n].next > a \/ Waiting(n, a)'
    PROVE  IInv'
<1>0. TypeOK /\ DeliverySide /\ FeedbackPaid /\ RequestsSound /\ CopiesPaid /\ LossFree
  BY DEF IInv, AgentSide
<1>1. /\ DeliverySide' /\ FeedbackPaid'
      /\ \A c : Calls(c)' = Calls(c)
  BY <1>0, Evolved, FeedbackKept
<1>2. \A a \in Agents, c \in Conversions : Reached(a, c) \subseteq Reached(a, c)'
  BY <1>1 DEF Reached, Calls
<1>3. CopiesPaid' /\ LossFree' /\ RequestsSound'
  BY <1>0, <1>1, <1>2, CopiesKept, RequestsKept
<1> QED
  BY <1>1, <1>3 DEF IInv, AgentSide

(* Call n moves on to d, and no request is left that it waits for.         *)
Moves(n, d) ==
    /\ calls' = [calls EXCEPT ![n] = d]
    /\ UNCHANGED <<webhookVars, selects>> /\ faults' \in 0..MaxFaults
    /\ feedback' = feedback \/ (d.at = "ok" /\ feedback' = One(feedback, d.conv))
    /\ threads' \in [Agents -> [Slots -> Request \cup {None}]]
    /\ learned' \in [Agents -> Bag] /\ version' \in [Agents -> Nat]
    /\ RequestsEnd /\ StoredByRequests
    /\ \A a \in Agents, s \in Slots :
          /\ threads'[a][s] # None => threads'[a][s].call # n
          /\ threads'[a][s] # threads[a][s] => threads[a][s].call \in {0, n}
    /\ calls[n].at \in {"features", "agents"}
    /\ d.conv = calls[n].conv /\ calls[n].updated \subseteq d.updated
    /\ d.at = "ok" => d.updated # {}
    /\ d.at \in {"agents", "ok"} => d.conv \in Gains
    /\ \/ d.at = "failed"
       \/ d.next >= calls[n].next /\ \A a \in Agents : Waiting(n, a) => d.next > a

LEMMA CallMoves ==
    ASSUME PipelineAssumption, IInv, NEW n \in DOMAIN calls, NEW d \in Call, Moves(n, d) PROVE IInv'
<1> USE DEF Moves
<1>0. TypeOK /\ CallsSound /\ FeedbackPaid /\ RequestsSound /\ DeliverySide
  BY DEF IInv, AgentSide
<1>1. /\ calls' \in Seq(Call) /\ Len(calls') = Len(calls) /\ DOMAIN calls' = DOMAIN calls
      /\ calls[n] \in Call
      /\ \A m \in DOMAIN calls : calls'[m] = IF m = n THEN d ELSE calls[m]
  BY <1>0, OneCall
<1>2. d.conv \in Conversions /\ d.next \in Nat /\ calls[n].next \in Nat
  BY <1>1 DEF Call
<1>3. TypeOK'
  <2>1. feedback' \in Bag
    <3>1. feedback \in Bag
      BY <1>0 DEF TypeOK
    <3> QED
      BY <1>2, <3>1, OneCount
  <2>2. ASSUME NEW a \in Agents, NEW s \in Slots, threads'[a][s] # None
        PROVE  threads'[a][s].call \in 0..Len(calls')
    <3>1. threads[a][s].call \in 0..Len(calls) /\ threads'[a][s].call \in {0, threads[a][s].call}
      BY <1>0, <2>2 DEF TypeOK, RequestsEnd
    <3>2. Len(calls) \in Nat
      BY <1>0, Positions DEF TypeOK
    <3> QED
      BY <1>1, <3>1, <3>2
  <2> QED
    BY <1>0, <1>1, <2>1, <2>2 DEF TypeOK, webhookVars
<1>4. Evolves
  BY <1>1 DEF Evolves
<1>5. CallsSound'
  BY <1>0, <1>1 DEF CallsSound
<1>6. feedback' = feedback \/ FeedbackPaid'
  <2>1. SUFFICES ASSUME d.at = "ok", feedback' = One(feedback, d.conv) PROVE FeedbackPaid'
    OBVIOUS
  <2>2. \A c : Done(c) \subseteq Done(c)' /\ Done(c)' \subseteq Calls(c)
    BY <1>0, <1>3, <1>4, Evolved
  <2>3. ASSUME NEW c \in Conversions PROVE feedback'[c] <= Cardinality(Done(c)')
    <3>1. IsFiniteSet(Done(c)')
      BY <1>0, <2>2, CallSets, Counted
    <3>2. feedback[c] \in Nat /\ feedback[c] <= Cardinality(Done(c))
      BY <1>0 DEF TypeOK, Bag, FeedbackPaid
    <3>3. CASE c = d.conv
      <4>1. n \in Done(c)' /\ n \notin Done(c)
        BY <1>1, <2>1, <3>3 DEF Done, Calls
      <4>2. Cardinality(Done(c)) \in Nat /\ Cardinality(Done(c)') \in Nat
        BY <2>2, <3>1, Counted
      <4>3. Cardinality(Done(c)) + 1 <= Cardinality(Done(c)')
        BY <2>2, <3>1, <4>1, OneMore
      <4>4. feedback'[c] = feedback[c] + 1
        BY <1>0, <2>1, <3>3, OneCount DEF TypeOK
      <4> QED
        BY <3>2, <4>2, <4>3, <4>4
    <3>4. CASE c # d.conv
      <4>1. /\ Cardinality(Done(c)) \in Nat /\ Cardinality(Done(c)') \in Nat
            /\ Cardinality(Done(c)) <= Cardinality(Done(c)')
        BY <2>2, <3>1, Counted
      <4>2. feedback'[c] = feedback[c]
        BY <1>0, <1>2, <2>1, <3>4, OneCount DEF TypeOK
      <4> QED
        BY <3>2, <4>1, <4>2
    <3> QED
      BY <3>3, <3>4
  <2> QED
    BY <2>3 DEF FeedbackPaid
<1>7. \A a \in Agents, s \in Slots, m \in DOMAIN calls :
          threads'[a][s] # None /\ threads'[a][s].call = m => calls'[m] = calls[m]
  BY <1>1
<1>8. ASSUME NEW a \in Agents, NEW m \in DOMAIN calls
      PROVE  /\ calls[m].at = "failed" => calls'[m].at = "failed"
             /\ calls[m].next > a => calls'[m].at = "failed" \/ calls'[m].next > a
             /\ Waiting(m, a) => calls'[m].at = "failed" \/ calls'[m].next > a \/ Waiting(m, a)'
  <2>1. CASE m = n
    <3>1. a \in Nat
      BY DEF Agents
    <3> QED
      BY <1>1, <1>2, <2>1, <3>1
  <2>2. CASE m # n
    <3>1. m # 0 /\ calls'[m] = calls[m]
      BY <1>0, <1>1, <2>2, Positions DEF TypeOK
    <3>2. \A s \in Slots : Holds(a, s, m) => threads'[a][s] = threads[a][s]
      BY <2>2, <3>1 DEF Holds
    <3>3. Waiting(m, a) => Waiting(m, a)'
      BY <3>2 DEF Waiting, Holds
    <3> QED
      BY <3>1, <3>3
  <2> QED
    BY <2>1, <2>2
<1> QED
  BY <1>3, <1>4, <1>5, <1>6, <1>7, <1>8, NoCopyMade

-----------------------------------------------------------------------------
(* A request that nobody waits for any more goes on unchanged.             *)
LEMMA Unwaited ==
    ASSUME PipelineAssumption, NEW r \in Request
    PROVE  /\ r # None /\ [r EXCEPT !.call = 0] \in Request
           /\ [r EXCEPT !.call = 0].conv = r.conv
           /\ [r EXCEPT !.call = 0].loaded = r.loaded
           /\ [r EXCEPT !.call = 0].version = r.version
           /\ [r EXCEPT !.call = 0].call = 0
<1>1. r # None
  OBVIOUS
<1> QED
  BY <1>1 DEF Request

(* A call waits for requests of one agent, and of that one for one.        *)
LEMMA OneWaited ==
    ASSUME PipelineAssumption, TypeOK, RequestsSound, NEW n \in DOMAIN calls,
           NEW a \in Agents, NEW s \in Slots, Holds(a, s, n)
    PROVE  /\ Turn(n, a)
           /\ \A b \in Agents, t \in Slots : Holds(b, t, n) => b = a /\ t = s
<1>1. n # 0
  BY Positions DEF TypeOK
<1>2. \A b \in Agents, t \in Slots : Holds(b, t, n) =>
          /\ Turn(n, b)
          /\ \A u \in Slots : Holds(b, u, n) => u = t
  BY <1>1 DEF RequestsSound, Holds
<1> QED
  BY <1>2 DEF Turn

LEMMA FetchStep ==
    ASSUME PipelineAssumption, IInv, NEW n \in DOMAIN calls, Fetch(n) PROVE IInv'
<1>0. TypeOK /\ RequestsSound
  BY DEF IInv, AgentSide
<1>1. PICK w \in {"agents", "failed"} :
          /\ calls' = [calls EXCEPT ![n].at = w]
          /\ w = "agents" => calls[n].conv \in Gains
  BY DEF Fetch, Accepted
<1>2. /\ calls[n].at = "features" /\ UNCHANGED <<webhookVars, selects>>
      /\ UNCHANGED <<feedback, threads, learned, version, faults>>
  BY DEF Fetch, agentVars
<1> DEFINE d == [calls[n] EXCEPT !.at = w]
<1>3. /\ d \in Call /\ d.conv = calls[n].conv /\ d.next = calls[n].next
      /\ calls[n].next \in Nat /\ d.updated = calls[n].updated /\ d.at = w
  <2>1. calls[n] \in Call
    BY <1>0 DEF TypeOK
  <2> QED
    BY <2>1 DEF Call
<1>4. calls' = [calls EXCEPT ![n] = d]
  BY <1>1
<1> HIDE DEF d
<1>5. \A a \in Agents, s \in Slots : ~Holds(a, s, n)
  BY <1>0, <1>2, OneWaited DEF Turn
<1>6. RequestsEnd /\ StoredByRequests
  BY <1>2 DEF RequestsEnd, StoredByRequests
<1>7. /\ faults' \in 0..MaxFaults /\ learned' \in [Agents -> Bag] /\ version' \in [Agents -> Nat]
      /\ threads' \in [Agents -> [Slots -> Request \cup {None}]]
  BY <1>0, <1>2 DEF TypeOK
<1>8. \A a \in Agents : ~Waiting(n, a)
  BY <1>5 DEF Waiting
<1>9. w = "agents" => calls[n].conv \in Gains
  BY <1>1
<1>10. Moves(n, d)
  <2>1. UNCHANGED <<webhookVars, selects>> /\ feedback' = feedback /\ threads' = threads
    BY <1>2
  <2>2. calls[n].at \in {"features", "agents"} /\ w # "ok"
    BY <1>2
  <2>3. \A a \in Agents, s \in Slots : threads[a][s] # None => threads[a][s].call # n
    BY <1>5 DEF Holds
  <2> QED
    BY <1>3, <1>4, <1>6, <1>7, <1>8, <1>9, <2>1, <2>2, <2>3 DEF Moves
<1> QED
  BY <1>3, <1>10, CallMoves

LEMMA CallFailsStep ==
    ASSUME PipelineAssumption, IInv, NEW n \in DOMAIN calls, CallFails(n) PROVE IInv'
<1>0. TypeOK
  BY DEF IInv
<1>1. /\ calls[n].at \in {"features", "agents"} /\ UNCHANGED <<webhookVars, selects>>
      /\ UNCHANGED <<feedback, learned, version>> /\ faults' \in 0..MaxFaults
  BY <1>0 DEF CallFails, Fault, TypeOK
<1> DEFINE d == [calls[n] EXCEPT !.at = "failed"]
<1>2. /\ d \in Call /\ d.conv = calls[n].conv /\ d.updated = calls[n].updated /\ d.at = "failed"
  <2>1. calls[n] \in Call
    BY <1>0 DEF TypeOK
  <2> QED
    BY <2>1 DEF Call
<1>3. calls' = [calls EXCEPT ![n] = d]
  BY DEF CallFails
<1> HIDE DEF d
<1>4. \A a \in Agents, s \in Slots : threads'[a][s] =
          IF Holds(a, s, n) THEN [threads[a][s] EXCEPT !.call = 0] ELSE threads[a][s]
  BY DEF CallFails
<1>5. ASSUME NEW a \in Agents, NEW s \in Slots
      PROVE  /\ threads'[a][s] \in Request \cup {None}
             /\ threads'[a][s] # None =>
                   /\ threads[a][s] # None
                   /\ threads'[a][s].conv = threads[a][s].conv
                   /\ threads'[a][s].loaded = threads[a][s].loaded
                   /\ threads'[a][s].version = threads[a][s].version
                   /\ threads'[a][s].call = IF Holds(a, s, n) THEN 0 ELSE threads[a][s].call
  <2>1. CASE threads[a][s] = None
    BY <1>4, <2>1 DEF Holds
  <2>2. CASE threads[a][s] \in Request
    <3>1. threads[a][s] # None /\ threads[a][s].call \in Nat
      BY <2>2, Unwaited DEF Request
    <3>2. CASE threads[a][s].call = n
      <4>1. threads'[a][s] = [threads[a][s] EXCEPT !.call = 0]
        BY <1>4, <3>1, <3>2 DEF Holds
      <4> QED
        BY <2>2, <3>1, <3>2, <4>1, Unwaited DEF Holds
    <3>3. CASE threads[a][s].call # n
      BY <1>4, <2>2, <3>1, <3>3 DEF Holds
    <3> QED
      BY <3>2, <3>3
  <2> QED
    BY <1>0, <2>1, <2>2 DEF TypeOK
<1>6. threads' \in [Agents -> [Slots -> Request \cup {None}]]
  BY <1>5 DEF CallFails
<1>7. RequestsEnd /\ StoredByRequests
  BY <1>1, <1>5 DEF RequestsEnd, StoredByRequests
<1>8. n # 0
  BY <1>0, Positions DEF TypeOK
<1>9. ASSUME NEW a \in Agents, NEW s \in Slots
      PROVE  /\ threads'[a][s] # None => threads'[a][s].call # n
             /\ threads'[a][s] # threads[a][s] => threads[a][s].call \in {0, n}
  <2>1. CASE Holds(a, s, n)
    BY <1>5, <1>8, <2>1 DEF Holds
  <2>2. CASE ~Holds(a, s, n)
    <3>1. threads'[a][s] = threads[a][s]
      BY <1>4, <2>2
    <3> QED
      BY <2>2, <3>1 DEF Holds
  <2> QED
    BY <2>1, <2>2
<1>10. learned' \in [Agents -> Bag] /\ version' \in [Agents -> Nat]
  BY <1>0, <1>1 DEF TypeOK
<1>11. Moves(n, d)
  <2>1. UNCHANGED <<webhookVars, selects>> /\ faults' \in 0..MaxFaults /\ feedback' = feedback
    BY <1>1
  <2>2. /\ d.at # "ok" /\ d.at \notin {"agents", "ok"}
        /\ d.conv = calls[n].conv /\ calls[n].updated \subseteq d.updated
    BY <1>2
  <2>3. calls[n].at \in {"features", "agents"}
    BY <1>1
  <2> QED
    BY <1>2, <1>3, <1>6, <1>7, <1>9, <1>10, <2>1, <2>2, <2>3 DEF Moves
<1> QED
  BY <1>2, <1>11, CallMoves

(* The call's turn at agent a is over, for one of these reasons.           *)
LEMMA AgentFailsStep ==
    ASSUME PipelineAssumption, IInv, NEW n \in DOMAIN calls, NEW a \in Agents, AgentFails(n, a) PROVE IInv'
<1>0. TypeOK /\ RequestsSound /\ CallsSound
  BY DEF IInv, AgentSide
<1>1. /\ calls[n].at = "agents" /\ calls[n].next = a /\ ~Waiting(n, a)
      /\ UNCHANGED <<webhookVars, selects>>
      /\ UNCHANGED <<feedback, threads, learned, version>> /\ faults' \in 0..MaxFaults
  BY <1>0 DEF AgentFails, Turn, Fault, TypeOK, agentVars
<1> DEFINE d == [calls[n] EXCEPT !.next = a + 1]
<1>2. /\ d \in Call /\ d.conv = calls[n].conv /\ d.next = a + 1 /\ a \in Nat
      /\ d.updated = calls[n].updated /\ d.at = "agents"
  <2>1. calls[n] \in Call /\ a + 1 \in 1..NumAgents + 1 /\ a \in Nat
    BY <1>0 DEF TypeOK, Agents
  <2> QED
    BY <1>1, <2>1 DEF Call
<1>3. calls' = [calls EXCEPT ![n] = d]
  BY DEF AgentFails
<1> HIDE DEF d
<1>4. \A b \in Agents, s \in Slots : ~Holds(b, s, n)
  BY <1>0, <1>1, OneWaited DEF Turn, Waiting
<1>5. RequestsEnd /\ StoredByRequests
  BY <1>1 DEF RequestsEnd, StoredByRequests
<1>6. /\ learned' \in [Agents -> Bag] /\ version' \in [Agents -> Nat]
      /\ threads' \in [Agents -> [Slots -> Request \cup {None}]]
  BY <1>0, <1>1 DEF TypeOK
<1>7. calls[n].conv \in Gains /\ d.next >= calls[n].next
  BY <1>0, <1>1, <1>2 DEF CallsSound
<1>8. \A b \in Agents : ~Waiting(n, b)
  BY <1>4 DEF Waiting
<1>9. Moves(n, d)
  BY <1>1, <1>2, <1>3, <1>4, <1>5, <1>6, <1>7, <1>8 DEF Holds, Moves
<1> QED
  BY <1>2, <1>9, CallMoves

LEMMA AgentTimeoutStep ==
    ASSUME PipelineAssumption, IInv, NEW n \in DOMAIN calls, NEW a \in Agents, AgentTimeout(n, a) PROVE IInv'
<1>0. TypeOK /\ RequestsSound /\ CallsSound
  BY DEF IInv, AgentSide
<1>1. /\ calls[n].at = "agents" /\ calls[n].next = a
      /\ UNCHANGED <<webhookVars, selects>>
      /\ UNCHANGED <<feedback, learned, version>> /\ faults' \in 0..MaxFaults
  BY <1>0 DEF AgentTimeout, Turn, Fault, TypeOK
<1>2. PICK s \in Slots : Holds(a, s, n) /\ threads' = [threads EXCEPT ![a][s].call = 0]
  BY DEF AgentTimeout
<1> DEFINE d == [calls[n] EXCEPT !.next = a + 1]
<1>3. /\ d \in Call /\ d.conv = calls[n].conv /\ d.next = a + 1 /\ a \in Nat
      /\ d.updated = calls[n].updated /\ d.at = "agents"
  <2>1. calls[n] \in Call /\ a + 1 \in 1..NumAgents + 1 /\ a \in Nat
    BY <1>0 DEF TypeOK, Agents
  <2> QED
    BY <1>1, <2>1 DEF Call
<1>4. calls' = [calls EXCEPT ![n] = d]
  BY DEF AgentTimeout
<1> HIDE DEF d
<1> DEFINE r == [threads[a][s] EXCEPT !.call = 0]
<1>5. /\ threads[a][s] \in Request /\ r \in Request /\ r # None /\ r.conv = threads[a][s].conv
      /\ r.loaded = threads[a][s].loaded /\ r.version = threads[a][s].version /\ r.call = 0
  <2>1. threads[a][s] \in Request
    BY <1>0, <1>2 DEF Holds, TypeOK
  <2> QED
    BY <2>1, Unwaited
<1>6. threads' = [threads EXCEPT ![a] = [threads[a] EXCEPT ![s] = r]]
  BY <1>2
<1> HIDE DEF r
<1>7. \A b \in Agents, t \in Slots :
          threads'[b][t] = IF b = a /\ t = s THEN r ELSE threads[b][t]
  BY <1>0, <1>6 DEF TypeOK
<1>8. threads' \in [Agents -> [Slots -> Request \cup {None}]]
  BY <1>0, <1>5, <1>6 DEF TypeOK
<1>9. \A b \in Agents, t \in Slots : Holds(b, t, n) => b = a /\ t = s
  BY <1>0, <1>2, OneWaited
<1>10. RequestsEnd
  BY <1>2, <1>5, <1>7 DEF RequestsEnd, Holds
<1>11. StoredByRequests
  BY <1>1 DEF StoredByRequests
<1>12. n # 0
  BY <1>0, Positions DEF TypeOK
<1>13. \A b \in Agents, t \in Slots :
          /\ threads'[b][t] # None => threads'[b][t].call # n
          /\ threads'[b][t] # threads[b][t] => threads[b][t].call \in {0, n}
  BY <1>2, <1>5, <1>7, <1>9, <1>12 DEF Holds
<1>14. /\ learned' \in [Agents -> Bag] /\ version' \in [Agents -> Nat]
       /\ calls[n].conv \in Gains /\ d.next >= calls[n].next
       /\ \A b \in Agents : Waiting(n, b) => d.next > b
  BY <1>0, <1>1, <1>3, <1>9 DEF TypeOK, CallsSound, Waiting
<1>15. Moves(n, d)
  BY <1>1, <1>3, <1>4, <1>8, <1>10, <1>11, <1>13, <1>14 DEF Moves
<1> QED
  BY <1>3, <1>15, CallMoves

LEMMA FinishedStep ==
    ASSUME PipelineAssumption, IInv, NEW n \in DOMAIN calls, Finished(n) PROVE IInv'
<1>0. TypeOK /\ RequestsSound /\ CallsSound
  BY DEF IInv, AgentSide
<1>1. PICK w \in {"ok", "failed"} :
          /\ calls' = [calls EXCEPT ![n].at = w]
          /\ w = "ok" <=> calls[n].updated # {}
  BY DEF Finished
<1>2. /\ calls[n].at = "agents" /\ calls[n].next = NumAgents + 1
      /\ UNCHANGED <<webhookVars, selects>>
      /\ UNCHANGED <<threads, learned, version, faults>>
      /\ feedback' = feedback \/ (w = "ok" /\ feedback' = One(feedback, calls[n].conv))
  BY <1>1 DEF Finished, agentVars
<1> DEFINE d == [calls[n] EXCEPT !.at = w]
<1>3. /\ d \in Call /\ d.conv = calls[n].conv /\ d.next = calls[n].next
      /\ calls[n].next \in Nat /\ d.updated = calls[n].updated /\ d.at = w
  <2>1. calls[n] \in Call
    BY <1>0 DEF TypeOK
  <2> QED
    BY <2>1 DEF Call
<1>4. calls' = [calls EXCEPT ![n] = d]
  BY <1>1
<1> HIDE DEF d
<1>5. \A a \in Agents, s \in Slots : ~Holds(a, s, n)
  <2>1. NumAgents + 1 \notin Agents
    BY DEF Agents
  <2> QED
    BY <1>0, <1>2, <2>1, OneWaited DEF Turn
<1>6. RequestsEnd /\ StoredByRequests
  BY <1>2 DEF RequestsEnd, StoredByRequests
<1>7. /\ faults' \in 0..MaxFaults /\ learned' \in [Agents -> Bag] /\ version' \in [Agents -> Nat]
      /\ threads' \in [Agents -> [Slots -> Request \cup {None}]]
  BY <1>0, <1>2 DEF TypeOK
<1>8. \A a \in Agents : ~Waiting(n, a)
  BY <1>5 DEF Waiting
<1>9. calls[n].conv \in Gains /\ (w = "ok" => calls[n].updated # {})
  BY <1>0, <1>1, <1>2 DEF CallsSound
<1>10. Moves(n, d)
  <2>1. UNCHANGED <<webhookVars, selects>> /\ threads' = threads
    BY <1>2
  <2>2. /\ calls[n].at \in {"features", "agents"}
        /\ feedback' = feedback \/ (d.at = "ok" /\ feedback' = One(feedback, d.conv))
    BY <1>2, <1>3
  <2>3. \A a \in Agents, s \in Slots : threads[a][s] # None => threads[a][s].call # n
    BY <1>5 DEF Holds
  <2> QED
    BY <1>3, <1>4, <1>6, <1>7, <1>8, <1>9, <2>1, <2>2, <2>3 DEF Moves
<1> QED
  BY <1>3, <1>10, CallMoves

-----------------------------------------------------------------------------
(* A request of agent a ends: the state is stored or not, and the call     *)
(* that waits for it, if one does, goes on to d.                           *)
LEMMA RequestEnds ==
    ASSUME PipelineAssumption, IInv, NEW a \in Agents, NEW s \in Slots, threads[a][s] # None,
           threads' = [threads EXCEPT ![a][s] = None], StoredByRequests,
           learned' \in [Agents -> Bag], version' \in [Agents -> Nat],
           UNCHANGED <<webhookVars, selects>>, feedback' = feedback, faults' \in 0..MaxFaults,
           threads[a][s].call = 0 => calls' = calls,
           threads[a][s].call # 0 =>
              \E d : /\ calls' = [calls EXCEPT ![threads[a][s].call] = d]
                     /\ calls[threads[a][s].call] \in Call =>
                           /\ d \in Call /\ d.next = a + 1
                           /\ d.conv = calls[threads[a][s].call].conv
                           /\ d.at = calls[threads[a][s].call].at
                           /\ calls[threads[a][s].call].updated \subseteq d.updated
    PROVE  IInv'
<1>0. TypeOK /\ RequestsSound /\ CallsSound
  BY DEF IInv, AgentSide
<1>1. \A b \in Agents, t \in Slots :
          threads'[b][t] = IF b = a /\ t = s THEN None ELSE threads[b][t]
  BY <1>0 DEF TypeOK
<1>2. threads' \in [Agents -> [Slots -> Request \cup {None}]]
  BY <1>0 DEF TypeOK
<1>3. RequestsEnd
  BY <1>1 DEF RequestsEnd
<1>4. CASE threads[a][s].call = 0
  <2>1. calls' = calls
    BY <1>4
  <2>2. TypeOK'
    <3>1. \A b \in Agents, t \in Slots : threads'[b][t] # None =>
              threads'[b][t].call \in 0..Len(calls')
      BY <1>0, <1>1, <2>1 DEF TypeOK
    <3> QED
      BY <1>0, <1>2, <2>1, <3>1 DEF TypeOK, webhookVars
  <2>3. Evolves /\ CallsSound'
    BY <1>0, <2>1 DEF Evolves, CallsSound
  <2>4. ASSUME NEW n \in DOMAIN calls, NEW b \in Agents PROVE Waiting(n, b) => Waiting(n, b)'
    <3>1. n # 0
      BY <1>0, Positions DEF TypeOK
    <3>2. \A t \in Slots : Holds(b, t, n) => threads'[b][t] = threads[b][t]
      BY <1>1, <1>4, <3>1 DEF Holds
    <3> QED
      BY <3>2 DEF Waiting, Holds
  <2> QED
    BY <1>3, <2>1, <2>2, <2>3, <2>4, NoCopyMade
<1>5. CASE threads[a][s].call # 0
  <2> DEFINE n == threads[a][s].call
  <2>1. n \in DOMAIN calls
    BY <1>0, <1>5, Positions DEF TypeOK
  <2> HIDE DEF n
  <2>2. calls[n] \in Call
    BY <1>0, <2>1 DEF TypeOK
  <2>3. PICK d : /\ calls' = [calls EXCEPT ![n] = d] /\ d \in Call /\ d.next = a + 1
                 /\ d.conv = calls[n].conv /\ d.at = calls[n].at
                 /\ calls[n].updated \subseteq d.updated
    BY <1>5, <2>2 DEF n
  <2>4. Holds(a, s, n)
    BY DEF n, Holds
  <2>5. /\ calls[n].at = "agents" /\ calls[n].next = a
        /\ \A b \in Agents, t \in Slots : Holds(b, t, n) => b = a /\ t = s
    BY <1>0, <2>1, <2>4, OneWaited DEF Turn
  <2>6. \A b \in Agents, t \in Slots :
           /\ threads'[b][t] # None => threads'[b][t].call # n
           /\ threads'[b][t] # threads[b][t] => threads[b][t].call \in {0, n}
    BY <1>1, <2>4, <2>5 DEF Holds
  <2>7. /\ calls[n].conv \in Gains /\ d.next >= calls[n].next
        /\ \A b \in Agents : Waiting(n, b) => d.next > b
    <3>1. a \in Nat
      BY DEF Agents
    <3> QED
      BY <1>0, <2>1, <2>3, <2>5, <3>1 DEF CallsSound, Waiting
  <2>8. Moves(n, d)
    BY <1>2, <1>3, <2>3, <2>5, <2>6, <2>7 DEF Moves
  <2> QED
    BY <2>1, <2>3, <2>8, CallMoves
<1> QED
  BY <1>4, <1>5

LEMMA PersistFailsStep ==
    ASSUME PipelineAssumption, IInv, NEW a \in Agents, NEW s \in Slots, PersistFails(a, s) PROVE IInv'
<1>0. TypeOK
  BY DEF IInv
<1>1. /\ threads[a][s] # None /\ threads' = [threads EXCEPT ![a][s] = None]
      /\ UNCHANGED <<webhookVars, selects>> /\ feedback' = feedback
      /\ UNCHANGED <<learned, version>> /\ faults' \in 0..MaxFaults
      /\ threads[a][s].call = 0 => calls' = calls
  BY <1>0 DEF PersistFails, Fault, TypeOK
<1>2. StoredByRequests /\ learned' \in [Agents -> Bag] /\ version' \in [Agents -> Nat]
  BY <1>0, <1>1 DEF StoredByRequests, TypeOK
<1>3. ASSUME threads[a][s].call # 0
      PROVE  \E d : /\ calls' = [calls EXCEPT ![threads[a][s].call] = d]
                    /\ calls[threads[a][s].call] \in Call =>
                          /\ d \in Call /\ d.next = a + 1
                          /\ d.conv = calls[threads[a][s].call].conv
                          /\ d.at = calls[threads[a][s].call].at
                          /\ calls[threads[a][s].call].updated \subseteq d.updated
  <2> DEFINE n == threads[a][s].call
             d == [calls[n] EXCEPT !.next = a + 1]
  <2>1. calls' = [calls EXCEPT ![n] = d]
    BY <1>3 DEF PersistFails
  <2>2. a + 1 \in 1..NumAgents + 1
    BY DEF Agents
  <2>3. calls[n] \in Call =>
           /\ d \in Call /\ d.next = a + 1 /\ d.conv = calls[n].conv
           /\ d.at = calls[n].at /\ calls[n].updated \subseteq d.updated
    BY <2>2 DEF Call
  <2> HIDE DEF d
  <2> QED
    BY <2>1, <2>3
<1> QED
  BY <1>1, <1>2, <1>3, RequestEnds

LEMMA PersistStep ==
    ASSUME PipelineAssumption, IInv, NEW a \in Agents, NEW s \in Slots, Persist(a, s) PROVE IInv'
<1>0. TypeOK
  BY DEF IInv
<1>1. /\ threads[a][s] # None /\ threads' = [threads EXCEPT ![a][s] = None]
      /\ UNCHANGED <<webhookVars, selects>> /\ feedback' = feedback /\ faults' \in 0..MaxFaults
      /\ threads[a][s].call = 0 => calls' = calls
  BY <1>0 DEF Persist, TypeOK
<1>2. /\ learned' = [learned EXCEPT ![a] = Stores(threads[a][s])]
      /\ version' = [version EXCEPT ![a] = @ + 1]
  BY DEF Persist, Stores
<1>3. Stores(threads[a][s]) \in Bag
  <2>1. threads[a][s] \in Request
    BY <1>0, <1>1 DEF TypeOK
  <2>2. threads[a][s].conv \in Conversions \cup {None} /\ threads[a][s].loaded \in Bag
    BY <2>1 DEF Request
  <2> QED
    BY <2>2, OneCount DEF Stores
<1>4. StoredByRequests /\ learned' \in [Agents -> Bag] /\ version' \in [Agents -> Nat]
  BY <1>0, <1>1, <1>2, <1>3 DEF StoredByRequests, TypeOK
<1>5. ASSUME threads[a][s].call # 0
      PROVE  \E d : /\ calls' = [calls EXCEPT ![threads[a][s].call] = d]
                    /\ calls[threads[a][s].call] \in Call =>
                          /\ d \in Call /\ d.next = a + 1
                          /\ d.conv = calls[threads[a][s].call].conv
                          /\ d.at = calls[threads[a][s].call].at
                          /\ calls[threads[a][s].call].updated \subseteq d.updated
  <2> DEFINE n == threads[a][s].call
             d == [calls[n] EXCEPT !.next = a + 1, !.updated = @ \cup {a}]
  <2>1. calls' = [calls EXCEPT ![n] = d]
    BY <1>5 DEF Persist
  <2>2. a + 1 \in 1..NumAgents + 1
    BY DEF Agents
  <2>3. calls[n] \in Call =>
           /\ d \in Call /\ d.next = a + 1 /\ d.conv = calls[n].conv
           /\ d.at = calls[n].at /\ calls[n].updated \subseteq d.updated
    BY <2>2 DEF Call
  <2> HIDE DEF d
  <2> QED
    BY <2>1, <2>3
<1> QED
  BY <1>1, <1>4, <1>5, RequestEnds

(* An agent takes a request: a /select, or the update of a call whose turn *)
(* has come, which is one more the agent was reached with.                 *)
LEMMA RequestTaken ==
    ASSUME PipelineAssumption, IInv, NEW a \in Agents, NEW k, NEW c, Loaded(a, k, c),
           UNCHANGED <<webhookVars, calls, feedback, faults>>, selects' \in 0..MaxSelects,
           \/ k = 0 /\ c = None
           \/ k \in DOMAIN calls /\ Turn(k, a) /\ ~Waiting(k, a) /\ c = calls[k].conv
    PROVE  IInv'
<1>0. /\ TypeOK /\ DeliverySide /\ CallsSound /\ FeedbackPaid /\ RequestsSound
      /\ CopiesPaid /\ LossFree
  BY DEF IInv, AgentSide
<1> DEFINE r == [call |-> k, conv |-> c, version |-> version[a], loaded |-> LoadState(a, c)]
<1>1. PICK s \in Slots : threads[a][s] = None /\ threads' = [threads EXCEPT ![a][s] = r]
  BY DEF Loaded
<1>2. UNCHANGED webhookVars /\ UNCHANGED <<calls, feedback, faults, learned, version>>
  BY DEF Loaded
<1>3. /\ c \in Gains \cup {None} /\ k \in 0..Len(calls)
      /\ k \in DOMAIN calls => k # 0
  BY <1>0, Positions DEF TypeOK, Turn, CallsSound
<1>4. /\ r \in Request /\ r # None /\ r.call = k /\ r.conv = c
      /\ r.version = version[a] /\ r.loaded = learned[a]
  <2>1. learned[a] \in Bag /\ version[a] \in Nat /\ k \in Nat /\ c \in Conversions \cup {None}
    BY <1>0, <1>3, Positions DEF TypeOK, Conversions
  <2>2. r \in Request
    BY <2>1 DEF Request, LoadState
  <2> QED
    BY <2>2 DEF LoadState
<1> HIDE DEF r
<1>5. \A b \in Agents, t \in Slots :
          threads'[b][t] = IF b = a /\ t = s THEN r ELSE threads[b][t]
  BY <1>0, <1>1 DEF TypeOK
<1>6. TypeOK'
  <2>1. threads' \in [Agents -> [Slots -> Request \cup {None}]]
    BY <1>0, <1>1, <1>4 DEF TypeOK
  <2>2. \A b \in Agents, t \in Slots : threads'[b][t] # None =>
            threads'[b][t].call \in 0..Len(calls')
    BY <1>0, <1>2, <1>3, <1>4, <1>5 DEF TypeOK
  <2> QED
    BY <1>0, <1>2, <2>1, <2>2 DEF TypeOK, webhookVars
<1>7. DeliverySide' /\ FeedbackPaid' /\ \A d : Calls(d)' = Calls(d)
  <2>1. Evolves
    BY <1>2 DEF Evolves
  <2> QED
    BY <1>0, <1>2, <1>6, <2>1, Evolved, FeedbackKept
<1>8. CallsSound'
  BY <1>0, <1>2 DEF CallsSound
<1>9. RequestsSound'
  <2>1. ASSUME NEW b \in Agents, NEW t \in Slots, threads'[b][t] # None
        PROVE  /\ threads'[b][t].conv \notin Losses
               /\ threads'[b][t].version <= version'[b]
               /\ threads'[b][t].version = version'[b] => threads'[b][t].loaded = learned'[b]
    <3>1. CASE b = a /\ t = s
      <4>1. c \notin Losses /\ version[a] <= version[a]
        BY <1>0, <1>3 DEF TypeOK, Conversions
      <4> QED
        BY <1>2, <1>4, <1>5, <3>1, <4>1
    <3>2. CASE ~(b = a /\ t = s)
      BY <1>0, <1>2, <1>5, <2>1, <3>2 DEF RequestsSound
    <3> QED
      BY <3>1, <3>2
  <2>2. ASSUME NEW b \in Agents, NEW t \in Slots, threads'[b][t] # None, threads'[b][t].call # 0
        PROVE  /\ Turn(threads[b][t].call, b)'
               /\ \A u \in Slots : Holds(b, u, threads[b][t].call)' => u = t
    <3>1. CASE b = a /\ t = s
      <4>1. k # 0 /\ Turn(k, a) /\ \A u \in Slots : ~Holds(a, u, k)
        BY <1>4, <1>5, <2>2, <3>1 DEF Waiting
      <4>2. threads'[b][t].call = k
        BY <1>4, <1>5, <3>1
      <4>3. Turn(threads[b][t].call, b)'
        BY <1>2, <3>1, <4>1, <4>2 DEF Turn
      <4>4. ASSUME NEW u \in Slots, Holds(b, u, threads[b][t].call)', u # t PROVE FALSE
        BY <1>5, <3>1, <4>1, <4>2, <4>4 DEF Holds
      <4> QED
        BY <4>3, <4>4
    <3>2. CASE ~(b = a /\ t = s)
      <4>1. /\ threads'[b][t] = threads[b][t] /\ Turn(threads[b][t].call, b)
            /\ \A u \in Slots : Holds(b, u, threads[b][t].call) => u = t
        BY <1>0, <1>5, <2>2, <3>2 DEF RequestsSound
      <4>2. Turn(threads[b][t].call, b)'
        BY <1>2, <4>1 DEF Turn
      <4>3. ASSUME NEW u \in Slots, Holds(b, u, threads[b][t].call)' PROVE u = t
        <5>1. CASE b = a /\ u = s
          <6>1. k = threads[b][t].call /\ k # 0
            BY <1>4, <1>5, <2>2, <4>1, <4>3, <5>1 DEF Holds
          <6>2. Holds(a, t, k)
            BY <2>2, <4>1, <5>1, <6>1 DEF Holds
          <6> QED
            BY <6>1, <6>2 DEF Waiting
        <5>2. CASE ~(b = a /\ u = s)
          BY <1>5, <4>1, <4>3, <5>2 DEF Holds
        <5> QED
          BY <5>1, <5>2
      <4> QED
        BY <4>2, <4>3
    <3> QED
      BY <3>1, <3>2
  <2> QED
    BY <2>1, <2>2 DEF RequestsSound
<1>10. ASSUME NEW b \in Agents, NEW d \in Conversions
       PROVE  /\ Cardinality(Reached(b, d)) \in Nat /\ Cardinality(Reached(b, d)') \in Nat
              /\ Cardinality(Reached(b, d)) <= Cardinality(Reached(b, d)')
              /\ b = a /\ d = c => Cardinality(Reached(b, d)) + 1 <= Cardinality(Reached(b, d)')
  <2>1. ASSUME NEW n PROVE Waiting(n, b) => Waiting(n, b)'
    <3>1. \A t \in Slots : Holds(b, t, n) => threads'[b][t] = threads[b][t]
      BY <1>1, <1>5 DEF Holds
    <3> QED
      BY <3>1 DEF Waiting, Holds
  <2>2. Reached(b, d) \subseteq Reached(b, d)'
    BY <1>2, <1>7, <2>1 DEF Reached
  <2>3. IsFiniteSet(Reached(b, d)')
    <3>1. Reached(b, d)' \subseteq Calls(d)
      BY <1>7 DEF Reached
    <3> QED
      BY <1>0, <3>1, CallSets, Counted
  <2>4. ASSUME b = a, d = c
        PROVE  k \in Reached(b, d)' /\ k \notin Reached(b, d)
    <3>1. k \in DOMAIN calls /\ Turn(k, a) /\ ~Waiting(k, a) /\ c = calls[k].conv
      BY <2>4
    <3>2. Waiting(k, a)'
      BY <1>4, <1>5 DEF Waiting, Holds
    <3>3. ~(a > a)
      BY DEF Agents
    <3> QED
      BY <1>2, <2>4, <3>1, <3>2, <3>3 DEF Reached, Calls, Turn
  <2> QED
    BY <2>2, <2>3, <2>4, Counted, OneMore
<1>11. ASSUME NEW b \in Agents, NEW d \in Conversions
       PROVE  /\ learned[b][d] <= Cardinality(Reached(b, d)')
              /\ \A t \in Slots : threads'[b][t] # None =>
                    Stores(threads'[b][t])[d] <= Cardinality(Reached(b, d)')
  <2>1. learned[b] \in Bag /\ learned[b][d] \in Nat /\ learned[b][d] <= Cardinality(Reached(b, d))
    BY <1>0 DEF TypeOK, Bag, CopiesPaid
  <2>2. ASSUME NEW t \in Slots, threads'[b][t] # None
        PROVE  Stores(threads'[b][t])[d] <= Cardinality(Reached(b, d)')
    <3>1. CASE b = a /\ t = s
      <4>1. Stores(r)[d] = IF d = c THEN learned[a][d] + 1 ELSE learned[a][d]
        <5>1. CASE c = None
          BY <1>4, <5>1 DEF Stores, Conversions
        <5>2. CASE c # None
          BY <1>3, <1>4, <2>1, <3>1, <5>2, OneCount DEF Stores, Conversions
        <5> QED
          BY <5>1, <5>2
      <4> QED
        BY <1>5, <1>10, <2>1, <3>1, <4>1
    <3>2. CASE ~(b = a /\ t = s)
      <4>1. threads[b][t] \in Request /\ threads'[b][t] = threads[b][t]
        BY <1>0, <1>5, <2>2, <3>2 DEF TypeOK
      <4>2. Stores(threads[b][t])[d] \in Nat
        <5>1. threads[b][t].conv \in Conversions \cup {None} /\ threads[b][t].loaded \in Bag
          BY <4>1 DEF Request
        <5>2. Stores(threads[b][t]) \in Bag
          BY <5>1, OneCount DEF Stores
        <5> QED
          BY <5>2 DEF Bag
      <4>3. Stores(threads[b][t])[d] <= Cardinality(Reached(b, d))
        BY <1>0, <2>2, <4>1 DEF CopiesPaid
      <4> QED
        BY <1>10, <4>1, <4>2, <4>3
    <3> QED
      BY <3>1, <3>2
  <2> QED
    BY <1>10, <2>1, <2>2
<1>12. CopiesPaid'
  BY <1>2, <1>11 DEF CopiesPaid
<1>13. LossFree'
  BY <1>0, <1>2, <1>4, <1>5 DEF LossFree
<1> QED
  BY <1>6, <1>7, <1>8, <1>9, <1>12, <1>13 DEF IInv, AgentSide

-----------------------------------------------------------------------------
(* Steps of the deliveries.                                                *)
LEMMA AgentSideKept ==
    ASSUME PipelineAssumption, AgentSide, UNCHANGED <<calls, feedback, agentVars>> PROVE AgentSide'
<1>1. /\ calls' = calls /\ feedback' = feedback /\ threads' = threads
      /\ learned' = learned /\ version' = version
  BY DEF agentVars
<1>2. \A a, c : Done(c)' = Done(c) /\ Reached(a, c)' = Reached(a, c)
  BY <1>1 DEF Done, Reached, Calls, Waiting, Holds
<1>3. CallsSound' /\ FeedbackPaid'
  BY <1>1, <1>2 DEF AgentSide, CallsSound, FeedbackPaid
<1>4. CopiesPaid' /\ LossFree'
  BY <1>1, <1>2 DEF AgentSide, CopiesPaid, LossFree
<1>5. RequestsSound'
  BY <1>1 DEF AgentSide, RequestsSound, Turn, Holds
<1> QED
  BY <1>3, <1>4, <1>5 DEF AgentSide

LEMMA DeliveryType ==
    ASSUME PipelineAssumption, TypeOK, webhook # None PROVE webhook \in Delivery /\ webhook.conv \in Conversions
BY DEF TypeOK, Delivery

(* A step of a delivery that posts nothing.                                *)
LEMMA DeliveryStep ==
    ASSUME PipelineAssumption, IInv,
           (\E c \in Conversions : Deliver(c)) \/ InsertRow \/ Increment \/ Answered \/ Refused \/ Fail
    PROVE  IInv'
<1>0. TypeOK /\ DeliverySide /\ AgentSide
  BY DEF IInv
<1>1. UNCHANGED <<calls, feedback, agentVars>>
  BY DEF Deliver, InsertRow, Increment, Answered, Refused, Fail
<1>2. AgentSide'
  BY <1>0, <1>1, AgentSideKept
<1>3. /\ calls' = calls /\ feedback' = feedback /\ threads' = threads
      /\ learned' = learned /\ version' = version /\ selects' = selects
  BY <1>1 DEF agentVars
<1>4. \A c : Calls(c)' = Calls(c) /\ Updates(c)' = Updates(c)
  BY <1>3 DEF Calls, Updates
<1>5. \A c \in Conversions : Cardinality(Calls(c)) \in Nat
  BY <1>0, CallSets
<1>6. \A c \in Conversions : rows[c] \in Nat /\ increments[c] \in Nat
  BY <1>0 DEF TypeOK, Bag
<1>7. ASSUME NEW c \in Conversions, Deliver(c) PROVE IInv'
  <2> USE DEF Deliver
  <2>1. webhook' \in Delivery /\ webhook'.at = "insert"
    BY <1>7 DEF Delivery
  <2>2. TypeOK'
    BY <1>0, <1>3, <1>7, <2>1 DEF TypeOK
  <2>3. DeliverySide'
    BY <1>0, <1>4, <1>7, <2>1 DEF DeliverySide, AckedEverywhere, DeliverySound, InOrder, LossUnacked, At
  <2> QED
    BY <1>2, <2>2, <2>3 DEF IInv
<1>8. CASE InsertRow
  <2> USE DEF InsertRow
  <2>1. /\ webhook \in Delivery /\ webhook.conv \in Conversions
        /\ webhook' \in Delivery /\ webhook'.at = "increment" /\ webhook'.conv = webhook.conv
    <3>1. webhook \in Delivery /\ webhook.conv \in Conversions
      BY <1>0, <1>8, DeliveryType DEF At
    <3> QED
      BY <1>8, <3>1 DEF Proceed, Delivery
  <2>2. /\ rows' \in Bag
        /\ \A c \in Conversions : rows'[c] = IF c = webhook.conv THEN rows[c] + 1 ELSE rows[c]
    BY <1>0, <1>6, <1>8, <2>1, OneCount DEF TypeOK
  <2>3. TypeOK'
    BY <1>0, <1>3, <1>8, <2>1, <2>2 DEF TypeOK
  <2>4. \A c \in Conversions : increments[c] <= rows[c] /\ Cardinality(Calls(c)) <= increments[c]
    BY <1>0 DEF DeliverySide, InOrder
  <2>5. AckedEverywhere'
    BY <1>0, <1>4, <1>6, <1>8, <2>2 DEF DeliverySide, AckedEverywhere, TypeOK
  <2>6. InOrder'
    BY <1>4, <1>6, <1>8, <2>2, <2>4 DEF InOrder
  <2>7. DeliverySound'
    BY <1>6, <1>8, <2>1, <2>2, <2>4 DEF DeliverySound, At
  <2> QED
    BY <1>0, <1>2, <1>8, <2>3, <2>5, <2>6, <2>7 DEF IInv, DeliverySide, LossUnacked
<1>9. CASE Increment
  <2> USE DEF Increment
  <2>1. /\ webhook \in Delivery /\ webhook.conv \in Conversions
        /\ webhook' \in Delivery /\ webhook'.at = "reward" /\ webhook'.conv = webhook.conv
    <3>1. webhook \in Delivery /\ webhook.conv \in Conversions
      BY <1>0, <1>9, DeliveryType DEF At
    <3> QED
      BY <1>9, <3>1 DEF Proceed, Delivery
  <2>2. /\ increments' \in Bag
        /\ \A c \in Conversions : increments'[c] =
              IF c = webhook.conv THEN increments[c] + 1 ELSE increments[c]
    BY <1>0, <1>6, <1>9, <2>1, OneCount DEF TypeOK
  <2>3. TypeOK'
    BY <1>0, <1>3, <1>9, <2>1, <2>2 DEF TypeOK
  <2>4. /\ increments[webhook.conv] < rows[webhook.conv]
        /\ \A c \in Conversions : increments[c] <= rows[c] /\ Cardinality(Calls(c)) <= increments[c]
    BY <1>0, <1>9 DEF DeliverySide, InOrder, DeliverySound
  <2>5. AckedEverywhere'
    BY <1>0, <1>4, <1>6, <1>9, <2>2 DEF DeliverySide, AckedEverywhere, TypeOK
  <2>6. InOrder'
    BY <1>4, <1>5, <1>6, <1>9, <2>2, <2>4 DEF InOrder
  <2>7. DeliverySound'
    BY <1>4, <1>5, <1>6, <1>9, <2>1, <2>2, <2>4 DEF DeliverySound, At
  <2> QED
    BY <1>0, <1>2, <1>9, <2>3, <2>5, <2>6, <2>7 DEF IInv, DeliverySide, LossUnacked
<1>10. CASE Answered
  <2> USE DEF Answered
  <2>1. /\ webhook.conv \in Conversions /\ Len(calls) \in DOMAIN calls
        /\ Awaited.at = "ok" /\ Awaited.conv = webhook.conv
    <3>1. webhook.conv \in Conversions
      BY <1>0, <1>10, DeliveryType DEF At
    <3>2. Len(calls) > 0 /\ Awaited.conv = webhook.conv
      BY <1>0, <1>10 DEF DeliverySide, DeliverySound
    <3>3. Len(calls) \in DOMAIN calls
      BY <1>0, <3>2, Positions DEF TypeOK
    <3> QED
      BY <1>10, <3>1, <3>2, <3>3 DEF AwaitOk
  <2>2. webhook.conv \in Gains /\ Updates(webhook.conv) # {}
    BY <1>0, <2>1 DEF AgentSide, CallsSound, Awaited, Updates
  <2>3. increments[webhook.conv] > 0 /\ rows[webhook.conv] > 0
    <3>1. IsFiniteSet(Calls(webhook.conv)) /\ Len(calls) \in Calls(webhook.conv)
      BY <1>0, <2>1, CallSets DEF Calls, Awaited
    <3>2. Cardinality({}) = 0 /\ {} \subseteq Calls(webhook.conv)
      BY FS_EmptySet
    <3>3. Cardinality(Calls(webhook.conv)) >= 1
      BY <3>1, <3>2, OneMore
    <3>4. /\ increments[webhook.conv] <= rows[webhook.conv]
          /\ Cardinality(Calls(webhook.conv)) <= increments[webhook.conv]
      BY <1>0, <2>1 DEF DeliverySide, InOrder
    <3> QED
      BY <1>5, <1>6, <2>1, <3>3, <3>4
  <2>4. TypeOK'
    BY <1>0, <1>3, <1>10, <2>1 DEF TypeOK
  <2>5. AckedEverywhere' /\ LossUnacked'
    BY <1>0, <1>4, <1>10, <2>2, <2>3 DEF DeliverySide, AckedEverywhere, LossUnacked
  <2>6. InOrder' /\ DeliverySound'
    BY <1>0, <1>4, <1>10 DEF DeliverySide, InOrder, DeliverySound, At
  <2> QED
    BY <1>2, <2>4, <2>5, <2>6 DEF IInv, DeliverySide
<1>11. CASE Refused
  <2>1. webhook' = None /\ UNCHANGED <<deliveries, acked, rows, increments, faults>>
    BY <1>11 DEF Refused
  <2>2. TypeOK'
    BY <1>0, <1>3, <2>1 DEF TypeOK
  <2>3. DeliverySide'
    BY <1>0, <1>4, <2>1 DEF DeliverySide, AckedEverywhere, DeliverySound, InOrder, LossUnacked, At
  <2> QED
    BY <1>2, <2>2, <2>3 DEF IInv
<1>12. CASE Fail
  <2>1. /\ webhook # None /\ webhook.conv \in Conversions
        /\ webhook' = None /\ UNCHANGED <<deliveries, acked>> /\ faults' \in 0..MaxFaults
        /\ \/ rows' = One(rows, webhook.conv) /\ increments' = increments
           \/ At("increment") /\ increments' = One(increments, webhook.conv) /\ rows' = rows
           \/ rows' = rows /\ increments' = increments
    BY <1>0, <1>12, DeliveryType DEF Fail, Fault, TypeOK
  <2>2. rows' \in Bag /\ increments' \in Bag
    BY <1>0, <2>1, OneCount DEF TypeOK
  <2>3. ASSUME NEW c \in Conversions
        PROVE  /\ rows'[c] >= rows[c] /\ increments'[c] >= increments[c]
               /\ increments'[c] <= rows'[c] /\ Cardinality(Calls(c)) <= increments'[c]
    <3>1. /\ increments[c] <= rows[c] /\ Cardinality(Calls(c)) <= increments[c]
          /\ At("increment") => increments[webhook.conv] < rows[webhook.conv]
      BY <1>0 DEF DeliverySide, InOrder, DeliverySound
    <3>2. /\ One(rows, webhook.conv)[c] = IF c = webhook.conv THEN rows[c] + 1 ELSE rows[c]
          /\ One(increments, webhook.conv)[c] =
                IF c = webhook.conv THEN increments[c] + 1 ELSE increments[c]
      <4>1. rows \in Bag /\ increments \in Bag /\ webhook.conv \in Conversions
        BY <1>0, <2>1 DEF TypeOK
      <4> QED
        BY <4>1, OneCount
    <3>3. rows[c] \in Nat /\ increments[c] \in Nat /\ Cardinality(Calls(c)) \in Nat
      BY <1>5, <1>6
    <3>4. CASE rows' = One(rows, webhook.conv) /\ increments' = increments
      BY <3>1, <3>2, <3>3, <3>4
    <3>5. CASE At("increment") /\ increments' = One(increments, webhook.conv) /\ rows' = rows
      BY <3>1, <3>2, <3>3, <3>5
    <3>6. CASE rows' = rows /\ increments' = increments
      BY <3>1, <3>3, <3>6
    <3> QED
      BY <2>1, <3>4, <3>5, <3>6
  <2>4. TypeOK'
    BY <1>0, <1>3, <2>1, <2>2 DEF TypeOK
  <2>5. AckedEverywhere'
    <3>1. \A c \in Conversions : rows'[c] \in Nat /\ increments'[c] \in Nat
      BY <2>2 DEF Bag
    <3> QED
      BY <1>0, <1>4, <1>6, <2>1, <2>3, <3>1 DEF DeliverySide, AckedEverywhere, TypeOK
  <2>6. InOrder' /\ DeliverySound' /\ LossUnacked'
    BY <1>0, <1>4, <2>1, <2>3 DEF DeliverySide, InOrder, DeliverySound, LossUnacked, At
  <2> QED
    BY <1>2, <2>4, <2>5, <2>6 DEF IInv, DeliverySide
<1> QED
  BY <1>7, <1>8, <1>9, <1>10, <1>11, <1>12

LEMMA PostRewardStep ==
    ASSUME PipelineAssumption, IInv, PostReward PROVE IInv'
<1>0. TypeOK /\ DeliverySide /\ AgentSide
  BY DEF IInv
<1> DEFINE new == [conv |-> webhook.conv, at |-> "features", next |-> 1, updated |-> {}]
           last == Len(calls) + 1
<1>1. /\ webhook \in Delivery /\ webhook.conv \in Conversions /\ webhook' \in Delivery
      /\ webhook'.at = "await" /\ webhook'.conv = webhook.conv
  <2>1. webhook \in Delivery /\ webhook.conv \in Conversions
    BY <1>0, DeliveryType DEF At, PostReward
  <2> QED
    BY <2>1 DEF Proceed, Delivery, PostReward
<1>2. new \in Call /\ new.conv = webhook.conv /\ new.at = "features" /\ new.updated = {}
  <2>1. 1 \in 1..NumAgents + 1
    OBVIOUS
  <2> QED
    BY <1>1, <2>1 DEF Call
<1>3. calls' = Append(calls, new)
  BY DEF PostReward
<1> HIDE DEF new
<1>4. /\ calls' \in Seq(Call) /\ Len(calls') = last /\ Len(calls) \in Nat
      /\ DOMAIN calls = 1..Len(calls) /\ DOMAIN calls' = 1..last
      /\ \A m \in 1..Len(calls) : calls'[m] = calls[m]
      /\ calls'[last] = new
  BY <1>0, <1>2, <1>3, AppendProperties DEF TypeOK
<1>5. /\ deliveries' = deliveries /\ acked' = acked /\ rows' = rows /\ increments' = increments
      /\ feedback' = feedback /\ threads' = threads /\ learned' = learned /\ version' = version
      /\ selects' = selects /\ faults' = faults
  BY DEF PostReward, agentVars
<1>6. TypeOK'
  <2>1. \A a \in Agents, s \in Slots : threads'[a][s] # None =>
            threads'[a][s].call \in 0..Len(calls')
    BY <1>0, <1>4, <1>5 DEF TypeOK
  <2> QED
    BY <1>0, <1>1, <1>4, <1>5, <2>1 DEF TypeOK
<1>7. last \notin DOMAIN calls /\ DOMAIN calls' = DOMAIN calls \cup {last}
  BY <1>4
<1>8. ASSUME NEW c
      PROVE  /\ Calls(c)' = IF c = webhook.conv THEN Calls(c) \cup {last} ELSE Calls(c)
             /\ Done(c)' = Done(c) /\ Updates(c)' = Updates(c)
             /\ \A a : Reached(a, c) \subseteq Reached(a, c)' /\ Reached(a, c)' \subseteq Calls(c)'
  <2>1. Calls(c)' = IF c = webhook.conv THEN Calls(c) \cup {last} ELSE Calls(c)
    BY <1>2, <1>4, <1>7 DEF Calls
  <2>2. Done(c)' = Done(c) /\ Updates(c)' = Updates(c)
    BY <1>2, <1>4, <1>7 DEF Calls, Done, Updates
  <2>3. \A a, n : Waiting(n, a)' = Waiting(n, a)
    BY <1>5 DEF Waiting, Holds
  <2>4. \A a : Reached(a, c) \subseteq Reached(a, c)' /\ Reached(a, c)' \subseteq Calls(c)'
    BY <1>4, <1>7, <2>1, <2>3 DEF Calls, Reached
  <2> QED
    BY <2>1, <2>2, <2>4
<1>9. ASSUME NEW c \in Conversions
      PROVE  /\ IsFiniteSet(Calls(c)')
             /\ Cardinality(Calls(c)') =
                   IF c = webhook.conv THEN Cardinality(Calls(c)) + 1 ELSE Cardinality(Calls(c))
             /\ Cardinality(Calls(c)) \in Nat
  <2>1. IsFiniteSet(Calls(c)) /\ last \notin Calls(c) /\ Cardinality(Calls(c)) \in Nat
    BY <1>0, <1>7, CallSets DEF Calls
  <2>2. /\ IsFiniteSet(Calls(c) \cup {last})
        /\ Cardinality(Calls(c) \cup {last}) = Cardinality(Calls(c)) + 1
    BY <2>1, FS_AddElement
  <2> QED
    BY <1>8, <2>1, <2>2
<1>10. InOrder'
  <2>1. Cardinality(Calls(webhook.conv)) < increments[webhook.conv]
    BY <1>0 DEF DeliverySide, DeliverySound, PostReward
  <2>2. ASSUME NEW c \in Conversions
        PROVE  increments'[c] <= rows'[c] /\ Cardinality(Calls(c)') <= increments'[c]
    <3>1. /\ increments[c] <= rows[c] /\ Cardinality(Calls(c)) <= increments[c]
          /\ rows[c] \in Nat /\ increments[c] \in Nat
      BY <1>0 DEF DeliverySide, InOrder, TypeOK, Bag
    <3> QED
      BY <1>5, <1>9, <2>1, <3>1
  <2> QED
    BY <2>2 DEF InOrder
<1>11. DeliverySide'
  <2>1. AckedEverywhere' /\ LossUnacked'
    BY <1>0, <1>5, <1>8 DEF DeliverySide, AckedEverywhere, LossUnacked
  <2>2. DeliverySound'
    BY <1>1, <1>2, <1>4 DEF DeliverySound, At, Awaited
  <2> QED
    BY <1>10, <2>1, <2>2 DEF DeliverySide
<1>12. CallsSound' /\ FeedbackPaid' /\ LossFree'
  BY <1>0, <1>2, <1>4, <1>5, <1>7, <1>8 DEF AgentSide, CallsSound, FeedbackPaid, LossFree
<1>13. RequestsSound'
  <2>1. ASSUME NEW a \in Agents, NEW s \in Slots, threads[a][s] # None, threads[a][s].call # 0
        PROVE  Turn(threads[a][s].call, a)'
    <3>1. Turn(threads[a][s].call, a)
      BY <1>0, <2>1 DEF AgentSide, RequestsSound
    <3>2. threads[a][s].call \in 1..Len(calls)
      BY <1>0, <1>4, <2>1 DEF TypeOK
    <3> QED
      BY <1>4, <1>5, <3>1, <3>2 DEF Turn
  <2> QED
    BY <1>0, <1>5, <2>1 DEF AgentSide, RequestsSound, Holds
<1>14. CopiesPaid'
  <2>1. ASSUME NEW a \in Agents, NEW c \in Conversions
        PROVE  /\ Cardinality(Reached(a, c)) \in Nat /\ Cardinality(Reached(a, c)') \in Nat
               /\ Cardinality(Reached(a, c)) <= Cardinality(Reached(a, c)')
    <3>1. IsFiniteSet(Reached(a, c)')
      BY <1>8, <1>9, Counted
    <3> QED
      BY <1>8, <3>1, Counted
  <2>2. ASSUME NEW a \in Agents, NEW c \in Conversions
        PROVE  learned[a][c] <= Cardinality(Reached(a, c)')
    <3>1. learned[a][c] \in Nat /\ learned[a][c] <= Cardinality(Reached(a, c))
      BY <1>0 DEF AgentSide, CopiesPaid, TypeOK, Bag
    <3> QED
      BY <2>1, <3>1
  <2>3. ASSUME NEW a \in Agents, NEW c \in Conversions, NEW s \in Slots, threads[a][s] # None
        PROVE  Stores(threads[a][s])[c] <= Cardinality(Reached(a, c)')
    <3>1. Stores(threads[a][s])[c] <= Cardinality(Reached(a, c))
      BY <1>0, <2>3 DEF AgentSide, CopiesPaid
    <3>2. Stores(threads[a][s])[c] \in Nat
      <4>1. threads[a][s] \in Request
        BY <1>0, <2>3 DEF TypeOK
      <4>2. threads[a][s].conv \in Conversions \cup {None} /\ threads[a][s].loaded \in Bag
        BY <4>1 DEF Request
      <4>3. Stores(threads[a][s]) \in Bag
        BY <4>2, OneCount DEF Stores
      <4> QED
        BY <4>3 DEF Bag
    <3> QED
      BY <2>1, <3>1, <3>2
  <2> QED
    BY <1>5, <2>2, <2>3 DEF CopiesPaid
<1> QED
  BY <1>6, <1>11, <1>12, <1>13, <1>14 DEF IInv, AgentSide

LEMMA InvStep == ASSUME PipelineAssumption PROVE IInv /\ [Next]_vars => IInv'
<1> SUFFICES ASSUME IInv, [Next]_vars PROVE IInv'
  OBVIOUS
<1>1. CASE UNCHANGED vars
  <2>1. UNCHANGED <<webhookVars, calls, feedback, agentVars, faults>>
    BY <1>1 DEF vars
  <2>2. AgentSide'
    BY <2>1, AgentSideKept DEF IInv
  <2>3. TypeOK'
    BY <2>1 DEF IInv, webhookVars, agentVars, TypeOK
  <2>4. \A c : Calls(c)' = Calls(c) /\ Updates(c)' = Updates(c)
    BY <2>1 DEF Calls, Updates
  <2>5. DeliverySide'
    BY <2>1, <2>4 DEF IInv, webhookVars, DeliverySide, AckedEverywhere, DeliverySound, InOrder,
       LossUnacked, At, Awaited
  <2> QED
    BY <2>2, <2>3, <2>5 DEF IInv
<1>2. ASSUME NEW n \in DOMAIN calls, CallStep(n) PROVE IInv'
  <2>1. ASSUME NEW a \in Agents, PostAgent(n, a) PROVE IInv'
    <3>1. TypeOK
      BY DEF IInv
    <3>2. selects' \in 0..MaxSelects /\ UNCHANGED <<webhookVars, calls, feedback, faults>>
      BY <2>1, <3>1 DEF PostAgent, TypeOK
    <3>3. Loaded(a, n, calls[n].conv) /\ Turn(n, a) /\ ~Waiting(n, a)
      BY <2>1 DEF PostAgent
    <3> QED
      BY <3>2, <3>3, RequestTaken
  <2> QED
    BY <1>2, <2>1, FetchStep, CallFailsStep, FinishedStep, AgentFailsStep, AgentTimeoutStep
       DEF CallStep
<1>3. ASSUME NEW a \in Agents, Select(a) PROVE IInv'
  <2>1. selects' \in 0..MaxSelects
    BY <1>3 DEF IInv, TypeOK, Select
  <2>2. Loaded(a, 0, None) /\ UNCHANGED <<webhookVars, calls, feedback, faults>>
    BY <1>3 DEF Select
  <2> QED
    BY <2>1, <2>2, RequestTaken
<1> QED
  BY <1>1, <1>2, <1>3, DeliveryStep, PostRewardStep, PersistStep, PersistFailsStep DEF Next

(* Whatever call fails or times out at whatever point, and however the     *)
(* requests of an agent overlap: an acknowledged conversion is recorded,   *)
(* counted and learned from, no service has seen a conversion more often   *)
(* than the one before it, and one at a loss is never accepted             *)
(* (affiliate-webhook, reward-collector, rl-coordinator, rl-engine).       *)
THEOREM PipelineCorrect == ASSUME PipelineAssumption PROVE Spec => []PipelineInv
<1>1. Init => IInv
  BY InvInit
<1>2. IInv /\ [Next]_vars => IInv'
  BY InvStep
<1>3. IInv => PipelineInv
  BY InvImplies
<1> QED
  BY <1>1, <1>2, <1>3, PTL DEF Spec

(* An agent's update is lost only to a request that had loaded before the  *)
(* one that stored it had stored (rl-engine, update and select).           *)
THEOREM ForgetsOnlyOverlapping == ASSUME PipelineAssumption PROVE Spec => ForgetsOnlyOnOverlap
<1> DEFINE Keeps ==
      \A a \in Agents, s \in Slots, c \in Conversions :
          /\ learned'[a][c] < learned[a][c]
          /\ threads[a][s] # None /\ threads'[a][s] = None
          => threads[a][s].version # version[a]
<1>1. IInv /\ [Next]_vars => [Keeps]_vars
  <2> SUFFICES ASSUME IInv, Next,
                      NEW a \in Agents, NEW s \in Slots, NEW c \in Conversions,
                      learned'[a][c] < learned[a][c],
                      threads[a][s] # None, threads'[a][s] = None
               PROVE  threads[a][s].version # version[a]
    BY DEF vars
  <2>0. TypeOK /\ RequestsSound
    BY DEF IInv, AgentSide
  <2>1. learned[a][c] \in Nat /\ threads[a][s] \in Request
    BY <2>0 DEF TypeOK, Bag
  <2>2. PICK b \in Agents, t \in Slots : Persist(b, t)
    <3>1. learned' # learned
      BY <2>1
    <3> QED
      BY <3>1 DEF Next, Deliver, InsertRow, Increment, PostReward, Answered, Refused, Fail,
         CallStep, Fetch, CallFails, Finished, PostAgent, AgentFails, AgentTimeout, Select,
         Loaded, PersistFails, agentVars
  <2>3. /\ threads' = [threads EXCEPT ![b][t] = None]
        /\ learned' = [learned EXCEPT ![b] = Stores(threads[b][t])]
    BY <2>2 DEF Persist, Stores
  <2>4. a = b /\ s = t
    BY <2>0, <2>3 DEF TypeOK
  <2>5. learned'[a] = Stores(threads[a][s])
    BY <2>0, <2>3, <2>4 DEF TypeOK
  <2>6. /\ threads[a][s].loaded[c] \in Nat /\ Stores(threads[a][s])[c] \in Nat
        /\ Stores(threads[a][s])[c] >= threads[a][s].loaded[c]
    <3>1. threads[a][s].conv \in Conversions \cup {None} /\ threads[a][s].loaded \in Bag
      BY <2>1 DEF Request
    <3>2. threads[a][s].loaded[c] \in Nat
      BY <3>1 DEF Bag
    <3> QED
      BY <3>1, <3>2, OneCount DEF Stores
  <2>7. threads[a][s].version = version[a] => threads[a][s].loaded = learned[a]
    BY <2>0 DEF RequestsSound
  <2> QED
    BY <2>1, <2>5, <2>6, <2>7
<1>2. Init => IInv
  BY InvInit
<1>3. IInv /\ [Next]_vars => IInv'
  BY InvStep
<1> QED
  BY <1>1, <1>2, <1>3, PTL DEF Spec, ForgetsOnlyOnOverlap

-----------------------------------------------------------------------------
HIDE DEF PipelineAssumption
USE FeaturesAssumption DEF FeaturesAssumption

(* What the consumer has behind it: between the group's offset and its     *)
(* position there are only events that failed and the one at hand, and an  *)
(* undecodable event is never passed.                                      *)
PositionSound ==
    /\ step \in AtWork => position \notin failed
    /\ \A i \in committed + 1..position : i \in failed \/ (i = position /\ step # "poll")
    /\ \A i \in DOMAIN events : events[i] = Undecodable =>
          committed < i /\ (position < i \/ (position = i /\ step = "down"))

(* The event's last count has its row, or is about to: it is behind the    *)
(* group's offset or is being persisted.  Every other count cost a fault.  *)
Settled(i) == i <= committed \/ (i = position /\ step \in {"persist", "commit"})

(* How far an event at hand has come shows in the history of it, and only  *)
(* events on the topic have one.                                           *)
CountsSound ==
    /\ \A i \in 1..MaxEvents :
          /\ counted[i] > 0 => i <= Len(events)
          /\ counted[i] <= failures + 1 /\ (~Settled(i) => counted[i] <= failures)
          /\ metricRows[i] <= counted[i]
    /\ step \in {"persist", "commit"} => counted[position] > 0
    /\ step = "persist" => metricRows[position] < counted[position]
    /\ step = "commit" => metricRows[position] > 0

(* What the transaction is about to write is one more than what is stored. *)
CopyCurrent == step = "execute" /\ ~dirty => copy = stored[Current].count

FeaturesIInv ==
    /\ FeaturesTypeOK /\ StoredLoads /\ CommittedIsHandled /\ UndecodableBlocks
    /\ PositionSound /\ CountsSound /\ CopyCurrent

-----------------------------------------------------------------------------
LEMMA UpdatedTypes ==
    ASSUME NEW f \in Features, NEW u \in Requests PROVE Updated(f, u) \in Features
<1>1. /\ u.count \in Nat /\ u.max \in Amounts \cup {Missing} /\ u.cap \in Amounts \cup {Missing}
      /\ f.count \in Nat /\ f.max \in Amounts /\ f.cap \in Amounts
  BY DEF Features
<1> QED
  BY <1>1 DEF Updated, Given, Features

(* The requests of feature-store leave the consumer where it is.           *)
LEMMA StoreQuiet ==
    FeaturesTypeOK /\ Store => /\ UNCHANGED <<topicVars, step, copy, historyVars>>
                       /\ failures' \in 0..MaxFailures /\ failures' >= failures
<1> SUFFICES ASSUME FeaturesTypeOK, Store
             PROVE  /\ UNCHANGED <<topicVars, step, copy, historyVars>>
                    /\ failures' \in 0..MaxFailures /\ failures' >= failures
  OBVIOUS
<1>1. failures \in 0..MaxFailures
  BY DEF FeaturesTypeOK, ConsumerTypeOK
<1>2. UNCHANGED <<topicVars, step, copy, historyVars>>
  BY DEF Store, Load, Save, SaveRefused, Put, Release
<1>3. failures' = failures \/ Failure
  BY DEF Store, Load, Save, SaveRefused, Put
<1> QED
  BY <1>1, <1>2, <1>3 DEF Failure

LEMMA StoreStep == FeaturesTypeOK /\ StoredLoads /\ [FeaturesNext]_featureVars =>
                      StoreTypeOK' /\ StoredLoads'
<1> SUFFICES ASSUME FeaturesTypeOK, StoredLoads, [FeaturesNext]_featureVars
             PROVE  StoreTypeOK' /\ StoredLoads'
  OBVIOUS
<1>0. StoreTypeOK /\ ConsumerTypeOK
  BY DEF FeaturesTypeOK
<1>1. ASSUME NEW c \in Campaigns, NEW f \in Features, Valid(f), stored' = [stored EXCEPT ![c] = f]
      PROVE  stored' \in [Campaigns -> Features] /\ StoredLoads'
  BY <1>0, <1>1 DEF StoreTypeOK, StoredLoads
<1>2. ASSUME step \in AtWork, stored' = [stored EXCEPT ![Current].count = copy + 1]
      PROVE  stored' \in [Campaigns -> Features] /\ StoredLoads'
  <2>1. Current \in Campaigns /\ copy \in Nat
    BY <1>0, <1>2 DEF ConsumerTypeOK, Current
  <2> DEFINE f == [stored[Current] EXCEPT !.count = copy + 1]
  <2>2. f \in Features /\ f.max = stored[Current].max /\ f.cap = stored[Current].cap
    BY <1>0, <2>1 DEF StoreTypeOK, Features
  <2>3. Valid(f)
    BY <2>1, <2>2 DEF StoredLoads, Valid
  <2>4. stored' = [stored EXCEPT ![Current] = f]
    BY <1>0, <1>2, <2>1 DEF StoreTypeOK
  <2> QED
    BY <1>1, <2>1, <2>2, <2>3, <2>4
<1>3. ASSUME UNCHANGED <<stored, storeVars>> PROVE StoreTypeOK' /\ StoredLoads'
  BY <1>0, <1>3 DEF StoreTypeOK, StoredLoads, storeVars
<1>4. ASSUME NEW h \in Handlers, NEW c \in Campaigns, NEW u \in Requests, Load(h, c, u)
      PROVE  StoreTypeOK' /\ StoredLoads'
  BY <1>0, <1>4 DEF Load, StoreTypeOK, StoredLoads
<1>5. ASSUME NEW h \in Handlers, Save(h) PROVE StoreTypeOK' /\ StoredLoads'
  <2>1. /\ handlers[h].campaign \in Campaigns /\ handlers[h].loaded \in Features
        /\ handlers[h].update \in Requests
    BY <1>0, <1>5 DEF Save, StoreTypeOK
  <2>2. Saved(h) \in Features /\ Valid(Saved(h))
    BY <1>5, <2>1, UpdatedTypes DEF Save, Saved
  <2>3. stored' = [stored EXCEPT ![handlers[h].campaign] = Saved(h)]
    BY <1>5 DEF Save, Write
  <2>4. stored' \in [Campaigns -> Features] /\ StoredLoads'
    BY <1>1, <2>1, <2>2, <2>3
  <2> QED
    BY <1>0, <1>5, <2>4 DEF Save, Release, StoreTypeOK
<1>6. ASSUME NEW h \in Handlers, SaveRefused(h) PROVE StoreTypeOK' /\ StoredLoads'
  BY <1>0, <1>6 DEF SaveRefused, Release, StoreTypeOK, StoredLoads
<1>7. ASSUME NEW c \in Campaigns, NEW m \in Amounts, NEW d \in Amounts,
             Put(c, [count |-> 0, max |-> m, cap |-> d])
      PROVE  StoreTypeOK' /\ StoredLoads'
  <2>1. [count |-> 0, max |-> m, cap |-> d] \in Features
    BY DEF Features
  <2>2. stored' \in [Campaigns -> Features] /\ StoredLoads'
    BY <1>1, <1>7, <2>1 DEF Put, Write
  <2> QED
    BY <1>0, <1>7, <2>2 DEF Put, StoreTypeOK
<1>8. CASE Execute \/ (Raise /\ Count)
  <2>1. stored' = [stored EXCEPT ![Current].count = copy + 1] /\ step \in AtWork
    BY <1>8 DEF Execute, Raise, Count, Advance, AtWork
  <2>2. stored' \in [Campaigns -> Features] /\ StoredLoads'
    BY <1>2, <2>1
  <2> QED
    BY <1>0, <1>8, <2>2 DEF Execute, Raise, Advance, storeVars, StoreTypeOK
<1>9. CASE Raise /\ UNCHANGED stored
  BY <1>3, <1>9 DEF Raise
<1>10. ASSUME NEW e \in Event, Publish(e) PROVE StoreTypeOK' /\ StoredLoads'
  BY <1>3, <1>10 DEF Publish
<1>11. CASE Poll \/ StartWatch \/ Read \/ Conflict \/ PersistMetrics \/ Commit \/ Restart \/ Crash
  BY <1>3, <1>11 DEF Poll, Polled, StartWatch, Read, Conflict, PersistMetrics, Commit, Restart, Crash,
     Advance
<1>12. CASE UNCHANGED featureVars
  BY <1>3, <1>12 DEF featureVars
<1>13. Raise => Count \/ UNCHANGED stored
  BY DEF Raise
<1> QED
  BY <1>4, <1>5, <1>6, <1>7, <1>8, <1>9, <1>10, <1>11, <1>12, <1>13 DEF FeaturesNext, Store, Consumer

LEMMA DirtyStep == FeaturesTypeOK /\ [FeaturesNext]_featureVars => dirty' \in BOOLEAN
<1> SUFFICES ASSUME FeaturesTypeOK, [FeaturesNext]_featureVars PROVE dirty' \in BOOLEAN
  OBVIOUS
<1>1. dirty \in BOOLEAN
  BY DEF FeaturesTypeOK
<1>2. ASSUME NEW c, NEW f, Write(c, f) PROVE dirty' \in BOOLEAN
  BY <1>1, <1>2 DEF Write
<1>3. CASE Store
  BY <1>1, <1>2, <1>3 DEF Store, Load, Save, SaveRefused, Put
<1> QED
  BY <1>1, <1>3 DEF FeaturesNext, Consumer, Publish, Poll, Polled, StartWatch, Read, Execute, Conflict,
     PersistMetrics, Commit, Restart, Raise, Crash, featureVars

-----------------------------------------------------------------------------
(* What the consumer's steps are about: everything but the store.          *)
ConsumerInv ==
    /\ ConsumerTypeOK /\ CommittedIsHandled /\ UndecodableBlocks
    /\ PositionSound /\ CountsSound

(* More faults, or none, and nothing else of the consumer.                 *)
LEMMA QuietStep ==
    ASSUME ConsumerInv, UNCHANGED <<topicVars, step, copy, historyVars>>,
           failures' \in 0..MaxFailures, failures' >= failures
    PROVE  ConsumerInv'
<1> USE DEF ConsumerInv
<1>0. UNCHANGED <<events, position, committed, step, copy, counted, metricRows, failed>>
  BY DEF topicVars, historyVars
<1>1. ConsumerTypeOK'
  BY <1>0 DEF ConsumerTypeOK
<1>2. PositionSound' /\ CommittedIsHandled' /\ UndecodableBlocks'
  BY <1>0 DEF PositionSound, CommittedIsHandled, UndecodableBlocks
<1>3. CountsSound'
  <2>1. \A i \in 1..MaxEvents : Settled(i)' = Settled(i) /\ counted[i] \in Nat
    BY <1>0 DEF Settled, ConsumerTypeOK
  <2>2. failures \in Nat /\ failures' \in Nat
    BY DEF ConsumerTypeOK
  <2> QED
    BY <1>0, <2>1, <2>2 DEF CountsSound
<1> QED
  BY <1>1, <1>2, <1>3

LEMMA PublishStep == ASSUME ConsumerInv, NEW e \in Event, Publish(e) PROVE ConsumerInv'
<1> USE DEF ConsumerInv, Publish
<1>1. /\ events' \in Seq(Event) /\ Len(events') = Len(events) + 1
      /\ \A i \in 1..Len(events) : events'[i] = events[i]
      /\ DOMAIN events = 1..Len(events) /\ DOMAIN events' = 1..Len(events) + 1
  BY DEF ConsumerTypeOK
<1>2. ConsumerTypeOK'
  BY <1>1 DEF ConsumerTypeOK, topicVars, storeVars, historyVars
<1>3. PositionSound' /\ CommittedIsHandled'
  <2>1. ASSUME NEW i \in DOMAIN events', events'[i] = Undecodable
        PROVE  committed < i /\ (position < i \/ (position = i /\ step = "down"))
    <3>1. CASE i \in DOMAIN events
      BY <1>1, <2>1, <3>1 DEF PositionSound
    <3>2. CASE i = Len(events) + 1
      BY <3>2 DEF ConsumerTypeOK
    <3> QED
      BY <1>1, <3>1, <3>2 DEF ConsumerTypeOK
  <2> QED
    BY <2>1 DEF PositionSound, CommittedIsHandled, historyVars
<1>4. UndecodableBlocks'
  <2>1. ASSUME NEW i \in DOMAIN events', events'[i] = Undecodable, NEW k \in i..MaxEvents
        PROVE  counted[k] = 0
    <3>1. CASE i \in DOMAIN events
      BY <1>1, <2>1, <3>1 DEF UndecodableBlocks
    <3>2. CASE i = Len(events) + 1
      <4>1. k \in 1..MaxEvents /\ k > Len(events) /\ counted[k] \in Nat
        BY <3>2 DEF ConsumerTypeOK
      <4>2. counted[k] > 0 => k <= Len(events)
        BY <4>1 DEF CountsSound
      <4>3. Len(events) \in Nat
        BY DEF ConsumerTypeOK
      <4> QED
        BY <4>1, <4>2, <4>3
    <3> QED
      BY <1>1, <3>1, <3>2 DEF ConsumerTypeOK
  <2> QED
    BY <2>1 DEF UndecodableBlocks, historyVars
<1>5. CountsSound'
  <2>1. UNCHANGED <<committed, position, step, counted, metricRows, failures>> /\ Len(events) \in Nat
    BY DEF topicVars, historyVars, ConsumerTypeOK
  <2>2. \A i : Settled(i)' = Settled(i)
    BY <2>1 DEF Settled
  <2>3. \A i \in 1..MaxEvents : i <= Len(events) => i <= Len(events')
    BY <1>1, <2>1
  <2> QED
    BY <2>1, <2>2, <2>3 DEF CountsSound
<1> QED
  BY <1>2, <1>3, <1>4, <1>5

(* Polling passes the position over an event that is taken up, that fails  *)
(* or that the consumer dies of.                                           *)
LEMMA PollStep == ASSUME ConsumerInv, Poll PROVE ConsumerInv'
<1> USE DEF ConsumerInv, Poll, Polled, Advance, storeVars
<1> DEFINE e == events[position + 1]
<1>1. /\ step = "poll" /\ step' = Decoding(e) /\ position' = position + 1
      /\ position + 1 \in 1..Len(events) /\ e \in Event
      /\ UNCHANGED <<events, copy, counted, metricRows, failures, committed>>
  <2>1. events \in Seq(Event) /\ position \in 0..Len(events) /\ Len(events) \in Nat
    BY DEF ConsumerTypeOK
  <2>2. step = "poll" /\ position < Len(events)
    OBVIOUS
  <2>3. position + 1 \in 1..Len(events) /\ e \in Event
    BY <2>1, <2>2
  <2>4. UNCHANGED <<events, copy, counted, metricRows, failures, committed>>
    BY DEF topicVars, historyVars
  <2> QED
    BY <2>2, <2>3, <2>4
<1>2. /\ step' \in {"watch", "poll", "down"}
      /\ step' = "watch" <=> e \in Campaigns
      /\ step' = "poll" <=> e = Invalid
      /\ e = Undecodable => step' = "down"
  BY <1>1 DEF Decoding, Event
<1>3. failed' = IF e = Invalid THEN failed \cup {position + 1} ELSE failed
  BY DEF Failing
<1>4. position + 1 \notin failed
  BY DEF ConsumerTypeOK
<1> HIDE DEF e, Poll
<1>5. ConsumerTypeOK'
  <2>1. failed' \subseteq 1..position'
    <3>1. position \in Nat /\ 1..position \cup {position + 1} \subseteq 1..position + 1
      BY DEF ConsumerTypeOK
    <3> QED
      BY <1>1, <1>3, <3>1 DEF ConsumerTypeOK
  <2>2. /\ position \in Nat /\ committed \in 0..position
        /\ position' \in 0..Len(events) /\ committed \in 0..position'
    BY <1>1 DEF ConsumerTypeOK
  <2>3. step' \in AtWork => position' > committed' /\ events'[position'] \in Campaigns
    BY <1>1, <1>2, <2>2 DEF AtWork, e
  <2>4. step' \in AtWork \cup {"poll", "down"}
    BY <1>2 DEF AtWork
  <2> QED
    BY <1>1, <2>1, <2>2, <2>3, <2>4 DEF ConsumerTypeOK
<1>6. PositionSound'
  <2>1. step' \in AtWork => position' \notin failed'
    BY <1>1, <1>2, <1>3, <1>4 DEF AtWork, Event
  <2>2. ASSUME NEW i \in committed' + 1..position'
        PROVE  i \in failed' \/ (i = position' /\ step' # "poll")
    <3>1. committed \in Nat /\ position \in Nat /\ committed' = committed /\ position' = position + 1
      BY <1>1 DEF ConsumerTypeOK
    <3>2. CASE i = position + 1
      <4>1. CASE e = Invalid
        BY <1>3, <3>2, <4>1
      <4>2. CASE e # Invalid
        BY <1>2, <3>1, <3>2, <4>2
      <4> QED
        BY <4>1, <4>2
    <3>3. CASE i # position + 1
      <4>1. i \in committed + 1..position
        BY <2>2, <3>1, <3>3
      <4> QED
        BY <1>1, <1>3, <4>1 DEF PositionSound
    <3> QED
      BY <3>2, <3>3
  <2>3. ASSUME NEW i \in DOMAIN events', events'[i] = Undecodable
        PROVE  committed' < i /\ (position' < i \/ (position' = i /\ step' = "down"))
    <3>1. /\ i \in DOMAIN events /\ events[i] = Undecodable /\ i \in Nat
          /\ position \in Nat /\ committed \in Nat
      BY <1>1, <2>3 DEF ConsumerTypeOK
    <3>2. committed < i /\ position < i
      BY <1>1, <3>1 DEF PositionSound
    <3>3. position + 1 = i => step' = "down"
      BY <1>2, <3>1 DEF e
    <3> QED
      BY <1>1, <3>1, <3>2, <3>3
  <2> QED
    BY <2>1, <2>2, <2>3 DEF PositionSound
<1>7. CommittedIsHandled' /\ UndecodableBlocks'
  BY <1>1, <1>3 DEF CommittedIsHandled, UndecodableBlocks
<1>8. CountsSound'
  <2>1. ASSUME NEW i \in 1..MaxEvents PROVE Settled(i)' = Settled(i)
    BY <1>1, <1>2 DEF Settled
  <2> QED
    BY <1>1, <1>2, <2>1 DEF CountsSound
<1> QED
  BY <1>5, <1>6, <1>7, <1>8

(* Up to the transaction, the consumer only reads.                         *)
LEMMA ReadStep ==
    ASSUME FeaturesTypeOK, ConsumerInv, StartWatch \/ Read \/ Conflict PROVE ConsumerInv'
<1> USE DEF ConsumerInv, StartWatch, Read, Conflict, Advance
<1>1. /\ step \in {"watch", "read", "execute"} /\ step' \in {"watch", "read", "execute"}
      /\ UNCHANGED <<events, position, committed, counted, metricRows, failed, failures>>
  BY DEF historyVars
<1>2. copy' \in Nat
  <2>1. Current \in Campaigns
    BY <1>1 DEF ConsumerTypeOK, AtWork, Current
  <2>2. stored[Current].count \in Nat /\ copy \in Nat
    BY <2>1 DEF FeaturesTypeOK, StoreTypeOK, ConsumerTypeOK, Features
  <2> QED
    BY <2>2
<1> HIDE DEF StartWatch, Read, Conflict
<1>3. ConsumerTypeOK'
  BY <1>1, <1>2 DEF ConsumerTypeOK, AtWork
<1>4. PositionSound' /\ CommittedIsHandled' /\ UndecodableBlocks'
  BY <1>1 DEF PositionSound, CommittedIsHandled, UndecodableBlocks, AtWork
<1>5. CountsSound'
  <2>1. ASSUME NEW i \in 1..MaxEvents PROVE Settled(i)' = Settled(i)
    BY <1>1 DEF Settled
  <2> QED
    BY <1>1, <2>1 DEF CountsSound
<1> QED
  BY <1>3, <1>4, <1>5

(* The event at hand is the group's, is not the topic's last and has not   *)
(* failed.                                                                 *)
LEMMA AtHand ==
    ASSUME ConsumerInv, step \in AtWork
    PROVE  /\ position \in 1..MaxEvents /\ position \in 1..Len(events)
           /\ committed \in Nat /\ committed < position /\ position \notin failed
           /\ Current \in Campaigns
           /\ \A i \in DOMAIN events : events[i] = Undecodable => position < i
<1>1. /\ position \in 0..Len(events) /\ Len(events) \in Nat /\ Len(events) <= MaxEvents
      /\ committed \in 0..position /\ position > committed /\ events[position] \in Campaigns
  BY DEF ConsumerInv, ConsumerTypeOK
<1>2. position \notin failed
  BY DEF ConsumerInv, PositionSound
<1>3. ASSUME NEW i \in DOMAIN events, events[i] = Undecodable PROVE position < i
  BY <1>3 DEF ConsumerInv, PositionSound, AtWork
<1> QED
  BY <1>1, <1>2, <1>3 DEF Current

(* The transaction counts the event at hand, which was not settled.        *)
LEMMA CountEffect ==
    ASSUME ConsumerInv, step = "execute", Count
    PROVE  /\ counted' \in [1..MaxEvents -> Nat]
           /\ counted'[position] = counted[position] + 1 /\ counted[position] <= failures
           /\ \A i \in 1..MaxEvents \ {position} : counted'[i] = counted[i]
<1>1. position \in 1..MaxEvents /\ ~Settled(position)
  BY AtHand DEF Settled, AtWork
<1>2. counted \in [1..MaxEvents -> Nat]
  BY DEF ConsumerInv, ConsumerTypeOK
<1> QED
  BY <1>1, <1>2 DEF Count, ConsumerInv, CountsSound

LEMMA ExecuteStep == ASSUME ConsumerInv, Execute PROVE ConsumerInv'
<1>1. /\ step = "execute" /\ step' = "persist"
      /\ UNCHANGED <<events, position, committed, copy, metricRows, failed, failures>>
  BY DEF Execute, Advance
<1>2. /\ counted' \in [1..MaxEvents -> Nat]
      /\ counted'[position] = counted[position] + 1 /\ counted[position] <= failures
      /\ \A i \in 1..MaxEvents \ {position} : counted'[i] = counted[i]
  BY <1>1, CountEffect DEF Execute
<1>3. /\ position \in 1..MaxEvents /\ position \in 1..Len(events)
      /\ committed \in Nat /\ committed < position
      /\ \A i \in DOMAIN events : events[i] = Undecodable => position < i
      /\ DOMAIN events = 1..Len(events) /\ failures \in Nat
      /\ counted \in [1..MaxEvents -> Nat] /\ metricRows \in [1..MaxEvents -> Nat]
  <2>1. step \in AtWork
    BY <1>1 DEF AtWork
  <2>2. /\ DOMAIN events = 1..Len(events) /\ failures \in Nat
        /\ counted \in [1..MaxEvents -> Nat] /\ metricRows \in [1..MaxEvents -> Nat]
    BY DEF ConsumerInv, ConsumerTypeOK
  <2> QED
    BY <2>1, <2>2, AtHand
<1> USE DEF ConsumerInv
<1>4. ConsumerTypeOK'
  BY <1>1, <1>2 DEF ConsumerTypeOK, AtWork
<1>5. PositionSound'
  BY <1>1 DEF PositionSound, AtWork
<1>6. CommittedIsHandled'
  BY <1>1, <1>2, <1>3 DEF CommittedIsHandled, ConsumerTypeOK
<1>7. UndecodableBlocks'
  <2>1. ASSUME NEW i \in DOMAIN events, events[i] = Undecodable, NEW k \in i..MaxEvents
        PROVE  counted'[k] = 0
    BY <1>2, <1>3, <2>1 DEF UndecodableBlocks
  <2> QED
    BY <1>1, <2>1 DEF UndecodableBlocks
<1>8. CountsSound'
  <2>1. ASSUME NEW i \in 1..MaxEvents
        PROVE  /\ counted'[i] > 0 => i <= Len(events)
               /\ counted'[i] <= failures + 1 /\ (~Settled(i)' => counted'[i] <= failures)
               /\ metricRows[i] <= counted'[i]
    <3>1. CASE i = position
      BY <1>1, <1>2, <1>3, <3>1 DEF CountsSound, Settled
    <3>2. CASE i # position
      <4>1. Settled(i)' = Settled(i)
        BY <1>1, <3>2 DEF Settled
      <4> QED
        BY <1>2, <3>2, <4>1 DEF CountsSound
    <3> QED
      BY <3>1, <3>2
  <2>2. counted'[position] > 0 /\ metricRows[position] < counted'[position]
    BY <1>2, <1>3 DEF CountsSound
  <2> QED
    BY <1>1, <2>1, <2>2 DEF CountsSound
<1> QED
  BY <1>4, <1>5, <1>6, <1>7, <1>8

LEMMA PersistMetricsStep == ASSUME ConsumerInv, PersistMetrics PROVE ConsumerInv'
<1>1. /\ step = "persist" /\ step' = "commit" /\ InsertMetrics
      /\ UNCHANGED <<events, position, committed, copy, counted, failed, failures>>
  BY DEF PersistMetrics, Advance
<1>2. /\ position \in 1..MaxEvents /\ counted[position] > 0
      /\ metricRows[position] < counted[position]
      /\ counted \in [1..MaxEvents -> Nat] /\ metricRows \in [1..MaxEvents -> Nat]
  BY <1>1, AtHand DEF AtWork, ConsumerInv, CountsSound, ConsumerTypeOK
<1>3. /\ metricRows' \in [1..MaxEvents -> Nat] /\ metricRows'[position] = metricRows[position] + 1
      /\ \A i \in 1..MaxEvents \ {position} : metricRows'[i] = metricRows[i]
  BY <1>1, <1>2 DEF InsertMetrics
<1> USE DEF ConsumerInv
<1>4. ConsumerTypeOK'
  BY <1>1, <1>3 DEF ConsumerTypeOK, AtWork
<1>5. PositionSound' /\ UndecodableBlocks'
  BY <1>1 DEF PositionSound, AtWork, UndecodableBlocks
<1>6. CommittedIsHandled'
  <2>1. ASSUME NEW i \in 1..committed PROVE (counted[i] > 0 /\ metricRows'[i] > 0) \/ i \in failed
    <3>1. i \in 1..MaxEvents /\ i # position
      BY <1>1, AtHand DEF AtWork
    <3> QED
      BY <1>3, <3>1 DEF CommittedIsHandled
  <2> QED
    BY <1>1, <2>1 DEF CommittedIsHandled
<1>7. CountsSound'
  <2>1. \A i \in 1..MaxEvents : Settled(i)' = Settled(i)
    BY <1>1 DEF Settled
  <2>2. ASSUME NEW i \in 1..MaxEvents PROVE metricRows'[i] <= counted[i]
    <3>1. metricRows[i] <= counted[i] /\ metricRows[i] \in Nat /\ counted[i] \in Nat
      BY <1>2 DEF CountsSound
    <3>2. CASE i = position
      BY <1>2, <1>3, <3>2
    <3>3. CASE i # position
      BY <1>3, <3>1, <3>3
    <3> QED
      BY <3>2, <3>3
  <2> QED
    BY <1>1, <1>2, <1>3, <2>1, <2>2 DEF CountsSound
<1> QED
  BY <1>4, <1>5, <1>6, <1>7

(* Committing settles what failed before the event at hand along with it.  *)
LEMMA CommitStep == ASSUME ConsumerInv, Commit PROVE ConsumerInv'
<1>1. /\ step = "commit" /\ step' = "poll" /\ committed' = position
      /\ UNCHANGED <<events, position, copy, counted, metricRows, failed, failures>>
  BY DEF Commit, Advance, historyVars
<1>2. /\ position \in 1..MaxEvents /\ position \in 1..Len(events)
      /\ committed \in Nat /\ committed < position
      /\ \A i \in DOMAIN events : events[i] = Undecodable => position < i
  <2>1. step \in AtWork
    BY <1>1 DEF AtWork
  <2> QED
    BY <2>1, AtHand
<1> USE DEF ConsumerInv
<1>3. ConsumerTypeOK'
  <2>1. step' \notin AtWork /\ committed' \in 0..position' /\ position' \in 0..Len(events')
    BY <1>1, <1>2 DEF AtWork
  <2> QED
    BY <1>1, <2>1 DEF ConsumerTypeOK
<1>4. PositionSound'
  BY <1>1, <1>2 DEF PositionSound, AtWork
<1>5. CommittedIsHandled'
  <2>1. ASSUME NEW i \in 1..position PROVE (counted[i] > 0 /\ metricRows[i] > 0) \/ i \in failed
    <3>1. CASE i <= committed
      BY <1>2, <3>1 DEF CommittedIsHandled
    <3>2. CASE i > committed /\ i # position
      BY <1>2, <3>2 DEF PositionSound
    <3>3. CASE i = position
      BY <1>1, <3>3 DEF CountsSound
    <3> QED
      BY <1>2, <3>1, <3>2, <3>3
  <2> QED
    BY <1>1, <2>1 DEF CommittedIsHandled
<1>6. UndecodableBlocks'
  BY <1>1 DEF UndecodableBlocks
<1>7. CountsSound'
  <2>1. ASSUME NEW i \in 1..MaxEvents PROVE ~Settled(i)' => ~Settled(i)
    BY <1>1, <1>2 DEF Settled
  <2> QED
    BY <1>1, <2>1 DEF CountsSound
<1> QED
  BY <1>3, <1>4, <1>5, <1>6, <1>7

(* A call that raised may have taken effect; the event is given up.        *)
LEMMA RaiseStep == ASSUME ConsumerInv, Raise PROVE ConsumerInv'
<1>1. /\ step' = "poll" /\ failed' = failed \cup {position}
      /\ failures' = failures + 1 /\ failures' \in 0..MaxFailures
      /\ UNCHANGED <<events, position, committed, copy>>
      /\ step \in AtWork \ {"commit"} /\ failures \in Nat
  BY DEF Raise, Failure, GoOn, topicVars, AtWork, ConsumerInv, ConsumerTypeOK
<1>2. /\ position \in 1..MaxEvents /\ position \in 1..Len(events)
      /\ committed \in Nat /\ committed < position
      /\ \A i \in DOMAIN events : events[i] = Undecodable => position < i
      /\ DOMAIN events = 1..Len(events)
      /\ counted \in [1..MaxEvents -> Nat] /\ metricRows \in [1..MaxEvents -> Nat]
  <2>1. step \in AtWork
    BY <1>1
  <2>2. /\ DOMAIN events = 1..Len(events)
        /\ counted \in [1..MaxEvents -> Nat] /\ metricRows \in [1..MaxEvents -> Nat]
    BY DEF ConsumerInv, ConsumerTypeOK
  <2> QED
    BY <2>1, <2>2, AtHand
<1>3. /\ counted' \in [1..MaxEvents -> Nat] /\ metricRows' \in [1..MaxEvents -> Nat]
      /\ \A i \in 1..MaxEvents \ {position} : counted'[i] = counted[i] /\ metricRows'[i] = metricRows[i]
      /\ counted'[position] >= counted[position]
      /\ counted'[position] <= failures + 1 /\ metricRows'[position] <= counted'[position]
  <2>1. metricRows[position] <= counted[position] /\ counted[position] <= failures + 1
    BY <1>2 DEF ConsumerInv, CountsSound
  <2>2. CASE UNCHANGED <<counted, metricRows>>
    BY <1>2, <2>1, <2>2
  <2>3. CASE step = "execute" /\ Count /\ UNCHANGED metricRows
    <3>1. /\ counted' \in [1..MaxEvents -> Nat]
          /\ counted'[position] = counted[position] + 1 /\ counted[position] <= failures
          /\ \A i \in 1..MaxEvents \ {position} : counted'[i] = counted[i]
      BY <2>3, CountEffect
    <3>2. counted[position] \in Nat /\ metricRows[position] \in Nat
      BY <1>2
    <3>3. metricRows'[position] = metricRows[position] /\ metricRows' \in [1..MaxEvents -> Nat]
      BY <1>2, <2>3
    <3>4. metricRows'[position] <= counted'[position] /\ counted'[position] <= failures + 1
      BY <1>1, <2>1, <3>1, <3>2, <3>3
    <3> QED
      BY <2>3, <3>1, <3>2, <3>3, <3>4
  <2>4. CASE step = "persist" /\ InsertMetrics /\ UNCHANGED counted
    <3>1. metricRows[position] < counted[position]
      BY <2>4 DEF ConsumerInv, CountsSound
    <3> QED
      BY <1>2, <2>1, <2>4, <3>1 DEF InsertMetrics
  <2> QED
    BY <2>2, <2>3, <2>4 DEF Raise
<1> USE DEF ConsumerInv
<1>4. ConsumerTypeOK'
  <2>1. failed' \subseteq 1..position
    BY <1>1, <1>2 DEF ConsumerTypeOK
  <2> QED
    BY <1>1, <1>3, <2>1 DEF ConsumerTypeOK, AtWork
<1>5. PositionSound'
  BY <1>1, <1>2 DEF PositionSound, AtWork
<1>6. CommittedIsHandled'
  <2>1. ASSUME NEW i \in 1..committed PROVE i \in 1..MaxEvents \ {position}
    BY <1>2
  <2> QED
    BY <1>1, <1>3, <2>1 DEF CommittedIsHandled
<1>7. UndecodableBlocks'
  <2>1. ASSUME NEW i \in DOMAIN events, events[i] = Undecodable, NEW k \in i..MaxEvents
        PROVE  counted'[k] = 0
    BY <1>2, <1>3, <2>1 DEF UndecodableBlocks
  <2> QED
    BY <1>1, <2>1 DEF UndecodableBlocks
<1>8. CountsSound'
  <2>1. ASSUME NEW i \in 1..MaxEvents
        PROVE  /\ counted'[i] > 0 => i <= Len(events)
               /\ counted'[i] <= failures + 1 /\ metricRows'[i] <= counted'[i]
    <3>1. CASE i = position
      BY <1>2, <1>3, <3>1
    <3>2. CASE i # position
      BY <1>3, <3>2 DEF CountsSound
    <3> QED
      BY <3>1, <3>2
  <2>2. failures' \in Nat /\ \A i \in 1..MaxEvents : counted'[i] \in Nat
    BY <1>1, <1>3
  <2>3. \A i \in 1..MaxEvents : counted'[i] <= failures' + 1 /\ counted'[i] <= failures'
    BY <1>1, <2>1, <2>2
  <2> QED
    BY <1>1, <2>1, <2>3 DEF CountsSound
<1> QED
  BY <1>4, <1>5, <1>6, <1>7, <1>8

LEMMA CrashStep == ASSUME ConsumerInv, Crash PROVE ConsumerInv'
<1>1. /\ step' = "down" /\ failures' = failures + 1 /\ failures' \in 0..MaxFailures /\ failures \in Nat
      /\ UNCHANGED <<events, position, committed, copy, counted, metricRows, failed>>
  BY DEF Crash, Failure, topicVars, historyVars, ConsumerInv, ConsumerTypeOK
<1> USE DEF ConsumerInv
<1>2. ConsumerTypeOK'
  BY <1>1 DEF ConsumerTypeOK, AtWork
<1>3. PositionSound' /\ CommittedIsHandled' /\ UndecodableBlocks'
  BY <1>1 DEF PositionSound, CommittedIsHandled, UndecodableBlocks, AtWork
<1>4. CountsSound'
  <2>1. \A i \in 1..MaxEvents : counted[i] \in Nat
    BY DEF ConsumerTypeOK
  <2> QED
    BY <1>1, <2>1 DEF CountsSound
<1> QED
  BY <1>2, <1>3, <1>4

(* From the group's offset again: what failed behind it is handled again.  *)
LEMMA RestartStep == ASSUME ConsumerInv, Restart PROVE ConsumerInv'
<1>1. /\ step = "down" /\ step' = "poll" /\ position' = committed
      /\ failed' = failed \cap 1..committed
      /\ UNCHANGED <<events, committed, copy, counted, metricRows, failures>>
  BY DEF Restart, Advance
<1> USE DEF ConsumerInv
<1>2. ConsumerTypeOK'
  BY <1>1 DEF ConsumerTypeOK, AtWork
<1>3. PositionSound'
  <2>1. committed \in Nat
    BY DEF ConsumerTypeOK
  <2>2. ASSUME NEW i \in committed + 1..committed PROVE FALSE
    BY <2>1
  <2> QED
    BY <1>1, <2>2 DEF PositionSound, AtWork
<1>4. CommittedIsHandled' /\ UndecodableBlocks'
  BY <1>1 DEF CommittedIsHandled, UndecodableBlocks
<1>5. CountsSound'
  <2>1. ASSUME NEW i \in 1..MaxEvents PROVE ~Settled(i)' => ~Settled(i)
    BY <1>1 DEF Settled
  <2> QED
    BY <1>1, <2>1 DEF CountsSound
<1> QED
  BY <1>2, <1>3, <1>4, <1>5

-----------------------------------------------------------------------------
(* A write to the watched hash after WATCH shows in dirty, whoever made it *)
(* and however often: what the consumer read is current if it is clean.    *)
LEMMA CopyStep == FeaturesTypeOK /\ ConsumerInv /\ CopyCurrent /\ [FeaturesNext]_featureVars => CopyCurrent'
<1> SUFFICES ASSUME FeaturesTypeOK, ConsumerInv, CopyCurrent, [FeaturesNext]_featureVars,
                    step' = "execute", ~dirty'
             PROVE  copy' = stored'[Current'].count
  BY DEF CopyCurrent
<1>1. ASSUME step = "execute", ~dirty, UNCHANGED copy, Current' = Current,
             stored'[Current] = stored[Current]
      PROVE  copy' = stored'[Current'].count
  BY <1>1 DEF CopyCurrent
<1>2. ASSUME NEW c \in Campaigns, NEW f, Write(c, f), UNCHANGED <<topicVars, step, copy>>
      PROVE  copy' = stored'[Current'].count
  <2>1. step = "execute" /\ Current' = Current /\ Current \in Campaigns
    BY <1>2, AtHand DEF topicVars, Current, AtWork
  <2>2. ~dirty /\ Current # c
    BY <1>2, <2>1, Zenon DEF Write
  <2>3. stored'[Current] = stored[Current]
    BY <1>2, <2>1, <2>2 DEF Write, FeaturesTypeOK, StoreTypeOK
  <2> QED
    BY <1>1, <1>2, <2>1, <2>2, <2>3
<1>3. CASE Store
  <2>1. UNCHANGED <<topicVars, step, copy>>
    BY <1>3, StoreQuiet
  <2>2. ASSUME NEW h \in Handlers, Save(h) PROVE copy' = stored'[Current'].count
    BY <1>2, <2>1, <2>2 DEF Save, FeaturesTypeOK, StoreTypeOK
  <2>3. ASSUME UNCHANGED <<stored, dirty>> PROVE copy' = stored'[Current'].count
    BY <1>1, <2>1, <2>3 DEF topicVars, Current
  <2> QED
    BY <1>2, <1>3, <2>1, <2>2, <2>3 DEF Store, SaveRefused, Load, Put
<1>4. ASSUME NEW e \in Event, Publish(e) PROVE copy' = stored'[Current'].count
  <2>1. step = "execute" /\ position \in 1..Len(events) /\ UNCHANGED <<stored, position, copy, dirty>>
    BY <1>4, AtHand DEF Publish, AtWork
  <2>2. Current' = Current
    BY <1>4, <2>1 DEF Publish, Current, ConsumerInv, ConsumerTypeOK
  <2> QED
    BY <1>1, <2>1, <2>2
<1>5. CASE Read
  BY <1>5 DEF Read, Advance, Current
<1>6. CASE Raise \/ Crash
  BY <1>6 DEF Raise, Crash, GoOn
<1>7. CASE Poll
  BY <1>7 DEF Poll, Polled, Advance, Decoding
<1>8. CASE StartWatch \/ Execute \/ Conflict \/ PersistMetrics \/ Commit \/ Restart
  BY <1>8 DEF StartWatch, Execute, Conflict, PersistMetrics, Commit, Restart, Advance
<1>9. CASE UNCHANGED featureVars
  BY <1>1, <1>9 DEF featureVars, topicVars, Current
<1> QED
  BY <1>3, <1>4, <1>5, <1>6, <1>7, <1>8, <1>9 DEF FeaturesNext, Consumer

LEMMA FeaturesIInvInit == FeaturesInit => FeaturesIInv
<1> SUFFICES ASSUME FeaturesInit PROVE FeaturesIInv
  OBVIOUS
<1>1. StoreTypeOK /\ StoredLoads
  BY DEF FeaturesInit, StoreTypeOK, Features, StoredLoads, Valid
<1>2. ConsumerTypeOK
  BY DEF FeaturesInit, ConsumerTypeOK, AtWork
<1>3. dirty \in BOOLEAN
  BY DEF FeaturesInit
<1>4. /\ CommittedIsHandled /\ UndecodableBlocks /\ PositionSound /\ CountsSound
      /\ CopyCurrent
  BY DEF FeaturesInit, CommittedIsHandled, UndecodableBlocks, PositionSound, CountsSound, Settled,
     CopyCurrent, AtWork
<1> QED
  BY <1>1, <1>2, <1>3, <1>4 DEF FeaturesIInv, FeaturesTypeOK

LEMMA FeaturesIInvStep == FeaturesIInv /\ [FeaturesNext]_featureVars => FeaturesIInv'
<1> SUFFICES ASSUME FeaturesIInv, [FeaturesNext]_featureVars PROVE FeaturesIInv'
  OBVIOUS
<1>1. FeaturesTypeOK /\ StoredLoads /\ ConsumerInv /\ CopyCurrent
  BY DEF FeaturesIInv, FeaturesTypeOK, ConsumerInv
<1>2. StoreTypeOK' /\ StoredLoads' /\ dirty' \in BOOLEAN /\ CopyCurrent'
  BY <1>1, StoreStep, DirtyStep, CopyStep
<1>3. ConsumerInv'
  <2>1. CASE Store
    BY <1>1, <2>1, StoreQuiet, QuietStep
  <2>2. CASE UNCHANGED featureVars
    <3>1. failures \in 0..MaxFailures /\ failures' = failures /\ failures' >= failures
      BY <1>1, <2>2 DEF featureVars, ConsumerInv, ConsumerTypeOK
    <3>2. UNCHANGED <<topicVars, step, copy, historyVars>>
      BY <2>2 DEF featureVars
    <3> QED
      BY <1>1, <3>1, <3>2, QuietStep
  <2> QED
    BY <1>1, <2>1, <2>2, PublishStep, PollStep, ReadStep, ExecuteStep, PersistMetricsStep, CommitStep,
       RestartStep, RaiseStep, CrashStep DEF FeaturesNext, Consumer
<1> QED
  BY <1>2, <1>3 DEF FeaturesIInv, ConsumerInv, FeaturesTypeOK

(* Whatever the requests of feature-store, the events and the faults: what *)
(* is stored can be loaded, what the consumer's group has committed was    *)
(* counted and has its row or failed, an event is counted once for each    *)
(* fault and once more at most, and nothing behind an undecodable event is *)
(* counted (feature-store update_features, stream-consumer main loop).     *)
THEOREM FeaturesCorrect == FeaturesSpec => []FeaturesInv
<1>1. FeaturesIInv => FeaturesInv
  <2> SUFFICES ASSUME FeaturesIInv PROVE CountedOncePerRun
    BY DEF FeaturesIInv, FeaturesInv
  <2>1. failures \in Nat
    BY DEF FeaturesIInv, FeaturesTypeOK, ConsumerTypeOK
  <2>2. ASSUME NEW i \in 1..MaxEvents PROVE counted[i] <= failures + 1 /\ metricRows[i] <= counted[i]
    BY DEF FeaturesIInv, CountsSound
  <2> QED
    BY <2>1, <2>2 DEF CountedOncePerRun
<1> QED
  BY FeaturesIInvInit, FeaturesIInvStep, <1>1, PTL DEF FeaturesSpec

(* Under WATCH the consumer adds one to what the hash holds and undoes no  *)
(* write of another connection; it never returns to an event that failed,  *)
(* as long as it runs.                                                     *)
THEOREM CountingIsAtomic == FeaturesSpec => CountingAddsOne
<1> DEFINE AddsOne == \A i \in 1..MaxEvents :
      /\ counted'[i] # counted[i] => stored' = [stored EXCEPT ![events[i]].count = @ + 1]
      /\ i \in failed => counted'[i] = counted[i] /\ metricRows'[i] = metricRows[i]
<1>1. FeaturesIInv /\ [FeaturesNext]_featureVars => [AddsOne]_featureVars
  <2> SUFFICES ASSUME FeaturesIInv, FeaturesNext PROVE AddsOne
    BY DEF AddsOne
  <2>0. FeaturesTypeOK /\ ConsumerInv /\ CopyCurrent
    BY DEF FeaturesIInv, FeaturesTypeOK, ConsumerInv
  <2>1. ASSUME UNCHANGED <<counted, metricRows>> PROVE AddsOne
    BY <2>1
  <2>2. ASSUME step = "execute", ~dirty, Count, UNCHANGED metricRows PROVE AddsOne
    <3>1. /\ position \in 1..MaxEvents /\ position \notin failed /\ Current \in Campaigns
          /\ copy = stored[Current].count
      BY <2>0, <2>2, AtHand DEF AtWork, CopyCurrent
    <3>2. \A i \in 1..MaxEvents \ {position} : counted'[i] = counted[i]
      BY <2>0, <2>2, CountEffect
    <3>3. stored' = [stored EXCEPT ![events[position]].count = @ + 1]
      BY <2>0, <2>2, <3>1 DEF Count, Current, FeaturesTypeOK, StoreTypeOK
    <3> QED
      BY <2>2, <3>1, <3>2, <3>3
  <2>3. ASSUME step = "persist", InsertMetrics, UNCHANGED counted PROVE AddsOne
    <3>1. position \in 1..MaxEvents /\ position \notin failed
      BY <2>0, <2>3, AtHand DEF AtWork
    <3> QED
      BY <2>0, <2>3, <3>1 DEF InsertMetrics, ConsumerInv, ConsumerTypeOK
  <2>4. CASE Store
    BY <2>0, <2>1, <2>4, StoreQuiet DEF historyVars
  <2>5. CASE Execute
    BY <2>2, <2>5 DEF Execute, Advance
  <2>6. CASE PersistMetrics
    BY <2>3, <2>6 DEF PersistMetrics, Advance
  <2>7. CASE Raise
    BY <2>1, <2>2, <2>3, <2>7 DEF Raise
  <2>8. CASE (\E e \in Event : Publish(e)) \/ Poll \/ StartWatch \/ Read \/ Conflict \/ Commit
               \/ Restart \/ Crash
    BY <2>1, <2>8 DEF Publish, Poll, Polled, StartWatch, Read, Conflict, Commit, Restart, Crash,
       historyVars
  <2> QED
    BY <2>4, <2>5, <2>6, <2>7, <2>8 DEF FeaturesNext, Consumer
<1> QED
  BY FeaturesIInvInit, FeaturesIInvStep, <1>1, PTL DEF FeaturesSpec, CountingAddsOne
=============================================================================

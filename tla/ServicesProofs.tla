--------------------------- MODULE ServicesProofs ---------------------------
(***************************************************************************)
(* Theorems about the components that share no state, the instances of     *)
(* Services, for any values of their constants.                            *)
(***************************************************************************)
EXTENDS Services, FiniteSetTheorems, WellFoundedInduction, TLAPS

-----------------------------------------------------------------------------
(* Finite sets.                                                            *)
(* Two elements are more than one.                                         *)
LEMMA TwoElements ==
    ASSUME NEW S, IsFiniteSet(S), NEW x \in S, NEW y \in S, x # y
    PROVE  Cardinality(S) > 1
<1>1. IsFiniteSet({x}) /\ Cardinality({x}) = 1
  BY FS_Singleton
<1>2. Cardinality({x} \cup {y}) = 1 + 1
  BY <1>1, FS_AddElement
<1>3. {x} \cup {y} \in SUBSET S
  OBVIOUS
<1>4. Cardinality({x} \cup {y}) <= Cardinality(S) /\ Cardinality(S) \in Nat
  BY <1>3, FS_Subset, FS_CardinalityType
<1> QED
  BY <1>2, <1>4

(* In a finite set, a strict order has an element with none before it.     *)
LEMMA FirstOf ==
    ASSUME NEW S, IsFiniteSet(S), S # {}, NEW R,
           \A x \in S : <<x, x>> \notin R,
           \A x, y, z \in S : <<x, y>> \in R /\ <<y, z>> \in R => <<x, z>> \in R
    PROVE  \E x \in S : \A y \in S : <<y, x>> \notin R
<1> DEFINE Before(x) == {y \in S : <<y, x>> \in R}
           T == {Before(x) : x \in S}
<1>1. T \subseteq FiniteSubsetsOf(S) /\ T # {}
  <2>1. \A x \in S : Before(x) \in SUBSET S
    OBVIOUS
  <2> HIDE DEF Before
  <2>2. \A x \in S : IsFiniteSet(Before(x))
    BY <2>1, FS_Subset
  <2> QED
    BY <2>1, <2>2 DEF FiniteSubsetsOf
<1>2. PICK b \in T : \A c \in T : ~(<<c, b>> \in StrictSubsetOrdering(S))
  BY <1>1, FS_StrictSubsetOrderingWellFounded, WFMin, Zenon
<1>3. PICK x \in S : b = Before(x)
  OBVIOUS
<1>4. ASSUME NEW y \in S, <<y, x>> \in R PROVE FALSE
  <2>1. Before(y) \subseteq Before(x) /\ y \in Before(x) /\ y \notin Before(y)
    BY <1>4
  <2>2. <<Before(y), b>> \in StrictSubsetOrdering(S)
    BY <1>3, <2>1 DEF StrictSubsetOrdering
  <2> QED
    BY <1>2, <2>2
<1> QED
  BY <1>4

(* In a finite set, something has the greatest number.                     *)
LEMMA GreatestOf ==
    ASSUME NEW S, IsFiniteSet(S), S # {}, NEW f, \A x \in S : f[x] \in Int
    PROVE  \E x \in S : \A y \in S : f[y] <= f[x]
<1> DEFINE R == {p \in S \X S : f[p[1]] > f[p[2]]}
<1>1. /\ \A x \in S : <<x, x>> \notin R
      /\ \A x, y, z \in S : <<x, y>> \in R /\ <<y, z>> \in R => <<x, z>> \in R
  OBVIOUS
<1> HIDE DEF R
<1>2. PICK x \in S : \A y \in S : <<y, x>> \notin R
  BY <1>1, FirstOf
<1>3. \A y \in S : ~(f[y] > f[x])
  BY <1>2 DEF R
<1> QED
  BY <1>3

-----------------------------------------------------------------------------
(* enterprise_maturity/resilience.py.                                      *)

(* A key that no two callers executed at once has an answer, which is kept *)
(* for good, or one caller at most that may still give it one.             *)
KeysServed ==
    \A k \in ResKeys \ resMet :
        /\ resGave[k] = IF resResponses[k] = None THEN 0 ELSE 1
        /\ \A c \in ResCallers : resCall[c].key = k /\ resCall[c].step \in Controls!Running =>
              resResponses[k] = None
                /\ \A d \in ResCallers \ {c} : ~(resCall[d].key = k /\ resCall[d].step \in Controls!Running)
        /\ \A c \in ResCallers : resCall[c].key = k /\ resCall[c].step = "answered" =>
              resResponses[k] # None /\ resCall[c].answer = resResponses[k]

(* A try inside the breaker began no later than now and has a key.         *)
CallersSound ==
    \A c \in ResCallers :
        /\ resCall[c].start <= resNow
        /\ resCall[c].step # "idle" => resCall[c].key \in ResKeys

ControlsIInv == Controls!TypeOK /\ Controls!OpenAfterFailures /\ KeysServed /\ CallersSound

LEMMA ControlsInit ==
    ASSUME Controls!ResilienceAssumption PROVE Controls!Init => ControlsIInv
<1> SUFFICES ASSUME Controls!Init PROVE ControlsIInv
  OBVIOUS
<1> USE DEF Controls!ResilienceAssumption, Controls!Init, Controls!NoCall
<1>1. Controls!TypeOK
  BY DEF Controls!TypeOK, Controls!Call
<1>2. Controls!OpenAfterFailures
  BY DEF Controls!OpenAfterFailures
<1>3. KeysServed /\ CallersSound
  BY DEF KeysServed, CallersSound, Controls!Running
<1> QED
  BY <1>1, <1>2, <1>3 DEF ControlsIInv

(* A caller's call, but for its step, stays or starts a try now; the tries *)
(* run on or end without an answer.                                        *)
LEMMA CallGoesOn ==
    ASSUME Controls!ResilienceAssumption, ControlsIInv, NEW c \in ResCallers, NEW n,
           resCall[c].step \in Controls!Running, resCall' = [resCall EXCEPT ![c] = n],
           \/ n = [resCall[c] EXCEPT !.step = "inside", !.start = resNow]
           \/ n = Controls!AfterError(c)
    PROVE  /\ resCall' \in [ResCallers -> Controls!Call]
           /\ UNCHANGED <<resResponses, resGave, resMet>> => KeysServed'
           /\ UNCHANGED resNow => CallersSound'
<1> USE DEF Controls!ResilienceAssumption
<1>1. /\ resCall \in [ResCallers -> Controls!Call] /\ resCall[c] \in Controls!Call
      /\ resNow \in 0..ResMaxTime
      /\ KeysServed /\ CallersSound
  BY DEF ControlsIInv, Controls!TypeOK
<1>2. /\ n \in Controls!Call /\ n.key = resCall[c].key /\ n.step \in {"waiting", "inside", "failed"}
      /\ n.start \in {resCall[c].start, resNow}
  <2>1. CASE n = [resCall[c] EXCEPT !.step = "inside", !.start = resNow]
    BY <1>1, <2>1 DEF Controls!Running, Controls!Call
  <2>2. CASE n = [resCall[c] EXCEPT !.step = "failed"]
    BY <1>1, <2>2 DEF Controls!Running, Controls!Call
  <2>3. CASE n = [resCall[c] EXCEPT !.step = "waiting", !.attempt = @ + 1]
               /\ resCall[c].attempt < ResRetries
    <3>1. resCall[c].attempt + 1 \in 0..ResRetries
      BY <1>1, <2>3 DEF Controls!Call
    <3> QED
      BY <1>1, <2>3, <3>1 DEF Controls!Running, Controls!Call
  <2> QED
    BY <2>1, <2>2, <2>3 DEF Controls!AfterError, Controls!Retried
<1>3. \A d \in ResCallers : resCall'[d] = IF d = c THEN n ELSE resCall[d]
  BY <1>1
<1>4. resCall' \in [ResCallers -> Controls!Call]
  BY <1>1, <1>2
<1>5. ASSUME UNCHANGED <<resResponses, resGave, resMet>> PROVE KeysServed'
  BY <1>1, <1>2, <1>3, <1>5 DEF KeysServed, Controls!Running
<1>6. ASSUME UNCHANGED resNow PROVE CallersSound'
  BY <1>1, <1>2, <1>3, <1>6 DEF CallersSound, Controls!Running, Controls!Call
<1> QED
  BY <1>4, <1>5, <1>6

LEMMA ControlsStep ==
    ASSUME Controls!ResilienceAssumption, ControlsIInv, [Controls!Next]_(Controls!vars)
    PROVE  ControlsIInv'
<1> USE DEF Controls!ResilienceAssumption
<1>0. /\ Controls!TypeOK /\ Controls!OpenAfterFailures /\ KeysServed /\ CallersSound
  BY DEF ControlsIInv
<1>1. CASE UNCHANGED Controls!vars
  BY <1>0, <1>1 DEF Controls!vars, ControlsIInv, Controls!TypeOK, Controls!OpenAfterFailures,
     KeysServed, CallersSound
<1>2. CASE Controls!Tick
  <2>1. Controls!TypeOK' /\ Controls!OpenAfterFailures'
    BY <1>0, <1>2 DEF Controls!Tick, Controls!TypeOK, Controls!OpenAfterFailures
  <2>2. KeysServed'
    BY <1>0, <1>2 DEF Controls!Tick, KeysServed
  <2>3. CallersSound'
    BY <1>0, <1>2 DEF Controls!Tick, CallersSound, Controls!TypeOK, Controls!Call
  <2> QED
    BY <2>1, <2>2, <2>3 DEF ControlsIInv
<1>3. ASSUME NEW c \in ResCallers, Controls!Try(c) PROVE ControlsIInv'
  <2>1. /\ resCall[c].step \in Controls!Running
        /\ UNCHANGED <<resResponses, resFailures, resOpenedAt, resNow, resCalls, resGave, resMet>>
    BY <1>3 DEF Controls!Try, Controls!Running
  <2>2. PICK n : /\ resCall' = [resCall EXCEPT ![c] = n]
                 /\ \/ n = [resCall[c] EXCEPT !.step = "inside", !.start = resNow]
                    \/ n = Controls!AfterError(c)
    BY <1>3 DEF Controls!Try
  <2>3. resCall' \in [ResCallers -> Controls!Call] /\ KeysServed' /\ CallersSound'
    BY <2>1, <2>2, CallGoesOn
  <2>a. Controls!TypeOK'
    BY <1>0, <2>1, <2>3 DEF Controls!TypeOK
  <2>4. Controls!OpenAfterFailures'
    BY <1>0, <2>1 DEF Controls!OpenAfterFailures
  <2> QED
    BY <2>3, <2>a, <2>4 DEF ControlsIInv
<1>4. ASSUME NEW c \in ResCallers, Controls!Error(c) PROVE ControlsIInv'
  <2>1. /\ resCall[c].step \in Controls!Running
        /\ resCall' = [resCall EXCEPT ![c] = Controls!AfterError(c)]
        /\ resFailures' = resFailures + 1
        /\ resOpenedAt' = IF resFailures + 1 >= ResThreshold THEN resCall[c].start ELSE resOpenedAt
        /\ UNCHANGED <<resResponses, resNow, resCalls, resGave, resMet>>
    BY <1>4 DEF Controls!Error, Controls!Running, Controls!Opens
  <2>2. resFailures \in Nat /\ resCall[c].start \in 0..ResMaxTime /\ resCall[c].start <= resNow
    BY <1>0 DEF Controls!TypeOK, Controls!Call, CallersSound
  <2>3. /\ resCall' \in [ResCallers -> Controls!Call]
        /\ KeysServed' /\ CallersSound'
    BY <2>1, CallGoesOn
  <2>a. Controls!TypeOK'
    BY <1>0, <2>1, <2>2, <2>3 DEF Controls!TypeOK, Controls!Call
  <2>4. Controls!OpenAfterFailures'
    BY <1>0, <2>1, <2>2 DEF Controls!OpenAfterFailures
  <2> QED
    BY <2>3, <2>a, <2>4 DEF ControlsIInv
<1>5. ASSUME NEW c \in ResCallers, Controls!Succeed(c) PROVE ControlsIInv'
  <2> DEFINE k == resCall[c].key
             n == [resCall[c] EXCEPT !.step = "answered", !.answer = c]
  <2>1. /\ resCall[c].step = "inside" /\ resCall' = [resCall EXCEPT ![c] = n]
        /\ resResponses' = [resResponses EXCEPT ![k] = c] /\ resGave' = [resGave EXCEPT ![k] = @ + 1]
        /\ resFailures' = 0 /\ resOpenedAt' = None /\ UNCHANGED <<resNow, resCalls, resMet>>
    BY <1>5 DEF Controls!Succeed
  <2>2. k \in ResKeys
    BY <1>0, <2>1 DEF CallersSound
  <2>3. /\ \A d \in ResCallers : resCall'[d] = IF d = c THEN n ELSE resCall[d]
        /\ n.step = "answered" /\ n.answer = c /\ n.key = k /\ n.start = resCall[c].start
        /\ \A x \in ResKeys : /\ resResponses'[x] = IF x = k THEN c ELSE resResponses[x]
                              /\ resGave'[x] = IF x = k THEN resGave[k] + 1 ELSE resGave[x]
    BY <1>0, <2>1 DEF Controls!TypeOK
  <2>4. Controls!TypeOK'
    <3>1. n \in Controls!Call
      <4>1. resCall[c] \in Controls!Call
        BY <1>0 DEF Controls!TypeOK
      <4> QED
        BY <4>1 DEF Controls!Call
    <3> HIDE DEF n, k
    <3> QED
      BY <1>0, <2>1, <2>2, <3>1 DEF Controls!TypeOK
  <2>5. Controls!OpenAfterFailures'
    BY <2>1 DEF Controls!OpenAfterFailures
  <2>6. CallersSound'
    <3> HIDE DEF k, n
    <3> QED
      BY <1>0, <2>1, <2>2, <2>3 DEF CallersSound, k
  <2>7. ASSUME NEW x \in ResKeys \ resMet'
        PROVE  /\ resGave'[x] = IF resResponses'[x] = None THEN 0 ELSE 1
               /\ \A e \in ResCallers : resCall'[e].key = x /\ resCall'[e].step \in Controls!Running =>
                    resResponses'[x] = None /\ \A d \in ResCallers \ {e} :
                      ~(resCall'[d].key = x /\ resCall'[d].step \in Controls!Running)
               /\ \A e \in ResCallers : resCall'[e].key = x /\ resCall'[e].step = "answered" =>
                    resResponses'[x] # None /\ resCall'[e].answer = resResponses'[x]
    <3>1. x \in ResKeys \ resMet
      BY <2>1, <2>7
    <3> HIDE DEF k, n
    <3>2. CASE x # k
      BY <1>0, <2>3, <3>1, <3>2 DEF KeysServed, Controls!Running
    <3>3. CASE x = k
      <4>1. /\ resResponses[k] = None /\ resGave[k] = 0
            /\ \A d \in ResCallers \ {c} : ~(resCall[d].key = k /\ resCall[d].step \in Controls!Running)
        BY <1>0, <2>1, <3>1, <3>3 DEF KeysServed, Controls!Running, k
      <4>2. \A d \in ResCallers : ~(resCall[d].key = k /\ resCall[d].step = "answered")
        BY <1>0, <3>1, <3>3, <4>1 DEF KeysServed
      <4> QED
        BY <2>3, <3>3, <4>1, <4>2 DEF Controls!Running
    <3> QED
      BY <3>2, <3>3
  <2> QED
    BY <2>4, <2>5, <2>6, <2>7 DEF ControlsIInv, KeysServed
<1>6. ASSUME NEW c \in ResCallers, NEW k \in ResKeys, Controls!Execute(c, k) PROVE ControlsIInv'
  <2> DEFINE n == IF resResponses[k] # None
                  THEN [Controls!NoCall EXCEPT !.step = "answered", !.key = k, !.answer = resResponses[k]]
                  ELSE [Controls!NoCall EXCEPT !.step = "waiting", !.key = k]
  <2>1. /\ resCall[c].step \notin Controls!Running /\ resCall' = [resCall EXCEPT ![c] = n]
        /\ resCalls' \in 0..ResMaxCalls
        /\ UNCHANGED <<resResponses, resFailures, resOpenedAt, resNow, resGave>>
    BY <1>0, <1>6 DEF Controls!Execute, Controls!TypeOK
  <2>2. resMet' = resMet \cup {x \in {k} : resResponses[k] = None /\ \E d \in ResCallers \ {c} :
                              resCall[d].key = k /\ resCall[d].step \in Controls!Running}
    BY <1>6 DEF Controls!Execute
  <2>3. /\ n.step = (IF resResponses[k] # None THEN "answered" ELSE "waiting")
        /\ n.key = k /\ n.start = 0 /\ n.attempt = 0
        /\ n.answer = (IF resResponses[k] # None THEN resResponses[k] ELSE None)
    BY DEF Controls!NoCall
  <2>4. Controls!TypeOK'
    <3>1. n \in Controls!Call
      <4>1. resResponses[k] \in ResCallers \cup {None} /\ 0 \in 0..ResMaxTime /\ 0 \in 0..ResRetries
        BY <1>0 DEF Controls!TypeOK
      <4>2. [Controls!NoCall EXCEPT !.step = "waiting", !.key = k] \in Controls!Call
        BY <4>1 DEF Controls!Call, Controls!NoCall, Controls!Running
      <4>3. [Controls!NoCall EXCEPT !.step = "answered", !.key = k, !.answer = resResponses[k]] \in Controls!Call
        BY <4>1 DEF Controls!Call, Controls!NoCall
      <4> QED
        BY <4>2, <4>3
    <3> HIDE DEF n
    <3> QED
      BY <1>0, <2>1, <2>2, <3>1 DEF Controls!TypeOK
  <2>5. \A d \in ResCallers : resCall'[d] = IF d = c THEN n ELSE resCall[d]
    BY <1>0, <2>1 DEF Controls!TypeOK
  <2> HIDE DEF n
  <2>6. Controls!OpenAfterFailures'
    BY <1>0, <2>1 DEF Controls!OpenAfterFailures
  <2>7. CallersSound'
    BY <1>0, <2>1, <2>3, <2>5 DEF CallersSound, Controls!TypeOK
  <2>8. ASSUME NEW x \in ResKeys \ resMet'
        PROVE  /\ resGave'[x] = IF resResponses'[x] = None THEN 0 ELSE 1
               /\ \A e \in ResCallers : resCall'[e].key = x /\ resCall'[e].step \in Controls!Running =>
                    resResponses'[x] = None /\ \A d \in ResCallers \ {e} :
                      ~(resCall'[d].key = x /\ resCall'[d].step \in Controls!Running)
               /\ \A e \in ResCallers : resCall'[e].key = x /\ resCall'[e].step = "answered" =>
                    resResponses'[x] # None /\ resCall'[e].answer = resResponses'[x]
    <3>1. x \in ResKeys \ resMet
      BY <2>2, <2>8
    <3>2. CASE x # k
      BY <1>0, <2>1, <2>3, <2>5, <3>1, <3>2 DEF KeysServed, Controls!Running
    <3>3. CASE x = k /\ resResponses[k] = None
      <4>1. \A d \in ResCallers \ {c} : ~(resCall[d].key = k /\ resCall[d].step \in Controls!Running)
        BY <2>2, <2>8, <3>3
      <4>2. resGave[k] = 0 /\ \A d \in ResCallers : ~(resCall[d].key = k /\ resCall[d].step = "answered")
        BY <1>0, <3>1, <3>3 DEF KeysServed
      <4> QED
        BY <2>1, <2>3, <2>5, <3>3, <4>1, <4>2 DEF Controls!Running
    <3>4. CASE x = k /\ resResponses[k] # None
      BY <1>0, <2>1, <2>3, <2>5, <3>1, <3>4 DEF KeysServed, Controls!Running
    <3> QED
      BY <3>2, <3>3, <3>4
  <2> QED
    BY <2>4, <2>6, <2>7, <2>8 DEF ControlsIInv, KeysServed
<1> QED
  BY <1>1, <1>2, <1>3, <1>4, <1>5, <1>6 DEF Controls!Next

(* Whoever calls at the same time, an action whose answer is kept is never *)
(* run to an answer again, except for a key two callers met at, and the    *)
(* breaker is open, or was, exactly on enough failures since the last      *)
(* success (resilience.py, IdempotencyStore, RetryPolicy, CircuitBreaker). *)
THEOREM ControlsCorrect ==
    ASSUME Controls!ResilienceAssumption PROVE Controls!Spec => []ResilienceInv
<1>1. Controls!Init => ControlsIInv
  BY ControlsInit
<1>2. ControlsIInv /\ [Controls!Next]_(Controls!vars) => ControlsIInv'
  BY ControlsStep
<1>3. ControlsIInv => Controls!ResilienceInv
  BY DEF ControlsIInv, KeysServed, Controls!ResilienceInv, Controls!AnsweredOnce
<1> QED
  BY <1>1, <1>2, <1>3, PTL DEF Controls!Spec, ResilienceInv

-----------------------------------------------------------------------------
(* services/auto-ml.                                                       *)

(* Nothing astray, one run at most is under way; until it deploys, its     *)
(* metric is the one kept, which is that of the model deployed; from then  *)
(* on the model deployed is its own.                                       *)
RunsSound ==
    /\ \A r \in ProRuns : \A q \in ProRuns : proRun[r].step \in Promotion!Steps /\ proRun[q].step \in Promotion!Steps => r = q
    /\ \A r \in ProRuns :
         /\ proRun[r].step \in {"train", "evaluate", "deploy"} =>
              proRun[r].previous = proMetric /\ proMetric = proDeployed
         /\ proRun[r].step = "deploy" => proRun[r].score >= proRun[r].previous + ProDelta
         /\ proRun[r].step \in {"truncate", "save"} => proDeployed = proRun[r].score
    /\ (\A r \in ProRuns : proRun[r].step \notin Promotion!Steps) => proMetric = proDeployed

PromotionIInv == Promotion!TypeOK /\ (~proAstray => RunsSound)

LEMMA PromotionInit ==
    ASSUME Promotion!PromotionAssumption PROVE Promotion!Init => PromotionIInv
<1> SUFFICES ASSUME Promotion!Init PROVE PromotionIInv
  OBVIOUS
<1>1. \A r \in ProRuns : proRun[r] = [step |-> "idle", previous |-> 0, score |-> 0]
  BY DEF Promotion!Init
<1>2. Promotion!TypeOK
  BY DEF Promotion!Init, Promotion!TypeOK
<1>3. RunsSound
  BY <1>1 DEF Promotion!Init, RunsSound, Promotion!Steps
<1> QED
  BY <1>2, <1>3 DEF PromotionIInv

LEMMA PromotionStep ==
    ASSUME Promotion!PromotionAssumption, PromotionIInv, NEW r \in ProRuns,
           \/ Promotion!StartRun(r) \/ Promotion!Train(r) \/ Promotion!Evaluate(r)
           \/ Promotion!Deploy(r) \/ Promotion!SaveMetric(r) \/ Promotion!Stop(r)
    PROVE  PromotionIInv' /\ (proDeployed' # proDeployed /\ ~proAstray => proDeployed' >= proDeployed + ProDelta)
<1> USE DEF Promotion!PromotionAssumption, Promotion!Steps, Promotion!Ends
<1> DEFINE Run == [step : Promotion!Steps \cup Promotion!Ends \cup {"idle"},
                   previous : ProScores \cup {0}, score : ProScores \cup {0}]
           Grows == proDeployed' # proDeployed /\ ~proAstray => proDeployed' >= proDeployed + ProDelta
<1>0. Promotion!TypeOK /\ (~proAstray => RunsSound)
  BY DEF PromotionIInv
<1>1. CASE Promotion!StartRun(r)
  <2>1. Promotion!TypeOK' /\ Grows
    <3>1. /\ proRun' = [proRun EXCEPT ![r].step = "train", ![r].previous = proMetric]
          /\ proAstray' \in BOOLEAN /\ UNCHANGED <<proMetric, proDeployed>>
      BY <1>1 DEF Promotion!StartRun
    <3>2. proRun \in [ProRuns -> Run] /\ proMetric \in ProScores \cup {0}
      BY <1>0 DEF Promotion!TypeOK
    <3> DEFINE g == [proRun EXCEPT ![r].step = "train"]
    <3>3. g \in [ProRuns -> Run] /\ proRun' = [g EXCEPT ![r].previous = proMetric]
      BY <3>1, <3>2
    <3> HIDE DEF g
    <3>4. proRun' \in [ProRuns -> Run]
      BY <3>2, <3>3
    <3> QED
      BY <1>0, <3>1, <3>4 DEF Promotion!TypeOK
  <2>2. ASSUME ~proAstray' PROVE RunsSound'
    <3>1. ~proAstray /\ \A q \in ProRuns : proRun[q].step \notin Promotion!Steps
      BY <1>1, <2>2 DEF Promotion!StartRun, Promotion!Overlaps
    <3>2. /\ proRun'[r].step = "train" /\ proRun'[r].previous = proMetric
          /\ UNCHANGED <<proMetric, proDeployed>>
          /\ \A q \in ProRuns \ {r} : proRun'[q] = proRun[q]
      BY <1>0, <1>1 DEF Promotion!StartRun, Promotion!TypeOK
    <3> QED
      BY <1>0, <3>1, <3>2 DEF RunsSound
  <2> QED
    BY <2>1, <2>2 DEF PromotionIInv
<1>2. CASE Promotion!Train(r)
  <2>1. PICK step \in {"evaluate", "failed"} : proRun' = [proRun EXCEPT ![r].step = step]
    BY <1>2 DEF Promotion!Train
  <2>2. /\ proRun[r].step = "train" /\ UNCHANGED <<proMetric, proDeployed, proAstray>>
        /\ proRun'[r].step = step /\ proRun'[r].previous = proRun[r].previous
        /\ \A q \in ProRuns \ {r} : proRun'[q] = proRun[q]
    BY <1>0, <1>2, <2>1 DEF Promotion!Train, Promotion!TypeOK
  <2>3. Promotion!TypeOK' /\ Grows
    BY <1>0, <2>1, <2>2 DEF Promotion!TypeOK
  <2>4. ASSUME ~proAstray' PROVE RunsSound'
    BY <1>0, <2>2, <2>4 DEF RunsSound
  <2> QED
    BY <2>3, <2>4 DEF PromotionIInv
<1>3. CASE Promotion!Evaluate(r)
  <2>1. proRun[r].step = "evaluate" /\ UNCHANGED <<proMetric, proDeployed, proAstray>>
    BY <1>3 DEF Promotion!Evaluate
  <2>2. PICK n : /\ proRun' = [proRun EXCEPT ![r] = n]
                 /\ \/ n = [proRun[r] EXCEPT !.step = "failed"]
                    \/ \E s \in ProScores :
                         n = [proRun[r] EXCEPT !.score = s,
                              !.step = IF Promotion!Promotes(proRun[r].previous, s) THEN "deploy" ELSE "rejected"]
    <3> DEFINE Verdict(s) == IF Promotion!Promotes(proRun[r].previous, s) THEN "deploy" ELSE "rejected"
    <3>1. proRun \in [ProRuns -> Run] /\ proRun[r] \in Run
      BY <1>0 DEF Promotion!TypeOK
    <3>2. CASE proRun' = [proRun EXCEPT ![r].step = "failed"]
      BY <3>1, <3>2
    <3>3. ASSUME NEW s \in ProScores, proRun' = [proRun EXCEPT ![r].score = s, ![r].step = Verdict(s)]
          PROVE  proRun' = [proRun EXCEPT ![r] = [proRun[r] EXCEPT !.score = s, !.step = Verdict(s)]]
      <4> HIDE DEF Run, Verdict
      <4> QED
        BY <3>1, <3>3
    <3> QED
      BY <1>3, <3>2, <3>3 DEF Promotion!Evaluate
  <2>3. /\ n \in Run /\ n.step \in {"failed", "deploy", "rejected"} /\ n.previous = proRun[r].previous
        /\ n.step = "deploy" => n.score >= n.previous + ProDelta
    <3>1. proRun[r] \in Run
      BY <1>0 DEF Promotion!TypeOK
    <3>2. CASE n = [proRun[r] EXCEPT !.step = "failed"]
      BY <3>1, <3>2
    <3>3. ASSUME NEW s \in ProScores, NEW step \in {"deploy", "rejected"},
                 n = [proRun[r] EXCEPT !.score = s, !.step = step],
                 step = "deploy" => s >= proRun[r].previous + ProDelta
          PROVE  /\ n \in Run /\ n.step \in {"failed", "deploy", "rejected"}
                 /\ n.previous = proRun[r].previous
                 /\ n.step = "deploy" => n.score >= n.previous + ProDelta
      BY <3>1, <3>3
    <3> QED
      BY <2>2, <3>2, <3>3 DEF Promotion!Promotes
  <2>4. \A q \in ProRuns : proRun'[q] = IF q = r THEN n ELSE proRun[q]
    BY <1>0, <2>2 DEF Promotion!TypeOK
  <2>5. Promotion!TypeOK' /\ Grows
    BY <1>0, <2>1, <2>2, <2>3 DEF Promotion!TypeOK
  <2>6. ASSUME ~proAstray' PROVE RunsSound'
    BY <1>0, <2>1, <2>3, <2>4, <2>6 DEF RunsSound
  <2> QED
    BY <2>5, <2>6 DEF PromotionIInv
<1>4. CASE Promotion!Deploy(r)
  <2>1. /\ proRun[r].step = "deploy" /\ UNCHANGED proMetric /\ proRun'[r].score = proRun[r].score
        /\ \/ proRun'[r].step = "truncate" /\ proDeployed' = proRun[r].score /\ proAstray' = proAstray
           \/ /\ proRun'[r].step = "failed" /\ proDeployed' \in {proDeployed, proRun[r].score}
              /\ proAstray' = (proAstray \/ proDeployed' # proDeployed)
        /\ \A q \in ProRuns \ {r} : proRun'[q] = proRun[q]
    BY <1>0, <1>4 DEF Promotion!Deploy, Promotion!TypeOK
  <2>2. Promotion!TypeOK'
    <3>1. PICK step \in {"truncate", "failed"} : proRun' = [proRun EXCEPT ![r].step = step]
      BY <1>4 DEF Promotion!Deploy
    <3>2. proRun' \in [ProRuns -> Run]
      BY <1>0, <3>1 DEF Promotion!TypeOK
    <3>3. proRun[r].score \in ProScores \cup {0} /\ proAstray \in BOOLEAN
      BY <1>0 DEF Promotion!TypeOK
    <3>4. proDeployed' \in ProScores \cup {0} /\ proAstray' \in BOOLEAN
      BY <1>0, <2>1, <3>3 DEF Promotion!TypeOK
    <3> QED
      BY <1>0, <2>1, <3>2, <3>4 DEF Promotion!TypeOK
  <2>3. Grows
    <3> SUFFICES ASSUME proDeployed' # proDeployed, ~proAstray
                 PROVE  proDeployed' >= proDeployed + ProDelta
      OBVIOUS
    <3>1. proDeployed' = proRun[r].score /\ proRun[r].score >= proRun[r].previous + ProDelta
            /\ proRun[r].previous = proDeployed
      BY <1>0, <2>1 DEF RunsSound
    <3> QED
      BY <3>1
  <2>4. ASSUME ~proAstray' PROVE RunsSound'
    <3>0. proAstray' = proAstray \/ proAstray' = (proAstray \/ proDeployed' # proDeployed)
      BY <2>1
    <3>1. RunsSound
      BY ONLY <1>0, <2>4, <3>0, Zenon
    <3>2. \A q \in ProRuns \ {r} : proRun'[q].step \notin Promotion!Steps
      BY <2>1, <3>1 DEF RunsSound
    <3>3. CASE proRun'[r].step = "truncate" /\ proDeployed' = proRun[r].score
      BY <2>1, <3>2, <3>3 DEF RunsSound
    <3>4. CASE proRun'[r].step = "failed" /\ proDeployed' = proDeployed
      BY <2>1, <3>1, <3>2, <3>4 DEF RunsSound
    <3> QED
      BY <2>1, <2>4, <3>3, <3>4
  <2> QED
    BY <2>2, <2>3, <2>4 DEF PromotionIInv
<1>5. CASE Promotion!SaveMetric(r)
  <2>1. /\ UNCHANGED <<proDeployed, proAstray>> /\ proRun'[r].score = proRun[r].score
        /\ \/ proRun[r].step = "truncate" /\ proRun'[r].step = "save"
           \/ proRun[r].step = "save" /\ proRun'[r].step = "promoted" /\ proMetric' = proRun[r].score
        /\ \A q \in ProRuns \ {r} : proRun'[q] = proRun[q]
    BY <1>0, <1>5 DEF Promotion!SaveMetric, Promotion!TypeOK
  <2>2. Promotion!TypeOK' /\ Grows
    BY <1>0, <1>5 DEF Promotion!SaveMetric, Promotion!TypeOK
  <2>3. ASSUME ~proAstray' PROVE RunsSound'
    BY <1>0, <2>1, <2>3 DEF RunsSound
  <2> QED
    BY <2>2, <2>3 DEF PromotionIInv
<1>6. CASE Promotion!Stop(r)
  <2>1. /\ proRun[r].step \in Promotion!Steps /\ proRun'[r].step = "failed"
        /\ UNCHANGED <<proMetric, proDeployed>>
        /\ proAstray' = (proAstray \/ proRun[r].step \in {"truncate", "save"})
        /\ \A q \in ProRuns \ {r} : proRun'[q] = proRun[q]
    BY <1>0, <1>6 DEF Promotion!Stop, Promotion!TypeOK
  <2>2. Promotion!TypeOK' /\ Grows
    BY <1>0, <1>6 DEF Promotion!Stop, Promotion!TypeOK
  <2>3. ASSUME ~proAstray' PROVE RunsSound'
    BY <1>0, <2>1, <2>3 DEF RunsSound
  <2> QED
    BY <2>2, <2>3 DEF PromotionIInv
<1> QED
  BY <1>1, <1>2, <1>3, <1>4, <1>5, <1>6

(* A model is replaced only by one that scores better by the delta, and    *)
(* the metric kept follows it, unless runs overlapped or one ended between *)
(* its deployment and its save (auto-ml, run_loop).                        *)
THEOREM PromotionsCorrect ==
    ASSUME Promotion!PromotionAssumption PROVE Promotion!Spec => PromotionsImprove
<1>1. Promotion!Init => PromotionIInv
  BY PromotionInit
<1>2. PromotionIInv /\ [Promotion!Next]_(Promotion!vars) =>
        PromotionIInv' /\ (proDeployed' # proDeployed /\ ~proAstray => proDeployed' >= proDeployed + ProDelta)
  <2> SUFFICES ASSUME PromotionIInv, [Promotion!Next]_(Promotion!vars)
               PROVE  PromotionIInv' /\ (proDeployed' # proDeployed /\ ~proAstray => proDeployed' >= proDeployed + ProDelta)
    OBVIOUS
  <2>1. CASE UNCHANGED Promotion!vars
    BY <2>1 DEF Promotion!vars, PromotionIInv, Promotion!TypeOK, RunsSound
  <2>2. CASE Promotion!Next
    BY <2>2, PromotionStep DEF Promotion!Next
  <2> QED
    BY <2>1, <2>2
<1>3. PromotionIInv' => Promotion!MetricOfDeployed'
  BY DEF PromotionIInv, RunsSound, Promotion!MetricOfDeployed
<1>4. PromotionIInv /\ PromotionIInv' /\ [Promotion!Next]_(Promotion!vars) =>
        [Promotion!MetricOfDeployed' /\ (proDeployed' # proDeployed /\ ~proAstray => proDeployed' >= proDeployed + ProDelta)]_(Promotion!vars)
  BY <1>2, <1>3
<1> QED
  BY <1>1, <1>2, <1>4, PTL DEF Promotion!Spec, PromotionsImprove, Promotion!PromotionsImprove

-----------------------------------------------------------------------------
(* services/model-registry and rl-policy's training.                      *)

Request == [step : Registry!Steps \cup {"idle", "stored", "refused", "failed"},
            file : RegFiles \cup {None}, temp : Registry!Content]

(* What is stored anywhere was written by a training that had begun.       *)
Written(x) == x \in RegTrainings => regTraining[x] # "idle"

ContentSound ==
    /\ Written(regPolicy)
    /\ \A f \in RegFiles : Written(regBase[f]) /\ Written(regShared[f])
    /\ \A c \in RegClients : Written(regReg[c].temp)

(* A request that goes on has a source, and a version in the registry's    *)
(* own store when it is about to copy it to the shared one.                *)
RequestsSound ==
    \A c \in RegClients :
        /\ regReg[c].step # "idle" => regReg[c].file \in RegFiles
        /\ regReg[c].step \in Registry!Steps => regPolicy # None
        /\ regReg[c].step \in {"moveBase", "moveShared"} => regReg[c].temp \notin {None, Empty}
        /\ regReg[c].step \in {"openShared", "moveShared"} => regBase[regReg[c].file] # None

(* On a file at which no two requests met, one works at a time, and still  *)
(* finds the place of its copy free when it moves the copy there.          *)
Works(c, f) == regReg[c].file = f /\ regReg[c].step \in Registry!Steps

OneAtATime ==
    \A f \in RegFiles \ regMet : \A c \in RegClients : Works(c, f) =>
        /\ \A d \in RegClients : Works(d, f) => d = c
        /\ regReg[c].step = "moveBase" => regBase[f] = None
        /\ regReg[c].step = "moveShared" => regShared[f] = None

SharedAfterBase == \A f \in RegFiles : regShared[f] # None => regBase[f] # None

RegistryIInv ==
    /\ Registry!TypeOK /\ ContentSound /\ RequestsSound /\ OneAtATime /\ SharedAfterBase
    /\ Registry!StoredInBoth

LEMMA RegistryInit ==
    ASSUME Registry!RegistryAssumption PROVE Registry!Init => RegistryIInv
<1> SUFFICES ASSUME Registry!Init PROVE RegistryIInv
  OBVIOUS
<1> USE DEF Registry!RegistryAssumption, Registry!Init, Registry!NoRequest
<1>1. Registry!TypeOK
  BY DEF Registry!TypeOK, Registry!Content
<1>2. ContentSound
  BY DEF ContentSound, Written
<1>3. RequestsSound /\ OneAtATime
  BY DEF RequestsSound, OneAtATime, Works, Registry!Steps
<1>4. SharedAfterBase /\ Registry!StoredInBoth
  BY DEF SharedAfterBase, Registry!StoredInBoth
<1> QED
  BY <1>1, <1>2, <1>3, <1>4 DEF RegistryIInv

(* One request goes on or ends, and no store is touched.                   *)
LEMMA RequestGoesOn ==
    ASSUME Registry!RegistryAssumption, RegistryIInv, NEW c \in RegClients,
           NEW step \in Registry!Steps \cup {"refused", "failed"}, NEW temp \in Registry!Content,
           regReg[c].step \in Registry!Steps, Registry!Go(c, step, temp), Written(temp),
           UNCHANGED <<regPolicy, regTraining, regBase, regShared, regSent, regMet>>,
           step \in {"moveBase", "moveShared"} => temp \notin {None, Empty},
           step \in {"openShared", "moveShared"} => regBase[regReg[c].file] # None,
           step = "moveBase" => regBase[regReg[c].file] = None,
           step = "moveShared" => regShared[regReg[c].file] = None
    PROVE  RegistryIInv'
<1>0. /\ Registry!TypeOK /\ ContentSound /\ RequestsSound /\ OneAtATime /\ SharedAfterBase
      /\ Registry!StoredInBoth
  BY DEF RegistryIInv
<1> DEFINE n == [regReg[c] EXCEPT !.step = step, !.temp = temp]
<1>1. regReg \in [RegClients -> Request] /\ regReg[c] \in Request
  BY <1>0 DEF Registry!TypeOK, Request
<1>2. n \in Request /\ n.step = step /\ n.temp = temp /\ n.file = regReg[c].file
  BY <1>1 DEF Request
<1>3. regReg' \in [RegClients -> Request]
        /\ \A d \in RegClients : regReg'[d] = IF d = c THEN n ELSE regReg[d]
  BY <1>1, <1>2 DEF Registry!Go, Request
<1> HIDE DEF n
<1>4. Registry!TypeOK'
  BY <1>0, <1>3 DEF Registry!TypeOK, Request, Registry!Content
<1>5. ContentSound'
  BY <1>0, <1>2, <1>3 DEF ContentSound, Written
<1>6. RequestsSound'
  BY <1>0, <1>2, <1>3 DEF RequestsSound, Registry!Steps
<1>7. OneAtATime'
  <2>1. \A d \in RegClients : \A f \in RegFiles : Works(d, f)' => Works(d, f)
    BY <1>2, <1>3 DEF Works
  <2> QED
    BY <1>0, <1>2, <1>3, <2>1 DEF OneAtATime, Works
<1>8. SharedAfterBase' /\ Registry!StoredInBoth'
  BY <1>0, <1>2, <1>3 DEF SharedAfterBase, Registry!StoredInBoth,
     Registry!Steps
<1> QED
  BY <1>4, <1>5, <1>6, <1>7, <1>8 DEF RegistryIInv

LEMMA RegistryStep ==
    ASSUME Registry!RegistryAssumption, RegistryIInv, [Registry!Next]_(Registry!vars)
    PROVE  RegistryIInv'
<1> USE DEF Registry!RegistryAssumption
<1>0. /\ Registry!TypeOK /\ ContentSound /\ RequestsSound /\ OneAtATime /\ SharedAfterBase
      /\ Registry!StoredInBoth
  BY DEF RegistryIInv
<1>a. regReg \in [RegClients -> Request]
  BY <1>0 DEF Registry!TypeOK, Request
<1>1. CASE UNCHANGED Registry!vars
  BY <1>0, <1>1 DEF Registry!vars, RegistryIInv, Registry!TypeOK, ContentSound, Written,
     RequestsSound,
     OneAtATime, Works, SharedAfterBase, Registry!StoredInBoth
<1>2. ASSUME NEW t \in RegTrainings, Registry!TrainOpen(t) \/ Registry!TrainWrite(t) PROVE RegistryIInv'
  <2>1. /\ UNCHANGED <<regBase, regShared, regReg, regSent, regMet>>
        /\ regTraining' \in [RegTrainings -> {"idle", "writing", "done"}]
        /\ regTraining'[t] # "idle" /\ \A u \in RegTrainings \ {t} : regTraining'[u] = regTraining[u]
        /\ regPolicy' \in {Empty, Torn, t}
    BY <1>0, <1>2 DEF Registry!TrainOpen, Registry!TrainWrite, Registry!TypeOK
  <2>2. Registry!TypeOK'
    BY <1>0, <2>1 DEF Registry!TypeOK, Registry!Content
  <2>3. ContentSound'
    BY <1>0, <2>1 DEF ContentSound, Written
  <2>4. RequestsSound'
    BY <1>0, <2>1 DEF RequestsSound
  <2>5. OneAtATime' /\ SharedAfterBase' /\ Registry!StoredInBoth'
    BY <1>0, <2>1 DEF OneAtATime, Works, SharedAfterBase, Registry!StoredInBoth
  <2> QED
    BY <2>2, <2>3, <2>4, <2>5 DEF RegistryIInv
<1>3. ASSUME NEW c \in RegClients, NEW f \in RegFiles, Registry!Register(c, f) PROVE RegistryIInv'
  <2> DEFINE n == [step |-> IF regPolicy = None THEN "failed" ELSE "check", file |-> f, temp |-> None]
  <2>1. /\ regReg[c].step \notin Registry!Steps /\ regSent' \in 0..RegMaxRequests
        /\ regMet' = IF Registry!Meeting(c, f) THEN regMet \cup {f} ELSE regMet
        /\ UNCHANGED <<regPolicy, regTraining, regBase, regShared>>
    BY <1>0, <1>3 DEF Registry!Register, Registry!TypeOK
  <2>2. n \in Request /\ n.file = f /\ n.temp = None
          /\ n.step = IF regPolicy = None THEN "failed" ELSE "check"
    BY DEF Request, Registry!Steps, Registry!Content
  <2>3. regReg' \in [RegClients -> Request]
          /\ \A d \in RegClients : regReg'[d] = IF d = c THEN n ELSE regReg[d]
    <3> HIDE DEF n
    <3> QED
      BY <1>3, <1>a, <2>2 DEF Registry!Register, n
  <2> HIDE DEF n
  <2>4. Registry!TypeOK'
    BY <1>0, <2>1, <2>3 DEF Registry!TypeOK, Request, Registry!Content
  <2>5. ContentSound'
    BY <1>0, <2>1, <2>2, <2>3 DEF ContentSound, Written
  <2>6. RequestsSound'
    BY <1>0, <2>1, <2>2, <2>3 DEF RequestsSound, Registry!Steps
  <2>7. OneAtATime'
    <3> SUFFICES ASSUME NEW g \in RegFiles \ regMet', NEW d \in RegClients, Works(d, g)'
                 PROVE  /\ \A e \in RegClients : Works(e, g)' => e = d
                        /\ regReg'[d].step = "moveBase" => regBase'[g] = None
                        /\ regReg'[d].step = "moveShared" => regShared'[g] = None
      BY DEF OneAtATime
    <3>1. CASE g = f
      BY <2>1, <2>2, <2>3, <3>1 DEF Works, Registry!Meeting
    <3>2. CASE g # f
      BY <1>0, <2>1, <2>2, <2>3, <3>2 DEF OneAtATime, Works
    <3> QED
      BY <3>1, <3>2
  <2>8. SharedAfterBase' /\ Registry!StoredInBoth'
    BY <1>0, <2>1, <2>2, <2>3 DEF SharedAfterBase, Registry!StoredInBoth
  <2> QED
    BY <2>4, <2>5, <2>6, <2>7, <2>8 DEF RegistryIInv
<1>4. ASSUME NEW c \in RegClients, Registry!Check(c) \/ Registry!Fail(c) PROVE RegistryIInv'
  <2>1. PICK step \in {"refused", "openBase", "failed"} : Registry!Go(c, step, None)
    BY <1>4 DEF Registry!Check, Registry!Fail
  <2>2. regReg[c].step \in Registry!Steps
          /\ UNCHANGED <<regPolicy, regTraining, regBase, regShared, regSent, regMet>>
    BY <1>4 DEF Registry!Check, Registry!Fail, Registry!Steps
  <2>3. /\ step \in Registry!Steps \cup {"refused", "failed"} /\ None \in Registry!Content
        /\ Written(None)
        /\ step \notin {"moveBase", "moveShared", "openShared"}
    BY DEF Registry!Steps, Registry!Content, Written
  <2> QED
    BY <2>1, <2>2, <2>3, RequestGoesOn
<1>5. ASSUME NEW c \in RegClients,
             \/ Registry!Copy(c, regBase, "openBase", "moveBase")
             \/ Registry!Copy(c, regShared, "openShared", "moveShared")
      PROVE  RegistryIInv'
  <2> DEFINE copied == IF regPolicy = Empty THEN Torn ELSE regPolicy
  <2>1. /\ regReg[c].step \in {"openBase", "openShared"}
        /\ UNCHANGED <<regPolicy, regTraining, regBase, regShared, regSent, regMet>>
    BY <1>5 DEF Registry!Copy
  <2>2. PICK step \in {"refused", "moveBase", "moveShared"}, temp \in {None, copied} :
             /\ Registry!Go(c, step, temp)
             /\ step # "refused" => temp = copied
             /\ step = "moveBase" => regBase[regReg[c].file] = None
             /\ step = "moveShared" => regReg[c].step = "openShared" /\ regShared[regReg[c].file] = None
    BY <1>5 DEF Registry!Copy
  <2>3. regPolicy \in Registry!Content /\ regPolicy # None /\ Written(regPolicy)
    BY <1>0, <2>1 DEF Registry!TypeOK, RequestsSound, ContentSound, Registry!Steps
  <2>4. copied \in Registry!Content \ {None, Empty} /\ Written(copied)
    BY <2>3 DEF Registry!Content, Written
  <2>5. /\ step \in Registry!Steps \cup {"refused", "failed"} /\ temp \in Registry!Content
        /\ Written(temp)
        /\ regReg[c].step \in Registry!Steps /\ step # "openShared"
        /\ step \in {"moveBase", "moveShared"} => temp \notin {None, Empty}
        /\ step = "moveShared" => regBase[regReg[c].file] # None
    BY <1>0, <2>1, <2>2, <2>4 DEF Registry!Steps, Registry!Content, Written, RequestsSound
  <2> QED
    BY <2>1, <2>2, <2>5, RequestGoesOn
<1>6. ASSUME NEW c \in RegClients, Registry!MoveBase(c) PROVE RegistryIInv'
  <2> DEFINE target == regReg[c].file
             n == [regReg[c] EXCEPT !.step = "openShared", !.temp = None]
  <2>1. /\ regReg[c].step = "moveBase" /\ target \in RegFiles
        /\ regReg[c].temp \in Registry!Content \ {None, Empty}
        /\ regBase' = [regBase EXCEPT ![target] = regReg[c].temp] /\ Written(regReg[c].temp)
        /\ UNCHANGED <<regPolicy, regTraining, regShared, regSent, regMet>>
    BY <1>0, <1>6 DEF Registry!MoveBase, RequestsSound, ContentSound, Registry!TypeOK
  <2>2. n \in Request /\ n.step = "openShared" /\ n.temp = None /\ n.file = target
    BY <1>a DEF Request, Registry!Steps, Registry!Content
  <2>3. regReg' \in [RegClients -> Request]
          /\ \A d \in RegClients : regReg'[d] = IF d = c THEN n ELSE regReg[d]
    BY <1>6, <1>a, <2>2 DEF Registry!MoveBase, Registry!Go, Request
  <2>4. \A f \in RegFiles : regBase'[f] = IF f = target THEN regReg[c].temp ELSE regBase[f]
    BY <1>0, <2>1 DEF Registry!TypeOK
  <2>5. Registry!TypeOK'
    BY <1>0, <2>1, <2>3 DEF Registry!TypeOK, Request, Registry!Content
  <2> HIDE DEF n
  <2>6. ContentSound'
    BY <1>0, <2>1, <2>2, <2>3, <2>4 DEF ContentSound, Written
  <2>7. RequestsSound'
    BY <1>0, <2>1, <2>2, <2>3, <2>4 DEF RequestsSound, Registry!Steps
  <2>8. OneAtATime'
    <3>1. \A d \in RegClients : \A f \in RegFiles : Works(d, f)' => Works(d, f)
      BY <2>1, <2>2, <2>3 DEF Works, Registry!Steps
    <3> QED
      BY <1>0, <2>1, <2>2, <2>3, <2>4, <3>1 DEF OneAtATime, Works, Registry!Steps
  <2>9. SharedAfterBase' /\ Registry!StoredInBoth'
    BY <1>0, <2>1, <2>2, <2>3, <2>4 DEF SharedAfterBase, RequestsSound, Registry!StoredInBoth
  <2> QED
    BY <2>5, <2>6, <2>7, <2>8, <2>9 DEF RegistryIInv
<1>7. ASSUME NEW c \in RegClients, Registry!MoveShared(c) PROVE RegistryIInv'
  <2> DEFINE target == regReg[c].file
             n == [regReg[c] EXCEPT !.step = "stored", !.temp = None]
  <2>1. /\ regReg[c].step = "moveShared" /\ target \in RegFiles
        /\ regReg[c].temp \in Registry!Content \ {None, Empty}
        /\ regShared' = [regShared EXCEPT ![target] = regReg[c].temp] /\ Written(regReg[c].temp)
        /\ regBase[target] # None
        /\ UNCHANGED <<regPolicy, regTraining, regBase, regSent, regMet>>
    BY <1>0, <1>7 DEF Registry!MoveShared, RequestsSound, ContentSound, Registry!TypeOK
  <2>2. n \in Request /\ n.step = "stored" /\ n.temp = None /\ n.file = target
    BY <1>a DEF Request, Registry!Steps, Registry!Content
  <2>3. regReg' \in [RegClients -> Request]
          /\ \A d \in RegClients : regReg'[d] = IF d = c THEN n ELSE regReg[d]
    BY <1>7, <1>a, <2>2 DEF Registry!MoveShared, Registry!Go, Request
  <2>4. \A f \in RegFiles : regShared'[f] = IF f = target THEN regReg[c].temp ELSE regShared[f]
    BY <1>0, <2>1 DEF Registry!TypeOK
  <2>5. Registry!TypeOK'
    BY <1>0, <2>1, <2>3 DEF Registry!TypeOK, Request, Registry!Content
  <2> HIDE DEF n
  <2>6. ContentSound'
    BY <1>0, <2>1, <2>2, <2>3, <2>4 DEF ContentSound, Written
  <2>7. RequestsSound'
    BY <1>0, <2>1, <2>2, <2>3 DEF RequestsSound, Registry!Steps
  <2>8. OneAtATime'
    <3>1. \A d \in RegClients : \A f \in RegFiles : Works(d, f)' => Works(d, f) /\ d # c
      BY <2>1, <2>2, <2>3 DEF Works, Registry!Steps
    <3> QED
      BY <1>0, <2>1, <2>2, <2>3, <2>4, <3>1 DEF OneAtATime, Works, Registry!Steps
  <2>9. SharedAfterBase' /\ Registry!StoredInBoth'
    BY <1>0, <2>1, <2>2, <2>3, <2>4 DEF SharedAfterBase, Registry!StoredInBoth
  <2> QED
    BY <2>5, <2>6, <2>7, <2>8, <2>9 DEF RegistryIInv
<1> QED
  BY <1>1, <1>2, <1>3, <1>4, <1>5, <1>6, <1>7 DEF Registry!Next

(* The instance has the operators of FiniteSets under names of its own.    *)
LEMMA RegistrySets ==
    \A S : (Registry!IsFiniteSet(S) <=> IsFiniteSet(S)) /\ Registry!Cardinality(S) = Cardinality(S)
BY DEF Registry!IsFiniteSet, IsFiniteSet, Registry!Cardinality, Cardinality

(* A version answered with 200 is in both stores, whatever other requests  *)
(* and failures came between its steps; and both copies are one unless the *)
(* source was written in between (model-registry, POST /register).         *)
THEOREM RegistryCorrect ==
    ASSUME Registry!RegistryAssumption PROVE Registry!Spec => []RegistryInv
<1>1. Registry!Init => RegistryIInv
  BY RegistryInit
<1>2. RegistryIInv /\ [Registry!Next]_(Registry!vars) => RegistryIInv'
  BY RegistryStep
<1>3. RegistryIInv => Registry!RegistryInv
  <2> SUFFICES ASSUME RegistryIInv PROVE Registry!OneWriterEach
    BY DEF RegistryIInv, Registry!RegistryInv
  <2>1. \A f \in RegFiles : regShared[f] # None => regBase[f] # None
    BY DEF RegistryIInv, SharedAfterBase
  <2>2. ASSUME NEW f \in RegFiles, regBase[f] # None, regShared[f] # None, regBase[f] # regShared[f],
               Torn \notin {regBase[f], regShared[f]}
        PROVE  Cardinality({t \in RegTrainings : regTraining[t] # "idle"}) > 1
    <3> DEFINE started == {t \in RegTrainings : regTraining[t] # "idle"}
    <3>1. regBase[f] \in started /\ regShared[f] \in started
      BY <2>2 DEF RegistryIInv, ContentSound, Written, Registry!TypeOK, Registry!Content
    <3>2. IsFiniteSet(RegTrainings) /\ started \in SUBSET RegTrainings
      BY RegistrySets DEF Registry!RegistryAssumption
    <3> HIDE DEF started
    <3>3. IsFiniteSet(started)
      BY <3>2, FS_Subset
    <3>4. Cardinality(started) > 1
      BY <2>2, <3>1, <3>3, TwoElements
    <3> QED
      BY <3>4 DEF started
  <2> QED
    BY <2>1, <2>2, RegistrySets DEF Registry!OneWriterEach
<1> QED
  BY <1>1, <1>2, <1>3, PTL DEF Registry!Spec, RegistryInv

(* What a step may do to a store: a request that has made its copy moves   *)
(* it there.                                                               *)
LEMMA StoresChange ==
    ASSUME Registry!RegistryAssumption, RegistryIInv, [Registry!Next]_(Registry!vars),
           NEW f \in RegFiles
    PROVE  /\ regBase'[f] # regBase[f] =>
                regBase'[f] # None /\ \E c \in RegClients : Works(c, f) /\ regReg[c].step = "moveBase"
           /\ regShared'[f] # regShared[f] =>
                \E c \in RegClients : Works(c, f) /\ regReg[c].step = "moveShared"
<1>1. CASE UNCHANGED <<regBase, regShared>>
  BY <1>1
<1>2. ASSUME NEW c \in RegClients, Registry!MoveBase(c)
      PROVE  /\ regBase'[f] # regBase[f] =>
                  regBase'[f] # None /\ regReg[c].file = f /\ regReg[c].step = "moveBase"
             /\ regShared'[f] = regShared[f]
  BY <1>2 DEF RegistryIInv, RequestsSound, Registry!MoveBase, Registry!TypeOK
<1>3. ASSUME NEW c \in RegClients, Registry!MoveShared(c)
      PROVE  /\ regShared'[f] # regShared[f] => regReg[c].file = f /\ regReg[c].step = "moveShared"
             /\ regBase'[f] = regBase[f]
  BY <1>3 DEF RegistryIInv, RequestsSound, Registry!MoveShared, Registry!TypeOK
<1>4. UNCHANGED <<regBase, regShared>> \/ \E c \in RegClients : Registry!MoveBase(c) \/ Registry!MoveShared(c)
  BY DEF Registry!Next, Registry!vars, Registry!TrainOpen, Registry!TrainWrite, 
     Registry!Register, Registry!Check, Registry!Copy, Registry!Fail
<1> QED
  BY <1>1, <1>2, <1>3, <1>4 DEF Works, Registry!Steps

(* Among finitely many files one has the greatest name.                    *)
LEMMA GreatestFile ==
    ASSUME Registry!RegistryAssumption, NEW found \in SUBSET RegFiles, found # {}
    PROVE  \E f \in found : \A g \in found : RegRank[g] <= RegRank[f]
<1>1. IsFiniteSet(RegFiles) /\ \A f \in found : RegRank[f] \in Int
  BY RegistrySets DEF Registry!RegistryAssumption
<1>2. IsFiniteSet(found)
  BY <1>1, FS_Subset
<1> QED
  BY <1>1, <1>2, GreatestOf

(* The answer of /latest goes from no version to one and then upwards.     *)
LEMMA LatestForward ==
    ASSUME Registry!RegistryAssumption, NEW n \in DOMAIN RegGlobbed, Registry!Latest(n) # None,
           \A f \in RegFiles : regBase[f] # None => regBase'[f] # None
    PROVE  Registry!Latest(n)' # None /\ RegRank[Registry!Latest(n)'] >= RegRank[Registry!Latest(n)]
<1> DEFINE found == {f \in RegGlobbed[n] : regBase[f] # None}
           later == {f \in RegGlobbed[n] : regBase'[f] # None}
<1>1. found \in SUBSET RegFiles /\ later \in SUBSET RegFiles /\ found \subseteq later
      /\ None \notin RegFiles /\ RegRank \in [RegFiles -> Nat]
  BY DEF Registry!RegistryAssumption
<1>2. found # {} /\ Registry!Latest(n) = CHOOSE f \in found : \A g \in found : RegRank[g] <= RegRank[f]
  BY DEF Registry!Latest
<1>3. Registry!Latest(n)' = IF later = {} THEN None ELSE CHOOSE f \in later : \A g \in later : RegRank[g] <= RegRank[f]
  BY DEF Registry!Latest
<1> HIDE DEF found, later
<1>4. Registry!Latest(n) \in found
  BY <1>1, <1>2, GreatestFile
<1>5. /\ Registry!Latest(n)' \in later
      /\ \A g \in later : RegRank[g] <= RegRank[Registry!Latest(n)']
  BY <1>1, <1>2, <1>3, GreatestFile
<1> QED
  BY <1>1, <1>4, <1>5

(* Without a meeting of two requests a version never changes; one left in  *)
(* the registry's own store alone stays there; and the answer of /latest   *)
(* never goes back (model-registry, _atomic_copy and GET /latest).         *)
THEOREM VersionsNeverChange ==
    ASSUME Registry!RegistryAssumption PROVE Registry!Spec => VersionsStay
<1> DEFINE A == /\ \A f \in RegFiles :
                     /\ f \notin regMet /\ regBase[f] # None => regBase'[f] = regBase[f]
                     /\ f \notin regMet /\ regShared[f] # None => regShared'[f] = regShared[f]
                     /\ Registry!Orphan(f) => regBase'[f] = regBase[f] /\ regShared'[f] = None
                /\ \A n \in DOMAIN RegGlobbed :
                     Registry!Latest(n) # None =>
                       Registry!Latest(n)' # None
                         /\ RegRank[Registry!Latest(n)'] >= RegRank[Registry!Latest(n)]
<1>1. Registry!Init => RegistryIInv
  BY RegistryInit
<1>2. RegistryIInv /\ [Registry!Next]_(Registry!vars) => RegistryIInv'
  BY RegistryStep
<1>3. RegistryIInv /\ [Registry!Next]_(Registry!vars) => A
  <2> SUFFICES ASSUME RegistryIInv, [Registry!Next]_(Registry!vars) PROVE A
    OBVIOUS
  <2>1. ASSUME NEW f \in RegFiles, f \notin regMet
        PROVE  /\ regBase[f] # None => regBase'[f] = regBase[f]
               /\ regShared[f] # None => regShared'[f] = regShared[f]
    BY <2>1, StoresChange DEF RegistryIInv, OneAtATime
  <2>2. ASSUME NEW f \in RegFiles, Registry!Orphan(f)
        PROVE  regBase'[f] = regBase[f] /\ regShared'[f] = None
    BY <2>2, StoresChange DEF Registry!Orphan, Works, Registry!Steps
  <2>3. \A f \in RegFiles : regBase[f] # None => regBase'[f] # None
    BY StoresChange
  <2>4. ASSUME NEW n \in DOMAIN RegGlobbed, Registry!Latest(n) # None
        PROVE  Registry!Latest(n)' # None /\ RegRank[Registry!Latest(n)'] >= RegRank[Registry!Latest(n)]
    BY <2>3, <2>4, LatestForward
  <2> QED
    BY <2>1, <2>2, <2>4
<1>4. RegistryIInv /\ [Registry!Next]_(Registry!vars) => [A]_(Registry!vars)
  BY <1>3
<1> QED
  BY <1>1, <1>2, <1>4, PTL DEF Registry!Spec, VersionsStay, Registry!VersionsStay

-----------------------------------------------------------------------------
(* services/federation and services/scheduler.                             *)

LEMMA FedSets ==
    \A S : (Fed!IsFiniteSet(S) <=> IsFiniteSet(S)) /\ Fed!Cardinality(S) = Cardinality(S)
BY DEF Fed!IsFiniteSet, IsFiniteSet, Fed!Cardinality, Cardinality

Registration == [step : {"none", "commit", "log", "answer"}, row : Fed!Row \cup {None}]

TableSound ==
    /\ fedNow \in 0..FedMaxTime /\ fedRows \in [Fed!Nodes -> Fed!Row \cup {None}]
    /\ fedAudit \in Seq(Fed!Row)
    /\ fedRequest \in [FedRequests -> Registration] /\ fedCommits \in Nat /\ fedMissed \in Nat
    /\ \A r \in FedRequests : fedRequest[r].step # "none" => fedRequest[r].row \in Fed!Row

(* Every commit is accounted for.                                          *)
Logging == {r \in FedRequests : fedRequest[r].step = "log"}
CommitsCounted == Len(fedAudit) + fedMissed + Cardinality(Logging) = fedCommits

(* Of a node, at which no two registrations met, one is under way at most, *)
(* and between its commit and its entry the row is its own.                *)
Registers(r, n) == fedRequest[r].step # "none" /\ fedRequest[r].row.offer.node = n

RowsExplained ==
    \A n \in Fed!Nodes \ fedMet :
        /\ \A r \in FedRequests : \A q \in FedRequests : Registers(r, n) /\ Registers(q, n) => r = q
        /\ \A r \in FedRequests : Registers(r, n) /\ fedRequest[r].step = "log" =>
              fedRows[n] = fedRequest[r].row
        /\ fedMissed = 0 /\ (\A r \in FedRequests : ~(fedRequest[r].step = "log" /\ fedRequest[r].row.offer.node = n)) =>
              Fed!LastEntry(n) = fedRows[n]

FedIInv == TableSound /\ CommitsCounted /\ RowsExplained

LEMMA FedInit ==
    ASSUME Fed!FederationAssumption PROVE Fed!Init => FedIInv
<1> SUFFICES ASSUME Fed!Init PROVE FedIInv
  OBVIOUS
<1> USE DEF Fed!FederationAssumption, Fed!Init, Fed!NoRequest
<1>1. TableSound
  BY DEF TableSound, Registration
<1>2. Logging = {}
  BY DEF Logging
<1>3. CommitsCounted
  BY <1>2, FS_EmptySet DEF CommitsCounted
<1>4. RowsExplained
  BY DEF RowsExplained, Registers, Fed!LastEntry
<1> QED
  BY <1>1, <1>3, <1>4 DEF FedIInv

(* What one registration does to the set of those about to write an entry. *)
LEMMA LoggingChanges ==
    ASSUME Fed!FederationAssumption, TableSound, NEW r \in FedRequests, NEW step,
           \A q \in FedRequests : fedRequest'[q].step = IF q = r THEN step ELSE fedRequest[q].step
    PROVE  /\ Cardinality(Logging) \in Nat
           /\ Cardinality(Logging)' = Cardinality(Logging)
                 + (IF step = "log" /\ fedRequest[r].step # "log" THEN 1
                    ELSE IF step # "log" /\ fedRequest[r].step = "log" THEN -1 ELSE 0)
<1>1. IsFiniteSet(FedRequests) /\ Logging \in SUBSET FedRequests
  BY FedSets DEF Fed!FederationAssumption, Logging
<1>2. IsFiniteSet(Logging) /\ Cardinality(Logging) \in Nat
  BY <1>1, FS_Subset, FS_CardinalityType
<1>3. r \in Logging <=> fedRequest[r].step = "log"
  BY DEF Logging
<1>4. CASE step = "log"
  <2>1. Logging' = Logging \cup {r}
    BY <1>4 DEF Logging
  <2>2. Cardinality(Logging \cup {r}) = IF r \in Logging THEN Cardinality(Logging) ELSE Cardinality(Logging) + 1
    BY <1>2, FS_AddElement
  <2> QED
    BY <1>2, <1>3, <1>4, <2>1, <2>2
<1>5. CASE step # "log"
  <2>1. Logging' = Logging \ {r}
    BY <1>5 DEF Logging
  <2>2. Cardinality(Logging \ {r}) = IF r \in Logging THEN Cardinality(Logging) - 1 ELSE Cardinality(Logging)
    BY <1>2, FS_RemoveElement
  <2> QED
    BY <1>2, <1>3, <1>5, <2>1, <2>2
<1> QED
  BY <1>2, <1>4, <1>5

(* An entry is the last one of its node, and of no other node.             *)
LEMMA LastOfAppend ==
    ASSUME NEW o \in Fed!Row, fedAudit \in Seq(Fed!Row), fedAudit' = Append(fedAudit, o), NEW n
    PROVE  Fed!LastEntry(n)' = IF o.offer.node = n THEN o ELSE Fed!LastEntry(n)
<1> DEFINE own == {i \in DOMAIN fedAudit : fedAudit[i].offer.node = n}
           later == {i \in DOMAIN fedAudit' : fedAudit'[i].offer.node = n}
           last == Len(fedAudit) + 1
<1>1. /\ Len(fedAudit) \in Nat /\ DOMAIN fedAudit = 1..Len(fedAudit) /\ DOMAIN fedAudit' = 1..last
      /\ fedAudit'[last] = o /\ \A i \in 1..Len(fedAudit) : fedAudit'[i] = fedAudit[i]
  OBVIOUS
<1>2. /\ Fed!LastEntry(n) = IF own = {} THEN None ELSE fedAudit[CHOOSE i \in own : \A j \in own : j <= i]
      /\ Fed!LastEntry(n)' = IF later = {} THEN None ELSE fedAudit'[CHOOSE i \in later : \A j \in later : j <= i]
  BY DEF Fed!LastEntry
<1>3. CASE o.offer.node = n
  <2>1. last \in later /\ later \subseteq 1..last
    BY <1>1, <1>3
  <2> HIDE DEF later
  <2>2. \A i \in later : (\A j \in later : j <= i) => i = last
    BY <1>1, <2>1
  <2>3. \E i \in later : \A j \in later : j <= i
    BY <1>1, <2>1
  <2>4. (CHOOSE i \in later : \A j \in later : j <= i) = last
    BY <2>2, <2>3
  <2> QED
    BY <1>1, <1>2, <1>3, <2>1, <2>4
<1>4. CASE o.offer.node # n
  <2>1. later = own /\ own \subseteq 1..Len(fedAudit)
    BY <1>1, <1>4
  <2> HIDE DEF later, own
  <2>2. CASE own = {}
    BY <1>2, <1>4, <2>1, <2>2
  <2>3. CASE own # {}
    <3>1. \E i \in own : \A j \in own : j <= i
      <4>0. 1 \in Int /\ Len(fedAudit) \in Int
        BY <1>1
      <4>1. IsFiniteSet(1..Len(fedAudit))
        BY ONLY <4>0, FS_Interval
      <4>2. IsFiniteSet(own)
        BY <2>1, <4>1, FS_Subset
      <4>3. \A i \in own : [j \in own |-> j][i] = i /\ [j \in own |-> j][i] \in Int
        BY <1>1, <2>1
      <4>4. \E i \in own : \A j \in own : [k \in own |-> k][j] <= [k \in own |-> k][i]
        BY <2>3, <4>2, <4>3, GreatestOf
      <4> QED
        BY <4>3, <4>4
    <3>2. (CHOOSE i \in own : \A j \in own : j <= i) \in 1..Len(fedAudit)
      BY <2>1, <3>1
    <3> QED
      BY <1>1, <1>2, <1>4, <2>1, <2>3, <3>2
  <2> QED
    BY <2>2, <2>3
<1> QED
  BY <1>3, <1>4

(* One registration goes on without touching table or log.                 *)
LEMMA RegistrationGoesOn ==
    ASSUME Fed!FederationAssumption, FedIInv, NEW r \in FedRequests,
           NEW step \in {"none", "commit", "log", "answer"}, NEW o \in Fed!Row \cup {None},
           Fed!Goto(r, step, o), UNCHANGED <<fedNow, fedRows, fedAudit, fedCommits>>,
           step # "none" => o \in Fed!Row, step # "log", fedMissed' \in {fedMissed, fedMissed + 1}, fedMet \subseteq fedMet',
           fedMissed' = fedMissed + (IF fedRequest[r].step = "log" THEN 1 ELSE 0),
           step # "none" => o.offer.node \in fedMet' \/
              \A q \in FedRequests \ {r} : ~Registers(q, o.offer.node)
    PROVE  FedIInv'
<1>0. TableSound /\ CommitsCounted /\ RowsExplained
  BY DEF FedIInv
<1> DEFINE new == [step |-> step, row |-> o]
<1>1. /\ new \in Registration /\ new.step = step /\ new.row = o
      /\ \A q \in FedRequests : fedRequest'[q] = IF q = r THEN new ELSE fedRequest[q]
      /\ fedRequest' \in [FedRequests -> Registration]
  BY <1>0 DEF Fed!Goto, TableSound, Registration
<1> HIDE DEF new
<1>2. TableSound'
  BY <1>0, <1>1 DEF TableSound
<1>3. CommitsCounted'
  <2>1. \A q \in FedRequests : fedRequest'[q].step = IF q = r THEN step ELSE fedRequest[q].step
    BY <1>1
  <2>2. /\ Cardinality(Logging) \in Nat
        /\ Cardinality(Logging)' = Cardinality(Logging) + (IF fedRequest[r].step = "log" THEN -1 ELSE 0)
    BY <1>0, <2>1, LoggingChanges
  <2>3. Len(fedAudit) \in Nat /\ fedMissed \in Nat /\ fedCommits \in Nat
    BY <1>0 DEF TableSound
  <2> QED
    BY <1>0, <2>2, <2>3 DEF CommitsCounted
<1>4. RowsExplained'
  <2> SUFFICES ASSUME NEW n \in Fed!Nodes \ fedMet'
               PROVE  /\ \A p \in FedRequests : \A q \in FedRequests : Registers(p, n)' /\ Registers(q, n)' => p = q
                      /\ \A q \in FedRequests : Registers(q, n)' /\ fedRequest'[q].step = "log" =>
                            fedRows'[n] = fedRequest'[q].row
                      /\ fedMissed' = 0 /\ (\A q \in FedRequests : ~(fedRequest'[q].step = "log" /\ fedRequest'[q].row.offer.node = n)) =>
                            Fed!LastEntry(n)' = fedRows'[n]
    BY DEF RowsExplained
  <2>1. \A q \in FedRequests \ {r} : Registers(q, n)' <=> Registers(q, n)
    BY <1>1 DEF Registers
  <2>2. Registers(r, n)' => \A q \in FedRequests \ {r} : ~Registers(q, n)
    BY <1>1 DEF Registers
  <2>3. Fed!LastEntry(n)' = Fed!LastEntry(n)
    BY DEF Fed!LastEntry
  <2>4. fedMissed' = 0 => fedMissed = 0 /\ fedRequest[r].step # "log"
    BY <1>0 DEF TableSound
  <2>5. \A p \in FedRequests : \A q \in FedRequests : Registers(p, n)' /\ Registers(q, n)' => p = q
    BY <1>0, <2>1, <2>2 DEF RowsExplained
  <2>6. ASSUME NEW q \in FedRequests, Registers(q, n)', fedRequest'[q].step = "log"
        PROVE  fedRows'[n] = fedRequest'[q].row
    BY <1>0, <1>1, <2>1, <2>6 DEF RowsExplained
  <2>7. ASSUME fedMissed' = 0, \A q \in FedRequests : ~(fedRequest'[q].step = "log" /\ fedRequest'[q].row.offer.node = n)
        PROVE  Fed!LastEntry(n)' = fedRows'[n]
    <3>1. \A q \in FedRequests : ~(fedRequest[q].step = "log" /\ fedRequest[q].row.offer.node = n)
      BY <1>1, <2>4, <2>7
    <3> QED
      BY <1>0, <2>3, <2>4, <2>7, <3>1 DEF RowsExplained
  <2> QED
    BY <2>5, <2>6, <2>7
<1> QED
  BY <1>2, <1>3, <1>4 DEF FedIInv

(* Nothing of the table, the log and the registrations changes.            *)
LEMMA FedStays ==
    ASSUME FedIInv, fedNow' \in 0..FedMaxTime,
           UNCHANGED <<fedRows, fedAudit, fedRequest, fedCommits, fedMissed, fedMet>>
    PROVE  FedIInv'
<1>1. Logging' = Logging
  BY DEF Logging
<1>2. CommitsCounted'
  BY <1>1 DEF FedIInv, CommitsCounted
<1>3. TableSound'
  BY DEF FedIInv, TableSound
<1>4. \A n : Fed!LastEntry(n)' = Fed!LastEntry(n)
  BY DEF Fed!LastEntry
<1>5. RowsExplained'
  BY <1>4 DEF FedIInv, RowsExplained, Registers
<1> QED
  BY <1>2, <1>3, <1>5 DEF FedIInv

LEMMA FedStep ==
    ASSUME Fed!FederationAssumption, FedIInv, [Fed!Next]_(Fed!vars)
    PROVE  FedIInv'
<1>0. TableSound /\ CommitsCounted /\ RowsExplained
  BY DEF FedIInv
<1>1. CASE UNCHANGED Fed!vars \/ Fed!Connect \/ Fed!Restart \/ Fed!Tick \/ \E t \in FedTasks : Fed!Assign(t)
  <2>1. UNCHANGED <<fedRows, fedAudit, fedRequest, fedCommits, fedMissed, fedMet>>
    BY <1>1 DEF Fed!vars, Fed!Connect, Fed!Restart, Fed!Tick, Fed!Assign
  <2>2. fedNow' = fedNow \/ (fedNow < FedMaxTime /\ fedNow' = fedNow + 1)
    BY <1>1 DEF Fed!vars, Fed!Connect, Fed!Restart, Fed!Tick, Fed!Assign
  <2>3. fedNow' \in 0..FedMaxTime
    BY <1>0, <2>2 DEF TableSound, Fed!FederationAssumption
  <2> QED
    BY <2>1, <2>3, FedStays
<1>2. CASE Fed!Crash
  <2>1. /\ \A r \in FedRequests : fedRequest'[r] = [step |-> "none", row |-> None]
        /\ fedRequest' \in [FedRequests -> Registration]
        /\ fedMissed' = fedMissed + Cardinality(Logging)
        /\ UNCHANGED <<fedNow, fedRows, fedAudit, fedCommits, fedMet>>
    BY <1>2, FedSets DEF Fed!Crash, Fed!NoRequest, Fed!Unlogged, Logging, Registration
  <2>2. IsFiniteSet(Logging) /\ Cardinality(Logging) \in Nat
    <3>1. IsFiniteSet(FedRequests) /\ Logging \in SUBSET FedRequests
      BY FedSets DEF Fed!FederationAssumption, Logging
    <3> QED
      BY <3>1, FS_Subset, FS_CardinalityType
  <2>3. Cardinality(Logging)' = 0
    <3>1. Logging' = {}
      BY <2>1 DEF Logging
    <3> QED
      BY <3>1, FS_EmptySet
  <2>4. fedMissed \in Nat /\ Len(fedAudit) \in Nat
    BY <1>0 DEF TableSound
  <2>5. TableSound'
    BY <1>0, <2>1, <2>2 DEF TableSound
  <2>6. CommitsCounted'
    BY <1>0, <2>1, <2>2, <2>3, <2>4 DEF CommitsCounted
  <2>7. fedMissed' = 0 => fedMissed = 0 /\ Logging = {}
    BY <2>1, <2>2, <2>4, FS_EmptySet
  <2>8. RowsExplained'
    <3>1. \A r \in FedRequests : \A n : ~Registers(r, n)'
      BY <2>1 DEF Registers
    <3>2. \A n : Fed!LastEntry(n)' = Fed!LastEntry(n)
      BY <2>1 DEF Fed!LastEntry
    <3>3. fedMissed' = 0 => fedMissed = 0 /\ \A r \in FedRequests : fedRequest[r].step # "log"
      BY <2>7 DEF Logging
    <3> QED
      BY <1>0, <2>1, <3>1, <3>2, <3>3 DEF RowsExplained
  <2> QED
    BY <2>5, <2>6, <2>8 DEF FedIInv
<1>3. ASSUME NEW r \in FedRequests, NEW o \in FedOffers, Fed!Register(r, o) PROVE FedIInv'
  <2> DEFINE row == [offer |-> o, expires |-> fedNow + FedTTL]
  <2>1. /\ fedRequest[r].step = "none" /\ Fed!Goto(r, "commit", row)
        /\ fedMet' = fedMet \cup {n \in {o.node} : \E q \in FedRequests : fedRequest[q].step # "none" /\ fedRequest[q].row.offer.node = n}
        /\ UNCHANGED <<fedNow, fedRows, fedAudit, fedCommits, fedMissed>>
    BY <1>3 DEF Fed!Register
  <2>2. row \in Fed!Row /\ row.offer = o
    BY <1>0 DEF TableSound, Fed!Row, Fed!FederationAssumption
  <2> HIDE DEF row
  <2>3. row.offer.node \in fedMet' \/ \A q \in FedRequests \ {r} : ~Registers(q, row.offer.node)
    BY <2>1, <2>2 DEF Registers
  <2>4. fedMissed' = fedMissed + (IF fedRequest[r].step = "log" THEN 1 ELSE 0)
    BY <1>0, <2>1 DEF TableSound
  <2> QED
    BY <2>1, <2>2, <2>3, <2>4, RegistrationGoesOn
<1>4. ASSUME NEW r \in FedRequests, Fed!CommitFails(r) PROVE FedIInv'
  <2>1. /\ fedRequest[r].step = "commit" /\ Fed!Goto(r, "none", None)
        /\ UNCHANGED <<fedNow, fedRows, fedAudit, fedCommits, fedMissed, fedMet>>
    BY <1>4 DEF Fed!CommitFails
  <2>2. fedMissed' = fedMissed + (IF fedRequest[r].step = "log" THEN 1 ELSE 0)
    BY <1>0, <2>1 DEF TableSound
  <2> QED
    BY <2>1, <2>2, RegistrationGoesOn
<1>5. ASSUME NEW r \in FedRequests, Fed!Answer(r) PROVE FedIInv'
  <2>1. /\ fedRequest[r].step = "answer" /\ Fed!Goto(r, "none", None)
        /\ UNCHANGED <<fedNow, fedRows, fedAudit, fedCommits, fedMissed, fedMet>>
    BY <1>5 DEF Fed!Answer
  <2>2. fedMissed' = fedMissed + (IF fedRequest[r].step = "log" THEN 1 ELSE 0)
    BY <1>0, <2>1 DEF TableSound
  <2> QED
    BY <2>1, <2>2, RegistrationGoesOn
<1>6. ASSUME NEW r \in FedRequests, Fed!Commit(r) PROVE FedIInv'
  <2> DEFINE row == fedRequest[r].row
             o == row.offer
             new == [step |-> "log", row |-> row]
  <2>1. /\ fedRequest[r].step = "commit" /\ row \in Fed!Row /\ o.node \in Fed!Nodes
        /\ fedRows' = [fedRows EXCEPT ![o.node] = row] /\ fedCommits' = fedCommits + 1
        /\ fedRequest' = [fedRequest EXCEPT ![r] = new]
        /\ UNCHANGED <<fedNow, fedAudit, fedMissed, fedMet>>
    BY <1>0, <1>6 DEF Fed!Commit, Fed!Goto, TableSound, Fed!Nodes, Fed!Row
  <2>3. /\ new \in Registration /\ new.step = "log" /\ new.row = row
        /\ \A q \in FedRequests : fedRequest'[q] = IF q = r THEN new ELSE fedRequest[q]
        /\ fedRequest' \in [FedRequests -> Registration]
    BY <1>0, <2>1 DEF TableSound, Registration
  <2>4. fedRows' \in [Fed!Nodes -> Fed!Row \cup {None}]
          /\ \A n \in Fed!Nodes : fedRows'[n] = IF n = o.node THEN row ELSE fedRows[n]
    <3> HIDE DEF row
    <3> QED
      BY <1>0, <2>1 DEF TableSound
  <2> HIDE DEF new
  <2>5. TableSound'
    BY <1>0, <2>1, <2>3, <2>4 DEF TableSound
  <2>6. CommitsCounted'
    <3>1. \A q \in FedRequests : fedRequest'[q].step = IF q = r THEN "log" ELSE fedRequest[q].step
      BY <2>3
    <3>2. Cardinality(Logging) \in Nat /\ Cardinality(Logging)' = Cardinality(Logging) + 1
      BY <1>0, <2>1, <3>1, LoggingChanges
    <3>3. Len(fedAudit) \in Nat /\ fedMissed \in Nat /\ fedCommits \in Nat
      BY <1>0 DEF TableSound
    <3> QED
      BY <1>0, <2>1, <3>2, <3>3 DEF CommitsCounted
  <2>7. RowsExplained'
    <3> SUFFICES ASSUME NEW n \in Fed!Nodes \ fedMet
                 PROVE  /\ \A p \in FedRequests : \A q \in FedRequests : Registers(p, n)' /\ Registers(q, n)' => p = q
                        /\ \A q \in FedRequests : Registers(q, n)' /\ fedRequest'[q].step = "log" =>
                              fedRows'[n] = fedRequest'[q].row
                        /\ fedMissed' = 0 /\ (\A q \in FedRequests : ~(fedRequest'[q].step = "log" /\ fedRequest'[q].row.offer.node = n)) =>
                              Fed!LastEntry(n)' = fedRows'[n]
      BY <2>1 DEF RowsExplained
    <3>1. \A q \in FedRequests : Registers(q, n)' <=> Registers(q, n)
      BY <2>1, <2>3 DEF Registers
    <3>2. \A p \in FedRequests : \A q \in FedRequests : Registers(p, n) /\ Registers(q, n) => p = q
      BY <1>0 DEF RowsExplained
    <3>3. Fed!LastEntry(n)' = Fed!LastEntry(n)
      BY <2>1 DEF Fed!LastEntry
    <3>4. CASE o.node = n
      <4>1. Registers(r, n)
        BY <2>1, <3>4 DEF Registers
      <4>2. \A q \in FedRequests : Registers(q, n)' => q = r
        BY <3>1, <3>2, <4>1
      <4>3. fedRows'[n] = row /\ fedRequest'[r].step = "log" /\ fedRequest'[r].row = row
        BY <2>3, <2>4, <3>4
      <4> QED
        BY <3>4, <4>2, <4>3
    <3>5. CASE o.node # n
      <4>1. fedRows'[n] = fedRows[n]
        BY <2>4, <3>5
      <4>2. \A q \in FedRequests : fedRequest'[q].step = "log" /\ fedRequest'[q].row.offer.node = n <=>
                                   fedRequest[q].step = "log" /\ fedRequest[q].row.offer.node = n
        BY <2>1, <2>3, <3>5
      <4>3. \A q \in FedRequests : Registers(q, n) => q # r /\ fedRequest'[q] = fedRequest[q]
        BY <2>3, <3>5 DEF Registers
      <4> QED
        BY <1>0, <2>1, <3>1, <3>2, <3>3, <4>1, <4>2, <4>3 DEF RowsExplained
    <3> QED
      BY <3>4, <3>5
  <2> QED
    BY <2>5, <2>6, <2>7 DEF FedIInv
<1>7. ASSUME NEW r \in FedRequests, Fed!Log(r) PROVE FedIInv'
  <2> DEFINE o == fedRequest[r].row
             new == [step |-> "answer", row |-> o]
  <2>1. CASE fedAudit' = fedAudit /\ fedMissed' = fedMissed + 1 /\ Fed!Goto(r, "none", None)
    <3>1. /\ fedRequest[r].step = "log"
          /\ UNCHANGED <<fedNow, fedRows, fedCommits, fedMet>>
      BY <1>7 DEF Fed!Log
    <3> QED
      BY <2>1, <3>1, RegistrationGoesOn
  <2>2. CASE fedAudit' = Append(fedAudit, o) /\ fedMissed' = fedMissed /\ Fed!Goto(r, "answer", o)
    <3>1. /\ fedRequest[r].step = "log" /\ o \in Fed!Row /\ o.offer.node \in Fed!Nodes
          /\ fedRequest' = [fedRequest EXCEPT ![r] = new]
          /\ UNCHANGED <<fedNow, fedRows, fedCommits, fedMet>>
      BY <1>0, <1>7, <2>2 DEF Fed!Log, Fed!Goto, TableSound, Fed!Nodes, Fed!Row
    <3>2. /\ new \in Registration /\ new.step = "answer" /\ new.row = o
          /\ \A q \in FedRequests : fedRequest'[q] = IF q = r THEN new ELSE fedRequest[q]
          /\ fedRequest' \in [FedRequests -> Registration]
      BY <1>0, <3>1 DEF TableSound, Registration
    <3> HIDE DEF new
    <3>3. fedAudit \in Seq(Fed!Row) /\ fedAudit' \in Seq(Fed!Row)
            /\ Len(fedAudit') = Len(fedAudit) + 1
      BY <1>0, <2>2, <3>1 DEF TableSound
    <3>4. TableSound'
      BY <1>0, <2>2, <3>1, <3>2, <3>3 DEF TableSound
    <3>5. CommitsCounted'
      <4>1. \A q \in FedRequests : fedRequest'[q].step = IF q = r THEN "answer" ELSE fedRequest[q].step
        BY <3>2
      <4>2. Cardinality(Logging) \in Nat /\ Cardinality(Logging)' = Cardinality(Logging) - 1
        BY <1>0, <3>1, <4>1, LoggingChanges
      <4>3. Len(fedAudit) \in Nat /\ fedMissed \in Nat /\ fedCommits \in Nat
        BY <1>0 DEF TableSound
      <4> QED
        BY <1>0, <2>2, <3>1, <3>3, <4>2, <4>3 DEF CommitsCounted
    <3>6. RowsExplained'
      <4> SUFFICES ASSUME NEW n \in Fed!Nodes \ fedMet
                   PROVE  /\ \A p \in FedRequests : \A q \in FedRequests : Registers(p, n)' /\ Registers(q, n)' => p = q
                          /\ \A q \in FedRequests : Registers(q, n)' /\ fedRequest'[q].step = "log" =>
                                fedRows'[n] = fedRequest'[q].row
                          /\ fedMissed' = 0 /\ (\A q \in FedRequests : ~(fedRequest'[q].step = "log" /\ fedRequest'[q].row.offer.node = n)) =>
                                Fed!LastEntry(n)' = fedRows'[n]
        BY <3>1 DEF RowsExplained
      <4>1. \A q \in FedRequests : Registers(q, n)' <=> Registers(q, n)
        BY <3>1, <3>2 DEF Registers
      <4>2. \A p \in FedRequests : \A q \in FedRequests : Registers(p, n) /\ Registers(q, n) => p = q
        BY <1>0 DEF RowsExplained
      <4>3. Fed!LastEntry(n)' = IF o.offer.node = n THEN o ELSE Fed!LastEntry(n)
        BY <2>2, <3>1, <3>3, LastOfAppend
      <4>4. CASE o.offer.node = n
        <5>1. Registers(r, n) /\ fedRequest[r].step = "log"
          BY <3>1, <4>4 DEF Registers
        <5>2. fedRows[n] = o
          BY <1>0, <3>1, <5>1 DEF RowsExplained
        <5>3. \A q \in FedRequests : Registers(q, n)' => q = r
          BY <4>1, <4>2, <5>1
        <5> QED
          BY <3>1, <3>2, <4>3, <4>4, <5>2, <5>3
      <4>5. CASE o.offer.node # n
        BY <1>0, <2>2, <3>1, <3>2, <4>1, <4>2, <4>3, <4>5 DEF RowsExplained
      <4> QED
        BY <4>4, <4>5
    <3> QED
      BY <3>4, <3>5, <3>6 DEF FedIInv
  <2> QED
    BY <1>7, <2>1, <2>2 DEF Fed!Log
<1> QED
  BY <1>1, <1>2, <1>3, <1>4, <1>5, <1>6, <1>7 DEF Fed!Next

(* Every commit has its entry in the log, is about to have it, or is       *)
(* counted as missed, and the last entry of a node tells its row, unless   *)
(* one was missed or two registrations of the node met (services/          *)
(* federation, register).                                                  *)
THEOREM LogCorrect ==
    ASSUME Fed!FederationAssumption PROVE Fed!Spec => []LogExplainsRows
<1>1. Fed!Init => FedIInv
  BY FedInit
<1>2. FedIInv /\ [Fed!Next]_(Fed!vars) => FedIInv'
  BY FedStep
<1>3. FedIInv => Fed!LogExplainsRows
  <2>1. Fed!Unlogged = Cardinality(Logging)
    BY FedSets DEF Fed!Unlogged, Logging
  <2> QED
    BY <2>1 DEF FedIInv, TableSound, CommitsCounted, RowsExplained, Fed!LogExplainsRows
<1> QED
  BY <1>1, <1>2, <1>3, PTL DEF Fed!Spec, LogExplainsRows

(* score, as an order of the nodes: what it puts first comes before.       *)
Score(n, t) ==
    [region |-> IF fedRows[n].offer.region = t.region THEN 0 ELSE 1, capacity |-> fedRows[n].offer.capacity]

LEMMA BeforeByScore ==
    ASSUME NEW a, NEW b, NEW t, fedRows[a].offer.capacity \in Nat, fedRows[b].offer.capacity \in Nat,
           FedOrder[a] \in Nat, FedOrder[b] \in Nat
    PROVE  Fed!Before(a, b, t) <=>
             \/ Score(a, t).region < Score(b, t).region
             \/ Score(a, t).region = Score(b, t).region /\ Score(a, t).capacity > Score(b, t).capacity
             \/ Score(a, t).region = Score(b, t).region /\ Score(a, t).capacity = Score(b, t).capacity /\ FedOrder[a] < FedOrder[b]
<1> DEFINE key(n) == <<IF fedRows[n].offer.region = t.region THEN 0 ELSE 1, -fedRows[n].offer.capacity, FedOrder[n]>>
           Ranked(i) == key(a)[i] < key(b)[i] /\ \A j \in 1..(i - 1) : key(a)[j] = key(b)[j]
<1>1. Fed!Before(a, b, t) <=> \E i \in 1..3 : Ranked(i)
  BY DEF Fed!Before
<1>2. /\ key(a)[1] = Score(a, t).region /\ key(b)[1] = Score(b, t).region
      /\ key(a)[2] = -Score(a, t).capacity /\ key(b)[2] = -Score(b, t).capacity
      /\ key(a)[3] = FedOrder[a] /\ key(b)[3] = FedOrder[b]
      /\ Score(a, t).capacity \in Nat /\ Score(b, t).capacity \in Nat
  BY DEF Score
<1> HIDE DEF key
<1>3. /\ 1..(1 - 1) = {} /\ 1..(2 - 1) = {1} /\ 1..(3 - 1) = {1, 2} /\ 1..3 = {1, 2, 3}
  OBVIOUS
<1>4. /\ Ranked(1) <=> key(a)[1] < key(b)[1]
      /\ Ranked(2) <=> key(a)[2] < key(b)[2] /\ key(a)[1] = key(b)[1]
      /\ Ranked(3) <=> key(a)[3] < key(b)[3] /\ key(a)[1] = key(b)[1] /\ key(a)[2] = key(b)[2]
  BY <1>3
<1>5. (\E i \in 1..3 : Ranked(i)) <=> Ranked(1) \/ Ranked(2) \/ Ranked(3)
  BY <1>3
<1> HIDE DEF Ranked
<1> QED
  BY <1>1, <1>2, <1>4, <1>5

(* A node is selected if any will do, and none of them comes before it.    *)
LEMMA SelectedFirst ==
    ASSUME Fed!FederationAssumption, TableSound, NEW t, Fed!Selected(t) # None
    PROVE  /\ Fed!Selected(t) \in Fed!Candidates(t)
           /\ \A m \in Fed!Candidates(t) : Score(Fed!Selected(t), t).region <= Score(m, t).region
<1> DEFINE C == Fed!Candidates(t)
           R == {p \in C \X C : Fed!Before(p[1], p[2], t)}
<1>1. \A n \in C : n \in Fed!Nodes /\ fedRows[n].offer.capacity \in Nat /\ FedOrder[n] \in Nat
  BY DEF Fed!Candidates, Fed!Live, TableSound, Fed!Row, Fed!FederationAssumption
<1>2. \A n \in C : Score(n, t).region \in {0, 1} /\ Score(n, t).capacity \in Nat
  BY <1>1 DEF Score
<1>3. IsFiniteSet(C)
  <2>1. IsFiniteSet(FedOffers)
    BY FedSets DEF Fed!FederationAssumption
  <2>2. IsFiniteSet(Fed!Nodes)
    <3> DEFINE f == [o \in FedOffers |-> o.node]
    <3>1. f \in Surjection(FedOffers, Fed!Nodes)
      BY DEF Fed!Nodes, Surjection
    <3> QED
      BY <2>1, <3>1, FS_Surjection
  <2>3. C \in SUBSET Fed!Nodes
    BY <1>1
  <2> QED
    BY <2>2, <2>3, FS_Subset
<1>4. C # {} /\ Fed!Selected(t) = CHOOSE n \in C : \A m \in C \ {n} : Fed!Before(n, m, t)
  BY DEF Fed!Selected
<1> DEFINE ByScore(a, b) ==
             \/ Score(a, t).region < Score(b, t).region
             \/ Score(a, t).region = Score(b, t).region /\ Score(a, t).capacity > Score(b, t).capacity
             \/ Score(a, t).region = Score(b, t).region /\ Score(a, t).capacity = Score(b, t).capacity /\ FedOrder[a] < FedOrder[b]
<1>5. \A a, b \in C : Fed!Before(a, b, t) <=> ByScore(a, b)
  BY <1>1, BeforeByScore
<1>6. \A a, b \in C : <<a, b>> \in R <=> ByScore(a, b)
  BY <1>5
<1> HIDE DEF C, R
<1>7. /\ \A a \in C : ~ByScore(a, a)
      /\ \A a, b, c \in C : ByScore(a, b) /\ ByScore(b, c) => ByScore(a, c)
  BY <1>1, <1>2
<1>8. \A a, b \in C : a # b => ByScore(a, b) \/ ByScore(b, a)
  <2>1. \A a, b \in C : a # b => FedOrder[a] # FedOrder[b]
    BY <1>1 DEF Fed!FederationAssumption
  <2> QED
    BY <1>1, <1>2, <2>1
<1> HIDE DEF ByScore
<1>9. PICK n \in C : \A m \in C : <<m, n>> \notin R
  <2>1. /\ \A x \in C : <<x, x>> \notin R
        /\ \A x, y, z \in C : <<x, y>> \in R /\ <<y, z>> \in R => <<x, z>> \in R
    BY ONLY <1>6, <1>7
  <2> QED
    BY ONLY <1>3, <1>4, <2>1, FirstOf
<1>10. \A m \in C \ {n} : Fed!Before(n, m, t)
  BY <1>5, <1>6, <1>8, <1>9
<1>11. Fed!Selected(t) \in C /\ \A m \in C \ {Fed!Selected(t)} : Fed!Before(Fed!Selected(t), m, t)
  BY <1>4, <1>10
<1>12. \A m \in C : Score(Fed!Selected(t), t).region <= Score(m, t).region
  BY <1>2, <1>5, <1>11 DEF ByScore
<1> QED
  BY <1>11, <1>12 DEF C

(* A task gets a node of its own tenant that was within its lease and      *)
(* would do when the list was read, in its region if one there would do    *)
(* (services/scheduler, assign).                                           *)
THEOREM AssignmentsSound ==
    ASSUME Fed!FederationAssumption PROVE Fed!Spec => AssignedOwnNode
<1> DEFINE A == fedAsked' # fedAsked /\ fedTask'.node # None =>
                  LET t == fedTask'.of
                  IN /\ t.token.signed /\ t.token.tenant = t.tenant
                     /\ fedTask'.node \in Fed!Good(t)
                     /\ \A n \in Fed!Good(t) : fedRows[n].offer.region = t.region =>
                          fedRows[fedTask'.node].offer.region = t.region
<1>1. Fed!Init => FedIInv
  BY FedInit
<1>2. FedIInv /\ [Fed!Next]_(Fed!vars) => FedIInv'
  BY FedStep
<1>3. FedIInv /\ [Fed!Next]_(Fed!vars) => A
  <2> SUFFICES ASSUME FedIInv, [Fed!Next]_(Fed!vars), fedAsked' # fedAsked, fedTask'.node # None
               PROVE  A
    OBVIOUS
  <2>1. PICK t \in FedTasks : Fed!Assign(t)
    BY DEF Fed!Next, Fed!vars, Fed!Connect, Fed!Restart, Fed!Crash, Fed!Tick, Fed!Register,
       Fed!Commit,
       Fed!CommitFails, Fed!Log, Fed!Answer
  <2>2. /\ Fed!Accepts(t) /\ fedTask' = [of |-> t, step |-> "done", node |-> Fed!Selected(t)]
    BY <2>1 DEF Fed!Assign, Fed!NoTask
  <2>3. fedTask'.of = t /\ fedTask'.node = Fed!Selected(t) /\ Fed!Selected(t) # None
    BY <2>2
  <2>4. /\ Fed!Selected(t) \in Fed!Candidates(t)
        /\ \A m \in Fed!Candidates(t) : Score(Fed!Selected(t), t).region <= Score(m, t).region
    BY <2>3, SelectedFirst DEF FedIInv
  <2>5. Fed!Candidates(t) = Fed!Good(t)
    BY DEF FedIInv, TableSound, Fed!Candidates, Fed!Live, Fed!Fits, Fed!Good
  <2>6. \A n \in Fed!Good(t) : fedRows[n].offer.region = t.region =>
          fedRows[Fed!Selected(t)].offer.region = t.region
    BY <2>4, <2>5 DEF Score
  <2> QED
    BY <2>2, <2>3, <2>4, <2>5, <2>6 DEF Fed!Accepts
<1>4. FedIInv /\ [Fed!Next]_(Fed!vars) => [A]_(Fed!vars)
  BY <1>3
<1> QED
  BY <1>1, <1>2, <1>4, PTL DEF Fed!Spec, AssignedOwnNode, Fed!AssignedOwnNode

-----------------------------------------------------------------------------
(* services/exchange.                                                      *)

Placed == [side : {"buy", "sell"}, price : Nat, qty : Int]
Handler == [step : {"idle", "look", "trade", "popBuy", "popSell"}, buy : Nat, sell : Nat, qty : Int]

BookTypes ==
    /\ excOrders \in Seq(Placed) /\ excAsked \in Seq(Nat) /\ excTraded \in Seq(Int)
    /\ Len(excAsked) = Len(excOrders) /\ Len(excTraded) = Len(excOrders)
    /\ excBuys \subseteq {i \in Exchange!Ids : excOrders[i].side = "buy"}
    /\ excSells \subseteq {i \in Exchange!Ids : excOrders[i].side = "sell"}
    /\ excThread \in [ExcThreads -> Handler] /\ excOverlapped \in BOOLEAN

(* What a handler has read stays two orders that may trade.                *)
Matched ==
    \A t \in ExcThreads : excThread[t].step \in {"trade", "popBuy", "popSell"} =>
        /\ excThread[t].buy \in Exchange!Ids /\ excThread[t].sell \in Exchange!Ids
        /\ excOrders[excThread[t].buy].side = "buy" /\ excOrders[excThread[t].sell].side = "sell"
        /\ excOrders[excThread[t].sell].price <= excOrders[excThread[t].buy].price

OpenBuys == {i \in Exchange!Ids : excOrders[i].side = "buy" /\ excOrders[i].qty > 0}
OpenSells == {i \in Exchange!Ids : excOrders[i].side = "sell" /\ excOrders[i].qty > 0}
HeadOfBuys(i) == i \in excBuys /\ \A k \in excBuys : Exchange!DearestFirst(i, k)
HeadOfSells(i) == i \in excSells /\ \A k \in excSells : Exchange!CheapestFirst(i, k)

(* One handler at the book finds in it the orders with something left,     *)
(* and those of its own trade until it has popped them.                    *)
Exact == excBuys = OpenBuys /\ excSells = OpenSells
Phase(m) ==
    /\ m.step = "look" => Exact
    /\ m.step = "trade" =>
         /\ Exact /\ HeadOfBuys(m.buy) /\ HeadOfSells(m.sell)
         /\ m.qty > 0 /\ m.qty <= excOrders[m.buy].qty /\ m.qty <= excOrders[m.sell].qty
    /\ m.step = "popBuy" =>
         /\ HeadOfBuys(m.buy) /\ HeadOfSells(m.sell)
         /\ excBuys = OpenBuys \cup {m.buy} /\ excSells = OpenSells \cup {m.sell}
    /\ m.step = "popSell" => excBuys = OpenBuys /\ HeadOfSells(m.sell) /\ excSells = OpenSells \cup {m.sell}

Conserved == \A i \in Exchange!Ids : excOrders[i].qty + excTraded[i] = excAsked[i] /\ excOrders[i].qty >= 0

OneHandler ==
    /\ Conserved
    /\ \A t \in ExcThreads : \A u \in ExcThreads : excThread[t].step # "idle" /\ excThread[u].step # "idle" => t = u
    /\ \A t \in ExcThreads : Phase(excThread[t])
    /\ (\A t \in ExcThreads : excThread[t].step = "idle") => Exact /\ ~Exchange!Crossed

BookIInv == BookTypes /\ Matched /\ (~excOverlapped => OneHandler)

LEMMA BookInit == Exchange!Init => BookIInv
<1> SUFFICES ASSUME Exchange!Init PROVE BookIInv
  OBVIOUS
<1> USE DEF Exchange!Init, Exchange!Idle, Exchange!Ids
<1>1. BookTypes
  <2>1. <<>> \in Seq(Placed) /\ <<>> \in Seq(Nat) /\ <<>> \in Seq(Int)
    OBVIOUS
  <2>2. excThread \in [ExcThreads -> Handler]
    BY DEF Handler
  <2> QED
    BY <2>1, <2>2 DEF BookTypes
<1>2. Matched
  BY DEF Matched
<1>3. OneHandler
  BY DEF OneHandler, Conserved, Phase, Exact, OpenBuys, OpenSells, Exchange!Crossed
<1> QED
  BY <1>1, <1>2, <1>3 DEF BookIInv

LEMMA IdsPlaced ==
    ASSUME BookTypes
    PROVE  /\ Len(excOrders) \in Nat /\ Exchange!Ids = 1..Len(excOrders)
           /\ \A i \in Exchange!Ids : /\ i \in Nat /\ i \in Int
                                      /\ excOrders[i] \in Placed /\ excOrders[i].price \in Nat
                                      /\ excOrders[i].qty \in Int
                                      /\ excAsked[i] \in Nat /\ excTraded[i] \in Int
           /\ \A i \in excBuys : i \in Exchange!Ids /\ excOrders[i].side = "buy"
           /\ \A i \in excSells : i \in Exchange!Ids /\ excOrders[i].side = "sell"
<1>1. /\ excOrders \in Seq(Placed) /\ excAsked \in Seq(Nat) /\ excTraded \in Seq(Int)
      /\ Len(excAsked) = Len(excOrders) /\ Len(excTraded) = Len(excOrders)
  BY DEF BookTypes
<1>2. Len(excOrders) \in Nat /\ Exchange!Ids = 1..Len(excOrders)
  BY <1>1 DEF Exchange!Ids
<1>3. ASSUME NEW i \in 1..Len(excOrders)
      PROVE  excOrders[i] \in Placed /\ excAsked[i] \in Nat /\ excTraded[i] \in Int
  BY <1>1
<1>4. \A o \in Placed : o.price \in Nat /\ o.qty \in Int
  BY DEF Placed
<1>5. \A i \in 1..Len(excOrders) : i \in Nat /\ i \in Int
  OBVIOUS
<1>6. /\ \A i \in excBuys : i \in Exchange!Ids /\ excOrders[i].side = "buy"
      /\ \A i \in excSells : i \in Exchange!Ids /\ excOrders[i].side = "sell"
  BY DEF BookTypes
<1> QED
  BY <1>2, <1>3, <1>4, <1>5, <1>6

(* The head of a heap is one of its orders, and the only one that comes    *)
(* before all others.                                                      *)
LEMMA FirstByPrice ==
    ASSUME NEW N \in Nat, NEW S \in SUBSET (1..N), S # {}, NEW p, \A x \in S : p[x] \in Int
    PROVE  \E x \in S : \A y \in S : p[x] > p[y] \/ (p[x] = p[y] /\ x <= y)
<1> DEFINE Prior(x, y) == p[x] > p[y] \/ (p[x] = p[y] /\ x < y)
           R == {q \in S \X S : Prior(q[1], q[2])}
<1>1. IsFiniteSet(S)
  <2>1. 1 \in Int /\ N \in Int
    OBVIOUS
  <2>2. IsFiniteSet(1..N)
    BY ONLY <2>1, FS_Interval
  <2> QED
    BY <2>2, FS_Subset
<1>2. \A x, y \in S : <<x, y>> \in R <=> Prior(x, y)
  OBVIOUS
<1>3. /\ \A x \in S : ~Prior(x, x)
      /\ \A x, y, z \in S : Prior(x, y) /\ Prior(y, z) => Prior(x, z)
      /\ \A x, y \in S : ~Prior(y, x) => p[x] > p[y] \/ (p[x] = p[y] /\ x <= y)
  OBVIOUS
<1> HIDE DEF Prior, R
<1>4. PICK x \in S : \A y \in S : <<y, x>> \notin R
  <2>1. /\ \A x \in S : <<x, x>> \notin R
        /\ \A x, y, z \in S : <<x, y>> \in R /\ <<y, z>> \in R => <<x, z>> \in R
    BY ONLY <1>2, <1>3
  <2> QED
    BY ONLY <1>1, <2>1, S # {}, FirstOf
<1> QED
  BY <1>2, <1>3, <1>4

LEMMA HeadBuy ==
    ASSUME BookTypes, excBuys # {}
    PROVE  HeadOfBuys(Exchange!BestBuy) /\ \A i : HeadOfBuys(i) => i = Exchange!BestBuy
<1>1. /\ Len(excOrders) \in Nat /\ excBuys \in SUBSET (1..Len(excOrders))
      /\ \A i \in excBuys : i \in Int /\ excOrders[i].price \in Int
  BY IdsPlaced
<1> DEFINE p == [i \in excBuys |-> excOrders[i].price]
<1>2. \A i \in excBuys : p[i] = excOrders[i].price /\ p[i] \in Int
  BY <1>1
<1> HIDE DEF p
<1>3. \E x \in excBuys : \A y \in excBuys : p[x] > p[y] \/ (p[x] = p[y] /\ x <= y)
  BY <1>1, <1>2, FirstByPrice
<1>4. \E i \in excBuys : \A k \in excBuys : Exchange!DearestFirst(i, k)
  BY <1>2, <1>3 DEF Exchange!DearestFirst
<1>5. HeadOfBuys(Exchange!BestBuy)
  BY <1>4 DEF HeadOfBuys, Exchange!BestBuy
<1>6. ASSUME NEW i, HeadOfBuys(i) PROVE i = Exchange!BestBuy
  BY <1>1, <1>5, <1>6 DEF HeadOfBuys, Exchange!DearestFirst
<1> QED
  BY <1>5, <1>6

LEMMA HeadSell ==
    ASSUME BookTypes, excSells # {}
    PROVE  HeadOfSells(Exchange!BestSell) /\ \A i : HeadOfSells(i) => i = Exchange!BestSell
<1>1. /\ Len(excOrders) \in Nat /\ excSells \in SUBSET (1..Len(excOrders))
      /\ \A i \in excSells : i \in Int /\ excOrders[i].price \in Int
  BY IdsPlaced
<1> DEFINE p == [i \in excSells |-> -excOrders[i].price]
<1>2. \A i \in excSells : p[i] = -excOrders[i].price /\ p[i] \in Int
  BY <1>1
<1> HIDE DEF p
<1>3. \E x \in excSells : \A y \in excSells : p[x] > p[y] \/ (p[x] = p[y] /\ x <= y)
  BY <1>1, <1>2, FirstByPrice
<1>4. \E i \in excSells : \A k \in excSells : Exchange!CheapestFirst(i, k)
  <2>1. \A i, k \in excSells : -excOrders[i].price > -excOrders[k].price =>
          excOrders[i].price < excOrders[k].price
    BY <1>1
  <2>2. \A i, k \in excSells : -excOrders[i].price = -excOrders[k].price =>
          excOrders[i].price = excOrders[k].price
    BY <1>1
  <2> QED
    BY <1>2, <1>3, <2>1, <2>2 DEF Exchange!CheapestFirst
<1>5. HeadOfSells(Exchange!BestSell)
  BY <1>4 DEF HeadOfSells, Exchange!BestSell
<1>6. ASSUME NEW i, HeadOfSells(i) PROVE i = Exchange!BestSell
  BY <1>1, <1>5, <1>6 DEF HeadOfSells, Exchange!CheapestFirst
<1> QED
  BY <1>5, <1>6

LEMMA LesserOf ==
    ASSUME NEW a \in Int, NEW b \in Int
    PROVE  Exchange!Min({a, b}) \in {a, b} /\ Exchange!Min({a, b}) <= a /\ Exchange!Min({a, b}) <= b
<1>1. \E x \in {a, b} : \A y \in {a, b} : x <= y
  OBVIOUS
<1> QED
  BY <1>1 DEF Exchange!Min

LEMMA PlaceStep ==
    ASSUME Exchange!BookAssumption, BookIInv, NEW t \in ExcThreads, NEW o \in ExcOffers,
           Exchange!Place(t, o)
    PROVE  BookIInv'
<1> DEFINE L == Len(excOrders) + 1
           m == [excThread[t] EXCEPT !.step = "look"]
<1>0. BookTypes /\ Matched /\ (~excOverlapped => OneHandler)
  BY DEF BookIInv
<1>1. /\ o.side \in {"buy", "sell"} /\ o.price \in Nat /\ o.qty \in Nat /\ o.qty > 0 /\ o \in Placed
  BY DEF Exchange!BookAssumption, Placed
<1>2. /\ excOrders' = Append(excOrders, o) /\ excAsked' = Append(excAsked, o.qty)
      /\ excTraded' = Append(excTraded, 0)
      /\ excOverlapped' = (excOverlapped \/ \E u \in ExcThreads : excThread[u].step # "idle")
      /\ excThread[t].step = "idle" /\ excThread' = [excThread EXCEPT ![t] = m]
  BY <1>0 DEF Exchange!Place, BookTypes
<1>3. Len(excOrders) \in Nat /\ Exchange!Ids = 1..Len(excOrders) /\ Len(excOrders') = L
  BY <1>0, <1>1, <1>2, IdsPlaced DEF BookTypes
<1>4. /\ excOrders' \in Seq(Placed) /\ excAsked' \in Seq(Nat) /\ excTraded' \in Seq(Int)
      /\ Len(excAsked') = L /\ Len(excTraded') = L
  BY <1>0, <1>1, <1>2, <1>3 DEF BookTypes
<1>5. /\ Exchange!Ids' = 1..L /\ Exchange!Ids' = Exchange!Ids \cup {L} /\ L \notin Exchange!Ids
      /\ excOrders'[L] = o /\ excAsked'[L] = o.qty /\ excTraded'[L] = 0
      /\ \A i \in Exchange!Ids : excOrders'[i] = excOrders[i] /\ excAsked'[i] = excAsked[i] /\ excTraded'[i] = excTraded[i]
  <2>1. Exchange!Ids' = 1..L
    BY <1>3, <1>4 DEF Exchange!Ids
  <2>2. 1..L = 1..Len(excOrders) \cup {L} /\ L \notin 1..Len(excOrders)
    BY <1>3
  <2>3. /\ excOrders'[L] = o /\ \A i \in 1..Len(excOrders) : excOrders'[i] = excOrders[i]
    BY <1>0, <1>2, <1>3 DEF BookTypes
  <2>4. /\ excAsked'[L] = o.qty /\ \A i \in 1..Len(excOrders) : excAsked'[i] = excAsked[i]
    BY <1>0, <1>2, <1>3 DEF BookTypes
  <2>5. /\ excTraded'[L] = 0 /\ \A i \in 1..Len(excOrders) : excTraded'[i] = excTraded[i]
    BY <1>0, <1>2, <1>3 DEF BookTypes
  <2> QED
    BY <1>3, <2>1, <2>2, <2>3, <2>4, <2>5
<1>6. /\ excBuys' = IF o.side = "buy" THEN excBuys \cup {L} ELSE excBuys
      /\ excSells' = IF o.side = "sell" THEN excSells \cup {L} ELSE excSells
  BY <1>3 DEF Exchange!Place
<1>7. /\ m \in Handler /\ m.step = "look" /\ excThread' \in [ExcThreads -> Handler]
      /\ \A u \in ExcThreads : excThread'[u] = IF u = t THEN m ELSE excThread[u]
  BY <1>0, <1>2 DEF BookTypes, Handler
<1> HIDE DEF m, L
<1>8. BookTypes'
  <2>1. /\ excBuys \subseteq Exchange!Ids /\ excSells \subseteq Exchange!Ids
        /\ \A i \in excBuys : excOrders[i].side = "buy"
        /\ \A i \in excSells : excOrders[i].side = "sell"
    BY <1>0 DEF BookTypes
  <2>2. excBuys' \subseteq {i \in Exchange!Ids' : excOrders'[i].side = "buy"}
    <3>1. ASSUME NEW i \in excBuys' PROVE i \in Exchange!Ids' /\ excOrders'[i].side = "buy"
      <4>1. i \in excBuys \/ (i = L /\ o.side = "buy")
        BY <1>6, <3>1
      <4>2. CASE i \in excBuys
        <5>1. i \in Exchange!Ids /\ excOrders[i].side = "buy"
          BY <2>1, <4>2
        <5>2. i \in Exchange!Ids' /\ excOrders'[i] = excOrders[i]
          BY ONLY <1>5, <5>1
        <5> QED
          BY <5>1, <5>2
      <4>3. CASE i = L /\ o.side = "buy"
        BY <1>5, <4>3
      <4> QED
        BY <4>1, <4>2, <4>3
    <3> QED
      BY <3>1
  <2>3. excSells' \subseteq {i \in Exchange!Ids' : excOrders'[i].side = "sell"}
    <3>1. ASSUME NEW i \in excSells' PROVE i \in Exchange!Ids' /\ excOrders'[i].side = "sell"
      <4>1. i \in excSells \/ (i = L /\ o.side = "sell")
        BY <1>6, <3>1
      <4>2. CASE i \in excSells
        <5>1. i \in Exchange!Ids /\ excOrders[i].side = "sell"
          BY <2>1, <4>2
        <5>2. i \in Exchange!Ids' /\ excOrders'[i] = excOrders[i]
          BY ONLY <1>5, <5>1
        <5> QED
          BY <5>1, <5>2
      <4>3. CASE i = L /\ o.side = "sell"
        BY <1>5, <4>3
      <4> QED
        BY <4>1, <4>2, <4>3
    <3> QED
      BY <3>1
  <2>4. excOverlapped' \in BOOLEAN
    BY <1>2
  <2> QED
    BY <1>3, <1>4, <1>7, <2>2, <2>3, <2>4 DEF BookTypes
<1>9. Matched'
  BY <1>0, <1>5, <1>7 DEF Matched
<1>10. ASSUME ~excOverlapped' PROVE OneHandler'
  <2>1. ~excOverlapped /\ \A u \in ExcThreads : excThread[u].step = "idle"
    BY <1>2, <1>10
  <2>2. Conserved /\ Exact
    BY <1>0, <2>1 DEF OneHandler
  <2>3. Conserved'
    BY <1>1, <1>5, <2>2 DEF Conserved
  <2>4. \A u \in ExcThreads : excThread'[u].step # "idle" => u = t
    BY <1>7, <2>1
  <2>5. Exact'
    <3>1. OpenBuys' = IF o.side = "buy" THEN OpenBuys \cup {L} ELSE OpenBuys
      BY <1>1, <1>5 DEF OpenBuys
    <3>2. OpenSells' = IF o.side = "sell" THEN OpenSells \cup {L} ELSE OpenSells
      BY <1>1, <1>5 DEF OpenSells
    <3> QED
      BY <1>6, <2>2, <3>1, <3>2 DEF Exact
  <2>6. \A u \in ExcThreads : Phase(excThread[u])'
    BY <1>7, <2>1, <2>5 DEF Phase
  <2> QED
    BY <1>7, <2>3, <2>4, <2>6 DEF OneHandler
<1> QED
  BY <1>8, <1>9, <1>10 DEF BookIInv

(* A turn of match reads the heads of both heaps, or ends.                 *)
LEMMA TurnStep ==
    ASSUME BookIInv, NEW t \in ExcThreads, Exchange!Look(t) \/ Exchange!Return(t)
    PROVE  BookIInv'
<1>0. BookTypes /\ Matched /\ (~excOverlapped => OneHandler)
  BY DEF BookIInv
<1>1. excThread[t].step = "look"
        /\ UNCHANGED <<excOrders, excBuys, excSells, excTraded, excAsked, excOverlapped>>
  BY DEF Exchange!Look, Exchange!Return, Exchange!bookVars
<1>2. /\ UNCHANGED <<OpenBuys, OpenSells, Exact, Conserved, Exchange!Crossed, Exchange!Ids>>
      /\ \A i : (HeadOfBuys(i)' <=> HeadOfBuys(i)) /\ (HeadOfSells(i)' <=> HeadOfSells(i))
  BY <1>1 DEF OpenBuys, OpenSells, Exact, Conserved, Exchange!Crossed, Exchange!Ids, HeadOfBuys,
     HeadOfSells,
     Exchange!DearestFirst, Exchange!CheapestFirst, Exchange!BestBuy, Exchange!BestSell
<1> DEFINE Good(m) ==
             /\ m \in Handler
             /\ m.step \in {"idle", "trade"}
             /\ m.step = "trade" =>
                  /\ m.buy \in Exchange!Ids /\ m.sell \in Exchange!Ids
                  /\ excOrders[m.buy].side = "buy" /\ excOrders[m.sell].side = "sell"
                  /\ excOrders[m.sell].price <= excOrders[m.buy].price
             /\ ~excOverlapped => Phase(m)
             /\ m.step = "idle" => ~Exchange!Crossed
<1>3. ASSUME NEW m, excThread' = [excThread EXCEPT ![t] = m], Good(m) PROVE BookIInv'
  <2>1. /\ excThread' \in [ExcThreads -> Handler]
        /\ \A u \in ExcThreads : excThread'[u] = IF u = t THEN m ELSE excThread[u]
    BY <1>0, <1>3 DEF BookTypes
  <2>2. BookTypes'
    BY <1>0, <1>1, <1>2, <2>1 DEF BookTypes
  <2>3. Matched'
    BY <1>0, <1>1, <1>2, <1>3, <2>1 DEF Matched
  <2>4. ASSUME ~excOverlapped' PROVE OneHandler'
    <3>1. ~excOverlapped /\ OneHandler
      BY <1>0, <1>1, <2>4
    <3>2. Exact /\ \A u \in ExcThreads : excThread[u].step # "idle" => u = t
      BY <1>1, <3>1 DEF OneHandler, Phase
    <3>3. \A u \in ExcThreads : Phase(excThread[u])'
      BY <1>1, <1>2, <1>3, <2>1, <3>1 DEF OneHandler, Phase
    <3> QED
      BY <1>2, <1>3, <2>1, <3>1, <3>2, <3>3 DEF OneHandler
  <2> QED
    BY <2>2, <2>3, <2>4 DEF BookIInv
<1>4. CASE Exchange!Look(t)
  <2> DEFINE a == Exchange!BestBuy
             b == Exchange!BestSell
             q == Exchange!Min({excOrders[a].qty, excOrders[b].qty})
             m == [step |-> "trade", buy |-> a, sell |-> b, qty |-> q]
  <2>1. /\ excBuys # {} /\ excSells # {} /\ excOrders[a].price >= excOrders[b].price
        /\ excThread' = [excThread EXCEPT ![t] = m]
    BY <1>4 DEF Exchange!Look, Exchange!Crossed
  <2>2. HeadOfBuys(a) /\ HeadOfSells(b)
    BY <1>0, <2>1, HeadBuy, HeadSell
  <2>3. /\ a \in Exchange!Ids /\ b \in Exchange!Ids /\ a \in Nat /\ b \in Nat
        /\ excOrders[a].side = "buy" /\ excOrders[b].side = "sell"
        /\ excOrders[a].qty \in Int /\ excOrders[b].qty \in Int
    BY <1>0, <2>2, IdsPlaced DEF HeadOfBuys, HeadOfSells
  <2>4. q \in {excOrders[a].qty, excOrders[b].qty} /\ q <= excOrders[a].qty /\ q <= excOrders[b].qty
    BY <2>3, LesserOf
  <2>5. /\ m \in Handler /\ m.step = "trade" /\ m.buy = a /\ m.sell = b /\ m.qty = q
    BY <2>3, <2>4 DEF Handler
  <2> HIDE DEF m, q, a, b
  <2>6. ASSUME ~excOverlapped PROVE Phase(m)
    <3>1. Exact
      BY <1>0, <1>1, <2>6 DEF OneHandler, Phase
    <3>2. excOrders[a].qty > 0 /\ excOrders[b].qty > 0
      BY <2>2, <3>1 DEF Exact, OpenBuys, OpenSells, HeadOfBuys, HeadOfSells
    <3> QED
      BY <2>2, <2>3, <2>4, <2>5, <3>1, <3>2 DEF Phase
  <2>7. excOrders[b].price <= excOrders[a].price
    BY <1>0, <2>1, <2>3, IdsPlaced
  <2> QED
    BY <1>3, <2>1, <2>3, <2>5, <2>6, <2>7
<1>5. CASE Exchange!Return(t)
  <2>1. ~Exchange!Crossed /\ excThread' = [excThread EXCEPT ![t] = Exchange!Idle]
    BY <1>5 DEF Exchange!Return
  <2>2. Exchange!Idle \in Handler /\ Exchange!Idle.step = "idle"
    BY DEF Exchange!Idle, Handler
  <2> HIDE DEF Exchange!Idle
  <2> QED
    BY <1>3, <2>1, <2>2 DEF Phase
<1> QED
  BY <1>4, <1>5

LEMMA ShortSeq ==
    ASSUME NEW S, NEW N \in Nat, NEW f \in [1..N -> S]
    PROVE  f \in Seq(S) /\ Len(f) = N
OBVIOUS

(* A trade takes its quantity from both orders; one handler's heaps then   *)
(* hold, beside the open orders, the two it traded.                        *)
LEMMA TradeStep ==
    ASSUME BookIInv, NEW t \in ExcThreads, Exchange!Trade(t)
    PROVE  BookIInv'
<1>0. BookTypes /\ Matched /\ (~excOverlapped => OneHandler)
  BY DEF BookIInv
<1>1. PICK m : m = excThread[t]
  OBVIOUS
<1> DEFINE n == [m EXCEPT !.step = "popBuy"]
           both == {m.buy, m.sell}
<1>2. /\ m \in Handler /\ m.qty \in Int /\ m.step = "trade" /\ excThread' = [excThread EXCEPT ![t] = n]
      /\ excTraded' = [i \in Exchange!Ids |-> IF i \in both THEN excTraded[i] + m.qty ELSE excTraded[i]]
      /\ excOrders' = [i \in Exchange!Ids |-> IF i \in both THEN [excOrders[i] EXCEPT !.qty = @ - m.qty] ELSE excOrders[i]]
      /\ UNCHANGED <<excBuys, excSells, excAsked, excOverlapped>>
  BY <1>0, <1>1 DEF Exchange!Trade, Exchange!Goes, BookTypes, Handler
<1>3. /\ m.buy \in Exchange!Ids /\ m.sell \in Exchange!Ids
      /\ excOrders[m.buy].side = "buy" /\ excOrders[m.sell].side = "sell"
      /\ excOrders[m.sell].price <= excOrders[m.buy].price
  BY <1>0, <1>1, <1>2 DEF Matched
<1>4. /\ n \in Handler /\ n.step = "popBuy" /\ n.buy = m.buy /\ n.sell = m.sell
      /\ excThread' \in [ExcThreads -> Handler]
      /\ \A u \in ExcThreads : excThread'[u] = IF u = t THEN n ELSE excThread[u]
  BY <1>0, <1>2 DEF BookTypes, Handler
<1>5. /\ Exchange!Ids = 1..Len(excOrders) /\ Len(excOrders) \in Nat
      /\ \A i \in Exchange!Ids : excOrders[i] \in Placed /\ excOrders[i].qty \in Int /\ excTraded[i] \in Int /\ excAsked[i] \in Nat
  BY <1>0, IdsPlaced
<1> HIDE DEF n
<1>6. \A i \in Exchange!Ids :
           /\ excOrders'[i] \in Placed /\ excOrders'[i].side = excOrders[i].side
           /\ excOrders'[i].price = excOrders[i].price
           /\ excOrders'[i].qty = IF i \in both THEN excOrders[i].qty - m.qty ELSE excOrders[i].qty
  <2> SUFFICES ASSUME NEW i \in Exchange!Ids
               PROVE  /\ excOrders'[i] \in Placed /\ excOrders'[i].side = excOrders[i].side
                      /\ excOrders'[i].price = excOrders[i].price
                      /\ excOrders'[i].qty = IF i \in both THEN excOrders[i].qty - m.qty ELSE excOrders[i].qty
    OBVIOUS
  <2>1. excOrders'[i] = IF i \in both THEN [excOrders[i] EXCEPT !.qty = @ - m.qty] ELSE excOrders[i]
    BY <1>2
  <2>2. excOrders[i] \in Placed /\ excOrders[i].qty - m.qty \in Int
    BY <1>2, <1>5
  <2> QED
    BY <2>1, <2>2 DEF Placed
<1>7. \A i \in Exchange!Ids : excTraded'[i] = (IF i \in both THEN excTraded[i] + m.qty ELSE excTraded[i]) /\ excTraded'[i] \in Int
  BY <1>2, <1>5
<1>8. /\ excOrders' \in Seq(Placed) /\ Len(excOrders') = Len(excOrders) /\ Exchange!Ids' = Exchange!Ids
      /\ excTraded' \in Seq(Int) /\ Len(excTraded') = Len(excOrders)
  <2>1. excOrders' \in [1..Len(excOrders) -> Placed] /\ excTraded' \in [1..Len(excOrders) -> Int]
    BY <1>2, <1>5, <1>6, <1>7
  <2>2. DOMAIN excOrders' = 1..Len(excOrders)
    BY <2>1
  <2> QED
    BY <1>5, <2>1, <2>2, ShortSeq DEF Exchange!Ids
<1>9. BookTypes'
  <2>1. \A i \in excBuys : i \in Exchange!Ids' /\ excOrders'[i].side = "buy"
    BY <1>0, <1>6, <1>8 DEF BookTypes
  <2>2. \A i \in excSells : i \in Exchange!Ids' /\ excOrders'[i].side = "sell"
    BY <1>0, <1>6, <1>8 DEF BookTypes
  <2>3. excAsked' \in Seq(Nat) /\ Len(excAsked') = Len(excOrders')
          /\ Len(excTraded') = Len(excOrders') /\ excOverlapped' \in BOOLEAN
    BY <1>0, <1>2, <1>8 DEF BookTypes
  <2> QED
    BY <1>2, <1>4, <1>8, <2>1, <2>2, <2>3 DEF BookTypes
<1>10. Matched'
  <2> SUFFICES ASSUME NEW u \in ExcThreads, excThread'[u].step \in {"trade", "popBuy", "popSell"}
               PROVE  /\ excThread'[u].buy \in Exchange!Ids' /\ excThread'[u].sell \in Exchange!Ids'
                      /\ excOrders'[excThread'[u].buy].side = "buy"
                      /\ excOrders'[excThread'[u].sell].side = "sell"
                      /\ excOrders'[excThread'[u].sell].price <= excOrders'[excThread'[u].buy].price
    BY DEF Matched
  <2>1. CASE u = t
    BY <1>3, <1>4, <1>6, <1>8, <2>1
  <2>2. CASE u # t
    <3>1. /\ excThread'[u] = excThread[u] /\ excThread[u].buy \in Exchange!Ids
          /\ excThread[u].sell \in Exchange!Ids
          /\ excOrders[excThread[u].buy].side = "buy" /\ excOrders[excThread[u].sell].side = "sell"
          /\ excOrders[excThread[u].sell].price <= excOrders[excThread[u].buy].price
      BY <1>0, <1>4, <2>2 DEF Matched
    <3> QED
      BY <1>6, <1>8, <3>1
  <2> QED
    BY <2>1, <2>2
<1>11. ASSUME ~excOverlapped' PROVE OneHandler'
  <2>1. OneHandler /\ Phase(m)
    BY <1>0, <1>1, <1>2, <1>11 DEF OneHandler
  <2>2. /\ Exact /\ HeadOfBuys(m.buy) /\ HeadOfSells(m.sell)
        /\ m.qty > 0 /\ m.qty <= excOrders[m.buy].qty /\ m.qty <= excOrders[m.sell].qty
    BY <1>2, <2>1 DEF Phase
  <2>3. \A u \in ExcThreads : excThread[u].step # "idle" => u = t
    BY <1>1, <1>2, <2>1 DEF OneHandler
  <2>4. Conserved'
    <3> SUFFICES ASSUME NEW i \in Exchange!Ids
                 PROVE  excOrders'[i].qty + excTraded'[i] = excAsked[i] /\ excOrders'[i].qty >= 0
      BY <1>2, <1>8 DEF Conserved
    <3>1. /\ excOrders[i].qty + excTraded[i] = excAsked[i] /\ excOrders[i].qty >= 0
          /\ i \in both => m.qty <= excOrders[i].qty
      BY <2>1, <2>2 DEF OneHandler, Conserved
    <3>2. /\ excOrders'[i].qty = IF i \in both THEN excOrders[i].qty - m.qty ELSE excOrders[i].qty
          /\ excTraded'[i] = IF i \in both THEN excTraded[i] + m.qty ELSE excTraded[i]
      BY <1>6, <1>7
    <3>3. excOrders[i].qty \in Int /\ excTraded[i] \in Int /\ excAsked[i] \in Int /\ m.qty \in Int
      BY <1>0, <1>2, <1>5, IdsPlaced
    <3> HIDE DEF both
    <3>4. CASE i \in both
      BY ONLY <3>1, <3>2, <3>3, <3>4
    <3>5. CASE i \notin both
      BY ONLY <3>1, <3>2, <3>3, <3>5
    <3> QED
      BY <3>4, <3>5
  <2>5. HeadOfBuys(m.buy)' /\ HeadOfSells(m.sell)'
    <3>1. \A i, k \in Exchange!Ids : /\ Exchange!DearestFirst(i, k)' <=> Exchange!DearestFirst(i, k)
                                     /\ Exchange!CheapestFirst(i, k)' <=> Exchange!CheapestFirst(i, k)
      BY <1>6 DEF Exchange!DearestFirst, Exchange!CheapestFirst
    <3>2. excBuys \subseteq Exchange!Ids /\ excSells \subseteq Exchange!Ids
      BY <1>0 DEF BookTypes
    <3> QED
      BY <1>2, <1>3, <2>2, <3>1, <3>2 DEF HeadOfBuys, HeadOfSells
  <2>6. excBuys' = OpenBuys' \cup {m.buy} /\ excSells' = OpenSells' \cup {m.sell}
    <3>1. \A i \in Exchange!Ids : excOrders'[i].qty > 0 => excOrders[i].qty > 0
      BY <1>2, <1>5, <1>6, <2>2
    <3>2. \A i \in Exchange!Ids : excOrders[i].qty > 0 => excOrders'[i].qty > 0 \/ i \in both
      BY <1>6
    <3>3. excBuys = OpenBuys /\ excSells = OpenSells /\ m.buy \in excBuys /\ m.sell \in excSells
      BY <2>2 DEF Exact, HeadOfBuys, HeadOfSells
    <3>4. /\ \A i \in Exchange!Ids : i \in excBuys <=> i \in OpenBuys' \cup {m.buy}
          /\ \A i \in Exchange!Ids : i \in excSells <=> i \in OpenSells' \cup {m.sell}
      BY <1>3, <1>6, <1>8, <3>1, <3>2, <3>3 DEF OpenBuys, OpenSells
    <3>5. /\ excBuys \subseteq Exchange!Ids /\ excSells \subseteq Exchange!Ids
          /\ OpenBuys' \cup {m.buy} \subseteq Exchange!Ids
          /\ OpenSells' \cup {m.sell} \subseteq Exchange!Ids
      BY <1>0, <1>3, <1>8 DEF BookTypes, OpenBuys, OpenSells
    <3> QED
      BY <1>2, <3>4, <3>5
  <2>7. Phase(n)'
    BY <1>4, <2>5, <2>6 DEF Phase, HeadOfBuys, HeadOfSells, n
  <2>8. \A u \in ExcThreads : u # t => excThread'[u].step = "idle"
    BY <1>4, <2>3
  <2>9. \A u \in ExcThreads : Phase(excThread[u])'
    BY <1>4, <2>7, <2>8 DEF Phase, n
  <2> QED
    BY <1>4, <2>4, <2>8, <2>9 DEF OneHandler
<1> QED
  BY <1>9, <1>10, <1>11 DEF BookIInv

(* What one handler pops is what it traded.                                *)
LEMMA PopStep ==
    ASSUME BookIInv, NEW t \in ExcThreads, Exchange!PopBuy(t) \/ Exchange!PopSell(t)
    PROVE  BookIInv'
<1>0. BookTypes /\ Matched /\ (~excOverlapped => OneHandler)
  BY DEF BookIInv
<1>a. PICK m : m = excThread[t]
  OBVIOUS
<1>1. /\ UNCHANGED <<excOrders, excTraded, excAsked, excOverlapped>> /\ m.step \in {"popBuy", "popSell"}
      /\ excBuys' \subseteq excBuys /\ excSells' \subseteq excSells
  BY <1>a DEF Exchange!PopBuy, Exchange!PopSell
<1>2. PICK n : /\ excThread' = [excThread EXCEPT ![t] = n]
               /\ n = Exchange!Idle \/ n = [m EXCEPT !.step = "popSell"] \/ n = [m EXCEPT !.step = "look"]
               /\ n.step = "popSell" => m.step = "popBuy"
  <2>1. m \in Handler /\ \A s : [m EXCEPT !.step = s].step = s
    BY <1>0, <1>a DEF BookTypes, Handler
  <2>2. Exchange!Idle.step = "idle"
    BY DEF Exchange!Idle
  <2> QED
    BY <1>a, <2>1, <2>2 DEF Exchange!PopBuy, Exchange!PopSell, Exchange!Goes
<1>3. /\ n \in Handler /\ n.step \in {"idle", "popSell", "look"}
      /\ n.step = "popSell" => n.buy = m.buy /\ n.sell = m.sell
  <2>1. m \in Handler /\ Exchange!Idle \in Handler /\ Exchange!Idle.step = "idle"
    BY <1>0, <1>a DEF BookTypes, Handler, Exchange!Idle
  <2> QED
    BY <1>2, <2>1 DEF Handler
<1>4. /\ excThread' \in [ExcThreads -> Handler]
      /\ \A u \in ExcThreads : excThread'[u] = IF u = t THEN n ELSE excThread[u]
  BY <1>0, <1>2, <1>3 DEF BookTypes
<1>5. /\ UNCHANGED <<OpenBuys, OpenSells, Conserved, Exchange!Ids>>
      /\ \A i, k : Exchange!CheapestFirst(i, k)' <=> Exchange!CheapestFirst(i, k)
  BY <1>1 DEF OpenBuys, OpenSells, Conserved, Exchange!Ids, Exchange!CheapestFirst
<1>6. BookTypes'
  BY <1>0, <1>1, <1>4, <1>5 DEF BookTypes
<1>7. Matched'
  BY <1>0, <1>a, <1>1, <1>3, <1>4, <1>5, <1>2 DEF Matched
<1>8. ASSUME ~excOverlapped' PROVE OneHandler'
  <2>1. OneHandler /\ Phase(m)
    BY <1>0, <1>a, <1>1, <1>8 DEF OneHandler
  <2>2. \A u \in ExcThreads : excThread[u].step # "idle" => u = t
    BY <1>a, <1>1, <2>1 DEF OneHandler
  <2>3. m.buy \in Exchange!Ids /\ m.sell \in Exchange!Ids /\ excOrders[m.buy].qty >= 0
          /\ excOrders[m.sell].qty >= 0
        /\ excOrders[m.buy].side = "buy" /\ excOrders[m.sell].side = "sell"
        /\ excOrders[m.buy].qty \in Int /\ excOrders[m.sell].qty \in Int
    BY <1>0, <1>a, <1>1, <2>1, IdsPlaced DEF Matched, OneHandler, Conserved
  <2>4. CASE Exchange!PopBuy(t)
    <3>1. m.step = "popBuy" /\ UNCHANGED excSells
      BY <1>a, <2>4 DEF Exchange!PopBuy
    <3>2. /\ HeadOfBuys(m.buy) /\ HeadOfSells(m.sell)
          /\ excBuys = OpenBuys \cup {m.buy} /\ excSells = OpenSells \cup {m.sell}
      BY <2>1, <3>1 DEF Phase
    <3>3. excBuys # {} /\ Exchange!BestBuy = m.buy
      BY <1>0, <3>2, HeadBuy DEF HeadOfBuys
    <3>4. n = [m EXCEPT !.step = "popSell"]
            /\ excBuys' = IF excOrders[m.buy].qty = 0 THEN excBuys \ {m.buy} ELSE excBuys
      BY <1>a, <1>2, <1>4, <2>4, <3>3 DEF Exchange!PopBuy, Exchange!Goes
    <3>5. n.step = "popSell" /\ n.sell = m.sell
      BY <1>0, <1>a, <3>4 DEF BookTypes, Handler
    <3>6. excBuys' = OpenBuys'
      BY <1>5, <2>3, <3>2, <3>4 DEF OpenBuys
    <3>7. HeadOfSells(m.sell)' /\ excSells' = OpenSells' \cup {m.sell}
      BY <1>5, <3>1, <3>2 DEF HeadOfSells
    <3>8. Phase(n)'
      BY <3>5, <3>6, <3>7 DEF Phase, HeadOfSells
    <3> QED
      BY <1>4, <1>5, <2>1, <2>2, <3>5, <3>8 DEF OneHandler, Phase
  <2>5. CASE Exchange!PopSell(t)
    <3>1. m.step = "popSell" /\ UNCHANGED excBuys
      BY <1>a, <2>5 DEF Exchange!PopSell
    <3>2. excBuys = OpenBuys /\ HeadOfSells(m.sell) /\ excSells = OpenSells \cup {m.sell}
      BY <2>1, <3>1 DEF Phase
    <3>3. excSells # {} /\ Exchange!BestSell = m.sell
      BY <1>0, <3>2, HeadSell DEF HeadOfSells
    <3>4. n = [m EXCEPT !.step = "look"]
            /\ excSells' = IF excOrders[m.sell].qty = 0 THEN excSells \ {m.sell} ELSE excSells
      BY <1>a, <1>2, <1>4, <2>5, <3>3 DEF Exchange!PopSell, Exchange!Goes
    <3>5. n.step = "look"
      BY <1>0, <1>a, <3>4 DEF BookTypes, Handler
    <3>6. excSells' = OpenSells'
      BY <1>5, <2>3, <3>2, <3>4 DEF OpenSells
    <3>7. Exact'
      BY <1>5, <3>1, <3>2, <3>6 DEF Exact
    <3>8. Phase(n)'
      BY <3>5, <3>7 DEF Phase
    <3> QED
      BY <1>4, <1>5, <2>1, <2>2, <3>5, <3>8 DEF OneHandler, Phase
  <2> QED
    BY <2>4, <2>5
<1> QED
  BY <1>6, <1>7, <1>8 DEF BookIInv

(* Trades stay within the limits of both orders whatever runs together;    *)
(* while requests follow each other nothing is traded that was not asked,  *)
(* the best orders trade first, and between requests the heaps hold the    *)
(* orders with something left and do not cross (services/exchange, match). *)
THEOREM ExchangeCorrect ==
    ASSUME Exchange!BookAssumption PROVE Exchange!Spec => []ExchangeInv
<1>1. Exchange!Init => BookIInv
  BY BookInit
<1>2. BookIInv /\ [Exchange!Next]_(Exchange!vars) => BookIInv'
  <2> SUFFICES ASSUME BookIInv, [Exchange!Next]_(Exchange!vars) PROVE BookIInv'
    OBVIOUS
  <2>1. CASE UNCHANGED Exchange!vars
    <3>1. UNCHANGED <<excOrders, excBuys, excSells, excThread, excTraded, excAsked, excOverlapped>>
      BY <2>1 DEF Exchange!vars, Exchange!bookVars
    <3>2. UNCHANGED <<OpenBuys, OpenSells, Exact, Conserved, Exchange!Crossed, Exchange!Ids>>
      BY <3>1 DEF OpenBuys, OpenSells, Exact, Conserved, Exchange!Crossed, Exchange!Ids,
         Exchange!BestBuy, Exchange!BestSell,
         Exchange!DearestFirst, Exchange!CheapestFirst
    <3>3. \A i : (HeadOfBuys(i)' <=> HeadOfBuys(i)) /\ (HeadOfSells(i)' <=> HeadOfSells(i))
      BY <3>1 DEF HeadOfBuys, HeadOfSells, Exchange!DearestFirst, Exchange!CheapestFirst
    <3>4. BookTypes' /\ Matched'
      BY <3>1, <3>2 DEF BookIInv, BookTypes, Matched
    <3>5. OneHandler => OneHandler'
      BY <3>1, <3>2, <3>3 DEF OneHandler, Phase
    <3> QED
      BY <3>1, <3>4, <3>5 DEF BookIInv
  <2>2. CASE Exchange!Next
    BY <2>2, PlaceStep, TurnStep, TradeStep, PopStep DEF Exchange!Next
  <2> QED
    BY <2>1, <2>2
<1>3. BookIInv => Exchange!ExchangeInv
  <2> SUFFICES ASSUME BookIInv PROVE Exchange!ExchangeInv
    OBVIOUS
  <2>0. BookTypes /\ Matched /\ (~excOverlapped => OneHandler)
    BY DEF BookIInv
  <2>1. Exchange!TradesWithinLimits
    BY <2>0 DEF Matched, Exchange!TradesWithinLimits
  <2>2. Exchange!BookSettled
    <3> SUFFICES ASSUME ~excOverlapped
                 PROVE  /\ \A i \in Exchange!Ids : excOrders[i].qty + excTraded[i] = excAsked[i] /\ excOrders[i].qty >= 0
                        /\ (\A t \in ExcThreads : excThread[t].step = "idle") =>
                             ~Exchange!Crossed /\ excBuys \cup excSells = {i \in Exchange!Ids : excOrders[i].qty > 0}
      BY DEF Exchange!BookSettled
    <3>1. OpenBuys \cup OpenSells = {i \in Exchange!Ids : excOrders[i].qty > 0}
      <4>1. \A i \in Exchange!Ids : excOrders[i].side \in {"buy", "sell"}
        BY <2>0, IdsPlaced DEF Placed
      <4> QED
        BY <4>1 DEF OpenBuys, OpenSells
    <3> QED
      BY <2>0, <3>1 DEF OneHandler, Conserved, Exact
  <2>3. Exchange!BestFirst
    <3> SUFFICES ASSUME ~excOverlapped, NEW t \in ExcThreads, excThread[t].step = "trade"
                 PROVE  /\ \A b \in excBuys : excOrders[b].price <= excOrders[excThread[t].buy].price
                                              /\ (excOrders[b].price = excOrders[excThread[t].buy].price => b >= excThread[t].buy)
                        /\ \A s \in excSells : excOrders[s].price >= excOrders[excThread[t].sell].price
                                               /\ (excOrders[s].price = excOrders[excThread[t].sell].price => s >= excThread[t].sell)
      BY DEF Exchange!BestFirst
    <3>1. HeadOfBuys(excThread[t].buy) /\ HeadOfSells(excThread[t].sell)
      BY <2>0 DEF OneHandler, Phase
    <3>2. /\ \A i \in excBuys : i \in Int /\ excOrders[i].price \in Int
          /\ \A i \in excSells : i \in Int /\ excOrders[i].price \in Int
      BY <2>0, IdsPlaced
    <3> QED
      BY <3>1, <3>2 DEF HeadOfBuys, HeadOfSells, Exchange!DearestFirst, Exchange!CheapestFirst
  <2> QED
    BY <2>1, <2>2, <2>3 DEF Exchange!ExchangeInv
<1> QED
  BY <1>1, <1>2, <1>3, PTL DEF Exchange!Spec, ExchangeInv

-----------------------------------------------------------------------------
(* services/model-sync, and what else writes its file.                     *)

(* A writer has something to write, and what was ever there still is; the  *)
(* bucket holds what was uploaded, as the file does if nobody wrote since. *)
NeverAbsent ==
    /\ delPc["sync"] \in {"open", "write", "open2", "write2"} => delHolds["sync"] # None
    /\ delPc["sync"] \in {"write", "reread", "open2", "write2"} => delRuntime # None
    /\ delPc["monitor"] = "write" => delHolds["monitor"] # None
    /\ delPc["export"] = "write" => delHolds["export"] \in DelExports
    /\ delPc["s3"] = "download" => delBucket # None /\ (~delChanged => delRuntime = delBucket)

(* One writer at most has the file open, and all that was read is whole.   *)
OneWriter ==
    /\ \A p \in Delivery!Writers : p \in delWriting <=> delPc[p] \in {"write", "write2"}
    /\ \A p, q \in delWriting : p = q
    /\ delWriting # {} => delFresh
    /\ delWriting = {} => delRuntime # Torn
    /\ Torn \notin {delBackup, delBucket, delHolds["sync"], delHolds["monitor"]}

DeliveryIInv == Delivery!TypeOK /\ NeverAbsent /\ (~delClash => OneWriter)

LEMMA DeliveryInit ==
    ASSUME Delivery!DeliveryAssumption, Delivery!Init
    PROVE  DeliveryIInv
<1> USE DEF Delivery!Init, Delivery!DeliveryAssumption, Delivery!Writers, Delivery!Content, Delivery!Models
<1>1. Delivery!TypeOK
  <2>1. /\ delExported \in DelExports \cup {None, Torn} /\ delRuntime \in Delivery!Content
        /\ delBackup \in Delivery!Content
        /\ delBucket \in Delivery!Content /\ delWriting \subseteq Delivery!Writers
        /\ delFresh \in BOOLEAN
        /\ delClash \in BOOLEAN /\ delChanged \in BOOLEAN
    OBVIOUS
  <2>2. /\ delPc \in [Delivery!Writers \cup {"s3", "export"} ->
                    {"start", "open", "write", "reread", "open2", "write2", "download", "ended"}]
        /\ delHolds \in [Delivery!Writers \cup {"export"} -> Delivery!Content]
        /\ delWrites \in [{"monitor", "trainer", "s3"} -> 0..DelMaxWrites]
    OBVIOUS
  <2> QED
    BY <2>1, <2>2 DEF Delivery!TypeOK
<1>2. NeverAbsent
  BY DEF NeverAbsent
<1>3. OneWriter
  BY DEF OneWriter
<1> QED
  BY <1>1, <1>2, <1>3 DEF DeliveryIInv

(* What a step does to what is stored.                                     *)
Kept ==
    /\ delPc["s3"] = "download" /\ delPc'["s3"] = "start" /\ ~delChanged => delRuntime' = delRuntime
    /\ delRuntime # None => delRuntime' # None
    /\ delBackup # None => delBackup' # None
    /\ delBucket # None => delBucket' # None

Processes == Delivery!Writers \cup {"s3", "export"}
Steps == {"start", "open", "write", "reread", "open2", "write2", "download", "ended"}

LEMMA ProcessGoesOn ==
    ASSUME Delivery!TypeOK, NEW p \in Processes, NEW step \in Steps, Delivery!Goto(p, step)
    PROVE  /\ delPc' \in [Processes -> Steps] /\ delPc'[p] = step
           /\ \A q \in Processes : q # p => delPc'[q] = delPc[q]
  BY DEF Delivery!TypeOK, Delivery!Goto, Processes, Steps

LEMMA ProcessReads ==
    ASSUME Delivery!TypeOK, NEW p \in Delivery!Writers \cup {"export"}, NEW c \in Delivery!Content,
           delHolds' = [delHolds EXCEPT ![p] = c]
    PROVE  /\ delHolds' \in [Delivery!Writers \cup {"export"} -> Delivery!Content] /\ delHolds'[p] = c
           /\ \A q \in Delivery!Writers \cup {"export"} : q # p => delHolds'[q] = delHolds[q]
  BY DEF Delivery!TypeOK

LEMMA DeliveryStep ==
    ASSUME Delivery!DeliveryAssumption, DeliveryIInv, Delivery!Next
    PROVE  DeliveryIInv' /\ Kept
<1> USE DEF Delivery!DeliveryAssumption, Delivery!Writers, Delivery!Content, Delivery!Models,
            Delivery!TypeOK, Delivery!Goto, Delivery!Seen
<1>0. Delivery!TypeOK /\ NeverAbsent /\ (~delClash => OneWriter)
  BY DEF DeliveryIInv
<1>1. ASSUME NEW e \in DelExports, Delivery!ExportOpen(e) PROVE DeliveryIInv' /\ Kept
  <2>1. Delivery!TypeOK'
    BY <1>0, <1>1 DEF Delivery!ExportOpen
  <2>2. NeverAbsent' /\ Kept
    BY <1>0, <1>1 DEF Delivery!ExportOpen, NeverAbsent, Kept
  <2>3. ~delClash' => OneWriter'
    BY <1>0, <1>1 DEF Delivery!ExportOpen, OneWriter
  <2> QED
    BY <2>1, <2>2, <2>3 DEF DeliveryIInv
<1>2. CASE Delivery!ExportWrite
  <2>1. Delivery!TypeOK'
    BY <1>0, <1>2 DEF Delivery!ExportWrite, NeverAbsent
  <2>2. NeverAbsent' /\ Kept
    BY <1>0, <1>2 DEF Delivery!ExportWrite, NeverAbsent, Kept
  <2>3. ~delClash' => OneWriter'
    BY <1>0, <1>2 DEF Delivery!ExportWrite, OneWriter
  <2> QED
    BY <2>1, <2>2, <2>3 DEF DeliveryIInv
<1>3. CASE Delivery!SyncStart
  <2>1. Delivery!TypeOK'
    BY <1>0, <1>3 DEF Delivery!SyncStart
  <2>2. NeverAbsent' /\ Kept
    BY <1>0, <1>3 DEF Delivery!SyncStart, NeverAbsent, Kept
  <2>3. ~delClash' => OneWriter'
    <3> SUFFICES ASSUME ~delClash' PROVE OneWriter'
      OBVIOUS
    <3>1. OneWriter /\ delExported # Torn
            /\ UNCHANGED <<delRuntime, delWriting, delFresh, delBackup, delBucket>>
      BY <1>0, <1>3 DEF Delivery!SyncStart
    <3>2. \A p \in Delivery!Writers : delPc'[p] \in {"write", "write2"} <=> delPc[p] \in {"write", "write2"}
      BY <1>0, <1>3 DEF Delivery!SyncStart
    <3>3. delHolds'["sync"] # Torn /\ delHolds'["monitor"] = delHolds["monitor"]
      BY <1>0, <1>3, <3>1 DEF Delivery!SyncStart, OneWriter
    <3> QED
      BY <3>1, <3>2, <3>3 DEF OneWriter
  <2> QED
    BY <2>1, <2>2, <2>3 DEF DeliveryIInv
<1>4. CASE Delivery!SyncReread
  <2>1. Delivery!TypeOK'
    BY <1>0, <1>4 DEF Delivery!SyncReread
  <2>2. NeverAbsent' /\ Kept
    BY <1>0, <1>4 DEF Delivery!SyncReread, NeverAbsent, Kept
  <2>3. ~delClash' => OneWriter'
    BY <1>0, <1>4 DEF Delivery!SyncReread, OneWriter
  <2> QED
    BY <2>1, <2>2, <2>3 DEF DeliveryIInv
<1>5. CASE Delivery!SyncDownload
  <2>1. Delivery!TypeOK'
    BY <1>0, <1>5 DEF Delivery!SyncDownload, Delivery!DownloadOnto
  <2>2. NeverAbsent' /\ Kept
    BY <1>0, <1>5 DEF Delivery!SyncDownload, Delivery!DownloadOnto, NeverAbsent, Kept
  <2>3. ~delClash' => OneWriter'
    BY <1>0, <1>5 DEF Delivery!SyncDownload, Delivery!DownloadOnto, OneWriter
  <2> QED
    BY <2>1, <2>2, <2>3 DEF DeliveryIInv
<1>6. CASE Delivery!SyncOpen("open", "write") \/ Delivery!SyncOpen("open2", "write2")
  <2>1. Delivery!TypeOK'
    BY <1>0, <1>6 DEF Delivery!SyncOpen, Delivery!OpenFile
  <2>2. NeverAbsent' /\ Kept
    BY <1>0, <1>6 DEF Delivery!SyncOpen, Delivery!OpenFile, NeverAbsent, Kept
  <2>3. ~delClash' => OneWriter'
    BY <1>0, <1>6 DEF Delivery!SyncOpen, Delivery!OpenFile, OneWriter
  <2> QED
    BY <2>1, <2>2, <2>3 DEF DeliveryIInv
<1>7. CASE Delivery!SyncWrite("write", "reread") \/ Delivery!SyncWrite("write2", "start")
  <2>1. Delivery!TypeOK'
    <3>1. /\ delRuntime' \in Delivery!Content /\ delWriting' \subseteq Delivery!Writers
          /\ delFresh' \in BOOLEAN
          /\ delChanged' \in BOOLEAN /\ delClash' \in BOOLEAN
      <4>1. Delivery!WriteFile("sync", delHolds["sync"]) /\ delHolds["sync"] \in Delivery!Content
        BY <1>0, <1>7 DEF Delivery!SyncWrite
      <4>2. /\ delWriting' = delWriting \ {"sync"} /\ delClash' = (delClash \/ delWriting \ {"sync"} # {})
        BY <4>1 DEF Delivery!WriteFile
      <4>3. CASE "sync" \in delWriting
        BY <1>0, <4>1, <4>2, <4>3 DEF Delivery!WriteFile
      <4>4. CASE "sync" \notin delWriting
        BY <1>0, <4>1, <4>2, <4>4 DEF Delivery!WriteFile
      <4> QED
        BY <4>3, <4>4
    <3>2. delPc' \in [Processes -> Steps]
      BY <1>0, <1>7, ProcessGoesOn DEF Delivery!SyncWrite, Processes, Steps
    <3> QED
      BY <1>0, <1>7, <3>1, <3>2 DEF Delivery!SyncWrite, Processes, Steps
  <2>2. NeverAbsent' /\ Kept
    BY <1>0, <1>7 DEF Delivery!SyncWrite, Delivery!WriteFile, NeverAbsent, Kept
  <2>3. ~delClash' => OneWriter'
    BY <1>0, <1>7 DEF Delivery!SyncWrite, Delivery!WriteFile, OneWriter
  <2> QED
    BY <2>1, <2>2, <2>3 DEF DeliveryIInv
<1>8. CASE Delivery!Backup
  <2>1. Delivery!TypeOK'
    BY <1>0, <1>8 DEF Delivery!Backup
  <2>2. NeverAbsent' /\ Kept
    BY <1>0, <1>8 DEF Delivery!Backup, NeverAbsent, Kept
  <2>3. ~delClash' => OneWriter'
    BY <1>0, <1>8 DEF Delivery!Backup, OneWriter
  <2> QED
    BY <2>1, <2>2, <2>3 DEF DeliveryIInv
<1>9. CASE Delivery!RollbackOpen
  <2>1. /\ delPc["monitor"] = "open" /\ UNCHANGED <<delExported, delBackup, delBucket>>
        /\ delPc' \in [Processes -> Steps] /\ \A q \in Processes : q # "monitor" => delPc'[q] = delPc[q]
    BY <1>0, <1>9, ProcessGoesOn DEF Delivery!RollbackOpen, Processes, Steps
  <2>2. CASE delBackup = None
    <3>1. delPc'["monitor"] = "ended"
            /\ UNCHANGED <<delRuntime, delWriting, delFresh, delHolds, delWrites, delClash, delChanged>>
      BY <1>0, <1>9, <2>2 DEF Delivery!RollbackOpen
    <3>2. Delivery!TypeOK'
      BY <1>0, <2>1, <3>1 DEF Processes, Steps
    <3>3. NeverAbsent' /\ Kept
      BY <1>0, <2>1, <3>1 DEF NeverAbsent, Kept, Processes
    <3>4. OneWriter => OneWriter'
      BY <2>1, <3>1 DEF OneWriter, Processes
    <3> QED
      BY <1>0, <3>1, <3>2, <3>3, <3>4 DEF DeliveryIInv
  <2>3. CASE delBackup # None
    <3>1. delPc'["monitor"] = "write" /\ Delivery!OpenFile("monitor")
            /\ delWrites["monitor"] < DelMaxWrites
      BY <1>0, <1>9, <2>3 DEF Delivery!RollbackOpen
    <3>2. /\ delHolds' = [delHolds EXCEPT !["monitor"] = delBackup]
          /\ delWrites' = [delWrites EXCEPT !["monitor"] = @ + 1]
      BY <1>0, <1>9, <2>3 DEF Delivery!RollbackOpen
    <3>3. /\ delHolds' \in [Delivery!Writers \cup {"export"} -> Delivery!Content]
          /\ delHolds'["monitor"] = delBackup
          /\ delHolds'["sync"] = delHolds["sync"] /\ delHolds'["export"] = delHolds["export"]
      BY <1>0, <3>2, ProcessReads
    <3>4. delWrites' \in [{"monitor", "trainer", "s3"} -> 0..DelMaxWrites]
      BY <1>0, <3>1, <3>2
    <3>5. /\ delRuntime' = Torn /\ delWriting' = delWriting \cup {"monitor"} /\ delFresh' /\ delChanged'
          /\ delFresh' \in BOOLEAN /\ delChanged' \in BOOLEAN /\ delClash' \in BOOLEAN
          /\ ~delClash' => ~delClash /\ delWriting \subseteq {"monitor"}
      BY <1>0, <3>1 DEF Delivery!OpenFile
    <3>6. Delivery!TypeOK'
      BY <1>0, <2>1, <3>3, <3>4, <3>5 DEF Processes, Steps
    <3>7. NeverAbsent' /\ Kept
      BY <1>0, <2>1, <2>3, <3>1, <3>3, <3>5 DEF NeverAbsent, Kept, Processes
    <3>8. ~delClash' => OneWriter'
      BY <1>0, <2>1, <3>1, <3>3, <3>5 DEF OneWriter, Processes
    <3> QED
      BY <3>6, <3>7, <3>8 DEF DeliveryIInv
  <2> QED
    BY <2>2, <2>3
<1>10. CASE Delivery!RollbackWrite
  <2>1. Delivery!TypeOK'
    BY <1>0, <1>10 DEF Delivery!RollbackWrite, Delivery!WriteFile
  <2>2. NeverAbsent' /\ Kept
    BY <1>0, <1>10 DEF Delivery!RollbackWrite, Delivery!WriteFile, NeverAbsent, Kept
  <2>3. ~delClash' => OneWriter'
    BY <1>0, <1>10 DEF Delivery!RollbackWrite, Delivery!WriteFile, OneWriter
  <2> QED
    BY <2>1, <2>2, <2>3 DEF DeliveryIInv
<1>11. CASE Delivery!Upload
  <2>1. Delivery!TypeOK'
    <3>1. delPc' \in [Processes -> Steps]
      BY <1>0, <1>11, ProcessGoesOn DEF Delivery!Upload, Processes, Steps
    <3>2. delWrites' \in [{"monitor", "trainer", "s3"} -> 0..DelMaxWrites] /\ delClash' \in BOOLEAN
      BY <1>0, <1>11 DEF Delivery!Upload
    <3>3. delBucket' \in {delBucket, delRuntime} /\ delChanged' \in {delChanged, FALSE}
      BY <1>0, <1>11 DEF Delivery!Upload
    <3> QED
      BY <1>0, <1>11, <3>1, <3>2, <3>3 DEF Delivery!Upload, Processes, Steps
  <2>2. NeverAbsent' /\ Kept
    BY <1>0, <1>11 DEF Delivery!Upload, NeverAbsent, Kept
  <2>3. ~delClash' => OneWriter'
    BY <1>0, <1>11 DEF Delivery!Upload, OneWriter
  <2> QED
    BY <2>1, <2>2, <2>3 DEF DeliveryIInv
<1>12. CASE Delivery!Download
  <2>1. Delivery!TypeOK'
    BY <1>0, <1>12 DEF Delivery!Download, Delivery!DownloadOnto
  <2>2. NeverAbsent' /\ Kept
    BY <1>0, <1>12 DEF Delivery!Download, Delivery!DownloadOnto, NeverAbsent, Kept
  <2>3. ~delClash' => OneWriter'
    BY <1>0, <1>12 DEF Delivery!Download, Delivery!DownloadOnto, OneWriter
  <2> QED
    BY <2>1, <2>2, <2>3 DEF DeliveryIInv
<1>13. CASE Delivery!TrainerOpen
  <2>1. Delivery!TypeOK'
    BY <1>0, <1>13 DEF Delivery!TrainerOpen, Delivery!OpenFile
  <2>2. NeverAbsent' /\ Kept
    BY <1>0, <1>13 DEF Delivery!TrainerOpen, Delivery!OpenFile, NeverAbsent, Kept
  <2>3. ~delClash' => OneWriter'
    BY <1>0, <1>13 DEF Delivery!TrainerOpen, Delivery!OpenFile, OneWriter
  <2> QED
    BY <2>1, <2>2, <2>3 DEF DeliveryIInv
<1>14. CASE Delivery!TrainerWrite
  <2>1. Delivery!TypeOK'
    BY <1>0, <1>14 DEF Delivery!TrainerWrite, Delivery!WriteFile
  <2>2. NeverAbsent' /\ Kept
    BY <1>0, <1>14 DEF Delivery!TrainerWrite, Delivery!WriteFile, NeverAbsent, Kept
  <2>3. ~delClash' => OneWriter'
    BY <1>0, <1>14 DEF Delivery!TrainerWrite, Delivery!WriteFile, OneWriter
  <2> QED
    BY <2>1, <2>2, <2>3 DEF DeliveryIInv
<1>15. ASSUME NEW p \in Delivery!Writers, Delivery!Stop(p) PROVE DeliveryIInv' /\ Kept
  <2>1. Delivery!TypeOK'
    BY <1>0, <1>15 DEF Delivery!Stop
  <2>2. NeverAbsent' /\ Kept
    BY <1>0, <1>15 DEF Delivery!Stop, NeverAbsent, Kept
  <2>3. ~delClash' => OneWriter'
    BY <1>0, <1>15 DEF Delivery!Stop, OneWriter
  <2> QED
    BY <2>1, <2>2, <2>3 DEF DeliveryIInv
<1> QED
  BY <1>1, <1>2, <1>3, <1>4, <1>5, <1>6, <1>7, <1>8, <1>9, <1>10, <1>11, <1>12, <1>13, <1>14,
     <1>15 DEF Delivery!Next

(* For any exports and number of writes: what is read of the runtime file  *)
(* is whole, unless two of its writers wrote at once.                      *)
THEOREM FileWhole ==
    ASSUME Delivery!DeliveryAssumption PROVE Delivery!Spec => []WholeUnlessClash
<1>1. Delivery!Init => DeliveryIInv
  BY DeliveryInit
<1>2. DeliveryIInv /\ [Delivery!Next]_(Delivery!vars) => DeliveryIInv'
  <2> SUFFICES ASSUME DeliveryIInv, [Delivery!Next]_(Delivery!vars) PROVE DeliveryIInv'
    OBVIOUS
  <2>1. CASE UNCHANGED Delivery!vars
    BY <2>1 DEF Delivery!vars, DeliveryIInv, Delivery!TypeOK, NeverAbsent, OneWriter
  <2>2. CASE Delivery!Next
    BY <2>2, DeliveryStep
  <2> QED
    BY <2>1, <2>2
<1>3. DeliveryIInv => Delivery!WholeUnlessClash
  BY DEF DeliveryIInv, OneWriter, Delivery!WholeUnlessClash
<1> QED
  BY <1>1, <1>2, <1>3, PTL DEF Delivery!Spec, WholeUnlessClash

(* A step of the sync loop that does not follow a clash or a change it did *)
(* not see takes nothing back.                                             *)
THEOREM NothingUndone ==
    ASSUME Delivery!DeliveryAssumption PROVE Delivery!Spec => LoopUndoesOnlyRaces
<1>1. Delivery!Init => DeliveryIInv
  BY DeliveryInit
<1>2. DeliveryIInv /\ [Delivery!Next]_(Delivery!vars) => DeliveryIInv' /\ [Kept]_(Delivery!vars)
  <2> SUFFICES ASSUME DeliveryIInv, [Delivery!Next]_(Delivery!vars)
               PROVE  DeliveryIInv' /\ [Kept]_(Delivery!vars)
    OBVIOUS
  <2>1. CASE UNCHANGED Delivery!vars
    BY <2>1 DEF Delivery!vars, DeliveryIInv, Delivery!TypeOK, NeverAbsent, OneWriter
  <2>2. CASE Delivery!Next
    BY <2>2, DeliveryStep
  <2> QED
    BY <2>1, <2>2
<1> QED
  BY <1>1, <1>2, PTL DEF Delivery!Spec, LoopUndoesOnlyRaces, Delivery!LoopUndoesOnlyRaces, Kept

-----------------------------------------------------------------------------
(* services/arbitrage-engine: the price comparison.                        *)

(* No time is in the future.                                               *)
Stamped ==
    /\ arbNow \in Nat
    /\ DOMAIN arbNewest = Arbitrage!Keys /\ DOMAIN arbPayouts = Arbitrage!Keys
    /\ \A k \in Arbitrage!Keys : arbNewest[k] \in Nat /\ arbNewest[k] <= arbNow
    /\ DOMAIN arbReports = ArbRequests
    /\ \A w \in ArbRequests : arbReports[w] # None =>
         /\ DOMAIN arbReports[w].rate \subseteq Arbitrage!Keys
         /\ arbReports[w].at \in Nat /\ arbReports[w].at <= arbNow
         /\ arbReports[w] = [rate |-> arbReports[w].rate, at |-> arbReports[w].at, met |-> arbReports[w].met]

(* A commission held by a request that met no other of it is held by no    *)
(* other, and is newer than what is stored of it.                          *)
Alone(w, k) ==
    k \in Arbitrage!Held(w) /\ k \notin arbReports[w].met =>
      arbNewest[k] <= arbReports[w].at /\ \A v \in ArbRequests \ {w} : k \notin Arbitrage!Held(v)

HeldIsNewer ==
    /\ \A k \in Arbitrage!Keys \ arbRaced : arbPayouts[k] # None => arbPayouts[k].at = arbNewest[k]
    /\ \A w \in ArbRequests : \A k \in Arbitrage!Keys : Alone(w, k)

(* What a scan has found is what is viable of the pairs it looked at.      *)
FoundSoFar ==
    /\ arbScan = [step |-> arbScan.step, from |-> arbScan.from, left |-> arbScan.left, found |-> arbScan.found, limit |-> arbScan.limit]
    /\ arbScan.step = "detect" /\ ~arbMixed =>
         /\ arbScan.left \subseteq Arbitrage!Pairs(arbProducts)
         /\ \A o : o \in arbScan.found <=>
              \E p \in Arbitrage!Pairs(arbProducts) \ arbScan.left :
                 Arbitrage!Viable(p) /\ o = [pair |-> p, rate |-> Arbitrage!PaidBy(p).rate]

ArbitrageIInv == Stamped /\ HeldIsNewer /\ FoundSoFar

LEMMA ArbitrageInit ==
    ASSUME Arbitrage!ArbitrageAssumption, Arbitrage!Init
    PROVE  ArbitrageIInv
<1> USE DEF Arbitrage!Init
<1>1. Stamped
  BY DEF Stamped
<1>2. HeldIsNewer
  BY DEF HeldIsNewer, Alone, Arbitrage!Held
<1>3. FoundSoFar
  BY DEF FoundSoFar, Arbitrage!NoScan
<1> QED
  BY <1>1, <1>2, <1>3 DEF ArbitrageIInv

LEMMA GreaterOf ==
    ASSUME NEW a \in Int, NEW b \in Int
    PROVE  Arbitrage!Max({a, b}) \in {a, b} /\ Arbitrage!Max({a, b}) >= a /\ Arbitrage!Max({a, b}) >= b
<1>1. \E x \in {a, b} : \A y \in {a, b} : x >= y
  OBVIOUS
<1> QED
  BY <1>1 DEF Arbitrage!Max

(* A commission is stored.                                                 *)
LEMMA Stores ==
    ASSUME Stamped, NEW k \in Arbitrage!Keys, NEW rate, NEW at \in Nat, at <= arbNow,
           Arbitrage!Upsert(k, rate, at)
    PROVE  /\ DOMAIN arbNewest' = Arbitrage!Keys /\ DOMAIN arbPayouts' = Arbitrage!Keys /\ arbMixed'
           /\ \A l \in Arbitrage!Keys : l # k =>
                arbNewest'[l] = arbNewest[l] /\ arbPayouts'[l] = arbPayouts[l]
           /\ arbNewest'[k] \in Nat /\ arbNewest'[k] <= arbNow /\ (arbNewest[k] <= at => arbNewest'[k] = at)
           /\ arbPayouts'[k].at = at
<1>1. arbNewest' = [arbNewest EXCEPT ![k] = Arbitrage!Max({arbNewest[k], at})] /\ arbNewest[k] \in Nat
  BY DEF Arbitrage!Upsert, Stamped
<1>2. arbPayouts' = [arbPayouts EXCEPT ![k] = [rate |-> rate, at |-> at]] /\ arbMixed'
  BY DEF Arbitrage!Upsert
<1>3. Arbitrage!Max({arbNewest[k], at}) \in {arbNewest[k], at}
        /\ Arbitrage!Max({arbNewest[k], at}) >= arbNewest[k]
      /\ Arbitrage!Max({arbNewest[k], at}) >= at
  <2>1. arbNewest[k] \in Int /\ at \in Int
    BY <1>1
  <2> QED
    BY <2>1, GreaterOf
<1> QED
  BY <1>1, <1>2, <1>3 DEF Stamped

(* A scan that goes on under unchanged tables, or that ends.               *)
LEMMA ScanStays ==
    ASSUME FoundSoFar, UNCHANGED arbScan, arbMixed' \/ (UNCHANGED <<arbProducts, arbPayouts, arbMixed>>)
    PROVE  FoundSoFar'
<1>1. CASE arbMixed'
  BY <1>1 DEF FoundSoFar
<1>2. CASE UNCHANGED <<arbProducts, arbPayouts, arbMixed>>
  BY <1>2 DEF FoundSoFar, Arbitrage!Pairs, Arbitrage!Viable, Arbitrage!PaidBy
<1> QED
  BY <1>1, <1>2

LEMMA ReportsStay ==
    ASSUME Stamped, HeldIsNewer, UNCHANGED <<arbPayouts, arbReports, arbNewest, arbRaced>>,
           arbNow' \in Nat, arbNow' >= arbNow
    PROVE  Stamped' /\ HeldIsNewer'
<1>1. Stamped'
  BY DEF Stamped
<1>2. HeldIsNewer'
  BY DEF HeldIsNewer, Alone, Arbitrage!Held
<1> QED
  BY <1>1, <1>2

(* A request begins: those of the same commission meet.                    *)
LEMMA Begins ==
    ASSUME Stamped, HeldIsNewer, NEW w \in ArbRequests, NEW rates, DOMAIN rates \subseteq Arbitrage!Keys,
           Arbitrage!Report(w, rates, arbNow)
    PROVE  Stamped' /\ HeldIsNewer'
<1>1. /\ arbReports[w] = None
      /\ arbReports' = [v \in ArbRequests |->
           IF v = w THEN [rate |-> rates, at |-> arbNow, met |-> DOMAIN rates \cap UNION {Arbitrage!Held(u) : u \in ArbRequests}]
           ELSE IF arbReports[v] = None THEN None
           ELSE [arbReports[v] EXCEPT !.met = @ \cup (Arbitrage!Held(v) \cap DOMAIN rates)]]
  BY DEF Arbitrage!Report
<1>0. UNCHANGED <<arbNow, arbPayouts, arbNewest, arbRaced>>
  BY DEF Arbitrage!Report
<1> DEFINE mine == arbReports'[w]
<1>2. /\ mine = [rate |-> rates, at |-> arbNow, met |-> DOMAIN rates \cap UNION {Arbitrage!Held(u) : u \in ArbRequests}]
      /\ DOMAIN arbReports' = ArbRequests
  BY <1>1
<1>3. ASSUME NEW v \in ArbRequests, v # w
      PROVE  /\ arbReports[v] = None => arbReports'[v] = None
             /\ arbReports[v] # None =>
                  /\ arbReports'[v].rate = arbReports[v].rate /\ arbReports'[v].at = arbReports[v].at
                  /\ arbReports'[v].met = arbReports[v].met \cup (Arbitrage!Held(v) \cap DOMAIN rates)
                  /\ arbReports'[v] = [rate |-> arbReports'[v].rate, at |-> arbReports'[v].at, met |-> arbReports'[v].met]
  <2>1. CASE arbReports[v] = None
    BY <1>1, <1>3, <2>1
  <2>2. CASE arbReports[v] # None
    <3>1. arbReports'[v] = [arbReports[v] EXCEPT !.met = @ \cup (Arbitrage!Held(v) \cap DOMAIN rates)]
      BY <1>1, <1>3, <2>2
    <3>2. arbReports[v] = [rate |-> arbReports[v].rate, at |-> arbReports[v].at, met |-> arbReports[v].met]
      BY <2>2 DEF Stamped
    <3>3. arbReports'[v] = [rate |-> arbReports[v].rate, at |-> arbReports[v].at,
                            met |-> arbReports[v].met \cup (Arbitrage!Held(v) \cap DOMAIN rates)]
      BY <3>1, <3>2
    <3> QED
      BY <2>2, <3>3
  <2> QED
    BY <2>1, <2>2
<1> HIDE DEF mine
<1>4. Stamped'
  <2>1. ASSUME NEW v \in ArbRequests, arbReports'[v] # None
        PROVE  /\ DOMAIN arbReports'[v].rate \subseteq Arbitrage!Keys
               /\ arbReports'[v].at \in Nat /\ arbReports'[v].at <= arbNow
               /\ arbReports'[v] = [rate |-> arbReports'[v].rate, at |-> arbReports'[v].at, met |-> arbReports'[v].met]
    <3>1. CASE v = w
      <4>1. /\ mine.rate = rates /\ mine.at = arbNow
            /\ mine = [rate |-> mine.rate, at |-> mine.at, met |-> mine.met]
        BY <1>2
      <4> QED
        BY <3>1, <4>1 DEF Stamped, mine
    <3>2. CASE v # w
      BY <1>3, <2>1, <3>2 DEF Stamped
    <3> QED
      BY <3>1, <3>2
  <2> QED
    BY <1>0, <1>2, <2>1 DEF Stamped
<1>5. /\ Arbitrage!Held(w)' \subseteq DOMAIN rates
      /\ \A v \in ArbRequests \ {w} : Arbitrage!Held(v)' \subseteq Arbitrage!Held(v)
  <2>1. Arbitrage!Held(w)' \subseteq DOMAIN rates
    BY <1>2 DEF Arbitrage!Held, mine
  <2>2. ASSUME NEW v \in ArbRequests \ {w} PROVE Arbitrage!Held(v)' \subseteq Arbitrage!Held(v)
    BY <1>3, <2>2 DEF Arbitrage!Held
  <2> QED
    BY <2>1, <2>2
<1>6. ASSUME NEW v \in ArbRequests, NEW k \in Arbitrage!Keys PROVE Alone(v, k)'
  <2> SUFFICES ASSUME k \in Arbitrage!Held(v)', k \notin arbReports'[v].met
               PROVE  /\ arbNewest'[k] <= arbReports'[v].at
                      /\ \A u \in ArbRequests \ {v} : k \notin Arbitrage!Held(u)'
    BY DEF Alone
  <2>1. CASE v = w
    <3>1. k \in DOMAIN rates /\ \A u \in ArbRequests : k \notin Arbitrage!Held(u)
      BY <1>2, <1>5, <2>1 DEF mine
    <3>2. arbNewest'[k] <= arbReports'[v].at
      BY <1>0, <1>2, <2>1 DEF Stamped, mine
    <3> QED
      BY <1>5, <2>1, <3>1, <3>2
  <2>2. CASE v # w
    <3>1. arbReports[v] # None /\ k \in Arbitrage!Held(v)
      BY <1>3, <1>5, <2>2 DEF Arbitrage!Held
    <3>2. /\ arbReports'[v].at = arbReports[v].at /\ k \notin arbReports[v].met
          /\ k \notin DOMAIN rates
      BY <1>3, <2>2, <3>1
    <3>3. arbNewest[k] <= arbReports[v].at /\ \A u \in ArbRequests \ {v} : k \notin Arbitrage!Held(u)
      BY <3>1, <3>2 DEF HeldIsNewer, Alone
    <3> QED
      BY <1>0, <1>5, <2>2, <3>2, <3>3
  <2> QED
    BY <2>1, <2>2
<1>7. HeldIsNewer'
  BY <1>0, <1>6 DEF HeldIsNewer
<1> QED
  BY <1>4, <1>7

(* A request stores one of its commissions.                                *)
LEMMA StoresOne ==
    ASSUME Stamped, HeldIsNewer, NEW w \in ArbRequests, Arbitrage!StoreOne(w)
    PROVE  Stamped' /\ HeldIsNewer' /\ arbMixed'
<1> DEFINE r == arbReports[w]
<1>1. PICK k \in Arbitrage!Held(w) :
        /\ Arbitrage!Upsert(k, r.rate[k], r.at)
        /\ arbRaced' = IF k \in r.met THEN arbRaced \cup {k} ELSE arbRaced \ {k}
        /\ LET left == Arbitrage!Held(w) \ {k}
           IN arbReports' = [arbReports EXCEPT ![w] = IF left = {} THEN None
                                                      ELSE [@ EXCEPT !.rate = [l \in left |-> r.rate[l]]]]
        /\ UNCHANGED arbNow
  BY DEF Arbitrage!StoreOne
<1> DEFINE left == Arbitrage!Held(w) \ {k}
<1>2. /\ r # None /\ k \in Arbitrage!Keys /\ r.at \in Nat /\ r.at <= arbNow
      /\ r = [rate |-> r.rate, at |-> r.at, met |-> r.met] /\ Arbitrage!Held(w) = DOMAIN r.rate
      /\ Arbitrage!Held(w) \subseteq Arbitrage!Keys
  BY <1>1 DEF Stamped, Arbitrage!Held
<1>3. /\ DOMAIN arbNewest' = Arbitrage!Keys /\ DOMAIN arbPayouts' = Arbitrage!Keys /\ arbMixed'
      /\ \A l \in Arbitrage!Keys : l # k =>
           arbNewest'[l] = arbNewest[l] /\ arbPayouts'[l] = arbPayouts[l]
      /\ arbNewest'[k] \in Nat /\ arbNewest'[k] <= arbNow /\ (arbNewest[k] <= r.at => arbNewest'[k] = r.at)
      /\ arbPayouts'[k].at = r.at
  BY <1>1, <1>2, Stores
<1>4. /\ DOMAIN arbReports' = ArbRequests
      /\ \A v \in ArbRequests \ {w} : arbReports'[v] = arbReports[v]
      /\ \/ arbReports'[w] = None
         \/ arbReports'[w] = [rate |-> [l \in left |-> r.rate[l]], at |-> r.at, met |-> r.met]
  <2>1. DOMAIN arbReports' = ArbRequests /\ \A v \in ArbRequests \ {w} : arbReports'[v] = arbReports[v]
    BY <1>1 DEF Stamped
  <2>2. arbReports'[w] = IF left = {} THEN None ELSE [r EXCEPT !.rate = [l \in left |-> r.rate[l]]]
    BY <1>1 DEF Stamped
  <2>3. [r EXCEPT !.rate = [l \in left |-> r.rate[l]]]
          = [rate |-> [l \in left |-> r.rate[l]], at |-> r.at, met |-> r.met]
    BY <1>2
  <2> QED
    BY <2>1, <2>2, <2>3
<1>5. /\ Arbitrage!Held(w)' \subseteq Arbitrage!Held(w) \ {k}
      /\ \A v \in ArbRequests \ {w} : Arbitrage!Held(v)' = Arbitrage!Held(v)
  BY <1>4 DEF Arbitrage!Held
<1>6. Stamped'
  <2>1. ASSUME NEW v \in ArbRequests, arbReports'[v] # None
        PROVE  /\ DOMAIN arbReports'[v].rate \subseteq Arbitrage!Keys
               /\ arbReports'[v].at \in Nat /\ arbReports'[v].at <= arbNow
               /\ arbReports'[v] = [rate |-> arbReports'[v].rate, at |-> arbReports'[v].at, met |-> arbReports'[v].met]
    <3>1. CASE v = w
      BY <1>2, <1>4, <2>1, <3>1
    <3>2. CASE v # w
      BY <1>4, <2>1, <3>2 DEF Stamped
    <3> QED
      BY <3>1, <3>2
  <2> QED
    BY <1>1, <1>3, <1>4, <2>1 DEF Stamped
<1>7. ASSUME NEW l \in Arbitrage!Keys \ arbRaced', arbPayouts'[l] # None PROVE arbPayouts'[l].at = arbNewest'[l]
  <2>1. CASE l = k
    <3>1. k \notin r.met
      BY <1>1, <1>7, <2>1
    <3>2. arbNewest[k] <= r.at
      BY <1>1, <1>2, <3>1 DEF HeldIsNewer, Alone
    <3> QED
      BY <1>3, <2>1, <3>2
  <2>2. CASE l # k
    <3>1. l \notin arbRaced
      BY <1>1, <1>7, <2>2
    <3> QED
      BY <1>3, <1>7, <2>2, <3>1 DEF HeldIsNewer
  <2> QED
    BY <2>1, <2>2
<1>8. ASSUME NEW v \in ArbRequests, NEW l \in Arbitrage!Keys PROVE Alone(v, l)'
  <2> SUFFICES ASSUME l \in Arbitrage!Held(v)', l \notin arbReports'[v].met
               PROVE  /\ arbNewest'[l] <= arbReports'[v].at
                      /\ \A u \in ArbRequests \ {v} : l \notin Arbitrage!Held(u)'
    BY DEF Alone
  <2>1. l \in Arbitrage!Held(v) /\ arbReports'[v].at = arbReports[v].at /\ l \notin arbReports[v].met
    <3>1. CASE v = w
      BY <1>4, <1>5, <3>1 DEF Arbitrage!Held
    <3>2. CASE v # w
      BY <1>4, <1>5, <3>2
    <3> QED
      BY <3>1, <3>2
  <2>2. arbNewest[l] <= arbReports[v].at /\ \A u \in ArbRequests \ {v} : l \notin Arbitrage!Held(u)
    BY <2>1 DEF HeldIsNewer, Alone
  <2>3. l # k
    BY <1>1, <1>5, <2>2
  <2> QED
    BY <1>3, <1>5, <2>1, <2>2, <2>3
<1> QED
  BY <1>3, <1>6, <1>7, <1>8 DEF HeldIsNewer

(* A request ends without the rest.                                        *)
LEMMA StoringFails ==
    ASSUME Stamped, HeldIsNewer, NEW w \in ArbRequests, Arbitrage!StoreFails(w)
    PROVE  Stamped' /\ HeldIsNewer'
<1>1. /\ arbReports' = [arbReports EXCEPT ![w] = None]
      /\ UNCHANGED <<arbNow, arbPayouts, arbNewest, arbRaced>>
  BY DEF Arbitrage!StoreFails
<1>2. /\ arbReports'[w] = None /\ DOMAIN arbReports' = ArbRequests
      /\ \A v \in ArbRequests \ {w} : arbReports'[v] = arbReports[v]
  BY <1>1 DEF Stamped
<1>3. Arbitrage!Held(w)' = {} /\ \A v \in ArbRequests \ {w} : Arbitrage!Held(v)' = Arbitrage!Held(v)
  BY <1>2 DEF Arbitrage!Held
<1>4. Stamped'
  BY <1>1, <1>2 DEF Stamped
<1>5. ASSUME NEW v \in ArbRequests, NEW k \in Arbitrage!Keys PROVE Alone(v, k)'
  <2>1. CASE v = w
    BY <1>3, <2>1 DEF Alone
  <2>2. CASE v # w
    <3>1. Alone(v, k)
      BY DEF HeldIsNewer
    <3> QED
      BY <1>1, <1>2, <1>3, <2>2, <3>1 DEF Alone
  <2> QED
    BY <2>1, <2>2
<1> QED
  BY <1>1, <1>4, <1>5 DEF HeldIsNewer

LEMMA ArbitrageStep ==
    ASSUME Arbitrage!ArbitrageAssumption, ArbitrageIInv, Arbitrage!Next
    PROVE  ArbitrageIInv'
<1>0. Stamped /\ HeldIsNewer /\ FoundSoFar /\ ArbReported \subseteq Arbitrage!Keys /\ arbNow \in Nat
  BY DEF ArbitrageIInv, Arbitrage!ArbitrageAssumption, Stamped
<1>1. ASSUME NEW w \in ArbRequests, NEW k \in ArbReported, NEW rate \in ArbRates, Arbitrage!Ingest(w, k, rate)
      PROVE  ArbitrageIInv'
  <2>1. Arbitrage!Report(w, [l \in {k} |-> rate], arbNow)
    BY <1>1 DEF Arbitrage!Ingest
  <2>2. DOMAIN [l \in {k} |-> rate] \subseteq Arbitrage!Keys
    BY <1>0
  <2>3. UNCHANGED <<arbScan, arbProducts, arbPayouts, arbMixed>>
    BY <2>1 DEF Arbitrage!Report
  <2> QED
    BY <1>0, <2>1, <2>2, <2>3, Begins, ScanStays DEF ArbitrageIInv
<1>2. ASSUME NEW w \in ArbRequests, NEW n \in Arbitrage!Networks, NEW rate \in ArbRates, Arbitrage!Sync(w, n, rate)
      PROVE  ArbitrageIInv'
  <2> DEFINE covered == {k \in ArbReported : k.source = n}
  <2>1. Arbitrage!Report(w, [l \in covered |-> rate], arbNow)
    BY <1>2 DEF Arbitrage!Sync
  <2>2. DOMAIN [l \in covered |-> rate] \subseteq Arbitrage!Keys
    BY <1>0
  <2>3. UNCHANGED <<arbScan, arbProducts, arbPayouts, arbMixed>>
    BY <2>1 DEF Arbitrage!Report
  <2> QED
    BY <1>0, <2>1, <2>2, <2>3, Begins, ScanStays DEF ArbitrageIInv
<1>3. ASSUME NEW w \in ArbRequests, Arbitrage!StoreOne(w) PROVE ArbitrageIInv'
  <2>1. UNCHANGED arbScan
    BY <1>3 DEF Arbitrage!StoreOne
  <2> QED
    BY <1>0, <1>3, <2>1, StoresOne, ScanStays DEF ArbitrageIInv
<1>4. ASSUME NEW w \in ArbRequests, Arbitrage!StoreFails(w) PROVE ArbitrageIInv'
  <2>1. UNCHANGED <<arbScan, arbProducts, arbPayouts, arbMixed>>
    BY <1>4 DEF Arbitrage!StoreFails
  <2> QED
    BY <1>0, <1>4, <2>1, StoringFails, ScanStays DEF ArbitrageIInv
<1>5. ASSUME NEW limit \in 0..1, Arbitrage!StartScan(limit) PROVE ArbitrageIInv'
  <2>1. /\ arbScan' = [step |-> "detect", from |-> arbProducts, left |-> Arbitrage!Pairs(arbProducts), found |-> {}, limit |-> limit]
        /\ UNCHANGED <<arbProducts,
                       arbEvents, arbNow, arbPayouts, arbReports, arbNewest, arbRaced>>
    BY <1>5 DEF Arbitrage!StartScan, Arbitrage!payoutVars
  <2>2. Stamped' /\ HeldIsNewer'
    BY <1>0, <2>1, ReportsStay DEF Stamped
  <2>3. FoundSoFar'
    <3>1. Arbitrage!Pairs(arbProducts') = Arbitrage!Pairs(arbProducts)
      BY <2>1
    <3> QED
      BY <2>1, <3>1 DEF FoundSoFar
  <2> QED
    BY <2>2, <2>3 DEF ArbitrageIInv
<1>6. CASE Arbitrage!LookUp
  <2>1. UNCHANGED <<arbProducts,
                    arbEvents, arbNow, arbMixed, arbPayouts, arbReports, arbNewest, arbRaced>>
    BY <1>6 DEF Arbitrage!LookUp, Arbitrage!payoutVars
  <2>2. Stamped' /\ HeldIsNewer'
    BY <1>0, <2>1, ReportsStay DEF Stamped
  <2>3. PICK pair \in arbScan.left :
          arbScan' = [arbScan EXCEPT !.left = @ \ {pair},
                                     !.found = IF Arbitrage!Viable(pair)
                                               THEN @ \cup {[pair |-> pair, rate |-> Arbitrage!PaidBy(pair).rate]} ELSE @]
    BY <1>6 DEF Arbitrage!LookUp
  <2>4. arbScan' = [step |-> arbScan.step, from |-> arbScan.from, left |-> arbScan.left \ {pair}, limit |-> arbScan.limit,
                 found |-> IF Arbitrage!Viable(pair)
                           THEN arbScan.found \cup {[pair |-> pair, rate |-> Arbitrage!PaidBy(pair).rate]} ELSE arbScan.found]
    BY <1>0, <2>3 DEF FoundSoFar
  <2>5. FoundSoFar'
    <3>1. \A p : /\ Arbitrage!Viable(p)' <=> Arbitrage!Viable(p)
                 /\ Arbitrage!PaidBy(p)' = Arbitrage!PaidBy(p)
      BY <2>1 DEF Arbitrage!Viable, Arbitrage!PaidBy
    <3>2. Arbitrage!Pairs(arbProducts') = Arbitrage!Pairs(arbProducts)
      BY <2>1
    <3>3. /\ arbScan'.step = arbScan.step /\ arbScan'.left = arbScan.left \ {pair}
          /\ arbScan'.found = IF Arbitrage!Viable(pair)
                              THEN arbScan.found \cup {[pair |-> pair, rate |-> Arbitrage!PaidBy(pair).rate]} ELSE arbScan.found
          /\ arbScan' = [step |-> arbScan'.step, from |-> arbScan'.from, left |-> arbScan'.left, found |-> arbScan'.found,
                      limit |-> arbScan'.limit]
      BY <2>4
    <3>4. ASSUME arbScan'.step = "detect", ~arbMixed'
          PROVE  /\ arbScan'.left \subseteq Arbitrage!Pairs(arbProducts)
                 /\ \A o : o \in arbScan'.found <=>
                      \E p \in Arbitrage!Pairs(arbProducts) \ arbScan'.left :
                         Arbitrage!Viable(p) /\ o = [pair |-> p, rate |-> Arbitrage!PaidBy(p).rate]
      <4>1. /\ arbScan.left \subseteq Arbitrage!Pairs(arbProducts)
            /\ \A o : o \in arbScan.found <=>
                 \E p \in Arbitrage!Pairs(arbProducts) \ arbScan.left :
                    Arbitrage!Viable(p) /\ o = [pair |-> p, rate |-> Arbitrage!PaidBy(p).rate]
        BY <1>0, <2>1, <3>3, <3>4 DEF FoundSoFar
      <4>2. \A p : p \in Arbitrage!Pairs(arbProducts) \ arbScan'.left <=> p = pair \/ p \in Arbitrage!Pairs(arbProducts) \ arbScan.left
        BY <3>3, <4>1
      <4>3. \A o : o \in arbScan'.found <=> o \in arbScan.found \/ (Arbitrage!Viable(pair) /\ o = [pair |-> pair, rate |-> Arbitrage!PaidBy(pair).rate])
        BY <3>3
      <4> QED
        BY <3>3, <4>1, <4>2, <4>3
    <3> QED
      BY <3>1, <3>2, <3>3, <3>4 DEF FoundSoFar
  <2> QED
    BY <2>2, <2>5 DEF ArbitrageIInv
<1>7. CASE Arbitrage!Select \/ Arbitrage!Insert \/ Arbitrage!EndScan
  <2>1. UNCHANGED <<arbProducts,
                    arbNow, arbMixed, arbPayouts, arbReports, arbNewest, arbRaced>>
    BY <1>7 DEF Arbitrage!Select, Arbitrage!Insert, Arbitrage!EndScan, Arbitrage!payoutVars
  <2>2. Stamped' /\ HeldIsNewer'
    BY <1>0, <2>1, ReportsStay DEF Stamped
  <2>3. FoundSoFar'
    <3>1. \E step \in {"insert", "idle"} : \E from, left, found, limit :
            arbScan' = [step |-> step, from |-> from, left |-> left, found |-> found, limit |-> limit]
      <4>1. arbScan = [step |-> arbScan.step, from |-> arbScan.from, left |-> arbScan.left, found |-> arbScan.found, limit |-> arbScan.limit]
        BY <1>0 DEF FoundSoFar
      <4>2. CASE Arbitrage!Select
        <5>1. PICK f : arbScan' = [arbScan EXCEPT !.step = "insert", !.found = f]
          BY <4>2 DEF Arbitrage!Select
        <5>2. arbScan' = [step |-> "insert", from |-> arbScan.from, left |-> arbScan.left, found |-> f, limit |-> arbScan.limit]
          BY <4>1, <5>1
        <5> QED
          BY <5>2
      <4>3. CASE Arbitrage!Insert
        <5>1. PICK o : arbScan.step = "insert" /\ arbScan' = [arbScan EXCEPT !.found = @ \ {o}]
          BY <4>3 DEF Arbitrage!Insert
        <5>2. arbScan' = [step |-> "insert", from |-> arbScan.from, left |-> arbScan.left, found |-> arbScan.found \ {o}, limit |-> arbScan.limit]
          BY <4>1, <5>1
        <5> QED
          BY <5>2
      <4>4. CASE Arbitrage!EndScan
        BY <4>4 DEF Arbitrage!EndScan, Arbitrage!NoScan
      <4> QED
        BY <1>7, <4>2, <4>3, <4>4
    <3>2. PICK step \in {"insert", "idle"} :
            \E from, left, found, limit :
              arbScan' = [step |-> step, from |-> from, left |-> left, found |-> found, limit |-> limit]
      BY <3>1
    <3>3. PICK from, left, found, limit :
            arbScan' = [step |-> step, from |-> from, left |-> left, found |-> found, limit |-> limit]
      BY <3>2
    <3>4. /\ arbScan'.step = step
          /\ arbScan' = [step |-> arbScan'.step, from |-> arbScan'.from, left |-> arbScan'.left, found |-> arbScan'.found, limit |-> arbScan'.limit]
      BY <3>3
    <3> QED
      BY <3>4 DEF FoundSoFar
  <2> QED
    BY <2>2, <2>3 DEF ArbitrageIInv
<1>8. ASSUME NEW p \in ArbProducts, Arbitrage!Crawl(p) PROVE ArbitrageIInv'
  <2>1. arbMixed' /\ UNCHANGED <<arbNow,
                                 arbScan, arbPayouts, arbReports, arbNewest, arbRaced>>
    BY <1>8 DEF Arbitrage!Crawl, Arbitrage!payoutVars
  <2> QED
    BY <1>0, <2>1, ReportsStay, ScanStays DEF ArbitrageIInv
<1>9. CASE Arbitrage!Tick
  <2>1. arbNow' = arbNow + 1 /\ UNCHANGED <<arbProducts,
                                            arbScan, arbMixed, arbPayouts, arbReports, arbNewest, arbRaced>>
    BY <1>9 DEF Arbitrage!Tick, Arbitrage!payoutVars
  <2>2. arbNow' \in Nat /\ arbNow' >= arbNow
    BY <1>0, <2>1
  <2> QED
    BY <1>0, <2>1, <2>2, ReportsStay, ScanStays DEF ArbitrageIInv
<1> QED
  BY <1>1, <1>2, <1>3, <1>4, <1>5, <1>6, <1>7, <1>8, <1>9 DEF Arbitrage!Next

(* What is profitable by a pair's prices.                                  *)
LEMMA ProfitOfPrices ==
    ASSUME NEW buy \in Nat, NEW sell \in Nat, NEW rate \in Nat, NEW whole \in Nat, NEW least \in Nat
    PROVE  sell * rate - whole * buy > whole * least <=> sell * rate > whole * (buy + least)
<1>1. whole * (buy + least) = whole * buy + whole * least
  OBVIOUS
<1>2. sell * rate \in Int /\ whole * buy \in Int /\ whole * least \in Int
  OBVIOUS
<1> QED
  BY <1>1, <1>2

(* For any products, networks and commissions: what is stored of a         *)
(* commission is the latest reported, unless the request that stored it    *)
(* last met another of it; and what a scan found is what a look at the     *)
(* tables finds, unless they changed since it began.                       *)
THEOREM ArbitrageCorrect ==
    ASSUME Arbitrage!ArbitrageAssumption PROVE Arbitrage!Spec => []ArbitrageInv
<1>1. Arbitrage!Init => ArbitrageIInv
  BY ArbitrageInit
<1>2. ArbitrageIInv /\ [Arbitrage!Next]_(Arbitrage!vars) => ArbitrageIInv'
  <2> SUFFICES ASSUME ArbitrageIInv, [Arbitrage!Next]_(Arbitrage!vars) PROVE ArbitrageIInv'
    OBVIOUS
  <2>1. CASE UNCHANGED Arbitrage!vars
    <3>1. UNCHANGED <<arbProducts,
                      arbNow, arbScan, arbMixed, arbPayouts, arbReports, arbNewest, arbRaced>>
      BY <2>1 DEF Arbitrage!vars, Arbitrage!payoutVars
    <3>2. arbNow \in Nat /\ arbNow' >= arbNow
      BY <3>1 DEF ArbitrageIInv, Stamped
    <3> QED
      BY <3>1, <3>2, ReportsStay, ScanStays DEF ArbitrageIInv
  <2>2. CASE Arbitrage!Next
    BY <2>2, ArbitrageStep
  <2> QED
    BY <2>1, <2>2
<1>3. ArbitrageIInv /\ arbProducts \subseteq ArbProducts => Arbitrage!ArbitrageInv
  <2> SUFFICES ASSUME ArbitrageIInv, arbProducts \subseteq ArbProducts PROVE Arbitrage!ArbitrageInv
    OBVIOUS
  <2>1. Arbitrage!FreshUnlessRaced
    BY DEF ArbitrageIInv, HeldIsNewer, Arbitrage!FreshUnlessRaced
  <2>2. Arbitrage!FoundIsViable
    <3> SUFFICES ASSUME arbScan.step = "detect", ~arbMixed, NEW buy \in arbProducts,
                        NEW sell \in arbProducts, NEW rate \in ArbRates
                 PROVE  [pair |-> <<buy, sell>>, rate |-> rate] \in arbScan.found
                          <=> /\ buy.name = sell.name /\ buy.source # sell.source /\ buy.id # sell.id
                              /\ <<buy, sell>> \notin arbScan.left
                              /\ arbPayouts[Arbitrage!KeyOf(sell)] # None
                              /\ arbPayouts[Arbitrage!KeyOf(sell)].rate = rate
                              /\ sell.price * rate > ArbWhole * (buy.price + ArbMinProfit)
      BY DEF Arbitrage!FoundIsViable
    <3>1. [pair |-> <<buy, sell>>, rate |-> rate] \in arbScan.found <=>
            /\ <<buy, sell>> \in Arbitrage!Pairs(arbProducts) \ arbScan.left
            /\ Arbitrage!Viable(<<buy, sell>>) /\ rate = Arbitrage!PaidBy(<<buy, sell>>).rate
      <4>1. [pair |-> <<buy, sell>>, rate |-> rate] \in arbScan.found <=>
              \E p \in Arbitrage!Pairs(arbProducts) \ arbScan.left :
                 Arbitrage!Viable(p) /\ [pair |-> <<buy, sell>>, rate |-> rate] = [pair |-> p, rate |-> Arbitrage!PaidBy(p).rate]
        BY DEF ArbitrageIInv, FoundSoFar
      <4> QED
        BY <4>1
    <3>2. <<buy, sell>> \in Arbitrage!Pairs(arbProducts) <=> buy.name = sell.name /\ buy.source # sell.source /\ buy.id # sell.id
      BY DEF Arbitrage!Pairs
    <3>3. Arbitrage!PaidBy(<<buy, sell>>) = arbPayouts[Arbitrage!KeyOf(sell)]
      BY DEF Arbitrage!PaidBy
    <3>4. Arbitrage!Profit(<<buy, sell>>, rate) > ArbWhole * ArbMinProfit <=> sell.price * rate > ArbWhole * (buy.price + ArbMinProfit)
      <4>1. buy.price \in Nat /\ sell.price \in Nat /\ rate \in Nat /\ ArbWhole \in Nat
              /\ ArbMinProfit \in Nat
        BY DEF Arbitrage!ArbitrageAssumption
      <4>2. Arbitrage!Profit(<<buy, sell>>, rate) = sell.price * rate - ArbWhole * buy.price
        BY DEF Arbitrage!Profit
      <4> QED
        BY <4>1, <4>2, ProfitOfPrices
    <3>5. Arbitrage!Viable(<<buy, sell>>) <=>
            /\ Arbitrage!PaidBy(<<buy, sell>>) # None
            /\ Arbitrage!Profit(<<buy, sell>>, Arbitrage!PaidBy(<<buy, sell>>).rate) > ArbWhole * ArbMinProfit
      BY DEF Arbitrage!Viable
    <3> QED
      BY <3>1, <3>2, <3>3, <3>4, <3>5
  <2> QED
    BY <2>1, <2>2 DEF Arbitrage!ArbitrageInv
<1>4. Arbitrage!Init => arbProducts \subseteq ArbProducts
  BY DEF Arbitrage!Init
<1>5. arbProducts \subseteq ArbProducts /\ [Arbitrage!Next]_(Arbitrage!vars) =>
        (arbProducts \subseteq ArbProducts)'
  <2>1. ASSUME NEW w \in ArbRequests, Arbitrage!StoreOne(w) \/ Arbitrage!StoreFails(w) PROVE UNCHANGED arbProducts
    BY <2>1 DEF Arbitrage!StoreOne, Arbitrage!StoreFails
  <2>2. ASSUME NEW w \in ArbRequests, NEW k, NEW rate, Arbitrage!Ingest(w, k, rate) \/ Arbitrage!Sync(w, k, rate)
        PROVE  UNCHANGED arbProducts
    BY <2>2 DEF Arbitrage!Ingest, Arbitrage!Sync, Arbitrage!Report
  <2>3. ASSUME NEW limit, Arbitrage!StartScan(limit) PROVE UNCHANGED arbProducts
    BY <2>3 DEF Arbitrage!StartScan
  <2>4. Arbitrage!LookUp \/ Arbitrage!Select \/ Arbitrage!Insert \/ Arbitrage!EndScan \/ Arbitrage!Tick => UNCHANGED arbProducts
    BY DEF Arbitrage!LookUp, Arbitrage!Select, Arbitrage!Insert, Arbitrage!EndScan, Arbitrage!Tick
  <2>5. ASSUME NEW p \in ArbProducts, Arbitrage!Crawl(p) PROVE arbProducts' = arbProducts \cup {p}
    BY <2>5 DEF Arbitrage!Crawl
  <2>6. UNCHANGED Arbitrage!vars => UNCHANGED arbProducts
    BY DEF Arbitrage!vars
  <2> QED
    BY <2>1, <2>2, <2>3, <2>4, <2>5, <2>6 DEF Arbitrage!Next
<1> QED
  BY <1>1, <1>2, <1>3, <1>4, <1>5, PTL DEF Arbitrage!Spec, ArbitrageInv

-----------------------------------------------------------------------------
(* services/security-api: the background scans.                            *)

(* What the record of a scan says is where its task is.                    *)
Is(rec, status, path, error) == rec.status = status /\ rec.path = path /\ rec.error = error

RecordOfTask(s) ==
    /\ scanTask[s] = "none" => Is(scanRecord[s], "none", FALSE, FALSE) /\ (s \in scanTold => scanRestarts > 0)
    /\ scanTask[s] = "waiting" => Is(scanRecord[s], "queued", FALSE, FALSE)
    /\ scanTask[s] \in {"begun", "clone", "create", "analyze", "complete", "fail"} =>
         Is(scanRecord[s], "running", FALSE, FALSE)
    /\ scanTask[s] = "path" => Is(scanRecord[s], "completed", FALSE, FALSE)
    /\ scanTask[s] = "ended" => \/ Is(scanRecord[s], "completed", TRUE, FALSE)
                                \/ Is(scanRecord[s], "failed", FALSE, TRUE)
                                \/ Is(scanRecord[s], "running", FALSE, FALSE) /\ s \in scanEscaped
    /\ scanTask[s] = "complete" \/ scanRecord[s].status = "completed" => scanSarif[s] = "whole"

AnswerSound(s) ==
    /\ scanAnswer[s].result # "partial" /\ (scanAnswer[s].status = "completed" => scanSarif[s] = "whole")
    /\ scanAnswer[s].path => scanAnswer[s].result = "whole"
    /\ scanAnswer[s].code = 404 => scanRestarts > 0

(* A read that was dumped and not answered knows no more than the record.  *)
ReadingSound(s) ==
    /\ scanReading[s].status = "completed" => scanSarif[s] = "whole"
    /\ scanReading[s].path => scanRecord[s].path
    /\ scanReading[s] # SecurityScan!NoRecord => s \in scanTold

ScansIInv == SecurityScan!TypeOK /\ \A s \in ScanScans : RecordOfTask(s) /\ AnswerSound(s) /\ ReadingSound(s)

LEMMA ScansInit ==
    ASSUME SecurityScan!ScanAssumption, SecurityScan!Init
    PROVE  ScansIInv
<1> USE DEF SecurityScan!ScanAssumption, SecurityScan!Record, SecurityScan!Init, SecurityScan!NoRecord, SecurityScan!NoAnswer
<1>1. SecurityScan!TypeOK
  BY DEF SecurityScan!TypeOK
<1>2. \A s \in ScanScans : RecordOfTask(s) /\ AnswerSound(s) /\ ReadingSound(s)
  BY DEF RecordOfTask, AnswerSound, ReadingSound, Is
<1> QED
  BY <1>1, <1>2 DEF ScansIInv

(* A task and its record go on; no other scan is touched.                  *)
LEMMA ScanGoesOn ==
    ASSUME ScansIInv, NEW s \in ScanScans, NEW step, NEW rec, SecurityScan!Becomes(s, step, rec),
           \A t \in ScanScans : t # s =>
             scanSarif'[t] = scanSarif[t] /\ scanAnswer'[t] = scanAnswer[t] /\ (t \in scanTold' <=> t \in scanTold),
           UNCHANGED scanReading,
           scanEscaped \subseteq scanEscaped', scanRestarts' = scanRestarts
    PROVE  /\ scanTask'[s] = step /\ scanRecord'[s] = rec
           /\ \A t \in ScanScans : t # s => RecordOfTask(t)' /\ AnswerSound(t)' /\ ReadingSound(t)'
<1>1. /\ DOMAIN scanTask = ScanScans /\ DOMAIN scanRecord = ScanScans
  BY DEF ScansIInv, SecurityScan!TypeOK
<1>2. scanTask' = [scanTask EXCEPT ![s] = step] /\ scanRecord' = [scanRecord EXCEPT ![s] = rec]
  BY DEF SecurityScan!Becomes
<1>3. scanTask'[s] = step /\ scanRecord'[s] = rec
  BY <1>1, <1>2
<1>4. ASSUME NEW t \in ScanScans, t # s PROVE RecordOfTask(t)' /\ AnswerSound(t)' /\ ReadingSound(t)'
  <2>1. scanTask'[t] = scanTask[t] /\ scanRecord'[t] = scanRecord[t] /\ RecordOfTask(t)
          /\ AnswerSound(t) /\ ReadingSound(t)
    BY <1>1, <1>2, <1>4 DEF ScansIInv
  <2>2. RecordOfTask(t)'
    BY <1>4, <2>1 DEF RecordOfTask, Is
  <2>3. AnswerSound(t)' /\ ReadingSound(t)'
    BY <1>4, <2>1 DEF AnswerSound, ReadingSound
  <2> QED
    BY <2>2, <2>3
<1> QED
  BY <1>3, <1>4

LEMMA ScansStep ==
    ASSUME SecurityScan!ScanAssumption, ScansIInv, SecurityScan!Next
    PROVE  ScansIInv'
<1>0. SecurityScan!TypeOK /\ \A s \in ScanScans : RecordOfTask(s) /\ AnswerSound(s) /\ ReadingSound(s)
  BY DEF ScansIInv
<1> USE DEF SecurityScan!ScanAssumption, SecurityScan!Record
<1>1. ASSUME NEW s \in ScanScans,
             \/ SecurityScan!Begin(s) \/ SecurityScan!MakeDirectory(s) \/ SecurityScan!Complete(s)
             \/ SecurityScan!SetPath(s) \/ SecurityScan!Fail(s)
      PROVE  ScansIInv'
  <2>1. PICK step, rec :
           /\ SecurityScan!Becomes(s, step, rec)
           /\ \/ scanTask[s] = "waiting" /\ step = "begun" /\ rec = [scanRecord[s] EXCEPT !.status = "running"] /\ UNCHANGED scanEscaped
              \/ scanTask[s] = "begun" /\ step = "clone" /\ rec = scanRecord[s] /\ UNCHANGED scanEscaped
              \/ scanTask[s] = "begun" /\ step = "ended" /\ rec = scanRecord[s] /\ scanEscaped' = scanEscaped \cup {s}
              \/ scanTask[s] = "complete" /\ step = "path" /\ rec = [scanRecord[s] EXCEPT !.status = "completed"] /\ UNCHANGED scanEscaped
              \/ scanTask[s] = "path" /\ step = "ended" /\ rec = [scanRecord[s] EXCEPT !.path = TRUE] /\ UNCHANGED scanEscaped
              \/ scanTask[s] = "fail" /\ step = "ended" /\ rec = [scanRecord[s] EXCEPT !.status = "failed", !.error = TRUE] /\ UNCHANGED scanEscaped
    BY <1>1 DEF SecurityScan!Begin, SecurityScan!MakeDirectory, SecurityScan!Complete,
       SecurityScan!SetPath, SecurityScan!Fail
  <2>2. UNCHANGED <<scanSarif, scanReading, scanAnswer, scanTold, scanReads, scanRestarts>>
    BY <1>1 DEF SecurityScan!Begin, SecurityScan!MakeDirectory, SecurityScan!Complete,
       SecurityScan!SetPath, SecurityScan!Fail
  <2>3. /\ scanTask'[s] = step /\ scanRecord'[s] = rec
        /\ \A t \in ScanScans : t # s => RecordOfTask(t)' /\ AnswerSound(t)' /\ ReadingSound(t)'
    BY <2>1, <2>2, ScanGoesOn
  <2>4. scanRecord[s] \in SecurityScan!Record
    BY <1>0 DEF SecurityScan!TypeOK
  <2>5. /\ step \in {"begun", "clone", "path", "ended"} /\ scanEscaped' \subseteq ScanScans
        /\ rec \in SecurityScan!Record
    <3>1. step \in {"begun", "clone", "path", "ended"}
            /\ scanEscaped' \in {scanEscaped, scanEscaped \cup {s}}
      BY <2>1
    <3>2. rec \in {scanRecord[s], [scanRecord[s] EXCEPT !.status = "running"], [scanRecord[s] EXCEPT !.status = "completed"],
                   [scanRecord[s] EXCEPT !.path = TRUE], [scanRecord[s] EXCEPT !.status = "failed", !.error = TRUE]}
      BY <2>1
    <3>3. rec \in SecurityScan!Record
      BY <2>4, <3>2
    <3>4. scanEscaped \subseteq ScanScans
      BY <1>0 DEF SecurityScan!TypeOK
    <3> QED
      BY <3>1, <3>3, <3>4
  <2>6. SecurityScan!TypeOK'
    BY <1>0, <2>1, <2>2, <2>5 DEF SecurityScan!TypeOK, SecurityScan!Becomes
  <2>7. RecordOfTask(s)'
    BY <1>0, <2>1, <2>2, <2>3, <2>4 DEF RecordOfTask, Is
  <2>8. AnswerSound(s)'
    BY <1>0, <2>2 DEF AnswerSound
  <2>9. ReadingSound(s)'
    <3>1. scanRecord[s].path => rec.path
      BY <2>1, <2>4
    <3> QED
      BY <1>0, <2>2, <2>3, <3>1 DEF ReadingSound
  <2> QED
    BY <2>3, <2>6, <2>7, <2>8, <2>9 DEF ScansIInv
<1>2. ASSUME NEW s \in ScanScans, SecurityScan!Command(s) PROVE ScansIInv'
  <2>1. PICK step :
           /\ SecurityScan!Becomes(s, step, scanRecord[s])
           /\ \/ scanTask[s] \in {"clone", "create"} /\ step \in {"create", "analyze"} /\ UNCHANGED <<scanEscaped, scanSarif>>
              \/ scanTask[s] = "analyze" /\ step = "complete" /\ UNCHANGED scanEscaped /\ scanSarif' = [scanSarif EXCEPT ![s] = "whole"]
              \/ step = "fail" /\ UNCHANGED <<scanEscaped, scanSarif>>
              \/ step = "ended" /\ scanEscaped' = scanEscaped \cup {s} /\ UNCHANGED scanSarif
    BY <1>2 DEF SecurityScan!Command, SecurityScan!After
  <2>2. scanTask[s] \in {"clone", "create", "analyze"}
          /\ UNCHANGED <<scanReading, scanAnswer, scanTold, scanReads, scanRestarts>>
    BY <1>2 DEF SecurityScan!Command
  <2>3. \A t \in ScanScans : t # s => scanSarif'[t] = scanSarif[t]
    BY <1>0, <2>1 DEF SecurityScan!TypeOK
  <2>4. scanSarif'[s] \in {scanSarif[s], "whole"} /\ (step = "complete" => scanSarif'[s] = "whole")
    BY <1>0, <2>1 DEF SecurityScan!TypeOK
  <2>5. /\ scanTask'[s] = step /\ scanRecord'[s] = scanRecord[s]
        /\ \A t \in ScanScans : t # s => RecordOfTask(t)' /\ AnswerSound(t)' /\ ReadingSound(t)'
    BY <2>1, <2>2, <2>3, ScanGoesOn
  <2>6. SecurityScan!TypeOK'
    <3>1. scanTask' \in [ScanScans -> {"none", "waiting", "begun", "clone", "create", "analyze", "complete", "path", "fail", "ended"}]
      BY <1>0, <2>1 DEF SecurityScan!TypeOK, SecurityScan!Becomes
    <3>2. scanRecord' = scanRecord /\ scanEscaped' \subseteq ScanScans
      BY <1>0, <2>1 DEF SecurityScan!TypeOK, SecurityScan!Becomes
    <3>3. scanSarif' \in [ScanScans -> {"none", "partial", "whole"}]
      BY <1>0, <2>1 DEF SecurityScan!TypeOK
    <3> QED
      BY <1>0, <2>2, <3>1, <3>2, <3>3 DEF SecurityScan!TypeOK
  <2>7. RecordOfTask(s)'
    BY <1>0, <2>1, <2>2, <2>4, <2>5 DEF RecordOfTask, Is
  <2>8. AnswerSound(s)'
    BY <1>0, <2>2, <2>4 DEF AnswerSound
  <2>9. ReadingSound(s)'
    BY <1>0, <2>2, <2>4, <2>5 DEF ReadingSound
  <2> QED
    BY <2>5, <2>6, <2>7, <2>8, <2>9 DEF ScansIInv
<1>3. ASSUME NEW s \in ScanScans, SecurityScan!Post(s) PROVE ScansIInv'
  <2>1. PICK none : none = SecurityScan!NoRecord
    OBVIOUS
  <2>2. /\ SecurityScan!Becomes(s, "waiting", [none EXCEPT !.status = "queued"])
        /\ s \notin scanTold /\ scanTold' = scanTold \cup {s}
        /\ UNCHANGED <<scanSarif, scanReading, scanAnswer, scanEscaped, scanReads, scanRestarts>>
    BY <1>3, <2>1 DEF SecurityScan!Post, SecurityScan!Becomes
  <2>3. /\ none \in SecurityScan!Record
        /\ Is(none, "none", FALSE, FALSE)
    BY <2>1 DEF SecurityScan!NoRecord, Is
  <2>4. /\ scanTask'[s] = "waiting" /\ scanRecord'[s] = [none EXCEPT !.status = "queued"]
        /\ \A t \in ScanScans : t # s => RecordOfTask(t)' /\ AnswerSound(t)' /\ ReadingSound(t)'
    BY <2>2, ScanGoesOn
  <2>5. SecurityScan!TypeOK'
    <3>1. [none EXCEPT !.status = "queued"] \in SecurityScan!Record
      BY <2>3
    <3> HIDE DEF SecurityScan!Record
    <3>2. scanRecord' \in [ScanScans -> SecurityScan!Record]
      BY <1>0, <2>2, <3>1 DEF SecurityScan!TypeOK, SecurityScan!Becomes
    <3>3. scanTask' \in [ScanScans -> {"none", "waiting", "begun", "clone", "create", "analyze", "complete", "path", "fail", "ended"}]
      BY <1>0, <2>2 DEF SecurityScan!TypeOK, SecurityScan!Becomes
    <3> QED
      BY <1>0, <2>2, <3>2, <3>3 DEF SecurityScan!TypeOK
  <2>6. RecordOfTask(s)' /\ AnswerSound(s)' /\ ReadingSound(s)'
    <3>1. Is(scanRecord'[s], "queued", FALSE, FALSE)
      BY <2>3, <2>4 DEF Is
    <3>2. scanReading[s].status = "none" /\ ~scanReading[s].path
      BY <1>0, <2>2 DEF ReadingSound, SecurityScan!NoRecord
    <3>3. ReadingSound(s)'
      BY <1>0, <2>2, <3>2 DEF ReadingSound
    <3> QED
      BY <1>0, <2>2, <2>4, <3>1, <3>3 DEF RecordOfTask, AnswerSound, Is
  <2> QED
    BY <2>4, <2>5, <2>6 DEF ScansIInv
<1>4. ASSUME NEW s \in ScanScans, SecurityScan!WritePart(s) PROVE ScansIInv'
  <2>1. /\ scanSarif[s] = "none" /\ scanSarif' = [scanSarif EXCEPT ![s] = "partial"]
        /\ UNCHANGED <<scanRecord,
                       scanTask, scanReading, scanAnswer, scanTold, scanEscaped, scanReads, scanRestarts>>
    BY <1>4 DEF SecurityScan!WritePart
  <2>2. SecurityScan!TypeOK'
    BY <1>0, <2>1 DEF SecurityScan!TypeOK
  <2>3. \A t \in ScanScans : scanSarif[t] = "whole" => scanSarif'[t] = "whole"
    BY <1>0, <2>1 DEF SecurityScan!TypeOK
  <2>4. \A t \in ScanScans : RecordOfTask(t)' /\ AnswerSound(t)' /\ ReadingSound(t)'
    BY <1>0, <2>1, <2>3 DEF RecordOfTask, AnswerSound, ReadingSound, Is
  <2> QED
    BY <2>2, <2>4 DEF ScansIInv
<1>5. ASSUME NEW s \in ScanScans, SecurityScan!Get(s) PROVE ScansIInv'
  <2>1. /\ s \in scanTold /\ scanReads < ScanMaxReads /\ scanReads' = scanReads + 1
        /\ UNCHANGED <<scanRecord, scanTask, scanSarif, scanTold, scanEscaped, scanRestarts>>
    BY <1>5 DEF SecurityScan!Get
  <2>2. \A t \in ScanScans : RecordOfTask(t)'
    BY <1>0, <2>1 DEF RecordOfTask, Is
  <2>3. CASE scanRecord[s].status = "none"
    <3>1. scanAnswer' = [scanAnswer EXCEPT ![s] = [SecurityScan!NoAnswer EXCEPT !.code = 404]] /\ UNCHANGED scanReading
      BY <1>5, <2>3 DEF SecurityScan!Get
    <3>2. PICK got : got = [SecurityScan!NoAnswer EXCEPT !.code = 404]
      OBVIOUS
    <3>3. got = [status |-> "none", path |-> FALSE, result |-> "none", code |-> 404]
      BY <3>2 DEF SecurityScan!NoAnswer
    <3>4. scanAnswer'[s] = got /\ \A t \in ScanScans : t # s => scanAnswer'[t] = scanAnswer[t]
      BY <1>0, <3>1, <3>2 DEF SecurityScan!TypeOK
    <3>5. SecurityScan!TypeOK'
      <4>1. scanAnswer' \in [ScanScans -> [status : {"none", "queued", "running", "completed", "failed"}, path : BOOLEAN,
                                   result : {"none", "partial", "whole"}, code : {0, 200, 404, 500}]]
        <5>1. scanAnswer' = [scanAnswer EXCEPT ![s] = got]
          BY <3>1, <3>2
        <5> QED
          BY <1>0, <3>3, <5>1 DEF SecurityScan!TypeOK
      <4>2. scanReads' \in 0..ScanMaxReads
        BY <1>0, <2>1 DEF SecurityScan!TypeOK
      <4> QED
        BY <1>0, <2>1, <3>1, <4>1, <4>2 DEF SecurityScan!TypeOK
    <3>6. scanRestarts > 0
      <4>1. scanTask[s] = "none"
        BY <1>0, <2>3 DEF RecordOfTask, Is, SecurityScan!TypeOK
      <4> QED
        BY <1>0, <2>1, <4>1 DEF RecordOfTask
    <3>7. \A t \in ScanScans : AnswerSound(t)' /\ ReadingSound(t)'
      BY <1>0, <2>1, <3>1, <3>3, <3>4, <3>6 DEF AnswerSound, ReadingSound
    <3> QED
      BY <2>2, <3>5, <3>7 DEF ScansIInv
  <2>4. CASE scanRecord[s].status # "none"
    <3>1. scanReading' = [scanReading EXCEPT ![s] = scanRecord[s]] /\ UNCHANGED scanAnswer
      BY <1>5, <2>4 DEF SecurityScan!Get
    <3>2. scanReading'[s] = scanRecord[s] /\ \A t \in ScanScans : t # s => scanReading'[t] = scanReading[t]
      BY <1>0, <3>1 DEF SecurityScan!TypeOK
    <3>3. SecurityScan!TypeOK'
      BY <1>0, <2>1, <3>1 DEF SecurityScan!TypeOK
    <3>4. \A t \in ScanScans : AnswerSound(t)'
      BY <1>0, <2>1, <3>1 DEF AnswerSound
    <3>5. scanRecord[s].status = "completed" => scanSarif[s] = "whole"
      BY <1>0 DEF RecordOfTask
    <3>6. \A t \in ScanScans : ReadingSound(t)'
      BY <1>0, <2>1, <3>2, <3>5 DEF ReadingSound
    <3> QED
      BY <2>2, <3>3, <3>4, <3>6 DEF ScansIInv
  <2> QED
    BY <2>3, <2>4
<1>6. ASSUME NEW s \in ScanScans, SecurityScan!GetResult(s) PROVE ScansIInv'
  <2> DEFINE got == [status |-> scanReading[s].status, path |-> scanReading[s].path,
                     result |-> IF scanRecord[s].path THEN scanSarif[s] ELSE "none", code |-> 200]
  <2>1. /\ scanReading[s] # SecurityScan!NoRecord
        /\ scanAnswer' = [scanAnswer EXCEPT ![s] = got]
        /\ scanReading' = [scanReading EXCEPT ![s] = SecurityScan!NoRecord]
        /\ UNCHANGED <<scanRecord, scanTask, scanSarif, scanTold, scanEscaped, scanReads, scanRestarts>>
    BY <1>6 DEF SecurityScan!GetResult
  <2>2. got \in [status : {"none", "queued", "running", "completed", "failed"}, path : BOOLEAN,
                 result : {"none", "partial", "whole"}, code : {0, 200, 404, 500}]
    BY <1>0 DEF SecurityScan!TypeOK, SecurityScan!Record
  <2>3. /\ got.result # "partial" /\ (got.path => got.result = "whole") /\ got.code # 404
        /\ got.status = "completed" => scanSarif[s] = "whole"
    <3>1. scanRecord[s].path => scanSarif[s] = "whole"
      BY <1>0 DEF RecordOfTask, Is, SecurityScan!TypeOK
    <3> QED
      BY <1>0, <3>1 DEF ReadingSound
  <2> HIDE DEF got
  <2>4. /\ scanReading'[s] = SecurityScan!NoRecord
        /\ \A t \in ScanScans : t # s => scanReading'[t] = scanReading[t]
    BY <1>0, <2>1 DEF SecurityScan!TypeOK
  <2>5. scanAnswer'[s] = got /\ \A t \in ScanScans : t # s => scanAnswer'[t] = scanAnswer[t]
    BY <1>0, <2>1 DEF SecurityScan!TypeOK
  <2>6. SecurityScan!TypeOK'
    <3>1. scanAnswer' \in [ScanScans -> [status : {"none", "queued", "running", "completed", "failed"}, path : BOOLEAN,
                                 result : {"none", "partial", "whole"}, code : {0, 200, 404, 500}]]
      BY <1>0, <2>1, <2>2 DEF SecurityScan!TypeOK
    <3>2. SecurityScan!NoRecord \in SecurityScan!Record
      BY DEF SecurityScan!NoRecord, SecurityScan!Record
    <3> QED
      BY <1>0, <2>1, <3>1, <3>2 DEF SecurityScan!TypeOK
  <2>7. \A t \in ScanScans : RecordOfTask(t)'
    BY <1>0, <2>1 DEF RecordOfTask, Is
  <2>8. \A t \in ScanScans : AnswerSound(t)'
    BY <1>0, <2>1, <2>3, <2>5 DEF AnswerSound
  <2>9. \A t \in ScanScans : ReadingSound(t)'
    BY <1>0, <2>1, <2>4 DEF ReadingSound, SecurityScan!NoRecord
  <2> QED
    BY <2>6, <2>7, <2>8, <2>9 DEF ScansIInv
<1>7. CASE SecurityScan!Restart
  <2>1. /\ scanRestarts < ScanMaxRestarts /\ scanRestarts' = scanRestarts + 1 /\ scanRestarts' > 0
        /\ scanRecord' = [s \in ScanScans |-> [status |-> "none", path |-> FALSE, error |-> FALSE]]
        /\ scanTask' = [s \in ScanScans |-> "none"]
        /\ scanReading' = [s \in ScanScans |-> [status |-> "none", path |-> FALSE, error |-> FALSE]]
        /\ UNCHANGED <<scanSarif, scanAnswer, scanTold, scanEscaped, scanReads>>
    BY <1>0, <1>7 DEF SecurityScan!Restart, SecurityScan!NoRecord, SecurityScan!TypeOK
  <2>2. SecurityScan!TypeOK'
    BY <1>0, <2>1 DEF SecurityScan!TypeOK
  <2>3. \A s \in ScanScans : RecordOfTask(s)'
    BY <2>1 DEF RecordOfTask, Is
  <2>4. \A s \in ScanScans : AnswerSound(s)'
    BY <1>0, <2>1 DEF AnswerSound
  <2>5. \A s \in ScanScans : ReadingSound(s)'
    BY <2>1 DEF ReadingSound, SecurityScan!NoRecord
  <2> QED
    BY <2>2, <2>3, <2>4, <2>5 DEF ScansIInv
<1> QED
  BY <1>1, <1>2, <1>3, <1>4, <1>5, <1>6, <1>7 DEF SecurityScan!Next

(* For any number of scans and restarts: a completed scan has its whole    *)
(* result, a task that ended left a final status unless an exception       *)
(* escaped it, and a known scan is found until the process is restarted.   *)
THEOREM ScansCorrect ==
    ASSUME SecurityScan!ScanAssumption PROVE SecurityScan!Spec => []SecurityScan!ScansInv
<1>1. SecurityScan!Init => ScansIInv
  BY ScansInit
<1>2. ScansIInv /\ [SecurityScan!Next]_(SecurityScan!vars) => ScansIInv'
  <2> SUFFICES ASSUME ScansIInv, [SecurityScan!Next]_(SecurityScan!vars) PROVE ScansIInv'
    OBVIOUS
  <2>1. CASE UNCHANGED SecurityScan!vars
    BY <2>1 DEF SecurityScan!vars, ScansIInv, SecurityScan!TypeOK, RecordOfTask, AnswerSound, ReadingSound, Is
  <2>2. CASE SecurityScan!Next
    BY <2>2, ScansStep
  <2> QED
    BY <2>1, <2>2
<1>3. ScansIInv => SecurityScan!ScansInv
  <2> SUFFICES ASSUME ScansIInv PROVE SecurityScan!ScansInv
    OBVIOUS
  <2>0. /\ SecurityScan!TypeOK /\ \A s \in ScanScans : RecordOfTask(s) /\ AnswerSound(s)
    BY DEF ScansIInv
  <2>1. SecurityScan!ResultWhole
    BY <2>0 DEF RecordOfTask, AnswerSound, SecurityScan!ResultWhole
  <2>2. SecurityScan!EndsFinal
    BY <2>0 DEF RecordOfTask, Is, SecurityScan!EndsFinal
  <2>3. SecurityScan!KnownIsFound
    <3>1. \A s \in ScanScans : scanRecord[s].status = "none" => scanTask[s] = "none"
      BY <2>0 DEF RecordOfTask, Is, SecurityScan!TypeOK
    <3>2. scanTold \subseteq ScanScans
      BY <2>0 DEF SecurityScan!TypeOK
    <3> SUFFICES ASSUME NEW s \in scanTold, scanRecord[s].status = "none" \/ scanAnswer[s].code = 404
                 PROVE  scanRestarts > 0
      BY DEF SecurityScan!KnownIsFound
    <3>3. RecordOfTask(s) /\ AnswerSound(s) /\ (scanRecord[s].status = "none" => scanTask[s] = "none")
      BY <2>0, <3>1, <3>2
    <3> QED
      BY <3>3 DEF RecordOfTask, AnswerSound
  <2> QED
    BY <2>1, <2>2, <2>3 DEF SecurityScan!ScansInv
<1> QED
  BY <1>1, <1>2, <1>3, PTL DEF SecurityScan!Spec

-----------------------------------------------------------------------------
(* services/core: the profit loop.                                         *)

(* Revenue and cost only grow, so what was read is no more than what is.   *)
LoopSound ==
    /\ profitRevenue \in Nat /\ profitCost \in Nat
    /\ profitLoop \in [step : {"idle", "snapshot", "revenue", "cost"}, read : [revenue : Nat, cost : Nat]]
    /\ profitLoop.read.revenue <= profitRevenue /\ profitLoop.read.cost <= profitCost

ProfitIInv == LoopSound /\ Profit!ProfitInv

(* A ratio that was reached is reached with no less revenue and no more    *)
(* cost.                                                                   *)
LEMMA ReachedBetter ==
    ASSUME NEW r \in Nat, NEW c \in Nat, NEW s \in Nat, NEW d \in Nat, r <= s, d <= c,
           ProfitAbove \in Nat, ProfitBelow \in Nat, r * ProfitBelow >= ProfitAbove * c
    PROVE  s * ProfitBelow >= ProfitAbove * d
<1>1. s * ProfitBelow >= r * ProfitBelow
  <2>1. PICK k \in Nat : s = r + k
    <3>1. s - r \in Nat /\ s = r + (s - r)
      OBVIOUS
    <3> QED
      BY <3>1
  <2>2. (r + k) * ProfitBelow = r * ProfitBelow + k * ProfitBelow /\ k * ProfitBelow \in Nat
          /\ r * ProfitBelow \in Nat
    OBVIOUS
  <2> QED
    BY <2>1, <2>2
<1>2. ProfitAbove * c >= ProfitAbove * d
  <2>1. PICK k \in Nat : c = d + k
    <3>1. c - d \in Nat /\ c = d + (c - d)
      OBVIOUS
    <3> QED
      BY <3>1
  <2>2. ProfitAbove * (d + k) = ProfitAbove * d + ProfitAbove * k /\ ProfitAbove * k \in Nat
          /\ ProfitAbove * d \in Nat
    OBVIOUS
  <2> QED
    BY <2>1, <2>2
<1>3. s * ProfitBelow \in Int /\ r * ProfitBelow \in Int /\ ProfitAbove * c \in Int
        /\ ProfitAbove * d \in Int
  OBVIOUS
<1> QED
  BY <1>1, <1>2, <1>3

LEMMA ProfitStep ==
    ASSUME Profit!ProfitAssumption, ProfitIInv, Profit!Next
    PROVE  ProfitIInv'
<1>0. /\ LoopSound /\ Profit!ProfitInv /\ ProfitAbove \in Nat /\ ProfitBelow \in Nat
      /\ ProfitMaxMoney \in Nat
  BY DEF ProfitIInv, Profit!ProfitAssumption
<1> USE DEF Profit!Idle
<1>1. CASE Profit!Begin
  <2>1. profitCause' = None /\ UNCHANGED <<profitRevenue, profitCost>>
    BY <1>1 DEF Profit!Begin, Profit!moneyVars
  <2>2. PICK step \in {"snapshot", "revenue"} : profitLoop' = [Profit!Idle EXCEPT !.step = step]
    BY <1>1 DEF Profit!Begin
  <2>3. LoopSound'
    BY <1>0, <2>1, <2>2 DEF LoopSound
  <2>4. Profit!ProfitInv'
    BY <2>1 DEF Profit!ProfitInv, Profit!ScaleDeserved, Profit!PauseExplained
  <2> QED
    BY <2>3, <2>4 DEF ProfitIInv
<1>2. ASSUME NEW what, Profit!Call(what), UNCHANGED <<profitRevenue, profitCost>>,
             what = "scale" => profitCost > 0 /\ profitLoop.read.revenue * ProfitBelow >= ProfitAbove * profitCost,
             what = "stop_loss" => profitRevenue < profitCost,
             what = "pause" => profitCost = 0 \/ profitLoop.read.revenue = 0
      PROVE  ProfitIInv'
  <2>1. /\ profitCause' = [call |-> what, then |-> profitLoop.read, now |-> [revenue |-> profitRevenue, cost |-> profitCost]]
        /\ profitLoop' = [step |-> "idle", read |-> [revenue |-> 0, cost |-> 0]]
    BY <1>2 DEF Profit!Call, Profit!Told
  <2>2. LoopSound'
    BY <1>0, <1>2, <2>1 DEF LoopSound
  <2>3. /\ profitCause'.call = what /\ profitCause'.then = profitLoop.read
        /\ profitCause'.now.revenue = profitRevenue /\ profitCause'.now.cost = profitCost
    BY <2>1
  <2>4. what = "scale" => Profit!Reached(profitLoop.read) /\ Profit!Reached([revenue |-> profitRevenue, cost |-> profitCost])
    <3> SUFFICES ASSUME what = "scale"
                 PROVE  /\ profitLoop.read.revenue * ProfitBelow >= ProfitAbove * profitLoop.read.cost
                        /\ profitRevenue * ProfitBelow >= ProfitAbove * profitCost
      BY DEF Profit!Reached
    <3>1. /\ profitLoop.read.revenue \in Nat /\ profitLoop.read.cost \in Nat
          /\ profitRevenue \in Nat /\ profitCost \in Nat
          /\ profitLoop.read.revenue <= profitRevenue /\ profitLoop.read.cost <= profitCost
      BY <1>0 DEF LoopSound
    <3>2. profitLoop.read.revenue <= profitLoop.read.revenue /\ profitCost <= profitCost
      BY <3>1
    <3> QED
      BY <1>0, <1>2, <3>1, <3>2, ReachedBetter
  <2>5. Profit!ScaleDeserved'
    BY <2>1, <2>3, <2>4 DEF Profit!ScaleDeserved, Profit!Reached
  <2>6. Profit!PauseExplained'
    BY <1>2, <2>3 DEF Profit!PauseExplained
  <2> QED
    BY <2>2, <2>5, <2>6 DEF ProfitIInv, Profit!ProfitInv
<1>3. CASE UNCHANGED profitCause /\ LoopSound'
  BY <1>0, <1>3 DEF ProfitIInv, Profit!ProfitInv, Profit!ScaleDeserved, Profit!PauseExplained,
     Profit!Reached
<1>4. CASE Profit!Snapshot
  <2>1. UNCHANGED <<profitRevenue, profitCost>>
    BY <1>4 DEF Profit!Snapshot, Profit!moneyVars
  <2>2. CASE profitRevenue - profitCost < 0 /\ Profit!Call("stop_loss")
    <3>1. profitRevenue < profitCost
      BY <1>0, <2>2 DEF LoopSound
    <3> QED
      BY <1>2, <2>1, <2>2, <3>1
  <2>3. CASE profitLoop' = [profitLoop EXCEPT !.step = "revenue"] /\ UNCHANGED profitCause
    BY <1>0, <1>3, <2>1, <2>3 DEF LoopSound
  <2> QED
    BY <1>4, <2>2, <2>3 DEF Profit!Snapshot
<1>5. CASE Profit!FetchRevenue
  <2>1. LoopSound' /\ UNCHANGED profitCause
    <3>1. PICK m : m = [revenue |-> profitRevenue, cost |-> profitCost]
      OBVIOUS
    <3>2. profitLoop' = [profitLoop EXCEPT !.step = "cost", !.read = m]
            /\ UNCHANGED <<profitRevenue, profitCost, profitCause>>
      BY <1>5, <3>1 DEF Profit!FetchRevenue, Profit!moneyVars
    <3>3. m \in [revenue : Nat, cost : Nat] /\ m.revenue = profitRevenue /\ m.cost = profitCost
      BY <1>0, <3>1 DEF LoopSound
    <3>4. profitRevenue <= profitRevenue /\ profitCost <= profitCost
      BY <1>0 DEF LoopSound
    <3> QED
      BY <1>0, <3>2, <3>3, <3>4 DEF LoopSound
  <2> QED
    BY <1>3, <2>1
<1>6. CASE Profit!FetchCost
  <2>1. UNCHANGED <<profitRevenue, profitCost>> /\ Profit!Decide(profitLoop.read.revenue, profitCost)
    BY <1>6 DEF Profit!FetchCost, Profit!moneyVars
  <2>2. CASE profitCost > 0 /\ profitLoop.read.revenue * ProfitBelow >= ProfitAbove * profitCost
               /\ Profit!Call("scale")
    BY <1>2, <2>1, <2>2
  <2>3. CASE (profitCost = 0 \/ profitLoop.read.revenue = 0) /\ Profit!Call("pause")
    BY <1>2, <2>1, <2>3
  <2>4. CASE profitLoop' = Profit!Idle /\ UNCHANGED profitCause
    BY <1>0, <1>3, <2>1, <2>4 DEF LoopSound
  <2> QED
    BY <2>1, <2>2, <2>3, <2>4 DEF Profit!Decide
<1>7. CASE Profit!Earn \/ Profit!Pay
  <2>1. LoopSound' /\ UNCHANGED profitCause
    BY <1>0, <1>7 DEF Profit!Earn, Profit!Pay, LoopSound
  <2> QED
    BY <1>3, <2>1
<1>8. CASE Profit!Kill
  <2>1. LoopSound' /\ UNCHANGED profitCause
    BY <1>0, <1>8 DEF Profit!Kill, Profit!moneyVars, LoopSound
  <2> QED
    BY <1>3, <2>1
<1> QED
  BY <1>1, <1>4, <1>5, <1>6, <1>7, <1>8 DEF Profit!Next

(* For any threshold and however money comes and goes: a campaign is       *)
(* scaled only on a ratio reached at both reads, and paused only for a     *)
(* loss, for no revenue or for no cost yet.                                *)
THEOREM ScalingDeserved ==
    ASSUME Profit!ProfitAssumption PROVE Profit!Spec => []Profit!ProfitInv
<1>1. Profit!Init => ProfitIInv
  BY DEF Profit!Init, Profit!Idle, ProfitIInv, LoopSound, Profit!ProfitInv, Profit!ScaleDeserved,
     Profit!PauseExplained
<1>2. ProfitIInv /\ [Profit!Next]_(Profit!vars) => ProfitIInv'
  <2> SUFFICES ASSUME ProfitIInv, [Profit!Next]_(Profit!vars) PROVE ProfitIInv'
    OBVIOUS
  <2>1. CASE UNCHANGED Profit!vars
    BY <2>1 DEF Profit!vars, Profit!moneyVars, ProfitIInv, LoopSound, Profit!ProfitInv,
       Profit!ScaleDeserved,
       Profit!PauseExplained, Profit!Reached
  <2>2. CASE Profit!Next
    BY <2>2, ProfitStep
  <2> QED
    BY <2>1, <2>2
<1>3. ProfitIInv => Profit!ProfitInv
  BY DEF ProfitIInv
<1> QED
  BY <1>1, <1>2, <1>3, PTL DEF Profit!Spec

-----------------------------------------------------------------------------
(* identity and tenant-service: keys.                                      *)

LEMMA KeySets == \A S : AgentKey!Cardinality(S) = Cardinality(S)
  BY DEF AgentKey!Cardinality, Cardinality

(* Keys were made before; the one agent that has the file open found none, *)
(* and what an agent made for itself is nowhere else.                      *)
FileSound ==
    ~keysRaced =>
      /\ \A a, b \in KeysAgents : keysAgent[a].step = "open" /\ keysAgent[b].step = "open" => a = b
      /\ \A a \in KeysAgents : keysAgent[a].step = "open" => keysFile = Torn
      /\ \A a \in KeysAgents : keysAgent[a].step = "up" /\ ~keysAgent[a].renewed =>
           keysAgent[a].key = keysFile

AgentsSound ==
    /\ keysKeys \in Nat /\ (keysFile \in AgentKey!Key => keysFile <= keysKeys)
    /\ \A a \in KeysAgents : keysAgent[a].step # "off" =>
         keysAgent[a].key \in AgentKey!Key /\ keysAgent[a].key <= keysKeys
    /\ \A a \in KeysAgents : keysAgent[a].step = "off" => keysAgent[a].key = None
    /\ \A a \in KeysAgents : keysAgent[a].step \in {"made", "open"} => ~keysAgent[a].renewed
    /\ \A a \in KeysAgents : keysAgent[a].renewed /\ keysAgent[a].step = "up" =>
         keysAgent[a].key # keysFile
    /\ AgentKey!RenewedAlone

(* A tenant's key is on its way to the client that created it, with that   *)
(* client, or lost.                                                        *)
Asked(c) == keysClient[c].step \in {"insert", "answer"}
Told(c, n) == keysClient[c].step = "answer" /\ keysClient[c].name = n
Holds(c, n) == keysHeld[c][n] # {}

ClientsSound ==
    /\ \A c \in KeysClients : Asked(c) =>
         keysClient[c].name \in KeysNames /\ keysClient[c].key \in AgentKey!Key
    /\ \A c \in KeysClients, n \in KeysNames : Told(c, n) => keysClient[c].key = keysTenants[n]

TenantSound(n) ==
    /\ \A c, d \in KeysClients : (Told(c, n) \/ Holds(c, n)) /\ (Told(d, n) \/ Holds(d, n)) => c = d
    /\ \A c \in KeysClients : /\ ~(Told(c, n) /\ Holds(c, n))
                              /\ Holds(c, n) => keysHeld[c][n] = {keysTenants[n]}
                              /\ Told(c, n) \/ Holds(c, n) => n \notin keysCut /\ keysTenants[n] # None
    /\ keysTenants[n] # None => n \in keysCut \/ \E c \in KeysClients : Told(c, n) \/ Holds(c, n)
    /\ n \in keysCut => keysTenants[n] # None

KeysIInv == AgentKey!TypeOK /\ FileSound /\ AgentsSound /\ ClientsSound
  /\ \A n \in KeysNames : TenantSound(n)

LEMMA KeysInit ==
    ASSUME AgentKey!KeysAssumption, AgentKey!Init
    PROVE  KeysIInv
<1> USE DEF AgentKey!KeysAssumption, AgentKey!Init, AgentKey!Key, AgentKey!Off, AgentKey!Quiet
<1>1. AgentKey!TypeOK
  <2>1. keysAgent \in [KeysAgents -> [step : {"off", "made", "open", "up"}, key : AgentKey!Key \cup {None}, renewed : BOOLEAN]]
    OBVIOUS
  <2>2. keysClient \in [KeysClients -> [step : {"quiet", "insert", "answer"}, name : KeysNames \cup {None}, key : AgentKey!Key \cup {None}]]
    OBVIOUS
  <2>3. /\ keysFile \in {None, Torn} \cup AgentKey!Key
        /\ keysTenants \in [KeysNames -> AgentKey!Key \cup {None}]
        /\ keysRaced \in BOOLEAN /\ keysCut \subseteq KeysNames
    OBVIOUS
  <2>5. 0 \in 0..KeysMaxKeys /\ 0 \in 0..KeysMaxAttempts
    BY DEF AgentKey!KeysAssumption
  <2>6. keysKeys \in 0..KeysMaxKeys /\ keysAttempts \in 0..KeysMaxAttempts
    BY <2>5
  <2>4. keysHeld \in [KeysClients -> [KeysNames -> SUBSET AgentKey!Key]]
    <3>1. {} \in SUBSET AgentKey!Key
      OBVIOUS
    <3>2. [n \in KeysNames |-> {}] \in [KeysNames -> SUBSET AgentKey!Key]
      BY <3>1
    <3> QED
      BY <3>2
  <2> QED
    BY <2>1, <2>2, <2>3, <2>4, <2>6 DEF AgentKey!TypeOK
<1>2. FileSound /\ AgentsSound
  BY DEF FileSound, AgentsSound, AgentKey!RenewedAlone
<1>3. ClientsSound /\ \A n \in KeysNames : TenantSound(n)
  BY DEF ClientsSound, TenantSound, Asked, Told, Holds
<1> QED
  BY <1>1, <1>2, <1>3 DEF KeysIInv

(* What one agent does.                                                    *)
LEMMA AgentGoesOn ==
    ASSUME AgentKey!TypeOK, NEW a \in KeysAgents, NEW r, keysAgent' = [keysAgent EXCEPT ![a] = r],
           r \in [step : {"off", "made", "open", "up"}, key : AgentKey!Key \cup {None}, renewed : BOOLEAN],
           keysFile' \in {None, Torn} \cup AgentKey!Key, keysKeys' \in 0..KeysMaxKeys, keysRaced' \in BOOLEAN,
           UNCHANGED <<keysTenants, keysClient, keysHeld, keysAttempts, keysCut>>
    PROVE  /\ AgentKey!TypeOK' /\ keysAgent'[a] = r /\ \A b \in KeysAgents : b # a =>
                keysAgent'[b] = keysAgent[b]
  BY DEF AgentKey!TypeOK, AgentKey!Key

LEMMA TenantsStay ==
    ASSUME ClientsSound, \A n \in KeysNames : TenantSound(n),
           UNCHANGED <<keysTenants, keysClient, keysHeld, keysAttempts, keysCut>>
    PROVE  ClientsSound' /\ \A n \in KeysNames : TenantSound(n)'
  BY DEF ClientsSound, TenantSound, Asked, Told, Holds, AgentKey!Key

LEMMA AgentsStay ==
    ASSUME FileSound, AgentsSound, UNCHANGED <<keysFile, keysAgent, keysRaced>>, keysKeys' \in Nat,
           keysKeys' >= keysKeys, AgentKey!KeysAssumption
    PROVE  FileSound' /\ AgentsSound'
<1>1. FileSound'
  BY DEF FileSound
<1>2. keysKeys \in Nat /\ AgentKey!RenewedAlone'
  BY DEF AgentsSound, AgentKey!RenewedAlone
<1>3. ASSUME NEW k \in AgentKey!Key, k <= keysKeys PROVE k <= keysKeys'
  BY <1>2, <1>3 DEF AgentKey!Key, AgentKey!KeysAssumption
<1>4. AgentKey!Key' = AgentKey!Key
  BY DEF AgentKey!Key
<1> QED
  BY <1>1, <1>2, <1>3, <1>4 DEF AgentsSound

LEMMA AgentStep ==
    ASSUME AgentKey!KeysAssumption, KeysIInv, NEW a \in KeysAgents,
           \/ AgentKey!Load(a) \/ AgentKey!Make(a) \/ AgentKey!Open(a)
           \/ AgentKey!Store(a) \/ AgentKey!Renew(a) \/ AgentKey!Stop(a)
    PROVE  KeysIInv'
<1>0. AgentKey!TypeOK /\ FileSound /\ AgentsSound /\ ClientsSound /\ \A n \in KeysNames : TenantSound(n)
  BY DEF KeysIInv
<1>1. PICK m : m = keysAgent[a]
  OBVIOUS
<1>2. /\ m \in [step : {"off", "made", "open", "up"}, key : AgentKey!Key \cup {None}, renewed : BOOLEAN]
      /\ keysAgent \in [KeysAgents -> [step : {"off", "made", "open", "up"}, key : AgentKey!Key \cup {None}, renewed : BOOLEAN]]
      /\ keysFile \in {None, Torn} \cup AgentKey!Key /\ keysRaced \in BOOLEAN /\ keysKeys \in Nat
      /\ keysKeys <= KeysMaxKeys
  BY <1>0, <1>1 DEF AgentKey!TypeOK, AgentKey!KeysAssumption
<1>3. /\ UNCHANGED <<keysTenants, keysClient, keysHeld, keysAttempts, keysCut>>
  BY DEF AgentKey!Load, AgentKey!Make, AgentKey!Open, AgentKey!Store, AgentKey!Renew,
     AgentKey!Stop, AgentKey!tenantVars
<1>4. ClientsSound' /\ \A n \in KeysNames : TenantSound(n)'
  BY <1>0, <1>3, TenantsStay
<1>5. None \notin AgentKey!Key /\ Torn \notin AgentKey!Key /\ None # Torn /\ KeysMaxKeys \in Nat
        /\ AgentKey!Key = 1..KeysMaxKeys
  BY DEF AgentKey!KeysAssumption, AgentKey!Key
<1>6. SUFFICES AgentKey!TypeOK' /\ FileSound' /\ AgentsSound'
  BY <1>4 DEF KeysIInv
<1>7. AgentKey!Key' = AgentKey!Key
  BY DEF AgentKey!Key
<1>8. CASE AgentKey!Load(a)
  <2>1. /\ m.step = "off" /\ keysFile \in AgentKey!Key /\ UNCHANGED <<keysFile, keysRaced, keysKeys>>
        /\ keysAgent' = [keysAgent EXCEPT ![a] = [AgentKey!Off EXCEPT !.step = "up", !.key = keysFile]]
    BY <1>1, <1>8 DEF AgentKey!Load
  <2>2. PICK r : r = [AgentKey!Off EXCEPT !.step = "up", !.key = keysFile]
    OBVIOUS
  <2>3. r.step = "up" /\ r.key = keysFile /\ r.renewed = FALSE
        /\ r \in [step : {"off", "made", "open", "up"}, key : AgentKey!Key \cup {None}, renewed : BOOLEAN]
    BY <2>1, <2>2 DEF AgentKey!Off
  <2>4. AgentKey!TypeOK' /\ keysAgent'[a] = r /\ \A b \in KeysAgents : b # a =>
          keysAgent'[b] = keysAgent[b]
    BY <1>0, <1>2, <1>3, <2>1, <2>2, <2>3, AgentGoesOn DEF AgentKey!TypeOK
  <2>5. FileSound'
    BY <1>0, <2>1, <2>3, <2>4 DEF FileSound
  <2>6. AgentsSound'
    <3>1. keysFile <= keysKeys /\ \A b \in KeysAgents : keysAgent[b].renewed /\ keysAgent[b].step = "up" => keysAgent[b].key # keysFile
      BY <1>0, <2>1 DEF AgentsSound
    <3>2. AgentKey!RenewedAlone'
      <4> SUFFICES ASSUME NEW b \in KeysAgents, NEW d \in KeysAgents, b # d, keysAgent'[b].renewed,
                          keysAgent'[b].step = "up"
                   PROVE  keysAgent'[d].key # keysAgent'[b].key
        BY DEF AgentKey!RenewedAlone
      <4>1. b # a /\ keysAgent'[b] = keysAgent[b]
        BY <2>3, <2>4
      <4>2. CASE d = a
        BY <2>3, <2>4, <3>1, <4>1, <4>2
      <4>3. CASE d # a
        BY <1>0, <2>4, <4>1, <4>3 DEF AgentsSound, AgentKey!RenewedAlone
      <4> QED
        BY <4>2, <4>3
    <3>3. \A b \in KeysAgents : keysAgent'[b].step # "off" =>
            keysAgent'[b].key \in AgentKey!Key /\ keysAgent'[b].key <= keysKeys
      BY <1>0, <2>1, <2>3, <2>4, <3>1 DEF AgentsSound
    <3>4. /\ \A b \in KeysAgents : keysAgent'[b].step = "off" => keysAgent'[b].key = None
          /\ \A b \in KeysAgents : keysAgent'[b].step \in {"made", "open"} => ~keysAgent'[b].renewed
          /\ \A b \in KeysAgents : keysAgent'[b].renewed /\ keysAgent'[b].step = "up" =>
               keysAgent'[b].key # keysFile
      BY <1>0, <2>3, <2>4, <3>1 DEF AgentsSound
    <3> QED
      BY <1>0, <1>7, <2>1, <3>1, <3>2, <3>3, <3>4 DEF AgentsSound
  <2> QED
    BY <2>4, <2>5, <2>6
<1>9. CASE AgentKey!Make(a)
  <2>1. /\ m.step = "off" /\ keysFile = None /\ keysKeys < KeysMaxKeys /\ keysKeys' = keysKeys + 1
        /\ UNCHANGED <<keysFile, keysRaced>>
        /\ keysAgent' = [keysAgent EXCEPT ![a] = [AgentKey!Off EXCEPT !.step = "made", !.key = keysKeys']]
    BY <1>1, <1>9 DEF AgentKey!Make, AgentKey!NewKey
  <2>2. PICK r : r = [AgentKey!Off EXCEPT !.step = "made", !.key = keysKeys']
    OBVIOUS
  <2>3. keysKeys' \in AgentKey!Key /\ keysKeys' \in 0..KeysMaxKeys /\ keysKeys' \in Nat
    BY <1>2, <1>5, <2>1
  <2>4. r.step = "made" /\ r.key = keysKeys' /\ r.renewed = FALSE
        /\ r \in [step : {"off", "made", "open", "up"}, key : AgentKey!Key \cup {None}, renewed : BOOLEAN]
    BY <2>2, <2>3 DEF AgentKey!Off
  <2>5. AgentKey!TypeOK' /\ keysAgent'[a] = r /\ \A b \in KeysAgents : b # a =>
          keysAgent'[b] = keysAgent[b]
    BY <1>0, <1>2, <1>3, <2>1, <2>2, <2>3, <2>4, AgentGoesOn
  <2>6. FileSound'
    BY <1>0, <2>1, <2>4, <2>5 DEF FileSound
  <2>7. \A k \in AgentKey!Key : k <= keysKeys => k <= keysKeys' /\ k # keysKeys'
    BY <1>2, <1>5, <2>1
  <2>8. AgentsSound'
    <3>1. AgentKey!RenewedAlone'
      <4> SUFFICES ASSUME NEW b \in KeysAgents, NEW d \in KeysAgents, b # d, keysAgent'[b].renewed,
                          keysAgent'[b].step = "up"
                   PROVE  keysAgent'[d].key # keysAgent'[b].key
        BY DEF AgentKey!RenewedAlone
      <4>1. /\ b # a /\ keysAgent'[b] = keysAgent[b]
            /\ keysAgent[b].key \in AgentKey!Key /\ keysAgent[b].key <= keysKeys
        BY <1>0, <2>4, <2>5 DEF AgentsSound
      <4>2. CASE d = a
        BY <2>4, <2>5, <2>7, <4>1, <4>2
      <4>3. CASE d # a
        BY <1>0, <2>5, <4>1, <4>3 DEF AgentsSound, AgentKey!RenewedAlone
      <4> QED
        BY <4>2, <4>3
    <3>2. ASSUME NEW b \in KeysAgents, keysAgent'[b].step # "off"
          PROVE  keysAgent'[b].key \in AgentKey!Key /\ keysAgent'[b].key <= keysKeys'
      <4>1. CASE b = a
        <5>1. keysKeys' <= keysKeys'
          BY <2>3
        <5> QED
          BY <2>3, <2>4, <2>5, <4>1, <5>1
      <4>2. CASE b # a
        <5>1. keysAgent[b].key \in AgentKey!Key /\ keysAgent[b].key <= keysKeys
                /\ keysAgent'[b] = keysAgent[b]
          BY <1>0, <2>5, <3>2, <4>2 DEF AgentsSound
        <5> QED
          BY <2>7, <5>1
      <4> QED
        BY <4>1, <4>2
    <3>3. keysFile' \notin AgentKey!Key
      BY <1>5, <2>1
    <3> QED
      BY <1>0, <1>7, <2>1, <2>3, <2>4, <2>5, <3>1, <3>2, <3>3 DEF AgentsSound
  <2> QED
    BY <2>5, <2>6, <2>8
<1>10. CASE AgentKey!Open(a)
  <2>1. /\ m.step = "made" /\ keysFile' = Torn
        /\ keysAgent' = [keysAgent EXCEPT ![a] = [m EXCEPT !.step = "open"]]
        /\ keysRaced' = (keysRaced \/ keysFile # None) /\ UNCHANGED keysKeys
    BY <1>1, <1>2, <1>10 DEF AgentKey!Open
  <2>2. PICK r : r = [m EXCEPT !.step = "open"]
    OBVIOUS
  <2>3. r.step = "open" /\ r.key = m.key /\ r.renewed = m.renewed
        /\ r \in [step : {"off", "made", "open", "up"}, key : AgentKey!Key \cup {None}, renewed : BOOLEAN]
    BY <1>2, <2>2
  <2>4. AgentKey!TypeOK' /\ keysAgent'[a] = r /\ \A b \in KeysAgents : b # a =>
          keysAgent'[b] = keysAgent[b]
    BY <1>0, <1>2, <1>3, <2>1, <2>2, <2>3, AgentGoesOn DEF AgentKey!TypeOK
  <2>5. FileSound'
    <3> SUFFICES ASSUME ~keysRaced' PROVE FileSound'
      BY DEF FileSound
    <3>1. ~keysRaced /\ keysFile = None
      BY <2>1
    <3>2. \A b \in KeysAgents : keysAgent[b].step # "open" /\ ~(keysAgent[b].step = "up" /\ ~keysAgent[b].renewed)
      BY <1>0, <1>5, <3>1 DEF FileSound, AgentsSound
    <3> QED
      BY <2>1, <2>3, <2>4, <3>2 DEF FileSound
  <2>6. AgentsSound'
    BY <1>0, <1>1, <1>5, <1>7, <2>1, <2>3, <2>4 DEF AgentsSound, AgentKey!RenewedAlone
  <2> QED
    BY <2>4, <2>5, <2>6
<1>11. CASE AgentKey!Store(a)
  <2>1. /\ m.step = "open" /\ keysFile' = m.key
        /\ keysAgent' = [keysAgent EXCEPT ![a] = [m EXCEPT !.step = "up"]]
        /\ UNCHANGED <<keysRaced, keysKeys>>
    BY <1>1, <1>2, <1>11 DEF AgentKey!Store
  <2>2. PICK r : r = [m EXCEPT !.step = "up"]
    OBVIOUS
  <2>3. r.step = "up" /\ r.key = m.key /\ r.renewed = m.renewed
        /\ r \in [step : {"off", "made", "open", "up"}, key : AgentKey!Key \cup {None}, renewed : BOOLEAN]
    BY <1>2, <2>2
  <2>4. m.key \in AgentKey!Key /\ m.key <= keysKeys /\ ~m.renewed
    BY <1>0, <1>1, <2>1 DEF AgentsSound
  <2>5. AgentKey!TypeOK' /\ keysAgent'[a] = r /\ \A b \in KeysAgents : b # a =>
          keysAgent'[b] = keysAgent[b]
    BY <1>0, <1>2, <1>3, <2>1, <2>2, <2>3, <2>4, AgentGoesOn DEF AgentKey!TypeOK
  <2>6. FileSound'
    <3> SUFFICES ASSUME ~keysRaced PROVE FileSound'
      BY <2>1 DEF FileSound
    <3>1. /\ keysFile = Torn /\ \A b \in KeysAgents : keysAgent[b].step = "open" => b = a
          /\ \A b \in KeysAgents : keysAgent[b].step = "up" /\ ~keysAgent[b].renewed =>
               keysAgent[b].key = Torn
      BY <1>0, <1>1, <2>1 DEF FileSound
    <3>2. \A b \in KeysAgents : keysAgent[b].step = "up" => keysAgent[b].renewed
      BY <1>0, <1>5, <3>1 DEF AgentsSound
    <3> QED
      BY <2>1, <2>3, <2>5, <3>1, <3>2 DEF FileSound
  <2>7. AgentsSound'
    BY <1>0, <1>1, <1>5, <1>7, <2>1, <2>3, <2>4, <2>5 DEF AgentsSound, AgentKey!RenewedAlone
  <2> QED
    BY <2>5, <2>6, <2>7
<1>12. CASE AgentKey!Renew(a)
  <2>1. /\ m.step = "up" /\ keysKeys < KeysMaxKeys /\ keysKeys' = keysKeys + 1
        /\ UNCHANGED <<keysFile, keysRaced>>
        /\ keysAgent' = [keysAgent EXCEPT ![a] = [m EXCEPT !.key = keysKeys', !.renewed = TRUE]]
    BY <1>1, <1>2, <1>12 DEF AgentKey!Renew, AgentKey!NewKey
  <2>2. PICK r : r = [m EXCEPT !.key = keysKeys', !.renewed = TRUE]
    OBVIOUS
  <2>3. keysKeys' \in AgentKey!Key /\ keysKeys' \in 0..KeysMaxKeys /\ keysKeys' \in Nat
    BY <1>2, <1>5, <2>1
  <2>4. r.step = "up" /\ r.key = keysKeys' /\ r.renewed = TRUE
        /\ r \in [step : {"off", "made", "open", "up"}, key : AgentKey!Key \cup {None}, renewed : BOOLEAN]
    BY <1>2, <2>1, <2>2, <2>3
  <2>5. AgentKey!TypeOK' /\ keysAgent'[a] = r /\ \A b \in KeysAgents : b # a =>
          keysAgent'[b] = keysAgent[b]
    BY <1>0, <1>2, <1>3, <2>1, <2>2, <2>3, <2>4, AgentGoesOn
  <2>6. FileSound'
    BY <1>0, <2>1, <2>4, <2>5 DEF FileSound
  <2>7. \A k \in AgentKey!Key : k <= keysKeys => k <= keysKeys' /\ k # keysKeys'
    BY <1>2, <1>5, <2>1
  <2>8. AgentsSound'
    BY <1>0, <1>2, <1>5, <1>7, <2>1, <2>3, <2>4, <2>5, <2>7 DEF AgentsSound, AgentKey!RenewedAlone
  <2> QED
    BY <2>5, <2>6, <2>8
<1>13. CASE AgentKey!Stop(a)
  <2>1. keysAgent' = [keysAgent EXCEPT ![a] = AgentKey!Off]
          /\ UNCHANGED <<keysFile, keysRaced, keysKeys>>
    BY <1>13 DEF AgentKey!Stop
  <2>2. AgentKey!Off.step = "off" /\ AgentKey!Off.key = None /\ AgentKey!Off.renewed = FALSE
        /\ AgentKey!Off \in [step : {"off", "made", "open", "up"}, key : AgentKey!Key \cup {None}, renewed : BOOLEAN]
    BY DEF AgentKey!Off
  <2>3. AgentKey!TypeOK' /\ keysAgent'[a] = AgentKey!Off /\ \A b \in KeysAgents : b # a =>
          keysAgent'[b] = keysAgent[b]
    BY <1>0, <1>2, <1>3, <2>1, <2>2, AgentGoesOn DEF AgentKey!TypeOK
  <2>4. FileSound'
    BY <1>0, <2>1, <2>2, <2>3 DEF FileSound
  <2>5. AgentsSound'
    BY <1>0, <1>5, <1>7, <2>1, <2>2, <2>3 DEF AgentsSound, AgentKey!RenewedAlone
  <2> QED
    BY <2>3, <2>4, <2>5
<1> QED
  BY <1>8, <1>9, <1>10, <1>11, <1>12, <1>13

LEMMA TenantStep ==
    ASSUME AgentKey!KeysAssumption, KeysIInv, NEW c \in KeysClients,
           \/ AgentKey!Insert(c) \/ AgentKey!Answer(c) \/ AgentKey!Lose(c) \/ \E n \in KeysNames : AgentKey!Create(c, n)
    PROVE  KeysIInv'
<1>0. AgentKey!TypeOK /\ FileSound /\ AgentsSound /\ ClientsSound /\ \A n \in KeysNames : TenantSound(n)
  BY DEF KeysIInv
<1>1. PICK m : m = keysClient[c]
  OBVIOUS
<1>2. /\ m \in [step : {"quiet", "insert", "answer"}, name : KeysNames \cup {None}, key : AgentKey!Key \cup {None}]
      /\ keysKeys \in Nat /\ keysKeys <= KeysMaxKeys
  BY <1>0, <1>1 DEF AgentKey!TypeOK, AgentKey!KeysAssumption
<1>3. None \notin AgentKey!Key /\ KeysMaxKeys \in Nat /\ AgentKey!Key = 1..KeysMaxKeys
        /\ AgentKey!Key' = AgentKey!Key
  BY DEF AgentKey!KeysAssumption, AgentKey!Key
<1>4. /\ UNCHANGED <<keysFile, keysAgent, keysRaced>>
  BY DEF AgentKey!Insert, AgentKey!Answer, AgentKey!Lose, AgentKey!Create, AgentKey!agentVars
<1>5. ASSUME NEW r, keysClient' = [keysClient EXCEPT ![c] = r],
             r \in [step : {"quiet", "insert", "answer"}, name : KeysNames \cup {None}, key : AgentKey!Key \cup {None}]
      PROVE  /\ keysClient' \in [KeysClients -> [step : {"quiet", "insert", "answer"}, name : KeysNames \cup {None}, key : AgentKey!Key \cup {None}]]
             /\ keysClient'[c] = r /\ \A d \in KeysClients : d # c => keysClient'[d] = keysClient[d]
  BY <1>0, <1>5 DEF AgentKey!TypeOK
<1>6. ASSUME keysKeys' = keysKeys PROVE FileSound' /\ AgentsSound'
  BY <1>0, <1>2, <1>4, <1>6, AgentsStay
<1>7. ASSUME NEW n \in KeysNames, AgentKey!Create(c, n) PROVE KeysIInv'
  <2> DEFINE r == [step |-> "insert", name |-> n, key |-> keysKeys']
  <2>1. /\ m.step = "quiet" /\ keysAttempts < KeysMaxAttempts /\ keysAttempts' = keysAttempts + 1
        /\ keysKeys < KeysMaxKeys /\ keysKeys' = keysKeys + 1
        /\ keysClient' = [keysClient EXCEPT ![c] = r] /\ UNCHANGED <<keysTenants, keysHeld, keysCut>>
    BY <1>1, <1>7 DEF AgentKey!Create, AgentKey!NewKey
  <2>2. keysKeys' \in AgentKey!Key /\ keysKeys' \in Nat /\ keysKeys' \in 0..KeysMaxKeys
          /\ keysKeys' >= keysKeys
    BY <1>2, <1>3, <2>1
  <2>3. r.step = "insert" /\ r.name = n /\ r.key = keysKeys'
        /\ r \in [step : {"quiet", "insert", "answer"}, name : KeysNames \cup {None}, key : AgentKey!Key \cup {None}]
    BY <2>2
  <2> HIDE DEF r
  <2>4. /\ keysClient' \in [KeysClients -> [step : {"quiet", "insert", "answer"}, name : KeysNames \cup {None}, key : AgentKey!Key \cup {None}]]
        /\ keysClient'[c] = r /\ \A d \in KeysClients : d # c => keysClient'[d] = keysClient[d]
    BY <1>5, <2>1, <2>3
  <2>5. FileSound' /\ AgentsSound'
    BY <1>0, <1>4, <2>2, AgentsStay
  <2>6. AgentKey!TypeOK'
    BY <1>0, <1>3, <1>4, <2>1, <2>2, <2>4 DEF AgentKey!TypeOK, AgentKey!KeysAssumption
  <2>7. \A d \in KeysClients, k \in KeysNames : (Told(d, k)' <=> Told(d, k)) /\ (Holds(d, k)' <=> Holds(d, k))
    BY <1>1, <2>1, <2>3, <2>4 DEF Told, Holds
  <2>8. ClientsSound'
    BY <1>0, <1>3, <2>1, <2>2, <2>3, <2>4, <2>7 DEF ClientsSound, Asked, Told
  <2>9. \A k \in KeysNames : TenantSound(k)'
    BY <1>0, <2>1, <2>7 DEF TenantSound
  <2> QED
    BY <2>5, <2>6, <2>8, <2>9 DEF KeysIInv
<1>8. ASSUME keysClient' = [keysClient EXCEPT ![c] = AgentKey!Quiet]
      PROVE  /\ keysClient' \in [KeysClients -> [step : {"quiet", "insert", "answer"}, name : KeysNames \cup {None}, key : AgentKey!Key \cup {None}]]
             /\ \A d \in KeysClients : d # c => keysClient'[d] = keysClient[d]
             /\ ~Asked(c)' /\ \A k \in KeysNames : ~Told(c, k)'
  <2>1. AgentKey!Quiet.step = "quiet"
        /\ AgentKey!Quiet \in [step : {"quiet", "insert", "answer"}, name : KeysNames \cup {None}, key : AgentKey!Key \cup {None}]
    BY DEF AgentKey!Quiet
  <2> QED
    BY <1>5, <1>8, <2>1 DEF Asked, Told
<1>9. CASE AgentKey!Insert(c)
  <2>1. m.step = "insert" /\ UNCHANGED <<keysHeld, keysCut, keysKeys, keysAttempts>>
          /\ m.name \in KeysNames /\ m.key \in AgentKey!Key
    BY <1>0, <1>1, <1>9 DEF AgentKey!Insert, ClientsSound, Asked
  <2> DEFINE n == m.name
  <2>2. CASE /\ keysTenants[n] = None /\ keysTenants' = [keysTenants EXCEPT ![n] = m.key]
             /\ keysClient' = [keysClient EXCEPT ![c] = [m EXCEPT !.step = "answer"]]
    <3>1. PICK r : r = [m EXCEPT !.step = "answer"]
      OBVIOUS
    <3>2. r.step = "answer" /\ r.name = n /\ r.key = m.key
          /\ r \in [step : {"quiet", "insert", "answer"}, name : KeysNames \cup {None}, key : AgentKey!Key \cup {None}]
      BY <1>2, <3>1
    <3>3. /\ keysClient' \in [KeysClients -> [step : {"quiet", "insert", "answer"}, name : KeysNames \cup {None}, key : AgentKey!Key \cup {None}]]
          /\ keysClient'[c] = r /\ \A d \in KeysClients : d # c => keysClient'[d] = keysClient[d]
      BY <1>5, <2>2, <3>1, <3>2
    <3>4. /\ keysTenants' \in [KeysNames -> AgentKey!Key \cup {None}] /\ keysTenants'[n] = m.key
          /\ \A k \in KeysNames : k # n => keysTenants'[k] = keysTenants[k]
      BY <1>0, <2>1, <2>2 DEF AgentKey!TypeOK
    <3>5. AgentKey!TypeOK'
      BY <1>0, <1>3, <1>4, <2>1, <3>3, <3>4 DEF AgentKey!TypeOK
    <3>6. /\ \A d \in KeysClients : ~Told(d, n) /\ ~Holds(d, n)
          /\ n \notin keysCut
      BY <1>0, <2>1, <2>2 DEF TenantSound
    <3>7. /\ \A d \in KeysClients, k \in KeysNames : Holds(d, k)' <=> Holds(d, k)
          /\ \A d \in KeysClients, k \in KeysNames : Told(d, k)' <=> (Told(d, k) \/ (d = c /\ k = n))
      BY <1>1, <2>1, <3>2, <3>3 DEF Told, Holds
    <3>8. ClientsSound'
      <4>1. ASSUME NEW d \in KeysClients, Asked(d)'
            PROVE  keysClient'[d].name \in KeysNames /\ keysClient'[d].key \in AgentKey!Key'
        BY <1>0, <1>3, <2>1, <3>2, <3>3, <4>1 DEF ClientsSound, Asked
      <4>2. ASSUME NEW d \in KeysClients, NEW k \in KeysNames, Told(d, k)'
            PROVE  keysClient'[d].key = keysTenants'[k]
        <5>1. CASE d = c
          BY <3>2, <3>3, <3>4, <4>2, <5>1 DEF Told
        <5>2. CASE d # c
          <6>1. Told(d, k) /\ k # n
            BY <3>6, <3>7, <4>2, <5>2
          <6> QED
            BY <1>0, <3>3, <3>4, <5>2, <6>1 DEF ClientsSound
        <5> QED
          BY <5>1, <5>2
      <4> QED
        BY <4>1, <4>2 DEF ClientsSound
    <3>9. TenantSound(n)'
      BY <1>3, <2>1, <3>4, <3>6, <3>7 DEF TenantSound
    <3>10. \A k \in KeysNames : k # n => TenantSound(k)'
      BY <1>0, <2>1, <3>4, <3>7 DEF TenantSound
    <3> QED
      BY <1>6, <2>1, <3>5, <3>8, <3>9, <3>10 DEF KeysIInv
  <2>3. CASE keysClient' = [keysClient EXCEPT ![c] = AgentKey!Quiet] /\ UNCHANGED keysTenants
    <3>1. \A d \in KeysClients, k \in KeysNames : (Told(d, k)' <=> Told(d, k)) /\ (Holds(d, k)' <=> Holds(d, k))
      BY <1>1, <1>8, <2>1, <2>3 DEF Told, Holds
    <3>2. AgentKey!TypeOK'
      BY <1>0, <1>3, <1>4, <1>8, <2>1, <2>3 DEF AgentKey!TypeOK
    <3>3. ClientsSound'
      BY <1>0, <1>3, <1>8, <2>1, <2>3, <3>1 DEF ClientsSound, Asked, Told
    <3>4. \A k \in KeysNames : TenantSound(k)'
      BY <1>0, <2>1, <2>3, <3>1 DEF TenantSound
    <3> QED
      BY <1>6, <2>1, <3>2, <3>3, <3>4 DEF KeysIInv
  <2> QED
    BY <1>1, <1>2, <1>9, <2>1, <2>2, <2>3 DEF AgentKey!Insert
<1>10. CASE AgentKey!Answer(c)
  <2>1. /\ m.step = "answer" /\ m.name \in KeysNames /\ m.key \in AgentKey!Key
        /\ keysHeld' = [keysHeld EXCEPT ![c][m.name] = @ \cup {m.key}]
        /\ keysClient' = [keysClient EXCEPT ![c] = AgentKey!Quiet]
        /\ UNCHANGED <<keysTenants, keysKeys, keysAttempts, keysCut>>
    BY <1>0, <1>1, <1>10 DEF AgentKey!Answer, ClientsSound, Asked
  <2> DEFINE n == m.name
  <2>2. Told(c, n) /\ m.key = keysTenants[n] /\ keysHeld[c][n] = {} /\ keysTenants[n] # None
          /\ n \notin keysCut
        /\ \A d \in KeysClients : d # c => ~Told(d, n) /\ ~Holds(d, n)
    BY <1>0, <1>1, <2>1 DEF ClientsSound, TenantSound, Told, Holds
  <2>3. /\ keysHeld' \in [KeysClients -> [KeysNames -> SUBSET AgentKey!Key]]
        /\ keysHeld'[c][n] = {m.key}
        /\ \A d \in KeysClients, k \in KeysNames : ~(d = c /\ k = n) => keysHeld'[d][k] = keysHeld[d][k]
    BY <1>0, <2>1, <2>2 DEF AgentKey!TypeOK
  <2>4. /\ \A d \in KeysClients, k \in KeysNames : Told(d, k)' <=> Told(d, k) /\ ~(d = c /\ k = n)
        /\ \A d \in KeysClients, k \in KeysNames : Holds(d, k)' <=> Holds(d, k) \/ (d = c /\ k = n)
    BY <1>1, <1>8, <2>1, <2>3 DEF Told, Holds
  <2>5. AgentKey!TypeOK'
    BY <1>0, <1>3, <1>4, <1>8, <2>1, <2>3 DEF AgentKey!TypeOK
  <2>6. ClientsSound'
    BY <1>0, <1>3, <1>8, <2>1, <2>4 DEF ClientsSound, Asked, Told
  <2>7. TenantSound(n)'
    BY <2>1, <2>2, <2>3, <2>4 DEF TenantSound
  <2>8. \A k \in KeysNames : k # n => TenantSound(k)'
    BY <1>0, <2>1, <2>3, <2>4 DEF TenantSound
  <2> QED
    BY <1>6, <2>1, <2>5, <2>6, <2>7, <2>8 DEF KeysIInv
<1>11. CASE AgentKey!Lose(c)
  <2>1. /\ m.step \in {"insert", "answer"} /\ m.name \in KeysNames
        /\ keysCut' = IF m.step = "answer" THEN keysCut \cup {m.name} ELSE keysCut
        /\ keysClient' = [keysClient EXCEPT ![c] = AgentKey!Quiet]
        /\ UNCHANGED <<keysTenants, keysHeld, keysKeys, keysAttempts>>
    BY <1>0, <1>1, <1>11 DEF AgentKey!Lose, ClientsSound, Asked
  <2>2. AgentKey!TypeOK'
    BY <1>0, <1>3, <1>4, <1>8, <2>1 DEF AgentKey!TypeOK
  <2>3. /\ \A d \in KeysClients, k \in KeysNames : Told(d, k)' <=> Told(d, k) /\ d # c
        /\ \A d \in KeysClients, k \in KeysNames : Holds(d, k)' <=> Holds(d, k)
        /\ \A k \in KeysNames : Told(c, k) <=> m.step = "answer" /\ k = m.name
    BY <1>1, <1>8, <2>1 DEF Told, Holds
  <2>4. ClientsSound'
    BY <1>0, <1>3, <1>8, <2>1, <2>3 DEF ClientsSound, Asked, Told
  <2>5. ASSUME NEW k \in KeysNames PROVE TenantSound(k)'
    <3>1. CASE Told(c, k)
      <4>1. k \in keysCut' /\ keysTenants[k] # None
              /\ \A d \in KeysClients : ~Told(d, k)' /\ ~Holds(d, k)'
        BY <1>0, <2>1, <2>3, <3>1 DEF TenantSound
      <4> QED
        BY <2>1, <4>1 DEF TenantSound
    <3>2. CASE ~Told(c, k)
      <4>1. (k \in keysCut' <=> k \in keysCut) /\ \A d \in KeysClients : (Told(d, k)' <=> Told(d, k)) /\ (Holds(d, k)' <=> Holds(d, k))
        BY <2>1, <2>3, <3>2
      <4> QED
        BY <1>0, <2>1, <4>1 DEF TenantSound
    <3> QED
      BY <3>1, <3>2
  <2> QED
    BY <1>6, <2>1, <2>2, <2>4, <2>5 DEF KeysIInv
<1> QED
  BY <1>7, <1>9, <1>10, <1>11

(* For any agents, clients and names: agents that did not start together   *)
(* sign with the key of the file until they renew it, none signs with a    *)
(* key another made for itself, and a tenant's key is with the one client  *)
(* that created it unless an answer was lost.                              *)
THEOREM KeysCorrect ==
    ASSUME AgentKey!KeysAssumption PROVE AgentKey!Spec => []AgentKey!KeysInv
<1>1. AgentKey!Init => KeysIInv
  BY KeysInit
<1>2. KeysIInv /\ [AgentKey!Next]_(AgentKey!vars) => KeysIInv'
  <2> SUFFICES ASSUME KeysIInv, [AgentKey!Next]_(AgentKey!vars) PROVE KeysIInv'
    OBVIOUS
  <2>1. CASE UNCHANGED AgentKey!vars
    <3>1. UNCHANGED <<keysFile, keysAgent,
                      keysRaced, keysTenants, keysClient, keysHeld, keysAttempts, keysCut, keysKeys>>
      BY <2>1 DEF AgentKey!vars, AgentKey!agentVars, AgentKey!tenantVars
    <3>2. keysKeys' \in Nat /\ keysKeys' >= keysKeys
      BY <3>1 DEF KeysIInv, AgentsSound
    <3>3. AgentKey!TypeOK'
      BY <3>1 DEF KeysIInv, AgentKey!TypeOK, AgentKey!Key
    <3> QED
      BY <3>1, <3>2, <3>3, TenantsStay, AgentsStay DEF KeysIInv
  <2>2. CASE AgentKey!Next
    BY <2>2, AgentStep, TenantStep DEF AgentKey!Next
  <2> QED
    BY <2>1, <2>2
<1>3. KeysIInv => AgentKey!KeysInv
  <2> SUFFICES ASSUME KeysIInv PROVE AgentKey!KeysInv
    OBVIOUS
  <2>1. AgentKey!OneIdentity /\ AgentKey!RenewedAlone
    BY DEF KeysIInv, FileSound, AgentsSound, AgentKey!OneIdentity
  <2>2. ASSUME NEW n \in KeysNames
        PROVE  /\ \A c \in KeysClients : keysHeld[c][n] # {} => keysHeld[c][n] = {keysTenants[n]}
               /\ AgentKey!Cardinality({c \in KeysClients : keysHeld[c][n] # {}}) <= 1
               /\ keysTenants[n] # None =>
                    \/ n \in keysCut
                    \/ \E c \in KeysClients : keysHeld[c][n] # {} \/ (keysClient[c].step = "answer" /\ keysClient[c].name = n)
               /\ n \in keysCut => \A c \in KeysClients : keysHeld[c][n] = {}
    <3>1. TenantSound(n)
      BY DEF KeysIInv
    <3>2. Cardinality({c \in KeysClients : keysHeld[c][n] # {}}) <= 1
      <4> DEFINE S == {c \in KeysClients : keysHeld[c][n] # {}}
      <4>1. \A c, d \in S : c = d
        BY <3>1 DEF TenantSound, Holds
      <4>2. CASE S = {}
        <5>1. Cardinality({}) = 0
          BY FS_EmptySet
        <5> QED
          BY <4>2, <5>1
      <4>3. CASE S # {}
        <5>1. PICK c \in S : S = {c}
          BY <4>1, <4>3
        <5>2. Cardinality({c}) = 1
          BY FS_Singleton
        <5> QED
          BY <5>1, <5>2
      <4> QED
        BY <4>2, <4>3
    <3> QED
      BY <3>1, <3>2, KeySets DEF TenantSound, Told, Holds
  <2> QED
    BY <2>1, <2>2 DEF AgentKey!KeysInv, AgentKey!KeyWithOwner
<1> QED
  BY <1>1, <1>2, <1>3, PTL DEF AgentKey!Spec

-----------------------------------------------------------------------------
(* For any scans, restarts, agents, clients and names: a scan that ended   *)
(* says how and a completed one has its result; agents that start one      *)
(* after another sign with one key, and a tenant's key is with its owner,  *)
(* unless an answer was lost.                                              *)
THEOREM AccessCorrect ==
    ASSUME SecurityScan!ScanAssumption, AgentKey!KeysAssumption
    PROVE  SecurityScan!Spec /\ AgentKey!Spec => []AccessInv
<1> QED
  BY ScansCorrect, KeysCorrect, PTL DEF AccessInv

-----------------------------------------------------------------------------
(* Lanes, replicas and the infrastructure tuner.                           *)
LEMMA CapacityCount ==
    \A S : (Capacity!IsFiniteSet(S) <=> IsFiniteSet(S)) /\ Capacity!Cardinality(S) = Cardinality(S)
BY DEF Capacity!IsFiniteSet, IsFiniteSet, Capacity!Cardinality, Cardinality

LEMMA CapacityMax ==
    ASSUME NEW a \in Int, NEW b \in Int PROVE Capacity!Max({a, b}) = IF a >= b THEN a ELSE b
<1> DEFINE m == IF a >= b THEN a ELSE b
<1>1. m \in {a, b} /\ \A y \in {a, b} : m >= y
  OBVIOUS
<1>2. \A x \in {a, b} : (\A y \in {a, b} : x >= y) => x = m
  OBVIOUS
<1> HIDE DEF m
<1>3. (CHOOSE x \in {a, b} : \A y \in {a, b} : x >= y) = m
  BY <1>1, <1>2
<1> QED
  BY <1>3 DEF Capacity!Max, m

LEMMA CapacityMin ==
    ASSUME NEW a \in Int, NEW b \in Int PROVE Capacity!Min({a, b}) = IF a <= b THEN a ELSE b
<1> DEFINE m == IF a <= b THEN a ELSE b
<1>1. m \in {a, b} /\ \A y \in {a, b} : m <= y
  OBVIOUS
<1>2. \A x \in {a, b} : (\A y \in {a, b} : x <= y) => x = m
  OBVIOUS
<1> HIDE DEF m
<1>3. (CHOOSE x \in {a, b} : \A y \in {a, b} : x <= y) = m
  BY <1>1, <1>2
<1> QED
  BY <1>3 DEF Capacity!Min, m

LaneKept(l) ==
    capWorking[l] <= capInflight[l] + capRepeats /\ capInflight[l] <= CapLimit[l]
      /\ capInflight[l] <= capWorking[l]

CapacityIInv ==
    /\ Capacity!TypeOK /\ Capacity!LanesWithinLimits /\ Capacity!ReplicasWithin
    /\ \A p \in capPolicies : p.dominant \in Capacity!Dominant /\ Capacity!Lines # {}

LEMMA LinesFinite ==
    ASSUME Capacity!CapacityAssumption
    PROVE  IsFiniteSet(Capacity!Lines) /\ \A a : Capacity!Count(a) \in Nat
<1>1. IsFiniteSet(CapMetrics \X (1..CapMaxLines))
  <2>1. IsFiniteSet(CapMetrics) /\ CapMaxLines \in Int
    BY CapacityCount DEF Capacity!CapacityAssumption
  <2>2. IsFiniteSet(1..CapMaxLines)
    BY <2>1, FS_Interval
  <2> QED
    BY <2>1, <2>2, FS_Product
<1>2. IsFiniteSet(Capacity!Lines)
  BY <1>1, FS_Subset DEF Capacity!Lines
<1>3. ASSUME NEW a PROVE Capacity!Count(a) \in Nat
  <2> DEFINE S == {n \in Capacity!Lines : Capacity!ChooseAction(n[1]) = a}
  <2>1. S \in SUBSET Capacity!Lines
    OBVIOUS
  <2>2. Capacity!Count(a) = Cardinality(S)
    BY CapacityCount DEF Capacity!Count
  <2> QED
    BY <1>2, <2>1, <2>2, FS_Subset, FS_CardinalityType
<1> QED
  BY <1>2, <1>3

(* Where there is a line, the dominant action is one a line called for.    *)
LEMMA DominantCalledFor ==
    ASSUME Capacity!CapacityAssumption, Capacity!Lines # {}, NEW a \in Capacity!Dominant
    PROVE  Capacity!Count(a) > 0
<1>1. PICK n \in Capacity!Lines : TRUE
  OBVIOUS
<1> DEFINE b == Capacity!ChooseAction(n[1])
           S == {o \in Capacity!Lines : Capacity!ChooseAction(o[1]) = b}
<1>2. b \in Capacity!Actions
  BY DEF Capacity!ChooseAction, Capacity!Actions
<1>3. n \in S /\ S \in SUBSET Capacity!Lines
  OBVIOUS
<1>4. Capacity!Count(b) = Cardinality(S)
  BY CapacityCount DEF Capacity!Count
<1> HIDE DEF b, S
<1>5. IsFiniteSet(S) /\ S # {}
  BY <1>3, LinesFinite, FS_Subset
<1>6. Cardinality(S) # 0 /\ Cardinality(S) \in Nat
  BY <1>5, FS_EmptySet, FS_CardinalityType
<1>7. Capacity!Count(b) <= Capacity!Count(a)
  BY <1>2 DEF Capacity!Dominant
<1> QED
  BY <1>4, <1>6, <1>7, LinesFinite

LEMMA CapacityImply ==
    ASSUME Capacity!CapacityAssumption, CapacityIInv PROVE Capacity!CapacityInv
<1>1. ASSUME NEW p \in capPolicies, NEW q \in capPolicies
      PROVE  Capacity!Count(p.dominant) = Capacity!Count(q.dominant)
  <2>1. p.dominant \in Capacity!Dominant /\ q.dominant \in Capacity!Dominant
    BY DEF CapacityIInv
  <2>2. /\ Capacity!Count(p.dominant) <= Capacity!Count(q.dominant)
        /\ Capacity!Count(q.dominant) <= Capacity!Count(p.dominant)
    BY <2>1 DEF Capacity!Dominant
  <2> QED
    BY <2>2, LinesFinite
<1>2. \A p \in capPolicies : Capacity!Count(p.dominant) > 0
  BY DominantCalledFor DEF CapacityIInv
<1>3. Capacity!PolicyDetermined
  BY <1>1, <1>2 DEF Capacity!PolicyDetermined
<1> QED
  BY <1>3 DEF CapacityIInv, Capacity!CapacityInv

LEMMA CapacityInit ==
    ASSUME Capacity!CapacityAssumption PROVE Capacity!Init => CapacityIInv
<1> SUFFICES ASSUME Capacity!Init PROVE CapacityIInv
  OBVIOUS
<1>1. Capacity!TypeOK
  BY DEF Capacity!Init, Capacity!TypeOK, Capacity!CapacityAssumption
<1>2. Capacity!LanesWithinLimits /\ Capacity!ReplicasWithin
  BY DEF Capacity!Init, Capacity!LanesWithinLimits, Capacity!ReplicasWithin, Capacity!Lanes, Capacity!CapacityAssumption
<1> QED
  BY <1>1, <1>2 DEF Capacity!Init, CapacityIInv

(* Work is admitted or ends, or is reported as ended once too often.       *)
LEMMA LaneStep ==
    ASSUME Capacity!CapacityAssumption, CapacityIInv, NEW l \in Capacity!Lanes,
           Capacity!Admit(l) \/ Capacity!Complete(l) \/ Capacity!CompleteAgain(l)
    PROVE  CapacityIInv'
<1>0. /\ capInflight \in [Capacity!Lanes -> Nat] /\ capWorking \in [Capacity!Lanes -> Nat]
      /\ capRepeats \in 0..CapMaxRepeats /\ CapMaxRepeats \in Nat
      /\ \A k \in Capacity!Lanes : LaneKept(k) /\ CapLimit[k] \in Nat
  BY DEF CapacityIInv, Capacity!TypeOK, Capacity!LanesWithinLimits, LaneKept, Capacity!CapacityAssumption, Capacity!Lanes
<1>1. UNCHANGED <<capReplicas, capLines, capPolicies>>
  BY DEF Capacity!Admit, Capacity!Complete, Capacity!CompleteAgain
<1>2. Capacity!Max({0, capInflight[l] - 1}) = IF capInflight[l] = 0 THEN 0 ELSE capInflight[l] - 1
  BY <1>0, CapacityMax
<1>3. \E i, w \in Nat : /\ capInflight' = [capInflight EXCEPT ![l] = i] /\ capWorking' = [capWorking EXCEPT ![l] = w]
                        /\ capRepeats' \in 0..CapMaxRepeats /\ capRepeats' >= capRepeats
                        /\ w <= i + capRepeats' /\ i <= CapLimit[l] /\ i <= w
  <2>1. CASE Capacity!Admit(l)
    <3>1. capInflight' = [capInflight EXCEPT ![l] = capInflight[l] + 1]
            /\ capWorking' = [capWorking EXCEPT ![l] = capWorking[l] + 1]
          /\ capInflight[l] < CapLimit[l] /\ capRepeats' = capRepeats
      BY <2>1 DEF Capacity!Admit
    <3>2. LaneKept(l)
      BY <1>0
    <3>3. capInflight[l] + 1 \in Nat /\ capWorking[l] + 1 \in Nat
      BY <1>0
    <3>4. /\ capWorking[l] + 1 <= (capInflight[l] + 1) + capRepeats /\ capInflight[l] + 1 <= CapLimit[l]
          /\ capInflight[l] + 1 <= capWorking[l] + 1 /\ capRepeats >= capRepeats
      BY <1>0, <3>1, <3>2 DEF LaneKept
    <3> QED
      BY <1>0, <3>1, <3>3, <3>4
  <2>2. CASE Capacity!Complete(l)
    <3> DEFINE i == IF capInflight[l] = 0 THEN 0 ELSE capInflight[l] - 1
    <3>1. capInflight' = [capInflight EXCEPT ![l] = i]
            /\ capWorking' = [capWorking EXCEPT ![l] = capWorking[l] - 1]
          /\ capWorking[l] > 0 /\ capRepeats' = capRepeats
      BY <1>2, <2>2 DEF Capacity!Complete, Capacity!Released
    <3>2. i \in Nat /\ i <= capInflight[l] /\ (capInflight[l] > 0 => i = capInflight[l] - 1) /\ (capInflight[l] = 0 => i = 0)
      BY <1>0
    <3> HIDE DEF i
    <3>3. capWorking[l] - 1 \in Nat /\ LaneKept(l)
      BY <1>0, <3>1
    <3>4. capWorking[l] - 1 <= i + capRepeats' /\ i <= CapLimit[l] /\ i <= capWorking[l] - 1
      BY <1>0, <3>1, <3>2, <3>3 DEF LaneKept
    <3>5. capRepeats' \in 0..CapMaxRepeats /\ capRepeats' >= capRepeats
      BY <1>0, <3>1
    <3> QED
      BY <3>1, <3>2, <3>3, <3>4, <3>5
  <2>3. CASE Capacity!CompleteAgain(l)
    <3> DEFINE i == IF capInflight[l] = 0 THEN 0 ELSE capInflight[l] - 1
    <3>1. capInflight' = [capInflight EXCEPT ![l] = i] /\ capWorking' = capWorking
          /\ capRepeats < CapMaxRepeats /\ capRepeats' = capRepeats + 1
      BY <1>2, <2>3 DEF Capacity!CompleteAgain, Capacity!Released
    <3>2. i \in Nat /\ i <= capInflight[l] /\ i + 1 >= capInflight[l]
      BY <1>0
    <3> HIDE DEF i
    <3>3. capWorking[l] \in Nat /\ LaneKept(l) /\ capWorking' = [capWorking EXCEPT ![l] = capWorking[l]]
      BY <1>0, <3>1
    <3>4. capWorking[l] <= i + capRepeats' /\ i <= CapLimit[l] /\ i <= capWorking[l]
      BY <1>0, <3>1, <3>2, <3>3 DEF LaneKept
    <3>5. capRepeats' \in 0..CapMaxRepeats /\ capRepeats' >= capRepeats
      BY <1>0, <3>1
    <3> QED
      BY <3>1, <3>2, <3>3, <3>4, <3>5
  <2> QED
    BY <2>1, <2>2, <2>3
<1>4. /\ capInflight' \in [Capacity!Lanes -> Nat] /\ capWorking' \in [Capacity!Lanes -> Nat]
      /\ \A k \in Capacity!Lanes : LaneKept(k)'
  <2>1. PICK i, w \in Nat : /\ capInflight' = [capInflight EXCEPT ![l] = i] /\ capWorking' = [capWorking EXCEPT ![l] = w]
                            /\ w <= i + capRepeats' /\ i <= CapLimit[l] /\ i <= w
    BY <1>3
  <2>2. capInflight' \in [Capacity!Lanes -> Nat] /\ capWorking' \in [Capacity!Lanes -> Nat]
    BY <1>0, <2>1
  <2>3. ASSUME NEW k \in Capacity!Lanes PROVE LaneKept(k)'
    <3>1. CASE k = l
      BY <1>0, <2>1, <3>1 DEF LaneKept
    <3>2. CASE k # l
      <4>1. capInflight'[k] = capInflight[k] /\ capWorking'[k] = capWorking[k]
        BY <1>0, <2>1, <3>2
      <4> QED
        <5>1. /\ capWorking[k] \in Nat /\ capInflight[k] \in Nat /\ capRepeats \in Nat
              /\ capRepeats' \in Nat
              /\ capRepeats' >= capRepeats
          BY <1>0, <1>3
        <5>2. capWorking[k] <= capInflight[k] + capRepeats'
          BY <1>0, <5>1 DEF LaneKept
        <5> QED
          BY <1>0, <4>1, <5>2 DEF LaneKept
    <3> QED
      BY <3>1, <3>2
  <2> QED
    BY <2>2, <2>3
<1>5. Capacity!LanesWithinLimits'
  BY <1>4 DEF Capacity!LanesWithinLimits, LaneKept
<1>6. Capacity!TypeOK'
  BY <1>1, <1>3, <1>4 DEF CapacityIInv, Capacity!TypeOK
<1>7. Capacity!Lines' = Capacity!Lines /\ Capacity!Dominant' = Capacity!Dominant
  BY <1>1 DEF Capacity!Lines, Capacity!Dominant, Capacity!Count
<1> QED
  BY <1>1, <1>5, <1>6, <1>7 DEF CapacityIInv, Capacity!ReplicasWithin

LEMMA FollowStep ==
    ASSUME Capacity!CapacityAssumption, CapacityIInv, Capacity!Follow PROVE CapacityIInv'
<1>0. capReplicas \in Int /\ CapMinReplicas <= capReplicas /\ capReplicas <= CapMaxReplicas
      /\ CapMinReplicas \in Nat /\ CapMaxReplicas \in Nat
  BY DEF CapacityIInv, Capacity!ReplicasWithin, Capacity!CapacityAssumption
<1>1. UNCHANGED <<capInflight, capWorking, capRepeats, capLines, capPolicies>>
  BY DEF Capacity!Follow, Capacity!admissionVars
<1>2. PICK backlog, empty \in BOOLEAN, load \in {"low", "middle", "high"} : capReplicas' = Capacity!Recommended(backlog, load, empty)
  BY DEF Capacity!Follow
<1>3. /\ Capacity!Min({CapMaxReplicas, capReplicas + 2}) \in CapMinReplicas..CapMaxReplicas
      /\ Capacity!Min({CapMaxReplicas, capReplicas + 1}) \in CapMinReplicas..CapMaxReplicas
      /\ Capacity!Max({CapMinReplicas, capReplicas - 1}) \in CapMinReplicas..CapMaxReplicas
  BY <1>0, CapacityMax, CapacityMin
<1>4. capReplicas' \in CapMinReplicas..CapMaxReplicas
  BY <1>0, <1>2, <1>3 DEF Capacity!Recommended
<1>5. Capacity!TypeOK'
  BY <1>0, <1>1, <1>4 DEF CapacityIInv, Capacity!TypeOK
<1>6. Capacity!Lines' = Capacity!Lines /\ Capacity!Dominant' = Capacity!Dominant
  BY <1>1 DEF Capacity!Lines, Capacity!Dominant, Capacity!Count
<1> QED
  BY <1>1, <1>4, <1>5, <1>6 DEF CapacityIInv, Capacity!ReplicasWithin, Capacity!LanesWithinLimits

(* There is room for a line while fewer than the bound were recorded.      *)
LEMMA RoomForLine ==
    ASSUME Capacity!CapacityAssumption, Capacity!TypeOK, NEW m \in CapMetrics,
           Capacity!Cardinality(Capacity!Lines) < CapMaxLines
    PROVE  capLines[m] + 1 \in 0..CapMaxLines
<1>0. capLines[m] \in 0..CapMaxLines /\ CapMaxLines \in Nat
  BY DEF Capacity!TypeOK, Capacity!CapacityAssumption
<1> SUFFICES ASSUME capLines[m] = CapMaxLines PROVE FALSE
  BY <1>0
<1>1. {m} \X (1..CapMaxLines) \in SUBSET Capacity!Lines
  <2>1. \A n \in {m} \X (1..CapMaxLines) : n \in CapMetrics \X (1..CapMaxLines) /\ n[2] <= capLines[n[1]]
    BY <1>0
  <2> QED
    BY <2>1 DEF Capacity!Lines
<1>2. Cardinality({m}) = 1 /\ IsFiniteSet({m})
  BY FS_Singleton
<1>3. Cardinality(1..CapMaxLines) = CapMaxLines /\ IsFiniteSet(1..CapMaxLines)
  BY <1>0, FS_Interval
<1>4. Cardinality({m} \X (1..CapMaxLines)) = CapMaxLines
  <2>1. Cardinality({m} \X (1..CapMaxLines)) = Cardinality({m}) * Cardinality(1..CapMaxLines)
    BY <1>2, <1>3, FS_Product
  <2>2. 1 * CapMaxLines = CapMaxLines
    BY <1>0
  <2> QED
    BY <1>2, <1>3, <2>1, <2>2
<1>5. Cardinality({m} \X (1..CapMaxLines)) <= Cardinality(Capacity!Lines)
        /\ Cardinality(Capacity!Lines) \in Nat
  BY <1>1, LinesFinite, FS_Subset, FS_CardinalityType
<1> QED
  BY <1>0, <1>4, <1>5, CapacityCount

LEMMA TunerStep ==
    ASSUME Capacity!CapacityAssumption, CapacityIInv,
           Capacity!Train \/ \E m \in CapMetrics : Capacity!Measure(m)
    PROVE  CapacityIInv'
<1>0. Capacity!TypeOK
  BY DEF CapacityIInv
<1>1. UNCHANGED <<capInflight, capWorking, capRepeats, capReplicas>>
  BY DEF Capacity!Train, Capacity!Measure, Capacity!admissionVars
<1>2. Capacity!LanesWithinLimits' /\ Capacity!ReplicasWithin'
  BY <1>1 DEF CapacityIInv, Capacity!LanesWithinLimits, Capacity!ReplicasWithin
<1>3. CASE Capacity!Train
  <2>1. PICK a \in Capacity!Dominant : capPolicies' = capPolicies \cup {Capacity!Policy(a)}
    BY <1>3 DEF Capacity!Train
  <2>2. capLines' = capLines /\ Capacity!Lines # {}
    BY <1>3 DEF Capacity!Train
  <2>3. /\ Capacity!Policy(a).dominant = a /\ Capacity!Policy(a).timeout \in {5, 10}
        /\ Capacity!Policy(a).retries \in {6, 10}
        /\ Capacity!Policy(a).max \in {8, 12}
    BY DEF Capacity!Policy
  <2>4. a \in Capacity!Actions
    BY DEF Capacity!Dominant
  <2>5. Capacity!TypeOK'
    BY <1>0, <1>1, <2>1, <2>2, <2>3, <2>4 DEF Capacity!TypeOK
  <2>6. Capacity!Lines' = Capacity!Lines /\ Capacity!Dominant' = Capacity!Dominant
    BY <2>2 DEF Capacity!Lines, Capacity!Dominant, Capacity!Count
  <2>7. \A p \in capPolicies' : p.dominant \in Capacity!Dominant
    BY <2>1, <2>3 DEF CapacityIInv
  <2> QED
    BY <1>2, <2>2, <2>5, <2>6, <2>7 DEF CapacityIInv
<1>4. ASSUME NEW m \in CapMetrics, Capacity!Measure(m) PROVE CapacityIInv'
  <2>1. capLines' = [capLines EXCEPT ![m] = capLines[m] + 1] /\ capPolicies' = {}
        /\ Capacity!Cardinality(Capacity!Lines) < CapMaxLines
    BY <1>4 DEF Capacity!Measure
  <2>2. capLines[m] + 1 \in 0..CapMaxLines
    BY <1>0, <2>1, RoomForLine
  <2>3. Capacity!TypeOK'
    BY <1>0, <1>1, <2>1, <2>2 DEF Capacity!TypeOK
  <2> QED
    BY <1>2, <2>1, <2>3 DEF CapacityIInv
<1> QED
  BY <1>3, <1>4

(* Lanes keep their limits, replicas their bounds, and a tuning policy     *)
(* follows from its metrics unless actions tie (performance.py of          *)
(* enterprise_maturity and rl-trainer's infrastructure tuner).             *)
THEOREM CapacityKept ==
    ASSUME Capacity!CapacityAssumption PROVE Capacity!Spec => []Capacity!CapacityInv
<1>1. Capacity!Init => CapacityIInv
  BY CapacityInit
<1>2. CapacityIInv /\ [Capacity!Next]_Capacity!vars => CapacityIInv'
  <2> SUFFICES ASSUME CapacityIInv, [Capacity!Next]_Capacity!vars PROVE CapacityIInv'
    OBVIOUS
  <2>1. ASSUME UNCHANGED Capacity!vars PROVE CapacityIInv'
    <3>1. UNCHANGED <<capInflight, capWorking, capRepeats, capReplicas, capLines, capPolicies>>
      BY <2>1 DEF Capacity!vars, Capacity!admissionVars
    <3>2. Capacity!Lines' = Capacity!Lines /\ Capacity!Dominant' = Capacity!Dominant
      BY <3>1 DEF Capacity!Lines, Capacity!Dominant, Capacity!Count
    <3>3. Capacity!TypeOK'
      BY <3>1 DEF CapacityIInv, Capacity!TypeOK
    <3>4. Capacity!LanesWithinLimits' /\ Capacity!ReplicasWithin'
      BY <3>1 DEF CapacityIInv, Capacity!LanesWithinLimits, Capacity!ReplicasWithin
    <3> QED
      BY <3>1, <3>2, <3>3, <3>4 DEF CapacityIInv
  <2> QED
    BY <2>1, LaneStep, FollowStep, TunerStep DEF Capacity!Next
<1>3. CapacityIInv => Capacity!CapacityInv
  BY CapacityImply
<1> QED
  BY <1>1, <1>2, <1>3, PTL DEF Capacity!Spec

-----------------------------------------------------------------------------
(* For any campaigns, lanes, replicas and metrics: a campaign is scaled    *)
(* only on a ratio it reached at both reads, lanes and replicas keep their *)
(* limits, and a tuning policy follows from its metrics unless actions tie.*)
THEOREM DecisionsCorrect ==
    ASSUME Profit!ProfitAssumption, Capacity!CapacityAssumption
    PROVE  Profit!Spec /\ Capacity!Spec => []ControlsInv
<1> QED
  BY ScalingDeserved, CapacityKept, PTL DEF ControlsInv
=============================================================================

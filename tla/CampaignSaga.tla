---------------------------- MODULE CampaignSaga ----------------------------
(***************************************************************************)
(* The requests of master-orchestrator that call the other services one    *)
(* after the other, with nothing undone when a later call fails:           *)
(*   cycle     /run-cycle: features, decision, budget, bid, scaling        *)
(*   campaign  /campaign/run: a cycle, then predict and publish            *)
(*   profit    /profit-mode/activate: the budget is stored, a cycle,       *)
(*             predict, publish, and then the checkout is created          *)
(*   economy   /economy/run: products, then a cycle and a charge for each  *)
(*   global    /federation/run: features, decision, capital, assignment    *)
(* Their effects are on the engines called: the token bucket of            *)
(* execution-engine, the bandit and the market weights of                  *)
(* budget-allocator, the capital of capital-allocator and the weights of   *)
(* rtb-engine.  The bandit and the weights of rtb-engine are read and      *)
(* replaced without a lock by handlers that run on several threads.        *)
(***************************************************************************)
EXTENDS Integers, FiniteSets, Sequences, FiniteSetsExt

CONSTANTS
    Requests,
    Campaigns,
    NumMarkets,     \* SUPPORTED_MARKETS, for each of which economy launches
    InitTokens,     \* RATE_TOKENS
    MaxTokens,      \* RATE_MAX_TOKENS
    MaxTime,        \* bound: half seconds that pass
    Activations,    \* the requests sent to /profit-mode/activate; the others go elsewhere
    MaxSends,       \* bound: requests sent, retries included
    MaxDirect       \* bound: requests to the engines from other clients

Kinds == {"cycle", "campaign", "profit", "economy", "global"}
Arms == 0..2
Engines == {"capital", "hrl"}

ASSUME SagaAssumption ==
    /\ NumMarkets \in Nat /\ MaxTokens \in Nat /\ InitTokens \in 0..MaxTokens
    /\ Activations \subseteq Requests
    /\ MaxTime \in Nat /\ MaxSends \in Nat /\ MaxDirect \in Nat

VARIABLES
    request,        \* of each request: its endpoint, its step, what it read
    tokens, refilled, \* TOKENS and LAST_REFILL of execution-engine
    now,            \* in half seconds
    posts,          \* times each campaign was published
    checkouts,      \* checkouts created for it
    budgeted,       \* campaigns whose budget profit mode has stored
    decisions,      \* decisions emitted, by kind of request
    tries,          \* bandit: times each arm was updated
    updates,        \* updates of the weight of a known market
    learned,        \* updates the state of an engine holds
    \* history
    taken,          \* tokens taken
    engineRestarts,       \* of execution-engine
    sends,          \* requests sent
    direct,         \* requests of other clients
    unknown,        \* ... for a market without a weight
    calls,          \* updates made to each engine
    crowded         \* engines and bandit in which two handlers met

engineVars == <<tries, updates, learned, unknown, calls, crowded>>
bucketVars == <<tokens, refilled, taken>>
effectVars == <<posts, checkouts, budgeted, decisions>>
campaignVars == <<request, now, engineRestarts, sends, direct, engineVars, bucketVars, effectVars>>

-----------------------------------------------------------------------------
(* What each endpoint calls, in order.  "select" and "budget" are the two  *)
(* halves of one call, as are "weigh" and "hrl", a read and its write.     *)
Cycle == <<"features", "decide", "select", "budget", "weigh", "hrl", "scale">>

ActivateCheckoutFirst == <<"store">> \o Cycle \o <<"predict", "checkout", "token", "publish", "emit">> \* variant

Activate == <<"store">> \o Cycle \o <<"predict", "token", "publish", "checkout", "emit">>

RunCampaign == Cycle \o <<"predict", "token", "publish", "emit">>

(* The launch, and then in turn for each market its cycle and its charge.  *)
CycleAndCharge == Cycle \o <<"charge">>

RunEconomy ==
    [i \in 1..(1 + 8 * NumMarkets) |-> IF i = 1 THEN "launch" ELSE CycleAndCharge[((i - 2) % 8) + 1]]

RunGlobalTask == <<"features", "decide", "capital", "assign">>

Steps ==
    [cycle |-> Cycle, campaign |-> RunCampaign, profit |-> Activate,
     economy |-> RunEconomy, global |-> RunGlobalTask]

IdleRequest(k, c) == [status |-> "idle", kind |-> k, campaign |-> c, step |-> 0, read |-> 0]

At(r, step) == request[r].status = "running" /\ Steps[request[r].kind][request[r].step] = step

CampaignTypeOK ==
    /\ \A r \in Requests :
         request[r] \in [status : {"idle", "running", "done", "failed"}, kind : Kinds, campaign : Campaigns,
                         step : 0..Len(Steps[request[r].kind]), read : Nat]
    /\ tokens \in 0..MaxTokens /\ now \in 0..MaxTime /\ refilled \in 0..now
    /\ posts \in [Campaigns -> Nat] /\ checkouts \in [Campaigns -> Nat]
    /\ budgeted \subseteq Campaigns /\ decisions \in [{"campaign", "profit"} -> Nat]
    /\ tries \in [Arms -> Nat] /\ updates \in Nat /\ unknown \in Nat
    /\ learned \in [Engines -> Nat] /\ calls \in [Engines -> Nat]
    /\ crowded \subseteq Engines \cup {"bandit"}
    /\ taken \in Nat /\ engineRestarts \in 0..1 /\ direct \in 0..MaxDirect
    /\ sends \in 0..MaxSends

CampaignInit ==
    /\ request \in [Requests -> {IdleRequest(k, c) : k \in Kinds, c \in Campaigns}]
    /\ \A r \in Requests : request[r].kind = "profit" <=> r \in Activations
    /\ tokens = InitTokens /\ refilled = 0 /\ now = 0
    /\ posts = [c \in Campaigns |-> 0] /\ checkouts = [c \in Campaigns |-> 0]
    /\ budgeted = {} /\ decisions = [k \in {"campaign", "profit"} |-> 0]
    /\ tries = [a \in Arms |-> 0] /\ updates = 0 /\ unknown = 0
    /\ learned = [e \in Engines |-> 0] /\ calls = [e \in Engines |-> 0]
    /\ crowded = {} /\ taken = 0 /\ engineRestarts = 0 /\ direct = 0 /\ sends = 0

(* A client sends its request, or sends it again after a 429 or a 502.     *)
Send(r) ==
    /\ request[r].status \in {"idle", "failed"} /\ sends < MaxSends
    /\ request' = [request EXCEPT ![r].status = "running", ![r].step = 1]
    /\ sends' = sends + 1
    /\ UNCHANGED <<now, engineRestarts, direct, engineVars, bucketVars, effectVars>>

Advance(r, read) ==
    request' = [request EXCEPT ![r].read = read,
                  ![r].step = IF @ = Len(Steps[request[r].kind]) THEN 0 ELSE @ + 1,
                  ![r].status = IF request[r].step = Len(Steps[request[r].kind]) THEN "done" ELSE @]

Abort(r) == request' = [request EXCEPT ![r].status = "failed", ![r].step = 0, ![r].read = 0]

(* safe_call: the answer arrives, or an error or a timeout in its place.   *)
Answered(r) == Advance(r, 0) \/ Abort(r)

(* Calls that change nothing here: a failure of the first half of a call,  *)
(* of a call that only reads or computes, or of a connection.              *)
AskAgain(r, s) == \* variant: a call that fails is made again, without a limit
    /\ At(r, s)
    /\ Advance(r, 0) \/ request' = [request EXCEPT ![r].read = 1 - @]
    /\ UNCHANGED <<now, engineRestarts, sends, direct, engineVars, bucketVars, effectVars>>

Ask(r, s) ==
    /\ At(r, s)
    /\ Answered(r)
    /\ UNCHANGED <<now, engineRestarts, sends, direct, engineVars, bucketVars, effectVars>>

Scale(r) == Ask(r, "scale")

(* A product for each market, under an id that the niche determines.       *)
Launch(r) == Ask(r, "launch")

Charge(r) == Ask(r, "charge") \* computed, and stored nowhere

Refused(r) ==
    /\ \E s \in {"store", "select", "weigh", "capital", "token", "publish", "checkout"} : At(r, s)
    /\ Abort(r)
    /\ UNCHANGED <<now, engineRestarts, sends, direct, engineVars, bucketVars, effectVars>>

Store(r) ==
    /\ At(r, "store")
    /\ budgeted' = budgeted \cup {request[r].campaign}
    /\ Answered(r)
    /\ UNCHANGED <<now, engineRestarts,
                   sends, direct, engineVars, bucketVars, posts, checkouts, decisions>>

-----------------------------------------------------------------------------
(* budget-allocator.  An arm never updated has a bonus no other can reach, *)
(* except that all scores are 0 before the first update; ties go to the    *)
(* first arm.  Between tried arms the rewards decide.                      *)
UntriedFrom == {a \in Arms : tries[a] = 0}

Preferred == IF UntriedFrom = {} THEN Arms ELSE {a \in UntriedFrom : \A b \in UntriedFrom : a <= b}

SelectArm(r) ==
    /\ At(r, "select")
    /\ \E a \in Preferred : Advance(r, a)
    /\ crowded' = crowded \cup {x \in {"bandit"} : \E q \in Requests : At(q, "budget")}
    /\ UNCHANGED <<now, engineRestarts,
                   sends, direct, tries, updates, learned, unknown, calls, bucketVars, effectVars>>

(* run_cycle names no market, so the weight of the default one is updated. *)
Allocate(r) ==
    /\ At(r, "budget")
    /\ tries' = [tries EXCEPT ![request[r].read] = @ + 1]
    /\ updates' = updates + 1
    /\ Answered(r)
    /\ UNCHANGED <<now, engineRestarts,
                   sends, direct, learned, unknown, calls, crowded, bucketVars, effectVars>>

(* Another client names the market: an unknown one is a KeyError raised    *)
(* after the bandit was updated.                                           *)
AllocateCheckingFirst(known) == \* variant: the market is checked before the bandit is updated
    /\ direct < MaxDirect /\ direct' = direct + 1
    /\ \E a \in Preferred : tries' = IF known THEN [tries EXCEPT ![a] = @ + 1] ELSE tries
    /\ IF known THEN updates' = updates + 1 /\ unknown' = unknown
                ELSE updates' = updates /\ unknown' = unknown + 1
    /\ crowded' = crowded \cup {x \in {"bandit"} : \E q \in Requests : At(q, "budget")}
    /\ UNCHANGED <<request, now, engineRestarts, sends, learned, calls, bucketVars, effectVars>>

AllocateFor(known) ==
    /\ direct < MaxDirect /\ direct' = direct + 1
    /\ \E a \in Preferred : tries' = [tries EXCEPT ![a] = @ + 1]
    /\ IF known THEN updates' = updates + 1 /\ unknown' = unknown
                ELSE updates' = updates /\ unknown' = unknown + 1
    /\ crowded' = crowded \cup {x \in {"bandit"} : \E q \in Requests : At(q, "budget")}
    /\ UNCHANGED <<request, now, engineRestarts, sends, learned, calls, bucketVars, effectVars>>

(* rtb-engine: the lists of weights are read, and later replaced.          *)
Read(r) ==
    /\ At(r, "weigh")
    /\ Advance(r, learned["hrl"])
    /\ crowded' = crowded \cup {e \in {"hrl"} : \E q \in Requests : At(q, e)}
    /\ UNCHANGED <<now, engineRestarts,
                   sends, direct, tries, updates, learned, unknown, calls, bucketVars, effectVars>>

LearnTwice(r) == \* variant: the update is applied once more
    /\ At(r, "hrl")
    /\ learned' = [learned EXCEPT !["hrl"] = request[r].read + 2]
    /\ calls' = [calls EXCEPT !["hrl"] = @ + 1]
    /\ Answered(r)
    /\ UNCHANGED <<now, engineRestarts,
                   sends, direct, tries, updates, unknown, crowded, bucketVars, effectVars>>

Learn(r) ==
    /\ At(r, "hrl")
    /\ learned' = [learned EXCEPT !["hrl"] = request[r].read + 1]
    /\ calls' = [calls EXCEPT !["hrl"] = @ + 1]
    /\ Answered(r)
    /\ UNCHANGED <<now, engineRestarts,
                   sends, direct, tries, updates, unknown, crowded, bucketVars, effectVars>>

(* capital-allocator: one multiplication in place.                         *)
Reinvest(r) ==
    /\ At(r, "capital")
    /\ learned' = [learned EXCEPT !["capital"] = @ + 1]
    /\ calls' = [calls EXCEPT !["capital"] = @ + 1]
    /\ Answered(r)
    /\ UNCHANGED <<now, engineRestarts,
                   sends, direct, tries, updates, unknown, crowded, bucketVars, effectVars>>

-----------------------------------------------------------------------------
(* execution-engine: acquire_token, under its lock.  One token a second.   *)
Refill == (now - refilled) \div 2

Filled == IF Refill > 0 THEN Min({MaxTokens, tokens + Refill}) ELSE tokens

RefilledNever == refilled' = refilled \* variant: LAST_REFILL is not moved

RefilledNow == refilled' = IF Refill > 0 THEN now ELSE refilled

TakeTokenAlways == \* variant: an empty bucket is not told from another
    /\ RefilledNow /\ tokens' = Filled - 1 /\ taken' = taken + 1

TakeToken ==
    /\ RefilledNow
    /\ IF Filled = 0 THEN tokens' = 0 /\ taken' = taken
                     ELSE tokens' = Filled - 1 /\ taken' = taken + 1

AcquireToken(r) ==
    /\ At(r, "token")
    /\ TakeToken
    /\ IF Filled = 0 THEN Abort(r) ELSE Advance(r, 0)
    /\ UNCHANGED <<now, engineRestarts, sends, direct, engineVars, effectVars>>

(* GET /status takes a token as well.                                      *)
Status ==
    /\ direct < MaxDirect /\ direct' = direct + 1
    /\ TakeToken
    /\ UNCHANGED <<request, now, engineRestarts, sends, engineVars, effectVars>>

Publish(r) ==
    /\ At(r, "publish")
    /\ posts' = [posts EXCEPT ![request[r].campaign] = @ + 1]
    /\ Answered(r)
    /\ UNCHANGED <<now, engineRestarts,
                   sends, direct, engineVars, bucketVars, checkouts, budgeted, decisions>>

RestartEngine ==
    /\ engineRestarts = 0 /\ engineRestarts' = 1
    /\ tokens' = InitTokens /\ refilled' = now
    /\ UNCHANGED <<request, now, sends, direct, taken, engineVars, effectVars>>

Tick ==
    /\ now < MaxTime /\ now' = now + 1
    /\ UNCHANGED <<request, engineRestarts, sends, direct, engineVars, bucketVars, effectVars>>

Checkout(r) ==
    /\ At(r, "checkout")
    /\ checkouts' = [checkouts EXCEPT ![request[r].campaign] = @ + 1]
    /\ Answered(r)
    /\ UNCHANGED <<now, engineRestarts,
                   sends, direct, engineVars, bucketVars, posts, budgeted, decisions>>

(* emit_decision: a failure is logged, and the request succeeds anyway.    *)
EmitDecision(r) ==
    /\ At(r, "emit")
    /\ \E n \in 0..1 : decisions' = [decisions EXCEPT ![request[r].kind] = @ + n]
    /\ Advance(r, 0)
    /\ UNCHANGED <<now, engineRestarts,
                   sends, direct, engineVars, bucketVars, posts, checkouts, budgeted>>

RequestStep(r) ==
    \/ \E s \in {"features", "decide", "predict", "assign"} : Ask(r, s)
    \/ Scale(r) \/ Launch(r) \/ Charge(r) \/ Refused(r) \/ Store(r)
    \/ SelectArm(r) \/ Allocate(r) \/ Read(r) \/ Learn(r) \/ Reinvest(r)
    \/ AcquireToken(r) \/ Publish(r) \/ Checkout(r) \/ EmitDecision(r)

CampaignNext ==
    \/ \E r \in Requests : Send(r) \/ RequestStep(r)
    \/ \E known \in BOOLEAN : AllocateFor(known)
    \/ Status \/ RestartEngine \/ Tick

CampaignSpec == CampaignInit /\ [][CampaignNext]_campaignVars

(* Every call has a timeout, so a running request takes its next step.     *)
FairSpec == CampaignSpec /\ \A r \in Requests : WF_campaignVars(RequestStep(r))

-----------------------------------------------------------------------------
(* The sum of f, counted as a set: each x with its numbers up to f[x].     *)
Units(f) == UNION {{x} \X (1..f[x]) : x \in DOMAIN f}
Total(f) == Cardinality(Units(f))

(* Nothing is charged for, or announced, that was not published: a         *)
(* checkout follows a post of its campaign and the stored budget, a        *)
(* decision its post, and a profit decision its checkout, however the      *)
(* requests interleave, fail and are sent again.  The reverse is not true: *)
(* a failing checkout leaves a published campaign.                         *)
PaidWasPublished ==
    /\ \A c \in Campaigns : checkouts[c] <= posts[c] /\ (checkouts[c] > 0 => c \in budgeted)
    /\ decisions["profit"] <= Total(checkouts)
    /\ Total(decisions) <= Total(posts)

(* No more is published than the bucket gave tokens for, and it never      *)
(* gives more than it held, one token for each second passed and its       *)
(* initial contents once more after a restart, though the refill is        *)
(* truncated and the clock of the refill moves to now.                     *)
RateLimited ==
    /\ Total(posts) <= taken
    /\ taken + tokens <= (engineRestarts + 1) * InitTokens + now \div 2

(* While no two handlers met in the bandit, every arm is tried before one  *)
(* is tried again, in order; and the bandit counts one update more than    *)
(* the market weights for each request that named an unknown market.       *)
BanditExplores ==
    /\ Total(tries) = updates + unknown
    /\ "bandit" \notin crowded =>
         \A a, b \in Arms : (tries[b] > 1 \/ (a < b /\ tries[b] = 1)) => tries[a] > 0

(* The capital and the weights hold every update made to them, and lose    *)
(* updates only where two handlers met between reading and writing.        *)
LossNeedsMeeting ==
    \A e \in Engines :
      /\ learned[e] <= calls[e]
      /\ e \notin crowded => learned[e] = calls[e]

(* What is published, paid, counted and learned keeps in step.             *)
CampaignInv == CampaignTypeOK /\ PaidWasPublished /\ RateLimited /\ BanditExplores /\ LossNeedsMeeting

(* A request is answered, whatever fails: with a 200, a 429 or a 502.      *)
RequestsEnd == \A r \in Requests : request[r].status = "running" ~> request[r].status # "running"
=============================================================================

--------------------------- MODULE PaymentGateway ---------------------------
(***************************************************************************)
(* The checkout side of services/payment: main.py checkout, the retrying   *)
(* client adapter.py send, and the process-wide circuit breaker of         *)
(* circuit.py, whose globals no lock protects.  checkout is a plain        *)
(* function, so requests run in threads, and each read and each write of a *)
(* global is a step of its own.  The provider is external.                 *)
(***************************************************************************)
EXTENDS Naturals, FiniteSets

CONSTANTS
    Checkouts,      \* the /checkout requests that reach send
    Retries,        \* attempts per send
    MaxFailures,    \* circuit.MAX_FAILURES
    ResetAfter,     \* circuit.RESET_AFTER_SECONDS, in ticks
    MaxTime         \* bound: ticks of the clock

ASSUME GatewayAssumption ==
    /\ IsFiniteSet(Checkouts)
    /\ Retries \in Nat \ {0} /\ MaxFailures \in Nat \ {0}
    /\ ResetAfter \in Nat /\ MaxTime \in Nat

VARIABLES
    fails,          \* FAILS
    open,           \* OPEN
    lastFail,       \* LAST_FAIL
    now,            \* time.time()
    calls,          \* each request: where it is, the time and the FAILS it read, attempts made, answers it took
    answers,        \* what each request was answered
    charges,        \* provider: charges made for each request
    unseen,         \* provider: ... of which send did not take the answer
    failures,       \* history: calls of fail() that counted
    crossed         \* history: a success() or fail() ran across another, and no success() ended alone since

circuitVars == <<fails, open, lastFail>>
providerVars == <<charges, unseen>>
historyVars == <<failures, crossed>>
vars == <<circuitVars, now, calls, answers, providerVars, historyVars>>

(* Where a request is in circuit.py: in allow(), in success() or fail().   *)
Asking == {"asked", "cooling", "testing", "closing"}
Changing == {"resetting", "clearing", "failing", "counting", "timing", "stamping", "tripping", "opening"}

Call == [pc : {"new", "posting", "sleeping", "done"} \cup Asking \cup Changing,
         seen : 0..MaxTime, held : Nat, attempts : 0..Retries, taken : 0..1]

TypeOK ==
    /\ fails \in Nat /\ open \in BOOLEAN /\ lastFail \in 0..MaxTime /\ now \in 0..MaxTime
    /\ calls \in [Checkouts -> Call]
    /\ answers \in [Checkouts -> {"none", "success", "failed", "circuit_open"}]
    /\ charges \in [Checkouts -> 0..Retries] /\ unseen \in [Checkouts -> 0..Retries]
    /\ failures \in Nat /\ crossed \in BOOLEAN

(* The clock is past any cooldown when the process starts: LAST_FAIL is 0  *)
(* in epoch seconds, and OPEN is False anyway.                             *)
Init ==
    /\ fails = 0 /\ open = FALSE /\ lastFail = 0 /\ now = 0
    /\ calls = [c \in Checkouts |-> [pc |-> "new", seen |-> 0, held |-> 0, attempts |-> 0, taken |-> 0]]
    /\ answers = [c \in Checkouts |-> "none"]
    /\ charges = [c \in Checkouts |-> 0] /\ unseen = [c \in Checkouts |-> 0]
    /\ failures = 0 /\ crossed = FALSE

Moves(c, from, to) == calls[c].pc = from /\ calls' = [calls EXCEPT ![c].pc = to]

Answered(c, from, status) == Moves(c, from, "done") /\ answers' = [answers EXCEPT ![c] = status]

Cooling(t) == t < lastFail + ResetAfter

-----------------------------------------------------------------------------
(* allow(): the time is read first, then OPEN, and LAST_FAIL only if it is *)
(* set; then OPEN once more.                                               *)
Ask(c) ==
    /\ calls[c].pc = "new"
    /\ calls' = [calls EXCEPT ![c].pc = "asked", ![c].seen = now]
    /\ UNCHANGED <<circuitVars, now, answers, providerVars, historyVars>>

ReadOpen(c) ==
    /\ Moves(c, "asked", IF open THEN "cooling" ELSE "testing")
    /\ UNCHANGED <<circuitVars, now, answers, providerVars, historyVars>>

(* The circuit was open and cools down: send returns circuit_open.         *)
Shed(c) ==
    /\ Cooling(calls[c].seen)
    /\ Answered(c, "cooling", "circuit_open")
    /\ UNCHANGED <<circuitVars, now, providerVars, historyVars>>

CooledDown(c) ==
    /\ ~Cooling(calls[c].seen)
    /\ Moves(c, "cooling", "testing")
    /\ UNCHANGED <<circuitVars, now, answers, providerVars, historyVars>>

TestOpen(c) ==
    /\ Moves(c, "testing", IF open THEN "closing" ELSE "posting")
    /\ UNCHANGED <<circuitVars, now, answers, providerVars, historyVars>>

Close(c) ==
    /\ Moves(c, "closing", "posting") /\ open' = FALSE
    /\ UNCHANGED <<fails, lastFail, now, answers, providerVars, historyVars>>

-----------------------------------------------------------------------------
(* One requests.post of send's loop, up to the call of success() or fail().*)
Charged(c) == charges' = [charges EXCEPT ![c] = @ + 1]
Unseen(c) == unseen' = [unseen EXCEPT ![c] = @ + 1]
Meets(c) == \E d \in Checkouts \ {c} : calls[d].pc \in Changing
Crosses(c) == crossed' = (crossed \/ Meets(c))

(* 200 and JSON.                                                           *)
PostSucceeds(c) ==
    /\ Charged(c) /\ Crosses(c) /\ calls[c].pc = "posting"
    /\ calls' = [calls EXCEPT ![c].pc = "resetting", ![c].taken = 1]
    /\ UNCHANGED <<circuitVars, now, answers, unseen, failures>>

(* 200 with a body that is not JSON: success() is called, and then         *)
(* response.json() raises a RequestException inside the try, so fail() is  *)
(* called too and the loop goes on.                                        *)
PostUnreadable(c) ==
    /\ Charged(c) /\ Unseen(c) /\ Crosses(c)
    /\ Moves(c, "posting", "resetting")
    /\ UNCHANGED <<circuitVars, now, answers, failures>>

(* Another status, or no connection.                                       *)
PostRefused(c) ==
    /\ Crosses(c) /\ Moves(c, "posting", "failing")
    /\ UNCHANGED <<circuitVars, now, answers, providerVars, failures>>

(* The provider charged and its answer was late, lost or not a 200.        *)
PostUnanswered(c) ==
    /\ Charged(c) /\ Unseen(c) /\ Crosses(c)
    /\ Moves(c, "posting", "failing")
    /\ UNCHANGED <<circuitVars, now, answers, failures>>

-----------------------------------------------------------------------------
(* success(): FAILS = 0, OPEN = False; then the answer, or fail().         *)
Reset(c) ==
    /\ Moves(c, "resetting", "clearing") /\ fails' = 0
    /\ UNCHANGED <<open, lastFail, now, answers, providerVars, historyVars>>

ClearNothing(c) == \* variant: OPEN is left as it is
    /\ \/ calls[c].taken = 1 /\ Answered(c, "clearing", "success")
       \/ calls[c].taken = 0 /\ Moves(c, "clearing", "failing") /\ UNCHANGED answers
    /\ crossed' = (crossed /\ Meets(c))
    /\ UNCHANGED <<circuitVars, now, providerVars, failures>>

ClearAndGoOn(c) == \* variant: the answer is not returned from the loop
    /\ open' = FALSE /\ Moves(c, "clearing", IF calls[c].taken = 1 THEN "sleeping" ELSE "failing")
    /\ crossed' = (crossed /\ Meets(c))
    /\ UNCHANGED <<fails, lastFail, now, answers, providerVars, failures>>

Clear(c) ==
    /\ open' = FALSE
    /\ \/ calls[c].taken = 1 /\ Answered(c, "clearing", "success")
       \/ calls[c].taken = 0 /\ Moves(c, "clearing", "failing") /\ UNCHANGED answers
    /\ crossed' = (crossed /\ Meets(c))
    /\ UNCHANGED <<fails, lastFail, now, providerVars, failures>>

(* fail(): FAILS is read and written, the time read and LAST_FAIL written, *)
(* FAILS read once more and OPEN set.                                      *)
ReadFails(c) ==
    /\ calls[c].pc = "failing"
    /\ calls' = [calls EXCEPT ![c].pc = "counting", ![c].held = fails]
    /\ UNCHANGED <<circuitVars, now, answers, providerVars, historyVars>>

CountTwice(c) == \* variant: both branches of the loop count the failure
    /\ Moves(c, "counting", "timing")
    /\ fails' = calls[c].held + 2 /\ failures' = failures + 1
    /\ UNCHANGED <<open, lastFail, now, answers, providerVars, crossed>>

Count(c) ==
    /\ Moves(c, "counting", "timing")
    /\ fails' = calls[c].held + 1 /\ failures' = failures + 1
    /\ UNCHANGED <<open, lastFail, now, answers, providerVars, crossed>>

ReadTime(c) ==
    /\ calls[c].pc = "timing"
    /\ calls' = [calls EXCEPT ![c].pc = "stamping", ![c].seen = now]
    /\ UNCHANGED <<circuitVars, now, answers, providerVars, historyVars>>

Stamp(c) ==
    /\ Moves(c, "stamping", "tripping") /\ lastFail' = calls[c].seen
    /\ UNCHANGED <<fails, open, now, answers, providerVars, historyVars>>

TripEarly(c) == \* variant: off by one
    /\ Moves(c, "tripping", IF fails + 1 >= MaxFailures THEN "opening" ELSE "sleeping")
    /\ UNCHANGED <<circuitVars, now, answers, providerVars, historyVars>>

Trip(c) ==
    /\ Moves(c, "tripping", IF fails >= MaxFailures THEN "opening" ELSE "sleeping")
    /\ UNCHANGED <<circuitVars, now, answers, providerVars, historyVars>>

OpenUp(c) ==
    /\ Moves(c, "opening", "sleeping") /\ open' = TRUE
    /\ UNCHANGED <<fails, lastFail, now, answers, providerVars, historyVars>>

-----------------------------------------------------------------------------
RetryOnceMore(c) == \* variant: one attempt too many
    /\ calls[c].pc = "sleeping"
    /\ calls[c].attempts < Retries
    /\ calls' = [calls EXCEPT ![c].pc = "posting", ![c].attempts = @ + 1]
    /\ UNCHANGED <<circuitVars, now, answers, providerVars, historyVars>>

(* After the backoff: the next attempt, without asking the circuit again.  *)
Retry(c) ==
    /\ calls[c].pc = "sleeping"
    /\ calls[c].attempts + 1 < Retries
    /\ calls' = [calls EXCEPT ![c].pc = "posting", ![c].attempts = @ + 1]
    /\ UNCHANGED <<circuitVars, now, answers, providerVars, historyVars>>

GiveUpLate(c) == \* variant: off by one, the loop ends without an answer
    /\ calls[c].attempts = Retries
    /\ Answered(c, "sleeping", "failed")
    /\ UNCHANGED <<circuitVars, now, providerVars, historyVars>>

GiveUp(c) ==
    /\ calls[c].attempts + 1 = Retries
    /\ Answered(c, "sleeping", "failed")
    /\ UNCHANGED <<circuitVars, now, providerVars, historyVars>>

Tick ==
    /\ now < MaxTime
    /\ now' = now + 1
    /\ UNCHANGED <<circuitVars, calls, answers, providerVars, historyVars>>

-----------------------------------------------------------------------------
Allow(c) == Ask(c) \/ ReadOpen(c) \/ Shed(c) \/ CooledDown(c) \/ TestOpen(c) \/ Close(c)
Post(c) == PostSucceeds(c) \/ PostRefused(c) \/ PostUnanswered(c) \/ PostUnreadable(c)
Succeeds(c) == Reset(c) \/ Clear(c)
Fails(c) == ReadFails(c) \/ Count(c) \/ ReadTime(c) \/ Stamp(c) \/ Trip(c) \/ OpenUp(c)

Step(c) == Allow(c) \/ Post(c) \/ Succeeds(c) \/ Fails(c) \/ Retry(c) \/ GiveUp(c)

Next == Tick \/ \E c \in Checkouts : Step(c)

Spec == Init /\ [][Next]_vars

(* Request threads run, and every post returns within its timeout.         *)
FairSpec == Spec /\ \A c \in Checkouts : WF_vars(Step(c))

-----------------------------------------------------------------------------
(* The circuit is open only while the failures since the last success have *)
(* reached the threshold, unless a success() or fail() ran across another: *)
(* then FAILS may be set back after fail() has tested it, or an increment  *)
(* be lost, until a success() ends with no other under way.  (Between its  *)
(* two statements success() shows FAILS 0 and OPEN.)                       *)
OpenOnlyAfterFailures ==
    open /\ ~crossed => fails >= MaxFailures \/ \E c \in Checkouts : calls[c].pc = "clearing"

(* ... and even when they cross, FAILS never counts a failure twice and    *)
(* the circuit opens only once there were as many as the threshold in all. *)
OpeningEarned == fails <= failures /\ (open => failures >= MaxFailures)

(* A provider's charge either is the one a checkout reports as its success,*)
(* or its answer never reached send: a retry charges again only in the     *)
(* second case, and a shed checkout is never charged.                      *)
ChargesAccounted ==
    \A c \in Checkouts :
        /\ charges[c] = unseen[c] + calls[c].taken
        /\ answers[c] = "success" => calls[c].taken = 1
        /\ answers[c] \in {"circuit_open", "failed"} => calls[c].taken = 0
        /\ answers[c] = "circuit_open" => charges[c] = 0

(* The circuit and the charges together, and the types.                    *)
GatewayInv == TypeOK /\ OpenOnlyAfterFailures /\ OpeningEarned /\ ChargesAccounted

(* Every checkout is answered, after a bounded number of attempts.         *)
EveryCheckoutAnswered == \A c \in Checkouts : <>(answers[c] # "none")
=============================================================================

----------------------------- MODULE Resilience -----------------------------
(***************************************************************************)
(* The resilience controls of enterprise_maturity, without locks, under    *)
(* callers that use all of them: an action under an idempotency key, tried *)
(* by a retry policy, each try through a circuit breaker.                  *)
(***************************************************************************)
EXTENDS Integers

CONSTANTS
    Callers, Keys,
    Retries,        \* RetryPolicy.retries
    Threshold,      \* failure_threshold
    OpenInterval,   \* open_interval_seconds
    MaxTime,        \* bound: seconds that pass
    MaxCalls,       \* bound: calls of execute
    None

ResilienceAssumption ==
    /\ Retries \in Nat /\ Threshold \in Nat \ {0} /\ OpenInterval \in Nat
    /\ MaxTime \in Nat /\ MaxCalls \in Nat /\ None \notin Callers /\ None \notin 0..MaxTime

VARIABLES
    call,           \* of each caller: its step, key, attempt, start and answer
    responses,      \* _responses: of each key, whose action gave the answer
    failures, openedAt, \* the breaker
    now, calls,
    \* history
    gave,           \* of each key: callers whose action gave an answer
    met             \* keys two callers executed at once

vars == <<call, responses, failures, openedAt, now, calls, gave, met>>

Running == {"waiting", "inside"}
Call == [step : Running \cup {"idle", "answered", "failed"}, key : Keys \cup {None},
         attempt : 0..Retries, start : 0..MaxTime, answer : Callers \cup {None}]
NoCall == [step |-> "idle", key |-> None, attempt |-> 0, start |-> 0, answer |-> None]

TypeOK ==
    /\ call \in [Callers -> Call]
    /\ responses \in [Keys -> Callers \cup {None}]
    /\ failures \in Nat /\ openedAt \in (0..MaxTime) \cup {None} /\ now \in 0..MaxTime /\ calls \in 0..MaxCalls
    /\ gave \in [Keys -> Nat] /\ met \subseteq Keys

Init ==
    /\ call = [c \in Callers |-> NoCall] /\ responses = [k \in Keys |-> None]
    /\ failures = 0 /\ openedAt = None /\ now = 0 /\ calls = 0
    /\ gave = [k \in Keys |-> 0] /\ met = {}

-----------------------------------------------------------------------------
(* IdempotencyStore.execute: an answer kept is given again; otherwise the  *)
(* action runs, and its answer is kept when it returns one.                *)
Execute(c, k) ==
    /\ call[c].step \notin Running /\ calls < MaxCalls /\ calls' = calls + 1
    /\ call' = [call EXCEPT ![c] =
                  IF responses[k] # None THEN [NoCall EXCEPT !.step = "answered", !.key = k, !.answer = responses[k]]
                                         ELSE [NoCall EXCEPT !.step = "waiting", !.key = k]]
    /\ met' = met \cup {x \in {k} : responses[k] = None /\ \E d \in Callers \ {c} : call[d].key = k /\ call[d].step \in Running}
    /\ UNCHANGED <<responses, failures, openedAt, now, gave>>

(* CircuitBreaker.call.  The time is that of its start, for opening, too.  *)
IsOpen == openedAt # None /\ now - openedAt < OpenInterval

(* RetryPolicy.run: any exception is tried again, an open breaker as well. *)
RetriedOnceMore(c) == call[c].attempt <= Retries \* variant: off by one

Retried(c) == call[c].attempt < Retries

AfterError(c) ==
    IF Retried(c) THEN [call[c] EXCEPT !.step = "waiting", !.attempt = @ + 1]
                  ELSE [call[c] EXCEPT !.step = "failed"]

Try(c) ==
    /\ call[c].step = "waiting"
    /\ call' = [call EXCEPT ![c] = IF IsOpen THEN AfterError(c) ELSE [@ EXCEPT !.step = "inside", !.start = now]]
    /\ UNCHANGED <<responses, failures, openedAt, now, calls, gave, met>>

SucceedUnstored(c) == \* variant: the answer is not kept
    /\ call[c].step = "inside"
    /\ call' = [call EXCEPT ![c] = [@ EXCEPT !.step = "answered", !.answer = c]]
    /\ failures' = 0 /\ openedAt' = None
    /\ gave' = [gave EXCEPT ![call[c].key] = @ + 1]
    /\ UNCHANGED <<responses, now, calls, met>>

Succeed(c) ==
    /\ call[c].step = "inside"
    /\ call' = [call EXCEPT ![c] = [@ EXCEPT !.step = "answered", !.answer = c]]
    /\ responses' = [responses EXCEPT ![call[c].key] = c]
    /\ failures' = 0 /\ openedAt' = None
    /\ gave' = [gave EXCEPT ![call[c].key] = @ + 1]
    /\ UNCHANGED <<now, calls, met>>

OpenBelow == failures + 1 >= Threshold - 1 \* variant: one failure too early

Opens == failures + 1 >= Threshold

Error(c) ==
    /\ call[c].step = "inside"
    /\ call' = [call EXCEPT ![c] = AfterError(c)]
    /\ failures' = failures + 1
    /\ openedAt' = IF Opens THEN call[c].start ELSE openedAt
    /\ UNCHANGED <<responses, now, calls, gave, met>>

Tick ==
    /\ now < MaxTime /\ now' = now + 1
    /\ UNCHANGED <<call, responses, failures, openedAt, calls, gave, met>>

Next ==
    \/ \E c \in Callers : Try(c) \/ Succeed(c) \/ Error(c) \/ \E k \in Keys : Execute(c, k)
    \/ Tick

Spec == Init /\ [][Next]_vars

-----------------------------------------------------------------------------
(* An action whose answer is kept is never run to an answer again, and all *)
(* callers of a key are given that one, unless two of them executed the    *)
(* key before there was an answer: the store does not hold them back.      *)
AnsweredOnce ==
    \A k \in Keys \ met :
      /\ gave[k] <= 1
      /\ \A c \in Callers : call[c].key = k /\ call[c].step = "answered" => call[c].answer = responses[k]

(* The breaker is open, or was, exactly when that many tries failed since  *)
(* the last success, whoever made them; each further failure opens it      *)
(* again, but never later than now: a try that began earlier opens it in   *)
(* the past, which closes it early.                                        *)
OpenAfterFailures ==
    /\ (openedAt # None) = (failures >= Threshold)
    /\ openedAt # None => openedAt <= now

(* Retries, breaker and store together.                                    *)
ResilienceInv == AnsweredOnce /\ OpenAfterFailures
=============================================================================

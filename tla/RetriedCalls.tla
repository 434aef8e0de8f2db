----------------------------- MODULE RetriedCalls -----------------------------
(***************************************************************************)
(* Calls that are tried again: the client of network-egress posts, and     *)
(* product-discovery fetches the crawler's products, for an answer or for  *)
(* its own health.  The peer may have done what was asked although its     *)
(* answer is an error, or never arrives.                                   *)
(***************************************************************************)
EXTENDS Integers, Sequences, FiniteSets, SequencesExt

CONSTANTS
    Calls,
    Retries,        \* attempts of a call
    Top,            \* how many products discover answers with
    Listings,       \* what the crawler lists: sequences of items, FALSE for one that is no object
    None

CallsAssumption == Retries \in Nat \ {0} /\ Top \in Nat \ {0} /\ Listings \subseteq Seq(BOOLEAN)

VARIABLES
    call,           \* each call: [kind, step, answered, told]
    met             \* history: what each attempt of a call met: [answer, applied]

vars == <<call, met>>

Kinds == {"post", "discover", "health"}
Answers ==
    {[kind |-> "list", items |-> l] : l \in Listings} \cup {[kind |-> k, items |-> <<>>] : k \in {"text", "refused", "broken", "silent"}}

Outcome == [kind : {"invalid", "answer", "ok", "internal", "items", "raised", "degraded", "unavailable"}, about : Nat]
Call == [kind : Kinds \cup {None}, step : {"idle", "trying", "over"}, answered : 0..Retries, told : {None} \cup Outcome]

TypeOK ==
    /\ call \in [Calls -> Call] /\ met \in [Calls -> Seq([answer : Answers, applied : BOOLEAN])]
    /\ \A c \in Calls : Len(met[c]) \in 0..Retries

Init ==
    /\ call = [c \in Calls |-> [kind |-> None, step |-> "idle", answered |-> 0, told |-> None]]
    /\ met = [c \in Calls |-> <<>>]

-----------------------------------------------------------------------------
(* The URL is looked at before the first attempt; that of the crawler when *)
(* the service starts.                                                     *)
Begin(c) ==
    /\ call[c].step = "idle"
    /\ \E k \in Kinds, sound \in BOOLEAN :
         /\ k # "post" => sound
         /\ call' = [call EXCEPT ![c] = [@ EXCEPT !.kind = k, !.step = IF sound THEN "trying" ELSE "over",
                                                  !.told = IF sound THEN None ELSE [kind |-> "invalid", about |-> 0]]]
    /\ UNCHANGED met

(* Whatever is below 500 ends a post; only a list ends a fetch.            *)
AcceptsBelow400(kind, answer) == \* variant: a post is tried again when it is refused
    IF kind = "post" THEN answer.kind \notin {"broken", "silent", "refused"} ELSE answer.kind = "list"
Accepts(kind, answer) == IF kind = "post" THEN answer.kind \notin {"broken", "silent"} ELSE answer.kind = "list"

(* What the caller is told of the answer it was waiting for.               *)
Told(kind, answer, attempt) ==
    IF kind = "post" THEN [kind |-> "answer", about |-> attempt]
    ELSE IF kind = "health" THEN [kind |-> "ok", about |-> attempt]
    ELSE IF \E i \in DOMAIN answer.items : ~answer.items[i] THEN [kind |-> "internal", about |-> attempt]
    ELSE [kind |-> "items", about |-> IF Len(answer.items) < Top THEN Len(answer.items) ELSE Top]

(* After the last attempt: a post names the last attempt that was answered *)
(* at all, a fetch its last error.                                         *)
GivenUp(kind, answered) ==
    CASE kind = "post" -> [kind |-> "raised", about |-> answered]
      [] kind = "health" -> [kind |-> "degraded", about |-> Retries]
      [] OTHER -> [kind |-> "unavailable", about |-> Retries]

ExhaustedLate(n) == n > Retries \* variant: one attempt too many
Exhausted(n) == n = Retries

Attempt(c) ==
    /\ call[c].step = "trying"
    /\ \E answer \in Answers, applied \in BOOLEAN :
         LET n == Len(met[c]) + 1
             answered == IF answer.kind = "broken" THEN n ELSE call[c].answered
         IN /\ answer.kind \in {"list", "text"} => applied
            /\ answer.kind = "refused" => ~applied
            /\ met' = [met EXCEPT ![c] = Append(@, [answer |-> answer, applied |-> applied])]
            /\ call' = [call EXCEPT ![c] =
                 IF Accepts(call[c].kind, answer) THEN [@ EXCEPT !.step = "over", !.told = Told(call[c].kind, answer, n)]
                 ELSE IF Exhausted(n) THEN [@ EXCEPT !.step = "over", !.told = GivenUp(call[c].kind, answered), !.answered = answered]
                 ELSE [@ EXCEPT !.answered = answered]]

Next == \E c \in Calls : Begin(c) \/ Attempt(c)
Spec == Init /\ [][Next]_vars

-----------------------------------------------------------------------------
Applied(c) == Cardinality({i \in DOMAIN met[c] : met[c][i].applied})
Unanswered(c) == Cardinality({i \in DOMAIN met[c] : met[c][i].answer.kind \in {"broken", "silent"}})

(* A post is done again only after an attempt that may be without effect:  *)
(* one that was broken or silent.  What the peer refused is not asked for  *)
(* again.                                                                  *)
PostRepeats ==
    \A c \in Calls : call[c].kind = "post" =>
        /\ Applied(c) <= 1 + Unanswered(c) /\ Len(met[c]) <= 1 + Unanswered(c)
        /\ call[c].step = "over" /\ Unanswered(c) = 0 => Len(met[c]) <= 1

(* An error of a post tells of the last attempt that the peer answered,    *)
(* and of none when all were silent; every attempt was made before.        *)
RaisedTells ==
    \A c \in Calls : call[c].told # None /\ call[c].told.kind = "raised" =>
        /\ Unanswered(c) = Retries
        /\ \A i \in DOMAIN met[c] : i > call[c].told.about => met[c][i].answer.kind = "silent"
        /\ call[c].told.about # 0 => met[c][call[c].told.about].answer.kind = "broken"

(* Items and health come from the list of the last attempt, and nothing is *)
(* fetched after it; they are denied only when no attempt got a list.      *)
FetchTells ==
    \A c \in Calls : call[c].kind \in {"discover", "health"} /\ call[c].step = "over" =>
        LET listed == {i \in DOMAIN met[c] : met[c][i].answer.kind = "list"} IN
        /\ listed \subseteq {Len(met[c])}
        /\ call[c].told.kind \in {"degraded", "unavailable"} <=> listed = {}
        /\ call[c].told.kind = "items" => call[c].told.about <= Len(Last(met[c]).answer.items) /\ call[c].told.about <= Top

(* What the callers may rely on.                                           *)
CallsInv == PostRepeats /\ RaisedTells /\ FetchTells
=============================================================================

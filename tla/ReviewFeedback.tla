---------------------------- MODULE ReviewFeedback ----------------------------
(***************************************************************************)
(* The webhook of the review robot: what reviewers say of its comments     *)
(* moves the weight of a category, by which it orders its agents, and the  *)
(* findings of a pull request close or open a gate.                        *)
(***************************************************************************)
EXTENDS Integers, Sequences, FiniteSets

CONSTANTS
    Deliveries,     \* deliveries of the host: [signed, event, context, findings, feedback]
    MaxDeliveries,
    None

Categories == {"security", "perf", "quality"}
FeedbackAssumption ==
    MaxDeliveries \in Nat /\ \A d \in Deliveries : d.feedback # None => d.feedback.accepted \in BOOLEAN

VARIABLES
    weight,         \* the bandit, in tenths
    answer,         \* the last answer: [status, deny, warn, first]
    liked, disliked, \* history: how often each word on each category was counted
    deliveries

vars == <<weight, answer, liked, disliked, deliveries>>

Nothing == [status |-> "none", deny |-> 0, warn |-> 0, first |-> None]

TypeOK ==
    /\ weight \in [Categories -> Int] /\ deliveries \in 0..MaxDeliveries
    /\ answer.status \in {"none", "unauthorized", "ignored", "incomplete", "failed", "processed"}
    /\ answer.first \in Categories \cup {None}
    /\ liked \in [Categories -> 0..MaxDeliveries] /\ disliked \in [Categories -> 0..MaxDeliveries]

Init ==
    /\ weight = [k \in Categories |-> 10] /\ answer = Nothing /\ deliveries = 0
    /\ liked = [k \in Categories |-> 0] /\ disliked = [k \in Categories |-> 0]

-----------------------------------------------------------------------------
(* Without a comment a finding does not count.                             *)
Count(findings, severity) == Cardinality({i \in DOMAIN findings : findings[i].comment /\ findings[i].severity = severity})

(* The agents by weight, and by name where weights are equal.              *)
Before(k) == CASE k = "perf" -> 1 [] k = "quality" -> 2 [] OTHER -> 3
First(w) == CHOOSE k \in Categories : \A l \in Categories \ {k} : w[k] > w[l] \/ (w[k] = w[l] /\ Before(k) < Before(l))

(* A weight has a floor, and a category the bandit does not know is left.  *)
UpdateNoFloor(f) == \* variant: a weight has no floor
    IF f.category \notin Categories THEN weight
    ELSE [weight EXCEPT ![f.category] = IF f.accepted THEN @ + 1 ELSE @ - 1]
Update(f) ==
    IF f.category \notin Categories THEN weight
    ELSE [weight EXCEPT ![f.category] = IF f.accepted THEN @ + 1 ELSE IF @ = 0 THEN 0 ELSE @ - 1]

Heard(count, f, accepted) ==
    IF f = None THEN count
    ELSE IF f.category \in Categories /\ f.accepted = accepted THEN [count EXCEPT ![f.category] = @ + 1] ELSE count

Stay(status) == answer' = [Nothing EXCEPT !.status = status] /\ UNCHANGED <<weight, liked, disliked>>

(* A delivery, perhaps one that came before; the host may refuse a token,  *)
(* which ends the request before anything is counted.                      *)
Webhook ==
    /\ deliveries < MaxDeliveries /\ deliveries' = deliveries + 1
    /\ \E d \in Deliveries, token \in BOOLEAN :
         IF ~d.signed THEN Stay("unauthorized")
         ELSE IF d.event # "pull_request" THEN Stay("ignored")
         ELSE IF ~d.context THEN Stay("incomplete")
         ELSE IF ~token THEN Stay("failed")
         ELSE /\ weight' = IF d.feedback = None THEN weight ELSE Update(d.feedback)
              /\ liked' = Heard(liked, d.feedback, TRUE) /\ disliked' = Heard(disliked, d.feedback, FALSE)
              /\ answer' = [status |-> "processed", deny |-> Count(d.findings, "critical"),
                            warn |-> Count(d.findings, "medium"), first |-> First(weight')]

Next == Webhook
Spec == Init /\ [][Next]_vars

-----------------------------------------------------------------------------
(* A weight is what was said of its category, but for the floor, which can *)
(* only raise it.                                                          *)
WeightsTell ==
    \A k \in Categories :
        /\ weight[k] >= 0 /\ weight[k] >= 10 + liked[k] - disliked[k]
        /\ weight[k] <= 10 + liked[k]

(* An answer names an agent no other outweighs, the feedback that came     *)
(* with the delivery included.                                             *)
FirstLeads == answer.first # None => \A k \in Categories : weight[k] <= weight[answer.first]

(* What the reviewers may rely on.                                         *)
FeedbackInv == WeightsTell /\ FirstLeads
=============================================================================

----------------------------- MODULE TrainerLoop -----------------------------
(***************************************************************************)
(* rl-trainer: one process takes the inference responses one by one,       *)
(* learns from each, deploys an image to every target over ssh as part of  *)
(* the snapshot, and replaces the policy file.  Kafka's client commits in  *)
(* the background what it has handed out.  Nothing is read back at a       *)
(* start: a new process begins with new weights.  What raises ends it.     *)
(***************************************************************************)
EXTENDS Integers, Sequences, FiniteSets

CONSTANTS
    Records,        \* the records of the topic: a sequence of [sound, demand]
    Targets,        \* where to deploy to, in order: [place, runtime], each with a deployment of its own
    Compose,        \* the image that a target's compose file names
    Workers,        \* registered workers, in order: [id, capacity, price]
    Settings,       \* what the environment of a start may say: [targets, enabled, image]
    MaxStarts,
    None, Torn

Places == {Targets[i] : i \in DOMAIN Targets}
Images == {s.image : s \in Settings} \cup {Compose[t] : t \in Places}
Nodes == {Workers[i] : i \in DOMAIN Workers}

TrainerAssumption ==
    /\ Records \in Seq([sound : BOOLEAN, demand : Nat]) /\ Targets \in Seq(Places) /\ Workers \in Seq(Nodes)
    /\ \A w \in Nodes : w.capacity \in Nat /\ w.price \in Nat \ {0} /\ w.id # None
    /\ \A i, j \in DOMAIN Workers : Workers[i].id = Workers[j].id => i = j
    /\ \A s \in Settings : s.enabled \in BOOLEAN
    /\ None \notin Settings \cup {Torn} /\ (\A S \in SUBSET DOMAIN Records : S # Torn) /\ MaxStarts \in Nat

VARIABLES
    fetched, committed, \* of the topic: handed to the process, and stored as its offset
    trainer,        \* the process: its step, settings, the record in hand, what it learned, the deployments it made for it
    policy,         \* the policy file: None, Torn, or the records its weights come from
    image,          \* what runs on each target
    late,           \* commands that nobody waits for any more and that may still run: [target, image]
    starts,
    everLearned, dropped, \* history: records some process learned, or had in hand when it ended
    overtaken       \* history: targets such a command has changed since the last one that succeeded

fieldVars == <<image, late, overtaken>>
historyVars == <<everLearned, dropped>>
vars == <<fetched, committed, trainer, policy, starts, fieldVars, historyVars>>

Down == [step |-> "down", setting |-> None, record |-> 0, learned |-> {}, worker |-> None, results |-> <<>>]

Process ==
    [step : {"down", "poll", "update", "replicate", "open"}, setting : Settings \cup {None}, record : 0..Len(Records),
     learned : SUBSET DOMAIN Records, worker : {w.id : w \in Nodes} \cup {None}, results : Seq({0, 1, 124, 255})]

TypeOK ==
    /\ fetched \in 0..Len(Records) /\ committed \in 0..Len(Records) /\ starts \in 0..MaxStarts
    /\ trainer \in Process /\ Len(trainer.results) <= Len(Targets)
    /\ policy \in {None, Torn} \cup SUBSET DOMAIN Records
    /\ image \in [Places -> Images \cup {None}] /\ late \subseteq [target : Places, image : Images]
    /\ everLearned \subseteq DOMAIN Records /\ dropped \subseteq DOMAIN Records /\ overtaken \subseteq Places

Init ==
    /\ fetched = 0 /\ committed = 0 /\ trainer = Down /\ policy = None /\ starts = 0
    /\ image = [t \in Places |-> None] /\ late = {}
    /\ everLearned = {} /\ dropped = {} /\ overtaken = {}

-----------------------------------------------------------------------------
(* The topic is read from where the group left off.                        *)
ResumeAtEnd == Len(Records) \* variant: from its end
Resume == committed

(* A start.  A target that is not well formed raises before the loop, also *)
(* where nothing is to be deployed.                                        *)
Start ==
    /\ trainer.step = "down" /\ starts < MaxStarts /\ starts' = starts + 1
    /\ \E s \in Settings :
         IF s.targets = "malformed" THEN UNCHANGED <<trainer, fetched>>
         ELSE trainer' = [Down EXCEPT !.step = "poll", !.setting = s] /\ fetched' = Resume
    /\ UNCHANGED <<committed, policy, fieldVars, historyVars>>

Poll ==
    /\ trainer.step = "poll" /\ fetched < Len(Records) /\ fetched' = fetched + 1
    /\ trainer' = [trainer EXCEPT !.step = "update", !.record = fetched', !.results = <<>>]
    /\ UNCHANGED <<committed, policy, starts, fieldVars, historyVars>>

(* The client's thread, at any time.                                       *)
Commit ==
    /\ trainer.step # "down" /\ committed' = fetched
    /\ UNCHANGED <<fetched, trainer, policy, starts, fieldVars, historyVars>>

(* The process ends, by an exception or from outside.                      *)
End ==
    /\ trainer' = Down
    /\ dropped' = IF trainer.record = 0 THEN dropped ELSE dropped \cup {trainer.record}
    /\ UNCHANGED <<fetched, committed, policy, starts, image, overtaken, everLearned>>

-----------------------------------------------------------------------------
(* The market: of the workers that can take the demand, the one with the   *)
(* most capacity for its price, and among those the cheapest.              *)
Bids(demand) == {i \in DOMAIN Workers : Workers[i].capacity >= demand}

Beats(i, j) ==
    LET v == Workers[i]
        w == Workers[j]
    IN \/ v.capacity * w.price > w.capacity * v.price
       \/ v.capacity * w.price = w.capacity * v.price /\ (v.price < w.price \/ (v.price = w.price /\ i <= j))

Assigned(demand) ==
    IF Bids(demand) = {} THEN None
    ELSE Workers[CHOOSE i \in Bids(demand) : \A j \in Bids(demand) : Beats(i, j)].id

(* The weights are changed in memory; a record that does not decode, or is *)
(* of another dimension, raises.                                           *)
Update ==
    /\ trainer.step = "update"
    /\ IF Records[trainer.record].sound
       THEN /\ trainer' = [trainer EXCEPT !.step = "replicate", !.learned = @ \cup {trainer.record},
                                          !.worker = Assigned(Records[trainer.record].demand)]
            /\ everLearned' = everLearned \cup {trainer.record}
            /\ UNCHANGED <<fetched, committed, policy, starts, fieldVars, dropped>>
       ELSE End /\ UNCHANGED late

(* One target after another, each waited for; with replication disabled    *)
(* there is none.  On k8s the command sets the image and waits for the     *)
(* rollout; with docker compose it pulls the image, and then starts what   *)
(* the compose file names, whether that is the image pulled or not.        *)
NamedPulled(t, i) == i \* variant: what was pulled
Named(t, i) == IF t.runtime = "k8s" THEN i ELSE Compose[t]

Target == Targets[Len(trainer.results) + 1]
Command == [target |-> Target, image |-> Named(Target, trainer.setting.image)]

Deploying ==
    /\ trainer.step = "replicate" /\ trainer.setting.enabled /\ Len(trainer.results) < Len(Targets)
    /\ trainer.setting.targets # "imageless"

(* What ssh answers is the result.  A command that failed may have changed *)
(* what runs.  One whose connection was lost, or that was given up after a *)
(* minute, may run on and change it at any later time.                     *)
CodeGivenUp(outcome) == CASE outcome \in {"done", "abandoned"} -> 0 [] outcome = "failed" -> 1 [] OTHER -> 255 \* variant
Code(outcome) == CASE outcome = "done" -> 0 [] outcome = "failed" -> 1 [] outcome = "lost" -> 255 [] OTHER -> 124

Deploy ==
    /\ Deploying
    /\ \E outcome \in {"done", "failed", "lost", "abandoned"} :
         /\ trainer' = [trainer EXCEPT !.results = Append(@, Code(outcome))]
         /\ late' = IF outcome \in {"lost", "abandoned"} THEN late \cup {Command} ELSE late
         /\ \/ outcome \in {"done", "failed"} /\ image' = [image EXCEPT ![Target] = Command.image]
            \/ outcome # "done" /\ UNCHANGED image
         /\ overtaken' = IF outcome = "done" THEN overtaken \ {Target} ELSE overtaken
    /\ UNCHANGED <<fetched, committed, policy, starts, historyVars>>

(* An image that is not well formed raises, and so does ssh that does not  *)
(* start.                                                                  *)
DeployRaises ==
    /\ trainer.step = "replicate" /\ trainer.setting.enabled /\ Len(trainer.results) < Len(Targets)
    /\ End /\ UNCHANGED late

Late ==
    /\ \E c \in late :
         /\ image' = [image EXCEPT ![c.target] = c.image] /\ late' = late \ {c}
         /\ overtaken' = overtaken \cup {c.target}
    /\ UNCHANGED <<fetched, committed, trainer, policy, starts, historyVars>>

(* The policy file is emptied when it is opened, ...                       *)
Open ==
    /\ trainer.step = "replicate" /\ (trainer.setting.enabled => Len(trainer.results) = Len(Targets))
    /\ trainer' = [trainer EXCEPT !.step = "open"] /\ policy' = Torn
    /\ UNCHANGED <<fetched, committed, starts, fieldVars, historyVars>>

(* ... and written.                                                        *)
Write ==
    /\ trainer.step = "open" /\ policy' = trainer.learned
    /\ trainer' = [trainer EXCEPT !.step = "poll", !.record = 0]
    /\ UNCHANGED <<fetched, committed, starts, fieldVars, historyVars>>

(* What it had sent to a target may run on.                                *)
Crash ==
    /\ trainer.step # "down" /\ End
    /\ UNCHANGED late \/ (Deploying /\ late' = late \cup {Command})

Next ==
    \/ Start \/ Poll \/ Commit \/ Update \/ Deploy \/ DeployRaises \/ Late
    \/ Open \/ Write \/ Crash

Spec == Init /\ [][Next]_vars

-----------------------------------------------------------------------------
(* The file holds what one process learned, a run of the sound records     *)
(* without a gap, and all of it between two records; it is torn only while *)
(* a process writes it, or after one that did not come to write it.        *)
PolicyWhole ==
    /\ policy \notin {None, Torn} =>
         \E i, j \in DOMAIN Records : policy = {k \in i..j : Records[k].sound}
    /\ trainer.step = "poll" /\ trainer.learned # {} => policy = trainer.learned
    /\ policy = Torn => trainer.step = "open" \/ dropped # {}

(* A record that is behind the committed offset was learned, or a process  *)
(* ended with it in hand, or it is in hand: no other is lost.              *)
NothingSkipped ==
    \A k \in 1..committed : k \in everLearned \cup dropped \cup {trainer.record}

(* A target that reported success runs the image it was given, or with     *)
(* docker compose the image its compose file names, unless a command that  *)
(* nobody waited for has reached it since.                                 *)
SuccessRuns ==
    \A i \in DOMAIN trainer.results :
        trainer.results[i] = 0 =>
            \/ image[Targets[i]] = IF Targets[i].runtime = "k8s" THEN trainer.setting.image ELSE Compose[Targets[i]]
            \/ Targets[i] \in overtaken

(* No worker is assigned only if no worker is able, and the assigned one   *)
(* leaves no able worker of another price with more capacity for less.     *)
WorkerAble ==
    trainer.step = "replicate" =>
        LET able == {i \in DOMAIN Workers : Workers[i].capacity >= Records[trainer.record].demand}
        IN /\ trainer.worker = None <=> able = {}
           /\ \A i \in able : Workers[i].id = trainer.worker =>
                ~\E j \in able : Workers[j].capacity >= Workers[i].capacity /\ Workers[j].price < Workers[i].price

(* What the readers of the policy and the operators of the targets may     *)
(* rely on.                                                                *)
TrainerInv == PolicyWhole /\ NothingSkipped /\ SuccessRuns /\ WorkerAble
=============================================================================

------------------------ MODULE DeploymentController ------------------------
(***************************************************************************)
(* services/master-orchestrator: DeploymentStore (deployment_controller.py)*)
(* and the three endpoints of main.py that use it.                         *)
(*                                                                         *)
(* The endpoints are plain functions, so FastAPI runs them in threads.     *)
(* The store's lock covers create, apply_event and get, each of which      *)
(* returns the stored record itself and not a copy: emitting the decision  *)
(* and dumping the record into the answer happen after the lock is given   *)
(* back, on a record other threads go on changing.  Everything is kept in  *)
(* the memory of the process.                                              *)
(***************************************************************************)
EXTENDS Naturals, Sequences, FiniteSets

LOCAL INSTANCE TLC

CONSTANTS
    Keys,           \* idempotency keys
    Ids,            \* uuid4 values
    Threads,
    None,
    MaxHistory,     \* bound: entries in one deployment's history
    MaxTopic,       \* bound: records emitted or about to be
    MaxRestarts     \* bound: restarts of the process

VARIABLES
    deployments,    \* _deployments: the record of each id, or None
    index,          \* _idempotency_index: key -> id, or None
    lock,           \* _lock: the thread that holds it between two steps
    threads,        \* what each request thread is doing
    topic,          \* the decisions topic
    answer,         \* the record the last step returned to a client, or None
    restarts,       \* restarts of the process
    creations       \* history: the key each id was made for, and after how many restarts

vars == <<deployments, index, lock, threads, topic, answer, restarts, creations>>

States == {"queued", "building", "failed", "fixing", "deploying", "succeeded"}

Transitions ==
    { [from |-> "queued",    event |-> "build.started",    to |-> "building"],
      [from |-> "building",  event |-> "build.failed",     to |-> "failed"],
      [from |-> "building",  event |-> "build.succeeded",  to |-> "deploying"],
      [from |-> "failed",    event |-> "ai.fix.started",   to |-> "fixing"],
      [from |-> "fixing",    event |-> "ai.fix.applied",   to |-> "building"],
      [from |-> "deploying", event |-> "deploy.failed",    to |-> "failed"],
      [from |-> "deploying", event |-> "deploy.succeeded", to |-> "succeeded"] }

Events == {tr.event : tr \in Transitions}
Entry == [event : Events \cup {"created"}, state : States]
Deployment == [state : States, history : Seq(Entry)]
Creation == [key : Keys, life : 0..MaxRestarts]

ASSUME ControllerAssumption ==
    /\ IsFiniteSet(Threads)
    /\ None \notin Ids \cup Threads
    /\ None \notin Deployment /\ None \notin Creation
    /\ MaxHistory \in Nat /\ MaxTopic \in Nat /\ MaxRestarts \in Nat

Emitted == [event : Events \cup {"deploy.requested"}, id : Ids, state : States]

(* pc: "applying" (the lock is held, the state is set, the history is not  *)
(* appended yet), "emitting" and "dumping" (the lock is free again).       *)
Busy == [pc : {"applying"}, id : Ids, event : Events]
          \cup [pc : {"emitting"}, id : Ids, event : Events \cup {"deploy.requested"}]
          \cup [pc : {"dumping"}, id : Ids, event : Events \cup {"deploy.requested", "get"}]
Idle == [pc |-> "idle"]

TypeOK ==
    /\ deployments \in [Ids -> Deployment \cup {None}]
    /\ index \in [Keys -> Ids \cup {None}]
    /\ lock \in Threads \cup {None}
    /\ threads \in [Threads -> Busy \cup {Idle}]
    /\ topic \in Seq(Emitted)
    /\ answer \in Deployment \cup {None}
    /\ restarts \in 0..MaxRestarts
    /\ creations \in [Ids -> Creation \cup {None}]

Init ==
    /\ deployments = [d \in Ids |-> None]
    /\ index = [k \in Keys |-> None]
    /\ lock = None
    /\ threads = [t \in Threads |-> Idle]
    /\ topic = <<>>
    /\ answer = None
    /\ restarts = 0
    /\ creations = [d \in Ids |-> None]

Proceed(t, pc, d, e) ==
    threads' = [threads EXCEPT ![t] = [pc |-> pc, id |-> d, event |-> e]]

(* Room on the topic for one more record, the pending ones counted.        *)
Room ==
    Len(topic) + Cardinality({t \in Threads : threads[t].pc \in {"applying", "emitting"}})
      < MaxTopic

-----------------------------------------------------------------------------
(* DeploymentStore.create.                                                 *)
ReuseUnchecked(k) == UNCHANGED <<deployments, index, creations>> \* variant: no such key

Reuse(k) ==
    /\ index[k] # None
    /\ UNCHANGED <<deployments, index, creations>>

NewAlways(k, d) == \* variant: the index is not consulted
    /\ creations[d] = None
    /\ creations' = [creations EXCEPT ![d] = [key |-> k, life |-> restarts]]
    /\ deployments' = [deployments EXCEPT ![d] =
          [state |-> "queued", history |-> <<[event |-> "created", state |-> "queued"]>>]]
    /\ index' = [index EXCEPT ![k] = d]

New(k, d) ==
    /\ index[k] = None
    /\ creations[d] = None
    /\ creations' = [creations EXCEPT ![d] = [key |-> k, life |-> restarts]]
    /\ deployments' = [deployments EXCEPT ![d] =
          [state |-> "queued", history |-> <<[event |-> "created", state |-> "queued"]>>]]
    /\ index' = [index EXCEPT ![k] = d]

Create(t, k) ==
    /\ threads[t] = Idle /\ lock = None /\ Room
    /\ \/ Reuse(k) /\ Proceed(t, "emitting", index[k], "deploy.requested")
       \/ \E d \in Ids : New(k, d) /\ Proceed(t, "emitting", d, "deploy.requested")
    /\ answer' = None
    /\ UNCHANGED <<lock, topic, restarts>>

ApplyUnlocked(t, d, tr) == \* variant: the lock is not taken
    /\ threads[t] = Idle /\ Room
    /\ deployments[d] # None
    /\ deployments[d].state = tr.from
    /\ Len(deployments[d].history) < MaxHistory
    /\ lock' = None
    /\ deployments' = [deployments EXCEPT ![d].state = tr.to]
    /\ Proceed(t, "applying", d, tr.event)
    /\ answer' = None
    /\ UNCHANGED <<index, topic, restarts, creations>>

ApplyUnguarded(t, d, tr) == \* variant: ALLOWED_TRANSITIONS is not consulted
    /\ threads[t] = Idle /\ lock = None /\ Room
    /\ deployments[d] # None
    /\ Len(deployments[d].history) < MaxHistory
    /\ lock' = t
    /\ deployments' = [deployments EXCEPT ![d].state = tr.to]
    /\ Proceed(t, "applying", d, tr.event)
    /\ answer' = None
    /\ UNCHANGED <<index, topic, restarts, creations>>

(* DeploymentStore.apply_event, up to the assignment of record.state.  An  *)
(* unknown deployment (404) or a forbidden event (409) changes nothing.    *)
Apply(t, d, tr) ==
    /\ threads[t] = Idle /\ lock = None /\ Room
    /\ deployments[d] # None
    /\ deployments[d].state = tr.from
    /\ Len(deployments[d].history) < MaxHistory
    /\ lock' = t
    /\ deployments' = [deployments EXCEPT ![d].state = tr.to]
    /\ Proceed(t, "applying", d, tr.event)
    /\ answer' = None
    /\ UNCHANGED <<index, topic, restarts, creations>>

(* ... the rest of it: the history is appended and the lock released.      *)
Record(t) ==
    LET d == threads[t].id
        e == [event |-> threads[t].event, state |-> deployments[d].state] IN
    /\ threads[t].pc = "applying"
    /\ lock' = None
    /\ deployments' = [deployments EXCEPT ![d].history = Append(@, e)]
    /\ Proceed(t, "emitting", d, threads[t].event)
    /\ answer' = None
    /\ UNCHANGED <<index, topic, restarts, creations>>

(* DeploymentStore.get.                                                    *)
Get(t, d) ==
    /\ threads[t] = Idle /\ lock = None
    /\ deployments[d] # None
    /\ Proceed(t, "dumping", d, "get")
    /\ answer' = None
    /\ UNCHANGED <<deployments, index, lock, topic, restarts, creations>>

-----------------------------------------------------------------------------
EmitAgain(t) == \* variant: emitted again after it was delivered
    LET d == threads[t].id IN
    /\ threads[t].pc = "emitting"
    /\ topic' = Append(topic, [event |-> threads[t].event, id |-> d,
                               state |-> deployments[d].state])
    /\ Len(topic) < MaxTopic
    /\ answer' = None
    /\ UNCHANGED <<deployments, index, lock, threads, restarts, creations>>

(* emit_decision, on the record as it is by now.                           *)
Emit(t) ==
    LET d == threads[t].id IN
    /\ threads[t].pc = "emitting"
    /\ topic' = Append(topic, [event |-> threads[t].event, id |-> d,
                               state |-> deployments[d].state])
    /\ Proceed(t, "dumping", d, threads[t].event)
    /\ answer' = None
    /\ UNCHANGED <<deployments, index, lock, restarts, creations>>

(* The producer raised: logged, and the request goes on.                   *)
EmitFails(t) ==
    /\ threads[t].pc = "emitting"
    /\ Proceed(t, "dumping", threads[t].id, threads[t].event)
    /\ answer' = None
    /\ UNCHANGED <<deployments, index, lock, topic, restarts, creations>>

(* deployment.model_dump(), the answer to the request.                     *)
Dump(t) ==
    /\ threads[t].pc = "dumping"
    /\ answer' = deployments[threads[t].id]
    /\ threads' = [threads EXCEPT ![t] = Idle]
    /\ UNCHANGED <<deployments, index, lock, topic, restarts, creations>>

(* The process restarts with an empty store.                               *)
Restart ==
    /\ restarts < MaxRestarts
    /\ restarts' = restarts + 1
    /\ deployments' = [d \in Ids |-> None]
    /\ index' = [k \in Keys |-> None]
    /\ lock' = None
    /\ threads' = [t \in Threads |-> Idle]
    /\ answer' = None
    /\ UNCHANGED <<topic, creations>>

-----------------------------------------------------------------------------
Proceeds(t) == Record(t) \/ Emit(t) \/ EmitFails(t) \/ Dump(t)

Next ==
    \/ \E t \in Threads :
          \/ \E k \in Keys : Create(t, k)
          \/ \E d \in Ids : Get(t, d) \/ \E tr \in Transitions : Apply(t, d, tr)
          \/ Proceeds(t)
    \/ Restart

Spec == Init /\ [][Next]_vars

-----------------------------------------------------------------------------
Exists(d) == deployments[d] # None
History(d) == deployments[d].history
LastEntry(d) == History(d)[Len(History(d))]
Step(a, b) == [from |-> a.state, event |-> b.event, to |-> b.state]

(* The thread that has set d's state and not appended its history.         *)
Applying(t, d) == threads[t].pc = "applying" /\ threads[t].id = d

(* The history of a deployment is a run of ALLOWED_TRANSITIONS from        *)
(* queued, and it ends in the deployment's state; while a thread is inside *)
(* apply_event, its event is the one step that is missing.  The lock in    *)
(* apply_event is what makes it so: two threads between the check and the  *)
(* append would interleave.                                                *)
HistoryExplainsState ==
    \A d \in Ids : Exists(d) =>
        /\ \A i \in 1..Len(History(d)) - 1 :
              Step(History(d)[i], History(d)[i + 1]) \in Transitions
        /\ (\A t \in Threads : ~Applying(t, d)) => LastEntry(d).state = deployments[d].state
        /\ \A t \in Threads : Applying(t, d) =>
              Step(LastEntry(d), [event |-> threads[t].event, state |-> deployments[d].state])
                \in Transitions

(* In the life of the process a key makes one deployment at most, however  *)
(* retries race; what exists is what was made in it, each in reach of its  *)
(* key.  (Over a restart a key is used again: see SameKeySameRecord.)      *)
OneDeploymentPerKey ==
    \A d \in Ids :
        /\ \A o \in Ids : creations[d] # None /\ creations[o] = creations[d] => o = d
        /\ Exists(d) <=> creations[d] # None /\ creations[d].life = restarts
        /\ Exists(d) => index[creations[d].key] = d

Occurrences(seq, Test(_)) == Cardinality({i \in DOMAIN seq : Test(seq[i])})

(* Until the store is lost, no transition is on the decisions topic more   *)
(* often than the deployment made it.                                      *)
EmittedTransitionsHappened ==
    restarts = 0 =>
      \A d \in Ids, e \in Events :
        LET onTopic(m) == m.event = e /\ m.id = d
            inHistory(m) == m.event = e IN
        Occurrences(topic, onTopic) <=
          IF Exists(d) THEN Occurrences(History(d), inHistory) ELSE 0

(* What a reader of the record and a reader of the topic are told agrees,  *)
(* and the store keeps its types.                                          *)
HistoryTold == TypeOK /\ HistoryExplainsState /\ EmittedTransitionsHappened

(* Each deployment goes through the life cycle the service promises.       *)
StateOf == [d \in Ids |-> IF Exists(d) THEN deployments[d].state ELSE "absent"]
Lifecycle == INSTANCE DeploymentLifecycle WITH state <- StateOf
FollowsLifecycle == Lifecycle!Spec

(* Keys, identifiers and threads are told apart by nothing but equality.   *)
Symmetric == Permutations(Keys) \cup Permutations(Ids) \cup Permutations(Threads)

-----------------------------------------------------------------------------
(* What docs/services/master-orchestrator.md says and the code does not do.*)

(* Line 49: an endpoint returns the "current deployment state and full     *)
(* transition history".  The record is dumped without the lock, between    *)
(* the assignment of the state and the append to the history.              *)
AnswerComplete ==
    answer # None => answer.state = answer.history[Len(answer.history)].state

(* Line 24: "the same idempotency key always returns the same deployment   *)
(* record".  The index is lost with the process, and the key of a retry    *)
(* that comes after makes another deployment.                              *)
SameKeySameRecord ==
    \A d, o \in Ids :
        creations[d] # None /\ creations[o] # None /\ creations[d].key = creations[o].key => d = o
=============================================================================

--------------------------- MODULE AsyncInference ---------------------------
(***************************************************************************)
(* The asynchronous prediction path of services/model-service: the API     *)
(* handlers of main.py, the two background loops of queue_runtime.py, the  *)
(* result store of result_store.py, and the three Kafka topics and the     *)
(* Redis keys between them.                                                *)
(*                                                                         *)
(* A topic is a sequence and a consumer's offset the number of records it  *)
(* has polled.  The consumers run with enable.auto.commit: the offset that *)
(* survives a crash moves in a step of its own, any time after the poll.   *)
(* A prediction is represented by the features it was computed from.       *)
(***************************************************************************)
EXTENDS Naturals, Sequences, FiniteSets, TLC

CONSTANTS
    Jobs,           \* job ids: idempotency keys or uuids
    Features,       \* valid feature vectors
    ListFeatures,   \* a feature list, as async_queue.py enqueues it
    Undecodable,    \* a record _decode_message raises on
    None,           \* Python's None; also "no such key"
    Handlers,       \* concurrent /predict_async requests
    Watched,        \* the jobs whose result some client waits for
    FaultKinds,     \* the faults that may occur, a subset of AllFaults
    MaxRequests,    \* bound: records ever put on the request topic
    MaxFaults       \* bound: faults that occur

Topics == {"response", "dlq"}

AllFaults == {"malformed", "predict", "publish", "produce", "store", "crash", "expire"}

ASSUME InferenceAssumption ==
    /\ FaultKinds \subseteq AllFaults
    /\ Watched \subseteq Jobs
    /\ MaxRequests \in Nat
    /\ MaxFaults \in Nat
    /\ None \notin Jobs
    /\ ListFeatures \notin Features
    /\ None \notin Features \cup {ListFeatures}
    /\ Undecodable \notin [job : Jobs, features : Features \cup {ListFeatures}]
    /\ None \notin [job : Jobs, features : Features]
    /\ None \notin Topics
    /\ IsFiniteSet(Handlers)

VARIABLES
    results,    \* Redis: the record of each job, or None
    handlers,   \* what each API handler has stored and not yet produced
    requests,   \* topic inference.request
    position,   \* records the request loop has polled
    committed,  \* ... and the offset Kafka keeps for its group
    phase,      \* of the request thread: "polling", "serving" (handling
                \* record number position) or "dead"
    payload,    \* job of the loop's local variable payload, which outlives
                \* the iteration that assigned it; None while unassigned
    replies,    \* topics inference.response and inference.dlq
    read,       \* records of each the response loop has polled
    saved,      \* ... and the offsets Kafka keeps for its group
    storing,    \* the topic whose last polled record it is storing, or None
    watch,      \* a client waiting for each job's result
    faults,     \* number of faults so far
    lost        \* history: jobs whose last record or reply a fault destroyed

requestVars == <<requests, position, committed, phase, payload>>
replyVars == <<replies, read, saved, storing>>
vars == <<results, handlers, requestVars, replyVars, watch, faults, lost>>

Request == [job : Jobs, features : Features \cup {ListFeatures}]
Reply == [job : Jobs \cup {None}, status : {"done", "failed"},
          features : Features \cup {None}, cause : Jobs \cup {None}]
Record == [status : {"queued", "done", "failed"}, features : Features \cup {None}]

RequestsTyped ==
    /\ requests \in Seq(Request \cup {Undecodable})
    /\ position \in 0..Len(requests) /\ committed \in 0..position
    /\ phase \in {"polling", "serving", "dead"}
    /\ phase = "serving" => position > 0
    /\ payload \in Jobs \cup {None}

RepliesTyped ==
    /\ replies \in [Topics -> Seq(Reply)]
    /\ read \in [Topics -> Nat] /\ saved \in [Topics -> Nat]
    /\ \A t \in Topics : saved[t] <= read[t] /\ read[t] <= Len(replies[t])
    /\ storing \in Topics \cup {None} /\ (storing # None => read[storing] > 0)

ApiTyped ==
    /\ results \in [Jobs -> Record \cup {None}]
    /\ handlers \in [Handlers -> [job : Jobs, features : Features] \cup {None}]
    /\ watch \in [Jobs -> {"none", "wait", "ws", "answered", "timeout"}]
    /\ faults \in 0..MaxFaults
    /\ lost \subseteq Jobs

TypeOK == RequestsTyped /\ RepliesTyped /\ ApiTyped

Init ==
    /\ results = [j \in Jobs |-> None]
    /\ handlers = [h \in Handlers |-> None]
    /\ requests = <<>> /\ position = 0 /\ committed = 0
    /\ phase = "polling" /\ payload = None
    /\ replies = [t \in Topics |-> <<>>]
    /\ read = [t \in Topics |-> 0] /\ saved = [t \in Topics |-> 0]
    /\ storing = None
    /\ watch = [j \in Jobs |-> "none"]
    /\ faults = 0 /\ lost = {}

Fault(kind) == kind \in FaultKinds /\ faults < MaxFaults /\ faults' = faults + 1

(* ResultStore.set_result: one setex, which replaces whatever is there.    *)
SetResult(j, status, f) ==
    /\ results' = [results EXCEPT ![j] = [status |-> status, features |-> f]]
    /\ lost' = lost \ {j}

Pending == {h \in Handlers : handlers[h] # None}

(* Room on the request topic for one more record, the pending handlers'    *)
(* records counted.                                                        *)
Room == Len(requests) + Cardinality(Pending) < MaxRequests

-----------------------------------------------------------------------------
(* POST /predict_async: the job is stored as queued, then its record is    *)
(* produced and flushed.  An exception in either call answers 500.         *)
SubmitStep(h, j, f) ==
    /\ SetResult(j, "queued", None)
    /\ handlers' = [handlers EXCEPT ![h] = [job |-> j, features |-> f]]
    /\ UNCHANGED <<requestVars, replyVars, watch, faults>>

Submit(h, j, f) == handlers[h] = None /\ Room /\ SubmitStep(h, j, f)

(* set_result raised: 500, and nothing is stored or produced.              *)
SubmitStoreFails(h) ==
    /\ handlers[h] = None
    /\ Fault("store")
    /\ UNCHANGED <<results, handlers, requestVars, replyVars, watch, lost>>

Produce(h) ==
    /\ handlers[h] # None
    /\ requests' = Append(requests, handlers[h])
    /\ handlers' = [handlers EXCEPT ![h] = None]
    /\ UNCHANGED <<results, position, committed, phase, payload,
                   replyVars, watch, faults, lost>>

(* produce raised (500), or its delivery failed after flush, which nothing *)
(* reports (200): the stored "queued" stays and no record will answer it.  *)
ProduceFails(h) ==
    /\ handlers[h] # None
    /\ Fault("produce")
    /\ handlers' = [handlers EXCEPT ![h] = None]
    /\ lost' = lost \cup {handlers[h].job}
    /\ UNCHANGED <<results, requestVars, replyVars, watch>>

(* The submissions of a job so far, the ones not produced yet included.    *)
Submissions(j) ==
    Cardinality({i \in DOMAIN requests : requests[i] # Undecodable /\ requests[i].job = j})
      + Cardinality({h \in Pending : handlers[h].job = j})

(* AsyncInferenceProducer.enqueue: a list of features under a fresh uuid,  *)
(* and nothing stored for it.                                              *)
EnqueueList(j) ==
    /\ Room
    /\ results[j] = None /\ Submissions(j) = 0
    /\ requests' = Append(requests, [job |-> j, features |-> ListFeatures])
    /\ UNCHANGED <<results, handlers, position, committed, phase, payload,
                   replyVars, watch, faults, lost>>

(* Some other producer puts a record on the topic that cannot be decoded.  *)
ProduceMalformed ==
    /\ Room
    /\ Fault("malformed")
    /\ requests' = Append(requests, Undecodable)
    /\ UNCHANGED <<results, handlers, position, committed, phase, payload,
                   replyVars, watch, lost>>

-----------------------------------------------------------------------------
(* _request_loop.                                                          *)
Current == requests[position]

PollRequest ==
    /\ phase = "polling"
    /\ position < Len(requests)
    /\ position' = position + 1
    /\ phase' = "serving"
    /\ UNCHANGED <<results, handlers, requests, committed, payload,
                   replyVars, watch, faults, lost>>

(* The loop's local payload after this iteration's decoding: a record that *)
(* cannot be decoded raises before the assignment, so the payload is still *)
(* the one of an earlier iteration.                                        *)
Decoded == IF Current = Undecodable THEN payload ELSE Current.job

Cause == IF Current = Undecodable THEN None ELSE Current.job

Publish(t, reply) == replies' = [replies EXCEPT ![t] = Append(@, reply)]

PredictedForPayload == \* variant: the job id of an earlier iteration
    Publish("response", [job |-> payload, status |-> "done",
                         features |-> Current.features, cause |-> Cause])

PredictedFinally == \* variant: the dead letter is published in a finally
    replies' = [t \in Topics |-> Append(replies[t],
        [job |-> Current.job, status |-> IF t = "dlq" THEN "failed" ELSE "done",
         features |-> IF t = "dlq" THEN None ELSE Current.features, cause |-> Cause])]

Predicted ==
    Publish("response", [job |-> Current.job, status |-> "done",
                         features |-> Current.features, cause |-> Cause])

RejectedLogOnly == UNCHANGED replies \* variant: the except branch only logs

Rejected ==
    Publish("dlq", [job |-> Decoded, status |-> "failed",
                    features |-> None, cause |-> Cause])

Serve ==
    /\ phase = "serving"
    /\ payload' = Decoded
    /\ UNCHANGED <<results, handlers, requests, position, committed,
                   read, saved, storing, watch>>

Predictable == Current # Undecodable /\ Current.features \in Features

ServeDone ==
    /\ Serve /\ Predictable
    /\ Predicted
    /\ phase' = "polling"
    /\ UNCHANGED <<faults, lost>>

ServeRejected ==
    /\ Serve /\ ~Predictable
    /\ Rejected
    /\ phase' = "polling"
    /\ UNCHANGED <<faults, lost>>

(* The model raises on valid features, or the response cannot be produced: *)
(* the except branch sends the job to the dead-letter topic.               *)
ServeRaises ==
    /\ Serve /\ Predictable
    /\ Fault("predict") \/ Fault("publish")
    /\ Rejected
    /\ phase' = "polling"
    /\ UNCHANGED lost

(* The reply is handed to the producer and its delivery fails: nothing     *)
(* reports it.                                                             *)
ServeUndelivered ==
    /\ Serve
    /\ Fault("publish")
    /\ lost' = lost \cup (IF Predictable THEN {Current.job} ELSE {Decoded} \ {None})
    /\ phase' = "polling"
    /\ UNCHANGED replies

(* Publishing to the dead-letter topic raises inside the except branch:    *)
(* the thread ends, and _STARTED keeps another one from being started.     *)
ServeDies ==
    /\ Serve
    /\ ~Predictable \/ "predict" \in FaultKinds
    /\ Fault("publish")
    /\ phase' = "dead"
    /\ lost' = lost \cup ({Cause, Decoded} \ {None})
    /\ UNCHANGED replies

CommitRequests ==
    /\ committed < position
    /\ committed' = position
    /\ UNCHANGED <<results, handlers, requests, position, phase, payload,
                   replyVars, watch, faults, lost>>

-----------------------------------------------------------------------------
(* _response_loop: one consumer of both topics, which have no order        *)
(* between them.                                                           *)
PollResponseOnly(t) == \* variant: the dead-letter topic is not subscribed
    /\ t = "response" /\ storing = None
    /\ read[t] < Len(replies[t])
    /\ read' = [read EXCEPT ![t] = @ + 1]
    /\ storing' = t
    /\ UNCHANGED <<results, handlers, requestVars, replies, saved, watch, faults, lost>>

PollReply(t) ==
    /\ storing = None
    /\ read[t] < Len(replies[t])
    /\ read' = [read EXCEPT ![t] = @ + 1]
    /\ storing' = t
    /\ UNCHANGED <<results, handlers, requestVars, replies, saved, watch, faults, lost>>

Stored == replies[storing][read[storing]]

(* A reply without a job id raises and is dropped.                         *)
StoreReply ==
    /\ storing # None
    /\ storing' = None
    /\ IF Stored.job = None
       THEN UNCHANGED <<results, lost>>
       ELSE SetResult(Stored.job, Stored.status, Stored.features)
    /\ UNCHANGED <<handlers, requestVars, replies, read, saved, watch, faults>>

(* set_result raised: logged, and the loop goes on to the next record.     *)
StoreReplyFails ==
    /\ storing # None
    /\ Fault("store")
    /\ storing' = None
    /\ lost' = lost \cup ({Stored.job} \ {None})
    /\ UNCHANGED <<results, handlers, requestVars, replies, read, saved, watch>>

CommitReplies(t) ==
    /\ saved[t] < read[t]
    /\ saved' = [saved EXCEPT ![t] = read[t]]
    /\ UNCHANGED <<results, handlers, requestVars, replies, read, storing,
                   watch, faults, lost>>

-----------------------------------------------------------------------------
(* The jobs a crash of the process abandons: stored by a handler that has  *)
(* not produced yet, or being handled past a committed offset.             *)
Abandoned ==
    {handlers[h].job : h \in Pending}
      \cup (IF phase = "serving" /\ committed = position THEN {Cause} \ {None} ELSE {})
      \cup (IF storing # None /\ saved[storing] = read[storing]
            THEN {Stored.job} \ {None} ELSE {})

RestartServing == \* variant: the request loop resumes where it was
    /\ handlers' = [h \in Handlers |-> None]
    /\ position' = committed
    /\ phase' = phase /\ payload' = None
    /\ read' = saved
    /\ storing' = None
    /\ watch' = [j \in Jobs |-> "none"]

Restart ==
    /\ handlers' = [h \in Handlers |-> None]
    /\ position' = committed
    /\ phase' = "polling" /\ payload' = None
    /\ read' = saved
    /\ storing' = None
    /\ watch' = [j \in Jobs |-> "none"]

Crash ==
    /\ Fault("crash")
    /\ lost' = lost \cup Abandoned
    /\ Restart
    /\ UNCHANGED <<results, requests, committed, replies, saved>>

(* The key's TTL runs out.                                                 *)
Expire(j) ==
    /\ results[j] # None
    /\ Fault("expire")
    /\ results' = [results EXCEPT ![j] = None]
    /\ UNCHANGED <<handlers, requestVars, replyVars, watch, lost>>

-----------------------------------------------------------------------------
(* GET /result/{job_id}/wait and the websocket: both poll the store.       *)
Waiting(j) == watch[j] \in {"wait", "ws"}

SettledDone(j) == \* variant: waits for a prediction, not for an answer
    results[j] # None /\ results[j].status = "done"

Settled(j) == results[j] # None /\ results[j].status # "queued"

StartWatch(j, kind) ==
    /\ j \in Watched /\ watch[j] = "none"
    /\ watch' = [watch EXCEPT ![j] = kind]
    /\ UNCHANGED <<results, handlers, requestVars, replyVars, faults, lost>>

WatchAnswered(j) ==
    /\ Waiting(j) /\ Settled(j)
    /\ watch' = [watch EXCEPT ![j] = "answered"]
    /\ UNCHANGED <<results, handlers, requestVars, replyVars, faults, lost>>

(* The deadline of wait_result passes; ws_result has none.                 *)
WatchTimeout(j) ==
    /\ watch[j] = "wait" /\ ~Settled(j)
    /\ watch' = [watch EXCEPT ![j] = "timeout"]
    /\ UNCHANGED <<results, handlers, requestVars, replyVars, faults, lost>>

-----------------------------------------------------------------------------
Api ==
    \/ \E h \in Handlers, j \in Jobs, f \in Features : Submit(h, j, f)
    \/ \E h \in Handlers : SubmitStoreFails(h) \/ Produce(h) \/ ProduceFails(h)
    \/ \E j \in Jobs : EnqueueList(j)
    \/ ProduceMalformed

RequestLoop == PollRequest \/ ServeDone \/ ServeRejected \/ ServeRaises

ResponseLoop == (\E t \in Topics : PollReply(t)) \/ StoreReply

Watch(j) == StartWatch(j, "wait") \/ StartWatch(j, "ws") \/ WatchAnswered(j) \/ WatchTimeout(j)

Next ==
    \/ Api \/ RequestLoop \/ ServeUndelivered \/ ServeDies \/ CommitRequests
    \/ ResponseLoop \/ StoreReplyFails \/ (\E t \in Topics : CommitReplies(t))
    \/ Crash \/ (\E j \in Jobs : Expire(j) \/ Watch(j))

Spec == Init /\ [][Next]_vars

(* The threads run: a stored handler produces, both loops poll and handle  *)
(* what they polled, and a watcher polls the store.  Nothing obliges a     *)
(* client to submit or a fault to occur.                                   *)
Fairness ==
    /\ \A h \in Handlers : WF_vars(Produce(h))
    /\ WF_vars(RequestLoop)
    /\ WF_vars(ResponseLoop)
    /\ \A j \in Jobs : WF_vars(WatchAnswered(j))

FairSpec == Spec /\ Fairness

-----------------------------------------------------------------------------
(* Where a job's answer may still come from.                               *)
InHandler(j) == \E h \in Handlers : handlers[h] # None /\ handlers[h].job = j

Unserved == IF phase = "serving" THEN position ELSE position + 1

InRequests(j) ==
    \E i \in DOMAIN requests :
        /\ i >= Unserved
        /\ requests[i] # Undecodable
        /\ requests[i].job = j

Unstored(t) == IF storing = t THEN read[t] ELSE read[t] + 1

InReplies(j) ==
    \E t \in Topics : \E i \in DOMAIN replies[t] :
        i >= Unstored(t) /\ replies[t][i].job = j

InFlight(j) == InHandler(j) \/ InRequests(j) \/ InReplies(j)

Queued(j) == results[j] # None /\ results[j].status = "queued"

(* A job whose stored status is "queued" is answered by something still on *)
(* its way: a handler about to produce, a request not handled yet, or a    *)
(* reply not stored yet.  Only a fault that destroyed its last record can  *)
(* leave it queued with nothing on the way.  Storing before producing      *)
(* (main.py predict_async) is what makes it so.                            *)
NoJobForgotten == \A j \in Jobs : Queued(j) => InFlight(j) \/ j \in lost

(* A stored prediction was computed from features submitted for that job.  *)
PredictionOfSubmission ==
    \A j \in Jobs : results[j] # None /\ results[j].status = "done" =>
        \E i \in DOMAIN requests :
            requests[i] = [job |-> j, features |-> results[j].features]

(* While the process does not crash, the answer to a job, until its key    *)
(* expires, changes only if the job was submitted again or some record on  *)
(* the request topic could not be decoded.  (A record that cannot be decoded   *)
(* fails the job of the record before it, which may have been answered.)   *)
AnswerStable ==
    [][\A j \in Jobs : Settled(j) /\ results'[j] \notin {results[j], None} =>
          \/ Submissions(j)' > 1
          \/ \E i \in DOMAIN requests : requests[i] = Undecodable]_vars

(* Every job that was stored is eventually answered, done or failed, or    *)
(* its key expires, unless a fault destroyed its record or ended the       *)
(* request thread.                                                         *)
Unanswerable(j) == results[j] = None \/ j \in lost \/ phase = "dead"

(* Under the same conditions a client that waits for a stored job gets an  *)
(* answer: the websocket, which has no deadline, does not hang.            *)
JobAnswered ==
    \A j \in Jobs :
      /\ results[j] # None ~> Settled(j) \/ Unanswerable(j)
      /\ (Waiting(j) /\ results[j] # None) ~> ~Waiting(j) \/ Unanswerable(j)

(* Jobs, features and handlers are told apart by nothing but equality.     *)
Symmetric == Permutations(Jobs) \cup Permutations(Features) \cup Permutations(Handlers)
=============================================================================

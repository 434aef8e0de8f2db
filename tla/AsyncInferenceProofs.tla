------------------------ MODULE AsyncInferenceProofs ------------------------
(* Theorems about AsyncInference, for every set of jobs, features and      *)
(* handlers, every choice of faults and any number of requests.            *)
EXTENDS AsyncInference, FiniteSetTheorems, TLAPS

USE InferenceAssumption

(* A reply put on a topic keeps both topics and the offsets into them      *)
(* well typed.                                                             *)
LEMMA PublishTyped ==
    ASSUME RepliesTyped, NEW t \in Topics, NEW reply \in Reply,
           Publish(t, reply), UNCHANGED <<read, saved, storing>>
    PROVE  RepliesTyped'
<1>1. replies' \in [Topics -> Seq(Reply)]
  BY DEF RepliesTyped, Publish
<1>2. \A u \in Topics : Len(replies[u]) <= Len(replies'[u])
  BY DEF RepliesTyped, Publish
<1> QED
  BY <1>1, <1>2 DEF RepliesTyped, Topics

LEMMA TypeInit == Init => TypeOK
<1> SUFFICES ASSUME Init PROVE TypeOK
  OBVIOUS
<1>1. ApiTyped
  BY DEF Init, ApiTyped
<1>2. RequestsTyped
  <2>1. requests = <<>> /\ Len(requests) = 0 /\ position = 0 /\ committed = 0
    BY DEF Init
  <2>2. requests \in Seq(Request \cup {Undecodable})
    BY <2>1
  <2>3. phase = "polling" /\ payload = None
    BY DEF Init
  <2> QED
    BY <2>1, <2>2, <2>3 DEF RequestsTyped
<1>3. RepliesTyped
  BY DEF Init, RepliesTyped
<1> QED
  BY <1>1, <1>2, <1>3 DEF TypeOK

LEMMA TypeStep == TypeOK /\ [Next]_vars => TypeOK'
<1> SUFFICES ASSUME TypeOK, [Next]_vars PROVE TypeOK'
  OBVIOUS
<1> USE DEF TypeOK, RequestsTyped, RepliesTyped, ApiTyped
<1>1. ASSUME NEW h \in Handlers, NEW j \in Jobs, NEW f \in Features, Submit(h, j, f)
      PROVE  TypeOK'
  BY <1>1 DEF Submit, SubmitStep, SetResult, requestVars, replyVars, Record
<1>2. ASSUME NEW h \in Handlers, SubmitStoreFails(h) PROVE TypeOK'
  BY <1>2 DEF SubmitStoreFails, Fault, requestVars, replyVars
<1>3. ASSUME NEW h \in Handlers, Produce(h) PROVE TypeOK'
  <2>1. handlers[h] \in Request
    BY <1>3 DEF Produce, Request
  <2> QED
    BY <1>3, <2>1 DEF Produce, replyVars
<1>4. ASSUME NEW h \in Handlers, ProduceFails(h) PROVE TypeOK'
  BY <1>4 DEF ProduceFails, Fault, requestVars, replyVars
<1>5. ASSUME NEW j \in Jobs, EnqueueList(j) PROVE TypeOK'
  <2>1. [job |-> j, features |-> ListFeatures] \in Request
    BY DEF Request
  <2> QED
    BY <1>5, <2>1 DEF EnqueueList, replyVars
<1>6. CASE ProduceMalformed
  BY <1>6 DEF ProduceMalformed, Fault, replyVars
<1>7. CASE PollRequest
  BY <1>7 DEF PollRequest, replyVars
<1>8. ASSUME phase = "serving"
      PROVE  /\ Decoded \in Jobs \cup {None}
             /\ Cause \in Jobs \cup {None}
             /\ Predictable => Current.job \in Jobs /\ Current.features \in Features
  <2>1. Current \in Request \cup {Undecodable}
    BY <1>8 DEF Current
  <2> QED
    BY <2>1 DEF Decoded, Cause, Predictable, Request
<1>9. CASE ServeDone
  <2>1. phase = "serving" /\ Predictable
    BY <1>9 DEF ServeDone, Serve
  <2>2. [job |-> Current.job, status |-> "done", features |-> Current.features,
         cause |-> Cause] \in Reply
    BY <1>8, <2>1 DEF Reply
  <2>3. RepliesTyped'
    <3> HIDE DEF RepliesTyped
    <3>1. "response" \in Topics /\ Predicted /\ UNCHANGED <<read, saved, storing>>
      BY <1>9 DEF ServeDone, Serve, Topics
    <3> QED
      BY <2>2, <3>1, PublishTyped DEF Predicted
  <2> QED
    BY <1>8, <1>9, <2>1, <2>3 DEF ServeDone, Serve
<1>10. ASSUME phase = "serving", Rejected, UNCHANGED <<read, saved, storing>>
       PROVE  RepliesTyped'
  <2>1. [job |-> Decoded, status |-> "failed", features |-> None,
         cause |-> Cause] \in Reply
    BY <1>8, <1>10 DEF Reply
  <2> HIDE DEF RepliesTyped
  <2> QED
    BY <1>10, <2>1, PublishTyped DEF Rejected, Topics
<1>11. CASE ServeRejected
  <2>1. RepliesTyped'
    BY <1>10, <1>11 DEF ServeRejected, Serve
  <2> QED
    BY <1>8, <1>11, <2>1 DEF ServeRejected, Serve
<1>12. CASE ServeRaises
  <2>1. RepliesTyped'
    BY <1>10, <1>12 DEF ServeRaises, Serve
  <2> QED
    <3>1. RequestsTyped'
      BY <1>8, <1>12 DEF ServeRaises, Serve
    <3>2. ApiTyped'
      BY <1>8, <1>12 DEF ServeRaises, Serve, Fault
    <3> QED
      BY <2>1, <3>1, <3>2
<1>13. CASE ServeUndelivered
  <2>1. RepliesTyped'
    BY <1>13 DEF ServeUndelivered, Serve
  <2> QED
    <3>1. RequestsTyped'
      BY <1>8, <1>13 DEF ServeUndelivered, Serve
    <3>2. ApiTyped'
      BY <1>8, <1>13 DEF ServeUndelivered, Serve, Fault
    <3> QED
      BY <2>1, <3>1, <3>2
<1>14. CASE ServeDies
  <2>1. RepliesTyped'
    BY <1>14 DEF ServeDies, Serve
  <2> QED
    <3>1. RequestsTyped'
      BY <1>8, <1>14 DEF ServeDies, Serve
    <3>2. ApiTyped'
      BY <1>8, <1>14 DEF ServeDies, Serve, Fault
    <3> QED
      BY <2>1, <3>1, <3>2
<1>15. CASE CommitRequests
  BY <1>15 DEF CommitRequests, replyVars
<1>16. ASSUME NEW t \in Topics, PollReply(t) PROVE TypeOK'
  BY <1>16 DEF PollReply, requestVars
<1>17. storing # None => Stored \in Reply
  BY DEF Stored
<1>18. CASE StoreReply
  <2>1. Stored.job # None => [status |-> Stored.status,
                              features |-> Stored.features] \in Record /\ Stored.job \in Jobs
    BY <1>17, <1>18 DEF StoreReply, Reply, Record
  <2> QED
    <3>1. results' \in [Jobs -> Record \cup {None}] /\ lost' \subseteq Jobs
      <4>1. CASE Stored.job = None
        BY <1>18, <4>1 DEF StoreReply
      <4>2. CASE Stored.job # None
        <5>1. SetResult(Stored.job, Stored.status, Stored.features)
          BY <1>18, <4>2 DEF StoreReply
        <5> QED
          BY <2>1, <4>2, <5>1 DEF SetResult
      <4> QED
        BY <4>1, <4>2
    <3> QED
      BY <1>18, <3>1 DEF StoreReply, requestVars
<1>19. CASE StoreReplyFails
  <2>1. {Stored.job} \ {None} \subseteq Jobs
    BY <1>17, <1>19 DEF StoreReplyFails, Reply
  <2> QED
    BY <1>19, <2>1 DEF StoreReplyFails, requestVars, Fault
<1>20. ASSUME NEW t \in Topics, CommitReplies(t) PROVE TypeOK'
  BY <1>20 DEF CommitReplies, requestVars
<1>21. CASE Crash
  <2>1. Abandoned \subseteq Jobs
    BY <1>8, <1>17 DEF Abandoned, Pending, Reply
  <2> QED
    <3>1. RepliesTyped'
      BY <1>21 DEF Crash, Restart
    <3>3. RequestsTyped'
      <4>1. /\ requests' = requests /\ position' = committed /\ committed' = committed
            /\ phase' = "polling" /\ payload' = None
        BY <1>21 DEF Crash, Restart
      <4> QED
        BY <4>1
    <3>2. ApiTyped'
      BY <1>21, <2>1 DEF Crash, Restart, Fault
    <3> QED
      BY <3>1, <3>2, <3>3
<1>22. ASSUME NEW j \in Jobs, Expire(j) PROVE TypeOK'
  BY <1>22 DEF Expire, Fault, requestVars, replyVars
<1>23. ASSUME NEW j \in Jobs, Watch(j) PROVE TypeOK'
  <2>1. watch' \in [Jobs -> {"none", "wait", "ws", "answered", "timeout"}]
    BY <1>23 DEF Watch, StartWatch, WatchAnswered, WatchTimeout
  <2>2. UNCHANGED <<results, handlers, requestVars, replyVars, faults, lost>>
    BY <1>23 DEF Watch, StartWatch, WatchAnswered, WatchTimeout
  <2> QED
    BY <2>1, <2>2 DEF requestVars, replyVars
<1>24. CASE UNCHANGED vars
  BY <1>24 DEF vars, requestVars, replyVars
<1> QED
  BY <1>1, <1>2, <1>3, <1>4, <1>5, <1>6, <1>7, <1>9, <1>11, <1>12, <1>13, <1>14,
     <1>15, <1>16, <1>18, <1>19, <1>20, <1>21, <1>22, <1>23, <1>24
     DEF Next, Api, RequestLoop, ResponseLoop

(* The variables always have the types TypeOK gives them; in particular no *)
(* consumer commits past what it polled or polls past the end of a topic.  *)
THEOREM TypeCorrect == Spec => []TypeOK
  BY TypeInit, TypeStep, PTL DEF Spec

-----------------------------------------------------------------------------
(* What is on its way for job j, as TypeOK lets the provers see it: a      *)
(* request that is not served yet stays on its way while requests are only *)
(* added and served no further, and likewise for replies.                  *)
LEMMA RequestsKept ==
    ASSUME TypeOK, NEW j \in Jobs, InRequests(j), Unserved' <= Unserved,
           TypeOK', requests' = requests \/ \E r \in Request \cup {Undecodable} : requests' = Append(requests, r)
    PROVE  InRequests(j)'
<1>1. PICK i \in DOMAIN requests :
        i >= Unserved /\ requests[i] # Undecodable /\ requests[i].job = j
  BY DEF InRequests
<1>2. i \in DOMAIN requests' /\ requests'[i] = requests[i]
  BY <1>1 DEF TypeOK, RequestsTyped
<1>3. Unserved \in Nat /\ Unserved' \in Nat /\ i \in Nat
  BY <1>1 DEF TypeOK, RequestsTyped, Unserved
<1>4. i >= Unserved'
  BY <1>1, <1>3
<1> QED
  BY <1>1, <1>2, <1>3, <1>4 DEF InRequests

LEMMA RepliesKept ==
    ASSUME TypeOK, TypeOK', NEW j \in Jobs, InReplies(j),
           \A t \in Topics : Unstored(t)' <= Unstored(t),
           \A t \in Topics : \/ replies'[t] = replies[t]
                             \/ \E r \in Reply : replies'[t] = Append(replies[t], r)
    PROVE  InReplies(j)'
<1>0. PICK t \in Topics : \E i \in DOMAIN replies[t] : i >= Unstored(t) /\ replies[t][i].job = j
  BY DEF InReplies
<1>1. PICK i \in DOMAIN replies[t] : i >= Unstored(t) /\ replies[t][i].job = j
  BY <1>0
<1>2. i \in DOMAIN replies'[t] /\ replies'[t][i] = replies[t][i]
  <2>1. replies[t] \in Seq(Reply)
    BY DEF TypeOK, RepliesTyped
  <2>2. CASE replies'[t] = replies[t]
    BY <1>1, <2>2
  <2>3. CASE \E r \in Reply : replies'[t] = Append(replies[t], r)
    BY <1>1, <2>1, <2>3
  <2> QED
    BY <2>2, <2>3
<1>3. i \in Nat /\ Unstored(t) \in Nat /\ Unstored(t)' \in Nat
  <2>1. replies[t] \in Seq(Reply) /\ read[t] \in Nat /\ read'[t] \in Nat
    BY DEF TypeOK, RepliesTyped
  <2>2. i \in Nat
    BY <1>1, <2>1
  <2> QED
    BY <2>1, <2>2 DEF Unstored
<1>4. i >= Unstored(t)'
  BY <1>1, <1>3
<1> QED
  BY <1>1, <1>2, <1>4 DEF InReplies

(* The record being served is the only one that stops being on its way.    *)
LEMMA ServeKeeps ==
    ASSUME TypeOK, TypeOK', NEW j \in Jobs, InRequests(j), Serve, phase' # "serving"
    PROVE  InRequests(j)' \/ j = Cause
<1>1. PICK i \in DOMAIN requests :
        i >= Unserved /\ requests[i] # Undecodable /\ requests[i].job = j
  BY DEF InRequests
<1>2. phase = "serving" /\ requests' = requests /\ position' = position
  BY DEF Serve
<1>3. i \in Nat /\ position \in Nat
  BY <1>1 DEF TypeOK, RequestsTyped
<1>4. CASE i = position
  BY <1>1, <1>4 DEF Cause, Current
<1>5. CASE i # position
  <2>1. i >= Unserved'
    BY <1>1, <1>2, <1>3, <1>5 DEF Unserved
  <2> QED
    BY <1>1, <1>2, <2>1 DEF InRequests
<1> QED
  BY <1>4, <1>5

(* A reply just published is on its way to the store.                      *)
LEMMA PublishedInFlight ==
    ASSUME TypeOK, TypeOK', NEW j \in Jobs, NEW t \in Topics, NEW reply \in Reply,
           reply.job = j, Publish(t, reply), UNCHANGED <<read, storing>>
    PROVE  InReplies(j)'
<1> DEFINE n == Len(replies[t]) + 1
<1>1. replies[t] \in Seq(Reply) /\ replies'[t] = Append(replies[t], reply)
  BY DEF TypeOK, RepliesTyped, Publish
<1>2. n \in DOMAIN replies'[t] /\ replies'[t][n] = reply
  BY <1>1
<1>3. read[t] \in Nat /\ read[t] <= Len(replies[t]) /\ Len(replies[t]) \in Nat
  BY <1>1 DEF TypeOK, RepliesTyped
<1>4. n >= Unstored(t)'
  BY <1>3 DEF Unstored
<1> QED
  BY <1>2, <1>4 DEF InReplies

LEMMA ForgottenStep ==
    ASSUME TypeOK, TypeOK', NoJobForgotten, [Next]_vars
    PROVE  NoJobForgotten'
<1> SUFFICES ASSUME NEW j \in Jobs, Queued(j)' PROVE InFlight(j)' \/ j \in lost'
  BY DEF NoJobForgotten
<1> USE DEF InFlight
<1>1. Queued(j) => InFlight(j) \/ j \in lost
  BY DEF NoJobForgotten
<1>2. ASSUME results'[j] = results[j], handlers' = handlers, lost \subseteq lost',
             Unserved' <= Unserved,
             requests' = requests \/ \E r \in Request \cup {Undecodable} : requests' = Append(requests, r),
             replies' = replies, \A t \in Topics : Unstored(t)' <= Unstored(t)
      PROVE  InFlight(j)' \/ j \in lost'
  <2>1. Queued(j)
    BY <1>2 DEF Queued
  <2>2. InHandler(j) => InHandler(j)'
    BY <1>2 DEF InHandler
  <2> QED
    BY <1>1, <1>2, <2>1, <2>2, RequestsKept, RepliesKept
<1>3. ASSUME UNCHANGED <<position, phase>> PROVE Unserved' <= Unserved
  BY <1>3 DEF Unserved, TypeOK, RequestsTyped
<1>4. ASSUME UNCHANGED <<read, storing>>
      PROVE  \A t \in Topics : Unstored(t)' <= Unstored(t)
  BY <1>4 DEF Unstored, TypeOK, RepliesTyped
<1>5. ASSUME NEW h \in Handlers, NEW k \in Jobs, NEW f \in Features, Submit(h, k, f)
      PROVE  InFlight(j)' \/ j \in lost'
  <2>0. /\ handlers[h] = None
        /\ handlers' = [handlers EXCEPT ![h] = [job |-> k, features |-> f]]
        /\ results' = [results EXCEPT ![k] = [status |-> "queued", features |-> None]]
        /\ lost' = lost \ {k}
        /\ UNCHANGED <<position, phase, requests, replies, read, storing>>
    BY <1>5 DEF Submit, SubmitStep, SetResult, requestVars, replyVars
  <2>1. CASE j = k
    <3>1. handlers'[h] = [job |-> k, features |-> f]
      BY <2>0 DEF TypeOK, ApiTyped
    <3> QED
      BY <2>1, <3>1 DEF InHandler
  <2>2. CASE j # k
    <3>1. Queued(j)
      BY <2>0, <2>2 DEF Queued, TypeOK, ApiTyped
    <3>2. InHandler(j) => InHandler(j)'
      BY <2>0 DEF InHandler, TypeOK, ApiTyped
    <3> QED
      BY <1>1, <1>3, <1>4, <2>0, <2>2, <3>1, <3>2, RequestsKept, RepliesKept
  <2> QED
    BY <2>1, <2>2
<1>6. ASSUME NEW h \in Handlers, SubmitStoreFails(h)
      PROVE  InFlight(j)' \/ j \in lost'
  BY <1>2, <1>3, <1>4, <1>6 DEF SubmitStoreFails, requestVars, replyVars
<1>7. ASSUME NEW h \in Handlers, Produce(h)
      PROVE  InFlight(j)' \/ j \in lost'
  <2>0. /\ handlers[h] # None
        /\ requests' = Append(requests, handlers[h])
        /\ handlers' = [handlers EXCEPT ![h] = None]
        /\ UNCHANGED <<results, position, phase, replies, read, storing, lost>>
    BY <1>7 DEF Produce, replyVars
  <2>1. Queued(j)
    BY <2>0 DEF Queued
  <2>2. handlers[h] \in Request /\ requests \in Seq(Request \cup {Undecodable})
    BY <2>0 DEF TypeOK, RequestsTyped, ApiTyped, Request
  <2>3. CASE handlers[h].job = j
    <3> DEFINE n == Len(requests) + 1
    <3>1. n \in DOMAIN requests' /\ requests'[n] = handlers[h]
      BY <2>0, <2>2
    <3>2. n >= Unserved'
      BY <2>0, <2>2 DEF Unserved, TypeOK, RequestsTyped
    <3>3. handlers[h] # Undecodable
      BY <2>2 DEF Request
    <3> QED
      BY <2>3, <3>1, <3>2, <3>3 DEF InRequests
  <2>4. CASE handlers[h].job # j
    <3>1. InHandler(j) => InHandler(j)'
      BY <2>0, <2>4 DEF InHandler, TypeOK, ApiTyped
    <3> QED
      BY <1>1, <1>3, <1>4, <2>0, <2>1, <2>2, <3>1, RequestsKept, RepliesKept
  <2> QED
    BY <2>3, <2>4
<1>8. ASSUME NEW h \in Handlers, ProduceFails(h)
      PROVE  InFlight(j)' \/ j \in lost'
  <2>0. /\ handlers' = [handlers EXCEPT ![h] = None]
        /\ lost' = lost \cup {handlers[h].job}
        /\ UNCHANGED <<results, requests, position, phase, replies, read, storing>>
    BY <1>8 DEF ProduceFails, requestVars, replyVars
  <2>1. Queued(j)
    BY <2>0 DEF Queued
  <2>2. InHandler(j) => InHandler(j)' \/ j \in lost'
    BY <2>0 DEF InHandler, TypeOK, ApiTyped
  <2> QED
    BY <1>1, <1>3, <1>4, <2>0, <2>1, <2>2, RequestsKept, RepliesKept
<1>9. ASSUME NEW k \in Jobs, EnqueueList(k)
      PROVE  InFlight(j)' \/ j \in lost'
  <2>1. [job |-> k, features |-> ListFeatures] \in Request
    BY DEF Request
  <2> QED
    BY <1>2, <1>3, <1>4, <1>9, <2>1 DEF EnqueueList, replyVars
<1>10. CASE ProduceMalformed
  BY <1>2, <1>3, <1>4, <1>10 DEF ProduceMalformed, replyVars
<1>11. CASE PollRequest
  <2>1. Unserved' <= Unserved
    BY <1>11 DEF PollRequest, Unserved, TypeOK, RequestsTyped
  <2> QED
    BY <1>2, <1>4, <1>11, <2>1 DEF PollRequest, replyVars
<1>12. ASSUME Serve, phase' # "serving", lost \subseteq lost',
              \/ Cause = j /\ j \in lost' /\ replies' = replies
              \/ Cause # j /\ replies' = replies
              \/ \E t \in Topics : \E r \in Reply :
                    /\ Publish(t, r)
                    /\ Cause = j => r.job = j
       PROVE  InFlight(j)' \/ j \in lost'
  <2>0. UNCHANGED <<results, handlers, requests, position, read, storing>>
    BY <1>12 DEF Serve
  <2>1. Queued(j)
    BY <2>0 DEF Queued
  <2>2. InHandler(j) => InHandler(j)'
    BY <2>0 DEF InHandler
  <2>3. InRequests(j) => InRequests(j)' \/ j = Cause
    BY <1>12, ServeKeeps
  <2>4. CASE replies' = replies
    <3>1. InReplies(j) => InReplies(j)'
      BY <1>4, <2>0, <2>4, RepliesKept
    <3>2. j = Cause => j \in lost' \/ InReplies(j)'
      BY <1>12, <2>0, PublishedInFlight
    <3> QED
      BY <1>1, <1>12, <2>1, <2>2, <2>3, <3>1, <3>2
  <2>5. ASSUME NEW t \in Topics, NEW r \in Reply, Publish(t, r), Cause = j => r.job = j
        PROVE  InFlight(j)' \/ j \in lost'
    <3>1. \A u \in Topics : \/ replies'[u] = replies[u]
                            \/ \E x \in Reply : replies'[u] = Append(replies[u], x)
      BY <2>5 DEF Publish, TypeOK, RepliesTyped
    <3>2. InReplies(j) => InReplies(j)'
      BY <1>4, <2>0, <3>1, RepliesKept
    <3>3. j = Cause => InReplies(j)'
      BY <2>0, <2>5, PublishedInFlight
    <3> QED
      BY <1>1, <1>12, <2>1, <2>2, <2>3, <3>2, <3>3
  <2> QED
    BY <1>12, <2>4, <2>5
<1>13. phase = "serving" => /\ Current \in Request \cup {Undecodable}
                            /\ payload \in Jobs \cup {None}
  BY DEF Current, TypeOK, RequestsTyped
<1>14. CASE ServeDone
  <2> DEFINE r == [job |-> Current.job, status |-> "done",
                   features |-> Current.features, cause |-> Cause]
  <2>1. phase = "serving" /\ Predictable
    BY <1>14 DEF ServeDone, Serve
  <2>2. r \in Reply /\ (Cause = j => r.job = j)
    BY <1>13, <2>1 DEF Predictable, Cause, Request, Reply
  <2>3. Publish("response", r) /\ "response" \in Topics
    BY <1>14 DEF ServeDone, Predicted, Topics
  <2> HIDE DEF r
  <2> QED
    BY <1>12, <1>14, <2>2, <2>3 DEF ServeDone
<1>15. CASE ServeRejected \/ ServeRaises
  <2> DEFINE r == [job |-> Decoded, status |-> "failed", features |-> None, cause |-> Cause]
  <2>1. Serve /\ phase = "serving" /\ phase' = "polling" /\ lost' = lost
    BY <1>15 DEF ServeRejected, ServeRaises, Serve
  <2>2. r \in Reply /\ (Cause = j => r.job = j)
    BY <1>13, <2>1 DEF Cause, Decoded, Request, Reply
  <2>3. Publish("dlq", r) /\ "dlq" \in Topics
    BY <1>15 DEF ServeRejected, ServeRaises, Rejected, Topics
  <2> HIDE DEF r
  <2> QED
    BY <1>12, <2>1, <2>2, <2>3
<1>16. CASE ServeUndelivered \/ ServeDies
  <2>1. Serve /\ phase' # "serving" /\ replies' = replies /\ lost \subseteq lost'
    BY <1>16 DEF ServeUndelivered, ServeDies
  <2>2. Cause = j => j \in lost'
    BY <1>16 DEF ServeUndelivered, ServeDies, Cause, Decoded, Predictable
  <2> QED
    BY <1>12, <2>1, <2>2
<1>17. CASE CommitRequests
  BY <1>2, <1>3, <1>4, <1>17 DEF CommitRequests, replyVars
<1>18. ASSUME NEW t \in Topics, PollReply(t) PROVE InFlight(j)' \/ j \in lost'
  <2>1. \A u \in Topics : Unstored(u)' <= Unstored(u)
    BY <1>18 DEF PollReply, Unstored, TypeOK, RepliesTyped
  <2> QED
    BY <1>2, <1>3, <1>18, <2>1 DEF PollReply, requestVars
<1>19. ASSUME storing # None, storing' = None, UNCHANGED <<replies, read>>, InReplies(j)
       PROVE  InReplies(j)' \/ j = Stored.job
  <2>1. PICK t \in Topics : \E i \in DOMAIN replies[t] : i >= Unstored(t) /\ replies[t][i].job = j
    BY <1>19 DEF InReplies
  <2>2. PICK i \in DOMAIN replies[t] : i >= Unstored(t) /\ replies[t][i].job = j
    BY <2>1
  <2>3. i \in Nat /\ read[t] \in Nat
    BY <2>2 DEF TypeOK, RepliesTyped
  <2>4. CASE storing = t /\ i = read[t]
    BY <2>2, <2>4 DEF Stored
  <2>5. CASE ~(storing = t /\ i = read[t])
    <3>1. i >= Unstored(t)'
      BY <1>19, <2>2, <2>3, <2>5 DEF Unstored
    <3> QED
      BY <1>19, <2>2, <3>1 DEF InReplies
  <2> QED
    BY <2>4, <2>5
<1>20. CASE StoreReply
  <2>0. /\ storing # None /\ storing' = None
        /\ UNCHANGED <<handlers, requests, position, phase, replies, read>>
    BY <1>20 DEF StoreReply, requestVars
  <2>1. Stored \in Reply
    BY <2>0 DEF Stored, TypeOK, RepliesTyped
  <2>2. j # Stored.job
    BY <1>20, <2>1 DEF StoreReply, SetResult, Queued, TypeOK, ApiTyped, Reply
  <2>3. results'[j] = results[j] /\ (j \in lost => j \in lost')
    BY <1>20, <2>2 DEF StoreReply, SetResult, TypeOK, ApiTyped
  <2>4. Queued(j) /\ (InHandler(j) => InHandler(j)')
    BY <2>0, <2>3 DEF Queued, InHandler
  <2> QED
    BY <1>1, <1>3, <1>19, <2>0, <2>2, <2>3, <2>4, RequestsKept
<1>21. CASE StoreReplyFails
  <2>0. /\ storing # None /\ storing' = None
        /\ UNCHANGED <<results, handlers, requests, position, phase, replies, read>>
    BY <1>21 DEF StoreReplyFails, requestVars
  <2>1. j = Stored.job => j \in lost'
    BY <1>21 DEF StoreReplyFails
  <2>2. Queued(j) /\ (InHandler(j) => InHandler(j)') /\ lost \subseteq lost'
    BY <1>21, <2>0 DEF StoreReplyFails, Queued, InHandler
  <2> QED
    BY <1>1, <1>3, <1>19, <2>0, <2>1, <2>2, RequestsKept
<1>22. ASSUME NEW t \in Topics, CommitReplies(t) PROVE InFlight(j)' \/ j \in lost'
  BY <1>2, <1>3, <1>4, <1>22 DEF CommitReplies, requestVars
<1>23. CASE Crash
  <2>0. /\ lost' = lost \cup Abandoned
        /\ position' = committed /\ phase' = "polling" /\ storing' = None
        /\ read' = saved
        /\ UNCHANGED <<results, requests, replies>>
    BY <1>23 DEF Crash, Restart
  <2>1. Queued(j)
    BY <2>0 DEF Queued
  <2>2. InHandler(j) => j \in Abandoned
    BY DEF InHandler, Abandoned, Pending
  <2>3. InRequests(j) => InRequests(j)' \/ j \in Abandoned
    <3> SUFFICES ASSUME InRequests(j) PROVE InRequests(j)' \/ j \in Abandoned
      OBVIOUS
    <3>1. PICK i \in DOMAIN requests :
            i >= Unserved /\ requests[i] # Undecodable /\ requests[i].job = j
      BY DEF InRequests
    <3>2. i \in Nat /\ position \in Nat /\ committed \in Nat /\ committed <= position
      BY <3>1 DEF TypeOK, RequestsTyped
    <3>3. CASE phase = "serving" /\ committed = position /\ i = position
      <4>1. Cause = j /\ j # None
        BY <3>1, <3>3 DEF Cause, Current
      <4> QED
        BY <3>3, <4>1 DEF Abandoned
    <3>4. CASE ~(phase = "serving" /\ committed = position /\ i = position)
      <4>1. i >= Unserved'
        BY <2>0, <3>1, <3>2, <3>4 DEF Unserved
      <4> QED
        BY <2>0, <3>1, <4>1 DEF InRequests
    <3> QED
      BY <3>3, <3>4
  <2>4. InReplies(j) => InReplies(j)' \/ j \in Abandoned
    <3> SUFFICES ASSUME InReplies(j) PROVE InReplies(j)' \/ j \in Abandoned
      OBVIOUS
    <3>1. PICK t \in Topics : \E i \in DOMAIN replies[t] : i >= Unstored(t) /\ replies[t][i].job = j
      BY DEF InReplies
    <3>2. PICK i \in DOMAIN replies[t] : i >= Unstored(t) /\ replies[t][i].job = j
      BY <3>1
    <3>3. i \in Nat /\ read[t] \in Nat /\ saved[t] \in Nat /\ saved[t] <= read[t]
      BY <3>2 DEF TypeOK, RepliesTyped
    <3>4. CASE storing = t /\ saved[t] = read[t] /\ i = read[t]
      <4>1. Stored.job = j /\ j # None /\ storing # None
        BY <3>2, <3>4 DEF Stored
      <4> QED
        BY <3>4, <4>1 DEF Abandoned
    <3>5. CASE ~(storing = t /\ saved[t] = read[t] /\ i = read[t])
      <4>1. i >= Unstored(t)'
        BY <2>0, <3>2, <3>3, <3>5 DEF Unstored
      <4> QED
        BY <2>0, <3>2, <4>1 DEF InReplies
    <3> QED
      BY <3>4, <3>5
  <2> QED
    BY <1>1, <2>0, <2>1, <2>2, <2>3, <2>4
<1>24. ASSUME NEW k \in Jobs, Expire(k) PROVE InFlight(j)' \/ j \in lost'
  <2>1. results'[j] = results[j]
    BY <1>24 DEF Expire, Queued, TypeOK, ApiTyped
  <2> QED
    BY <1>2, <1>3, <1>4, <1>24, <2>1 DEF Expire, requestVars, replyVars
<1>25. ASSUME NEW k \in Jobs, Watch(k) PROVE InFlight(j)' \/ j \in lost'
  <2>1. UNCHANGED <<results, handlers, requestVars, replyVars, faults, lost>>
    BY <1>25 DEF Watch, StartWatch, WatchAnswered, WatchTimeout
  <2> QED
    BY <1>2, <1>3, <1>4, <2>1 DEF requestVars, replyVars
<1>26. CASE UNCHANGED vars
  BY <1>2, <1>3, <1>4, <1>26 DEF vars, requestVars, replyVars
<1> QED
  BY <1>5, <1>6, <1>7, <1>8, <1>9, <1>10, <1>11, <1>14, <1>15, <1>16, <1>17, <1>18,
     <1>20, <1>21, <1>22, <1>23, <1>24, <1>25, <1>26
     DEF Next, Api, RequestLoop, ResponseLoop

(* Whatever the faults, a job stored as queued is still being worked on    *)
(* unless a fault destroyed its last record.                               *)
THEOREM NeverForgotten == Spec => []NoJobForgotten
<1>1. Init => NoJobForgotten
  BY DEF Init, NoJobForgotten, Queued
<1>2. TypeOK /\ TypeOK' /\ NoJobForgotten /\ [Next]_vars => NoJobForgotten'
  BY ForgottenStep
<1> QED
  BY <1>1, <1>2, TypeCorrect, PTL DEF Spec

-----------------------------------------------------------------------------
(* What is on the topics stays there: a step appends a request or none,    *)
(* and only the request loop appends a reply, to the record it serves.     *)
LEMMA RequestsGrow ==
    ASSUME TypeOK, [Next]_vars
    PROVE  requests' = requests \/ \E r \in Request \cup {Undecodable} : requests' = Append(requests, r)
<1>1. ASSUME NEW h \in Handlers, Produce(h)
      PROVE  \E r \in Request \cup {Undecodable} : requests' = Append(requests, r)
  <2>1. handlers[h] \in Request
    BY <1>1 DEF Produce, TypeOK, ApiTyped, Request
  <2> QED
    BY <1>1, <2>1 DEF Produce
<1>2. ASSUME NEW j \in Jobs, EnqueueList(j)
      PROVE  \E r \in Request \cup {Undecodable} : requests' = Append(requests, r)
  <2>1. [job |-> j, features |-> ListFeatures] \in Request
    BY DEF Request
  <2> QED
    BY <1>2, <2>1 DEF EnqueueList
<1>3. CASE ProduceMalformed
  BY <1>3 DEF ProduceMalformed
<1> QED
  BY <1>1, <1>2, <1>3 DEF Next, vars, requestVars, replyVars, Api, Submit, SubmitStep,
     SubmitStoreFails, ProduceFails, RequestLoop, PollRequest, Serve, ServeDone, ServeRejected,
     ServeRaises, ServeUndelivered, ServeDies, CommitRequests, ResponseLoop, PollReply,
     StoreReply, StoreReplyFails, CommitReplies, Crash, Restart, Expire, Watch, StartWatch,
     WatchAnswered, WatchTimeout

Published(t, reply) ==
    /\ Publish(t, reply)
    /\ phase = "serving" /\ phase' = "polling"
    /\ UNCHANGED <<requests, position, results, read, storing>>
    /\ reply.job = Decoded
    /\ reply.status = "done" => Predictable /\ reply.features = Current.features

LEMMA RepliesGrow ==
    ASSUME TypeOK, [Next]_vars
    PROVE  replies' = replies \/ \E t \in Topics, reply \in Reply : Published(t, reply)
<1>1. ASSUME phase = "serving"
      PROVE  /\ Decoded \in Jobs \cup {None} /\ Cause \in Jobs \cup {None}
             /\ Predictable => Current.job \in Jobs /\ Current.features \in Features
  <2>1. Current \in Request \cup {Undecodable}
    BY <1>1 DEF Current, TypeOK, RequestsTyped
  <2> QED
    BY <2>1 DEF Decoded, Cause, Predictable, Request, TypeOK, RequestsTyped
<1>2. ASSUME Serve, Rejected, phase' = "polling"
      PROVE  \E t \in Topics, reply \in Reply : Published(t, reply)
  <2> DEFINE reply == [job |-> Decoded, status |-> "failed", features |-> None, cause |-> Cause]
  <2>1. reply \in Reply
    BY <1>1, <1>2 DEF Reply, Serve
  <2>2. Published("dlq", reply)
    BY <1>2 DEF Published, Rejected, Serve
  <2> QED
    BY <2>1, <2>2 DEF Topics
<1>3. CASE ServeDone
  <2> DEFINE reply == [job |-> Current.job, status |-> "done", features |-> Current.features,
                       cause |-> Cause]
  <2>1. reply \in Reply
    BY <1>1, <1>3 DEF Reply, ServeDone, Serve
  <2>2. Published("response", reply)
    BY <1>3 DEF Published, Predicted, ServeDone, Serve, Predictable, Decoded
  <2> QED
    BY <2>1, <2>2 DEF Topics
<1>4. CASE ServeRejected \/ ServeRaises
  BY <1>2, <1>4 DEF ServeRejected, ServeRaises
<1> QED
  BY <1>3, <1>4 DEF Next, vars, requestVars, replyVars, Api, Submit, SubmitStep,
     SubmitStoreFails, Produce, ProduceFails, EnqueueList, ProduceMalformed, RequestLoop,
     PollRequest, Serve, ServeUndelivered, ServeDies, CommitRequests, ResponseLoop, PollReply,
     StoreReply, StoreReplyFails, CommitReplies, Crash, Restart, Expire, Watch, StartWatch,
     WatchAnswered, WatchTimeout

(* What a step may do to the stored results: a handler or the response     *)
(* loop sets one, or its key expires.                                      *)
LEMMA ResultsChange ==
    ASSUME TypeOK, [Next]_vars, NEW j \in Jobs, results'[j] # results[j]
    PROVE  \/ results'[j] = None
           \/ /\ \E h \in Handlers, f \in Features : Submit(h, j, f)
              /\ results'[j] = [status |-> "queued", features |-> None]
           \/ /\ StoreReply /\ Stored.job = j
              /\ results'[j] = [status |-> Stored.status, features |-> Stored.features]
<1>1. ASSUME NEW h \in Handlers, NEW k \in Jobs, NEW f \in Features, Submit(h, k, f)
      PROVE  /\ Submit(h, j, f)
             /\ results'[j] = [status |-> "queued", features |-> None]
  BY <1>1 DEF Submit, SubmitStep, SetResult, TypeOK, ApiTyped
<1>2. ASSUME StoreReply
      PROVE  /\ Stored.job = j
             /\ results'[j] = [status |-> Stored.status, features |-> Stored.features]
  <2>1. SetResult(Stored.job, Stored.status, Stored.features)
    BY <1>2 DEF StoreReply
  <2> QED
    BY <2>1 DEF SetResult, TypeOK, ApiTyped
<1>3. ASSUME NEW k \in Jobs, Expire(k) PROVE results'[j] = None
  BY <1>3 DEF Expire, TypeOK, ApiTyped
<1> QED
  BY <1>1, <1>2, <1>3 DEF Next, vars, Api, SubmitStoreFails, Produce, ProduceFails,
     EnqueueList, ProduceMalformed, RequestLoop, PollRequest, Serve, ServeDone, ServeRejected,
     ServeRaises, ServeUndelivered, ServeDies, CommitRequests, ResponseLoop, PollReply,
     StoreReplyFails, CommitReplies, Crash, Watch, StartWatch, WatchAnswered, WatchTimeout

-----------------------------------------------------------------------------
(* A prediction published was asked for.                                   *)
Asked(q, j, f) == \E i \in DOMAIN q : q[i] = [job |-> j, features |-> f]

PredictionsAsked ==
    \A t \in Topics : \A m \in DOMAIN replies[t] :
        replies[t][m].status = "done" => Asked(requests, replies[t][m].job, replies[t][m].features)

LEMMA AskedKept ==
    ASSUME TypeOK, [Next]_vars, NEW j, NEW f, Asked(requests, j, f)
    PROVE  Asked(requests', j, f)
<1>1. PICK i \in DOMAIN requests : requests[i] = [job |-> j, features |-> f]
  BY DEF Asked
<1>2. i \in DOMAIN requests' /\ requests'[i] = requests[i]
  BY <1>1, RequestsGrow DEF TypeOK, RequestsTyped
<1> QED
  BY <1>1, <1>2 DEF Asked

LEMMA PredictionsAskedStep ==
    ASSUME TypeOK, PredictionsAsked, [Next]_vars PROVE PredictionsAsked'
<1>1. CASE replies' = replies
  BY <1>1, AskedKept DEF PredictionsAsked
<1>2. ASSUME NEW t \in Topics, NEW reply \in Reply, Published(t, reply) PROVE PredictionsAsked'
  <2>1. ASSUME reply.status = "done" PROVE Asked(requests', reply.job, reply.features)
    <3>1. /\ position \in DOMAIN requests /\ Current \in Request
          /\ reply.job = Current.job /\ reply.features = Current.features
      BY <1>2, <2>1 DEF Published, TypeOK, RequestsTyped, Current, Predictable, Decoded
    <3>2. Current = [job |-> reply.job, features |-> reply.features]
      BY <3>1 DEF Request
    <3> QED
      BY <1>2, <3>1, <3>2 DEF Published, Asked, Current
  <2>2. ASSUME NEW u \in Topics, NEW m \in DOMAIN replies'[u], replies'[u][m].status = "done"
        PROVE  Asked(requests', replies'[u][m].job, replies'[u][m].features)
    <3>1. replies[u] \in Seq(Reply)
      BY DEF TypeOK, RepliesTyped
    <3>2. \/ m \in DOMAIN replies[u] /\ replies'[u][m] = replies[u][m]
          \/ replies'[u][m] = reply
      BY <1>2, <3>1 DEF Published, Publish, TypeOK, RepliesTyped
    <3>3. CASE m \in DOMAIN replies[u] /\ replies'[u][m] = replies[u][m]
      BY <2>2, <3>3, AskedKept DEF PredictionsAsked
    <3> QED
      BY <2>1, <2>2, <3>2, <3>3
  <2> QED
    BY <2>2 DEF PredictionsAsked
<1> QED
  BY <1>1, <1>2, RepliesGrow

LEMMA PredictionStep ==
    ASSUME TypeOK, PredictionsAsked, PredictionOfSubmission, [Next]_vars
    PROVE  PredictionOfSubmission'
<1> SUFFICES ASSUME NEW j \in Jobs, results'[j] # None, results'[j].status = "done"
             PROVE  Asked(requests', j, results'[j].features)
  BY DEF PredictionOfSubmission, Asked
<1>1. CASE results'[j] = results[j]
  <2>1. Asked(requests, j, results[j].features)
    BY <1>1 DEF PredictionOfSubmission, Asked
  <2> QED
    BY <1>1, <2>1, AskedKept
<1>2. CASE results'[j] # results[j]
  <2>1. /\ StoreReply /\ Stored.job = j
        /\ results'[j] = [status |-> Stored.status, features |-> Stored.features]
    BY <1>2, ResultsChange
  <2>2. storing \in Topics /\ read[storing] \in DOMAIN replies[storing]
    BY <2>1 DEF StoreReply, TypeOK, RepliesTyped
  <2>3. Asked(requests, j, Stored.features)
    BY <2>1, <2>2 DEF Stored, PredictionsAsked
  <2> QED
    BY <2>1, <2>3, AskedKept
<1> QED
  BY <1>1, <1>2

(* Whatever is retried, duplicated, crashes or expires, a stored prediction *)
(* was computed from features submitted for its job (queue_runtime.py,     *)
(* _request_loop and _response_loop).                                      *)
THEOREM PredictionsSubmitted == Spec => []PredictionOfSubmission
<1>1. Init => PredictionsAsked /\ PredictionOfSubmission
  BY DEF Init, PredictionsAsked, PredictionOfSubmission
<1>2. TypeOK /\ PredictionsAsked /\ PredictionOfSubmission /\ [Next]_vars
        => PredictionsAsked' /\ PredictionOfSubmission'
  BY PredictionsAskedStep, PredictionStep
<1> QED
  BY <1>1, <1>2, TypeCorrect, PTL DEF Spec

-----------------------------------------------------------------------------
(* While every request can be decoded, a job has at most one reply for     *)
(* each of its requests that were served.                                  *)
AllDecodable == \A i \in DOMAIN requests : requests[i] # Undecodable

Served(i, j) == i \in DOMAIN requests /\ i < Unserved /\ requests[i].job = j

ReplyTo(t, m, j) == t \in Topics /\ m \in DOMAIN replies[t] /\ replies[t][m].job = j

Replied(j) == \A t, m : ReplyTo(t, m, j) => \E i : Served(i, j)

RepliedTwice(j) ==
    \A t, m, u, n : ReplyTo(t, m, j) /\ ReplyTo(u, n, j) /\ (t # u \/ m # n) =>
        \E i, k : Served(i, j) /\ Served(k, j) /\ i # k

RepliesPaid == AllDecodable => \A j \in Jobs : Replied(j) /\ RepliedTwice(j)

(* An answer in the store is a reply the response loop is past.            *)
AnswersStored ==
    \A j \in Jobs : Settled(j) => \E t, m : ReplyTo(t, m, j) /\ m < Unstored(t)

LEMMA Forward ==
    ASSUME TypeOK, TypeOK', [Next]_vars, "crash" \notin FaultKinds
    PROVE  /\ AllDecodable' => AllDecodable
           /\ \A i, j : Served(i, j) => Served(i, j)'
           /\ \A t, m, j : ReplyTo(t, m, j) => ReplyTo(t, m, j)'
           /\ \A t \in Topics : Unstored(t) \in Nat /\ Unstored(t)' \in Nat /\ Unstored(t) <= Unstored(t)'
<1>1. ~Crash
  BY DEF Crash, Fault
<1>2. /\ DOMAIN requests \subseteq DOMAIN requests'
      /\ \A i \in DOMAIN requests : requests'[i] = requests[i]
  <2>1. requests \in Seq(Request \cup {Undecodable})
    BY DEF TypeOK, RequestsTyped
  <2>2. CASE requests' = requests
    BY <2>2
  <2>3. ASSUME NEW r \in Request \cup {Undecodable}, requests' = Append(requests, r)
        PROVE  /\ DOMAIN requests \subseteq DOMAIN requests'
               /\ \A i \in DOMAIN requests : requests'[i] = requests[i]
    <3> HIDE InferenceAssumption
    <3> QED
      BY <2>1, <2>3
  <2> QED
    BY <2>2, <2>3, RequestsGrow
<1>3. Unserved \in Nat /\ Unserved' \in Nat /\ Unserved <= Unserved'
  <2>1. /\ position \in Nat /\ position' \in Nat
        /\ \/ position' = position /\ (phase' = phase \/ phase' # "serving")
           \/ position' = position + 1 /\ phase = "polling"
    <3>1. position \in Nat /\ position' \in Nat
      BY DEF TypeOK, RequestsTyped
    <3>2. CASE PollRequest
      BY <3>1, <3>2 DEF PollRequest
    <3>3. CASE ~PollRequest
      BY <1>1, <3>1, <3>3 DEF Next, vars, requestVars, replyVars, Api, Submit, SubmitStep,
         SubmitStoreFails, Produce, ProduceFails, EnqueueList, ProduceMalformed, RequestLoop,
         Serve, ServeDone, ServeRejected, ServeRaises, ServeUndelivered, ServeDies,
         CommitRequests, ResponseLoop, PollReply, StoreReply, StoreReplyFails, CommitReplies,
         Expire, Watch, StartWatch, WatchAnswered, WatchTimeout
    <3> QED
      BY <3>2, <3>3
  <2> QED
    BY <2>1 DEF Unserved
<1>4. \A i \in DOMAIN requests : i \in Nat
  BY DEF TypeOK, RequestsTyped
<1>5. \A i, j : Served(i, j) => Served(i, j)'
  BY <1>2, <1>3, <1>4 DEF Served
<1>6. ASSUME NEW t \in Topics
      PROVE  /\ DOMAIN replies[t] \subseteq DOMAIN replies'[t]
             /\ \A m \in DOMAIN replies[t] : replies'[t][m] = replies[t][m]
  <2>1. replies[t] \in Seq(Reply)
    BY DEF TypeOK, RepliesTyped
  <2>2. CASE replies' = replies
    BY <2>2
  <2>3. ASSUME NEW u \in Topics, NEW reply \in Reply, Published(u, reply)
        PROVE  replies'[t] = replies[t] \/ replies'[t] = Append(replies[t], reply)
    BY <2>3 DEF Published, Publish, TypeOK, RepliesTyped
  <2>4. ASSUME NEW reply \in Reply, replies'[t] = Append(replies[t], reply)
        PROVE  /\ DOMAIN replies[t] \subseteq DOMAIN replies'[t]
               /\ \A m \in DOMAIN replies[t] : replies'[t][m] = replies[t][m]
    BY <2>1, <2>4
  <2> QED
    BY <2>2, <2>3, <2>4, RepliesGrow
<1>7. \A t, m, j : ReplyTo(t, m, j) => ReplyTo(t, m, j)'
  BY <1>6 DEF ReplyTo
<1>8. ASSUME NEW t \in Topics
      PROVE  Unstored(t) \in Nat /\ Unstored(t)' \in Nat /\ Unstored(t) <= Unstored(t)'
  <2>1. read[t] \in Nat /\ read'[t] \in Nat
    BY DEF TypeOK, RepliesTyped
  <2>2. CASE \E u \in Topics : PollReply(u)
    BY <2>1, <2>2 DEF PollReply, Unstored, TypeOK, RepliesTyped
  <2>3. CASE ~\E u \in Topics : PollReply(u)
    <3>1. read' = read /\ (storing' = storing \/ storing' = None)
      BY <1>1, <2>3 DEF Next, vars, requestVars, replyVars, Api, Submit, SubmitStep,
         SubmitStoreFails, Produce, ProduceFails, EnqueueList, ProduceMalformed, RequestLoop,
         PollRequest, Serve, ServeDone, ServeRejected, ServeRaises, ServeUndelivered, ServeDies,
         CommitRequests, ResponseLoop, StoreReply, StoreReplyFails, CommitReplies, Expire,
         Watch, StartWatch, WatchAnswered, WatchTimeout
    <3>2. t # None
      OBVIOUS
    <3> QED
      BY <2>1, <3>1, <3>2 DEF Unstored
  <2> QED
    BY <2>2, <2>3
<1>9. AllDecodable' => AllDecodable
  BY <1>2 DEF AllDecodable
<1> QED
  BY <1>5, <1>7, <1>8, <1>9

LEMMA RepliesPaidStep ==
    ASSUME TypeOK, TypeOK', [Next]_vars, "crash" \notin FaultKinds, RepliesPaid
    PROVE  RepliesPaid'
<1> SUFFICES ASSUME AllDecodable', NEW j \in Jobs PROVE Replied(j)' /\ RepliedTwice(j)'
  BY DEF RepliesPaid
<1>1. AllDecodable /\ Replied(j) /\ RepliedTwice(j)
  BY Forward DEF RepliesPaid
<1>2. \A i : Served(i, j) => Served(i, j)'
  BY Forward
<1>3. CASE replies' = replies
  <2>1. \A t, m : ReplyTo(t, m, j)' => ReplyTo(t, m, j)
    BY <1>3 DEF ReplyTo
  <2> QED
    BY <1>1, <1>2, <2>1 DEF Replied, RepliedTwice
<1>4. ASSUME NEW t \in Topics, NEW reply \in Reply, Published(t, reply)
      PROVE  Replied(j)' /\ RepliedTwice(j)'
  <2> DEFINE new == Len(replies[t]) + 1
  <2>1. ASSUME NEW u, NEW m, ReplyTo(u, m, j)', ~ReplyTo(u, m, j)
        PROVE  u = t /\ m = new /\ reply.job = j
    <3>1. u \in Topics /\ m \in DOMAIN replies'[u] /\ replies'[u][m].job = j
      BY <2>1 DEF ReplyTo
    <3>2. replies[u] \in Seq(Reply)
      BY <3>1 DEF TypeOK, RepliesTyped
    <3>3. u = t
      BY <1>4, <2>1, <3>1 DEF Published, Publish, ReplyTo, TypeOK, RepliesTyped
    <3>4. replies'[t] = Append(replies[t], reply)
      BY <1>4 DEF Published, Publish, TypeOK, RepliesTyped
    <3>5. m = new /\ reply.job = j
      BY <2>1, <3>1, <3>2, <3>3, <3>4 DEF ReplyTo
    <3> QED
      BY <3>3, <3>5
  <2>2. ASSUME reply.job = j PROVE \E p : Served(p, j)' /\ ~Served(p, j)
    <3>0. PICK p : p = position
      OBVIOUS
    <3>1. position \in DOMAIN requests /\ position \in Nat
      BY <1>4 DEF Published, TypeOK, RequestsTyped
    <3>2. requests[position].job = j
      BY <1>1, <1>4, <2>2, <3>1 DEF AllDecodable, Published, Decoded, Current
    <3>3. ~(position < Unserved) /\ position < Unserved'
      BY <1>4, <3>1 DEF Published, Unserved
    <3>4. Served(p, j)' /\ ~Served(p, j)
      BY <1>4, <3>0, <3>1, <3>2, <3>3 DEF Served, Published
    <3> QED
      BY <3>4
  <2>3. Replied(j)'
    BY <1>1, <1>2, <2>1, <2>2 DEF Replied
  <2>4. ASSUME NEW u, NEW m, NEW v, NEW n, ReplyTo(u, m, j)', ReplyTo(v, n, j)', u # v \/ m # n
        PROVE  \E i, k : Served(i, j)' /\ Served(k, j)' /\ i # k
    <3>1. CASE ReplyTo(u, m, j) /\ ReplyTo(v, n, j)
      BY <1>1, <1>2, <2>4, <3>1 DEF RepliedTwice
    <3>2. ASSUME ReplyTo(u, m, j) \/ ReplyTo(v, n, j), ~(ReplyTo(u, m, j) /\ ReplyTo(v, n, j))
          PROVE  \E i, k : Served(i, j)' /\ Served(k, j)' /\ i # k
      <4>1. PICK i : Served(i, j)
        BY <1>1, <3>2 DEF Replied
      <4>2. reply.job = j
        BY <2>1, <2>4, <3>2
      <4> QED
        BY <1>2, <2>2, <4>1, <4>2
    <3>3. ReplyTo(u, m, j) \/ ReplyTo(v, n, j)
      BY <2>1, <2>4
    <3> QED
      BY <3>1, <3>2, <3>3
  <2> QED
    BY <2>3, <2>4 DEF RepliedTwice
<1> QED
  BY <1>3, <1>4, RepliesGrow

LEMMA AnswersStoredStep ==
    ASSUME TypeOK, TypeOK', [Next]_vars, "crash" \notin FaultKinds, AnswersStored
    PROVE  AnswersStored'
<1> SUFFICES ASSUME NEW j \in Jobs, Settled(j)'
             PROVE  \E t, m : ReplyTo(t, m, j)' /\ m < Unstored(t)'
  BY DEF AnswersStored
<1>1. ASSUME NEW t, NEW m, ReplyTo(t, m, j), m < Unstored(t)
      PROVE  ReplyTo(t, m, j)' /\ m < Unstored(t)'
  <2>1. t \in Topics /\ m \in Nat
    BY <1>1 DEF ReplyTo, TypeOK, RepliesTyped
  <2> QED
    BY <1>1, <2>1, Forward
<1>2. CASE results'[j] = results[j]
  <2>1. Settled(j)
    BY <1>2 DEF Settled
  <2> QED
    BY <1>1, <2>1 DEF AnswersStored
<1>3. CASE results'[j] # results[j]
  <2>1. StoreReply /\ Stored.job = j
    BY <1>3, ResultsChange DEF Settled
  <2>2. /\ storing \in Topics /\ read[storing] \in DOMAIN replies[storing]
        /\ read[storing] \in Nat
    BY <2>1 DEF StoreReply, TypeOK, RepliesTyped
  <2>3. PICK t, m : t = storing /\ m = read[storing]
    OBVIOUS
  <2>4. ReplyTo(t, m, j)
    BY <2>1, <2>2, <2>3 DEF ReplyTo, Stored
  <2>5. m < Unstored(t)'
    <3>1. storing' = None /\ read' = read /\ t # None
      BY <2>1, <2>2, <2>3 DEF StoreReply
    <3> QED
      BY <2>2, <2>3, <3>1 DEF Unstored
  <2> QED
    BY <2>4, <2>5, Forward
<1> QED
  BY <1>2, <1>3

(* Two of a kind, and one of each of two kinds.                            *)
LEMMA AtLeastOne ==
    ASSUME NEW S, IsFiniteSet(S), NEW x \in S
    PROVE  Cardinality(S) \in Nat /\ Cardinality(S) >= 1
<1>1. Cardinality(S) \in Nat /\ Cardinality(S) # 0
  BY FS_CardinalityType, FS_EmptySet
<1> QED
  BY <1>1

LEMMA AtLeastTwo ==
    ASSUME NEW S, IsFiniteSet(S), NEW x \in S, NEW y \in S, x # y
    PROVE  Cardinality(S) \in Nat /\ Cardinality(S) >= 2
<1>1. Cardinality(S \ {x}) = Cardinality(S) - 1 /\ IsFiniteSet(S \ {x})
  BY FS_RemoveElement
<1>2. Cardinality(S \ {x}) >= 1 /\ Cardinality(S \ {x}) \in Nat /\ Cardinality(S) \in Nat
  BY <1>1, AtLeastOne
<1> QED
  BY <1>1, <1>2

RequestsOf(j) == {i \in DOMAIN requests : requests[i] # Undecodable /\ requests[i].job = j}
HandlersOf(j) == {h \in Pending : handlers[h].job = j}

LEMMA SubmissionSets ==
    ASSUME TypeOK, TypeOK', NEW j
    PROVE  /\ IsFiniteSet(RequestsOf(j)) /\ Cardinality(RequestsOf(j)) \in Nat
           /\ IsFiniteSet(HandlersOf(j)) /\ Cardinality(HandlersOf(j)) \in Nat
           /\ IsFiniteSet(RequestsOf(j)') /\ Cardinality(RequestsOf(j)') \in Nat
           /\ IsFiniteSet(HandlersOf(j)') /\ Cardinality(HandlersOf(j)') \in Nat
<1>1. /\ DOMAIN requests = 1..Len(requests) /\ Len(requests) \in Nat
      /\ DOMAIN requests' = 1..Len(requests') /\ Len(requests') \in Nat
  BY DEF TypeOK, RequestsTyped
<1>2. IsFiniteSet(DOMAIN requests) /\ IsFiniteSet(DOMAIN requests')
  BY <1>1, FS_Interval
<1>3. /\ RequestsOf(j) \subseteq DOMAIN requests /\ RequestsOf(j)' \subseteq DOMAIN requests'
      /\ HandlersOf(j) \subseteq Handlers /\ HandlersOf(j)' \subseteq Handlers
  BY DEF RequestsOf, HandlersOf, Pending
<1>4. /\ IsFiniteSet(RequestsOf(j)) /\ IsFiniteSet(RequestsOf(j)')
      /\ IsFiniteSet(HandlersOf(j)) /\ IsFiniteSet(HandlersOf(j)')
  BY <1>2, <1>3, FS_Subset
<1> QED
  BY <1>4, FS_CardinalityType

(* While the process does not crash, an answer changes only for a job that *)
(* was submitted again, or after a record nobody could decode              *)
(* (queue_runtime.py, _request_loop and _response_loop).                   *)
THEOREM AnswersStay ==
    ASSUME "crash" \notin FaultKinds PROVE Spec => AnswerStable
<1> DEFINE Stays ==
      \A j \in Jobs : Settled(j) /\ results'[j] \notin {results[j], None} =>
          \/ Submissions(j)' > 1
          \/ \E i \in DOMAIN requests : requests[i] = Undecodable
<1>1. Init => RepliesPaid /\ AnswersStored
  BY DEF Init, RepliesPaid, AnswersStored, Replied, RepliedTwice, ReplyTo, Settled
<1>2. TypeOK /\ TypeOK' /\ RepliesPaid /\ AnswersStored /\ [Next]_vars
        => RepliesPaid' /\ AnswersStored'
  BY RepliesPaidStep, AnswersStoredStep
<1>3. TypeOK /\ TypeOK' /\ RepliesPaid /\ AnswersStored /\ [Next]_vars => [Stays]_vars
  <2> SUFFICES ASSUME TypeOK, TypeOK', RepliesPaid, AnswersStored, [Next]_vars,
                      NEW j \in Jobs, Settled(j), results'[j] \notin {results[j], None},
                      AllDecodable
               PROVE  Submissions(j)' > 1
    BY DEF AllDecodable
  <2>1. PICK t, m : ReplyTo(t, m, j) /\ m < Unstored(t)
    BY DEF AnswersStored
  <2>2. Submissions(j)' = Cardinality(RequestsOf(j)') + Cardinality(HandlersOf(j)')
    BY DEF Submissions, RequestsOf, HandlersOf
  <2>3. \A i : Served(i, j) => i \in RequestsOf(j)
    BY DEF Served, RequestsOf, AllDecodable
  <2>4. CASE \E h \in Handlers, f \in Features : Submit(h, j, f)
    <3>1. PICK h \in Handlers, f \in Features : Submit(h, j, f)
      BY <2>4
    <3>2. PICK i : Served(i, j)
      BY <2>1 DEF RepliesPaid, Replied
    <3>3. i \in RequestsOf(j)'
      BY <2>3, <3>1, <3>2 DEF RequestsOf, Submit, SubmitStep, requestVars
    <3>4. h \in HandlersOf(j)'
      <4>1. handlers'[h] = [job |-> j, features |-> f] /\ handlers'[h] # None
        BY <3>1 DEF Submit, SubmitStep, TypeOK, ApiTyped
      <4> QED
        BY <4>1 DEF HandlersOf, Pending
    <3>5. Cardinality(RequestsOf(j)') >= 1 /\ Cardinality(HandlersOf(j)') >= 1
      BY <3>3, <3>4, SubmissionSets, AtLeastOne
    <3>6. Cardinality(RequestsOf(j)') \in Nat /\ Cardinality(HandlersOf(j)') \in Nat
      BY SubmissionSets
    <3> QED
      BY <2>2, <3>5, <3>6
  <2>5. CASE StoreReply /\ Stored.job = j
    <3>1. /\ storing \in Topics /\ read[storing] \in DOMAIN replies[storing]
          /\ read[storing] \in Nat
      BY <2>5 DEF StoreReply, TypeOK, RepliesTyped
    <3>2. PICK u, n : u = storing /\ n = read[storing]
      OBVIOUS
    <3>3. ReplyTo(u, n, j) /\ ~(n < Unstored(u))
      BY <2>5, <3>1, <3>2 DEF ReplyTo, Stored, Unstored
    <3>4. PICK i, k : Served(i, j) /\ Served(k, j) /\ i # k
      BY <2>1, <3>3 DEF RepliesPaid, RepliedTwice
    <3>5. RequestsOf(j)' = RequestsOf(j)
      BY <2>5 DEF RequestsOf, StoreReply, requestVars
    <3>6. Cardinality(RequestsOf(j)) >= 2
      BY <2>3, <3>4, SubmissionSets, AtLeastTwo
    <3>7. Cardinality(RequestsOf(j)') \in Nat /\ Cardinality(HandlersOf(j)') \in Nat
      BY SubmissionSets
    <3> QED
      BY <2>2, <3>5, <3>6, <3>7
  <2> QED
    BY <2>4, <2>5, ResultsChange
<1> QED
  BY <1>1, <1>2, <1>3, TypeCorrect, PTL DEF Spec, AnswerStable
=============================================================================

------------------------ MODULE OrchestratorProofs ------------------------
(* Theorems about master-orchestrator: the deployment control plane of     *)
(* DeploymentController, for any number of keys, threads, deployments,     *)
(* events and restarts; and the campaign saga of CampaignSaga, for any     *)
(* requests, campaigns, markets, bucket and bounds.                        *)
EXTENDS DeploymentController, CampaignSaga, FiniteSetTheorems, TLAPS

USE ControllerAssumption

(* The lock is held by exactly the thread between the assignment of the    *)
(* state and the append to the history.                                    *)
LockHeld == \A t \in Threads : threads[t].pc = "applying" <=> lock = t

(* Every thread at work refers to a deployment in the store, and so does   *)
(* every key, no two keys to the same one; every deployment was created,   *)
(* and has a history and a key.                                            *)
StoreSound ==
    /\ \A t \in Threads : threads[t] # Idle => Exists(threads[t].id)
    /\ \A k \in Keys : index[k] # None => Exists(index[k])
    /\ \A k, m \in Keys : index[k] # None /\ index[k] = index[m] => k = m
    /\ \A d \in Ids : Exists(d) =>
          creations[d] # None /\ Len(History(d)) > 0 /\ \E k \in Keys : index[k] = d

(* What OneDeploymentPerKey says, and that no creation is of a life of the *)
(* process that is still to come: a restart leaves all of them behind.     *)
CreationsSound == OneDeploymentPerKey /\ \A d \in Ids : creations[d] # None => creations[d].life <= restarts

LEMMA TransitionTypes ==
    \A tr \in Transitions : tr.from \in States /\ tr.event \in Events /\ tr.to \in States
  BY DEF Transitions, States, Events

(* What a recorded transition makes of a deployment.                       *)
LEMMA Recorded ==
    ASSUME NEW r \in Deployment, NEW e \in Entry
    PROVE  /\ [r EXCEPT !.history = Append(@, e)] \in Deployment
           /\ [r EXCEPT !.history = Append(@, e)].state = r.state
           /\ [r EXCEPT !.history = Append(@, e)].history = Append(r.history, e)
<1>1. r.history \in Seq(Entry) /\ Append(r.history, e) \in Seq(Entry)
  BY DEF Deployment
<1> DEFINE h == Append(r.history, e)
<1>2. [r EXCEPT !.history = Append(@, e)] = [r EXCEPT !.history = h]
  BY DEF Deployment
<1> HIDE DEF h
<1>3. /\ [r EXCEPT !.history = h] \in Deployment
      /\ [r EXCEPT !.history = h].state = r.state
      /\ [r EXCEPT !.history = h].history = h
  BY <1>1 DEF Deployment, h
<1> QED
  BY <1>2, <1>3 DEF h

LEMMA TypeInit == Init => TypeOK
  BY DEF Init, TypeOK

LEMMA TypeStep == TypeOK /\ StoreSound /\ [Next]_vars => TypeOK'
<1> SUFFICES ASSUME TypeOK, StoreSound, [Next]_vars PROVE TypeOK'
  OBVIOUS
<1> USE DEF TypeOK
<1>1. ASSUME NEW t \in Threads, NEW pc, NEW d, NEW e, Proceed(t, pc, d, e),
             [pc |-> pc, id |-> d, event |-> e] \in Busy
      PROVE  threads' \in [Threads -> Busy \cup {Idle}]
  BY <1>1 DEF Proceed
<1>2. ASSUME NEW t \in Threads, threads[t].pc # "idle"
      PROVE  /\ threads[t] \in Busy /\ threads[t].id \in Ids
             /\ deployments[threads[t].id] \in Deployment
  <2>1. threads[t] \in Busy /\ threads[t] # Idle
    BY <1>2 DEF Idle
  <2> QED
    BY <1>2, <2>1 DEF Busy, StoreSound, Exists
<1>3. ASSUME NEW t \in Threads, NEW k \in Keys, Create(t, k) PROVE TypeOK'
  <2>1. CASE Reuse(k) /\ Proceed(t, "emitting", index[k], "deploy.requested")
    <3>1. index[k] \in Ids
      BY <2>1 DEF Reuse
    <3>2. threads' \in [Threads -> Busy \cup {Idle}]
      BY <1>1, <2>1, <3>1 DEF Busy
    <3> QED
      BY <1>3, <2>1, <3>2 DEF Create, Reuse
  <2>2. ASSUME NEW d \in Ids, New(k, d), Proceed(t, "emitting", d, "deploy.requested")
        PROVE  TypeOK'
    <3>1. threads' \in [Threads -> Busy \cup {Idle}]
      BY <1>1, <2>2 DEF Busy
    <3>2. [event |-> "created", state |-> "queued"] \in Entry
      BY DEF Entry, States
    <3>3. [state |-> "queued",
           history |-> <<[event |-> "created", state |-> "queued"]>>] \in Deployment
      BY <3>2 DEF Deployment, States
    <3>4. deployments' \in [Ids -> Deployment \cup {None}]
      BY <2>2, <3>3 DEF New
    <3>5. creations' \in [Ids -> Creation \cup {None}]
      BY <2>2 DEF New, Creation
    <3> QED
      BY <1>3, <2>2, <3>1, <3>4, <3>5 DEF Create, New
  <2> QED
    BY <1>3, <2>1, <2>2 DEF Create
<1>4. ASSUME NEW t \in Threads, NEW d \in Ids, NEW tr \in Transitions, Apply(t, d, tr)
      PROVE  TypeOK'
  <2>1. deployments[d] \in Deployment /\ tr.to \in States /\ tr.event \in Events
    BY <1>4, TransitionTypes DEF Apply
  <2>2. deployments' \in [Ids -> Deployment \cup {None}]
    BY <1>4, <2>1 DEF Apply, Deployment
  <2>3. threads' \in [Threads -> Busy \cup {Idle}]
    BY <1>1, <1>4, <2>1 DEF Apply, Busy
  <2> QED
    BY <1>4, <2>2, <2>3 DEF Apply
<1>5. ASSUME NEW t \in Threads, NEW d \in Ids, Get(t, d) PROVE TypeOK'
  <2>1. threads' \in [Threads -> Busy \cup {Idle}]
    BY <1>1, <1>5 DEF Get, Busy
  <2> QED
    BY <1>5, <2>1 DEF Get
<1>6. ASSUME NEW t \in Threads, Proceeds(t) PROVE TypeOK'
  <2>1. threads[t].pc # "idle"
    BY <1>6 DEF Proceeds, Record, Emit, EmitFails, Dump
  <2>2. CASE Record(t)
    <3> DEFINE d == threads[t].id
               e == [event |-> threads[t].event, state |-> deployments[d].state]
    <3>1. threads[t].pc = "applying" /\ threads[t].event \in Events /\ d \in Ids
      BY <1>2, <2>1, <2>2 DEF Record, Busy
    <3>2. threads' \in [Threads -> Busy \cup {Idle}]
      BY <1>1, <2>2, <3>1 DEF Record, Busy
    <3>3. e \in Entry /\ deployments[d].history \in Seq(Entry)
      BY <1>2, <2>1, <3>1 DEF Entry, Deployment
    <3>4. [deployments[d] EXCEPT !.history = Append(@, e)] \in Deployment
      BY <1>2, <2>1, <3>3, Recorded
    <3>5. deployments' \in [Ids -> Deployment \cup {None}]
      BY <2>2, <3>1, <3>4 DEF Record
    <3> QED
      BY <2>2, <3>2, <3>5 DEF Record
  <2>3. CASE Emit(t)
    <3> DEFINE d == threads[t].id
               m == [event |-> threads[t].event, id |-> d, state |-> deployments[d].state]
    <3>1. d \in Ids /\ threads[t].event \in Events \cup {"deploy.requested"}
      BY <1>2, <2>1, <2>3 DEF Emit, Busy
    <3>2. threads' \in [Threads -> Busy \cup {Idle}]
      BY <1>1, <2>3, <3>1 DEF Emit, Busy
    <3>3. m \in Emitted
      BY <1>2, <2>1, <3>1 DEF Emitted, Deployment
    <3> QED
      BY <2>3, <3>2, <3>3 DEF Emit
  <2>4. CASE EmitFails(t)
    <3>1. threads[t].id \in Ids /\ threads[t].event \in Events \cup {"deploy.requested"}
      BY <1>2, <2>1, <2>4 DEF EmitFails, Busy
    <3>2. threads' \in [Threads -> Busy \cup {Idle}]
      BY <1>1, <2>4, <3>1 DEF EmitFails, Busy
    <3> QED
      BY <2>4, <3>2 DEF EmitFails
  <2>5. CASE Dump(t)
    BY <1>2, <2>1, <2>5 DEF Dump
  <2> QED
    BY <1>6, <2>2, <2>3, <2>4, <2>5 DEF Proceeds
<1>7. CASE Restart
  BY <1>7 DEF Restart
<1>8. CASE UNCHANGED vars
  BY <1>8 DEF vars
<1> QED
  BY <1>3, <1>4, <1>5, <1>6, <1>7, <1>8 DEF Next

LEMMA LockStep == TypeOK /\ LockHeld /\ [Next]_vars => LockHeld'
<1> SUFFICES ASSUME TypeOK, LockHeld, [Next]_vars PROVE LockHeld'
  OBVIOUS
<1> USE DEF LockHeld
<1>1. ASSUME NEW t \in Threads, NEW pc, NEW d, NEW e, Proceed(t, pc, d, e)
      PROVE  \A u \in Threads :
                threads'[u].pc = IF u = t THEN pc ELSE threads[u].pc
  BY <1>1 DEF Proceed, TypeOK
<1>2. ASSUME NEW t \in Threads, NEW k \in Keys, Create(t, k) PROVE LockHeld'
  <2>1. /\ lock = None /\ lock' = None
        /\ \E d : Proceed(t, "emitting", d, "deploy.requested")
    BY <1>2 DEF Create
  <2> QED
    BY <1>1, <2>1
<1>3. ASSUME NEW t \in Threads, NEW d \in Ids, NEW tr \in Transitions, Apply(t, d, tr)
      PROVE  LockHeld'
  <2>1. lock = None /\ lock' = t /\ Proceed(t, "applying", d, tr.event)
    BY <1>3 DEF Apply
  <2> QED
    BY <1>1, <2>1
<1>4. ASSUME NEW t \in Threads, NEW d \in Ids, Get(t, d) PROVE LockHeld'
  <2>1. lock = None /\ lock' = None /\ Proceed(t, "dumping", d, "get")
    BY <1>4 DEF Get
  <2> QED
    BY <1>1, <2>1
<1>5. ASSUME NEW t \in Threads, Proceeds(t) PROVE LockHeld'
  <2>1. CASE Record(t)
    <3>1. /\ threads[t].pc = "applying" /\ lock' = None
          /\ Proceed(t, "emitting", threads[t].id, threads[t].event)
      BY <2>1 DEF Record
    <3> QED
      BY <1>1, <3>1
  <2>2. CASE Emit(t) \/ EmitFails(t)
    <3>1. /\ threads[t].pc = "emitting" /\ lock' = lock
          /\ Proceed(t, "dumping", threads[t].id, threads[t].event)
      BY <2>2 DEF Emit, EmitFails
    <3> QED
      BY <1>1, <3>1
  <2>3. CASE Dump(t)
    BY <2>3 DEF Dump, TypeOK, Idle
  <2> QED
    BY <1>5, <2>1, <2>2, <2>3 DEF Proceeds
<1>6. CASE Restart
  BY <1>6 DEF Restart, Idle
<1>7. CASE UNCHANGED vars
  BY <1>7 DEF vars
<1> QED
  BY <1>2, <1>3, <1>4, <1>5, <1>6, <1>7 DEF Next

LEMMA StoreStep == TypeOK /\ TypeOK' /\ StoreSound /\ [Next]_vars => StoreSound'
<1> SUFFICES ASSUME TypeOK, TypeOK', StoreSound, [Next]_vars PROVE StoreSound'
  OBVIOUS
<1> USE DEF StoreSound, Exists, History
<1>0. ASSUME NEW t \in Threads, NEW pc, NEW d, NEW e, Proceed(t, pc, d, e)
      PROVE  \A u \in Threads : /\ u # t => threads'[u] = threads[u]
                                /\ threads'[t].id = d
  BY <1>0 DEF Proceed, TypeOK
<1>1. ASSUME NEW t \in Threads, NEW k \in Keys, Create(t, k) PROVE StoreSound'
  <2>1. CASE Reuse(k) /\ Proceed(t, "emitting", index[k], "deploy.requested")
    BY <1>0, <2>1 DEF Reuse
  <2>2. ASSUME NEW d \in Ids, New(k, d), Proceed(t, "emitting", d, "deploy.requested")
        PROVE  StoreSound'
    <3>1. deployments[d] = None /\ \A m \in Keys : index[m] # d
      BY <2>2 DEF New, TypeOK
    <3>2. /\ deployments'[d] = [state |-> "queued",
                history |-> <<[event |-> "created", state |-> "queued"]>>]
          /\ \A x \in Ids \ {d} : deployments'[x] = deployments[x]
          /\ index'[k] = d
          /\ \A m \in Keys \ {k} : index'[m] = index[m]
          /\ index[k] = None
          /\ creations'[d] # None /\ \A x \in Ids \ {d} : creations'[x] = creations[x]
      BY <2>2 DEF New, TypeOK, Creation
    <3>3. deployments'[d] # None /\ Len(deployments'[d].history) = 1
      <4>1. [event |-> "created", state |-> "queued"] \in Entry
        BY DEF Entry, States
      <4>2. [state |-> "queued",
             history |-> <<[event |-> "created", state |-> "queued"]>>] \in Deployment
        BY <4>1 DEF Deployment, States
      <4> QED
        BY <3>2, <4>2
    <3>4. \A x \in Ids : Exists(x)' => x = d \/ Exists(x)
      BY <3>2
    <3>5. \A u \in Threads : threads'[u] # Idle => Exists(threads[u].id)'
      <4>1. ASSUME NEW u \in Threads, u # t, threads'[u] # Idle
            PROVE  Exists(threads[u].id)'
        <5>1. threads'[u] = threads[u] /\ threads[u] \in Busy
          BY <1>0, <2>2, <4>1 DEF TypeOK
        <5>2. threads[u].id \in Ids /\ deployments[threads[u].id] # None
          BY <4>1, <5>1 DEF Busy
        <5> QED
          BY <3>2, <3>3, <5>1, <5>2
      <4> QED
        BY <1>0, <2>2, <3>3, <4>1
    <3>6. \A m \in Keys : index'[m] # None => Exists(index[m])'
      <4>1. \A m \in Keys : index[m] # None => index[m] \in Ids
        BY DEF TypeOK
      <4> QED
        BY <3>1, <3>2, <3>3, <4>1
    <3>7. \A x \in Ids : Exists(x)' =>
            creations'[x] # None /\ Len(History(x)') > 0 /\ \E m \in Keys : index'[m] = x
      BY <3>1, <3>2, <3>3, <3>4
    <3>8. \A m, n \in Keys : index'[m] # None /\ index'[m] = index'[n] => m = n
      BY <3>1, <3>2
    <3> QED
      BY <3>5, <3>6, <3>7, <3>8
  <2> QED
    BY <1>1, <2>1, <2>2 DEF Create
<1>2. ASSUME NEW d \in Ids, deployments[d] # None, deployments'[d] # None,
             \A x \in Ids \ {d} : deployments'[x] = deployments[x],
             Len(deployments'[d].history) >= Len(deployments[d].history),
             UNCHANGED <<index, creations>>,
             \A t \in Threads : threads'[t] # Idle => threads'[t] = threads[t] \/ threads'[t].id = d
      PROVE  StoreSound'
  <2>1. deployments[d].history \in Seq(Entry)
    BY <1>2 DEF TypeOK, Deployment
  <2>2. \A t \in Threads : threads'[t] # Idle => Exists(threads[t].id)'
    <3>1. ASSUME NEW t \in Threads, threads'[t] # Idle, threads'[t] = threads[t]
          PROVE  Exists(threads[t].id)'
      <4>1. threads[t] \in Busy
        BY <3>1 DEF TypeOK
      <4>2. threads[t].id \in Ids /\ deployments[threads[t].id] # None
        BY <3>1, <4>1 DEF Busy
      <4> QED
        BY <1>2, <3>1, <4>2
    <3> QED
      BY <1>2, <3>1
  <2>3. \A k \in Keys : index[k] # None => index[k] \in Ids
    BY DEF TypeOK
  <2> QED
    <3>1. \A k \in Keys : index'[k] # None => Exists(index[k])'
      BY <1>2, <2>3
    <3>2. deployments'[d] \in Deployment /\ Len(deployments'[d].history) > 0
      BY <1>2, <2>1 DEF TypeOK, Deployment
    <3>3. \A x \in Ids : Exists(x)' =>
            creations'[x] # None /\ Len(History(x)') > 0 /\ \E k \in Keys : index'[k] = x
      BY <1>2, <3>2
    <3> QED
      BY <1>2, <2>2, <3>1, <3>3
<1>3. ASSUME UNCHANGED <<deployments, index, creations>>,
             \A t \in Threads : threads'[t] # Idle =>
                threads'[t] = threads[t] \/ Exists(threads'[t].id)
      PROVE  StoreSound'
  BY <1>3
<1>4. ASSUME NEW t \in Threads, threads[t].pc # "idle"
      PROVE  threads[t].id \in Ids /\ deployments[threads[t].id] # None
  <2>1. threads[t] \in Busy /\ threads[t] # Idle
    BY <1>4 DEF TypeOK, Idle
  <2> QED
    BY <2>1 DEF Busy
<1>5. ASSUME NEW t \in Threads, NEW d \in Ids, NEW tr \in Transitions, Apply(t, d, tr)
      PROVE  StoreSound'
  <2>1. /\ deployments[d] # None /\ Proceed(t, "applying", d, tr.event)
        /\ deployments' = [deployments EXCEPT ![d].state = tr.to]
        /\ UNCHANGED <<index, creations>>
    BY <1>5 DEF Apply
  <2>2. deployments[d] \in Deployment
    BY <2>1 DEF TypeOK
  <2>3. /\ deployments'[d] = [deployments[d] EXCEPT !.state = tr.to]
        /\ \A x \in Ids \ {d} : deployments'[x] = deployments[x]
    BY <2>1 DEF TypeOK
  <2>4. /\ deployments'[d].history = deployments[d].history
        /\ deployments'[d] \in Deployment
    BY <2>2, <2>3, TransitionTypes DEF Deployment
  <2>5. Len(deployments'[d].history) >= Len(deployments[d].history)
    BY <2>2, <2>4 DEF Deployment
  <2> QED
    BY <1>0, <1>2, <2>1, <2>3, <2>4, <2>5
<1>6. ASSUME NEW t \in Threads, NEW d \in Ids, Get(t, d) PROVE StoreSound'
  BY <1>0, <1>3, <1>6 DEF Get
<1>7. ASSUME NEW t \in Threads, Proceeds(t) PROVE StoreSound'
  <2>1. CASE Record(t)
    <3> DEFINE d == threads[t].id
               e == [event |-> threads[t].event, state |-> deployments[d].state]
    <3>1. /\ threads[t].pc = "applying" /\ Proceed(t, "emitting", d, threads[t].event)
          /\ deployments' = [deployments EXCEPT ![d].history = Append(@, e)]
          /\ UNCHANGED <<index, creations>>
      BY <2>1 DEF Record
    <3>2. d \in Ids /\ deployments[d] \in Deployment
      BY <1>4, <3>1 DEF TypeOK
    <3>3. /\ deployments'[d] = [deployments[d] EXCEPT !.history = Append(@, e)]
          /\ \A x \in Ids \ {d} : deployments'[x] = deployments[x]
      <4>1. deployments \in [Ids -> Deployment \cup {None}]
        BY <1>4 DEF TypeOK
      <4> HIDE DEF e
      <4> QED
        BY <3>1, <3>2, <4>1
    <3>4. e \in Entry
      BY <3>1, <3>2 DEF Entry, Deployment, TypeOK, Busy, Idle
    <3>5. /\ deployments'[d] \in Deployment
          /\ deployments'[d].history = Append(deployments[d].history, e)
      BY <3>2, <3>3, <3>4, Recorded
    <3>6. Len(deployments'[d].history) >= Len(deployments[d].history)
      <4>1. deployments[d].history \in Seq(Entry)
        BY <3>2 DEF Deployment
      <4> HIDE DEF d, e
      <4> QED
        BY <3>4, <3>5, <4>1
    <3>7. deployments[d] # None /\ deployments'[d] # None
      BY <3>2, <3>5
    <3> HIDE DEF d, e
    <3>8. \A u \in Threads : threads'[u] # Idle =>
            threads'[u] = threads[u] \/ threads'[u].id = d
      <4>1. threads \in [Threads -> Busy \cup {Idle}]
        BY <1>4 DEF TypeOK
      <4> QED
        BY <3>1, <4>1 DEF Proceed
    <3> QED
      BY <1>2, <3>1, <3>2, <3>3, <3>6, <3>7, <3>8
  <2>2. CASE Emit(t) \/ EmitFails(t)
    <3>1. /\ threads[t].pc = "emitting"
          /\ Proceed(t, "dumping", threads[t].id, threads[t].event)
          /\ UNCHANGED <<deployments, index, creations>>
      BY <2>2 DEF Emit, EmitFails
    <3> QED
      BY <1>0, <1>3, <1>4, <3>1
  <2>3. CASE Dump(t)
    BY <1>3, <2>3 DEF Dump, TypeOK
  <2> QED
    BY <1>7, <2>1, <2>2, <2>3 DEF Proceeds
<1>8. CASE Restart
  BY <1>8 DEF Restart
<1>9. CASE UNCHANGED vars
  BY <1>9 DEF vars
<1> QED
  BY <1>1, <1>5, <1>6, <1>7, <1>8, <1>9 DEF Next

(* The history only grows by the step that the thread inside apply_event   *)
(* announced, and that thread is alone.                                    *)
LEMMA HistoryStep ==
    TypeOK /\ TypeOK' /\ LockHeld /\ StoreSound /\ HistoryExplainsState /\ [Next]_vars
      => HistoryExplainsState'
<1> SUFFICES ASSUME TypeOK, TypeOK', LockHeld, StoreSound, HistoryExplainsState, [Next]_vars,
                    NEW d \in Ids, Exists(d)'
             PROVE  /\ \A i \in 1..Len(History(d)') - 1 :
                          Step(History(d)'[i], History(d)'[i + 1]) \in Transitions
                    /\ (\A t \in Threads : ~Applying(t, d)') =>
                          LastEntry(d)'.state = deployments'[d].state
                    /\ \A t \in Threads : Applying(t, d)' =>
                          Step(LastEntry(d)', [event |-> threads'[t].event,
                                               state |-> deployments'[d].state]) \in Transitions
  BY DEF HistoryExplainsState
<1> DEFINE Explained == /\ \A i \in 1..Len(History(d)') - 1 :
                              Step(History(d)'[i], History(d)'[i + 1]) \in Transitions
                        /\ (\A t \in Threads : ~Applying(t, d)') =>
                              LastEntry(d)'.state = deployments'[d].state
                        /\ \A t \in Threads : Applying(t, d)' =>
                              Step(LastEntry(d)', [event |-> threads'[t].event,
                                       state |-> deployments'[d].state]) \in Transitions
<1> SUFFICES Explained
  OBVIOUS
<1>1. ASSUME deployments'[d] = deployments[d],
             \A t \in Threads : Applying(t, d)' <=> Applying(t, d),
             \A t \in Threads : Applying(t, d) => threads'[t].event = threads[t].event
      PROVE  Explained
  <2>1. Exists(d) /\ History(d)' = History(d) /\ LastEntry(d)' = LastEntry(d)
    BY <1>1 DEF Exists, History, LastEntry
  <2> QED
    BY <1>1, <2>1 DEF HistoryExplainsState
<1>2. ASSUME NEW t \in Threads, threads[t].pc # "applying", threads'[t].pc # "applying",
             \A u \in Threads \ {t} : threads'[u] = threads[u], deployments'[d] = deployments[d]
      PROVE  Explained
  BY <1>1, <1>2 DEF Applying
<1>3. ASSUME NEW t \in Threads, NEW pc, NEW x, NEW e, Proceed(t, pc, x, e)
      PROVE  /\ threads'[t].pc = pc /\ threads'[t].id = x /\ threads'[t].event = e
             /\ \A u \in Threads \ {t} : threads'[u] = threads[u]
  BY <1>3 DEF Proceed, TypeOK
<1>4. ASSUME NEW t \in Threads, NEW k \in Keys, Create(t, k) PROVE Explained
  <2>1. threads[t].pc # "applying" /\ \A u \in Threads : threads[u].pc # "applying"
    BY <1>4 DEF Create, LockHeld, TypeOK
  <2>2. CASE Reuse(k) /\ Proceed(t, "emitting", index[k], "deploy.requested")
    BY <1>2, <1>3, <2>1, <2>2 DEF Reuse
  <2>3. ASSUME NEW x \in Ids, New(k, x), Proceed(t, "emitting", x, "deploy.requested")
        PROVE  Explained
    <3>1. CASE x # d
      <4>1. deployments'[d] = deployments[d]
        BY <2>3, <3>1 DEF New, TypeOK
      <4> QED
        BY <1>2, <1>3, <2>1, <2>3, <4>1
    <3>2. CASE x = d
      <4>1. /\ History(d)' = <<[event |-> "created", state |-> "queued"]>>
            /\ deployments'[d].state = "queued"
        BY <2>3, <3>2 DEF New, History, TypeOK
      <4>2. Len(History(d)') = 1 /\ LastEntry(d)'.state = "queued"
        BY <4>1 DEF LastEntry
      <4>3. \A u \in Threads : ~Applying(u, d)'
        BY <1>3, <2>1, <2>3 DEF Applying
      <4> QED
        BY <4>1, <4>2, <4>3
    <3> QED
      BY <3>1, <3>2
  <2> QED
    BY <1>4, <2>2, <2>3 DEF Create
<1>5. ASSUME NEW t \in Threads, NEW x \in Ids, NEW tr \in Transitions, Apply(t, x, tr)
      PROVE  Explained
  <2>1. /\ \A u \in Threads : threads[u].pc # "applying"
        /\ threads'[t].pc = "applying" /\ threads'[t].id = x /\ threads'[t].event = tr.event
        /\ \A u \in Threads \ {t} : threads'[u] = threads[u]
    BY <1>3, <1>5 DEF Apply, LockHeld, TypeOK
  <2>2. CASE x # d
    <3>1. deployments'[d] = deployments[d]
      BY <1>5, <2>2 DEF Apply, TypeOK
    <3>2. \A u \in Threads : ~Applying(u, d) /\ ~Applying(u, d)'
      BY <2>1, <2>2 DEF Applying
    <3> QED
      BY <1>1, <3>1, <3>2
  <2>3. CASE x = d
    <3>1. deployments[d] \in Deployment /\ deployments[d].state = tr.from
      BY <1>5, <2>3 DEF Apply, TypeOK
    <3>2. History(d)' = History(d) /\ deployments'[d].state = tr.to
      BY <1>5, <2>3, <3>1 DEF Apply, TypeOK, History, Deployment
    <3>3. LastEntry(d)' = LastEntry(d) /\ LastEntry(d).state = tr.from
      BY <1>5, <2>1, <2>3, <3>1, <3>2 DEF Apply, LastEntry, HistoryExplainsState, Exists, Applying
    <3>4. \A u \in Threads : Applying(u, d)' <=> u = t
      BY <2>1, <2>3 DEF Applying
    <3>5. Step(LastEntry(d)', [event |-> tr.event, state |-> tr.to]) = tr
      BY <3>3 DEF Step, Transitions
    <3>6. \A i \in 1..Len(History(d)') - 1 :
             Step(History(d)'[i], History(d)'[i + 1]) \in Transitions
      BY <1>5, <2>3, <3>2 DEF HistoryExplainsState, Exists, Apply
    <3> QED
      BY <2>1, <3>2, <3>4, <3>5, <3>6
  <2> QED
    BY <2>2, <2>3
<1>6. ASSUME NEW t \in Threads, NEW x \in Ids, Get(t, x) PROVE Explained
  BY <1>2, <1>3, <1>6 DEF Get, Idle
<1>7. ASSUME NEW t \in Threads, Record(t) PROVE Explained
  <2> DEFINE x == threads[t].id
             e == [event |-> threads[t].event, state |-> deployments[x].state]
  <2>1. /\ threads[t].pc = "applying" /\ lock = t
        /\ \A u \in Threads \ {t} : threads[u].pc # "applying"
        /\ \A u \in Threads : threads'[u].pc # "applying"
    BY <1>3, <1>7 DEF Record, LockHeld
  <2>2. x \in Ids /\ deployments[x] \in Deployment /\ e \in Entry
    <3>1. threads[t] \in Busy /\ threads[t] # Idle
      BY <2>1 DEF TypeOK, Idle
    <3>2. x \in Ids /\ threads[t].event \in Events
      BY <2>1, <3>1 DEF Busy
    <3>3. deployments[x] \in Deployment
      BY <3>1, <3>2 DEF StoreSound, Exists, TypeOK
    <3> QED
      BY <3>2, <3>3 DEF Entry, Deployment
  <2>3. deployments' = [deployments EXCEPT ![x].history = Append(@, e)]
    BY <1>7 DEF Record
  <2>4. CASE x # d
    <3>1. deployments'[d] = deployments[d]
      BY <2>2, <2>3, <2>4 DEF TypeOK
    <3>2. \A u \in Threads : ~Applying(u, d) /\ ~Applying(u, d)'
      BY <2>1, <2>4 DEF Applying
    <3> QED
      BY <1>1, <3>1, <3>2
  <2>5. CASE x = d
    <3>1. deployments'[d] = [deployments[d] EXCEPT !.history = Append(@, e)]
      BY <2>2, <2>3, <2>5 DEF TypeOK
    <3>2. /\ History(d)' = Append(History(d), e) /\ deployments'[d].state = deployments[d].state
          /\ History(d) \in Seq(Entry)
      BY <2>2, <2>5, <3>1, Recorded DEF History, Deployment
    <3>3. Exists(d) /\ Len(History(d)) > 0
      BY <2>1, <2>2, <2>5 DEF StoreSound, Exists
    <3>4. Step(LastEntry(d), e) \in Transitions
      BY <2>1, <2>5, <3>3 DEF HistoryExplainsState, Applying
    <3>5. e.state = deployments'[d].state
      BY <2>5, <3>2
    <3> HIDE DEF e
    <3>6. /\ Len(History(d)') = Len(History(d)) + 1 /\ LastEntry(d)' = e
          /\ \A i \in 1..Len(History(d)) : History(d)'[i] = History(d)[i]
          /\ History(d)'[Len(History(d)) + 1] = e
      BY <2>2, <3>2 DEF LastEntry
    <3>7. ASSUME NEW i \in 1..Len(History(d)') - 1
          PROVE  Step(History(d)'[i], History(d)'[i + 1]) \in Transitions
      <4>1. CASE i = Len(History(d))
        BY <3>2, <3>3, <3>4, <3>6, <4>1 DEF LastEntry
      <4>2. CASE i \in 1..Len(History(d)) - 1
        <5>1. Step(History(d)[i], History(d)[i + 1]) \in Transitions
          BY <3>3, <4>2 DEF HistoryExplainsState
        <5>2. History(d)'[i] = History(d)[i] /\ History(d)'[i + 1] = History(d)[i + 1]
          BY <3>2, <3>6, <4>2
        <5> QED
          BY <5>1, <5>2
      <4> QED
        BY <3>2, <3>6, <4>1, <4>2
    <3>8. \A u \in Threads : ~Applying(u, d)'
      BY <2>1 DEF Applying
    <3> QED
      BY <3>5, <3>6, <3>7, <3>8
  <2> QED
    BY <2>4, <2>5
<1>8. ASSUME NEW t \in Threads, Emit(t) \/ EmitFails(t) \/ Dump(t) PROVE Explained
  <2>1. CASE Emit(t) \/ EmitFails(t)
    BY <1>2, <1>3, <2>1 DEF Emit, EmitFails
  <2>2. CASE Dump(t)
    BY <1>2, <2>2 DEF Dump, TypeOK, Idle
  <2> QED
    BY <1>8, <2>1, <2>2
<1>9. CASE Restart
  BY <1>9 DEF Restart, Exists
<1>10. CASE UNCHANGED vars
  BY <1>1, <1>10 DEF vars, Applying
<1> QED
  BY <1>4, <1>5, <1>6, <1>7, <1>8, <1>9, <1>10 DEF Next, Proceeds

(* How many entries of a sequence are in T, and what one more makes of it. *)
OccursIn(s, T) == Cardinality({i \in DOMAIN s : s[i] \in T})

LEMMA OccursNat ==
    ASSUME NEW S, NEW s \in Seq(S), NEW T
    PROVE  IsFiniteSet({i \in DOMAIN s : s[i] \in T}) /\ OccursIn(s, T) \in Nat
<1>1. IsFiniteSet(1..Len(s)) /\ {i \in DOMAIN s : s[i] \in T} \in SUBSET (1..Len(s))
  BY FS_Interval
<1> QED
  BY <1>1, FS_Subset, FS_CardinalityType DEF OccursIn

LEMMA OccursAppend ==
    ASSUME NEW S, NEW s \in Seq(S), NEW x \in S, NEW T
    PROVE  OccursIn(Append(s, x), T) = IF x \in T THEN OccursIn(s, T) + 1 ELSE OccursIn(s, T)
<1> DEFINE at == {i \in DOMAIN s : s[i] \in T}
<1>1. IsFiniteSet(at) /\ Cardinality(at) \in Nat
  BY OccursNat DEF OccursIn
<1>2. /\ DOMAIN Append(s, x) = 1..(Len(s) + 1) /\ Append(s, x)[Len(s) + 1] = x
      /\ \A i \in 1..Len(s) : Append(s, x)[i] = s[i]
  OBVIOUS
<1>3. {i \in DOMAIN Append(s, x) : Append(s, x)[i] \in T} =
          IF x \in T THEN at \cup {Len(s) + 1} ELSE at
  BY <1>2
<1>4. Len(s) + 1 \notin at
  OBVIOUS
<1>5. Cardinality(at \cup {Len(s) + 1}) = Cardinality(at) + 1
  BY <1>1, <1>4, FS_AddElement
<1> QED
  BY <1>1, <1>3, <1>5 DEF OccursIn

OnTopic(d, e) == {m \in Emitted : m.event = e /\ m.id = d}
Made(e) == {m \in Entry : m.event = e}

(* The threads about to emit that d made the transition e.                 *)
Emitting(d, e) ==
    {t \in Threads : threads[t].pc = "emitting" /\ threads[t].id = d /\ threads[t].event = e}

(* A record on the topic, or about to be, has an entry of its own in the   *)
(* deployment's history.                                                   *)
EmissionsAccounted ==
    restarts = 0 =>
      \A d \in Ids, e \in Events :
        OccursIn(topic, OnTopic(d, e)) + Cardinality(Emitting(d, e)) <=
          IF Exists(d) THEN OccursIn(History(d), Made(e)) ELSE 0

LEMMA EmittingFinite ==
    \A d, e : IsFiniteSet(Emitting(d, e)) /\ Cardinality(Emitting(d, e)) \in Nat
<1> SUFFICES ASSUME NEW d, NEW e
             PROVE  IsFiniteSet(Emitting(d, e)) /\ Cardinality(Emitting(d, e)) \in Nat
  OBVIOUS
<1>1. Emitting(d, e) \in SUBSET Threads
  BY DEF Emitting
<1> QED
  BY <1>1, FS_Subset, FS_CardinalityType

LEMMA EmittedFollows == TypeOK /\ EmissionsAccounted => EmittedTransitionsHappened
<1> SUFFICES ASSUME TypeOK, EmissionsAccounted PROVE EmittedTransitionsHappened
  OBVIOUS
<1>1. ASSUME restarts = 0, NEW d \in Ids, NEW e \in Events
      PROVE  Cardinality({i \in DOMAIN topic : topic[i].event = e /\ topic[i].id = d}) <=
               IF Exists(d)
               THEN Cardinality({i \in DOMAIN History(d) : History(d)[i].event = e})
               ELSE 0
  <2>1. {i \in DOMAIN topic : topic[i] \in OnTopic(d, e)} =
          {i \in DOMAIN topic : topic[i].event = e /\ topic[i].id = d}
    BY DEF TypeOK, OnTopic
  <2>2. Exists(d) => {i \in DOMAIN History(d) : History(d)[i] \in Made(e)} =
                       {i \in DOMAIN History(d) : History(d)[i].event = e}
    <3>1. Exists(d) => History(d) \in Seq(Entry)
      BY DEF TypeOK, Exists, History, Deployment
    <3> QED
      BY <3>1 DEF Made
  <2>3. OccursIn(topic, OnTopic(d, e)) \in Nat
    BY OccursNat DEF TypeOK
  <2>4. Exists(d) => OccursIn(History(d), Made(e)) \in Nat
    BY OccursNat DEF TypeOK, Exists, History, Deployment
  <2>5. OccursIn(topic, OnTopic(d, e)) <= IF Exists(d) THEN OccursIn(History(d), Made(e)) ELSE 0
    BY <1>1, <2>3, <2>4, EmittingFinite DEF EmissionsAccounted
  <2> QED
    BY <2>1, <2>2, <2>5 DEF OccursIn
<1> QED
  BY <1>1, Zenon DEF EmittedTransitionsHappened, Occurrences

(* Each emission is paid for by the entry its thread appended: recording   *)
(* adds to both sides, emitting moves a thread onto the topic.             *)
LEMMA EmissionStep ==
    TypeOK /\ TypeOK' /\ StoreSound /\ EmissionsAccounted /\ [Next]_vars => EmissionsAccounted'
<1> SUFFICES ASSUME TypeOK, TypeOK', StoreSound, EmissionsAccounted, [Next]_vars,
                    restarts' = 0, NEW d \in Ids, NEW e \in Events
             PROVE  OccursIn(topic, OnTopic(d, e))' + Cardinality(Emitting(d, e)') <=
                      IF Exists(d)' THEN OccursIn(History(d), Made(e))' ELSE 0
  BY DEF EmissionsAccounted
<1> DEFINE n == OccursIn(topic, OnTopic(d, e))
           m == IF Exists(d) THEN OccursIn(History(d), Made(e)) ELSE 0
           Goal == n' + Cardinality(Emitting(d, e)') <= m'
<1> SUFFICES Goal
  OBVIOUS
<1>1. n \in Nat /\ m \in Nat
  BY OccursNat DEF TypeOK, Exists, History, Deployment
<1>2. n' \in Nat /\ m' \in Nat
  BY OccursNat DEF TypeOK, Exists, History, Deployment
<1>3. Cardinality(Emitting(d, e)) \in Nat /\ IsFiniteSet(Emitting(d, e))
  BY EmittingFinite
<1>4. restarts = 0 /\ ~Restart
  <2>1. ~Restart
    BY DEF Restart, TypeOK
  <2>2. restarts' = restarts
    BY <2>1, Zenon DEF Next, Create, Get, Apply, Proceeds, Record, Emit, EmitFails, Dump, vars
  <2> QED
    BY <2>1, <2>2
<1>5. n + Cardinality(Emitting(d, e)) <= m
  BY <1>4 DEF EmissionsAccounted
<1>6. ASSUME n' = n, m' >= m, Emitting(d, e)' \subseteq Emitting(d, e) PROVE Goal
  <2>1. /\ Cardinality(Emitting(d, e)') \in Nat
        /\ Cardinality(Emitting(d, e)') <= Cardinality(Emitting(d, e))
    BY <1>3, <1>6, FS_Subset, FS_CardinalityType
  <2> HIDE DEF n, m
  <2> QED
    BY <1>1, <1>2, <1>3, <1>5, <1>6, <2>1
<1>7. ASSUME NEW t \in Threads, NEW pc, NEW x, NEW f, Proceed(t, pc, x, f)
      PROVE  \A u \in Threads : u \in Emitting(d, e)' <=>
                IF u = t THEN pc = "emitting" /\ x = d /\ f = e ELSE u \in Emitting(d, e)
  BY <1>7 DEF Proceed, TypeOK, Emitting
<1>8. "deploy.requested" \notin Events /\ "created" \notin Events
  BY DEF Events, Transitions
<1>9. ASSUME NEW t \in Threads, NEW k \in Keys, Create(t, k) PROVE Goal
  <2>1. Emitting(d, e)' \subseteq Emitting(d, e)
    BY <1>7, <1>8, <1>9 DEF Create, Emitting
  <2>2. m' >= m
    <3>1. CASE UNCHANGED deployments
      BY <1>1, <3>1 DEF Exists, History
    <3>2. ASSUME NEW x \in Ids, New(k, x) PROVE m' >= m
      <4>1. CASE x = d
        <5>1. m = 0
          BY <3>2, <4>1 DEF New, StoreSound
        <5> HIDE DEF m
        <5> QED
          BY <1>2, <5>1
      <4>2. CASE x # d
        <5>1. deployments'[d] = deployments[d]
          BY <3>2, <4>2 DEF New, TypeOK
        <5> QED
          BY <1>1, <5>1 DEF Exists, History
      <4> QED
        BY <4>1, <4>2
    <3> QED
      BY <1>9, <3>1, <3>2 DEF Create, Reuse
  <2>3. n' = n
    BY <1>9 DEF Create
  <2> QED
    BY <1>6, <2>1, <2>2, <2>3
<1>10. ASSUME NEW t \in Threads, NEW x \in Ids, NEW tr \in Transitions, Apply(t, x, tr)
       PROVE  Goal
  <2>1. Emitting(d, e)' \subseteq Emitting(d, e)
    BY <1>7, <1>10 DEF Apply, Emitting
  <2>2. Exists(d)' = Exists(d) /\ (Exists(d) => History(d)' = History(d))
    <3>1. deployments[x] \in Deployment
      BY <1>10 DEF Apply, TypeOK
    <3>2. CASE x = d
      <4>1. deployments'[d] = [deployments[d] EXCEPT !.state = tr.to]
        BY <1>10, <3>2 DEF Apply, TypeOK
      <4>2. /\ deployments'[d].history = deployments[d].history
            /\ deployments'[d] \in Deployment
        BY <3>1, <3>2, <4>1, TransitionTypes DEF Deployment
      <4> QED
        BY <3>1, <3>2, <4>2 DEF Exists, History
    <3>3. CASE x # d
      BY <1>10, <3>3 DEF Apply, TypeOK, Exists, History
    <3> QED
      BY <3>2, <3>3
  <2>3. n' = n /\ m' >= m
    BY <1>1, <1>10, <2>2 DEF Apply
  <2> QED
    BY <1>6, <2>1, <2>3
<1>11. ASSUME NEW t \in Threads, Record(t) PROVE Goal
  <2> DEFINE x == threads[t].id
             f == threads[t].event
             entry == [event |-> f, state |-> deployments[x].state]
  <2>1. /\ x \in Ids /\ deployments[x] \in Deployment /\ entry \in Entry
        /\ f \in Events
    <3>1. threads[t] \in Busy /\ threads[t] # Idle /\ threads[t].pc = "applying"
      BY <1>11 DEF Record, TypeOK, Idle
    <3>2. x \in Ids /\ f \in Events
      BY <3>1 DEF Busy
    <3>3. deployments[x] \in Deployment
      BY <3>1, <3>2 DEF StoreSound, Exists, TypeOK
    <3> QED
      BY <3>2, <3>3 DEF Entry, Deployment
  <2>2. /\ deployments'[x] = [deployments[x] EXCEPT !.history = Append(@, entry)]
        /\ \A y \in Ids \ {x} : deployments'[y] = deployments[y]
    BY <1>11, <2>1 DEF Record, TypeOK
  <2>3. n' = n
    BY <1>11 DEF Record
  <2>4. CASE x = d /\ f = e
    <3>1. /\ Exists(d) /\ Exists(d)' /\ History(d) \in Seq(Entry)
          /\ History(d)' = Append(History(d), entry)
      BY <2>1, <2>2, <2>4, Recorded DEF Exists, History, Deployment
    <3>2. entry \in Made(e)
      BY <2>1, <2>4 DEF Made
    <3>3. m' = m + 1
      <4>1. OccursIn(Append(History(d), entry), Made(e)) = OccursIn(History(d), Made(e)) + 1
        BY <2>1, <3>1, <3>2, OccursAppend
      <4> QED
        BY <3>1, <4>1
    <3>4. /\ Cardinality(Emitting(d, e)') \in Nat
          /\ Cardinality(Emitting(d, e)') <= Cardinality(Emitting(d, e)) + 1
      <4>1. Emitting(d, e)' \subseteq Emitting(d, e) \cup {t}
        BY <1>7, <1>11 DEF Record, Emitting
      <4>2. /\ IsFiniteSet(Emitting(d, e) \cup {t})
            /\ Cardinality(Emitting(d, e) \cup {t}) <= Cardinality(Emitting(d, e)) + 1
        <5>1. /\ IsFiniteSet(Emitting(d, e) \cup {t})
              /\ Cardinality(Emitting(d, e) \cup {t}) =
                    IF t \in Emitting(d, e) THEN Cardinality(Emitting(d, e))
                    ELSE Cardinality(Emitting(d, e)) + 1
          BY <1>3, FS_AddElement
        <5> QED
          BY <1>3, <5>1
      <4>3. IsFiniteSet(Emitting(d, e)')
            /\ Cardinality(Emitting(d, e)') <= Cardinality(Emitting(d, e) \cup {t})
        BY <4>1, <4>2, FS_Subset
      <4> QED
        BY <1>3, <4>2, <4>3, FS_CardinalityType
    <3> HIDE DEF n, m
    <3> QED
      BY <1>1, <1>3, <1>5, <2>3, <3>3, <3>4
  <2>5. CASE ~(x = d /\ f = e)
    <3>1. Emitting(d, e)' \subseteq Emitting(d, e)
      BY <1>7, <1>11, <2>5 DEF Record, Emitting
    <3>2. m' >= m
      <4>1. CASE x # d
        <5>1. deployments'[d] = deployments[d]
          BY <2>2, <4>1
        <5> QED
          BY <1>1, <5>1 DEF Exists, History
      <4>2. CASE x = d
        <5>1. /\ Exists(d) /\ Exists(d)' /\ History(d) \in Seq(Entry)
              /\ History(d)' = Append(History(d), entry)
          <6>1. /\ deployments[d] \in Deployment /\ deployments'[d] \in Deployment
                /\ deployments'[d].history = Append(deployments[d].history, entry)
            <7>1. /\ deployments[d] \in Deployment /\ entry \in Entry
                  /\ deployments'[d] = [deployments[d] EXCEPT !.history = Append(@, entry)]
              BY <2>1, <2>2, <4>2
            <7> HIDE DEF entry
            <7> QED
              BY <7>1, Recorded
          <6> HIDE DEF entry
          <6> QED
            BY <6>1 DEF Exists, History, Deployment
        <5>2. OccursIn(Append(History(d), entry), Made(e)) >= OccursIn(History(d), Made(e))
          BY <1>1, <2>1, <5>1, OccursAppend, OccursNat
        <5> QED
          BY <5>1, <5>2
      <4> QED
        BY <4>1, <4>2
    <3> QED
      BY <1>6, <2>3, <3>1, <3>2
  <2> QED
    BY <2>4, <2>5
<1>12. ASSUME NEW t \in Threads, Emit(t) PROVE Goal
  <2> DEFINE x == threads[t].id
             f == threads[t].event
             message == [event |-> f, id |-> x, state |-> deployments[x].state]
  <2>1. threads[t].pc = "emitting" /\ topic' = Append(topic, message) /\ UNCHANGED deployments
    BY <1>12 DEF Emit
  <2>2. message \in Emitted
    <3>1. threads[t] \in Busy /\ threads[t] # Idle
      BY <2>1 DEF TypeOK, Idle
    <3>2. x \in Ids /\ f \in Events \cup {"deploy.requested"}
      BY <2>1, <3>1 DEF Busy
    <3>3. deployments[x] \in Deployment
      BY <3>1, <3>2 DEF StoreSound, Exists, TypeOK
    <3> QED
      BY <3>2, <3>3 DEF Emitted, Deployment
  <2>3. m' >= m
    BY <1>1, <2>1 DEF Exists, History
  <2>4. OccursIn(topic', OnTopic(d, e)) = IF message \in OnTopic(d, e) THEN n + 1 ELSE n
    BY <2>1, <2>2, OccursAppend DEF TypeOK
  <2>5. CASE x = d /\ f = e
    <3>1. t \in Emitting(d, e) /\ Emitting(d, e)' = Emitting(d, e) \ {t}
      BY <1>7, <1>12, <2>1, <2>5 DEF Emit, Emitting
    <3>2. /\ Cardinality(Emitting(d, e)') = Cardinality(Emitting(d, e)) - 1
          /\ Cardinality(Emitting(d, e)') \in Nat
      BY <1>3, <3>1, FS_RemoveElement, EmittingFinite, FS_CardinalityType
    <3>3. n' <= n + 1
      BY <1>1, <2>4
    <3> HIDE DEF n, m
    <3> QED
      BY <1>1, <1>2, <1>3, <1>5, <2>3, <3>2, <3>3
  <2>6. CASE ~(x = d /\ f = e)
    <3>1. message \notin OnTopic(d, e)
      BY <2>2, <2>6 DEF OnTopic
    <3>2. n' = n
      BY <2>4, <3>1
    <3>3. Emitting(d, e)' \subseteq Emitting(d, e)
      BY <1>7, <1>12 DEF Emit, Emitting
    <3> QED
      BY <1>6, <2>3, <3>2, <3>3
  <2> QED
    BY <2>5, <2>6
<1>13. ASSUME UNCHANGED <<deployments, topic>>,
              Emitting(d, e)' \subseteq Emitting(d, e) PROVE Goal
  BY <1>1, <1>6, <1>13 DEF Exists, History
<1>14. ASSUME NEW t \in Threads, EmitFails(t) \/ Dump(t) \/ \E x \in Ids : Get(t, x) PROVE Goal
  <2>1. Emitting(d, e)' \subseteq Emitting(d, e)
    <3>1. CASE EmitFails(t)
      BY <1>7, <3>1 DEF EmitFails, Emitting
    <3>2. CASE Dump(t)
      BY <3>2 DEF Dump, TypeOK, Idle, Emitting
    <3>3. ASSUME NEW x \in Ids, Get(t, x) PROVE Emitting(d, e)' \subseteq Emitting(d, e)
      BY <1>7, <3>3 DEF Get, Emitting
    <3> QED
      BY <1>14, <3>1, <3>2, <3>3
  <2> QED
    BY <1>13, <1>14, <2>1 DEF EmitFails, Dump, Get
<1>15. CASE UNCHANGED vars
  BY <1>13, <1>15 DEF vars, Emitting
<1> QED
  BY <1>4, <1>9, <1>10, <1>11, <1>12, <1>14, <1>15 DEF Next, Proceeds

(* No reachable state has a record of the wrong shape.                     *)
THEOREM TypeCorrect == Spec => []TypeOK
<1>1. Init => TypeOK /\ StoreSound
  BY TypeInit DEF Init, StoreSound, Exists
<1>2. TypeOK /\ StoreSound /\ [Next]_vars => TypeOK' /\ StoreSound'
  BY TypeStep, StoreStep
<1> QED
  BY <1>1, <1>2, PTL DEF Spec

LEMMA CreationsStep ==
    TypeOK /\ TypeOK' /\ StoreSound /\ CreationsSound /\ [Next]_vars => CreationsSound'
<1> SUFFICES ASSUME TypeOK, TypeOK', StoreSound, CreationsSound, [Next]_vars PROVE CreationsSound'
  OBVIOUS
<1>1. ASSUME UNCHANGED <<index, restarts, creations>>, \A x \in Ids : Exists(x)' = Exists(x)
      PROVE  CreationsSound'
  BY <1>1 DEF CreationsSound, OneDeploymentPerKey
<1>2. ASSUME NEW t \in Threads, NEW k \in Keys, Create(t, k) PROVE CreationsSound'
  <2>1. CASE Reuse(k)
    BY <1>1, <1>2, <2>1 DEF Create, Reuse, Exists
  <2>2. ASSUME NEW d \in Ids, New(k, d), restarts' = restarts PROVE CreationsSound'
    <3> DEFINE c == [key |-> k, life |-> restarts]
    <3>1. c \in Creation /\ c # None /\ restarts \in Nat
      BY DEF TypeOK, Creation
    <3>2. /\ creations[d] = None /\ creations'[d] = c /\ \A x \in Ids \ {d} : creations'[x] = creations[x]
          /\ index[k] = None /\ index'[k] = d /\ \A m \in Keys \ {k} : index'[m] = index[m]
          /\ \A x \in Ids \ {d} : deployments'[x] = deployments[x]
      BY <2>2 DEF New, TypeOK
    <3>3. \A x \in Ids : creations[x] # c
      BY <3>1, <3>2 DEF CreationsSound, OneDeploymentPerKey
    <3>4. deployments'[d] # None
      <4>1. [event |-> "created", state |-> "queued"] \in Entry
        BY DEF Entry, States
      <4>2. [state |-> "queued", history |-> <<[event |-> "created", state |-> "queued"]>>] \in Deployment
        BY <4>1 DEF Deployment, States
      <4> QED
        BY <2>2, <4>2 DEF New, TypeOK
    <3>5. ASSUME NEW x \in Ids, x # d
          PROVE  /\ \A o \in Ids : creations'[x] # None /\ creations'[o] = creations'[x] => o = x
                 /\ Exists(x)' <=> creations'[x] # None /\ creations'[x].life = restarts'
                 /\ Exists(x)' => index'[creations'[x].key] = x
                 /\ creations'[x] # None => creations'[x].life <= restarts'
      <4>1. /\ creations'[x] = creations[x] /\ (Exists(x)' <=> Exists(x))
            /\ creations[x] \in Creation \cup {None}
        BY <3>2, <3>5 DEF Exists, TypeOK
      <4>2. Exists(x) => creations[x].key \in Keys \ {k}
        BY <3>2, <4>1 DEF CreationsSound, OneDeploymentPerKey, Creation, TypeOK
      <4> QED
        BY <2>2, <3>2, <3>3, <4>1, <4>2 DEF CreationsSound, OneDeploymentPerKey
    <3>6. /\ \A o \in Ids : creations'[o] = creations'[d] => o = d
          /\ Exists(d)' /\ creations'[d] # None /\ creations'[d].life = restarts'
          /\ index'[creations'[d].key] = d
      <4> HIDE DEF c
      <4>1. \A o \in Ids : creations'[o] = creations'[d] => o = d
        BY <3>2, <3>3
      <4> QED
        BY <2>2, <3>1, <3>2, <3>4, <4>1 DEF Exists, c
    <3>7. restarts' <= restarts'
      BY <3>1, <2>2
    <3> QED
      BY <3>5, <3>6, <3>7 DEF CreationsSound, OneDeploymentPerKey
  <2> QED
    BY <1>2, <2>1, <2>2 DEF Create
<1>3. ASSUME NEW t \in Threads, threads[t].pc # "idle"
      PROVE  threads[t].id \in Ids /\ deployments[threads[t].id] \in Deployment
  <2>1. threads[t] \in Busy /\ threads[t] # Idle
    BY <1>3 DEF TypeOK, Idle
  <2> QED
    BY <2>1 DEF Busy, StoreSound, Exists, TypeOK
<1>4. ASSUME NEW d \in Ids, deployments[d] # None, deployments'[d] # None,
             \A x \in Ids \ {d} : deployments'[x] = deployments[x], UNCHANGED <<index, restarts, creations>>
      PROVE  CreationsSound'
  BY <1>1, <1>4 DEF Exists
<1>5. ASSUME NEW t \in Threads, NEW d \in Ids, NEW tr \in Transitions, Apply(t, d, tr) PROVE CreationsSound'
  <2>1. deployments[d] \in Deployment /\ tr.to \in States
    BY <1>5, TransitionTypes DEF Apply, TypeOK
  <2>2. deployments'[d] \in Deployment
    BY <1>5, <2>1 DEF Apply, Deployment, TypeOK
  <2> QED
    BY <1>4, <1>5, <2>2 DEF Apply, TypeOK
<1>6. ASSUME NEW t \in Threads, Record(t) PROVE CreationsSound'
  <2> DEFINE d == threads[t].id
             e == [event |-> threads[t].event, state |-> deployments[d].state]
  <2>1. d \in Ids /\ deployments[d] \in Deployment /\ threads[t] \in Busy /\ threads[t].pc = "applying"
    BY <1>3, <1>6 DEF Record, TypeOK, Idle
  <2>2. e \in Entry
    BY <2>1 DEF Busy, Entry, Deployment
  <2>3. [deployments[d] EXCEPT !.history = Append(@, e)] \in Deployment
    BY <2>1, <2>2, Recorded
  <2>4. deployments' = [deployments EXCEPT ![d] = [deployments[d] EXCEPT !.history = Append(@, e)]]
    BY <1>6, <2>1 DEF Record, TypeOK
  <2>5. UNCHANGED <<index, restarts, creations>>
    BY <1>6 DEF Record
  <2> HIDE DEF d, e
  <2>6. deployments[d] # None /\ deployments'[d] # None /\ \A x \in Ids \ {d} : deployments'[x] = deployments[x]
    BY <2>1, <2>3, <2>4 DEF TypeOK
  <2> QED
    BY <1>4, <2>1, <2>5, <2>6
<1>7. CASE Restart
  <2>1. \A x \in Ids : ~Exists(x)'
    BY <1>7 DEF Restart, Exists
  <2>2. \A x \in Ids : creations[x] # None => creations[x].life # restarts' /\ creations[x].life <= restarts'
    BY <1>7 DEF Restart, CreationsSound, TypeOK, Creation
  <2> QED
    BY <1>7, <2>1, <2>2 DEF Restart, CreationsSound, OneDeploymentPerKey
<1>8. ASSUME NEW t \in Threads, Emit(t) \/ EmitFails(t) \/ Dump(t) \/ \E d \in Ids : Get(t, d) PROVE CreationsSound'
  BY <1>1, <1>8 DEF Emit, EmitFails, Dump, Get, Exists
<1>9. CASE UNCHANGED vars
  BY <1>1, <1>9 DEF vars, Exists
<1> QED
  BY <1>2, <1>5, <1>6, <1>7, <1>8, <1>9 DEF Next, Proceeds

(* However requests interleave and fail, a key makes one deployment at     *)
(* most while the process lives, and what is kept is what was made in this *)
(* life, each record in reach of its key: only a restart lets a key make   *)
(* another one.                                                            *)
THEOREM KeysSound == Spec => []OneDeploymentPerKey
<1>1. Init => TypeOK /\ StoreSound /\ CreationsSound
  BY TypeInit DEF Init, StoreSound, Exists, CreationsSound, OneDeploymentPerKey
<1>2. TypeOK /\ StoreSound /\ CreationsSound /\ [Next]_vars => TypeOK' /\ StoreSound' /\ CreationsSound'
  BY TypeStep, StoreStep, CreationsStep
<1>3. CreationsSound => OneDeploymentPerKey
  BY DEF CreationsSound
<1> QED
  BY <1>1, <1>2, <1>3, PTL DEF Spec

(* Whoever reads a deployment's record or the decisions topic is told what *)
(* happened: however requests interleave, emit late or fail to emit, the   *)
(* history is a run of ALLOWED_TRANSITIONS that ends in the state, and no  *)
(* transition is announced more often than it was made; and the store      *)
(* keeps its types.                                                        *)
THEOREM ToldTruly == Spec => []HistoryTold
<1> DEFINE IInv == /\ TypeOK /\ LockHeld /\ StoreSound /\ HistoryExplainsState
                   /\ EmissionsAccounted
<1>1. Init => IInv
  <2> SUFFICES ASSUME Init PROVE IInv
    OBVIOUS
  <2>1. TypeOK /\ StoreSound /\ LockHeld /\ HistoryExplainsState
    BY TypeInit DEF Init, StoreSound, Exists, LockHeld, HistoryExplainsState, Idle
  <2>2. ASSUME NEW d \in Ids, NEW e \in Events
        PROVE  OccursIn(topic, OnTopic(d, e)) + Cardinality(Emitting(d, e)) <= 0
    <3>1. {i \in DOMAIN topic : topic[i] \in OnTopic(d, e)} = {} /\ Emitting(d, e) = {}
      BY DEF Init, Emitting, Idle
    <3> QED
      BY <3>1, FS_EmptySet DEF OccursIn
  <2>3. \A d \in Ids : ~Exists(d)
    BY DEF Init, Exists
  <2> QED
    BY <2>1, <2>2, <2>3 DEF EmissionsAccounted
<1>2. IInv /\ [Next]_vars => IInv'
  BY TypeStep, LockStep, StoreStep, HistoryStep, EmissionStep
<1>3. IInv => HistoryTold
  BY EmittedFollows DEF HistoryTold
<1> QED
  BY <1>1, <1>2, <1>3, PTL DEF Spec

(* Every step of the controller is a step of the life cycle, or changes    *)
(* no deployment's state.                                                  *)
THEOREM LifecycleImplemented == Spec => FollowsLifecycle
<1>1. Init => TypeOK /\ StoreSound /\ Lifecycle!Init
  BY TypeInit DEF Init, StoreSound, Exists, Lifecycle!Init, StateOf
<1>2. TypeOK /\ StoreSound /\ [Next]_vars => TypeOK' /\ StoreSound'
  BY TypeStep, StoreStep
<1>3. TypeOK /\ TypeOK' /\ StoreSound /\ [Next]_vars => [Lifecycle!Next]_StateOf
  <2> SUFFICES ASSUME TypeOK, TypeOK', StoreSound, [Next]_vars
               PROVE  [Lifecycle!Next]_StateOf
    OBVIOUS
  <2>1. ASSUME \A d \in Ids : Exists(d)' = Exists(d)
                 /\ (Exists(d) => deployments'[d].state = deployments[d].state)
        PROVE  StateOf' = StateOf
    BY <2>1 DEF StateOf
  <2>2. ASSUME NEW t \in Threads, NEW k \in Keys, Create(t, k)
        PROVE  [Lifecycle!Next]_StateOf
    <3>1. CASE Reuse(k)
      BY <2>1, <3>1 DEF Reuse, Exists
    <3>2. ASSUME NEW d \in Ids, New(k, d) PROVE [Lifecycle!Next]_StateOf
      <4>1. deployments[d] = None
        BY <3>2 DEF New, StoreSound, Exists
      <4>2. /\ deployments'[d] # None /\ deployments'[d].state = "queued"
            /\ \A x \in Ids \ {d} : deployments'[x] = deployments[x]
        <5>1. [event |-> "created", state |-> "queued"] \in Entry
          BY DEF Entry, States
        <5>2. [state |-> "queued",
               history |-> <<[event |-> "created", state |-> "queued"]>>] \in Deployment
          BY <5>1 DEF Deployment, States
        <5> QED
          BY <3>2, <5>2 DEF New, TypeOK
      <4>3. StateOf[d] = "absent" /\ StateOf' = [StateOf EXCEPT ![d] = "queued"]
        BY <4>1, <4>2 DEF StateOf, Exists
      <4> QED
        BY <4>3 DEF Lifecycle!Next, Lifecycle!Created
    <3> QED
      BY <2>2, <3>1, <3>2 DEF Create
  <2>3. ASSUME NEW t \in Threads, NEW d \in Ids, NEW tr \in Transitions, Apply(t, d, tr)
        PROVE  [Lifecycle!Next]_StateOf
    <3>1. /\ deployments[d] # None /\ deployments[d].state = tr.from
          /\ deployments' = [deployments EXCEPT ![d].state = tr.to]
      BY <2>3 DEF Apply
    <3>2. deployments[d] \in Deployment
      BY <3>1 DEF TypeOK
    <3>3. /\ deployments'[d] = [deployments[d] EXCEPT !.state = tr.to]
          /\ \A x \in Ids \ {d} : deployments'[x] = deployments[x]
      BY <3>1 DEF TypeOK
    <3>4. deployments'[d].state = tr.to /\ deployments'[d] \in Deployment
      BY <3>2, <3>3, TransitionTypes DEF Deployment
    <3>5. StateOf[d] = tr.from /\ StateOf' = [StateOf EXCEPT ![d] = tr.to]
      <4>1. deployments'[d] # None
        BY <3>4
      <4>2. \A x \in Ids : StateOf'[x] = IF x = d THEN tr.to ELSE StateOf[x]
        BY <3>3, <3>4, <4>1 DEF StateOf, Exists
      <4>3. StateOf[d] = tr.from
        BY <3>1 DEF StateOf, Exists
      <4>4. StateOf' = [x \in Ids |-> StateOf'[x]] /\ StateOf = [x \in Ids |-> StateOf[x]]
        BY DEF StateOf
      <4> HIDE DEF StateOf
      <4> QED
        BY <4>2, <4>3, <4>4
    <3>6. <<tr.from, tr.to>> \in Lifecycle!Edges /\ tr.to \in Lifecycle!States
      BY DEF Transitions, Lifecycle!Edges, Lifecycle!States
    <3> QED
      BY <3>5, <3>6 DEF Lifecycle!Next, Lifecycle!Moved
  <2>4. ASSUME NEW t \in Threads, Record(t) PROVE [Lifecycle!Next]_StateOf
    <3> DEFINE d == threads[t].id
               e == [event |-> threads[t].event, state |-> deployments[d].state]
    <3>1. /\ threads[t].pc = "applying"
          /\ deployments' = [deployments EXCEPT ![d].history = Append(@, e)]
      BY <2>4 DEF Record
    <3>2. threads[t] \in Busy /\ threads[t] # Idle
      BY <3>1 DEF TypeOK, Idle
    <3>3. d \in Ids /\ deployments[d] \in Deployment /\ e \in Entry
      <4>1. d \in Ids /\ threads[t].event \in Events
        BY <3>1, <3>2 DEF Busy
      <4>2. deployments[d] # None
        BY <3>2 DEF StoreSound, Exists
      <4>3. deployments[d] \in Deployment
        BY <4>1, <4>2 DEF TypeOK
      <4> QED
        BY <4>1, <4>3 DEF Entry, Deployment
    <3>4. /\ deployments'[d] = [deployments[d] EXCEPT !.history = Append(@, e)]
          /\ \A x \in Ids \ {d} : deployments'[x] = deployments[x]
      BY <3>1, <3>3 DEF TypeOK
    <3>5. deployments'[d].state = deployments[d].state /\ deployments'[d] \in Deployment
      BY <3>3, <3>4, Recorded
    <3> HIDE DEF d, e
    <3> QED
      BY <2>1, <3>3, <3>4, <3>5 DEF Exists
  <2>5. ASSUME UNCHANGED deployments PROVE [Lifecycle!Next]_StateOf
    BY <2>1, <2>5 DEF Exists
  <2>6. CASE Restart
    BY <2>6 DEF Restart, StateOf, Exists, Lifecycle!Next, Lifecycle!Forgotten
  <2> QED
    BY <2>2, <2>3, <2>4, <2>5, <2>6 DEF Next, Proceeds, Get, Emit, EmitFails, Dump, vars
<1> QED
  BY <1>1, <1>2, <1>3, PTL DEF Spec, FollowsLifecycle, Lifecycle!Spec

-----------------------------------------------------------------------------
HIDE ControllerAssumption
USE SagaAssumption DEF SagaAssumption

(* What a step t of an endpoint may come after: the halves of a call after *)
(* each other, a post after its token, what is paid or announced after the *)
(* post.                                                                   *)
Leads(k, s, t) ==
    /\ t = "budget" => s = "select"
    /\ t = "hrl" => s = "weigh"
    /\ t = "publish" => s = "token"
    /\ t = "checkout" => s = "publish"
    /\ t = "emit" /\ k = "profit" => s = "checkout"
    /\ t = "emit" /\ k # "profit" => s = "publish"

Opening == {"store", "features", "launch"}

InOrder(k, steps) ==
    /\ Len(steps) \in Nat \ {0}
    /\ steps[1] \in Opening /\ (k = "profit" => steps[1] = "store")
    /\ \A i \in 1..Len(steps) :
          /\ steps[i] = "checkout" => k = "profit"
          /\ steps[i] = "emit" => k \in {"campaign", "profit"}
    /\ \A i \in 1..(Len(steps) - 1) : Leads(k, steps[i], steps[i + 1])

(* The inductive invariant.  A request is somewhere in its calls exactly    *)
(* while it runs.                                                          *)
RequestInv ==
    /\ request \in [Requests -> [status : {"idle", "running", "done", "failed"}, kind : Kinds,
                                 campaign : Campaigns, step : Nat, read : Nat]]
    /\ \A r \in Requests :
          /\ request[r].step <= Len(Steps[request[r].kind])
          /\ request[r].status = "running" <=> request[r].step # 0

Running == {r \in Requests : request[r].status = "running"}
Publishing == {r \in Requests : At(r, "publish")}
PayingFor(c) == {r \in Requests : At(r, "checkout") /\ request[r].campaign = c}
Paid == {r \in Requests : At(r, "emit") /\ request[r].kind = "profit"}
Posted == {r \in Requests : At(r, "checkout") \/ At(r, "emit")}

(* A request between two effects has its first one to itself: no other     *)
(* request's second one is counted on it.                                  *)
PaidInv ==
    /\ IsFiniteSet(Running) /\ IsFiniteSet(Units(posts))
    /\ IsFiniteSet(Units(checkouts)) /\ IsFiniteSet(Units(decisions))
    /\ \A c \in Campaigns :
          /\ checkouts[c] + Cardinality(PayingFor(c)) <= posts[c]
          /\ checkouts[c] > 0 => c \in budgeted
    /\ \A r \in Requests :
          request[r].kind = "profit" /\ request[r].step > 1 => request[r].campaign \in budgeted
    /\ decisions["profit"] + Cardinality(Paid) <= Total(checkouts)
    /\ Total(decisions) + Cardinality(Posted) <= Total(posts)

(* Whoever publishes has taken a token, and the bucket has been given no   *)
(* more than the time up to its last refill made.                          *)
RateInv ==
    /\ Total(posts) + Cardinality(Publishing) <= taken
    /\ engineRestarts = 0 => taken + tokens <= InitTokens + refilled \div 2
    /\ engineRestarts = 1 => taken + tokens <= InitTokens + InitTokens + refilled \div 2

(* While no two handlers met there is one at most, and what it chose is    *)
(* still what it would choose.                                             *)
Explored == \A a, b \in Arms : (tries[b] > 1 \/ (a < b /\ tries[b] = 1)) => tries[a] > 0

BanditInv ==
    /\ IsFiniteSet(Units(tries)) /\ Total(tries) = updates + unknown
    /\ \A r \in Requests : At(r, "budget") => request[r].read \in Arms
    /\ "bandit" \notin crowded =>
          /\ Explored
          /\ \A r \in Requests : At(r, "budget") =>
                request[r].read \in Preferred /\ \A q \in Requests : At(q, "budget") => q = r

(* Likewise for the weights; the capital is never read apart from written. *)
LearnInv ==
    /\ "capital" \notin crowded /\ learned["capital"] = calls["capital"]
    /\ learned["hrl"] <= calls["hrl"]
    /\ \A r \in Requests : At(r, "hrl") => request[r].read <= calls["hrl"]
    /\ "hrl" \notin crowded =>
          /\ learned["hrl"] = calls["hrl"]
          /\ \A r \in Requests : At(r, "hrl") =>
                request[r].read = learned["hrl"] /\ \A q \in Requests : At(q, "hrl") => q = r

IInv == CampaignTypeOK /\ RequestInv /\ PaidInv /\ RateInv /\ BanditInv /\ LearnInv

-----------------------------------------------------------------------------
(* The order of the calls of each endpoint.                                *)
LEMMA CycleCalls ==
    /\ Len(Cycle) = 7 /\ Cycle[1] = "features" /\ Cycle[2] = "decide" /\ Cycle[3] = "select"
    /\ Cycle[4] = "budget" /\ Cycle[5] = "weigh" /\ Cycle[6] = "hrl" /\ Cycle[7] = "scale"
    /\ Cycle \in Seq({"features", "decide", "select", "budget", "weigh", "hrl", "scale"})
BY SMTT(30) DEF Cycle

LEMMA CycleInOrder == InOrder("cycle", Cycle)
<1>1. /\ Len(Cycle) \in Nat \ {0}
      /\ Cycle[1] \in Opening
      /\ \A i \in 1..Len(Cycle) : Cycle[i] \notin {"checkout", "emit"}
  BY CycleCalls DEF Opening
<1>2. \A i \in 1..(Len(Cycle) - 1) : Leads("cycle", Cycle[i], Cycle[i + 1])
  <2>1. ASSUME NEW i \in 1..6 PROVE Leads("cycle", Cycle[i], Cycle[i + 1])
    BY CycleCalls DEF Leads
  <2> QED
    BY <2>1, CycleCalls
<1> QED
  BY <1>1, <1>2 DEF InOrder

LEMMA CampaignInOrder == InOrder("campaign", RunCampaign)
<1> DEFINE s == RunCampaign
<1>1. /\ Len(s) = 11 /\ s[1] = "features" /\ s[2] = "decide" /\ s[3] = "select" /\ s[4] = "budget"
      /\ s[5] = "weigh" /\ s[6] = "hrl" /\ s[7] = "scale" /\ s[8] = "predict" /\ s[9] = "token"
      /\ s[10] = "publish" /\ s[11] = "emit"
  BY SMTT(30) DEF RunCampaign, Cycle
<1> HIDE DEF s
<1>2. \A i \in 1..10 : Leads("campaign", s[i], s[i + 1])
  BY <1>1 DEF Leads
<1>3. /\ \A i \in 1..11 : s[i] # "checkout"
      /\ s[1] \in Opening
  BY <1>1 DEF Opening
<1>4. InOrder("campaign", s)
  BY <1>1, <1>2, <1>3 DEF InOrder
<1> QED
  BY <1>4 DEF s

LEMMA ActivateInOrder == InOrder("profit", Activate)
<1> DEFINE s == Activate
<1>1. /\ Len(s) = 13 /\ s[1] = "store" /\ s[2] = "features" /\ s[3] = "decide" /\ s[4] = "select"
      /\ s[5] = "budget" /\ s[6] = "weigh" /\ s[7] = "hrl" /\ s[8] = "scale" /\ s[9] = "predict"
      /\ s[10] = "token" /\ s[11] = "publish" /\ s[12] = "checkout" /\ s[13] = "emit"
  BY SMTT(30) DEF Activate, Cycle
<1> HIDE DEF s
<1>2. \A i \in 1..12 : Leads("profit", s[i], s[i + 1])
  BY <1>1 DEF Leads
<1>3. s[1] \in Opening
  BY <1>1 DEF Opening
<1>4. InOrder("profit", s)
  BY <1>1, <1>2, <1>3 DEF InOrder
<1> QED
  BY <1>4 DEF s

LEMMA GlobalInOrder == InOrder("global", RunGlobalTask)
<1> DEFINE s == RunGlobalTask
<1>1. /\ Len(s) = 4 /\ s[1] = "features" /\ s[2] = "decide" /\ s[3] = "capital" /\ s[4] = "assign"
  BY SMTT(30) DEF RunGlobalTask
<1> HIDE DEF s
<1>2. \A i \in 1..3 : Leads("global", s[i], s[i + 1])
  BY <1>1 DEF Leads
<1>3. /\ s[1] \in Opening
      /\ \A i \in 1..4 : s[i] \notin {"checkout", "emit"}
  BY <1>1 DEF Opening
<1>4. InOrder("global", s)
  BY <1>1, <1>2, <1>3 DEF InOrder
<1> QED
  BY <1>4 DEF s

(* However many markets there are.                                         *)
LEMMA EconomyInOrder == InOrder("economy", RunEconomy)
<1> DEFINE s == RunEconomy
<1> DEFINE c == CycleAndCharge
<1> DEFINE n == 8 * NumMarkets
<1>1. /\ Len(c) = 8 /\ c[1] = "features" /\ c[2] = "decide" /\ c[3] = "select" /\ c[4] = "budget"
      /\ c[5] = "weigh" /\ c[6] = "hrl" /\ c[7] = "scale" /\ c[8] = "charge"
  BY SMTT(30) DEF CycleAndCharge, Cycle
<1>2. n \in Nat
  OBVIOUS
<1>3. s = [i \in 1..(1 + n) |-> IF i = 1 THEN "launch" ELSE c[((i - 2) % 8) + 1]]
  BY DEF RunEconomy
<1> HIDE DEF s, c, n
<1>4. Len(s) = 1 + n
  BY <1>2, <1>3
<1>5. s[1] = "launch"
  BY <1>2, <1>3
<1>6. ASSUME NEW i \in 2..(1 + n) PROVE s[i] = c[((i - 2) % 8) + 1]
  BY <1>2, <1>3
<1>7. ASSUME NEW i \in 1..n PROVE Leads("economy", s[i], s[i + 1])
  <2>1. CASE i = 1
    <3>1. s[2] = c[1]
      BY <1>6, <1>2, <2>1
    <3> QED
      BY <3>1, <1>1, <1>5, <2>1 DEF Leads
  <2>2. CASE i # 1
    <3> DEFINE j == (i - 2) % 8
    <3>1. j \in 0..7 /\ (i + 1 - 2) % 8 = IF j = 7 THEN 0 ELSE j + 1
      BY <1>2, <2>2
    <3>2. s[i] = c[j + 1] /\ s[i + 1] = c[(IF j = 7 THEN 0 ELSE j + 1) + 1]
      BY <1>2, <1>6, <2>2, <3>1
    <3> HIDE DEF j
    <3> QED
      BY <3>1, <3>2, <1>1 DEF Leads
  <2> QED
    BY <2>1, <2>2
<1>8. ASSUME NEW i \in 1..(1 + n) PROVE s[i] \notin {"checkout", "emit"}
  <2>1. CASE i = 1
    BY <2>1, <1>5
  <2>2. CASE i # 1
    <3> DEFINE j == (i - 2) % 8
    <3>1. j \in 0..7
      BY <1>2, <2>2
    <3>2. s[i] = c[j + 1]
      BY <1>2, <1>6, <2>2
    <3> HIDE DEF j
    <3> QED
      BY <3>1, <3>2, <1>1
  <2> QED
    BY <2>1, <2>2
<1>9. InOrder("economy", s)
  <2>1. s[1] \in Opening
    BY <1>5 DEF Opening
  <2> QED
    BY <1>2, <1>4, <1>7, <1>8, <2>1 DEF InOrder
<1> QED
  BY <1>9 DEF s

LEMMA StepsInOrder == ASSUME NEW k \in Kinds PROVE InOrder(k, Steps[k])
<1>1. /\ Steps["cycle"] = Cycle /\ Steps["campaign"] = RunCampaign /\ Steps["profit"] = Activate
      /\ Steps["economy"] = RunEconomy /\ Steps["global"] = RunGlobalTask
  BY DEF Steps
<1> QED
  BY <1>1, CycleInOrder, CampaignInOrder, ActivateInOrder, GlobalInOrder, EconomyInOrder DEF Kinds

-----------------------------------------------------------------------------
(* Counting.                                                               *)
LEMMA CountMove ==
    ASSUME NEW X, NEW Y, NEW r, IsFiniteSet(X), Y \ {r} = X \ {r}
    PROVE  /\ IsFiniteSet(Y) /\ Cardinality(X) \in Nat /\ Cardinality(Y) \in Nat
           /\ r \in X /\ r \notin Y => Cardinality(Y) = Cardinality(X) - 1
           /\ r \notin X /\ r \in Y => Cardinality(Y) = Cardinality(X) + 1
           /\ (r \in X <=> r \in Y) => Cardinality(Y) = Cardinality(X)
<1>1. IsFiniteSet(X \ {r}) /\ IsFiniteSet(X \cup {r})
  BY FS_RemoveElement, FS_AddElement
<1>2. CASE r \in X
  <2>1. CASE r \in Y
    <3>1. X = Y
      BY <1>2, <2>1
    <3> QED
      BY <3>1, <1>2, FS_CardinalityType
  <2>2. CASE r \notin Y
    <3>1. Y = X \ {r}
      BY <1>2, <2>2
    <3>2. Cardinality(X \ {r}) = Cardinality(X) - 1
      BY <1>2, FS_RemoveElement
    <3> QED
      BY <1>1, <1>2, <2>2, <3>1, <3>2, FS_CardinalityType
  <2> QED
    BY <2>1, <2>2
<1>3. CASE r \notin X
  <2>1. CASE r \in Y
    <3>1. Y = X \cup {r}
      BY <1>3, <2>1
    <3>2. Cardinality(X \cup {r}) = Cardinality(X) + 1
      BY <1>3, FS_AddElement
    <3> QED
      BY <1>1, <1>3, <2>1, <3>1, <3>2, FS_CardinalityType
  <2>2. CASE r \notin Y
    <3>1. X = Y
      BY <1>3, <2>2
    <3> QED
      BY <3>1, <1>3, FS_CardinalityType
  <2> QED
    BY <2>1, <2>2
<1> QED
  BY <1>2, <1>3

LEMMA UnitsOf ==
    ASSUME NEW S, NEW f \in [S -> Nat]
    PROVE  \A p : p \in Units(f) <=> \E x \in S : \E n \in 1..f[x] : p = <<x, n>>
BY DEF Units

(* One more of something is one more in all.                               *)
LEMMA TotalOneMore ==
    ASSUME NEW S, NEW f \in [S -> Nat], NEW x \in S, NEW g \in [S -> Nat], g[x] = f[x] + 1,
           \A y \in S : y # x => g[y] = f[y], IsFiniteSet(Units(f))
    PROVE  IsFiniteSet(Units(g)) /\ Total(f) \in Nat /\ Total(g) = Total(f) + 1
<1> DEFINE u == <<x, f[x] + 1>>
<1> DEFINE old == Units(f)
<1> DEFINE new == Units(g)
<1>0. IsFiniteSet(old) /\ Total(f) = Cardinality(old) /\ Total(g) = Cardinality(new)
  BY DEF Total
<1>1. g[x] = f[x] + 1 /\ \A y \in S : y # x => g[y] = f[y]
  OBVIOUS
<1>2. \A p : p \in old <=> \E y \in S : \E n \in 1..f[y] : p = <<y, n>>
  BY UnitsOf
<1>3. \A p : p \in new <=> \E y \in S : \E n \in 1..g[y] : p = <<y, n>>
  BY <1>1, UnitsOf
<1> HIDE DEF old, new
<1>4. u \notin old
  BY <1>2
<1>5. ASSUME NEW p, p \in new PROVE p \in old \/ p = u
  <2>1. PICK y \in S : \E n \in 1..g[y] : p = <<y, n>>
    BY <1>3, <1>5
  <2>2. PICK n \in 1..g[y] : p = <<y, n>>
    BY <2>1
  <2>3. CASE y = x /\ n = f[x] + 1
    BY <2>2, <2>3
  <2>4. CASE ~(y = x /\ n = f[x] + 1)
    <3>1. n \in 1..f[y]
      BY <1>1, <2>2, <2>4
    <3> QED
      BY <1>2, <2>2, <3>1
  <2> QED
    BY <2>3, <2>4
<1>6. ASSUME NEW p, p \in old PROVE p \in new
  <2>1. PICK y \in S : \E n \in 1..f[y] : p = <<y, n>>
    BY <1>2, <1>6
  <2>2. PICK n \in 1..f[y] : p = <<y, n>>
    BY <2>1
  <2>3. n \in 1..g[y]
    BY <1>1, <2>2
  <2> QED
    BY <1>3, <2>2, <2>3
<1>7. u \in new
  <2>1. f[x] + 1 \in 1..g[x]
    BY <1>1
  <2> QED
    BY <1>3, <2>1
<1> HIDE DEF u
<1>8. new = old \cup {u}
  BY <1>5, <1>6, <1>7
<1>9. /\ IsFiniteSet(old \cup {u}) /\ Cardinality(old) \in Nat
      /\ Cardinality(old \cup {u}) = Cardinality(old) + 1
  BY <1>0, <1>4, FS_AddElement, FS_CardinalityType
<1>10. IsFiniteSet(new) /\ Total(f) \in Nat /\ Total(g) = Total(f) + 1
  BY <1>0, <1>8, <1>9
<1> QED
  BY <1>10 DEF new

LEMMA TotalNone ==
    ASSUME NEW S PROVE LET f == [x \in S |-> 0] IN IsFiniteSet(Units(f)) /\ Total(f) = 0
<1> DEFINE f == [x \in S |-> 0]
<1>1. f \in [S -> Nat] /\ \A x \in S : f[x] = 0
  OBVIOUS
<1> HIDE DEF f
<1>2. Units(f) = {}
  BY <1>1, UnitsOf
<1>3. IsFiniteSet(Units(f)) /\ Total(f) = 0
  BY <1>2, FS_EmptySet DEF Total
<1> QED
  BY <1>3 DEF f

-----------------------------------------------------------------------------
(* How a request moves.  One that is sent comes from its client.           *)
Moved(r) ==
    /\ \A q \in Requests : q # r => request'[q] = request[q]
    /\ request'[r].kind = request[r].kind /\ request'[r].campaign = request[r].campaign

Went(r, s) ==
    /\ RequestInv' /\ Moved(r)
    /\ \A t : At(r, t) => t = s
    /\ \A t : At(r, t)' => Leads(request[r].kind, s, t)
    /\ request[r].kind = "profit" /\ request'[r].step > 1 => request[r].step > 1 \/ s = "store"

LEMMA AdvanceGoes ==
    ASSUME RequestInv, NEW r \in Requests, NEW s, NEW v \in Nat, At(r, s), Advance(r, v)
    PROVE  Went(r, s) /\ request'[r].read = v
<1> DEFINE k == request[r].kind
<1> DEFINE n == Len(Steps[k])
<1> DEFINE i == request[r].step
<1>1. k \in Kinds /\ i \in Nat /\ i # 0 /\ i <= n /\ request[r].status = "running" /\ Steps[k][i] = s
  BY DEF RequestInv, At
<1>2. n \in Nat /\ InOrder(k, Steps[k])
  BY <1>1, StepsInOrder DEF InOrder
<1>3. request' = [request EXCEPT ![r] = [request[r] EXCEPT !.read = v, !.step = IF i = n THEN 0 ELSE i + 1,
                                         !.status = IF i = n THEN "done" ELSE "running"]]
  BY <1>1 DEF Advance, RequestInv
<1>4. /\ request'[r].kind = k /\ request'[r].campaign = request[r].campaign /\ request'[r].read = v
      /\ request'[r].step = (IF i = n THEN 0 ELSE i + 1)
      /\ request'[r].status = (IF i = n THEN "done" ELSE "running")
      /\ \A q \in Requests : q # r => request'[q] = request[q]
  BY <1>3 DEF RequestInv
<1> HIDE DEF k, n, i
<1>5. request' \in [Requests -> [status : {"idle", "running", "done", "failed"}, kind : Kinds,
                                campaign : Campaigns, step : Nat, read : Nat]]
  <2> DEFINE next == [request[r] EXCEPT !.read = v, !.step = IF i = n THEN 0 ELSE i + 1,
                                        !.status = IF i = n THEN "done" ELSE "running"]
  <2> DEFINE m == IF i = n THEN 0 ELSE i + 1
  <2> DEFINE w == IF i = n THEN "done" ELSE "running"
  <2>1. m \in Nat /\ w \in {"done", "running"}
    BY <1>1
  <2>2. request[r] \in [status : {"idle", "running", "done", "failed"}, kind : Kinds,
                        campaign : Campaigns, step : Nat, read : Nat]
    BY DEF RequestInv
  <2>3. next = [request[r] EXCEPT !.read = v, !.step = m, !.status = w]
    OBVIOUS
  <2>4. request' = [request EXCEPT ![r] = next]
    BY <1>3
  <2> HIDE DEF m, w, next
  <2>5. next \in [status : {"idle", "running", "done", "failed"}, kind : Kinds,
                  campaign : Campaigns, step : Nat, read : Nat]
    BY <2>1, <2>2, <2>3
  <2> QED
    BY <2>4, <2>5 DEF RequestInv
<1>6. RequestInv'
  <2>1. ASSUME NEW q \in Requests
        PROVE  request'[q].step <= Len(Steps[request'[q].kind]) /\ (request'[q].status = "running" <=> request'[q].step # 0)
    <3>1. CASE q = r
      BY <1>1, <1>2, <1>4, <3>1 DEF n, k
    <3>2. CASE q # r
      BY <1>4, <3>2 DEF RequestInv
    <3> QED
      BY <3>1, <3>2
  <2> QED
    BY <1>5, <2>1 DEF RequestInv
<1>7. \A t : At(r, t) => t = s
  BY DEF At
<1>8. ASSUME NEW t, At(r, t)' PROVE Leads(k, s, t)
  <2>1. i # n /\ Steps[k][i + 1] = t
    BY <1>1, <1>4, <1>8 DEF At
  <2>2. i \in 1..(n - 1)
    BY <1>1, <1>2, <2>1
  <2> QED
    BY <1>1, <1>2, <2>1, <2>2 DEF InOrder, n, k
<1>9. k = "profit" /\ i = 1 => s = "store"
  BY <1>1, <1>2 DEF InOrder
<1> QED
  BY <1>1, <1>4, <1>6, <1>7, <1>8, <1>9 DEF Went, Moved, k, i

LEMMA AbortGoes ==
    ASSUME RequestInv, NEW r \in Requests, NEW s, At(r, s), Abort(r)
    PROVE  Went(r, s) /\ request'[r].step = 0 /\ \A t : ~At(r, t)'
<1>1. request' = [request EXCEPT ![r] = [request[r] EXCEPT !.status = "failed", !.step = 0, !.read = 0]]
  BY DEF Abort, RequestInv
<1>2. /\ request'[r].kind = request[r].kind /\ request'[r].campaign = request[r].campaign
      /\ request'[r].step = 0 /\ request'[r].status = "failed"
      /\ \A q \in Requests : q # r => request'[q] = request[q]
  BY <1>1 DEF RequestInv
<1>3. request' \in [Requests -> [status : {"idle", "running", "done", "failed"}, kind : Kinds,
                                campaign : Campaigns, step : Nat, read : Nat]]
  BY <1>1 DEF RequestInv
<1>4. RequestInv'
  <2>1. request[r].kind \in Kinds
    BY DEF RequestInv
  <2>2. Len(Steps[request[r].kind]) \in Nat
    BY <2>1, StepsInOrder DEF InOrder
  <2> QED
    BY <1>2, <1>3, <2>2 DEF RequestInv
<1>5. \A t : ~At(r, t)'
  BY <1>2 DEF At
<1>6. \A t : At(r, t) => t = s
  BY DEF At
<1> QED
  BY <1>2, <1>4, <1>5, <1>6 DEF Went, Moved

LEMMA AnswerGoes ==
    ASSUME RequestInv, NEW r \in Requests, NEW s, At(r, s), Answered(r) PROVE Went(r, s)
BY AdvanceGoes, AbortGoes DEF Answered

LEMMA SendGoes ==
    ASSUME RequestInv, NEW r \in Requests, Send(r)
    PROVE  Went(r, "client") /\ \A t : At(r, t)' => t \in Opening
<1>0. request[r].status # "running"
  BY DEF Send
<1>1. request' = [request EXCEPT ![r] = [request[r] EXCEPT !.status = "running", !.step = 1]]
  BY DEF Send, RequestInv
<1>2. /\ request'[r].kind = request[r].kind /\ request'[r].campaign = request[r].campaign
      /\ request'[r].step = 1 /\ request'[r].status = "running"
      /\ \A q \in Requests : q # r => request'[q] = request[q]
  BY <1>1 DEF RequestInv
<1>3. request' \in [Requests -> [status : {"idle", "running", "done", "failed"}, kind : Kinds,
                                campaign : Campaigns, step : Nat, read : Nat]]
  BY <1>1 DEF RequestInv
<1>4. request[r].kind \in Kinds
  BY DEF RequestInv
<1>5. InOrder(request[r].kind, Steps[request[r].kind])
  BY <1>4, StepsInOrder
<1>6. RequestInv'
  <2>1. ASSUME NEW q \in Requests
        PROVE  request'[q].step <= Len(Steps[request'[q].kind]) /\ (request'[q].status = "running" <=> request'[q].step # 0)
    <3>1. CASE q = r
      BY <1>2, <1>5, <3>1 DEF InOrder
    <3>2. CASE q # r
      BY <1>2, <3>2 DEF RequestInv
    <3> QED
      BY <3>1, <3>2
  <2> QED
    BY <1>3, <2>1 DEF RequestInv
<1>7. ASSUME NEW t, At(r, t)' PROVE t \in Opening
  BY <1>2, <1>5, <1>7 DEF At, InOrder
<1>8. \A t \in Opening : Leads(request[r].kind, "client", t)
  BY DEF Opening, Leads
<1>9. \A t : ~At(r, t)
  BY <1>0 DEF At
<1> QED
  BY <1>2, <1>6, <1>7, <1>8, <1>9 DEF Went, Moved

(* Where the others are.                                                   *)
LEMMA OthersStay ==
    ASSUME NEW r \in Requests, Moved(r)
    PROVE  /\ \A q \in Requests : \A t : q # r => (At(q, t)' <=> At(q, t))
           /\ Running' \ {r} = Running \ {r} /\ Publishing' \ {r} = Publishing \ {r}
           /\ \A c : PayingFor(c)' \ {r} = PayingFor(c) \ {r}
           /\ Paid' \ {r} = Paid \ {r} /\ Posted' \ {r} = Posted \ {r}
<1>1. \A q \in Requests : q # r => request'[q] = request[q]
  BY DEF Moved
<1>2. \A q \in Requests : \A t : q # r => (At(q, t)' <=> At(q, t))
  BY <1>1 DEF At
<1>3. Running' \ {r} = Running \ {r}
  BY <1>1 DEF Running
<1>4. Publishing' \ {r} = Publishing \ {r} /\ Posted' \ {r} = Posted \ {r}
  BY <1>2 DEF Publishing, Posted
<1>5. ASSUME NEW c PROVE PayingFor(c)' \ {r} = PayingFor(c) \ {r}
  BY <1>1, <1>2 DEF PayingFor
<1>6. Paid' \ {r} = Paid \ {r}
  BY <1>1, <1>2 DEF Paid
<1> QED
  BY <1>2, <1>3, <1>4, <1>5, <1>6

LEMMA AmongRunning ==
    IsFiniteSet(Running) =>
        /\ IsFiniteSet(Publishing) /\ IsFiniteSet(Paid) /\ IsFiniteSet(Posted)
        /\ \A c : IsFiniteSet(PayingFor(c))
<1>1. Publishing \subseteq Running /\ Paid \subseteq Running /\ Posted \subseteq Running
  BY DEF Publishing, Paid, Posted, Running, At
<1>2. \A c : PayingFor(c) \subseteq Running
  BY DEF PayingFor, Running, At
<1> QED
  BY <1>1, <1>2, FS_Subset

-----------------------------------------------------------------------------
(* Steps that one part of the invariant does not notice.                   *)
LEMMA PaidKept ==
    ASSUME CampaignTypeOK, PaidInv, NEW r \in Requests, Moved(r),
           ~At(r, "checkout")', ~At(r, "emit")', UNCHANGED <<posts,
                                                             checkouts, decisions>>, budgeted \subseteq budgeted',
           request[r].kind = "profit" /\ request'[r].step > 1 => request[r].campaign \in budgeted'
    PROVE  PaidInv'
<1>0. /\ posts \in [Campaigns -> Nat] /\ checkouts \in [Campaigns -> Nat]
      /\ decisions \in [{"campaign", "profit"} -> Nat]
  BY DEF CampaignTypeOK
<1>1. IsFiniteSet(Running) /\ IsFiniteSet(Units(posts)) /\ IsFiniteSet(Units(checkouts))
        /\ IsFiniteSet(Units(decisions))
  BY DEF PaidInv
<1>2. IsFiniteSet(Running')
  BY <1>1, OthersStay, CountMove
<1>3. UNCHANGED <<Units(posts), Units(checkouts), Units(decisions), Total(checkouts), Total(decisions),
                  Total(posts)>>
  BY DEF Units, Total
<1>4. Total(checkouts) \in Nat /\ Total(posts) \in Nat /\ Total(decisions) \in Nat
  BY <1>1, FS_CardinalityType DEF Total
<1>5. /\ Cardinality(Paid') <= Cardinality(Paid) /\ Cardinality(Paid) \in Nat
      /\ Cardinality(Paid') \in Nat
  <2>1. r \notin Paid'
    BY DEF Paid
  <2>2. IsFiniteSet(Paid) /\ Paid' \ {r} = Paid \ {r}
    BY <1>1, AmongRunning, OthersStay
  <2> QED
    BY <2>1, <2>2, CountMove
<1>6. /\ Cardinality(Posted') <= Cardinality(Posted) /\ Cardinality(Posted) \in Nat
      /\ Cardinality(Posted') \in Nat
  <2>1. r \notin Posted'
    BY DEF Posted
  <2>2. IsFiniteSet(Posted) /\ Posted' \ {r} = Posted \ {r}
    BY <1>1, AmongRunning, OthersStay
  <2> QED
    BY <2>1, <2>2, CountMove
<1>11. \A c \in Campaigns : checkouts[c] + Cardinality(PayingFor(c)) <= posts[c] /\ (checkouts[c] > 0 => c \in budgeted)
  BY DEF PaidInv
<1>7. ASSUME NEW c \in Campaigns
      PROVE  checkouts'[c] + Cardinality(PayingFor(c)') <= posts'[c] /\ (checkouts'[c] > 0 => c \in budgeted')
  <2>1. r \notin PayingFor(c)'
    BY DEF PayingFor
  <2>2. IsFiniteSet(PayingFor(c)) /\ PayingFor(c)' \ {r} = PayingFor(c) \ {r}
    BY <1>1, AmongRunning, OthersStay
  <2> DEFINE p == Cardinality(PayingFor(c))
  <2> DEFINE q == Cardinality(PayingFor(c)')
  <2>3. p \in Nat /\ q \in Nat /\ q <= p
    BY <2>1, <2>2, CountMove
  <2>4. checkouts[c] + p <= posts[c] /\ (checkouts[c] > 0 => c \in budgeted)
    BY <1>11
  <2> HIDE DEF p, q
  <2>5. checkouts'[c] + q <= posts'[c] /\ (checkouts'[c] > 0 => c \in budgeted')
    BY <1>0, <2>3, <2>4
  <2> QED
    BY <2>5 DEF q
<1>8. ASSUME NEW q \in Requests, request'[q].kind = "profit", request'[q].step > 1
      PROVE  request'[q].campaign \in budgeted'
  <2>1. CASE q = r
    BY <1>8, <2>1 DEF Moved
  <2>2. CASE q # r
    BY <1>8, <2>2 DEF Moved, PaidInv
  <2> QED
    BY <2>1, <2>2
<1>9. /\ decisions'["profit"] + Cardinality(Paid') <= Total(checkouts)'
      /\ Total(decisions)' + Cardinality(Posted') <= Total(posts)'
  <2>1. /\ decisions["profit"] + Cardinality(Paid) <= Total(checkouts)
        /\ Total(decisions) + Cardinality(Posted) <= Total(posts)
    BY DEF PaidInv
  <2>2. decisions["profit"] \in Nat /\ decisions' = decisions
    BY <1>0
  <2> QED
    BY <1>3, <1>4, <1>5, <1>6, <2>1, <2>2
<1>10. IsFiniteSet(Units(posts)') /\ IsFiniteSet(Units(checkouts)') /\ IsFiniteSet(Units(decisions)')
  BY <1>1, <1>3
<1> QED
  BY <1>2, <1>7, <1>8, <1>9, <1>10 DEF PaidInv

LEMMA PaidStays == PaidInv /\ UNCHANGED <<request, effectVars>> => PaidInv'
BY DEF PaidInv, effectVars, Running, Units, Total, PayingFor, Paid, Posted, At

LEMMA RateKept ==
    ASSUME CampaignTypeOK, PaidInv, RateInv, NEW r \in Requests, Moved(r), ~At(r, "publish")',
           UNCHANGED <<posts, engineRestarts, bucketVars>>
    PROVE  RateInv'
<1>1. IsFiniteSet(Publishing) /\ Publishing' \ {r} = Publishing \ {r} /\ r \notin Publishing'
  BY AmongRunning, OthersStay DEF PaidInv, Publishing
<1>2. /\ Cardinality(Publishing') \in Nat /\ Cardinality(Publishing) \in Nat
      /\ Cardinality(Publishing') <= Cardinality(Publishing)
  BY <1>1, CountMove
<1>3. Total(posts)' = Total(posts) /\ Total(posts) \in Nat
  BY FS_CardinalityType DEF Total, Units, PaidInv
<1>4. taken \in Nat /\ taken' = taken
  BY DEF CampaignTypeOK, bucketVars
<1>5. Total(posts)' + Cardinality(Publishing') <= taken'
  BY <1>2, <1>3, <1>4 DEF RateInv
<1> QED
  BY <1>5 DEF RateInv, bucketVars

LEMMA RateStays == RateInv /\ UNCHANGED <<request, posts, engineRestarts, bucketVars>> => RateInv'
BY DEF RateInv, bucketVars, Publishing, At, Total, Units

LEMMA BanditKept ==
    ASSUME BanditInv, NEW r \in Requests, Moved(r), ~At(r, "budget")',
           UNCHANGED <<tries, updates, unknown>>, crowded \subseteq crowded'
    PROVE  BanditInv'
<1>1. \A q \in Requests : At(q, "budget")' => At(q, "budget") /\ request'[q] = request[q]
  BY OthersStay DEF Moved
<1>2. UNCHANGED <<Units(tries), Total(tries), Explored, Preferred>>
  BY DEF Units, Total, Explored, Preferred, UntriedFrom
<1> QED
  BY <1>1, <1>2 DEF BanditInv

LEMMA BanditStays == BanditInv /\ UNCHANGED <<request, tries, updates, unknown, crowded>> => BanditInv'
BY DEF BanditInv, Units, Total, Explored, Preferred, UntriedFrom, At

LEMMA LearnKept ==
    ASSUME LearnInv, NEW r \in Requests, Moved(r), ~At(r, "hrl")',
           UNCHANGED <<learned, calls>>, crowded \subseteq crowded', crowded' \subseteq crowded \cup {"bandit", "hrl"}
    PROVE  LearnInv'
<1>1. \A q \in Requests : At(q, "hrl")' => At(q, "hrl") /\ request'[q] = request[q]
  BY OthersStay DEF Moved
<1> QED
  BY <1>1 DEF LearnInv

LEMMA LearnStays ==
    LearnInv /\ UNCHANGED <<request, learned, calls>> /\ crowded \subseteq crowded' /\ crowded' \subseteq crowded \cup {"bandit"}
        => LearnInv'
BY DEF LearnInv, At

-----------------------------------------------------------------------------
(* What is paid and announced.                                             *)
LEMMA PaidNumbers ==
    ASSUME CampaignTypeOK, PaidInv
    PROVE  /\ posts \in [Campaigns -> Nat] /\ checkouts \in [Campaigns -> Nat]
           /\ decisions \in [{"campaign", "profit"} -> Nat]
           /\ Total(posts) \in Nat /\ Total(checkouts) \in Nat /\ Total(decisions) \in Nat
           /\ IsFiniteSet(Running) /\ IsFiniteSet(Units(posts))
           /\ IsFiniteSet(Units(checkouts)) /\ IsFiniteSet(Units(decisions))
           /\ IsFiniteSet(Publishing) /\ IsFiniteSet(Paid) /\ IsFiniteSet(Posted)
           /\ \A c : IsFiniteSet(PayingFor(c)) /\ Cardinality(PayingFor(c)) \in Nat
           /\ Cardinality(Publishing) \in Nat /\ Cardinality(Paid) \in Nat
           /\ Cardinality(Posted) \in Nat
<1>1. /\ IsFiniteSet(Running) /\ IsFiniteSet(Units(posts))
      /\ IsFiniteSet(Units(checkouts)) /\ IsFiniteSet(Units(decisions))
  BY DEF PaidInv
<1>2. IsFiniteSet(Publishing) /\ IsFiniteSet(Paid) /\ IsFiniteSet(Posted)
        /\ \A c : IsFiniteSet(PayingFor(c))
  BY <1>1, AmongRunning
<1>3. /\ \A c : Cardinality(PayingFor(c)) \in Nat
      /\ Cardinality(Publishing) \in Nat /\ Cardinality(Paid) \in Nat /\ Cardinality(Posted) \in Nat
  BY <1>2, FS_CardinalityType
<1>4. Total(posts) \in Nat /\ Total(checkouts) \in Nat /\ Total(decisions) \in Nat
  BY <1>1, FS_CardinalityType DEF Total
<1> QED
  BY <1>1, <1>2, <1>3, <1>4 DEF CampaignTypeOK

(* How the numbers change when one request moves.                          *)
LEMMA NumbersMove ==
    ASSUME CampaignTypeOK, PaidInv, NEW r \in Requests, Moved(r)
    PROVE  /\ IsFiniteSet(Running')
           /\ Cardinality(Paid)' \in Nat /\ Cardinality(Posted)' \in Nat
           /\ Cardinality(Publishing)' \in Nat
           /\ Cardinality(Paid)' <= Cardinality(Paid) + 1
           /\ r \notin Paid' => Cardinality(Paid)' <= Cardinality(Paid)
           /\ r \in Paid /\ r \notin Paid' => Cardinality(Paid)' = Cardinality(Paid) - 1
           /\ Cardinality(Posted)' <= Cardinality(Posted) + 1
           /\ r \in Posted => Cardinality(Posted)' <= Cardinality(Posted)
           /\ r \in Posted /\ r \notin Posted' => Cardinality(Posted)' = Cardinality(Posted) - 1
           /\ Cardinality(Publishing)' <= Cardinality(Publishing) + 1
           /\ r \notin Publishing' => Cardinality(Publishing)' <= Cardinality(Publishing)
           /\ r \in Publishing /\ r \notin Publishing' =>
                Cardinality(Publishing)' = Cardinality(Publishing) - 1
           /\ \A c : /\ Cardinality(PayingFor(c))' \in Nat
                     /\ Cardinality(PayingFor(c))' <= Cardinality(PayingFor(c)) + 1
                     /\ r \notin PayingFor(c)' =>
                          Cardinality(PayingFor(c))' <= Cardinality(PayingFor(c))
                     /\ r \in PayingFor(c) /\ r \notin PayingFor(c)' =>
                           Cardinality(PayingFor(c))' = Cardinality(PayingFor(c)) - 1
<1>1. IsFiniteSet(Running')
  BY PaidNumbers, OthersStay, CountMove
<1>2. /\ Cardinality(Paid') \in Nat
      /\ Cardinality(Paid') <= Cardinality(Paid) + 1
      /\ r \notin Paid' => Cardinality(Paid') <= Cardinality(Paid)
      /\ r \in Paid /\ r \notin Paid' => Cardinality(Paid') = Cardinality(Paid) - 1
  <2>1. IsFiniteSet(Paid) /\ Paid' \ {r} = Paid \ {r}
    BY PaidNumbers, OthersStay
  <2> QED
    BY <2>1, CountMove
<1>3. /\ Cardinality(Posted') \in Nat
      /\ Cardinality(Posted') <= Cardinality(Posted) + 1
      /\ r \in Posted => Cardinality(Posted') <= Cardinality(Posted)
      /\ r \in Posted /\ r \notin Posted' => Cardinality(Posted') = Cardinality(Posted) - 1
  <2>1. IsFiniteSet(Posted) /\ Posted' \ {r} = Posted \ {r}
    BY PaidNumbers, OthersStay
  <2> QED
    BY <2>1, CountMove
<1>4. /\ Cardinality(Publishing') \in Nat
      /\ Cardinality(Publishing') <= Cardinality(Publishing) + 1
      /\ r \notin Publishing' => Cardinality(Publishing') <= Cardinality(Publishing)
      /\ r \in Publishing /\ r \notin Publishing' =>
           Cardinality(Publishing') = Cardinality(Publishing) - 1
  <2>1. IsFiniteSet(Publishing) /\ Publishing' \ {r} = Publishing \ {r}
    BY PaidNumbers, OthersStay
  <2> QED
    BY <2>1, CountMove
<1>5. ASSUME NEW c
      PROVE  /\ Cardinality(PayingFor(c)') \in Nat
             /\ Cardinality(PayingFor(c)') <= Cardinality(PayingFor(c)) + 1
             /\ r \notin PayingFor(c)' => Cardinality(PayingFor(c)') <= Cardinality(PayingFor(c))
             /\ r \in PayingFor(c) /\ r \notin PayingFor(c)' =>
                   Cardinality(PayingFor(c)') = Cardinality(PayingFor(c)) - 1
  <2>1. IsFiniteSet(PayingFor(c)) /\ PayingFor(c)' \ {r} = PayingFor(c) \ {r}
    BY PaidNumbers, OthersStay
  <2> QED
    BY <2>1, CountMove
<1> QED
  BY <1>1, <1>2, <1>3, <1>4, <1>5

LEMMA PublishPays == ASSUME CampaignTypeOK, RequestInv, PaidInv, NEW r \in Requests, Publish(r)
                     PROVE  PaidInv'
<1> DEFINE k == request[r].campaign
<1>1. k \in Campaigns /\ At(r, "publish") /\ Went(r, "publish")
  BY AnswerGoes DEF RequestInv, Publish
<1>2. posts' = [posts EXCEPT ![k] = @ + 1] /\ UNCHANGED <<checkouts, budgeted, decisions>>
  BY DEF Publish
<1>3. Moved(r) /\ ~At(r, "checkout") /\ ~At(r, "emit")
  BY <1>1 DEF Went
<1>4. request'[r].kind = request[r].kind /\ request'[r].campaign = k
  BY <1>3 DEF Moved
<1>5. r \notin Paid' /\ \A c : c # k => r \notin PayingFor(c)'
  BY <1>1, <1>4 DEF Went, Leads, Paid, PayingFor
<1> HIDE DEF k
<1>6. IsFiniteSet(Units(posts)') /\ Total(posts)' = Total(posts) + 1
  <2> DEFINE g == posts'
  <2>1. posts \in [Campaigns -> Nat] /\ k \in Campaigns /\ IsFiniteSet(Units(posts))
    BY <1>1, <1>2, PaidNumbers
  <2>2. g \in [Campaigns -> Nat] /\ g[k] = posts[k] + 1 /\ \A y \in Campaigns : y # k => g[y] = posts[y]
    BY <1>1, <1>2, <2>1
  <2> HIDE DEF g
  <2>3. IsFiniteSet(Units(g)) /\ Total(g) = Total(posts) + 1
    BY <2>1, <2>2, TotalOneMore
  <2> QED
    BY <2>3 DEF g, Units, Total
<1>7. UNCHANGED <<Units(checkouts), Units(decisions), Total(checkouts), Total(decisions)>>
  BY <1>2 DEF Units, Total
<1>8. ASSUME NEW c \in Campaigns
      PROVE  checkouts'[c] + Cardinality(PayingFor(c))' <= posts'[c] /\ (checkouts'[c] > 0 => c \in budgeted')
  <2> DEFINE p == Cardinality(PayingFor(c))
  <2> DEFINE q == Cardinality(PayingFor(c))'
  <2>1. p \in Nat /\ q \in Nat /\ q <= p + 1 /\ (c # k => q <= p)
    BY <1>3, <1>5, PaidNumbers, NumbersMove
  <2>2. checkouts[c] + p <= posts[c] /\ (checkouts[c] > 0 => c \in budgeted)
    BY DEF PaidInv
  <2> HIDE DEF p, q
  <2>3. posts'[c] = IF c = k THEN posts[c] + 1 ELSE posts[c]
    BY <1>2, PaidNumbers
  <2>4. checkouts'[c] + q <= posts'[c] /\ (checkouts'[c] > 0 => c \in budgeted')
    BY <1>2, <2>1, <2>2, <2>3, PaidNumbers
  <2> QED
    BY <2>4 DEF q
<1>9. ASSUME NEW q \in Requests, request'[q].kind = "profit", request'[q].step > 1
      PROVE  request'[q].campaign \in budgeted'
  <2>1. CASE q = r
    BY <1>1, <1>2, <1>4, <1>9, <2>1 DEF Went, PaidInv, k
  <2>2. CASE q # r
    BY <1>2, <1>3, <1>9, <2>2 DEF Moved, PaidInv
  <2> QED
    BY <2>1, <2>2
<1>10. /\ decisions'["profit"] + Cardinality(Paid)' <= Total(checkouts)'
       /\ Total(decisions)' + Cardinality(Posted)' <= Total(posts)'
  <2>1. /\ decisions["profit"] + Cardinality(Paid) <= Total(checkouts)
        /\ Total(decisions) + Cardinality(Posted) <= Total(posts)
    BY DEF PaidInv
  <2>2. decisions["profit"] \in Nat /\ decisions' = decisions
    BY <1>2, PaidNumbers
  <2>3. Cardinality(Paid)' <= Cardinality(Paid) /\ Cardinality(Posted)' <= Cardinality(Posted) + 1
    BY <1>3, <1>5, NumbersMove
  <2> QED
    BY <1>3, <1>6, <1>7, <2>1, <2>2, <2>3, PaidNumbers, NumbersMove
<1> QED
  BY <1>3, <1>6, <1>7, <1>8, <1>9, <1>10, PaidNumbers, NumbersMove DEF PaidInv

LEMMA CheckoutPays == ASSUME CampaignTypeOK, RequestInv, PaidInv, NEW r \in Requests, Checkout(r)
                      PROVE  PaidInv'
<1> DEFINE k == request[r].campaign
<1>1. k \in Campaigns /\ At(r, "checkout") /\ Went(r, "checkout")
  BY AnswerGoes DEF RequestInv, Checkout
<1>2. checkouts' = [checkouts EXCEPT ![k] = @ + 1] /\ UNCHANGED <<posts, budgeted, decisions>>
  BY DEF Checkout
<1>3. Moved(r) /\ ~At(r, "emit")
  BY <1>1 DEF Went
<1>4. request'[r].kind = request[r].kind /\ request'[r].campaign = k
  BY <1>3 DEF Moved
<1>5. /\ r \in Posted /\ r \in PayingFor(k) /\ \A c : r \notin PayingFor(c)'
      /\ \A c : c # k => r \notin PayingFor(c)
  BY <1>1, <1>4 DEF Went, Leads, Posted, PayingFor
<1>6. k \in budgeted
  <2>1. request[r].kind \in Kinds /\ request[r].step \in Nat /\ request[r].status = "running"
        /\ request[r].step # 0 /\ request[r].step <= Len(Steps[request[r].kind])
        /\ Steps[request[r].kind][request[r].step] = "checkout"
    BY <1>1 DEF RequestInv, At
  <2>2. InOrder(request[r].kind, Steps[request[r].kind])
    BY <2>1, StepsInOrder
  <2>3. request[r].kind = "profit" /\ request[r].step > 1
    BY <2>1, <2>2 DEF InOrder, Opening
  <2> QED
    BY <2>3 DEF PaidInv
<1> HIDE DEF k
<1>7. IsFiniteSet(Units(checkouts)') /\ Total(checkouts)' = Total(checkouts) + 1
  <2> DEFINE g == checkouts'
  <2>1. checkouts \in [Campaigns -> Nat] /\ k \in Campaigns /\ IsFiniteSet(Units(checkouts))
    BY <1>1, <1>2, PaidNumbers
  <2>2. g \in [Campaigns -> Nat] /\ g[k] = checkouts[k] + 1 /\ \A y \in Campaigns : y # k =>
          g[y] = checkouts[y]
    BY <1>1, <1>2, <2>1
  <2> HIDE DEF g
  <2>3. IsFiniteSet(Units(g)) /\ Total(g) = Total(checkouts) + 1
    BY <2>1, <2>2, TotalOneMore
  <2> QED
    BY <2>3 DEF g, Units, Total
<1>8. UNCHANGED <<Units(posts), Units(decisions), Total(posts), Total(decisions)>>
  BY <1>2 DEF Units, Total
<1>9. ASSUME NEW c \in Campaigns
      PROVE  checkouts'[c] + Cardinality(PayingFor(c))' <= posts'[c] /\ (checkouts'[c] > 0 => c \in budgeted')
  <2> DEFINE p == Cardinality(PayingFor(c))
  <2> DEFINE q == Cardinality(PayingFor(c))'
  <2>1. p \in Nat /\ q \in Nat /\ q <= p /\ (c = k => q = p - 1)
    BY <1>3, <1>5, PaidNumbers, NumbersMove
  <2>2. checkouts[c] + p <= posts[c] /\ (checkouts[c] > 0 => c \in budgeted)
    BY DEF PaidInv
  <2> HIDE DEF p, q
  <2>3. checkouts'[c] = IF c = k THEN checkouts[c] + 1 ELSE checkouts[c]
    BY <1>2, PaidNumbers
  <2>4. checkouts'[c] + q <= posts'[c] /\ (checkouts'[c] > 0 => c \in budgeted')
    BY <1>2, <1>6, <2>1, <2>2, <2>3, PaidNumbers
  <2> QED
    BY <2>4 DEF q
<1>10. ASSUME NEW q \in Requests, request'[q].kind = "profit", request'[q].step > 1
       PROVE  request'[q].campaign \in budgeted'
  <2>1. CASE q = r
    BY <1>2, <1>4, <1>6, <2>1
  <2>2. CASE q # r
    BY <1>2, <1>3, <1>10, <2>2 DEF Moved, PaidInv
  <2> QED
    BY <2>1, <2>2
<1>11. /\ decisions'["profit"] + Cardinality(Paid)' <= Total(checkouts)'
       /\ Total(decisions)' + Cardinality(Posted)' <= Total(posts)'
  <2>1. /\ decisions["profit"] + Cardinality(Paid) <= Total(checkouts)
        /\ Total(decisions) + Cardinality(Posted) <= Total(posts)
    BY DEF PaidInv
  <2>2. decisions["profit"] \in Nat /\ decisions' = decisions
    BY <1>2, PaidNumbers
  <2>3. Cardinality(Paid)' <= Cardinality(Paid) + 1 /\ Cardinality(Posted)' <= Cardinality(Posted)
    BY <1>3, <1>5, NumbersMove
  <2> QED
    BY <1>3, <1>7, <1>8, <2>1, <2>2, <2>3, PaidNumbers, NumbersMove
<1> QED
  BY <1>2, <1>3, <1>7, <1>8, <1>9, <1>10, <1>11, PaidNumbers, NumbersMove DEF PaidInv

LEMMA EmitPays == ASSUME CampaignTypeOK, RequestInv, PaidInv, NEW r \in Requests, EmitDecision(r)
                  PROVE  PaidInv'
<1> DEFINE k == request[r].kind
<1>1. At(r, "emit") /\ Went(r, "emit")
  BY AdvanceGoes DEF EmitDecision
<1>2. k \in {"campaign", "profit"}
  <2>1. request[r].kind \in Kinds /\ request[r].step \in Nat /\ request[r].status = "running"
        /\ request[r].step # 0 /\ request[r].step <= Len(Steps[request[r].kind])
        /\ Steps[request[r].kind][request[r].step] = "emit"
    BY <1>1 DEF RequestInv, At
  <2>2. InOrder(request[r].kind, Steps[request[r].kind])
    BY <2>1, StepsInOrder
  <2> QED
    BY <2>1, <2>2 DEF InOrder
<1>3. UNCHANGED <<posts, checkouts, budgeted>>
  BY DEF EmitDecision
<1>4. Moved(r) /\ ~At(r, "checkout")' /\ ~At(r, "emit")'
  BY <1>1 DEF Went, Leads
<1>5. CASE decisions' = [decisions EXCEPT ![k] = @ + 0]
  <2>1. decisions' = decisions
    BY <1>2, <1>5, PaidNumbers
  <2>2. request[r].kind = "profit" /\ request'[r].step > 1 => request[r].campaign \in budgeted'
    BY <1>1, <1>3 DEF Went, PaidInv
  <2> QED
    BY <1>3, <1>4, <2>1, <2>2, PaidKept
<1>6. CASE decisions' = [decisions EXCEPT ![k] = @ + 1]
  <2>1. IsFiniteSet(Units(decisions)') /\ Total(decisions)' = Total(decisions) + 1
    <3> DEFINE g == decisions'
    <3>1. decisions \in [{"campaign", "profit"} -> Nat] /\ k \in {"campaign", "profit"}
            /\ IsFiniteSet(Units(decisions))
      BY <1>2, <1>6, PaidNumbers
    <3>2. g \in [{"campaign", "profit"} -> Nat] /\ g[k] = decisions[k] + 1 /\ \A y \in {"campaign", "profit"} : y # k => g[y] = decisions[y]
      BY <1>2, <1>6, <3>1
    <3> HIDE DEF g
    <3>3. IsFiniteSet(Units(g)) /\ Total(g) = Total(decisions) + 1
      BY <3>1, <3>2, TotalOneMore
    <3> QED
      BY <3>3 DEF g, Units, Total
  <2>2. r \in Posted /\ r \notin Posted' /\ r \notin Paid' /\ (k = "profit" => r \in Paid)
        /\ \A c : r \notin PayingFor(c)'
    BY <1>1, <1>4 DEF Posted, Paid, PayingFor
  <2>3. decisions'["profit"] = IF k = "profit" THEN decisions["profit"] + 1 ELSE decisions["profit"]
    BY <1>2, <1>6, PaidNumbers
  <2>4. UNCHANGED <<Units(posts), Units(checkouts), Total(posts), Total(checkouts)>>
    BY <1>3 DEF Units, Total
  <2>5. ASSUME NEW c \in Campaigns
        PROVE  checkouts'[c] + Cardinality(PayingFor(c))' <= posts'[c] /\ (checkouts'[c] > 0 => c \in budgeted')
    <3> DEFINE p == Cardinality(PayingFor(c))
    <3> DEFINE q == Cardinality(PayingFor(c))'
    <3>1. p \in Nat /\ q \in Nat /\ q <= p
      BY <1>4, <2>2, PaidNumbers, NumbersMove
    <3>2. checkouts[c] + p <= posts[c] /\ (checkouts[c] > 0 => c \in budgeted)
      BY DEF PaidInv
    <3> HIDE DEF p, q
    <3>3. checkouts'[c] + q <= posts'[c] /\ (checkouts'[c] > 0 => c \in budgeted')
      BY <1>3, <3>1, <3>2, PaidNumbers
    <3> QED
      BY <3>3 DEF q
  <2>6. ASSUME NEW q \in Requests, request'[q].kind = "profit", request'[q].step > 1
        PROVE  request'[q].campaign \in budgeted'
    <3>1. CASE q = r
      BY <1>1, <1>3, <1>4, <2>6, <3>1 DEF Went, Moved, PaidInv
    <3>2. CASE q # r
      BY <1>3, <1>4, <2>6, <3>2 DEF Moved, PaidInv
    <3> QED
      BY <3>1, <3>2
  <2>7. /\ decisions'["profit"] + Cardinality(Paid)' <= Total(checkouts)'
        /\ Total(decisions)' + Cardinality(Posted)' <= Total(posts)'
    <3>1. /\ decisions["profit"] + Cardinality(Paid) <= Total(checkouts)
          /\ Total(decisions) + Cardinality(Posted) <= Total(posts)
      BY DEF PaidInv
    <3>2. decisions["profit"] \in Nat
      BY PaidNumbers
    <3>3. /\ Cardinality(Posted)' = Cardinality(Posted) - 1 /\ Cardinality(Paid)' <= Cardinality(Paid)
          /\ k = "profit" => Cardinality(Paid)' = Cardinality(Paid) - 1
      BY <1>4, <2>2, NumbersMove
    <3> HIDE DEF k
    <3> QED
      BY <1>4, <2>1, <2>3, <2>4, <3>1, <3>2, <3>3, PaidNumbers, NumbersMove
  <2> QED
    BY <1>4, <2>1, <2>4, <2>5, <2>6, <2>7, PaidNumbers, NumbersMove DEF PaidInv
<1>7. PICK n \in 0..1 : decisions' = [decisions EXCEPT ![k] = @ + n]
  BY DEF EmitDecision
<1>8. n = 0 \/ n = 1
  OBVIOUS
<1> QED
  BY <1>5, <1>6, <1>7, <1>8

-----------------------------------------------------------------------------
(* The bucket.                                                             *)
LEMMA Taking ==
    ASSUME CampaignTypeOK, RateInv, TakeToken, UNCHANGED <<now, engineRestarts>>
    PROVE  /\ tokens' \in 0..MaxTokens /\ refilled' \in 0..now /\ taken' \in Nat /\ taken' >= taken
           /\ Filled # 0 => taken' = taken + 1
           /\ engineRestarts = 0 => taken' + tokens' <= InitTokens + refilled' \div 2
           /\ engineRestarts = 1 => taken' + tokens' <= InitTokens + InitTokens + refilled' \div 2
<1>1. /\ tokens \in Nat /\ tokens <= MaxTokens /\ now \in Nat /\ refilled \in Nat /\ refilled <= now
      /\ taken \in Nat /\ MaxTokens \in Nat /\ InitTokens \in Nat
  BY DEF CampaignTypeOK
<1>2. Refill \in Nat /\ Refill = (now - refilled) \div 2
  BY <1>1 DEF Refill
<1>3. Filled \in Nat /\ Filled <= MaxTokens /\ Filled <= tokens + Refill /\ (Refill = 0 => Filled = tokens)
  <2> DEFINE a == MaxTokens
  <2> DEFINE b == tokens + Refill
  <2>1. a \in Nat /\ b \in Nat
    BY <1>1, <1>2
  <2>2. Filled = IF Refill > 0 THEN Min({a, b}) ELSE tokens
    BY DEF Filled
  <2> HIDE DEF a, b
  <2>3. \E x \in {a, b} : \A y \in {a, b} : x <= y
    BY <2>1
  <2>4. Min({a, b}) \in {a, b} /\ \A y \in {a, b} : Min({a, b}) <= y
    BY <2>3 DEF Min
  <2>5. Min({a, b}) \in Nat /\ Min({a, b}) <= a /\ Min({a, b}) <= b
    BY <2>1, <2>4
  <2> QED
    BY <1>1, <1>2, <2>1, <2>2, <2>5 DEF a, b
<1>4. refilled' = IF Refill > 0 THEN now ELSE refilled
  BY DEF TakeToken, RefilledNow
<1>5. refilled' \in 0..now /\ refilled \div 2 + Refill <= refilled' \div 2
      /\ refilled \div 2 \in Nat /\ refilled' \div 2 \in Nat
  <2>1. CASE Refill > 0
    BY <1>1, <1>2, <1>4, <2>1
  <2>2. CASE Refill = 0
    BY <1>1, <1>2, <1>4, <2>2
  <2> QED
    BY <1>2, <2>1, <2>2
<1>6. /\ Filled = 0 => tokens' = 0 /\ taken' = taken
      /\ Filled # 0 => tokens' = Filled - 1 /\ taken' = taken + 1
  BY DEF TakeToken
<1>7. /\ engineRestarts = 0 => taken + tokens <= InitTokens + refilled \div 2
      /\ engineRestarts = 1 => taken + tokens <= InitTokens + InitTokens + refilled \div 2
  BY DEF RateInv
<1> DEFINE t == taken'
<1> DEFINE h == tokens'
<1>8. h \in Nat /\ h <= MaxTokens /\ t \in Nat /\ t >= taken /\ t + h <= taken + tokens + Refill
  <2>1. /\ Filled = 0 => h = 0 /\ t = taken
        /\ Filled # 0 => h = Filled - 1 /\ t = taken + 1
    BY <1>6
  <2> HIDE DEF t, h
  <2> QED
    BY <1>1, <1>2, <1>3, <2>1
<1>9. /\ engineRestarts = 0 => t + h <= InitTokens + refilled' \div 2
      /\ engineRestarts = 1 => t + h <= InitTokens + InitTokens + refilled' \div 2
  <2> DEFINE m == refilled \div 2
  <2> DEFINE n == refilled' \div 2
  <2> HIDE DEF t, h
  <2>1. m \in Nat /\ n \in Nat /\ m + Refill <= n
    BY <1>5
  <2>2. /\ engineRestarts = 0 => taken + tokens <= InitTokens + m
        /\ engineRestarts = 1 => taken + tokens <= InitTokens + InitTokens + m
    BY <1>7
  <2> HIDE DEF m, n
  <2>3. /\ engineRestarts = 0 => t + h <= InitTokens + n
        /\ engineRestarts = 1 => t + h <= InitTokens + InitTokens + n
    BY <1>1, <1>2, <1>8, <2>1, <2>2
  <2> QED
    BY <2>3 DEF n
<1>10. h \in 0..MaxTokens /\ t \in Nat /\ t >= taken
  <2> HIDE DEF t, h
  <2> QED
    BY <1>1, <1>8
<1>11. tokens' \in 0..MaxTokens /\ taken' \in Nat /\ taken' >= taken
  BY <1>10
<1>12. Filled # 0 => taken' = taken + 1
  BY <1>6
<1>13. refilled' \in 0..now
  BY <1>5
<1>14. /\ engineRestarts = 0 => taken' + tokens' <= InitTokens + refilled' \div 2
       /\ engineRestarts = 1 => taken' + tokens' <= InitTokens + InitTokens + refilled' \div 2
  BY ONLY <1>9
<1> QED
  BY ONLY <1>11, <1>12, <1>13, <1>14

LEMMA TokenRates ==
    ASSUME CampaignTypeOK, RequestInv, PaidInv, RateInv, NEW r \in Requests, AcquireToken(r)
    PROVE  RateInv'
<1>1. At(r, "token") /\ TakeToken /\ UNCHANGED <<now, engineRestarts, posts>>
  BY DEF AcquireToken, effectVars
<1>2. Went(r, "token") /\ (Filled = 0 => \A t : ~At(r, t)')
  BY <1>1, AdvanceGoes, AbortGoes DEF AcquireToken
<1>3. Moved(r) /\ (Filled = 0 => r \notin Publishing')
  BY <1>2 DEF Went, Publishing
<1>4. Total(posts)' = Total(posts)
  BY <1>1 DEF Total, Units
<1>5. Total(posts) + Cardinality(Publishing) <= taken /\ taken \in Nat
  BY DEF RateInv, CampaignTypeOK
<1>6. Total(posts)' + Cardinality(Publishing)' <= taken'
  <2>1. CASE Filled = 0
    <3>1. Cardinality(Publishing)' <= Cardinality(Publishing)
      BY <1>3, <2>1, NumbersMove
    <3> QED
      BY <1>1, <1>3, <1>4, <1>5, <3>1, Taking, PaidNumbers, NumbersMove
  <2>2. CASE Filled # 0
    <3>1. Cardinality(Publishing)' <= Cardinality(Publishing) + 1
      BY <1>3, NumbersMove
    <3>2. taken' = taken + 1
      BY <1>1, <2>2, Taking
    <3> QED
      BY <1>3, <1>4, <1>5, <3>1, <3>2, PaidNumbers, NumbersMove
  <2> QED
    BY <2>1, <2>2
<1>7. /\ engineRestarts' = 0 => taken' + tokens' <= InitTokens + refilled' \div 2
      /\ engineRestarts' = 1 => taken' + tokens' <= InitTokens + InitTokens + refilled' \div 2
  BY <1>1, Taking
<1> QED
  BY <1>6, <1>7 DEF RateInv

LEMMA PublishRates ==
    ASSUME CampaignTypeOK, RequestInv, PaidInv, RateInv, NEW r \in Requests, Publish(r) PROVE RateInv'
<1> DEFINE k == request[r].campaign
<1>1. k \in Campaigns /\ At(r, "publish") /\ Went(r, "publish")
  BY AnswerGoes DEF RequestInv, Publish
<1>2. posts' = [posts EXCEPT ![k] = @ + 1] /\ UNCHANGED <<engineRestarts, bucketVars>>
  BY DEF Publish
<1> HIDE DEF k
<1>3. Moved(r) /\ r \in Publishing /\ r \notin Publishing'
  BY <1>1 DEF Went, Publishing, Leads
<1>4. Cardinality(Publishing)' = Cardinality(Publishing) - 1
  BY <1>3, NumbersMove
<1>5. Total(posts)' = Total(posts) + 1
  <2> DEFINE g == posts'
  <2>1. posts \in [Campaigns -> Nat] /\ k \in Campaigns /\ IsFiniteSet(Units(posts))
    BY <1>1, PaidNumbers
  <2>2. g \in [Campaigns -> Nat] /\ g[k] = posts[k] + 1 /\ \A y \in Campaigns : y # k => g[y] = posts[y]
    BY <1>2, <2>1
  <2> HIDE DEF g
  <2>3. Total(g) = Total(posts) + 1
    BY <2>1, <2>2, TotalOneMore
  <2> QED
    BY <2>3 DEF g, Units, Total
<1>6. Total(posts)' + Cardinality(Publishing)' <= taken'
  <2>1. Total(posts) + Cardinality(Publishing) <= taken /\ taken \in Nat /\ taken' = taken
    BY <1>2 DEF RateInv, CampaignTypeOK, bucketVars
  <2> QED
    BY <1>4, <1>5, <2>1, PaidNumbers
<1> QED
  BY <1>2, <1>6 DEF RateInv, bucketVars

LEMMA StatusRates == ASSUME CampaignTypeOK, PaidInv, RateInv, Status PROVE RateInv'
<1>1. TakeToken /\ UNCHANGED <<request, now, engineRestarts, posts>>
  BY DEF Status, effectVars
<1>2. Total(posts)' = Total(posts) /\ Publishing' = Publishing
  BY <1>1 DEF Total, Units, Publishing, At
<1>3. Total(posts)' + Cardinality(Publishing') <= taken'
  <2>1. taken \in Nat /\ taken' \in Nat /\ taken <= taken'
          /\ Total(posts) + Cardinality(Publishing) <= taken
    BY <1>1, Taking DEF RateInv, CampaignTypeOK
  <2> QED
    BY <1>2, <2>1, PaidNumbers
<1> QED
  BY <1>1, <1>3, Taking DEF RateInv

LEMMA RestartRates == ASSUME CampaignTypeOK, PaidInv, RateInv, RestartEngine PROVE RateInv'
<1>1. UNCHANGED <<request, posts, taken>> /\ engineRestarts = 0 /\ engineRestarts' = 1 /\ tokens' = InitTokens
        /\ refilled' = now
  BY DEF RestartEngine, effectVars
<1>2. Total(posts)' = Total(posts) /\ Publishing' = Publishing
  BY <1>1 DEF Total, Units, Publishing, At
<1>3. taken + tokens <= InitTokens + refilled \div 2
  BY <1>1 DEF RateInv
<1>4. taken' + tokens' <= InitTokens + InitTokens + refilled' \div 2
  <2>1. tokens \in Nat /\ taken \in Nat /\ now \in Nat /\ refilled \in Nat /\ refilled <= now
          /\ InitTokens \in Nat
    BY DEF CampaignTypeOK
  <2> QED
    BY <1>1, <1>3, <2>1
<1> QED
  BY <1>1, <1>2, <1>4 DEF RateInv

LEMMA RateBound == CampaignTypeOK /\ PaidInv /\ RateInv => RateLimited
<1> SUFFICES ASSUME CampaignTypeOK, PaidInv, RateInv PROVE RateLimited
  OBVIOUS
<1>1. Total(posts) <= taken
  BY PaidNumbers DEF RateInv, CampaignTypeOK
<1>2. taken + tokens <= (engineRestarts + 1) * InitTokens + now \div 2
  <2>1. /\ tokens \in Nat /\ taken \in Nat /\ now \in Nat /\ refilled \in Nat /\ refilled <= now
        /\ InitTokens \in Nat
        /\ engineRestarts \in {0, 1}
    BY DEF CampaignTypeOK
  <2>2. refilled \div 2 <= now \div 2 /\ refilled \div 2 \in Nat /\ now \div 2 \in Nat
    BY <2>1
  <2>3. CASE engineRestarts = 0
    <3>1. (0 + 1) * InitTokens = InitTokens
      BY <2>1
    <3>2. taken + tokens <= InitTokens + refilled \div 2
      BY <2>3 DEF RateInv
    <3> QED
      BY <2>1, <2>2, <2>3, <3>1, <3>2
  <2>4. CASE engineRestarts = 1
    <3>1. (1 + 1) * InitTokens = InitTokens + InitTokens
      BY <2>1
    <3>2. taken + tokens <= InitTokens + InitTokens + refilled \div 2
      BY <2>4 DEF RateInv
    <3> QED
      BY <2>1, <2>2, <2>4, <3>1, <3>2
  <2> QED
    BY <2>1, <2>3, <2>4
<1> QED
  BY <1>1, <1>2 DEF RateLimited

-----------------------------------------------------------------------------
(* The bandit.                                                             *)
LEMMA OneMoreTry ==
    ASSUME CampaignTypeOK, BanditInv, NEW a \in Arms, tries' = [tries EXCEPT ![a] = @ + 1]
    PROVE  /\ IsFiniteSet(Units(tries)') /\ Total(tries)' = Total(tries) + 1
           /\ Explored /\ a \in Preferred => Explored'
<1> DEFINE g == tries'
<1>1. tries \in [Arms -> Nat] /\ IsFiniteSet(Units(tries))
  BY DEF CampaignTypeOK, BanditInv
<1>2. g \in [Arms -> Nat] /\ g[a] = tries[a] + 1 /\ \A b \in Arms : b # a => g[b] = tries[b]
  BY <1>1
<1>3. Explored /\ a \in Preferred => Explored'
  <2> SUFFICES ASSUME Explored, a \in Preferred PROVE Explored'
    OBVIOUS
  <2>1. tries[a] > 0 => \A b \in Arms : tries[b] > 0
    BY <1>1 DEF Preferred, UntriedFrom, Arms
  <2>2. tries[a] = 0 => \A b \in Arms : b < a => tries[b] > 0
    BY <1>1 DEF Preferred, UntriedFrom, Arms
  <2> HIDE DEF g
  <2>3. \A b, c \in Arms : (g[c] > 1 \/ (b < c /\ g[c] = 1)) => g[b] > 0
    BY <1>1, <1>2, <2>1, <2>2 DEF Explored, Arms
  <2> QED
    BY <2>3 DEF Explored, g
<1> HIDE DEF g
<1>4. IsFiniteSet(Units(g)) /\ Total(g) = Total(tries) + 1
  BY <1>1, <1>2, TotalOneMore
<1> QED
  BY <1>3, <1>4 DEF g, Units, Total

LEMMA SelectTries == ASSUME RequestInv, BanditInv, NEW r \in Requests, SelectArm(r) PROVE BanditInv'
<1>1. PICK a \in Preferred : Advance(r, a)
  BY DEF SelectArm
<1>2. a \in Arms /\ a \in Nat
  BY DEF Preferred, UntriedFrom, Arms
<1>3. /\ At(r, "select") /\ UNCHANGED <<tries, updates, unknown>>
      /\ crowded' = crowded \cup {x \in {"bandit"} : \E q \in Requests : At(q, "budget")}
  BY DEF SelectArm
<1>4. Went(r, "select") /\ request'[r].read = a
  BY <1>1, <1>2, <1>3, AdvanceGoes
<1>5. /\ \A q \in Requests : q # r => (At(q, "budget")' <=> At(q, "budget")) /\ request'[q] = request[q]
      /\ ~At(r, "budget")
  BY <1>4, OthersStay DEF Went, Moved
<1>6. UNCHANGED <<Units(tries), Total(tries), Explored, Preferred>>
  BY <1>3 DEF Units, Total, Explored, Preferred, UntriedFrom
<1>7. \A q \in Requests : At(q, "budget")' => request'[q].read \in Arms
  BY <1>2, <1>4, <1>5 DEF BanditInv
<1>8. ASSUME "bandit" \notin crowded'
      PROVE  /\ Explored'
             /\ \A q \in Requests : At(q, "budget")' =>
                   request'[q].read \in Preferred' /\ \A p \in Requests : At(p, "budget")' => p = q
  <2>1. "bandit" \notin crowded /\ \A q \in Requests : ~At(q, "budget")
    BY <1>3, <1>8
  <2>2. \A q \in Requests : At(q, "budget")' => q = r
    BY <1>5, <2>1
  <2> QED
    BY <1>1, <1>4, <1>6, <2>1, <2>2 DEF BanditInv
<1> QED
  BY <1>3, <1>6, <1>7, <1>8 DEF BanditInv

LEMMA AllocateTries == ASSUME CampaignTypeOK, RequestInv, BanditInv, NEW r \in Requests, Allocate(r)
                       PROVE  BanditInv'
<1> DEFINE a == request[r].read
<1>1. /\ At(r, "budget") /\ Went(r, "budget") /\ UNCHANGED <<unknown, crowded>>
      /\ tries' = [tries EXCEPT ![a] = @ + 1] /\ updates' = updates + 1
  BY AnswerGoes DEF Allocate
<1>2. a \in Arms
  BY <1>1 DEF BanditInv
<1>3. ~At(r, "budget")' /\ Moved(r)
  BY <1>1 DEF Went, Leads
<1>4. \A q \in Requests : At(q, "budget")' => q # r /\ At(q, "budget") /\ request'[q] = request[q]
  BY <1>3, OthersStay DEF Moved
<1>5. "bandit" \notin crowded => a \in Preferred /\ Explored /\ \A q \in Requests : At(q, "budget") =>
        q = r
  BY <1>1 DEF BanditInv
<1>6. "bandit" \notin crowded => \A q \in Requests : ~At(q, "budget")'
  BY <1>4, <1>5
<1> HIDE DEF a
<1>7. /\ IsFiniteSet(Units(tries)') /\ Total(tries)' = Total(tries) + 1
      /\ Explored /\ a \in Preferred => Explored'
  BY <1>1, <1>2, OneMoreTry
<1>8. Total(tries)' = updates' + unknown'
  <2>1. Total(tries) = updates + unknown /\ updates \in Nat /\ unknown \in Nat
    BY DEF BanditInv, CampaignTypeOK
  <2> QED
    BY <1>1, <1>7, <2>1
<1>9. \A q \in Requests : At(q, "budget")' => request'[q].read \in Arms
  BY <1>4 DEF BanditInv
<1> QED
  BY <1>1, <1>5, <1>6, <1>7, <1>8, <1>9 DEF BanditInv

LEMMA OtherTries == ASSUME CampaignTypeOK, BanditInv, NEW known \in BOOLEAN, AllocateFor(known)
                    PROVE  BanditInv'
<1>1. PICK a \in Preferred : tries' = [tries EXCEPT ![a] = @ + 1]
  BY DEF AllocateFor
<1>2. a \in Arms
  BY DEF Preferred, UntriedFrom, Arms
<1>3. /\ UNCHANGED request /\ crowded' = crowded \cup {x \in {"bandit"} : \E q \in Requests : At(q, "budget")}
      /\ \/ updates' = updates + 1 /\ unknown' = unknown
         \/ updates' = updates /\ unknown' = unknown + 1
  BY DEF AllocateFor
<1>4. \A q \in Requests : (At(q, "budget")' <=> At(q, "budget")) /\ request'[q] = request[q]
  BY <1>3 DEF At
<1>5. /\ IsFiniteSet(Units(tries)') /\ Total(tries)' = Total(tries) + 1
      /\ Explored => Explored'
  BY <1>1, <1>2, OneMoreTry
<1>6. Total(tries)' = updates' + unknown'
  <2>1. Total(tries) = updates + unknown /\ updates \in Nat /\ unknown \in Nat
    BY DEF BanditInv, CampaignTypeOK
  <2> QED
    BY <1>3, <1>5, <2>1
<1>7. \A q \in Requests : At(q, "budget")' => request'[q].read \in Arms
  BY <1>4 DEF BanditInv
<1>8. "bandit" \notin crowded' => Explored' /\ \A q \in Requests : ~At(q, "budget")'
  BY <1>3, <1>4, <1>5 DEF BanditInv
<1> QED
  BY <1>5, <1>6, <1>7, <1>8 DEF BanditInv

-----------------------------------------------------------------------------
(* The weights and the capital.                                            *)
LEMMA ReadLearns == ASSUME CampaignTypeOK, RequestInv, LearnInv, NEW r \in Requests, Read(r)
                    PROVE  LearnInv'
<1>1. /\ At(r, "weigh") /\ Advance(r, learned["hrl"]) /\ UNCHANGED <<learned, calls>>
      /\ crowded' = crowded \cup {e \in {"hrl"} : \E q \in Requests : At(q, e)}
  BY DEF Read
<1>2. learned["hrl"] \in Nat
  BY DEF CampaignTypeOK, Engines
<1>3. Went(r, "weigh") /\ request'[r].read = learned["hrl"]
  BY <1>1, <1>2, AdvanceGoes
<1>4. /\ \A q \in Requests : q # r => (At(q, "hrl")' <=> At(q, "hrl")) /\ request'[q] = request[q]
      /\ ~At(r, "hrl")
  BY <1>3, OthersStay DEF Went, Moved
<1>5. \A q \in Requests : At(q, "hrl")' => request'[q].read <= calls["hrl"]
  BY <1>3, <1>4 DEF LearnInv
<1>6. ASSUME "hrl" \notin crowded'
      PROVE  /\ learned["hrl"] = calls["hrl"]
             /\ \A q \in Requests : At(q, "hrl")' =>
                   request'[q].read = learned["hrl"] /\ \A p \in Requests : At(p, "hrl")' => p = q
  <2>1. "hrl" \notin crowded /\ \A q \in Requests : ~At(q, "hrl")
    BY <1>1, <1>6
  <2>2. \A q \in Requests : At(q, "hrl")' => q = r
    BY <1>4, <2>1
  <2> QED
    BY <1>3, <2>1, <2>2 DEF LearnInv
<1> QED
  BY <1>1, <1>5, <1>6 DEF LearnInv

LEMMA LearnLearns == ASSUME CampaignTypeOK, RequestInv, LearnInv, NEW r \in Requests, Learn(r)
                     PROVE  LearnInv'
<1> DEFINE v == request[r].read
<1>1. /\ At(r, "hrl") /\ Went(r, "hrl") /\ UNCHANGED crowded
      /\ learned' = [learned EXCEPT !["hrl"] = v + 1] /\ calls' = [calls EXCEPT !["hrl"] = @ + 1]
  BY AnswerGoes DEF Learn
<1>2. learned \in [Engines -> Nat] /\ calls \in [Engines -> Nat] /\ v \in Nat
  BY DEF CampaignTypeOK, RequestInv
<1>3. v <= calls["hrl"] /\ ("hrl" \notin crowded => v = calls["hrl"])
  BY <1>1 DEF LearnInv
<1>4. /\ learned'["hrl"] = v + 1 /\ learned'["capital"] = learned["capital"]
      /\ calls'["hrl"] = calls["hrl"] + 1 /\ calls'["capital"] = calls["capital"]
  BY <1>1, <1>2 DEF Engines
<1>5. ~At(r, "hrl")' /\ Moved(r)
  BY <1>1 DEF Went, Leads
<1>6. \A q \in Requests : At(q, "hrl")' => q # r /\ At(q, "hrl") /\ request'[q] = request[q]
  BY <1>5, OthersStay DEF Moved
<1>7. calls["hrl"] \in Nat
  BY <1>2 DEF Engines
<1>8. \A q \in Requests : At(q, "hrl")' => request'[q].read <= calls'["hrl"]
  <2>1. ASSUME NEW q \in Requests, At(q, "hrl")' PROVE request'[q].read <= calls'["hrl"]
    <3>1. request'[q].read <= calls["hrl"] /\ request[q].read \in Nat
      BY <1>6, <2>1 DEF LearnInv, RequestInv
    <3> QED
      BY <1>4, <1>6, <1>7, <2>1, <3>1
  <2> QED
    BY <2>1
<1>9. "hrl" \notin crowded => \A q \in Requests : ~At(q, "hrl")'
  BY <1>1, <1>6 DEF LearnInv
<1> HIDE DEF v
<1> QED
  BY <1>1, <1>2, <1>3, <1>4, <1>7, <1>8, <1>9 DEF LearnInv

LEMMA ReinvestLearns == ASSUME CampaignTypeOK, RequestInv, LearnInv, NEW r \in Requests, Reinvest(r)
                        PROVE  LearnInv'
<1>1. /\ Went(r, "capital") /\ UNCHANGED crowded
      /\ learned' = [learned EXCEPT !["capital"] = @ + 1]
      /\ calls' = [calls EXCEPT !["capital"] = @ + 1]
  BY AnswerGoes DEF Reinvest
<1>2. learned \in [Engines -> Nat] /\ calls \in [Engines -> Nat]
  BY DEF CampaignTypeOK
<1>3. /\ learned'["capital"] = learned["capital"] + 1 /\ learned'["hrl"] = learned["hrl"]
      /\ calls'["capital"] = calls["capital"] + 1 /\ calls'["hrl"] = calls["hrl"]
  BY <1>1, <1>2 DEF Engines
<1>4. ~At(r, "hrl")' /\ Moved(r)
  BY <1>1 DEF Went, Leads
<1>5. \A q \in Requests : At(q, "hrl")' => At(q, "hrl") /\ request'[q] = request[q]
  BY <1>4, OthersStay DEF Moved
<1> QED
  BY <1>1, <1>3, <1>5 DEF LearnInv

-----------------------------------------------------------------------------
(* Every step.                                                             *)
LEMMA Clears ==
    ASSUME NEW r \in Requests, NEW s, Went(r, s)
    PROVE  /\ Moved(r) /\ RequestInv'
           /\ s # "select" => ~At(r, "budget")'
           /\ s # "weigh" => ~At(r, "hrl")'
           /\ s # "token" => ~At(r, "publish")'
           /\ s # "publish" => ~At(r, "checkout")'
           /\ s \notin {"publish", "checkout"} => ~At(r, "emit")'
BY DEF Went, Leads

LEMMA Budgeted ==
    ASSUME PaidInv, NEW r \in Requests, NEW s, Went(r, s), s # "store", budgeted \subseteq budgeted'
    PROVE  request[r].kind = "profit" /\ request'[r].step > 1 => request[r].campaign \in budgeted'
BY DEF Went, PaidInv

(* Steps that are only of some request's own.                              *)
LEMMA OwnStep ==
    ASSUME IInv, NEW r \in Requests, Moved(r), RequestInv',
           \A t \in {"publish", "checkout", "emit", "budget", "hrl"} : ~At(r, t)',
           UNCHANGED <<posts, checkouts,
                       decisions, engineRestarts, bucketVars, engineVars>>, budgeted \subseteq budgeted',
           request[r].kind = "profit" /\ request'[r].step > 1 => request[r].campaign \in budgeted'
    PROVE  RequestInv' /\ PaidInv' /\ RateInv' /\ BanditInv' /\ LearnInv'
<1>1. PaidInv'
  BY PaidKept DEF IInv
<1>2. RateInv'
  BY RateKept DEF IInv
<1>3. BanditInv'
  BY BanditKept DEF IInv, engineVars
<1>4. LearnInv'
  BY LearnKept DEF IInv, engineVars
<1> QED
  BY <1>1, <1>2, <1>3, <1>4

LEMMA SendStep ==
    ASSUME IInv, NEW r \in Requests, Send(r)
    PROVE  RequestInv' /\ PaidInv' /\ RateInv' /\ BanditInv' /\ LearnInv'
<1>1. Went(r, "client")
  BY SendGoes DEF IInv
<1>2. UNCHANGED <<engineRestarts, bucketVars, engineVars>>
        /\ UNCHANGED <<posts, checkouts, decisions, budgeted>>
  BY DEF Send, effectVars
<1>3. request[r].kind = "profit" /\ request'[r].step > 1 => request[r].campaign \in budgeted'
  BY <1>1, <1>2, Budgeted DEF IInv
<1> QED
  BY <1>1, <1>2, <1>3, Clears, OwnStep

LEMMA AskStep ==
    ASSUME IInv, NEW r \in Requests,
           NEW s \in {"features", "decide", "predict", "assign", "scale", "launch", "charge"}, Ask(r, s)
    PROVE  RequestInv' /\ PaidInv' /\ RateInv' /\ BanditInv' /\ LearnInv'
<1>1. Went(r, s)
  BY AnswerGoes DEF IInv, Ask
<1>2. UNCHANGED <<engineRestarts, bucketVars, engineVars>>
        /\ UNCHANGED <<posts, checkouts, decisions, budgeted>>
  BY DEF Ask, effectVars
<1>3. request[r].kind = "profit" /\ request'[r].step > 1 => request[r].campaign \in budgeted'
  BY <1>1, <1>2, Budgeted DEF IInv
<1> QED
  BY <1>1, <1>2, <1>3, Clears, OwnStep

LEMMA RefusedStep ==
    ASSUME IInv, NEW r \in Requests, Refused(r)
    PROVE  RequestInv' /\ PaidInv' /\ RateInv' /\ BanditInv' /\ LearnInv'
<1>1. PICK s \in {"store", "select", "weigh", "capital", "token", "publish", "checkout"} : At(r, s)
  BY DEF Refused
<1>2. Went(r, s) /\ request'[r].step = 0 /\ \A t : ~At(r, t)'
  BY <1>1, AbortGoes DEF IInv, Refused
<1>3. UNCHANGED <<engineRestarts, bucketVars, engineVars>>
        /\ UNCHANGED <<posts, checkouts, decisions, budgeted>>
  BY DEF Refused, effectVars
<1> QED
  BY <1>2, <1>3, Clears, OwnStep

LEMMA SagaStoreStep ==
    ASSUME IInv, NEW r \in Requests, Store(r)
    PROVE  RequestInv' /\ PaidInv' /\ RateInv' /\ BanditInv' /\ LearnInv'
<1>1. Went(r, "store")
  BY AnswerGoes DEF IInv, Store
<1>2. /\ UNCHANGED <<engineRestarts, bucketVars, engineVars>>
      /\ UNCHANGED <<posts, checkouts, decisions>>
      /\ budgeted' = budgeted \cup {request[r].campaign}
  BY DEF Store
<1> QED
  BY <1>1, <1>2, Clears, OwnStep

LEMMA EngineStep ==
    ASSUME IInv, NEW r \in Requests,
           SelectArm(r) \/ Allocate(r) \/ Read(r) \/ Learn(r) \/ Reinvest(r)
    PROVE  RequestInv' /\ PaidInv' /\ RateInv' /\ BanditInv' /\ LearnInv'
<1>0. CampaignTypeOK /\ RequestInv /\ PaidInv /\ RateInv /\ BanditInv /\ LearnInv
  BY DEF IInv
<1>1. UNCHANGED <<engineRestarts, bucketVars, effectVars>>
  BY DEF SelectArm, Allocate, Read, Learn, Reinvest
<1>2. ASSUME NEW s \in {"select", "budget", "weigh", "hrl", "capital"}, Went(r, s)
      PROVE  RequestInv' /\ PaidInv' /\ RateInv'
  <2>1. request[r].kind = "profit" /\ request'[r].step > 1 => request[r].campaign \in budgeted'
    BY <1>0, <1>1, <1>2, Budgeted DEF effectVars
  <2>2. PaidInv'
    BY <1>0, <1>1, <1>2, <2>1, Clears, PaidKept DEF effectVars
  <2>3. RateInv'
    BY <1>0, <1>1, <1>2, Clears, RateKept DEF effectVars
  <2> QED
    BY <1>2, <2>2, <2>3, Clears
<1>3. CASE SelectArm(r)
  <2>1. Went(r, "select")
    <3>1. PICK a \in Preferred : Advance(r, a)
      BY <1>3 DEF SelectArm
    <3>2. a \in Nat /\ At(r, "select")
      BY <1>3 DEF Preferred, UntriedFrom, Arms, SelectArm
    <3> QED
      BY <1>0, <3>1, <3>2, AdvanceGoes
  <2>2. BanditInv'
    BY <1>0, <1>3, SelectTries
  <2>3. LearnInv'
    BY <1>0, <1>3, <2>1, Clears, LearnKept DEF SelectArm
  <2> QED
    BY <1>2, <2>1, <2>2, <2>3
<1>4. CASE Allocate(r)
  <2>1. Went(r, "budget")
    BY <1>0, <1>4, AnswerGoes DEF Allocate
  <2>2. BanditInv'
    BY <1>0, <1>4, AllocateTries
  <2>3. LearnInv'
    BY <1>0, <1>4, <2>1, Clears, LearnKept DEF Allocate
  <2> QED
    BY <1>2, <2>1, <2>2, <2>3
<1>5. CASE Read(r)
  <2>1. Went(r, "weigh")
    <3>1. learned["hrl"] \in Nat
      BY <1>0 DEF CampaignTypeOK, Engines
    <3> QED
      BY <1>0, <1>5, <3>1, AdvanceGoes DEF Read
  <2>2. BanditInv'
    BY <1>0, <1>5, <2>1, Clears, BanditKept DEF Read
  <2>3. LearnInv'
    BY <1>0, <1>5, ReadLearns
  <2> QED
    BY <1>2, <2>1, <2>2, <2>3
<1>6. CASE Learn(r)
  <2>1. Went(r, "hrl")
    BY <1>0, <1>6, AnswerGoes DEF Learn
  <2>2. BanditInv'
    BY <1>0, <1>6, <2>1, Clears, BanditKept DEF Learn
  <2>3. LearnInv'
    BY <1>0, <1>6, LearnLearns
  <2> QED
    BY <1>2, <2>1, <2>2, <2>3
<1>7. CASE Reinvest(r)
  <2>1. Went(r, "capital")
    BY <1>0, <1>7, AnswerGoes DEF Reinvest
  <2>2. BanditInv'
    BY <1>0, <1>7, <2>1, Clears, BanditKept DEF Reinvest
  <2>3. LearnInv'
    BY <1>0, <1>7, ReinvestLearns
  <2> QED
    BY <1>2, <2>1, <2>2, <2>3
<1> QED
  BY <1>3, <1>4, <1>5, <1>6, <1>7

LEMMA EffectStep ==
    ASSUME IInv, NEW r \in Requests, AcquireToken(r) \/ Publish(r) \/ Checkout(r) \/ EmitDecision(r)
    PROVE  RequestInv' /\ PaidInv' /\ RateInv' /\ BanditInv' /\ LearnInv'
<1>0. CampaignTypeOK /\ RequestInv /\ PaidInv /\ RateInv /\ BanditInv /\ LearnInv
  BY DEF IInv
<1>1. UNCHANGED <<engineRestarts, engineVars>>
  BY DEF AcquireToken, Publish, Checkout, EmitDecision
<1>2. ASSUME NEW s \in {"token", "publish", "checkout", "emit"}, Went(r, s)
      PROVE  RequestInv' /\ BanditInv' /\ LearnInv'
  <2>1. BanditInv'
    BY <1>0, <1>1, <1>2, Clears, BanditKept DEF engineVars
  <2>2. LearnInv'
    BY <1>0, <1>1, <1>2, Clears, LearnKept DEF engineVars
  <2> QED
    BY <1>2, <2>1, <2>2, Clears
<1>3. CASE AcquireToken(r)
  <2>1. Went(r, "token")
    BY <1>0, <1>3, AdvanceGoes, AbortGoes DEF AcquireToken
  <2>2. UNCHANGED <<posts, checkouts, decisions, budgeted>>
    BY <1>3 DEF AcquireToken, effectVars
  <2>3. PaidInv'
    BY <1>0, <2>1, <2>2, Budgeted, Clears, PaidKept
  <2>4. RateInv'
    BY <1>0, <1>3, TokenRates
  <2> QED
    BY <1>2, <2>1, <2>3, <2>4
<1>4. CASE Publish(r)
  <2>1. Went(r, "publish")
    BY <1>0, <1>4, AnswerGoes DEF Publish
  <2>2. PaidInv' /\ RateInv'
    BY <1>0, <1>4, PublishPays, PublishRates
  <2> QED
    BY <1>2, <2>1, <2>2
<1>5. CASE Checkout(r)
  <2>1. Went(r, "checkout")
    BY <1>0, <1>5, AnswerGoes DEF Checkout
  <2>2. PaidInv'
    BY <1>0, <1>5, CheckoutPays
  <2>3. RateInv'
    BY <1>0, <1>1, <1>5, <2>1, Clears, RateKept DEF Checkout
  <2> QED
    BY <1>2, <2>1, <2>2, <2>3
<1>6. CASE EmitDecision(r)
  <2>1. Went(r, "emit")
    BY <1>0, <1>6, AdvanceGoes DEF EmitDecision
  <2>2. PaidInv'
    BY <1>0, <1>6, EmitPays
  <2>3. RateInv'
    BY <1>0, <1>1, <1>6, <2>1, Clears, RateKept DEF EmitDecision
  <2> QED
    BY <1>2, <2>1, <2>2, <2>3
<1> QED
  BY <1>3, <1>4, <1>5, <1>6

LEMMA EnvironmentStep ==
    ASSUME IInv, (\E known \in BOOLEAN : AllocateFor(known)) \/ Status \/ RestartEngine \/ Tick \/ UNCHANGED campaignVars
    PROVE  RequestInv' /\ PaidInv' /\ RateInv' /\ BanditInv' /\ LearnInv'
<1>0. CampaignTypeOK /\ RequestInv /\ PaidInv /\ RateInv /\ BanditInv /\ LearnInv
  BY DEF IInv
<1>1. UNCHANGED <<request, effectVars>>
  BY DEF AllocateFor, Status, RestartEngine, Tick, campaignVars
<1>2. RequestInv' /\ PaidInv'
  BY <1>0, <1>1, PaidStays DEF RequestInv
<1>3. ASSUME NEW known \in BOOLEAN, AllocateFor(known) PROVE RateInv' /\ BanditInv' /\ LearnInv'
  <2>1. UNCHANGED <<engineRestarts, bucketVars, learned, calls>> /\ crowded \subseteq crowded'
          /\ crowded' \subseteq crowded \cup {"bandit"}
    BY <1>3 DEF AllocateFor
  <2> QED
    BY <1>0, <1>1, <1>3, <2>1, RateStays, OtherTries, LearnStays DEF effectVars
<1>4. ASSUME Status \/ RestartEngine \/ Tick \/ UNCHANGED campaignVars PROVE BanditInv' /\ LearnInv'
  <2>1. UNCHANGED engineVars
    BY <1>4 DEF Status, RestartEngine, Tick, campaignVars
  <2> QED
    BY <1>0, <1>1, <2>1, BanditStays, LearnStays DEF engineVars
<1>5. ASSUME Tick \/ UNCHANGED campaignVars PROVE RateInv'
  <2>1. UNCHANGED <<engineRestarts, bucketVars>>
    BY <1>5 DEF Tick, campaignVars
  <2> QED
    BY <1>0, <1>1, <2>1, RateStays DEF effectVars
<1> QED
  BY <1>0, <1>2, <1>3, <1>4, <1>5, StatusRates, RestartRates

LEMMA Types == ASSUME IInv, [CampaignNext]_campaignVars, RequestInv' PROVE CampaignTypeOK'
<1> DEFINE R == \A r \in Requests :
                 request[r] \in [status : {"idle", "running", "done", "failed"}, kind : Kinds, campaign : Campaigns,
                                 step : 0..Len(Steps[request[r].kind]), read : Nat]
<1>0. CampaignTypeOK /\ RequestInv /\ RateInv
  BY DEF IInv
<1>1. R'
  <2>1. ASSUME NEW r \in Requests
        PROVE  request'[r] \in [status : {"idle", "running", "done", "failed"}, kind : Kinds, campaign : Campaigns,
                                step : 0..Len(Steps[request'[r].kind]), read : Nat]
    <3>1. /\ request'[r] \in [status : {"idle", "running", "done", "failed"}, kind : Kinds, campaign : Campaigns,
                              step : Nat, read : Nat]
          /\ request'[r].step <= Len(Steps[request'[r].kind])
      BY DEF RequestInv
    <3>2. Len(Steps[request'[r].kind]) \in Nat
      BY <3>1, StepsInOrder DEF InOrder
    <3> QED
      BY <3>1, <3>2
  <2> QED
    BY <2>1
<1> HIDE DEF R
<1>2. CampaignTypeOK' <=> /\ R'
                  /\ tokens' \in 0..MaxTokens /\ now' \in 0..MaxTime /\ refilled' \in 0..now'
                  /\ posts' \in [Campaigns -> Nat] /\ checkouts' \in [Campaigns -> Nat]
                  /\ budgeted' \subseteq Campaigns /\ decisions' \in [{"campaign", "profit"} -> Nat]
                  /\ tries' \in [Arms -> Nat] /\ updates' \in Nat /\ unknown' \in Nat
                  /\ learned' \in [Engines -> Nat] /\ calls' \in [Engines -> Nat]
                  /\ crowded' \subseteq Engines \cup {"bandit"}
                  /\ taken' \in Nat /\ engineRestarts' \in 0..1 /\ direct' \in 0..MaxDirect
                  /\ sends' \in 0..MaxSends
  BY DEF CampaignTypeOK, R
<1>3. /\ tokens \in 0..MaxTokens /\ now \in 0..MaxTime /\ refilled \in 0..now
      /\ posts \in [Campaigns -> Nat] /\ checkouts \in [Campaigns -> Nat]
      /\ budgeted \subseteq Campaigns /\ decisions \in [{"campaign", "profit"} -> Nat]
      /\ tries \in [Arms -> Nat] /\ updates \in Nat /\ unknown \in Nat
      /\ learned \in [Engines -> Nat] /\ calls \in [Engines -> Nat]
      /\ crowded \subseteq Engines \cup {"bandit"}
      /\ taken \in Nat /\ engineRestarts \in 0..1 /\ direct \in 0..MaxDirect
      /\ sends \in 0..MaxSends
  BY <1>0 DEF CampaignTypeOK
<1> USE <1>1, <1>2, <1>3
<1> USE DEF bucketVars, engineVars, effectVars
<1>4. ASSUME NEW r \in Requests, Send(r) PROVE CampaignTypeOK'
  BY <1>4 DEF Send
<1>5. ASSUME NEW r \in Requests, NEW s, Ask(r, s) PROVE CampaignTypeOK'
  BY <1>5 DEF Ask
<1>6. ASSUME NEW r \in Requests, Refused(r) PROVE CampaignTypeOK'
  BY <1>6 DEF Refused
<1>7. ASSUME NEW r \in Requests PROVE request[r].campaign \in Campaigns /\ request[r].read \in Nat
  BY <1>0 DEF RequestInv
<1>8. ASSUME NEW r \in Requests, Store(r) PROVE CampaignTypeOK'
  BY <1>7, <1>8 DEF Store
<1>9. ASSUME NEW r \in Requests, SelectArm(r) PROVE CampaignTypeOK'
  BY <1>9 DEF SelectArm
<1>10. ASSUME NEW r \in Requests, Allocate(r) PROVE CampaignTypeOK'
  <2>1. /\ tries' = [tries EXCEPT ![request[r].read] = tries[request[r].read] + 1]
        /\ updates' = updates + 1
        /\ UNCHANGED <<now, engineRestarts,
                       sends, direct, learned, unknown, calls, crowded, bucketVars, effectVars>>
    BY <1>10 DEF Allocate
  <2>2. request[r].read \in Arms
    BY <1>10 DEF IInv, BanditInv, Allocate
  <2>3. tries' \in [Arms -> Nat]
    BY <2>1, <2>2
  <2> QED
    BY <2>1, <2>3
<1>11. ASSUME NEW r \in Requests, Read(r) PROVE CampaignTypeOK'
  BY <1>11 DEF Read, Engines
<1>12. ASSUME NEW r \in Requests, Learn(r) PROVE CampaignTypeOK'
  BY <1>7, <1>12 DEF Learn, Engines
<1>13. ASSUME NEW r \in Requests, Reinvest(r) PROVE CampaignTypeOK'
  BY <1>13 DEF Reinvest, Engines
<1>14. ASSUME NEW r \in Requests, AcquireToken(r) PROVE CampaignTypeOK'
  <2>1. TakeToken /\ UNCHANGED <<now, engineRestarts, sends, direct, engineVars, effectVars>>
    BY <1>14 DEF AcquireToken
  <2>2. tokens' \in 0..MaxTokens /\ refilled' \in 0..now /\ taken' \in Nat
    BY <1>0, <2>1, Taking
  <2> QED
    BY <2>1, <2>2
<1>15. ASSUME NEW r \in Requests, Publish(r) PROVE CampaignTypeOK'
  BY <1>7, <1>15 DEF Publish
<1>16. ASSUME NEW r \in Requests, Checkout(r) PROVE CampaignTypeOK'
  BY <1>7, <1>16 DEF Checkout
<1>17. ASSUME NEW r \in Requests, EmitDecision(r) PROVE CampaignTypeOK'
  <2>1. PICK n \in 0..1 : decisions' = [decisions EXCEPT ![request[r].kind] = @ + n]
    BY <1>17 DEF EmitDecision
  <2>2. decisions' \in [{"campaign", "profit"} -> Nat]
    <3> DEFINE k == request[r].kind
    <3>1. decisions' = [decisions EXCEPT ![k] = decisions[k] + n]
      BY <2>1
    <3> HIDE DEF k
    <3>2. CASE k \in {"campaign", "profit"}
      BY <3>1, <3>2
    <3>3. CASE k \notin {"campaign", "profit"}
      BY <3>1, <3>3
    <3> QED
      BY <3>2, <3>3
  <2> QED
    BY <1>17, <2>2 DEF EmitDecision
<1>18. ASSUME NEW known \in BOOLEAN, AllocateFor(known) PROVE CampaignTypeOK'
  <2>1. PICK a \in Preferred : tries' = [tries EXCEPT ![a] = @ + 1]
    BY <1>18 DEF AllocateFor
  <2>2. tries' \in [Arms -> Nat]
    <3>1. a \in Arms
      BY DEF Preferred, UntriedFrom
    <3>2. tries' = [tries EXCEPT ![a] = tries[a] + 1]
      BY <2>1
    <3> QED
      BY <3>1, <3>2
  <2>3. /\ direct < MaxDirect /\ direct' = direct + 1
        /\ crowded' \subseteq crowded \cup {"bandit"} /\ updates' \in Nat /\ unknown' \in Nat
        /\ UNCHANGED <<now, engineRestarts, sends, learned, calls, bucketVars, effectVars>>
    BY <1>18 DEF AllocateFor
  <2> QED
    BY <2>2, <2>3
<1>19. CASE Status
  <2>1. TakeToken /\ direct < MaxDirect /\ direct' = direct + 1
          /\ UNCHANGED <<now, engineRestarts, sends, engineVars, effectVars>>
    BY <1>19 DEF Status
  <2>2. tokens' \in 0..MaxTokens /\ refilled' \in 0..now /\ taken' \in Nat
    BY <1>0, <2>1, Taking
  <2> QED
    BY <2>1, <2>2
<1>20. CASE RestartEngine
  BY <1>20 DEF RestartEngine
<1>21. CASE Tick
  BY <1>21 DEF Tick
<1>22. CASE UNCHANGED campaignVars
  BY <1>22 DEF campaignVars
<1> QED
  BY <1>4, <1>5, <1>6, <1>8, <1>9, <1>10, <1>11, <1>12, <1>13, <1>14, <1>15, <1>16, <1>17, <1>18, <1>19,
     <1>20, <1>21, <1>22
     DEF CampaignNext, RequestStep, Scale, Launch, Charge

LEMMA Starts == CampaignInit => IInv
<1> SUFFICES ASSUME CampaignInit PROVE IInv
  OBVIOUS
<1>1. /\ request \in [Requests -> {IdleRequest(k, c) : k \in Kinds, c \in Campaigns}]
      /\ tokens = InitTokens /\ refilled = 0 /\ now = 0
      /\ posts = [c \in Campaigns |-> 0] /\ checkouts = [c \in Campaigns |-> 0]
      /\ budgeted = {} /\ decisions = [k \in {"campaign", "profit"} |-> 0]
      /\ tries = [a \in Arms |-> 0] /\ updates = 0 /\ unknown = 0
      /\ learned = [e \in Engines |-> 0] /\ calls = [e \in Engines |-> 0]
      /\ crowded = {} /\ taken = 0 /\ engineRestarts = 0 /\ direct = 0 /\ sends = 0
  BY DEF CampaignInit
<1>2. ASSUME NEW r \in Requests
      PROVE  /\ request[r] \in [status : {"idle"}, kind : Kinds, campaign : Campaigns, step : {0}, read : {0}]
             /\ Len(Steps[request[r].kind]) \in Nat
  <2>1. request[r] \in [status : {"idle"}, kind : Kinds, campaign : Campaigns, step : {0}, read : {0}]
    BY <1>1 DEF IdleRequest
  <2> QED
    BY <2>1, StepsInOrder DEF InOrder
<1>3. RequestInv
  BY <1>1, <1>2 DEF RequestInv
<1>4. CampaignTypeOK
  <2>1. \A r \in Requests :
           request[r] \in [status : {"idle", "running", "done", "failed"}, kind : Kinds, campaign : Campaigns,
                           step : 0..Len(Steps[request[r].kind]), read : Nat]
    BY <1>2
  <2>2. /\ tokens \in 0..MaxTokens /\ now \in 0..MaxTime /\ refilled \in 0..now
        /\ direct \in 0..MaxDirect /\ sends \in 0..MaxSends
    BY <1>1
  <2> QED
    BY <1>1, <2>1, <2>2 DEF CampaignTypeOK
<1>5. \A r \in Requests : \A s : ~At(r, s)
  BY <1>2 DEF At
<1>6. Running = {}
  BY <1>2 DEF Running
<1>7. Publishing = {} /\ Paid = {} /\ Posted = {} /\ \A c : PayingFor(c) = {}
  BY <1>5 DEF Publishing, Paid, Posted, PayingFor
<1>8. IsFiniteSet({}) /\ Cardinality({}) = 0
  BY FS_EmptySet
<1>9. /\ IsFiniteSet(Units(posts)) /\ Total(posts) = 0 /\ IsFiniteSet(Units(checkouts))
      /\ Total(checkouts) = 0
      /\ IsFiniteSet(Units(decisions)) /\ Total(decisions) = 0 /\ IsFiniteSet(Units(tries))
      /\ Total(tries) = 0
  BY <1>1, TotalNone
<1>10. PaidInv
  <2>1. \A c \in Campaigns : checkouts[c] = 0 /\ posts[c] = 0
    BY <1>1
  <2>2. decisions["profit"] = 0
    BY <1>1
  <2>3. \A r \in Requests : request[r].step = 0
    BY <1>2
  <2> QED
    BY <1>6, <1>7, <1>8, <1>9, <2>1, <2>2, <2>3 DEF PaidInv
<1>11. RateInv
  <2>1. 0 \div 2 = 0
    OBVIOUS
  <2> QED
    BY <1>1, <1>7, <1>8, <1>9, <2>1 DEF RateInv
<1>12. BanditInv
  <2>1. Explored
    BY <1>1 DEF Explored
  <2> QED
    BY <1>1, <1>5, <1>9, <2>1 DEF BanditInv
<1>13. LearnInv
  BY <1>1, <1>5 DEF LearnInv, Engines
<1> QED
  BY <1>3, <1>4, <1>10, <1>11, <1>12, <1>13 DEF IInv

LEMMA Keeps == IInv /\ [CampaignNext]_campaignVars => IInv'
<1> SUFFICES ASSUME IInv, [CampaignNext]_campaignVars PROVE IInv'
  OBVIOUS
<1>1. ASSUME NEW r \in Requests, RequestStep(r)
      PROVE  RequestInv' /\ PaidInv' /\ RateInv' /\ BanditInv' /\ LearnInv'
  BY <1>1, AskStep, RefusedStep, SagaStoreStep, EngineStep, EffectStep DEF RequestStep, Scale, Launch, Charge
<1>2. RequestInv' /\ PaidInv' /\ RateInv' /\ BanditInv' /\ LearnInv'
  BY <1>1, SendStep, EnvironmentStep DEF CampaignNext
<1> QED
  BY <1>2, Types DEF IInv

LEMMA Implies == IInv => CampaignInv
<1> SUFFICES ASSUME IInv PROVE CampaignInv
  OBVIOUS
<1>0. CampaignTypeOK /\ RequestInv /\ PaidInv /\ RateInv /\ BanditInv /\ LearnInv
  BY DEF IInv
<1>1. PaidWasPublished
  <2>1. ASSUME NEW c \in Campaigns
        PROVE  checkouts[c] <= posts[c] /\ (checkouts[c] > 0 => c \in budgeted)
    <3> DEFINE p == Cardinality(PayingFor(c))
    <3>1. p \in Nat /\ checkouts[c] \in Nat /\ posts[c] \in Nat
      BY <1>0, PaidNumbers
    <3>2. checkouts[c] + p <= posts[c] /\ (checkouts[c] > 0 => c \in budgeted)
      BY <1>0 DEF PaidInv
    <3> HIDE DEF p
    <3> QED
      BY <3>1, <3>2
  <2>2. decisions["profit"] <= Total(checkouts) /\ Total(decisions) <= Total(posts)
    <3>1. /\ decisions["profit"] + Cardinality(Paid) <= Total(checkouts)
          /\ Total(decisions) + Cardinality(Posted) <= Total(posts)
      BY <1>0 DEF PaidInv
    <3>2. decisions["profit"] \in Nat
      BY <1>0, PaidNumbers
    <3> QED
      BY <1>0, <3>1, <3>2, PaidNumbers
  <2> QED
    BY <2>1, <2>2 DEF PaidWasPublished
<1>2. RateLimited
  BY <1>0, RateBound
<1>3. BanditExplores
  BY <1>0 DEF BanditInv, Explored, BanditExplores
<1>4. LossNeedsMeeting
  <2>1. learned["capital"] \in Nat
    BY <1>0 DEF CampaignTypeOK, Engines
  <2> QED
    BY <1>0, <2>1 DEF LearnInv, LossNeedsMeeting, Engines
<1> QED
  BY <1>0, <1>1, <1>2, <1>3, <1>4 DEF CampaignInv

-----------------------------------------------------------------------------
(* However many requests interleave, are sent again and fail wherever they *)
(* may, what is charged for and announced was published, publishing keeps  *)
(* to the bucket, the bandit explores until two handlers meet in it, and   *)
(* only then do the weights lose an update.                                *)
THEOREM CampaignCorrect == CampaignSpec => []CampaignInv
<1>1. CampaignInit => IInv
  BY Starts
<1>2. IInv /\ [CampaignNext]_campaignVars => IInv'
  BY Keeps
<1>3. IInv => CampaignInv
  BY Implies
<1> QED
  BY <1>1, <1>2, <1>3, PTL DEF CampaignSpec
=============================================================================

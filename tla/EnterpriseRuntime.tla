-------------------------- MODULE EnterpriseRuntime --------------------------
(***************************************************************************)
(* The building blocks that EnterpriseRuntime composes in one process:     *)
(* service discovery under a round-robin gateway, a central queue under a  *)
(* crawler cluster that scales its pool by the backlog, and a best-fit     *)
(* scheduler of GPU memory.  Callers may use them in any order.            *)
(***************************************************************************)
EXTENDS Integers, FiniteSets, Sequences, SequencesExt, FiniteSetsExt, Functions

CONSTANTS
    Instances,      \* that may be registered: service, endpoint, healthy
    Paths,          \* of the gateway
    NumJobs,        \* bound: crawl jobs submitted, numbered in their order
    Memory,         \* of each GPU node: total_memory_gb
    Renders,        \* of each render job: gpu_memory_gb
    MinWorkers, MaxWorkers, Target, \* the worker pool
    MaxRoutes,      \* bound: requests routed
    MaxBatch,       \* bound: batch_size
    MaxReleases,    \* bound: releases of memory nothing holds
    None

Services == {i.service : i \in Instances}
GpuNodes == DOMAIN Memory

RuntimeAssumption ==
    /\ MinWorkers \in Nat /\ MaxWorkers \in Nat /\ MinWorkers <= MaxWorkers /\ Target \in Nat \ {0}
    /\ Memory \in [GpuNodes -> Nat] /\ GpuNodes # {} /\ None \notin GpuNodes
    /\ IsFiniteSet(DOMAIN Renders) /\ Renders \in [DOMAIN Renders -> Nat]
    /\ MaxRoutes \in Nat /\ MaxBatch \in Nat /\ NumJobs \in Nat /\ MaxReleases \in Nat

VARIABLES
    instances,      \* _services: the instances of each service, in order
    routes,         \* _routes: the service of each path
    nextIdx,        \* _round_robin_idx
    routed,         \* requests routed
    picks,          \* history: what each endpoint got of each service since its list changed
    queue,          \* crawl.jobs
    sent, got,      \* jobs submitted, and those dispatched
    workers,        \* current_workers
    backlog,        \* history: of the last reconciliation
    used,           \* used_memory_gb of each node
    render,         \* the node each render job holds memory of
    spurious        \* history: releases of memory nothing held

gatewayVars == <<instances, routes, nextIdx, routed, picks>>
queueVars == <<queue, sent, got, workers, backlog>>
gpuVars == <<used, render, spurious>>
vars == <<gatewayVars, queueVars, gpuVars>>

Endpoints == {i.endpoint : i \in Instances}

TypeOK ==
    /\ \A s \in Services : \A k \in DOMAIN instances[s] : instances[s][k] \in Instances /\ instances[s][k].service = s
    /\ \A s \in Services : IsInjective([k \in DOMAIN instances[s] |-> instances[s][k].endpoint])
    /\ routes \in [Paths -> Services \cup {None}] /\ nextIdx \in [Services -> 0..Cardinality(Instances)]
    /\ routed \in 0..MaxRoutes /\ picks \in [Services -> [Endpoints -> 0..MaxRoutes]]
    /\ queue \in Seq(1..NumJobs) /\ sent \in 0..NumJobs /\ got \in Seq(1..NumJobs)
    /\ workers \in MinWorkers..MaxWorkers /\ backlog \in Nat
    /\ used \in [GpuNodes -> Nat] /\ render \in [DOMAIN Renders -> GpuNodes \cup {None}]
    /\ spurious \in 0..MaxReleases

Init ==
    /\ instances = [s \in Services |-> <<>>] /\ routes = [p \in Paths |-> None]
    /\ nextIdx = [s \in Services |-> 0] /\ routed = 0 
    /\ picks = [s \in Services |-> [e \in Endpoints |-> 0]]
    /\ queue = <<>> /\ sent = 0 /\ got = <<>> /\ workers = MinWorkers /\ backlog = 0
    /\ used = [n \in GpuNodes |-> 0] /\ render = [j \in DOMAIN Renders |-> None] /\ spurious = 0

-----------------------------------------------------------------------------
(* Discovery.  An endpoint registered again moves to the end of its list:  *)
(* the list names it once, so the instances of other endpoints are those   *)
(* that stay when the first match goes.                                    *)
Without(service, endpoint) == RemoveFirstMatch(instances[service], LAMBDA i : i.endpoint = endpoint)

(* The places of the healthy instances in a list, and the one that idx of  *)
(* them come before.                                                       *)
Healthy(list) == {k \in DOMAIN list : list[k].healthy}
Before(k, places) == Cardinality({j \in places : j < k})
Candidate(list, idx) == list[CHOOSE k \in Healthy(list) : Before(k, Healthy(list)) = idx]

NewList(service, list) ==
    /\ instances' = [instances EXCEPT ![service] = list]
    /\ picks' = [picks EXCEPT ![service] = [e \in Endpoints |-> 0]]
    /\ UNCHANGED <<routes, nextIdx, routed, queueVars, gpuVars>>

Register(i) == NewList(i.service, Append(Without(i.service, i.endpoint), i))

Deregister(i) == NewList(i.service, Without(i.service, i.endpoint))

AddRoute(path, service) ==
    /\ routes' = [routes EXCEPT ![path] = service]
    /\ UNCHANGED <<instances, nextIdx, routed, picks, queueVars, gpuVars>>

(* The gateway.  The index goes on from where it was when the list changes. *)
NextIdxUnchecked(service, candidates) == nextIdx[service] + 2 \* variant: one instance is skipped

NextIdx(service, candidates) == (nextIdx[service] % candidates) + 1

RouteRequest(path) ==
    LET service == routes[path]
        candidates == Cardinality(Healthy(instances[service]))
        chosen == Candidate(instances[service], nextIdx[service] % candidates)
    IN /\ service # None /\ candidates # 0 /\ routed < MaxRoutes
       /\ picks' = [picks EXCEPT ![service][chosen.endpoint] = @ + 1]
       /\ nextIdx' = [nextIdx EXCEPT ![service] = NextIdx(service, candidates)]
       /\ routed' = routed + 1
       /\ UNCHANGED <<instances, routes, queueVars, gpuVars>>

-----------------------------------------------------------------------------
(* The crawler cluster on crawl.jobs.                                      *)
Submit ==
    /\ sent < NumJobs /\ sent' = sent + 1
    /\ queue' = Append(queue, sent + 1)
    /\ UNCHANGED <<got, workers, backlog, gatewayVars, gpuVars>>

DispatchNewest(size) == \* variant: the newest messages come first
    LET n == Min({size, Len(queue)})
    IN /\ got' = got \o SubSeq(queue, Len(queue) - n + 1, Len(queue))
       /\ queue' = SubSeq(queue, 1, Len(queue) - n)
       /\ UNCHANGED <<sent, workers, backlog, gatewayVars, gpuVars>>

Dispatch(size) ==
    LET n == Min({size, Len(queue)})
    IN /\ got' = got \o SubSeq(queue, 1, n)
       /\ queue' = SubSeq(queue, n + 1, Len(queue))
       /\ UNCHANGED <<sent, workers, backlog, gatewayVars, gpuVars>>

DesiredRoundedDown(jobs) == Min({Max({MinWorkers, jobs \div Target}), MaxWorkers}) \* variant

Desired(jobs) == Min({Max({MinWorkers, (jobs + Target - 1) \div Target}), MaxWorkers})

Reconcile ==
    /\ workers' = Desired(Len(queue)) /\ backlog' = Len(queue)
    /\ UNCHANGED <<queue, sent, got, gatewayVars, gpuVars>>

-----------------------------------------------------------------------------
(* The GPU scheduler.  The caller says what it releases, and where.        *)
Available(n) == Memory[n] - used[n]

FittingByTotal(j) == {n \in GpuNodes : Memory[n] >= Renders[j]} \* variant: used memory is ignored

Fitting(j) == {n \in GpuNodes : Available(n) >= Renders[j]}

Schedule(j) ==
    /\ render[j] = None
    /\ \E n \in Fitting(j) :
         /\ \A m \in Fitting(j) : Available(n) <= Available(m)
         /\ used' = [used EXCEPT ![n] = @ + Renders[j]]
         /\ render' = [render EXCEPT ![j] = n]
    /\ UNCHANGED <<spurious, gatewayVars, queueVars>>

Freed(n, memory) == [used EXCEPT ![n] = Max({0, @ - memory})]

Release(j) ==
    /\ render[j] # None
    /\ used' = Freed(render[j], Renders[j])
    /\ render' = [render EXCEPT ![j] = None]
    /\ UNCHANGED <<spurious, gatewayVars, queueVars>>

(* A release repeated, or of a job of another node.                        *)
ReleaseAgain(n, j) ==
    /\ render[j] # n /\ spurious < MaxReleases
    /\ used' = Freed(n, Renders[j]) /\ spurious' = spurious + 1
    /\ UNCHANGED <<render, gatewayVars, queueVars>>

Next ==
    \/ \E i \in Instances : Register(i) \/ Deregister(i)
    \/ \E p \in Paths : RouteRequest(p) \/ \E s \in Services : AddRoute(p, s)
    \/ Submit \/ Reconcile \/ \E size \in 1..MaxBatch : Dispatch(size)
    \/ \E j \in DOMAIN Renders : Schedule(j) \/ Release(j) \/ \E n \in GpuNodes : ReleaseAgain(n, j)

Spec == Init /\ [][Next]_vars

-----------------------------------------------------------------------------
(* Since the list of a service last changed, its healthy instances got     *)
(* equally many requests, give or take one, through whichever path, and    *)
(* no other instance got any.                                              *)
HealthyEndpoints(list) == {list[k].endpoint : k \in Healthy(list)}

TurnsTaken ==
    \A s \in Services :
        /\ \A e, f \in HealthyEndpoints(instances[s]) : picks[s][e] <= picks[s][f] + 1
        /\ \A e \in Endpoints \ HealthyEndpoints(instances[s]) : picks[s][e] = 0

(* Every job submitted is dispatched once, in order, or still queued.      *)
InOrderOnce == got \o queue = [k \in 1..sent |-> k]

(* The pool is the least, within its limits, that covers the backlog at    *)
(* the last reconciliation.                                                *)
PoolCoversBacklog ==
    /\ workers * Target >= backlog \/ workers = MaxWorkers
    /\ workers > MinWorkers => (workers - 1) * Target < backlog

(* The memory counted as used is what the render jobs hold, and never more *)
(* than there is; after a release of what nobody held it may be less, and  *)
(* the node may then be given more jobs than it has memory for.  What is   *)
(* held is counted in units.                                               *)
HeldBy(jobs) == UNION {{j} \X (1..Renders[j]) : j \in jobs}
Held(n) == Cardinality(HeldBy({j \in DOMAIN Renders : render[j] = n}))

MemoryAccounted ==
    \A n \in GpuNodes : used[n] <= Held(n) /\ used[n] <= Memory[n] /\ (spurious = 0 => used[n] = Held(n))

(* What the parts that the runtime composes keep, in any order of calls.   *)
RuntimeInv == TurnsTaken /\ InOrderOnce /\ PoolCoversBacklog /\ MemoryAccounted
=============================================================================

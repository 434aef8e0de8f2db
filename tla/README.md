# Verification of zlttbots

zlttbots is some seventy small services (Python with FastAPI, some TypeScript)
around Kafka topics, Redis keys and PostgreSQL rows. A service seldom holds a
lock across a call, retries are left to whoever called it, and the same key or
row is written by several of them. What is hard here is therefore what happens
*between* two steps: of two requests, of a thread and a handler, of a crash and
a commit. These modules model those steps, TLC explores them on small
instances, and TLAPS proves the central invariants for every instance.

## Inventory

| Part | State | Operations | Hard behaviour | What makes it correct |
|---|---|---|---|---|
| model-service, asynchronous path | Redis `result:*` with TTL; three Kafka topics; two threads | submit, serve, dead-letter, store, poll the result, websocket | auto-commit against crash; a variable that outlives its iteration; store before produce; two topics, one last writer | no job is forgotten, an answer is the answer of that job, whoever waits is released |
| master-orchestrator, deployments | in-memory store under a lock; event topic | create (idempotent), apply event, emit after unlock | emission outside the lock, restart empties the store, poisoned commands | the lifecycle is followed, one deployment per key and life of the process, an event tells what happened |
| payment gateway | `FAILS`, `OPEN`, `LAST_FAIL` globals | admit, post, retry, trip, reset | a retry after an unanswered charge, unlocked globals shared by concurrent checkouts | opens only on failures as far as unlocked globals can promise it, charges accounted for, every checkout answered |
| payment webhook | `webhook_events`, `orders` | verify, insert event, insert order, answer | two transactions, redelivery, crash between them | what was acknowledged is recorded |
| feature-store | Redis hash per campaign | update, two PUTs, load | read-modify-write without WATCH, defaults validated on load | what is stored can be loaded |
| stream-consumer | the same hash; metric rows; Kafka offset | poll, WATCH/MULTI/EXEC, insert, commit | crash before the commit, failure skipped by a later commit, undecodable record | nothing committed is unhandled, no silent lost increment in a transaction |
| affiliate-webhook, reward-collector, rl-coordinator, rl-engine | conversion rows, counters, agent matrices | insert, count, reward, fan out, update | a chain of four services that fails part-way, answers after a timeout, negative rewards | an acknowledged conversion reached every step |
| workers (crawl, render, upload, farm, generate) | Redis lists, status rows, voice files | push, pop, process, select, mark | a job popped and lost, a row processed twice, a file that blocks the retry | every job ends, repeats have a cause, done means done |
| campaign requests and the engines they call | token bucket, bandit, market weights, capital | five endpoints that call in sequence | a later call fails and nothing is undone; a client sends again; engines shared by threads | what is charged for was published, the bucket bounds publishing, updates are lost only where handlers met |
| model-registry, rl-policy | model files in two stores | train, register, latest | check, then replace, in two stores; string order of versions | a version never changes, the two stores agree or racing requests are why |
| model-sync, S3 loop, rollback monitor, rl-trainer | one file of a volume, its backup, a bucket | copy, back up, restore, upload, download | four writers without exclusion | whole unless two met |
| auto-ml | deployed model, metric file | train, evaluate, deploy, save | crash between deployment and metric, overlapping runs | promotions improve |
| federation, scheduler | node rows with a lease, audit log | start, register, list, assign | expiry or re-registration between read and use; commit, then an entry in a log file | work goes to a node of its tenant, the log explains the rows |
| enterprise_maturity | resilience, v3 runtime and deployment classes | retry, break, register, route, schedule, plan, heal | sequences of legal calls, JSON round trips, callers on threads | memory is accounted for, jobs come in order and once, healing ends a drift |
| arbitrage-engine | jobs, counters, dead letters; commissions, opportunities | run daily, retry; ingest, sync, scan | a counter read before the jobs are taken; requests that build a record and store it later, row by row | a job is in one place, a day's target holds, what is stored is the latest unless requests overlapped |
| exchange | order book | order, match | matchers on several threads | trades within limits, the book settles |
| repository tools | the tree, manifests, quarantine | audit, migrate, generate, compare, validate | killed runs, edits in between | what is needed stays, a second run finishes, an accepted manifest protects |
| security-api, identity, tenant-service, jwt-auth | scan records, key files, tenant rows, tokens | scan, read; make and renew keys; issue, judge | reads during a background task, agents that start together, clocks that differ | a completed scan has its result, a key has its owner, a token was issued |
| profit loop, admission, tuner | money, lanes, replicas, policies | decide, admit, advise, train | two reads of moving values, repeated releases | decisions follow from values that were reached |
| rl-trainer, its gossip | weights, policy file, targets | take, learn, deploy, replace, average | commit of what is in hand, commands that outlive their time limit, peers that are silent or send anything | nothing is skipped, a success runs what was asked for, weights stay within those they are made of |
| security autofix, pr-bot | branches, pull requests, weights | analyse, repair, push, open; feedback | jobs cancelled and run again, reports that come back with a later commit, shared branches, lost answers | a branch is the remedy of its analysis, with its reports |
| network-egress, product-discovery | none | post, fetch | the peer did what was asked and its answer is lost | what is told is what happened |
| platform-core, auth-service, billing-service | Maps of each process, events, rows | register, log in, pay, deploy | `await` between test and store, a rejection that ends the process | a plan is exceeded only by requests that ran together |

`PROJECT.json` lists every component with its files, also those left out (see
*Not modelled*).

How they interact: the affiliate webhook calls feature-store and
reward-collector over HTTP; the collector reads feature-store and calls
rl-coordinator, which fans out to the agents (rl-engine); stream-consumer reads
`campaign.events` and writes the same Redis hash as feature-store;
model-service talks to itself through Kafka and to its clients through Redis;
master-orchestrator receives HTTP requests and Kafka commands and emits events
for both. A campaign request of master-orchestrator calls feature-store, the
coordinator, the engines, the publisher and payment one after the other. The
remaining parts share no state with these and, in this repository, none with
each other beyond what one module holds.

## Modules

| Module | Models | Abstraction |
|---|---|---|
| `AsyncInference` | model-service `main.py`, `queue_runtime.py`, `result_store.py`, `async_queue.py` | a prediction is the features it was computed from; a topic is a sequence, a consumer a position and a committed offset |
| `DeploymentLifecycle` | what the control plane promises: `ALLOWED_TRANSITIONS` as a state machine of independent deployments | abstract specification |
| `DeploymentController` | `deployment_controller.py`, the deployment handlers of `main.py`, the emission of events | implements the former by a refinement mapping |
| `PaymentGateway` | `adapter.py`, `circuit.py`, `main.py` of payment | one action per access to the globals of `circuit.py`, a logical clock of bounded length |
| `PaymentWebhook` | `webhook.py` | Stripe redelivers while unacknowledged, up to `MaxDeliveries` |
| `CampaignFeatures` | feature-store and stream-consumer together | counts and two limits of a campaign; every Redis command of the transaction is a step |
| `RewardPipeline` | affiliate-webhook, reward-collector, rl-coordinator and rl-engine together | a reward is one of two kinds, a gain or a loss; agent matrices are the bag of rewards they absorbed |
| `ContentWorkers` | market-crawler, gpu-renderer, tiktok-farm, tiktok-uploader, account-farm, ai-video-generator | a list is a sequence and a worker what it holds; a row is its status, the times its video was made and whether its voice file exists |
| `CampaignSaga` | the five calling endpoints of `master-orchestrator/src/main.py` with execution-engine, budget-, capital- and scaling-engine, rtb-engine, market-orchestrator, product-generator and billing | a request is a sequence of named calls, each failing before or after its effect; an engine's state is which updates it holds |
| `ModelRegistry` | model-registry, rl-policy's training | a file holds one training's model, nothing, or parts of two |
| `ModelDelivery` | model-sync (`sync`, `rollback`, S3), rl-policy's export, the trainer's write | a write is its truncation and its end |
| `ModelPromotion` | auto-ml `loop.py` | a score is a small number |
| `Federation` | federation, scheduler, `federated_loop` | a token is signed or not and names tenant and region |
| `EnterpriseRuntime` | registry, gateway, queue, crawler cluster and GPU scheduler of `v3_runtime` | payloads are numbers |
| `Resilience` | `enterprise_maturity/resilience.py` | a logical clock |
| `DeploymentPipeline` | canary, planner, policy database and reconciler of `deployment_pipeline.py` | metrics are good or bad, manifests survive JSON or change |
| `PublishingQueue`, `ArbitrageScan` | the publishing and the price comparison of arbitrage-engine | a job is its number and its retries; prices and rates are small numbers |
| `OrderBook` | `exchange` | a heap is the set of its orders and their order |
| `CleanupAudit`, `NameMigration`, `SurfaceManifest` | `repo_cleanup_audit.py`, `full_migration.py` with `rebrand_*.py`, `feature_impact_dive.py` | a file is its imports, the spellings in it, or its routes |
| `SecurityScans`, `AgentKeys`, `Tokens` | security-api; `did.py`, `keystore.py` and tenant-service; jwt-auth | keys are numbered, cryptography is perfect |
| `ProfitControl`, `CapacityAdvice` | the profit loop and `roi.py`; admission, replica advice and the infrastructure tuner | money in whole units, loads in the classes the thresholds cut |
| `TrainerLoop`, `WeightGossip` | the loop of rl-trainer with `agent_replicator.py`; `p2p_agent.py` | what was learned is which records, an image its name; weights are small numbers, a message numbers, words or noise |
| `SecurityAutofix`, `ReviewBot`, `ReviewFeedback` | the autofix workflow with `security_autofix_engine.py` and singularity; pr-bot | a file is which patterns are in it, a SARIF file its rules in order, a patch its text and its secret |
| `RetriedCalls` | the client of network-egress, product-discovery | an answer is its kind and its items |
| `PlatformTenants` | platform-core, auth-service, billing-service behind api-gateway | each registration is a person with a tenant of their own |

`*Proofs` modules hold theorems. `Services`, `Routines` and `Agents` bring
components together that share no state, and `MCServices` these three, with the
inputs that have to be enumerated; the other runs check the component's own
module, and their `.cfg` names the model values. An operator whose comment says *variant* is a plausible
wrong form of the definition below it. It is no part of the specification: it
is there so that each property can be shown to fail for it.

## Runs

**async_inference** (every fault, crash included) and **async_answers** (no
crash, fairness). Two jobs, two submissions, two faults: enough for a job
submitted twice, for two answers out of order, and for a record that cannot be
decoded after one that can, which is when the stale `payload` of
`queue_runtime.py:92` fails the wrong job. `NoJobForgotten` is the safety
backbone: a job stored as queued has a record or a reply on its way, unless a
fault destroyed it. `AnswerStable` says exactly when a stored answer may
change. The liveness properties except the jobs whose only record a fault
destroyed: those *do* stay queued until their TTL, and `ws_result` waits for
as long.

**deployment**, **deployment_answer** and **deployment_key**. Two keys, two
identifiers, two threads, histories of up to five entries, a restart: enough for
two creations that race for one key and for a deployment that succeeds, or that
fails and is fixed and built again. `HistoryTold` says that the store keeps its
types, that the history explains the state and that an emitted transition is one
of it. `OneDeploymentPerKey` counts what was created: in one life of the process
a key creates one deployment at most, and whatever is kept is in reach of the
key it was created with.
`FollowsLifecycle` is the refinement of `DeploymentLifecycle`. `AnswerComplete`
is refuted: the record is serialised outside the lock, between the assignment
of the state and the append to the history, so an answer can lack the entry of
its own state, where `docs/services/master-orchestrator.md` promises the full
transition history. `SameKeySameRecord` is refuted as well: the same document
says that the same key always returns the same record, but the index of the
keys is in memory, and a create that is repeated after a restart creates again.

**payment_gateway**. Two checkouts of two attempts, two failures to open, a
clock that reaches 2: enough to open, cool down, close and open again. Each read
and each write of a global is a step. `GatewayInv` holds two things. The circuit
is open only on enough failures since the last success *unless a `success()` or
`fail()` ran across another*, until one ends alone (`crossed`): nothing locks
the globals, so a `success()` between the test of `FAILS` and `OPEN = True`
leaves the circuit open with `FAILS` 0, and the run reaches that. Whatever
crosses, `FAILS` counts no failure twice, and the circuit never opens before
there were as many failures in all as the threshold. And the charges are bounded
by the attempts whose answer was never seen, which is what a retry without an
idempotency key can promise.

**payment_webhook_once**. Two orders, three deliveries, two handlers that crash
or fail anywhere. `OneOrderPerEvent` is refuted: `ON CONFLICT DO NOTHING`
protects the event row, not the order inserted after it; the roadmap asks for
idempotent webhook ingestion. What holds instead is `WebhookInv`, below.

**features**. One campaign, two overlapping updates, two events of which one
may be undecodable, two faults. Of `FeaturesInv`, `StoredLoads` is that the
defaults never make the stored hash invalid, and `UndecodableBlocks` says what the missing
`except` costs, `EventHandled` what holds otherwise, under fairness of the
process and its restart.

**content_workers**. Two jobs or rows, wherever they are put, four `/farm/run`
requests on two threads, of one iteration each (five in the code: more only
select again), one fault. Four requests are the fewest at which one death
repeats more than one upload of a row: of `WorkersInv`, `RepeatsAccounted`
bounds the repeats by the workers of the table *and* the faults, once more for
each worker and fault. `StuckForGood` is what the exclusive creation of the
voice file comes to: a script that failed after it is never done, and `WorkEnds`
has to except it, together with the scripts an unordered `limit 1` may leave
behind it. When `TTS_OUTPUT_DIR` is not the generator's working directory,
which is its default, every script gets stuck; the run has both.

**campaign**. Two requests, one of profit mode (`Activations`) and one of any
other kind, sent twice in all, a second client of the engines, a restart, two seconds. Small as
this is, it has a profit request that failed after its post and is sent again,
two handlers in one engine, and a bucket that is emptied and refilled.
`CampaignInv` puts the effects in relation: a checkout has its post and its
budget, an announced decision its post, posts never exceed the tokens given,
and an engine lost an update only if two handlers met in it. `RequestsEnd` is
liveness: every call has a timeout, and no endpoint calls in a loop.

**services** and **routines**. The other components share no state with each
other or with the ones above. `Services` instantiates eleven of their modules,
`Routines` six and `Agents` eight, each with constants and variables of its own
(`fedNow` is `now` of `Federation`), and name what each keeps; `MCServices`
extends the three and `PaymentWebhook`, instantiates `RewardPipeline`, gives the
constants their values and states the assumptions. A behaviour chooses one
component of `Parts` and steps it while the others keep their initial values.
Since no action of one module reads a variable of another, interleaving them
would only multiply the states: every reachable state of a component in a run of
its own is reached here and no other, and a property of one component speaks of
its variables only. The two configurations divide the components between them,
so that each run ends in a few minutes. `TypeOK` is the conjunction of the type
invariants, and each `X!Inv` is evaluated in the states of its component.

| Property | Run | Says of |
|---|---|---|
| `WebhookInv` | services | payment's webhook: what was acknowledged is recorded, an order has its event, and no event has more orders than deliveries |
| `PipelineInv`, `ForgetsOnlyOnOverlap` | services | the services a conversion goes through: what an acknowledgement promises, effects in order, and a loss that is never accepted, since the collector clips to [-1, 1] and the coordinator refuses what is below 0; an agent's read-modify-write of its state |
| `RegistryInv`, `VersionsStay` | services | model-registry: a request answered with 200 is in both stores, which differ only if requests for the version met or the source was written between the copies; a version never changes unless two requests for it met; `/latest` only goes upwards |
| `WholeUnlessClash`, `LoopUndoesOnlyRaces` | services | the delivered model, its backup and its bucket are whole unless two writers met; the S3 loop undoes a rollback only from between its upload and its download |
| `PromotionsImprove` | services | auto-ml promotes what scores better, unless runs overlapped or one died between deployment and metric |
| `LogExplainsRows`, `AssignedOwnNode` | services | federation: each commit has its audit entry, is about to have it or is known to lack it, and the last entry of a node tells its row and lease; the scheduler assigns within the tenant, as of the moment the list was read |
| `ResilienceInv`, `DeploymentInv`, `RuntimeInv` | services, services, routines | enterprise_maturity: answers under an idempotency key, a breaker that opens after failures; canaries, stages, fixes and healing; turns of the gateway, jobs once and in order, a pool that covers its backlog, GPU memory accounted for |
| `ArbitrageInv`, `ExchangeInv` | services | a stored commission is the latest that was reported, unless the request that stored it last met another of the same commission; scans complete unless something was stored meanwhile; trades within limits always, the book settled unless requests overlapped |
| `AccessInv` | services | scans, keys: see the module comments; a reader may be told of a completed scan and given no result, but never half a result |
| `ControlsInv` | services | scaling on ratios that were reached, lanes within limits, advice within bounds |
| `PublishingInv` | routines | jobs in one place and targets kept unless runs overlapped |
| `ToolsInv` | routines | the audit moves exactly what nothing needs; the migration can be repeated after a kill and loses only what it was writing; an accepted surface manifest protects every writing route |
| `AgentsInv` | routines | trainer, gossip, autofix, review robot, feedback, retried calls, tokens and the platform's tenants, one module invariant each |

What the code does that shapes three of the agents' invariants:

- *Trainer.* With docker compose, the default runtime, a deployment pulls the
  image and then starts what the compose file of the target names, which need
  not be that image. `SuccessRuns` therefore promises the image for k8s and the
  named one otherwise.
- *Gossip.* One thread accepts, and waits without a time limit for what a peer
  says. A silent peer keeps every later one waiting, a reset or a message in
  pieces ends the thread, and an empty list leaves the node without weights.
  The invariant promises the range of the weights, where their number comes
  from, and what a thread that *ended* met; it does not promise that a node
  hears anything.
- *Autofix.* The job commits with `git add -A`, so the SARIF files and the report
  it has downloaded and written are pushed with the remedy. Once that is merged
  they are part of every later commit, are read again by a later job beside its
  own, and make `git diff` differ where no code does. `PushedIsRemedy` says what
  a push holds all the same, `ReportsSourced` where such a file came from.

Bounds of these runs, in `MCServices` and the two `.cfg` files: two or three of
each kind of actor and two of what they act on, one restart, one or two
repetitions; for the webhook an incomplete and an ignored event as well and three
deliveries; for the conversions a gain and a loss, two agents, three deliveries
and one fault; two connections of gossip, two analyses whose commits begin in
one of four trees. Two actors are enough for each race here, since every such
race is between one reader and one writer of a single datum; three orders of a
book, three records and three gossiping nodes are there where an order, a gap or
a third party matters.

Bounds only cut the number of inputs and faults (`Max*` constants, in the
guards of the steps that bring them in): a step that handles what has arrived
is never disabled by one. (Loops bound their rounds, and `AgentKeys` the keys
ever made, which ends what would make another.)
`CHECK_DEADLOCK FALSE` is given because each system really stops when the
bounded inputs are used up.

## Fairness

Weak fairness of a program's own steps only: the threads of model-service and
the handlers run as long as their process does, and docker-compose restarts a
process that died (`restart: always`). For `campaign`, weak fairness of each
running request: `safe_call` and the HTTP clients give every call a timeout. No fairness for faults, for the arrival
of requests, for the expiry of keys or for the clock.

## Proofs

TLC checks the instances above; TLAPS proves the same invariants for every
value of the constants. In each module an inductive invariant strengthens what
the run checks, mostly by what the processes in mid-flight hold of the shared
state; each was checked by TLC before it was proved.

`AsyncInferenceProofs`.
- `TypeCorrect` and `NeverForgotten`. That a queued job has something on its
  way is not inductive by itself: a record in the topic counts only while its
  position is beyond both the thread's position and the committed offset, the
  record in hand counts as long as the thread is alive, and a crash moves the
  position back. The strengthening relates positions to committed offsets and
  to the phase of the thread; one lemma per group of actions shows that each
  keeps it.
- `PredictionsSubmitted`, under every fault: the invariant follows a prediction
  from the request record through the reply, the record being stored, and the
  store.
- `AnswersStay`, for runs without a crash (a hypothesis of the theorem, as it is
  of the property: after a crash an answer is stored again from the committed
  offset). A job has at most one reply for each of its requests that was
  served, so a second reply needs a second request or a record that could not
  be decoded.

`OrchestratorProofs`, of the deployments and of the campaign requests.
- `TypeCorrect`, `KeysSound` (one deployment per key in a life of the process;
  a restart takes the table and the record of what was created together) and
  `LifecycleImplemented`, the refinement of `DeploymentLifecycle` for any number
  of keys, identifiers and threads. They rest on `LockStep`: each step under the
  lock either leaves a deployment alone or moves it along one edge of
  `ALLOWED_TRANSITIONS`.
- `ToldTruly`: the history explains the state, and no transition is announced
  more often than it was made. The emission comes after the lock, so the
  invariant counts: the records on the topic and the threads about to emit one
  together never exceed the history's entries of that transition.

- `CampaignCorrect`, for any number of markets in the request's loop. The order
  of calls of each endpoint is a lemma about its sequence of steps; from it and
  from the request's position follow the effects it may have had. Numbers of
  posts, checkouts and tokens are compared by counting the requests *between*
  two effects, and the bandit's and the weights' parts say what a handler has
  read is current while no two have met. `Total` counts a set of units where the
  code sums a table, which is the same number and can be reasoned about without
  induction.

`PaymentProofs`, of two instances, `Gateway` and `Webhook`.
- `GatewayCorrect`. As long as nothing crossed, at most one checkout is inside
  `success()` or `fail()`, and what it has read of `FAILS` is current: from its
  position follows how `FAILS`, the threshold and `OPEN` relate. Whatever
  crosses, `FAILS` and what a `fail()` has read of it never exceed the failures
  there were. Each checkout's charges are compared with
  its attempts.
- `WebhookCorrect`. Deliveries pay for the orders made and for the handlers that
  may still make one, and what a handler has passed is in the tables.

`StreamProofs`, of the two ways an event comes in.
- `FeaturesCorrect` and `CountingIsAtomic`. The invariant says what lies between
  the group's offset and the consumer's position (events that failed and the one
  at hand), that each count of an event but its last cost a fault, and that what
  the transaction is about to write is one more than what is stored as long as
  nobody touched the watched hash. `CountingIsAtomic` follows from the last part.
- `PipelineCorrect` and `ForgetsOnlyOverlapping`, of the properties that `services`
  checks of its instance `Conversions` of `RewardPipeline`. A service is never ahead of the
  one before it. This needs a count over the *copies* of an agent's matrices,
  since any number of requests may have loaded an old state and store it later:
  no copy holds more updates of a conversion than calls have reached the agent
  with it, and none holds one of a loss.

`ContentWorkersProofs`: `WorkersCorrect` and `StuckStays`. Lists and rows are
proved apart. For a row the invariant keeps an account: what was made of it is
about to be marked, or cost a fault; and once it is done, only the workers that
had it at hand can make it again. The proof failed on a bound of `made` that one
fault for all would have given: a death takes every worker of the table with it,
so it can repeat as many videos. `RepeatsAccounted` now says so and the run is
large enough to show it.

`ServicesProofs` extends `Services` and so proves what the `services` run checks
of its eleven instances:
- `ControlsCorrect` (`Resilience`): of a key that no two callers executed at
  once, one caller at most may still give an answer, and then there is none yet;
  a try began no later than now.
- `PromotionsCorrect` (`ModelPromotion`): as long as nothing went astray one run
  is under way, and the metric it has read is the one kept, that of the model
  deployed; from its deployment on the model deployed is its own.
- `RegistryCorrect` and `VersionsNeverChange` (`ModelRegistry`): of the requests
  for a file that is not in `met`, one at most is past its tests, and it still
  finds the place of its copy free; the shared store is never ahead of the
  registry's own. Two copies differ only if two trainings had begun, since
  whatever is stored was written by one that had. `/latest` goes upwards for any
  total order of the names.
- `LogCorrect` and `AssignmentsSound` (`Federation`): entries, known gaps and the
  requests about to write theirs add up to the commits, and a node whose requests
  never met has one request under way, whose entry is the row it wrote. That the scheduler's
  choice suits the task's region follows from a lemma: what comes first in its
  order of the nodes is in the region if any is.
- `ExchangeCorrect` (`OrderBook`): while handlers follow each other, the one at
  the book finds the orders with something left in it, and those of its own
  trade until it has popped them; the heads are the best. That trades are within
  both limits holds for handlers that overlap as well: no handler changes the
  side or the price of an order.
- `FileWhole` and `NothingUndone` (`ModelDelivery`): one writer at most has the
  file open, it is the one that truncated it, and what a process read of the
  file to store it elsewhere is whole and was there.
- `ArbitrageCorrect` (`ArbitrageScan`): any number of requests may hold a
  commission. One that met no other of a key holds the newest report of it and
  is the only one to hold any, so what it stores is the newest. What a scan has found is compared with
  the pairs it has looked at.
- `ScansCorrect` (`SecurityScans`) and `KeysCorrect` (`AgentKeys`), together
  `AccessCorrect`: a scan's record follows from where its task is; a tenant's key is
  with one client, on its way to it, or lost with its answer.
- `DecisionsCorrect`, of two modules. `ProfitControl`: revenue and cost only
  grow, and a ratio reached with less revenue and more cost is reached, an
  inequality of products that has a lemma of its own. `CapacityAdvice`: what a
  lane counts is the work in it, but for what was reported once too often, and
  within its limit; advice that is followed stays in its bounds; two policies
  trained of the same lines tell of a tie.

`RoutinesProofs`, of the six instances of `Routines`:
- `PublishingKept` (`PublishingQueue`). A job may be in the queue, in the hands
  of a run, published or dead, and the invariant says that these places are
  pairwise apart; that is kept by lemmas about one job handed from a place to the
  next. A run reads the counter and takes jobs later, so that a day keeps its
  target is not inductive: the invariant adds what each run may *still* publish,
  and that this fits what is left of the day's target unless runs overlapped.
  Posts of all days are bounded by what the restarts forgot and the counter
  remembers.
- `RuntimeKept` (`EnterpriseRuntime`), in four parts that share no variable but
  the queue. That the healthy instances of a service differ by one request at
  most does not say whose turn is next. The invariant does: there is a place
  where the round began, and an instance has had one turn more than the rest
  exactly when it lies between that place and the index; the index is compared
  modulo the number of healthy instances, and the round goes past the end of the
  list. The queue is the jobs after those dispatched, numbered on. The pool is
  what the ceiling of backlog by target asks for, an inequality of a division.
  The memory of a node is a cardinality, one unit of it for each unit that a
  render holds, so that placing and releasing are lemmas about disjoint unions.
- `DeploymentAnswers` (`DeploymentPipeline`): each fix refers to a violation
  recorded before it; a drift in hand is of the manifest wanted, and what was
  healed stays what `Json` makes of it, until somebody edits. Verdict and plan
  are compared with their definitions over all metrics and durations given.
- `CleanupMovesUnneeded` (`CleanupAudit`): what is needed is the least set that
  holds the entry points and is closed under imports. The walk has visited only
  needed files, and what a visited file imports is visited or on the stack, so
  that at an empty stack the visited files *are* the needed ones; from then on
  what was moved and what is left to move make up the rest. After a run beside
  which nothing was edited, the tree and the needed files agree, and they do so
  until the next edit, since removing what is not needed changes no path.
- `NamesMigrated` (`NameMigration`): what a run is done with is clean, what is
  open holds a spelling it replaces, and what the renaming has passed lies no
  less deep than what is left. Names are renamed from the deepest up, so the path
  of each is still the one planned; this rests on a lemma that a node lies deeper
  than what it is in, which is where the assumption is used that no directory
  lies in itself.
- `SurfaceProtected` (`SurfaceManifest`): the manifest computed of a tree
  protects every writing route of it and is well-formed, so that a validation,
  which looks for drift only in a well-formed manifest, and the pipeline, which
  compares at once, accept the same one; and what was accepted, both remember
  with its tree.

`AgentsProofs`, of the eight instances of `Agents`; `AgentsCorrect` joins them.
- `TrainerHolds` (`TrainerLoop`): what was learned is an unbroken run of the topic
  up to what is at hand, and each record behind it was learned or dropped by a
  process that ended. Between a success and the next deployment of its target only a
  command that nobody waits for changes what runs there. The worker a record is assigned to is one no other outbids,
  which rests on ratios being ordered without division.
- `RepairsTold` (`SecurityAutofix`): the working copy is between the analysed
  commit and its remedy while a job is on it, and the topics heard are the chain
  of their workflow up to where it stands. Neither an analysis nor its commit
  changes, so two jobs for it read the same directory and push the same. Where a
  SARIF file came from is kept by a lemma: analyses and merged pull requests only
  grow in number, so what was sourced stays so, and what a merge takes over is
  either the pushed file of an analysis or one its commit had already.
- `PullsCarryPatches` (`ReviewBot`): a branch that one call alone has written
  since it was cut holds what that call wrote, clean of secrets.
- `FeedbackCounts` (`ReviewFeedback`), `TokensStandFor` (`Tokens`: what a token says
  of its life is what its replica's clock said, ahead of the time by the skew at
  most), `CallsToldApart` (`RetriedCalls`: all attempts of a post but its last
  were broken or silent).
- `GossipStaysWithin` (`WeightGossip`): weights on their way are *drawn* from the
  first ones and those that somebody else has sent, between the least and the
  greatest of them; that a merge keeps this is a lemma about the average of two
  sequences. A thread ends in `Raises` only, and each case of it has its cause on
  record before.
- `TenantsHeldTo` (`PlatformTenants`): who was told is the address's user until the
  Map is lost or two requests met; what a tenant deployed is its plan's number
  and one for each request that crossed another, compared as cardinalities.

Assumptions are the named `ASSUME`s of the modules and nothing else (beside the
crash hypothesis above): bounds are naturals, `None`, `Torn` and the undecodable
record are none of the values they stand beside, and the threads, handlers,
checkouts and farm requests of an instance are finitely many, as their numbers
are compared. Requests, campaigns, jobs, rows, conversions and events may be any
sets. TLC evaluates each assumption with the values of its run.

Only model-checked:
- liveness (`JobsAnswered` and its like): fairness is out of the prover's reach;
- the refuted properties, whose counterexamples are the point;
- `TypeOK` of `services` and `routines`, one conjunction over their modules: the
  parts that an invariant rests on are in the inductive invariants above, where a
  theorem needs them.

Every other invariant and action property of a passing run is a theorem. What a
definition looks like follows from that in places: sums are cardinalities of
sets of units (`Held`, `Total`), a list is walked by its positions (`Before`,
`Longest`), a depth is how many directories are above (`Depth`), and nothing
that is proved about is recursive.

## What the models leave open

- A call that ran into its timeout may take effect later. `RewardPipeline`,
  `TrainerLoop` and `RetriedCalls` have that; in `CampaignSaga` a failing call
  took effect at once or never, so effects later than the answer are missing.
- `CampaignSaga` restarts execution-engine only; the other engines would lose
  their updates in the same way.
- rl-trainer writes JSON to `/models/policy.onnx`, the file model-sync fills
  with an ONNX model and model-service loads. `ModelDelivery` has it as one
  more writer of the file; no property is about what a reader makes of it.
- A handler of a Node service is split at each `await`; what runs between two
  of them is one step, as the event loop has it.
- Python handlers declared with `def` run on threads: a model splits them
  where the code calls out or where it reads and later writes shared state.
  Finer preemption inside one such step is left out.

## Observations

Things met while modelling that no property states as wrong: an event emitted
after the lock may carry a state later than the transition it reports
(`master-orchestrator/src/main.py:201`); a stream event that failed is skipped by the commit of the next one; raising
`daily_cap` above a defaulted `max_budget` answers 500; an unknown market
updates the bandit before it raises (`budget-allocator/src/main.py:61`); `register`
of federation builds its answer from two arguments of one name, a `TypeError`
(`federation/src/main.py:272`), so a node is registered and logged and its client
is answered 500 (`Answer` of `Federation` ends the request either way); the
retraining loop posts `/train` without a body, which is refused, and the error
leaves the loop (`retraining-loop/src/main.py:33`): it changes nothing, so no
module has it; `security-autofix.yml` downloads artifacts named after SARIF,
which the analysis workflow itself does not upload, so what a run has to download
is left open; a commission reported earlier may replace a later one when two
requests for it overlap (`arbitrage-engine`); a successful deployment with docker
compose need not run the image that was pulled (`agent_replicator.py:87`); a
silent peer stops a gossiping node from hearing (`p2p_agent.py:48`); execution-engine drops the fraction of a token
at each refill (`execution-engine/src/main.py:65`); a client whose answer with
its tenant key was lost never gets a key (`tenant-service/src/main.py:94`); the
exchange may sell one order twice under concurrent requests; a plan bought at
billing-service ends with its process. The properties name these as the
exceptions they are: a run shows that nothing else breaks the rule.

## Not modelled

`PROJECT.json` has no room for every hazard; those dropped from its list are
covered by the same properties as the neighbours that are on it. Not modelled,
and why:

- numerical code (featurisation, ONNX, torch, LinUCB's algebra, the trainer's
  simulations): floating point without control of its own;
- services that compute or render an answer from one request (creative
  generator, landing service, viral predictor, click tracker and so on);
- crawlers that upsert what a page holds, keyword by keyword;
- user interfaces, type packages, contracts, declarations and shell scripts;
- agents whose behaviour is decided by an external language model (ai-fix,
  self-modifier, ai-orchestrator, omniscient);
- within modelled parts: organizations, rate limits and token expiry of the
  platform services; videos and performance figures of arbitrage-engine; the
  request checks of the exchange, which refuse before the book is reached; the
  choice of the coordinator among its agents' answers.

## Plan

1. Compare what `ModelDelivery`'s readers make of the file with who wrote it last.
2. Let an effect of `CampaignSaga` come later than the answer that gave up on it.
3. Liveness stays with TLC: fairness is out of the prover's reach.

--------------------------- MODULE PublishingQueue ---------------------------
(***************************************************************************)
(* The daily publishing of arbitrage-engine: jobs of a tenant wait in a    *)
(* list of the process, POST /publishing/run-daily takes as many as the    *)
(* day's target leaves and publishes them one by one; what fails goes back *)
(* to the tail until its retries are used up.  Handlers run on threads and *)
(* nothing is locked; tenants share nothing but the keys, so there is one. *)
(***************************************************************************)
EXTENDS Integers, FiniteSets, Sequences, FiniteSetsExt

CONSTANTS
    Runs,           \* requests that may run at once
    DailyTarget, RetryBudget,
    NumJobs,        \* bound: jobs enqueued, numbered in their order
    MaxDay, MaxRestarts

Lists == {"queue", "results", "dead"}

PublishingAssumption ==
    /\ IsFiniteSet(Runs) /\ Runs \cap Lists = {}
    /\ DailyTarget \in Nat /\ RetryBudget \in Nat /\ NumJobs \in Nat /\ MaxDay \in Nat /\ MaxRestarts \in Nat

VARIABLES
    queue,          \* publish_jobs: [id, retries]
    counter,        \* publish_counters of each day
    results,        \* publish_results
    dead,           \* dead_letters
    run,            \* each run_for_tenant: where it is, its day, jobs and publisher
    today,
    sent,           \* jobs enqueued
    failures,       \* history: failed tries of each job
    posted,         \* history: publications of each day, whatever was lost since
    crowded,        \* history: days of which two runs overlapped
    restarts

storeVars == <<queue, counter, results, dead>>
vars == <<storeVars, run, today, sent, failures, posted, crowded, restarts>>

Job == [id : 1..NumJobs, retries : 0..RetryBudget]
Idle == [step |-> "idle", day |-> 0, capacity |-> 0, publishes |-> FALSE, jobs |-> <<>>]

TypeOK ==
    /\ queue \in Seq(Job) /\ counter \in [0..MaxDay -> Nat] /\ results \in Seq(Job) /\ dead \in Seq(Job)
    /\ run \in [Runs -> [step : {"idle", "dequeue", "work", "record"}, day : 0..MaxDay,
                         capacity : 0..DailyTarget, publishes : BOOLEAN, jobs : Seq(Job)]]
    /\ today \in 0..MaxDay /\ sent \in 0..NumJobs /\ failures \in [1..NumJobs -> 0..RetryBudget + 1]
    /\ posted \in [0..MaxDay -> Nat] /\ crowded \subseteq 0..MaxDay /\ restarts \in 0..MaxRestarts

Init ==
    /\ queue = <<>> /\ counter = [d \in 0..MaxDay |-> 0] /\ results = <<>> /\ dead = <<>>
    /\ run = [r \in Runs |-> Idle] /\ today = 0 /\ sent = 0
    /\ failures = [j \in 1..NumJobs |-> 0] /\ posted = [d \in 0..MaxDay |-> 0] /\ crowded = {} /\ restarts = 0

-----------------------------------------------------------------------------
Enqueue ==
    /\ sent < NumJobs /\ sent' = sent + 1
    /\ queue' = Append(queue, [id |-> sent + 1, retries |-> 0])
    /\ UNCHANGED <<counter, results, dead, run, today, failures, posted, crowded, restarts>>

CapacityWhole(day) == DailyTarget \* variant: what was published today is not subtracted

Capacity(day) == Max({0, DailyTarget - counter[day]})

(* The counter is read in one call and the jobs are taken in a later one.  *)
Begin(r, publishes) ==
    /\ run[r].step = "idle" /\ Capacity(today) > 0
    /\ run' = [run EXCEPT ![r] = [step |-> "dequeue", day |-> today, capacity |-> Capacity(today),
                                  publishes |-> publishes, jobs |-> <<>>]]
    /\ crowded' = crowded \cup {run[o].day : o \in {p \in Runs : run[p].step # "idle" /\ run[p].day = today}}
    /\ UNCHANGED <<storeVars, today, sent, failures, posted, restarts>>

(* The slice and its deletion: no other thread runs between them.          *)
DequeuePeeking(r) == \* variant: the jobs are not deleted
    /\ run[r].step = "dequeue"
    /\ run' = [run EXCEPT ![r].step = "work",
                          ![r].jobs = SubSeq(queue, 1, Min({Len(queue), run[r].capacity}))]
    /\ UNCHANGED <<storeVars, today, sent, failures, posted, crowded, restarts>>

Dequeue(r) ==
    LET n == Min({Len(queue), run[r].capacity})
    IN /\ run[r].step = "dequeue"
       /\ run' = [run EXCEPT ![r].step = "work", ![r].jobs = SubSeq(queue, 1, n)]
       /\ queue' = SubSeq(queue, n + 1, Len(queue))
       /\ UNCHANGED <<counter, results, dead, today, sent, failures, posted, crowded, restarts>>

(* A job was published: it is counted for the day the run began on ...     *)
Count(r) ==
    /\ run[r].step = "work" /\ run[r].jobs # <<>> /\ run[r].publishes
    /\ counter' = [counter EXCEPT ![run[r].day] = @ + 1]
    /\ posted' = [posted EXCEPT ![run[r].day] = @ + 1]
    /\ run' = [run EXCEPT ![r].step = "record"]
    /\ UNCHANGED <<queue, results, dead, today, sent, failures, crowded, restarts>>

(* ... and its result recorded.                                            *)
Record(r) ==
    /\ run[r].step = "record"
    /\ results' = Append(results, Head(run[r].jobs))
    /\ run' = [run EXCEPT ![r].step = "work", ![r].jobs = Tail(@)]
    /\ UNCHANGED <<queue, counter, dead, today, sent, failures, posted, crowded, restarts>>

RequeuedFresh(job) == job \* variant: the retry does not count the failure

Requeued(job) == [job EXCEPT !.retries = @ + 1]

Fail(r) ==
    LET job == Head(run[r].jobs)
        retried == job.retries < RetryBudget
    IN /\ run[r].step = "work" /\ run[r].jobs # <<>> /\ ~run[r].publishes
       /\ failures' = [failures EXCEPT ![job.id] = @ + 1]
       /\ queue' = IF retried THEN Append(queue, Requeued(job)) ELSE queue
       /\ dead' = IF retried THEN dead ELSE Append(dead, job)
       /\ run' = [run EXCEPT ![r].jobs = Tail(@)]
       /\ UNCHANGED <<counter, results, today, sent, posted, crowded, restarts>>

End(r) ==
    /\ run[r].step = "work" /\ run[r].jobs = <<>>
    /\ run' = [run EXCEPT ![r] = Idle]
    /\ UNCHANGED <<storeVars, today, sent, failures, posted, crowded, restarts>>

Midnight ==
    /\ today < MaxDay /\ today' = today + 1
    /\ UNCHANGED <<storeVars, run, sent, failures, posted, crowded, restarts>>

(* Everything is in memory.                                                *)
Restart ==
    /\ restarts < MaxRestarts /\ restarts' = restarts + 1
    /\ queue' = <<>> /\ counter' = [d \in 0..MaxDay |-> 0] /\ results' = <<>> /\ dead' = <<>>
    /\ run' = [r \in Runs |-> Idle]
    /\ UNCHANGED <<today, sent, failures, posted, crowded>>

Next ==
    \/ Enqueue \/ Midnight \/ Restart
    \/ \E r \in Runs : Dequeue(r) \/ Count(r) \/ Record(r) \/ Fail(r) \/ End(r)
                       \/ \E publishes \in BOOLEAN : Begin(r, publishes)

Spec == Init /\ [][Next]_vars

-----------------------------------------------------------------------------
(* GET /reporting/posted-products: the videos of the results.              *)
Report == {results[i].id : i \in DOMAIN results}

(* Where jobs are: the three lists and what each run has taken.            *)
Held ==
    [p \in Lists \cup Runs |->
        IF p = "queue" THEN queue ELSE IF p = "results" THEN results ELSE IF p = "dead" THEN dead ELSE run[p].jobs]

(* A job is in one place: waiting, with one run, published or dead; all    *)
(* are somewhere until a restart loses them; and it is tried once more     *)
(* than the retry budget before it is dead.                                *)
JobsAccounted ==
    /\ \A p, q \in DOMAIN Held : \A i \in DOMAIN Held[p], k \in DOMAIN Held[q] :
          Held[p][i].id = Held[q][k].id => p = q /\ i = k
    /\ restarts = 0 => \A j \in 1..sent : \E p \in DOMAIN Held : \E i \in DOMAIN Held[p] : Held[p][i].id = j
    /\ \A p \in DOMAIN Held \ {"dead"} : \A i \in DOMAIN Held[p] : failures[Held[p][i].id] = Held[p][i].retries
    /\ \A i \in DOMAIN dead : failures[dead[i].id] = RetryBudget + 1

(* What the counters count, and the runs between the two statements of a   *)
(* publication.                                                            *)
Counted == UNION {{d} \X (1..counter[d]) : d \in 0..MaxDay}
Recording == {r \in Runs : run[r].step = "record"}

(* No day's target is exceeded, but by runs of that day that overlapped,   *)
(* and once more after each restart; and what the counters of the days say *)
(* is what the report lists, but for a job between its two statements.     *)
WithinTarget ==
    /\ \A d \in 0..MaxDay \ crowded : counter[d] <= DailyTarget /\ posted[d] <= DailyTarget * (restarts + 1)
    /\ Cardinality(Counted) = Cardinality(Report) + Cardinality(Recording)

(* The jobs and the days together.                                         *)
PublishingInv == JobsAccounted /\ WithinTarget
=============================================================================

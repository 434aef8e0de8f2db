--------------------------- MODULE ContentWorkers ---------------------------
(***************************************************************************)
(* The workers that make and publish content, in two families.             *)
(*   Redis lists, pushed by an API and popped by one worker process:       *)
(*     crawl_jobs   market-crawler, which stores the products it found     *)
(*     render_jobs  gpu-renderer, which runs ffmpeg                        *)
(*     video_jobs   tiktok-farm, which uploads with a browser              *)
(*   Table rows with a status, polled with "status='pending' limit 1":     *)
(*     jobs         account-farm, in /farm/run requests that may overlap   *)
(*     videos       tiktok-uploader, one loop                              *)
(*     video_jobs   ai-video-generator, one loop; "scripts" here           *)
(* A pop removes a job before it is handled; a row is marked after it was. *)
(***************************************************************************)
EXTENDS Naturals, FiniteSets, Sequences, SequencesExt

CONSTANTS
    Jobs,           \* jobs pushed to the lists
    Texts,          \* ... for whose keyword Lazada or Amazon finds a product
    NumProducts,    \* products Shopee finds for a keyword
    Rows,           \* rows of the three tables
    Runs,           \* concurrent /farm/run requests
    Iterations,     \* of one /farm/run: 5 in the code
    None,
    MaxWork,        \* bound: jobs pushed and rows inserted
    MaxRuns,        \* bound: /farm/run requests ever
    MaxFaults       \* bound: calls that fail and processes that die

Lists == {"crawl_jobs", "render_jobs", "video_jobs"}
Tables == {"jobs", "videos", "scripts"}
Loops == {"uploader", "generator"}
Workers == Runs \cup Loops

ASSUME WorkersAssumption ==
    /\ Texts \subseteq Jobs
    /\ None \notin Jobs \cup Rows \cup Tables
    /\ IsFiniteSet(Runs) /\ Runs \cap Loops = {}
    /\ NumProducts \in Nat /\ Iterations \in Nat
    /\ MaxWork \in Nat /\ MaxRuns \in Nat /\ MaxFaults \in Nat

VARIABLES
    queue,          \* each Redis list, its head first
    pushed,         \* history: the jobs pushed to each list, in order
    popped,         \* history: ... and popped from it
    process,        \* of each list's worker: what it does, with which job
    outcome,        \* what became of each job
    products,       \* rows of the products table each job stored
    table,          \* the table each row was inserted in, or None
    status,         \* its status column
    made,           \* times its video was uploaded or rendered
    voice,          \* the rows whose voice file exists
    voiceHere,      \* TTS_OUTPUT_DIR is the generator's working directory
    workers,        \* what each row worker does, with which row
    left,           \* iterations left of each /farm/run
    runs,           \* /farm/run requests so far
    faults

listVars == <<queue, pushed, popped, process, outcome, products>>
rowVars == <<table, status, made, voice, voiceHere, workers, left, runs>>
vars == <<listVars, rowVars, faults>>

ListTypeOK ==
    /\ queue \in [Lists -> Seq(Jobs)] /\ pushed \in [Lists -> Seq(Jobs)]
    /\ popped \in [Lists -> Seq(Jobs)]
    /\ process \in [Lists -> [at : {"idle", "down"}, job : {None}]
                               \cup [at : {"lookup", "handling"}, job : Jobs]]
    /\ outcome \in [Jobs -> {"none", "done", "failed", "lost"}]
    /\ products \in [Jobs -> 0..NumProducts]

RowTypeOK ==
    /\ table \in [Rows -> Tables \cup {None}] /\ status \in [Rows -> {"pending", "done"}]
    /\ made \in [Rows -> Nat] /\ voice \subseteq Rows /\ voiceHere \in BOOLEAN
    /\ workers \in [Workers -> [at : {"idle"}, row : {None}]
                     \cup [at : {"upload", "voice", "render", "mark"}, row : Rows]]
    /\ left \in [Runs -> 0..Iterations] /\ runs \in 0..MaxRuns

TypeOK == ListTypeOK /\ RowTypeOK /\ faults \in 0..MaxFaults

Idle == [at |-> "idle", job |-> None]
Down == [at |-> "down", job |-> None]
Free == [at |-> "idle", row |-> None]

Init ==
    /\ queue = [l \in Lists |-> <<>>]
    /\ pushed = [l \in Lists |-> <<>>] /\ popped = [l \in Lists |-> <<>>]
    /\ process = [l \in Lists |-> Idle]
    /\ outcome = [j \in Jobs |-> "none"] /\ products = [j \in Jobs |-> 0]
    /\ table = [r \in Rows |-> None] /\ status = [r \in Rows |-> "pending"]
    /\ made = [r \in Rows |-> 0] /\ voice = {} /\ voiceHere \in BOOLEAN
    /\ workers = [w \in Workers |-> Free]
    /\ left = [w \in Runs |-> 0] /\ runs = 0
    /\ faults = 0

Fault == faults < MaxFaults /\ faults' = faults + 1

Pushed == {j \in Jobs : \E l \in Lists : j \in Range(pushed[l])}

MoreWork == Cardinality(Pushed) + Cardinality({r \in Rows : table[r] # None}) < MaxWork

-----------------------------------------------------------------------------
(* The lists.  enqueue: lpush.                                             *)
Push(l, j) ==
    /\ j \notin Pushed /\ MoreWork
    /\ queue' = [queue EXCEPT ![l] = <<j>> \o @]
    /\ pushed' = [pushed EXCEPT ![l] = Append(@, j)]
    /\ UNCHANGED <<popped, process, outcome, products, rowVars, faults>>

At(l, step) == process[l].at = step

Becomes(l, state) == process' = [process EXCEPT ![l] = state]

Ends(l, how) == outcome' = [outcome EXCEPT ![process[l].job] = how]

(* dequeue: rpop.                                                          *)
RemovedHead(l, j) == \* variant: lpop
    /\ queue[l] # <<>> /\ j = Head(queue[l])
    /\ queue' = [queue EXCEPT ![l] = Tail(@)]
    /\ popped' = [popped EXCEPT ![l] = Append(@, j)]

Removed(l, j) ==
    /\ queue[l] # <<>> /\ j = Last(queue[l])
    /\ queue' = [queue EXCEPT ![l] = Front(@)]
    /\ popped' = [popped EXCEPT ![l] = Append(@, j)]

Pop(l) ==
    /\ At(l, "idle")
    /\ \E j \in Jobs :
          /\ Removed(l, j)
          /\ Becomes(l, [at |-> IF l = "video_jobs" THEN "lookup" ELSE "handling", job |-> j])
    /\ UNCHANGED <<pushed, outcome, products, rowVars, faults>>

(* Redis raises, having popped or not: dequeue is outside the try, and the *)
(* process ends.                                                           *)
PopFails(l) ==
    /\ At(l, "idle")
    /\ Fault
    /\ Becomes(l, Down)
    /\ \/ UNCHANGED <<queue, popped, outcome>>
       \/ \E j \in Jobs : Removed(l, j) /\ outcome' = [outcome EXCEPT ![j] = "lost"]
    /\ UNCHANGED <<pushed, products, rowVars>>

(* tiktok-farm: account and proxy.                                         *)
Lookup(l) ==
    /\ At(l, "lookup")
    /\ Becomes(l, [process[l] EXCEPT !.at = "handling"])
    /\ UNCHANGED <<queue, pushed, popped, outcome, products, rowVars, faults>>

(* market-crawler: after the three sources answered, one transaction per   *)
(* product, Shopee's first.                                                *)
StoreProduct(l) ==
    LET j == process[l].job IN
    /\ At(l, "handling") /\ l = "crawl_jobs"
    /\ products[j] < NumProducts
    /\ products' = [products EXCEPT ![j] = @ + 1]
    /\ UNCHANGED <<queue, pushed, popped, process, outcome, rowVars, faults>>

(* Lazada's and Amazon's ids are names, and products.id is a BIGINT: the   *)
(* first of them raises, and the job is over.                              *)
StoreRefused(l) ==
    LET j == process[l].job IN
    /\ At(l, "handling") /\ l = "crawl_jobs"
    /\ j \in Texts /\ products[j] = NumProducts
    /\ Ends(l, "failed") /\ Becomes(l, Idle)
    /\ UNCHANGED <<queue, pushed, popped, products, rowVars, faults>>

HandledSkipping(l) == TRUE \* variant: an insert that raises is skipped

Handled(l) == l = "crawl_jobs" => process[l].job \notin Texts /\ products[process[l].job] = NumProducts

Finish(l) ==
    /\ At(l, "handling")
    /\ Handled(l)
    /\ Ends(l, "done") /\ Becomes(l, Idle)
    /\ UNCHANGED <<queue, pushed, popped, products, rowVars, faults>>

(* A source, ffmpeg, the upload or an insert raises: printed, next job.    *)
Abandon(l) ==
    /\ At(l, "handling")
    /\ Fault
    /\ Ends(l, "failed") /\ Becomes(l, Idle)
    /\ UNCHANGED <<queue, pushed, popped, products, rowVars>>

(* The process dies, or tiktok-farm's lookup, outside its try, raises.     *)
Die(l) ==
    /\ process[l].job # None
    /\ Fault
    /\ Ends(l, "lost") /\ Becomes(l, Down)
    /\ UNCHANGED <<queue, pushed, popped, products, rowVars>>

RestartWaiting(l) == \* variant: the process starts once there is work
    /\ At(l, "down") /\ Len(queue[l]) > 1
    /\ Becomes(l, Idle)
    /\ UNCHANGED <<queue, pushed, popped, outcome, products, rowVars, faults>>

Restart(l) ==
    /\ At(l, "down")
    /\ Becomes(l, Idle)
    /\ UNCHANGED <<queue, pushed, popped, outcome, products, rowVars, faults>>

-----------------------------------------------------------------------------
(* The rows.                                                               *)
Serves(w) == IF w = "uploader" THEN "videos" ELSE IF w = "generator" THEN "scripts" ELSE "jobs"

In(w, step) == workers[w].at = step

Row(w) == workers[w].row

Goes(w, step) == workers' = [workers EXCEPT ![w].at = step]

Leaves(w) == workers' = [workers EXCEPT ![w] = Free]

(* Nothing in the repository inserts the rows.                             *)
Insert(r, t) ==
    /\ table[r] = None /\ MoreWork
    /\ table' = [table EXCEPT ![r] = t]
    /\ UNCHANGED <<listVars, status, made, voice, voiceHere, workers, left, runs, faults>>

FarmRun(w) ==
    /\ left[w] = 0 /\ In(w, "idle")
    /\ runs < MaxRuns /\ runs' = runs + 1
    /\ left' = [left EXCEPT ![w] = Iterations]
    /\ UNCHANGED <<listVars, table, status, made, voice, voiceHere, workers, faults>>

IteratesOnceMore(w) == \* variant: i <= 5
    /\ In(w, "idle")
    /\ IF w \in Runs THEN left[w] >= 0 /\ left' = [left EXCEPT ![w] = @ - 1]
                     ELSE UNCHANGED left

(* One more iteration, which a loop without an end always has.             *)
Iterates(w) ==
    /\ In(w, "idle")
    /\ IF w \in Runs THEN left[w] > 0 /\ left' = [left EXCEPT ![w] = @ - 1]
                     ELSE UNCHANGED left

AnyOf(w) == {r \in Rows : table[r] = Serves(w)} \* variant: no condition on status

PendingOf(w) == {r \in Rows : table[r] = Serves(w) /\ status[r] = "pending"}

SelectClaiming(w) == \* variant: the row is claimed, and a failure keeps it
    /\ Iterates(w)
    /\ \E r \in PendingOf(w) :
          /\ status' = [status EXCEPT ![r] = "processing"]
          /\ workers' = [workers EXCEPT ![w] =
                [at |-> IF w = "generator" THEN "voice" ELSE "upload", row |-> r]]
    /\ UNCHANGED <<listVars, table, made, voice, voiceHere, runs, faults>>

(* The select has no order: any pending row may be its one row.            *)
Select(w) ==
    /\ Iterates(w)
    /\ \E r \in PendingOf(w) :
          workers' = [workers EXCEPT ![w] =
              [at |-> IF w = "generator" THEN "voice" ELSE "upload", row |-> r]]
    /\ UNCHANGED <<listVars, table, status, made, voice, voiceHere, runs, faults>>

SelectNothing(w) ==
    /\ w \in Runs
    /\ Iterates(w)
    /\ PendingOf(w) = {}
    /\ UNCHANGED <<listVars, table, status, made, voice, voiceHere, workers, runs, faults>>

Upload(w) ==
    /\ In(w, "upload")
    /\ made' = [made EXCEPT ![Row(w)] = @ + 1]
    /\ Goes(w, "mark")
    /\ UNCHANGED <<listVars, table, status, voice, voiceHere, left, runs, faults>>

(* generateVoice: the file is created with O_EXCL.                         *)
MayWriteVoiceAnyway(w) == TRUE \* variant: without O_EXCL

MayWriteVoice(w) == Row(w) \notin voice

WriteVoice(w) ==
    /\ In(w, "voice") /\ MayWriteVoice(w)
    /\ voice' = voice \cup {Row(w)}
    /\ Goes(w, "render")
    /\ UNCHANGED <<listVars, table, status, made, voiceHere, left, runs, faults>>

(* EEXIST, or ffmpeg does not find the voice file in its directory.        *)
Generates ==
    \/ \E w \in Workers : In(w, "voice") /\ ~MayWriteVoice(w) /\ Leaves(w)
    \/ \E w \in Workers : In(w, "render") /\ ~voiceHere /\ Leaves(w)

GenerateFails ==
    /\ Generates
    /\ UNCHANGED <<listVars, table, status, made, voice, voiceHere, left, runs, faults>>

(* generateSubtitle and renderVideo.                                       *)
Render(w) ==
    /\ In(w, "render") /\ voiceHere
    /\ made' = [made EXCEPT ![Row(w)] = @ + 1]
    /\ Goes(w, "mark")
    /\ UNCHANGED <<listVars, table, status, voice, voiceHere, left, runs, faults>>

Mark(w) ==
    /\ In(w, "mark")
    /\ status' = [status EXCEPT ![Row(w)] = "done"]
    /\ Leaves(w)
    /\ UNCHANGED <<listVars, table, made, voice, voiceHere, left, runs, faults>>

(* A call raises, having done its work or not: the loop around the worker  *)
(* logs it and goes on.                                                    *)
WorkerFails(w) ==
    /\ ~In(w, "idle")
    /\ Fault
    /\ \/ UNCHANGED <<status, made, voice>>
       \/ In(w, "upload") /\ made' = [made EXCEPT ![Row(w)] = @ + 1] /\ UNCHANGED <<status, voice>>
       \/ In(w, "voice") /\ voice' = voice \cup {Row(w)} /\ UNCHANGED <<status, made>>
       \/ In(w, "render") /\ made' = [made EXCEPT ![Row(w)] = @ + 1] /\ UNCHANGED <<status, voice>>
       \/ In(w, "mark") /\ status' = [status EXCEPT ![Row(w)] = "done"] /\ UNCHANGED <<made, voice>>
    /\ Leaves(w)
    /\ UNCHANGED <<listVars, table, voiceHere, left, runs>>

(* The process of a table's workers dies and is started again.             *)
ProcessDies(t) ==
    /\ \E w \in Workers : Serves(w) = t /\ ~In(w, "idle")
    /\ Fault
    /\ workers' = [w \in Workers |-> IF Serves(w) = t THEN Free ELSE workers[w]]
    /\ left' = [w \in Runs |-> IF t = "jobs" THEN 0 ELSE left[w]]
    /\ UNCHANGED <<listVars, table, status, made, voice, voiceHere, runs>>

-----------------------------------------------------------------------------
ListWorker(l) == Pop(l) \/ Lookup(l) \/ StoreProduct(l) \/ StoreRefused(l) \/ Finish(l) \/ Restart(l)

RowWorker(w) == Select(w) \/ Upload(w) \/ WriteVoice(w) \/ Render(w) \/ Mark(w)

Next ==
    \/ \E l \in Lists : ListWorker(l) \/ PopFails(l) \/ Abandon(l) \/ Die(l)
                          \/ \E j \in Jobs : Push(l, j)
    \/ \E w \in Workers : RowWorker(w) \/ SelectNothing(w) \/ WorkerFails(w)
    \/ \E w \in Runs : FarmRun(w)
    \/ GenerateFails
    \/ \E t \in Tables : ProcessDies(t) \/ \E r \in Rows : Insert(r, t)

Spec == Init /\ [][Next]_vars

(* The processes run, and docker-compose.yml (restart: always) and         *)
(* ecosystem.config.js (autorestart) start them again.  Nobody has to call *)
(* /farm/run.                                                              *)
FairSpec ==
    /\ Spec
    /\ \A l \in Lists : WF_vars(ListWorker(l))
    /\ WF_vars(RowWorker("uploader"))
    /\ WF_vars(RowWorker("generator") \/ GenerateFails)

-----------------------------------------------------------------------------
(* A list is served in the order of the pushes, and no job is handled      *)
(* twice, whatever dies: what was pushed is what was popped followed by    *)
(* what is in the list, last element first.                                *)
ServedInOrder == \A l \in Lists : pushed[l] = popped[l] \o Reverse(queue[l])

CrawlsWhole ==
    \A j \in Range(popped["crawl_jobs"]) :
        outcome[j] = "done" => products[j] = NumProducts /\ j \notin Texts

VideosExist == \A r \in Rows : status[r] = "done" => made[r] > 0

(* What is reported done was done: a crawl stored every product it found,  *)
(* a row's video exists.                                                   *)
DoneIsWhole == CrawlsWhole /\ VideosExist

(* A video is made again only because workers overlapped on its row, or    *)
(* failed between the work and the mark: a fault costs at most one repeat  *)
(* by each worker of the row's table, all of which one death may stop.     *)
RepeatsAccounted ==
    \A r \in Rows :
        made[r] <= (faults + 1) * Cardinality({w \in Workers : Serves(w) = table[r]})

(* What the lists, the tables and the videos keep between them.            *)
WorkersInv == TypeOK /\ ServedInOrder /\ DoneIsWhole /\ RepeatsAccounted

(* A script whose voice file exists while nobody works on it: it failed    *)
(* after the file was written.                                             *)
Stuck(r) ==
    /\ table[r] = "scripts" /\ status[r] = "pending" /\ r \in voice
    /\ ~\E w \in Workers : Row(w) = r /\ workers[w].at \in {"render", "mark"}

(* Such a script is never done: each retry finds the file it left behind.  *)
StuckForGood == [][\A r \in Rows : Stuck(r) => Stuck(r)']_vars

(* Every pushed job is handled, or was lost with a process; every video is *)
(* posted in the end, and every script becomes a video unless some script  *)
(* is stuck, which the select may return every time.                       *)
WorkEnds ==
    /\ \A j \in Jobs : j \in Pushed ~> outcome[j] # "none"
    /\ \A r \in Rows :
        /\ table[r] = "videos" ~> status[r] = "done"
        /\ table[r] = "scripts" ~> status[r] = "done" \/ \E s \in Rows : Stuck(s)
=============================================================================

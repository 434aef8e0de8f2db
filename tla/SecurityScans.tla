---------------------------- MODULE SecurityScans ----------------------------
(***************************************************************************)
(* security-api: POST /scan stores a record in the process and leaves the  *)
(* scan to a background task, which changes the very record the store      *)
(* holds while GET /scan/{id} reads it on another thread.  The results lie *)
(* on disk, the records do not: a restart loses them and their tasks.      *)
(***************************************************************************)
EXTENDS Integers, FiniteSets

CONSTANTS
    Scans,
    MaxReads, MaxRestarts

ScanAssumption == MaxReads \in Nat /\ MaxRestarts \in Nat

VARIABLES
    record,         \* the store: status, whether result_path and error are set, and updated_at by its cause
    task,           \* the background task of each scan
    sarif,          \* the result file on disk
    reading,        \* what a read has dumped of the record and not answered yet
    answer,         \* history: what the last read of each scan was answered
    told,           \* scans whose id a client was given
    escaped,        \* history: scans whose task ended by an exception it does not catch
    reads, restarts

vars == <<record, task, sarif, reading, answer, told, escaped, reads, restarts>>

NoRecord == [status |-> "none", path |-> FALSE, error |-> FALSE]
NoAnswer == [status |-> "none", path |-> FALSE, result |-> "none", code |-> 0]

Record == [status : {"none", "queued", "running", "completed", "failed"}, path : BOOLEAN, error : BOOLEAN]

TypeOK ==
    /\ record \in [Scans -> Record] /\ reading \in [Scans -> Record]
    /\ task \in [Scans -> {"none", "waiting", "begun", "clone", "create", "analyze", "complete", "path", "fail", "ended"}]
    /\ sarif \in [Scans -> {"none", "partial", "whole"}] /\ told \subseteq Scans /\ escaped \subseteq Scans
    /\ answer \in [Scans -> [status : {"none", "queued", "running", "completed", "failed"}, path : BOOLEAN,
                             result : {"none", "partial", "whole"}, code : {0, 200, 404, 500}]]
    /\ reads \in 0..MaxReads /\ restarts \in 0..MaxRestarts

Init ==
    /\ record = [s \in Scans |-> NoRecord] /\ task = [s \in Scans |-> "none"]
    /\ sarif = [s \in Scans |-> "none"] /\ reading = record /\ answer = [s \in Scans |-> NoAnswer]
    /\ told = {} /\ escaped = {} /\ reads = 0 /\ restarts = 0

-----------------------------------------------------------------------------
(* A request with the key and an allowed repository: the record is stored  *)
(* before the answer, and the task begins after it.  Identifiers are new.  *)
Post(s) ==
    /\ s \notin told
    /\ record' = [record EXCEPT ![s] = [NoRecord EXCEPT !.status = "queued"]]
    /\ task' = [task EXCEPT ![s] = "waiting"] /\ told' = told \cup {s}
    /\ UNCHANGED <<sarif, reading, answer, escaped, reads, restarts>>

Becomes(s, step, rec) == task' = [task EXCEPT ![s] = step] /\ record' = [record EXCEPT ![s] = rec]

Begin(s) ==
    /\ task[s] = "waiting" /\ Becomes(s, "begun", [record[s] EXCEPT !.status = "running"])
    /\ UNCHANGED <<sarif, reading, answer, told, escaped, reads, restarts>>

(* The directory is made outside the try: what fails there ends the task.  *)
MakeDirectory(s) ==
    /\ task[s] = "begun"
    /\ \/ Becomes(s, "clone", record[s]) /\ UNCHANGED escaped
       \/ Becomes(s, "ended", record[s]) /\ escaped' = escaped \cup {s}
    /\ UNCHANGED <<sarif, reading, answer, told, reads, restarts>>

(* The three commands: each ends well, ends in an error the task catches,  *)
(* or in one it does not (output that is not text).  The last one writes   *)
(* the result file, not at once.                                           *)
After(step) == CASE step = "clone" -> "create" [] step = "create" -> "analyze" [] OTHER -> "complete"

Command(s) ==
    /\ task[s] \in {"clone", "create", "analyze"}
    /\ \/ /\ Becomes(s, After(task[s]), record[s]) /\ UNCHANGED escaped
          /\ sarif' = IF task[s] = "analyze" THEN [sarif EXCEPT ![s] = "whole"] ELSE sarif
       \/ /\ Becomes(s, "fail", record[s]) /\ UNCHANGED <<escaped, sarif>>
       \/ /\ Becomes(s, "ended", record[s]) /\ escaped' = escaped \cup {s} /\ UNCHANGED sarif
    /\ UNCHANGED <<reading, answer, told, reads, restarts>>

WritePart(s) ==
    /\ task[s] = "analyze" /\ sarif[s] = "none" /\ sarif' = [sarif EXCEPT ![s] = "partial"]
    /\ UNCHANGED <<record, task, reading, answer, told, escaped, reads, restarts>>

(* The status and the path of the result are two assignments.              *)
CompleteEarly(s) == \* variant: the scan is completed before the analysis wrote its result
    /\ task[s] \in {"analyze", "complete"} /\ Becomes(s, "path", [record[s] EXCEPT !.status = "completed"])
    /\ UNCHANGED <<sarif, reading, answer, told, escaped, reads, restarts>>

Complete(s) ==
    /\ task[s] = "complete" /\ Becomes(s, "path", [record[s] EXCEPT !.status = "completed"])
    /\ UNCHANGED <<sarif, reading, answer, told, escaped, reads, restarts>>

SetPath(s) ==
    /\ task[s] = "path" /\ Becomes(s, "ended", [record[s] EXCEPT !.path = TRUE])
    /\ UNCHANGED <<sarif, reading, answer, told, escaped, reads, restarts>>

FailSilent(s) == \* variant: the caught error does not change the status
    /\ task[s] = "fail" /\ Becomes(s, "ended", [record[s] EXCEPT !.error = TRUE])
    /\ UNCHANGED <<sarif, reading, answer, told, escaped, reads, restarts>>

Fail(s) ==
    /\ task[s] = "fail" /\ Becomes(s, "ended", [record[s] EXCEPT !.status = "failed", !.error = TRUE])
    /\ UNCHANGED <<sarif, reading, answer, told, escaped, reads, restarts>>

(* A read of a scan the client knows: the record is dumped, and then its   *)
(* result_path is read again for the result.  Reads change nothing another *)
(* read sees: one of a scan at a time shows what each may be answered.     *)
Get(s) ==
    /\ s \in told /\ reading[s] = NoRecord /\ reads < MaxReads /\ reads' = reads + 1
    /\ IF record[s].status = "none"
       THEN answer' = [answer EXCEPT ![s] = [NoAnswer EXCEPT !.code = 404]] /\ UNCHANGED reading
       ELSE reading' = [reading EXCEPT ![s] = record[s]] /\ UNCHANGED answer
    /\ UNCHANGED <<record, task, sarif, told, escaped, restarts>>

GetResult(s) ==
    /\ reading[s] # NoRecord
    /\ answer' = [answer EXCEPT ![s] =
                    [status |-> reading[s].status, path |-> reading[s].path,
                     result |-> IF record[s].path THEN sarif[s] ELSE "none", code |-> 200]]
    /\ reading' = [reading EXCEPT ![s] = NoRecord]
    /\ UNCHANGED <<record, task, sarif, told, escaped, reads, restarts>>

Restart ==
    /\ restarts < MaxRestarts /\ restarts' = restarts + 1
    /\ record' = [s \in Scans |-> NoRecord] /\ task' = [s \in Scans |-> "none"]
    /\ reading' = [s \in Scans |-> NoRecord]
    /\ UNCHANGED <<sarif, answer, told, escaped, reads>>

Next ==
    \/ \E s \in Scans :
         \/ Post(s) \/ Begin(s) \/ MakeDirectory(s) \/ Command(s) \/ WritePart(s)
         \/ Complete(s) \/ SetPath(s) \/ Fail(s) \/ Get(s) \/ GetResult(s)
    \/ Restart

Spec == Init /\ [][Next]_vars

-----------------------------------------------------------------------------
(* A completed scan has its whole result on disk, and a reader is given    *)
(* the whole result or none, never a part, and whole if it is told of its  *)
(* path; between the two assignments a reader may be told of a completed   *)
(* scan and given no result, or of a running one and given it.             *)
ResultWhole ==
    \A s \in Scans :
        /\ record[s].status = "completed" => sarif[s] = "whole"
        /\ answer[s].result # "partial" /\ (answer[s].path => answer[s].result = "whole")
        /\ answer[s].status = "completed" /\ answer[s].result = "none" => sarif[s] = "whole"

(* A task that ended left a final status, the path with a completed scan   *)
(* and the error with a failed one, unless an exception escaped it: such a *)
(* scan reads running for ever.                                            *)
EndsFinal ==
    \A s \in Scans : task[s] = "ended" =>
        \/ record[s].status = "completed" /\ record[s].path /\ ~record[s].error
        \/ record[s].status = "failed" /\ record[s].error /\ ~record[s].path
        \/ record[s].status = "running" /\ s \in escaped

(* A scan the client knows is found, unless the process was restarted.     *)
KnownIsFound ==
    \A s \in told : record[s].status = "none" \/ answer[s].code = 404 => restarts > 0

(* What a client of the scans may rely on.                                 *)
ScansInv == ResultWhole /\ EndsFinal /\ KnownIsFound
=============================================================================

--------------------------- MODULE ModelDelivery ---------------------------
(***************************************************************************)
(* The file /models/policy.onnx of the volume that model-sync, its         *)
(* rollback monitor, its S3 loop and rl-trainer write without excluding    *)
(* each other:                                                             *)
(*   sync     copies /shared-models/policy.onnx, an export of rl-policy,   *)
(*            onto it twice, or downloads it where there is none           *)
(*   monitor  backs it up once, then restores the backup now and then      *)
(*   s3       uploads it and downloads it, over and over                   *)
(*   trainer  writes its weights into it, as JSON, at every message        *)
(***************************************************************************)
EXTENDS Integers

CONSTANTS
    Exports,        \* exports of rl-policy
    MaxWrites,      \* bound: messages of rl-trainer, rollbacks, rounds of s3
    None, Torn

DeliveryAssumption ==
    /\ MaxWrites \in Nat
    /\ "json" \notin Exports /\ {None, Torn} \cap (Exports \cup {"json"}) = {} /\ None # Torn

Writers == {"sync", "monitor", "trainer"}

VARIABLES
    exported,       \* /shared-models/policy.onnx
    runtime,        \* /models/policy.onnx
    writing,        \* writers that have truncated that file and hold it open
    fresh,          \* TRUE: nothing was written since it was truncated
    pc,             \* of each process: what it does next
    holds,          \* of each: the model it read
    backup, bucket, \* copies
    writes,         \* of each: writes made
    \* history
    clash,          \* an open file was read or written by another process
    changed         \* it was written since the last upload

vars == <<exported, runtime, writing, fresh, pc, holds, backup, bucket, writes, clash, changed>>

Models == Exports \cup {"json"}
Content == Models \cup {None, Torn}

TypeOK ==
    /\ exported \in Exports \cup {None, Torn} /\ runtime \in Content /\ backup \in Content /\ bucket \in Content
    /\ writing \subseteq Writers /\ fresh \in BOOLEAN
    /\ pc \in [Writers \cup {"s3", "export"} ->
               {"start", "open", "write", "reread", "open2", "write2", "download", "ended"}]
    /\ holds \in [Writers \cup {"export"} -> Content]
    /\ writes \in [{"monitor", "trainer", "s3"} -> 0..MaxWrites]
    /\ clash \in BOOLEAN /\ changed \in BOOLEAN

Init ==
    /\ exported = None /\ runtime = None /\ backup = None /\ bucket \in {None} \cup Exports
    /\ writing = {} /\ fresh = FALSE
    /\ pc = [p \in Writers \cup {"s3", "export"} |-> "start"]
    /\ holds = [p \in Writers \cup {"export"} |-> None]
    /\ writes = [p \in {"monitor", "trainer", "s3"} |-> 0]
    /\ clash = FALSE /\ changed = TRUE

-----------------------------------------------------------------------------
(* A writer truncates the file and writes it in a second step.  What it    *)
(* leaves after another wrote in between may be a part of each; after a    *)
(* download put a new file in its place, it writes to the old one.         *)
Seen(p) == clash' = (clash \/ writing \ {p} # {})

OpenFile(p) ==
    /\ writing' = writing \cup {p} /\ runtime' = Torn /\ fresh' = TRUE /\ changed' = TRUE
    /\ Seen(p)

WriteFileUnflushed(p, content) == \* variant: what is written stays in a buffer
    /\ writing' = writing \ {p}
    /\ UNCHANGED runtime /\ fresh' = FALSE /\ changed' = TRUE
    /\ Seen(p)

WriteFile(p, content) ==
    /\ writing' = writing \ {p}
    /\ IF p \in writing
         THEN runtime' \in (IF fresh THEN {content} ELSE {content, Torn}) /\ fresh' = FALSE /\ changed' = TRUE
         ELSE UNCHANGED <<runtime, fresh, changed>>
    /\ Seen(p)

Goto(p, step) == pc' = [pc EXCEPT ![p] = step]

(* export_policy_to_onnx, of a policy it could load.                       *)
ExportOpen(e) ==
    /\ pc["export"] = "start"
    /\ Goto("export", "write") /\ holds' = [holds EXCEPT !["export"] = e]
    /\ exported' = Torn
    /\ UNCHANGED <<runtime, writing, fresh, backup, bucket, writes, clash, changed>>

ExportWrite ==
    /\ pc["export"] = "write"
    /\ Goto("export", "start")
    /\ exported' = holds["export"]
    /\ UNCHANGED <<runtime, writing, fresh, holds, backup, bucket, writes, clash, changed>>

-----------------------------------------------------------------------------
(* sync.  The destination and the current file have the same name, so it   *)
(* reads back what it wrote, or what another wrote since, and rewrites it. *)
SyncStart ==
    /\ pc["sync"] = "start"
    /\ IF exported # None
         THEN Goto("sync", "open") /\ holds' = [holds EXCEPT !["sync"] = exported]
         ELSE Goto("sync", "download") /\ holds' = holds
    /\ clash' = (clash \/ exported = Torn)
    /\ UNCHANGED <<exported, runtime, writing, fresh, backup, bucket, writes, changed>>

SyncOpen(from, to) ==
    /\ pc["sync"] = from /\ Goto("sync", to)
    /\ OpenFile("sync")
    /\ UNCHANGED <<exported, holds, backup, bucket, writes>>

SyncWrite(from, to) ==
    /\ pc["sync"] = from /\ Goto("sync", to)
    /\ WriteFile("sync", holds["sync"])
    /\ UNCHANGED <<exported, holds, backup, bucket, writes>>

SyncReread ==
    /\ pc["sync"] = "reread" /\ Goto("sync", "open2")
    /\ holds' = [holds EXCEPT !["sync"] = runtime]
    /\ Seen("sync")
    /\ UNCHANGED <<exported, runtime, writing, fresh, backup, bucket, writes, changed>>

(* Downloads write beside the file, then put the new one in its place.     *)
DownloadOnto ==
    /\ runtime' = bucket /\ writing' = {} /\ fresh' = FALSE
    /\ clash' = (clash \/ writing # {})

SyncDownload ==
    /\ pc["sync"] = "download" /\ Goto("sync", "start")
    /\ IF bucket = None THEN UNCHANGED <<runtime, writing, fresh, clash, changed>>
                        ELSE DownloadOnto /\ changed' = TRUE
    /\ UNCHANGED <<exported, holds, backup, bucket, writes>>

-----------------------------------------------------------------------------
(* The monitor: a backup when it starts, and then rollbacks at random.     *)
(* Without a backup the first of them raises.                              *)
Backup ==
    /\ pc["monitor"] = "start" /\ Goto("monitor", "open")
    /\ backup' = IF runtime = None THEN backup ELSE runtime
    /\ Seen("monitor")
    /\ UNCHANGED <<exported, runtime, writing, fresh, holds, bucket, writes, changed>>

RollbackUnchecked == \* variant: nothing is written over the backup's absence
    /\ pc["monitor"] = "open" /\ writes["monitor"] < MaxWrites
    /\ Goto("monitor", "write") /\ OpenFile("monitor") /\ holds' = [holds EXCEPT !["monitor"] = backup]
    /\ writes' = [writes EXCEPT !["monitor"] = @ + 1]
    /\ UNCHANGED <<exported, backup, bucket>>

RollbackOpen ==
    /\ pc["monitor"] = "open" /\ writes["monitor"] < MaxWrites
    /\ IF backup = None
         THEN Goto("monitor", "ended") /\ UNCHANGED <<runtime, writing, fresh, holds, writes, clash, changed>>
         ELSE /\ Goto("monitor", "write") /\ OpenFile("monitor")
              /\ holds' = [holds EXCEPT !["monitor"] = backup]
              /\ writes' = [writes EXCEPT !["monitor"] = @ + 1]
    /\ UNCHANGED <<exported, backup, bucket>>

RollbackWrite ==
    /\ pc["monitor"] = "write" /\ Goto("monitor", "open")
    /\ WriteFile("monitor", holds["monitor"])
    /\ UNCHANGED <<exported, holds, backup, bucket, writes>>

(* The S3 loop; an upload of a missing file ends it.                       *)
UploadOnce == \* variant: an object already in the bucket is not replaced
    /\ pc["s3"] = "start" /\ writes["s3"] < MaxWrites
    /\ writes' = [writes EXCEPT !["s3"] = @ + 1]
    /\ IF runtime = None
         THEN Goto("s3", "ended") /\ UNCHANGED <<bucket, changed>>
         ELSE Goto("s3", "download") /\ bucket' = (IF bucket = None THEN runtime ELSE bucket) /\ changed' = FALSE
    /\ Seen("s3")
    /\ UNCHANGED <<exported, runtime, writing, fresh, holds, backup>>

Upload ==
    /\ pc["s3"] = "start" /\ writes["s3"] < MaxWrites
    /\ writes' = [writes EXCEPT !["s3"] = @ + 1]
    /\ IF runtime = None
         THEN Goto("s3", "ended") /\ UNCHANGED <<bucket, changed>>
         ELSE Goto("s3", "download") /\ bucket' = runtime /\ changed' = FALSE
    /\ Seen("s3")
    /\ UNCHANGED <<exported, runtime, writing, fresh, holds, backup>>

Download ==
    /\ pc["s3"] = "download" /\ Goto("s3", "start")
    /\ DownloadOnto
    /\ UNCHANGED <<exported, holds, backup, bucket, writes, changed>>

(* rl-trainer writes at every message; one it cannot decode ends it, and   *)
(* it is started again.                                                    *)
TrainerOpen ==
    /\ pc["trainer"] = "start" /\ writes["trainer"] < MaxWrites
    /\ writes' = [writes EXCEPT !["trainer"] = @ + 1]
    /\ Goto("trainer", "write") /\ OpenFile("trainer")
    /\ UNCHANGED <<exported, holds, backup, bucket>>

TrainerWrite ==
    /\ pc["trainer"] = "write" /\ Goto("trainer", "start")
    /\ WriteFile("trainer", "json")
    /\ UNCHANGED <<exported, holds, backup, bucket, writes>>

(* A process that is stopped between the two steps of a write leaves the   *)
(* file empty.  Sync starts again; so does rl-trainer.                     *)
Stop(p) ==
    /\ p \in writing
    /\ writing' = writing \ {p} /\ Goto(p, "start") /\ clash' = TRUE
    /\ UNCHANGED <<exported, runtime, fresh, holds, backup, bucket, writes, changed>>

Next ==
    \/ \E e \in Exports : ExportOpen(e)
    \/ ExportWrite
    \/ SyncStart \/ SyncReread \/ SyncDownload
    \/ SyncOpen("open", "write") \/ SyncWrite("write", "reread")
    \/ SyncOpen("open2", "write2") \/ SyncWrite("write2", "start")
    \/ Backup \/ RollbackOpen \/ RollbackWrite
    \/ Upload \/ Download
    \/ TrainerOpen \/ TrainerWrite
    \/ \E p \in Writers : Stop(p)

Spec == Init /\ [][Next]_vars

-----------------------------------------------------------------------------
(* The model file, its backup and its copy in the bucket are whole while   *)
(* nobody holds the file open, unless a process met another at an open     *)
(* file, was stopped while it wrote, or copied an export half written.     *)
WholeUnlessClash ==
    ~clash => /\ writing = {} => runtime # Torn
              /\ Torn \notin {backup, bucket}

(* The S3 loop restores what it uploaded: it undoes a rollback or another  *)
(* write only when that came between its upload and its download.  And a   *)
(* model once there is never absent again, whatever fails, so that a       *)
(* backup and an upload always have one to restore.                        *)
LoopUndoesOnlyRaces ==
    [][/\ pc["s3"] = "download" /\ pc'["s3"] = "start" /\ ~changed => runtime' = runtime
       /\ runtime # None => runtime' # None
       /\ backup # None => backup' # None
       /\ bucket # None => bucket' # None]_vars
=============================================================================

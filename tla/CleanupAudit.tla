---------------------------- MODULE CleanupAudit ----------------------------
(***************************************************************************)
(* scripts/repo_cleanup_audit.py: it walks the relative imports from the   *)
(* configured files and, with --apply, moves every source file the walk    *)
(* did not meet to a quarantine directory, one by one, and then writes     *)
(* which it moved.  Developers edit the tree meanwhile, and a run may be   *)
(* killed between two steps.  An import by absolute name is no edge here,  *)
(* as it is none in the code.                                              *)
(***************************************************************************)
EXTENDS Integers, FiniteSets, FiniteSetsExt

CONSTANTS
    Files,          \* source files, numbered in the order of their paths
    Entrypoints, Protected,
    Trees,          \* the imports a run may begin from: functions from Files to sets of Files
    MaxRuns, MaxEdits

CleanupAssumption ==
    /\ Files \subseteq Nat /\ Entrypoints \subseteq Files /\ Protected \subseteq Files
    /\ Trees \subseteq [Files -> SUBSET Files] /\ MaxRuns \in Nat /\ MaxEdits \in Nat

VARIABLES
    source,         \* files in the tree
    quarantine,     \* files in the quarantine directory
    imports,        \* relative imports as they are written in the files
    manifest,       \* moved_manifest.json
    run,            \* the run under way
    runs, edits,
    lost,           \* history: files in quarantine that no manifest names
    settled         \* history: what was unreachable was moved, and nothing edited since

treeVars == <<source, quarantine, imports, manifest>>
vars == <<treeVars, run, runs, edits, lost, settled>>

Idle == [step |-> "idle", graph |-> [f \in {} |-> {}], stack |-> {}, visited |-> {}, left |-> {}, moved |-> {},
         fresh |-> FALSE]

IsRun(r) ==
    /\ r \in [step : {"idle", "walk", "move"}, graph : {r.graph}, stack : SUBSET Files, visited : SUBSET Files,
              left : SUBSET Files, moved : SUBSET Files, fresh : BOOLEAN]
    /\ r.graph \in [DOMAIN r.graph -> SUBSET DOMAIN r.graph] /\ DOMAIN r.graph \subseteq Files

TypeOK ==
    /\ source \subseteq Files /\ quarantine \subseteq Files /\ imports \in [Files -> SUBSET Files]
    /\ manifest \subseteq Files /\ lost \subseteq Files /\ settled \in BOOLEAN
    /\ runs \in 0..MaxRuns /\ edits \in 0..MaxEdits
    /\ IsRun(run)

Init ==
    /\ source = Files /\ quarantine = {} /\ imports \in Trees /\ manifest = {}
    /\ run = Idle /\ runs = 0 /\ edits = 0 /\ lost = {} /\ settled = FALSE

-----------------------------------------------------------------------------
(* The graph of the listed files: an import that leads to none of them is  *)
(* dropped.                                                                *)
Graph == [f \in source |-> imports[f] \cap source]

(* A run: without a valid entry point it raises before anything is done.   *)
Analyze ==
    /\ run.step = "idle" /\ runs < MaxRuns /\ Entrypoints \cap source # {}
    /\ runs' = runs + 1
    /\ run' = [Idle EXCEPT !.step = "walk", !.graph = Graph, !.fresh = TRUE,
                           !.stack = (Entrypoints \cup Protected) \cap source]
    /\ UNCHANGED <<treeVars, edits, lost, settled>>

(* One turn of the walk.  The order of the stack does not matter to what   *)
(* is visited in the end.                                                  *)
WalkDirect == \* variant: what a visited file imports is not followed
    /\ run.step = "walk"
    /\ \E f \in run.stack : run' = [run EXCEPT !.stack = @ \ {f}, !.visited = @ \cup {f}]
    /\ UNCHANGED <<treeVars, runs, edits, lost, settled>>

Walk ==
    /\ run.step = "walk"
    /\ \E f \in run.stack :
         run' = [run EXCEPT !.stack = (@ \cup run.graph[f]) \ (run.visited \cup {f}), !.visited = @ \cup {f}]
    /\ UNCHANGED <<treeVars, runs, edits, lost, settled>>

Unreachable == DOMAIN run.graph \ run.visited

(* The report is written; a run with --apply goes on to move.              *)
Report ==
    /\ run.step = "walk" /\ run.stack = {}
    /\ run' = IF Unreachable = {} THEN Idle ELSE [run EXCEPT !.step = "move", !.left = Unreachable]
    /\ settled' = (settled \/ (Unreachable = {} /\ run.fresh))
    /\ UNCHANGED <<treeVars, runs, edits, lost>>

DryRun ==
    /\ run.step = "walk" /\ run.stack = {} /\ run' = Idle
    /\ UNCHANGED <<treeVars, runs, edits, lost, settled>>

(* A file that is gone by now raises, and what was moved stays unnamed.  A *)
(* copy that is in the quarantine already is replaced.                     *)
Move ==
    /\ run.step = "move" /\ run.left # {}
    /\ LET f == Min(run.left)
       IN \/ /\ f \in source
             /\ source' = source \ {f} /\ quarantine' = quarantine \cup {f}
             /\ run' = [run EXCEPT !.left = @ \ {f}, !.moved = @ \cup {f}]
             /\ UNCHANGED lost
          \/ /\ f \notin source
             /\ run' = Idle /\ lost' = lost \cup run.moved
             /\ UNCHANGED <<source, quarantine>>
    /\ UNCHANGED <<imports, manifest, runs, edits, settled>>

(* Only what this run moved is named: an earlier manifest is replaced.     *)
WriteManifestOfLast == \* variant: the list keeps only the last file that was moved
    /\ run.step = "move" /\ run.left = {}
    /\ manifest' = {Max(run.moved)} /\ lost' = (lost \cup manifest) \ run.moved
    /\ settled' = run.fresh /\ run' = Idle
    /\ UNCHANGED <<source, quarantine, imports, runs, edits>>

WriteManifest ==
    /\ run.step = "move" /\ run.left = {}
    /\ manifest' = run.moved /\ lost' = (lost \cup manifest) \ run.moved
    /\ settled' = run.fresh /\ run' = Idle
    /\ UNCHANGED <<source, quarantine, imports, runs, edits>>

Crash ==
    /\ run.step # "idle" /\ run' = Idle
    /\ lost' = lost \cup run.moved
    /\ UNCHANGED <<treeVars, runs, edits, settled>>

(* Developers: an import is written, or a file comes back from the history *)
(* or is deleted.                                                          *)
Edit ==
    /\ edits < MaxEdits /\ edits' = edits + 1 /\ settled' = FALSE
    /\ run' = [run EXCEPT !.fresh = FALSE]
    /\ \/ \E f, g \in source : imports' = [imports EXCEPT ![f] = @ \cup {g}] /\ UNCHANGED source
       \/ \E f \in Files : source' = (IF f \in source THEN source \ {f} ELSE source \cup {f}) /\ UNCHANGED imports
    /\ UNCHANGED <<quarantine, manifest, runs, lost>>

Next == Analyze \/ Walk \/ Report \/ DryRun \/ Move \/ WriteManifest \/ Crash \/ Edit

Spec == Init /\ [][Next]_vars

-----------------------------------------------------------------------------
(* What the entry points and the protected files need: the least set that  *)
(* holds them and every import of its members.                             *)
Needed(graph) ==
    LET starts == (Entrypoints \cup Protected) \cap DOMAIN graph
        Closed(S) == starts \subseteq S /\ \A f \in S : graph[f] \subseteq S
    IN {f \in DOMAIN graph : \A S \in SUBSET DOMAIN graph : Closed(S) => f \in S}

(* The walk ends with what is needed, neither more nor less.               *)
WalkExact == run.step = "move" => run.visited = Needed(run.graph)

(* A file is moved only if, at the time of the walk, nothing needed it;    *)
(* one that is needed when it goes is so by an edit made since.            *)
NeededStays == run.fresh => run.moved \cap Needed([f \in DOMAIN run.graph |-> imports[f] \cap DOMAIN run.graph]) = {}

(* Moving what is unreachable makes nothing else unreachable: a second run *)
(* finds nothing.                                                          *)
OnceIsEnough == settled /\ run.step = "move" => FALSE

(* What lies in quarantine is named by the manifest, or was moved by a run *)
(* that did not end or whose manifest was replaced.                        *)
ManifestTells == quarantine = manifest \cup lost \cup run.moved

(* What the one who runs the tool may rely on.                             *)
CleanupInv == WalkExact /\ NeededStays /\ OnceIsEnough /\ ManifestTells
=============================================================================

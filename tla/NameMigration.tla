---------------------------- MODULE NameMigration ----------------------------
(***************************************************************************)
(* The two scripts that replace the platform's former names: full_migration*)
(* rewrites the contents of the text files and then renames files and      *)
(* directories, the deepest first; rebrand rewrites contents only and      *)
(* knows other spellings.  A run may be killed at any step, also between   *)
(* the truncation and the write of a file, and be started again.           *)
(***************************************************************************)
EXTENDS Integers, FiniteSets

CONSTANTS
    Nodes, Root,    \* files and directories below the root directory
    Up, Base,       \* functions: the directory of a node, and its name without the spelling of the platform
    Dirs,           \* nodes that are directories
    Text,           \* files both scripts take for text
    Skipped,        \* nodes in node_modules, dist, ...: neither script looks at them
    Trees,          \* the trees a run may begin from: [named, content]
    MaxRuns

Spellings == {"lower", "upper", "title", "current"}

Content == [has : SUBSET Spellings, odd : BOOLEAN, lost : {"nothing", "odd", "all"}]

(* The directories above a node, the root directory aside: the parts of    *)
(* its path but its name.                                                  *)
Above(n) ==
    LET Within(e) == {Up[e]} \cap Dirs
        Closed(S) == Within(n) \subseteq S /\ \A d \in S : Within(d) \subseteq S
    IN {d \in Dirs : \A S \in SUBSET Dirs : Closed(S) => d \in S}

(* A name is taken once in its directory.                                  *)
Apart(names) == \A m, n \in Nodes : m # n /\ Up[m] = Up[n] /\ Base[m] = Base[n] => names[m] # names[n]

(* No directory lies in itself.                                            *)
MigrationAssumption ==
    /\ IsFiniteSet(Nodes) /\ Root \notin Nodes /\ Up \in [Nodes -> Dirs \cup {Root}] /\ Dirs \subseteq Nodes
    /\ Text \subseteq Nodes \ Dirs /\ Skipped \subseteq Nodes /\ MaxRuns \in Nat
    /\ \A d \in Dirs : d \notin Above(d)
    /\ Trees \subseteq [named : [Nodes -> {"lower", "current"}], content : [Nodes \ Dirs -> Content]]
    /\ \A t \in Trees : Apart(t.named) /\ \A f \in Nodes \ Dirs : t.content[f].lost = "nothing"

VARIABLES
    named,          \* the spelling in the name of each node: "lower" or "current"
    content,        \* of each file: the spellings in it, whether it has bytes that are no text, and what it lost
    run,            \* the run under way
    runs

vars == <<named, content, run, runs>>

Idle == [tool |-> "none", left |-> {}, open |-> Root, plan |-> {}]

TypeOK ==
    /\ named \in [Nodes -> {"lower", "current"}] /\ content \in [Nodes \ Dirs -> Content] /\ runs \in 0..MaxRuns
    /\ run \in [tool : {"none", "migrate", "rebrand", "rename"}, left : SUBSET Nodes, open : Nodes \cup {Root},
                plan : SUBSET Nodes]

Init ==
    /\ \E t \in Trees : named = t.named /\ content = t.content
    /\ run = Idle /\ runs = 0

-----------------------------------------------------------------------------
(* What each script replaces, and by what: always by the current name.     *)
ReplacedExact(tool) == IF tool = "migrate" THEN {"lower"} ELSE {"upper", "title"} \* variant
Replaced(tool) == IF tool = "migrate" THEN {"lower", "upper"} ELSE {"upper", "title"}

Rewritten(c, tool) ==
    [has |-> (c.has \ Replaced(tool)) \cup (IF c.has \cap Replaced(tool) = {} THEN {} ELSE {"current"}),
     odd |-> FALSE, lost |-> IF c.odd THEN "odd" ELSE c.lost]

Start(tool) ==
    /\ run = Idle /\ runs < MaxRuns /\ runs' = runs + 1
    /\ run' = [Idle EXCEPT !.tool = tool, !.left = Text \ Skipped]
    /\ UNCHANGED <<named, content>>

(* A file is read, without the bytes that are no text, and, if a spelling  *)
(* was found in it, opened for writing, which empties it, ...              *)
Pass ==
    /\ run.tool \in {"migrate", "rebrand"} /\ run.open = Root
    /\ \E f \in run.left :
         /\ content[f].has \cap Replaced(run.tool) = {}
         /\ run' = [run EXCEPT !.left = @ \ {f}]
    /\ UNCHANGED <<named, content, runs>>

Truncate ==
    /\ run.tool \in {"migrate", "rebrand"} /\ run.open = Root
    /\ \E f \in run.left :
         /\ content[f].has \cap Replaced(run.tool) # {}
         /\ run' = [run EXCEPT !.left = @ \ {f}, !.open = f]
    /\ UNCHANGED <<named, content, runs>>

(* ... and written whole.                                                  *)
Write ==
    /\ run.open # Root
    /\ content' = [content EXCEPT ![run.open] = Rewritten(@, run.tool)]
    /\ run' = [run EXCEPT !.open = Root]
    /\ UNCHANGED <<named, runs>>

(* The renames are planned by the paths as they are before the first one.  *)
Plan ==
    /\ run.tool = "migrate" /\ run.left = {} /\ run.open = Root
    /\ run' = [run EXCEPT !.tool = "rename", !.plan = {n \in Nodes \ Skipped : named[n] = "lower"},
                          !.left = {n \in Nodes \ Skipped : named[n] = "lower"}]
    /\ UNCHANGED <<named, content, runs>>

(* The deepest of what is left comes first, by the parts of the paths.     *)
Depth(n) == Cardinality(Above(n)) + 1
DeepestNot(n) == \A m \in run.left : Depth(m) >= Depth(n) \* variant: the shallowest first
Deepest(n) == \A m \in run.left : Depth(m) <= Depth(n)

(* A planned path leads to its node while no directory above it has been   *)
(* renamed since.                                                          *)
PathHolds(n) == \A d \in Above(n) \cap run.plan : named[d] = "lower"

Taken(n) == \E m \in Nodes \ {n} : Up[m] = Up[n] /\ Base[m] = Base[n] /\ named[m] = "current"

(* A rename is skipped where nothing is at the old path, or something at   *)
(* the new one.                                                            *)
Rename ==
    /\ run.tool = "rename"
    /\ \E n \in run.left :
         /\ Deepest(n)
         /\ named' = IF PathHolds(n) /\ ~Taken(n) THEN [named EXCEPT ![n] = "current"] ELSE named
         /\ run' = [run EXCEPT !.left = @ \ {n}]
    /\ UNCHANGED <<content, runs>>

End ==
    /\ run.tool \in {"rebrand", "rename"} /\ run.left = {} /\ run.open = Root
    /\ run' = Idle
    /\ UNCHANGED <<named, content, runs>>

(* Killed: the file that was open stays empty.                             *)
Crash ==
    /\ run # Idle /\ run' = Idle
    /\ content' = IF run.open = Root THEN content
                  ELSE [content EXCEPT ![run.open] = [has |-> {}, odd |-> FALSE, lost |-> "all"]]
    /\ UNCHANGED <<named, runs>>

Next == Start("migrate") \/ Start("rebrand") \/ Pass \/ Truncate \/ Write \/ Plan \/ Rename \/ End \/ Crash

Spec == Init /\ [][Next]_vars

-----------------------------------------------------------------------------
(* What the pipeline searches for: the spellings of the migration, in      *)
(* every file, in whatever directory.                                      *)
Found == {f \in Nodes \ Dirs : content[f].has \cap {"lower", "upper"} # {}}

(* After the contents of a migration nothing is left to find but in files  *)
(* it does not take for text and in directories it does not enter; its     *)
(* renames leave an old name only where the new one is taken, whatever     *)
(* earlier runs were killed at.                                            *)
MigratedClean ==
    run.tool = "rename" =>
        /\ Found \cap Text \subseteq Skipped
        /\ \A n \in run.plan \ run.left : named[n] = "lower" => Taken(n)
        /\ \A n \in run.left : PathHolds(n)

(* A name is taken once in its directory: no rename replaces a file.       *)
NamesApart == Apart(named)

(* Nothing in a skipped directory and no file without a former spelling is *)
(* written: what lost something was one the scripts replace in, and what   *)
(* lost everything was open when a run was killed, which no run repairs.   *)
LossExplained ==
    \A f \in Nodes \ Dirs :
        /\ content[f].lost # "nothing" => f \in Text \ Skipped
        /\ content[f].lost = "odd" => "current" \in content[f].has
        /\ content[f].lost = "all" => content[f].has = {}

(* What the one who runs the scripts may rely on.                          *)
MigrationInv == MigratedClean /\ NamesApart /\ LossExplained
=============================================================================

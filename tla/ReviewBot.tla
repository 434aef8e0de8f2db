------------------------------ MODULE ReviewBot ------------------------------
(***************************************************************************)
(* The review robot.  A call offers a patch for a base branch in four      *)
(* requests to the host: it reads the base, cuts the branch named after    *)
(* it (whether that works or not), adds the patch as a file and opens a    *)
(* pull request.  Calls run side by side, any request may fail or lose its *)
(* answer, developers merge, close and delete in between.                  *)
(***************************************************************************)
EXTENDS Integers, Sequences, FiniteSets

CONSTANTS
    Calls,          \* calls of create_pr
    Bases,          \* base branches
    BranchOf,    \* the fix branch of a base; "/" becomes "-", so two bases may share it
    Patches,        \* patches: [text, secret]
    MaxDeletes,
    None

Redacted(p) == [p EXCEPT !.secret = FALSE] \* redact_patch_secrets
Blank(p) == p.text = "" /\ ~p.secret

BotAssumption ==
    /\ DOMAIN BranchOf = Bases /\ MaxDeletes \in Nat
    /\ \A p \in Patches : "secret" \in DOMAIN p /\ Redacted(p) # None

VARIABLES
    base,           \* the patch file in each base, or None
    branch,         \* each fix branch: None or its patch file
    cuts,           \* how often each fix branch was deleted
    call,           \* the calls
    pulls,          \* pull requests: [by, base, cut, open]
    lost,           \* history: calls that failed because an answer was lost
    writers         \* history: <<call, branch, cut>> of every file written

vars == <<base, branch, cuts, call, pulls, lost, writers>>

Branches == {BranchOf[b] : b \in Bases}
File == Patches \cup {Redacted(p) : p \in Patches} \cup {None}
Call == [step : {"idle", "base", "ref", "file", "pull", "done", "failed", "refused"},
         base : Bases \cup {None}, patch : Patches \cup {None}, seen : File]

TypeOK ==
    /\ base \in [Bases -> File] /\ branch \in [Branches -> [cut : BOOLEAN, file : File]]
    /\ cuts \in [Branches -> 0..MaxDeletes] /\ call \in [Calls -> Call]
    /\ pulls \subseteq [by : Calls, base : Bases, cut : 0..MaxDeletes, open : BOOLEAN]
    /\ lost \subseteq Calls /\ writers \subseteq Calls \X Branches \X (0..MaxDeletes)

Init ==
    /\ base = [b \in Bases |-> None] /\ branch = [r \in Branches |-> [cut |-> FALSE, file |-> None]]
    /\ cuts = [r \in Branches |-> 0] /\ pulls = {} /\ lost = {} /\ writers = {}
    /\ call = [c \in Calls |-> [step |-> "idle", base |-> None, patch |-> None, seen |-> None]]

-----------------------------------------------------------------------------
Mine(c) == BranchOf[call[c].base]
Go(c, step) == call' = [call EXCEPT ![c].step = step]

(* A call is refused for its names, a missing token or a blank patch.      *)
CreatePr(c) ==
    /\ call[c].step = "idle"
    /\ \E b \in Bases, p \in Patches, sound \in BOOLEAN :
         call' = [call EXCEPT ![c] = [@ EXCEPT !.base = b, !.patch = p,
                                               !.step = IF sound /\ ~Blank(p) THEN "base" ELSE "refused"]]
    /\ UNCHANGED <<base, branch, cuts, pulls, lost, writers>>

GetBranch(c) ==
    /\ call[c].step = "base"
    /\ call' = [call EXCEPT ![c].seen = base[call[c].base], ![c].step = "ref"]
    /\ UNCHANGED <<base, branch, cuts, pulls, lost, writers>>

(* Every error is swallowed: the branch is there already, or it is not.    *)
CreateRef(c) ==
    /\ call[c].step = "ref" /\ Go(c, "file")
    /\ \/ UNCHANGED branch
       \/ ~branch[Mine(c)].cut /\ branch' = [branch EXCEPT ![Mine(c)] = [cut |-> TRUE, file |-> call[c].seen]]
    /\ UNCHANGED <<base, cuts, pulls, lost, writers>>

(* The host adds a file only where there is none.                          *)
FreeWhenCut(c) == branch[Mine(c)].cut \* variant: a file that is there is replaced
Free(c) == branch[Mine(c)].cut /\ branch[Mine(c)].file = None

CreateFile(c) ==
    /\ call[c].step = "file" /\ Free(c)
    /\ branch' = [branch EXCEPT ![Mine(c)].file = Redacted(call[c].patch)]
    /\ writers' = writers \cup {<<c, Mine(c), cuts[Mine(c)]>>}
    /\ \/ Go(c, "pull") /\ UNCHANGED lost
       \/ Go(c, "failed") /\ lost' = lost \cup {c}
    /\ UNCHANGED <<base, cuts, pulls>>

(* One pull request is open from a branch to a base.                       *)
CreatePull(c) ==
    /\ call[c].step = "pull" /\ branch[Mine(c)].cut
    /\ ~\E p \in pulls : p.open /\ p.base = call[c].base
    /\ pulls' = pulls \cup {[by |-> c, base |-> call[c].base, cut |-> cuts[Mine(c)], open |-> TRUE]}
    /\ \/ Go(c, "done") /\ UNCHANGED lost
       \/ Go(c, "failed") /\ lost' = lost \cup {c}
    /\ UNCHANGED <<base, branch, cuts, writers>>

(* A request fails, for a reason of the host's or none; create_git_ref is  *)
(* not one of these.                                                       *)
Fail(c) ==
    /\ call[c].step \in {"base", "file", "pull"} /\ Go(c, "failed")
    /\ UNCHANGED <<base, branch, cuts, pulls, lost, writers>>

-----------------------------------------------------------------------------
(* Developers.  A deleted branch closes its pull requests.                 *)
Ended(ps) == (pulls \ ps) \cup {[p EXCEPT !.open = FALSE] : p \in ps}

Merge ==
    /\ \E p \in pulls : p.open /\ base' = [base EXCEPT ![p.base] = branch[BranchOf[p.base]].file] /\ pulls' = Ended({p})
    /\ UNCHANGED <<branch, cuts, call, lost, writers>>

Delete ==
    /\ \E r \in Branches :
         /\ branch[r].cut /\ cuts[r] < MaxDeletes
         /\ cuts' = [cuts EXCEPT ![r] = @ + 1] /\ branch' = [branch EXCEPT ![r] = [cut |-> FALSE, file |-> None]]
         /\ pulls' = Ended({p \in pulls : BranchOf[p.base] = r})
    /\ UNCHANGED <<base, call, lost, writers>>

Next ==
    \/ \E c \in Calls : CreatePr(c) \/ GetBranch(c) \/ CreateRef(c) \/ CreateFile(c) \/ CreatePull(c) \/ Fail(c)
    \/ Merge \/ Delete

Spec == Init /\ [][Next]_vars

-----------------------------------------------------------------------------
(* Of the calls that share a branch one writes it, until it is deleted.    *)
OneWriter ==
    \A v, w \in writers : v[2] = w[2] /\ v[3] = w[3] => v[1] = w[1]

(* A pull request that is open shows the patch of the call that opened it, *)
(* without its secrets, unless its branch was deleted and cut again in the *)
(* middle of that call.                                                    *)
PullShowsPatch ==
    \A p \in pulls :
        p.open /\ <<p.by, BranchOf[p.base], p.cut>> \in writers => branch[BranchOf[p.base]].file = Redacted(call[p.by].patch)

(* Whoever was given a pull request has one, and a call that failed left   *)
(* none unless an answer was lost.                                         *)
ToldOfPull ==
    \A c \in Calls :
        /\ call[c].step = "done" => \E p \in pulls : p.by = c
        /\ call[c].step \in {"failed", "refused"} /\ c \notin lost => \A p \in pulls : p.by # c

(* No base ever gets a secret.                                             *)
NoSecretMerged == \A b \in Bases : base[b] # None => ~base[b].secret

(* What the callers and the reviewers may rely on.                         *)
ReviewInv == OneWriter /\ PullShowsPatch /\ ToldOfPull /\ NoSecretMerged
=============================================================================

--------------------------- MODULE SecurityAutofix ---------------------------
(***************************************************************************)
(* The workflow that repairs what an analysis of a branch found: a script  *)
(* rewrites the known patterns in a copy of the analysed commit, the       *)
(* agents of singularity pass the first report along their event bus, and  *)
(* if a tracked file changed the whole copy, with the reports that were    *)
(* downloaded into it, is pushed to a branch of the analysis and offered   *)
(* as a pull request.  A newer analysis cancels a job, a failed job is run *)
(* again while the reports are kept; the copy is lost with the job.        *)
(***************************************************************************)
EXTENDS Integers, Sequences, FiniteSets

CONSTANTS
    Files,          \* Python files of the repository
    Begun,          \* what may be in them at first
    Names, Nested,  \* names of SARIF files, numbered as they sort; those that lie in a subdirectory
    Reports,        \* what is in one: [sound, rules]
    Outcomes,       \* what an analysis may leave
    Holds,          \* the patches whose simulated attacks are all blocked
    MaxAnalyses, MaxEdits, MaxJobs,
    None

Rewritten == {"yaml", "verify"} \* rules the script has a remedy for
Tree == [Files -> SUBSET (Rewritten \cup {"odd"})]
Kept == [Names -> Reports \cup {None}]
Nothing == [n \in Names |-> None]
Commits == [code : Tree, sarif : Kept]

AutofixAssumption ==
    /\ IsFiniteSet(Files) /\ None \notin Reports \cup Commits
    /\ Names \subseteq Nat /\ Nested \subseteq Names /\ Begun \subseteq Tree /\ Outcomes \subseteq Kept
    /\ Reports \subseteq [sound : BOOLEAN, rules : Seq(STRING)]
    /\ MaxAnalyses \in Nat /\ MaxEdits \in Nat /\ MaxJobs \in Nat

VARIABLES
    head,           \* the branch: the patterns in each file, "odd" in one that is no UTF-8, and the SARIF files
    analyses,       \* each analysis: the commit, and the SARIF files it left
    job,            \* the job under way
    bus,            \* its event bus: what is queued, and what was published
    pushed,         \* the branch of each analysis: None or what is on it
    pulls,          \* pull requests: [of, report, total, open]
    heard,          \* history: which agent of this job handled which topic
    edits, jobs

jobVars == <<job, bus, heard, jobs>>
vars == <<head, analyses, pushed, pulls, edits, jobVars>>

Idle == [step |-> "idle", of |-> 0, tree |-> None, left |-> {}, files |-> {}, report |-> {}, total |-> 0]
Quiet == [queue |-> <<>>, history |-> <<>>]

Job ==
    [step : {"idle", "read", "fix", "bus", "pull"}, of : Nat, tree : Tree \cup {None}, left : SUBSET (Nat \X Nat),
     files : SUBSET Files, report : SUBSET (Files \X Rewritten), total : Nat]

TypeOK ==
    /\ head \in Commits /\ analyses \in Seq([commit : Commits, sarif : Kept]) /\ job \in Job
    /\ pushed \in Seq(Commits \cup {None}) /\ Len(pushed) = Len(analyses)
    /\ pulls \subseteq [of : DOMAIN analyses, report : SUBSET (Files \X Rewritten), total : Nat, open : BOOLEAN]
    /\ edits \in 0..MaxEdits /\ jobs \in 0..MaxJobs

Init ==
    /\ head \in [code : Begun, sarif : {Nothing}] /\ analyses = <<>> /\ pushed = <<>> /\ pulls = {}
    /\ job = Idle /\ bus = Quiet /\ heard = {} /\ edits = 0 /\ jobs = 0

-----------------------------------------------------------------------------
(* An analysis of the branch as it is now fails: it found something.       *)
Analyse ==
    /\ Len(analyses) < MaxAnalyses
    /\ \E s \in Outcomes : analyses' = Append(analyses, [commit |-> head, sarif |-> s])
    /\ pushed' = Append(pushed, None)
    /\ UNCHANGED <<head, pulls, edits, jobVars>>

(* A job for an analysis, its first or again; a job under way is cancelled.*)
Begin ==
    /\ jobs < MaxJobs /\ jobs' = jobs + 1
    /\ \E k \in DOMAIN analyses :
         job' = [Idle EXCEPT !.step = "read", !.of = k, !.tree = analyses[k].commit.code]
    /\ bus' = Quiet /\ heard' = {}
    /\ UNCHANGED <<head, analyses, pushed, pulls, edits>>

(* The SARIF directory of a job: what its analysis left, over what the     *)
(* commit has there already.                                               *)
DirectoryKeeps(k) == \* variant: what is there stays
    [n \in Names |-> IF analyses[k].commit.sarif[n] # None THEN analyses[k].commit.sarif[n] ELSE analyses[k].sarif[n]]
Directory(k) ==
    [n \in Names |-> IF analyses[k].sarif[n] # None THEN analyses[k].sarif[n] ELSE analyses[k].commit.sarif[n]]

Sarif == Directory(job.of)
Present == {n \in Names : Sarif[n] # None}
Fail == job' = Idle /\ bus' = Quiet /\ heard' = {}

(* The findings of the files in the directory itself, each at its place,   *)
(* and the one that comes before the others that are left.                 *)
Findings == UNION {{<<n, j>> : j \in DOMAIN Sarif[n].rules} : n \in Present \ Nested}
Rule(e) == Sarif[e[1]].rules[e[2]]
First(e) == e \in job.left /\ \A o \in job.left : e[1] < o[1] \/ (e[1] = o[1] /\ e[2] <= o[2])

(* An analysis that left nothing to download fails the job, and so does a  *)
(* file that does not parse.                                               *)
Read ==
    /\ job.step = "read"
    /\ \/ /\ analyses[job.of].sarif = Nothing \/ \E n \in Present \ Nested : ~Sarif[n].sound
          /\ Fail
       \/ /\ \A n \in Present \ Nested : Sarif[n].sound
          /\ job' = [job EXCEPT !.step = "fix", !.left = Findings, !.files = Files]
          /\ UNCHANGED <<bus, heard>>
    /\ UNCHANGED <<head, analyses, pushed, pulls, edits, jobs>>

(* A finding is looked for in every file, in the order of the directory.   *)
Replaced(f, r) ==
    [job EXCEPT !.files = @ \ {f}, !.tree[f] = @ \ {r}, !.total = @ + 1, !.report = @ \cup {<<f, r>>}]
FixCountsFiles(f, r) == job' = Replaced(f, r) \* variant: a file is counted whether or not the pattern is in it
Fix(f, r) == job' = IF r \in job.tree[f] THEN Replaced(f, r) ELSE [job EXCEPT !.files = @ \ {f}]

FixFile ==
    /\ job.step = "fix"
    /\ \E e \in job.left, f \in job.files :
         /\ First(e) /\ Rule(e) \in Rewritten
         /\ IF "odd" \in job.tree[f] THEN Fail ELSE Fix(f, Rule(e)) /\ UNCHANGED <<bus, heard>>
    /\ UNCHANGED <<head, analyses, pushed, pulls, edits, jobs>>

NextFinding ==
    /\ job.step = "fix"
    /\ \E e \in job.left :
         /\ First(e) /\ (job.files = {} \/ Rule(e) \notin Rewritten)
         /\ job' = [job EXCEPT !.left = @ \ {e}, !.files = Files]
    /\ UNCHANGED <<head, analyses, pushed, pulls, edits, bus, heard, jobs>>

(* The report is written, and the first SARIF file, wherever it lies, goes *)
(* to the bus; where there is none the job fails.                          *)
Leading == CHOOSE n \in Present : \A m \in Present : n <= m

Publish ==
    /\ job.step = "fix" /\ job.left = {}
    /\ IF Present = {} THEN Fail
       ELSE /\ job' = [job EXCEPT !.step = "bus"] /\ UNCHANGED heard
            /\ bus' = [queue |-> <<[topic |-> "repo.pushed", body |-> Sarif[Leading]]>>, history |-> <<"repo.pushed">>]
    /\ UNCHANGED <<head, analyses, pushed, pulls, edits, jobs>>

-----------------------------------------------------------------------------
Agents == {"scan", "reason", "fix", "attack", "verify", "defend", "prbot", "learn"}
Subscription(a) ==
    IF a = "scan" THEN "repo.pushed" ELSE IF a = "reason" THEN "sarif.ready"
    ELSE IF a = "fix" THEN "findings.enriched" ELSE IF a = "attack" THEN "patch.generated"
    ELSE IF a = "verify" THEN "attack.results" ELSE "verify.done"

(* What an agent publishes on what it is given.  An event without a        *)
(* subscriber is taken from the queue and no more.                         *)
Event(topic, body) == <<[topic |-> topic, body |-> body]>>
Published(a, body) ==
    IF a = "scan" THEN Event("sarif.ready", body) ELSE IF a = "reason" THEN Event("findings.enriched", body.rules)
    ELSE IF a = "fix" THEN Event("patch.generated", body) ELSE IF a = "attack" THEN Event("attack.results", body \in Holds)
    ELSE IF a = "verify" THEN Event("verify.done", body)
    ELSE IF a = "defend" THEN Event(IF body THEN "deploy.policy" ELSE "patch.revise", None) ELSE <<>>

(* A report that is blank or does not parse raises, and the job ends.      *)
Raises(event) == event.topic = "sarif.ready" /\ ~event.body.sound

SubscribersFirst(topic) == \* variant: the first agent that subscribed is the only one
    LET all == {a \in Agents : Subscription(a) = topic} IN IF all = {} THEN {} ELSE {CHOOSE a \in all : TRUE}
Subscribers(topic) == {a \in Agents : Subscription(a) = topic}

(* Of the agents that hear an event, at most one publishes.                *)
Answer(event) ==
    LET speaks == {a \in Subscribers(event.topic) : Published(a, event.body) # <<>>}
    IN IF speaks = {} THEN <<>> ELSE Published(CHOOSE a \in speaks : TRUE, event.body)

Dispatch ==
    /\ job.step = "bus" /\ bus.queue # <<>>
    /\ LET event == Head(bus.queue)
           new == Answer(event)
       IN IF Raises(event) THEN Fail
          ELSE /\ bus' = [queue |-> Tail(bus.queue) \o new, history |-> bus.history \o [i \in DOMAIN new |-> new[i].topic]]
               /\ heard' = heard \cup {<<a, event.topic>> : a \in Subscribers(event.topic)}
               /\ UNCHANGED job
    /\ UNCHANGED <<head, analyses, pushed, pulls, edits, jobs>>

(* If a tracked file differs, the whole copy is pushed, over whatever is   *)
(* on the branch.  Of the SARIF files that an earlier job had pushed, the  *)
(* text and what came with them - archives, a report - may differ too.     *)
Commit ==
    /\ job.step = "bus" /\ bus.queue = <<>>
    /\ LET old == analyses[job.of].commit
           differs == job.tree # old.code \/ \E n \in Names : old.sarif[n] \notin {None, Sarif[n]}
       IN \/ ~differs /\ Fail /\ UNCHANGED pushed
          \/ /\ differs \/ old.sarif # Nothing
             /\ pushed' = [pushed EXCEPT ![job.of] = [code |-> job.tree, sarif |-> Sarif]]
             /\ job' = [job EXCEPT !.step = "pull"] /\ UNCHANGED <<bus, heard>>
    /\ UNCHANGED <<head, analyses, pulls, edits, jobs>>

(* A branch has one open pull request: a second is refused.                *)
Pull ==
    /\ job.step = "pull"
    /\ pulls' = IF \E p \in pulls : p.of = job.of /\ p.open THEN pulls
                ELSE pulls \cup {[of |-> job.of, report |-> job.report, total |-> job.total, open |-> TRUE]}
    /\ Fail
    /\ UNCHANGED <<head, analyses, pushed, edits, jobs>>

(* Developers: a pattern or an odd byte is written or removed, the SARIF   *)
(* files and what came with them are removed, a pull request is merged, a  *)
(* job is cancelled.                                                       *)
Edit ==
    /\ edits < MaxEdits /\ edits' = edits + 1
    /\ \/ \E f \in Files, r \in Rewritten \cup {"odd"} :
            head' = [head EXCEPT !.code[f] = IF r \in @ THEN @ \ {r} ELSE @ \cup {r}]
       \/ head.sarif # Nothing /\ head' = [head EXCEPT !.sarif = Nothing]
    /\ UNCHANGED <<analyses, pushed, pulls, jobVars>>

(* What the pull request changes is taken over; of a SARIF file that the   *)
(* branch has changed as well, either side.                                *)
Merge ==
    /\ \E p \in pulls :
         LET old == analyses[p.of].commit
             new == pushed[p.of]
             touched == {n \in Names : new.sarif[n] # old.sarif[n]}
         IN /\ p.open /\ pulls' = (pulls \ {p}) \cup {[p EXCEPT !.open = FALSE]}
            /\ \E taken \in SUBSET touched :
                 /\ {n \in touched : head.sarif[n] = old.sarif[n]} \subseteq taken
                 /\ head' = [code |-> [f \in Files |-> head.code[f] \ (old.code[f] \ new.code[f])],
                             sarif |-> [n \in Names |-> IF n \in taken THEN new.sarif[n] ELSE head.sarif[n]]]
    /\ UNCHANGED <<analyses, pushed, edits, jobVars>>

Cancel ==
    /\ job.step # "idle" /\ Fail
    /\ UNCHANGED <<head, analyses, pushed, pulls, edits, jobs>>

Next ==
    \/ Analyse \/ Begin \/ Read \/ FixFile \/ NextFinding \/ Publish \/ Dispatch \/ Commit \/ Pull
    \/ Edit \/ Merge \/ Cancel

Spec == Init /\ [][Next]_vars

-----------------------------------------------------------------------------
Removed(k) == {e \in Files \X Rewritten : e[2] \in analyses[k].commit.code[e[1]] \ pushed[k].code[e[1]]}

(* The rules that were found: by the analysis, or by an earlier one whose  *)
(* file is in the commit and was not overwritten.                          *)
Given(k, n) == IF analyses[k].sarif[n] # None THEN analyses[k].sarif[n] ELSE analyses[k].commit.sarif[n]
Found(k) == {r \in Rewritten : \E n \in Names \ Nested :
                Given(k, n) # None /\ \E j \in DOMAIN Given(k, n).rules : Given(k, n).rules[j] = r}

(* What was pushed is the analysed commit without the patterns of the      *)
(* rules that were found, in every file, with the SARIF files of the job   *)
(* and without any other change, however often the job was cancelled and   *)
(* run again; without a change of the code there is a push only where the  *)
(* commit has SARIF files already.                                         *)
PushedIsRemedy ==
    \A k \in DOMAIN pushed : pushed[k] # None =>
        /\ \A f \in Files : pushed[k].code[f] = analyses[k].commit.code[f] \ Found(k)
        /\ \A n \in Names : pushed[k].sarif[n] = Given(k, n)
        /\ pushed[k].code = analyses[k].commit.code => analyses[k].commit.sarif # Nothing

Sourced(sarif) ==
    \A n \in Names : sarif[n] # None => \E p \in pulls : ~p.open /\ analyses[p.of].sarif[n] = sarif[n]

(* A SARIF file on the branch, or in a commit that was analysed, is of an  *)
(* analysis whose pull request was merged.                                 *)
ReportsSourced == Sourced(head.sarif) /\ \A k \in DOMAIN analyses : Sourced(analyses[k].commit.sarif)

(* A pull request says what is on its branch: each replaced pattern, once, *)
(* also when several findings or several jobs met it.                      *)
PullTells ==
    \A p \in pulls : pushed[p.of] # None /\ p.report = Removed(p.of) /\ p.total = Cardinality(Removed(p.of))

Verdicts == {"deploy.policy", "patch.revise"}

(* Nothing is pushed before the agents are done: every agent has heard its *)
(* topic, and there is one verdict.                                        *)
AgentsDone ==
    job.step = "pull" =>
        /\ heard = {<<a, Subscription(a)>> : a \in Agents}
        /\ Cardinality({i \in DOMAIN bus.history : bus.history[i] \in Verdicts}) = 1
        /\ bus.history[Len(bus.history)] \in Verdicts

(* What a reviewer of the pull requests may rely on.                       *)
AutofixInv == PushedIsRemedy /\ ReportsSourced /\ PullTells /\ AgentsDone
=============================================================================

----------------------------- MODULE Federation -----------------------------
(***************************************************************************)
(* federation keeps the nodes offered by tenants in a table, each until    *)
(* its lease ends; scheduler reads the list and picks a node for a task    *)
(* whose token federated_loop signed.  A registration upserts the row,     *)
(* commits, appends to the audit log, and then fails on building its       *)
(* answer: NodeRecord is given "attestation" twice, which is a TypeError.  *)
(***************************************************************************)
EXTENDS Integers, FiniteSets, Sequences

CONSTANTS
    Offers,         \* what may be registered: node, tenant, region, capacity, ready, fast
    Tasks,          \* what may be assigned: tenant, region, needs, token
    Requests,       \* registrations under way at a time
    Order,          \* of each node: its place in the order of strings
    TTL,            \* TOKEN_TTL_SECONDS
    Attempts,       \* STARTUP_DB_MAX_ATTEMPTS
    MaxTime,        \* bound: seconds that pass
    MaxEntries,     \* bound: registrations committed
    MaxTasks,       \* bound: tasks sent
    None

Nodes == {o.node : o \in Offers}
Row == [offer : Offers, expires : 0..(MaxTime + TTL)]

FederationAssumption ==
    /\ TTL \in Nat /\ Attempts \in Nat \ {0} /\ MaxTime \in Nat /\ MaxEntries \in Nat /\ MaxTasks \in Nat
    /\ Order \in [Nodes -> Nat] /\ \A n, m \in Nodes : Order[n] = Order[m] => n = m
    /\ IsFiniteSet(Requests) /\ IsFiniteSet(Offers) /\ None \notin Row \cup Nodes
    /\ \A o \in Offers : o.capacity \in Nat

VARIABLES
    up,             \* the service: "starting", "up" or "down"
    attempt,        \* of the startup to reach the database
    now,
    rows,           \* federation_nodes: by node, the offer and its expiry
    audit,          \* the audit log: a row for each entry
    request,        \* of each registration under way: its step, and its row
    task,           \* the last task assigned: which, to which node
    asked,          \* tasks assigned or refused
    commits,        \* registrations committed
    missed,         \* history: commits with no entry in the log
    met             \* history: two registrations of one node were under way

vars == <<up, attempt, now, rows, audit, request, task, asked, commits, missed, met>>

NoRequest == [step |-> "none", row |-> None]
NoTask == [of |-> None, step |-> "none", node |-> None]
Live(table, time) == {n \in DOMAIN table : table[n] # None /\ table[n].expires >= time}

TypeOK ==
    /\ up \in {"starting", "up", "down"} /\ attempt \in 0..Attempts /\ now \in 0..MaxTime
    /\ rows \in [Nodes -> Row \cup {None}]
    /\ audit \in Seq(Row) /\ commits \in 0..MaxEntries /\ Len(audit) <= commits
    /\ request \in [Requests -> [step : {"none", "commit", "log", "answer"}, row : Row \cup {None}]]
    /\ task.of \in Tasks \cup {None} /\ task.node \in Nodes \cup {None} /\ asked \in 0..MaxTasks
    /\ task.step \in {"none", "done", "refused", "unavailable"}
    /\ missed \in Nat /\ met \subseteq Nodes

Init ==
    /\ up = "starting" /\ attempt = 1 /\ now = 0
    /\ rows = [n \in Nodes |-> None] /\ audit = <<>>
    /\ request = [r \in Requests |-> NoRequest] /\ task = NoTask
    /\ commits = 0 /\ missed = 0 /\ met = {} /\ asked = 0

-----------------------------------------------------------------------------
(* startup: the schema is created, with a number of attempts; the process  *)
(* gives up after the last, and is started again.                          *)
Connect ==
    /\ up = "starting"
    /\ \/ up' = "up" /\ attempt' = 0
       \/ IF attempt < Attempts THEN up' = up /\ attempt' = attempt + 1 ELSE up' = "down" /\ attempt' = 0
    /\ UNCHANGED <<now, rows, audit, request, task, asked, commits, missed, met>>

Restart ==
    /\ up = "down" /\ up' = "starting" /\ attempt' = 1
    /\ UNCHANGED <<now, rows, audit, request, task, asked, commits, missed, met>>

Unlogged == Cardinality({r \in Requests : request[r].step = "log"})

Crash ==
    /\ up = "up" /\ up' = "down"
    /\ request' = [r \in Requests |-> NoRequest]
    /\ missed' = missed + Unlogged
    /\ UNCHANGED <<attempt, now, rows, audit, task, asked, commits, met>>

Tick ==
    /\ now < MaxTime /\ now' = now + 1
    /\ UNCHANGED <<up, attempt, rows, audit, request, task, asked, commits, missed, met>>

-----------------------------------------------------------------------------
(* POST /register, of a node whose consent is given: what is stored, the    *)
(* end of the lease with it, is fixed before the database is asked.        *)
Goto(r, step, row) == request' = [request EXCEPT ![r] = [step |-> step, row |-> row]]

Uncommitted == Cardinality({q \in Requests : request[q].step = "commit"})

Register(r, o) ==
    /\ up = "up" /\ request[r].step = "none" /\ commits + Uncommitted < MaxEntries
    /\ Goto(r, "commit", [offer |-> o, expires |-> now + TTL])
    /\ met' = met \cup {n \in {o.node} : \E q \in Requests : request[q].step # "none" /\ request[q].row.offer.node = n}
    /\ UNCHANGED <<up, attempt, now, rows, audit, task, asked, commits, missed>>

CommitLate(r) == \* variant: the lease begins when the row is written
    LET row == request[r].row IN
    /\ request[r].step = "commit"
    /\ rows' = [rows EXCEPT ![row.offer.node] = [row EXCEPT !.expires = now + TTL]]
    /\ commits' = commits + 1 /\ Goto(r, "log", row)
    /\ UNCHANGED <<up, attempt, now, audit, task, asked, missed, met>>

CommitKeeping(r) == \* variant: a row already there is kept
    LET row == request[r].row IN
    /\ request[r].step = "commit"
    /\ rows' = IF rows[row.offer.node] # None THEN rows ELSE [rows EXCEPT ![row.offer.node] = row]
    /\ commits' = commits + 1 /\ Goto(r, "log", row)
    /\ UNCHANGED <<up, attempt, now, audit, task, asked, missed, met>>

Commit(r) ==
    LET row == request[r].row IN
    /\ request[r].step = "commit"
    /\ rows' = [rows EXCEPT ![row.offer.node] = row]
    /\ commits' = commits + 1 /\ Goto(r, "log", row)
    /\ UNCHANGED <<up, attempt, now, audit, task, asked, missed, met>>

CommitFails(r) ==
    /\ request[r].step = "commit"
    /\ Goto(r, "none", None)
    /\ UNCHANGED <<up, attempt, now, rows, audit, task, asked, commits, missed, met>>

(* The entry is appended; the file system may refuse it.                   *)
Log(r) ==
    /\ request[r].step = "log"
    /\ \/ /\ audit' = Append(audit, request[r].row) /\ missed' = missed
          /\ Goto(r, "answer", request[r].row)
       \/ /\ audit' = audit /\ missed' = missed + 1 /\ Goto(r, "none", None)
    /\ UNCHANGED <<up, attempt, now, rows, task, asked, commits, met>>

(* Building the answer is a TypeError; the registration stays as it is.    *)
Answer(r) ==
    /\ request[r].step = "answer"
    /\ Goto(r, "none", None)
    /\ UNCHANGED <<up, attempt, now, rows, audit, task, asked, commits, missed, met>>

-----------------------------------------------------------------------------
(* POST /assign.  The token must be signed and name the tenant and the     *)
(* region; it is bound to no task.  The list is read in one query, and     *)
(* capacity is compared, never taken.                                      *)
Accepts(t) == t.token.signed /\ t.token.tenant = t.tenant /\ t.token.region = t.region

FitsAnyTenant(o, t) == o.capacity >= t.needs /\ o.fast /\ o.ready \* variant: the tenant is not compared

Fits(o, t) == o.tenant = t.tenant /\ o.capacity >= t.needs /\ o.fast /\ o.ready

Candidates(t) == {n \in Live(rows, now) : Fits(rows[n].offer, t)}

(* The order of score: the region first, then the capacity, then the name. *)
Before(a, b, t) ==
    LET key(n) == <<IF rows[n].offer.region = t.region THEN 0 ELSE 1, -rows[n].offer.capacity, Order[n]>>
    IN \E i \in 1..3 : key(a)[i] < key(b)[i] /\ \A j \in 1..(i - 1) : key(a)[j] = key(b)[j]

Selected(t) ==
    IF Candidates(t) = {} THEN None
    ELSE CHOOSE n \in Candidates(t) : \A m \in Candidates(t) \ {n} : Before(n, m, t)

Assign(t) ==
    /\ asked < MaxTasks /\ asked' = asked + 1
    /\ \/ ~Accepts(t) /\ task' = [NoTask EXCEPT !.of = t, !.step = "refused"]
       \/ Accepts(t) /\ up = "up" /\ task' = [of |-> t, step |-> "done", node |-> Selected(t)]
       \/ Accepts(t) /\ task' = [NoTask EXCEPT !.of = t, !.step = "unavailable"]
    /\ UNCHANGED <<up, attempt, now, rows, audit, request, commits, missed, met>>

Next ==
    \/ Connect \/ Restart \/ Crash \/ Tick
    \/ \E r \in Requests :
         \/ \E o \in Offers : Register(r, o)
         \/ Commit(r) \/ CommitFails(r) \/ Log(r) \/ Answer(r)
    \/ \E t \in Tasks : Assign(t)

Spec == Init /\ [][Next]_vars

-----------------------------------------------------------------------------
(* Every commit has its entry in the audit log, is about to have it, or is *)
(* counted as missed; and the last entry of a node tells its row and the   *)
(* end of its lease, unless an entry was missed or two registrations of    *)
(* the node were under way together, which may log in another order than   *)
(* they committed.                                                         *)
LastEntry(n) ==
    LET own == {i \in DOMAIN audit : audit[i].offer.node = n}
    IN IF own = {} THEN None ELSE audit[CHOOSE i \in own : \A j \in own : j <= i]

LogExplainsRows ==
    /\ Len(audit) + missed + Unlogged = commits
    /\ \A n \in Nodes \ met :
         (missed = 0 /\ \A r \in Requests : ~(request[r].step = "log" /\ request[r].row.offer.node = n)) =>
           LastEntry(n) = rows[n]

(* A node is given to a task of the tenant that had it when the list was   *)
(* read, with its lease, capacity and readiness of then; in the task's     *)
(* region if one there would do.  It may belong to another tenant, or be   *)
(* out of its lease, by the time of the answer.                            *)
Good(t) ==
    {n \in Nodes : /\ rows[n] # None /\ rows[n].expires >= now
                   /\ rows[n].offer.tenant = t.tenant /\ rows[n].offer.ready /\ rows[n].offer.fast
                   /\ rows[n].offer.capacity >= t.needs}

AssignedOwnNode ==
    [][asked' # asked /\ task'.node # None =>
         LET t == task'.of
         IN /\ t.token.signed /\ t.token.tenant = t.tenant
            /\ task'.node \in Good(t)
            /\ \A n \in Good(t) : rows[n].offer.region = t.region => rows[task'.node].offer.region = t.region]_vars
=============================================================================

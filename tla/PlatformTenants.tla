--------------------------- MODULE PlatformTenants ---------------------------
(***************************************************************************)
(* The services behind the gateway that keep their tables in memory:       *)
(* auth-service its users, billing-service the plans, platform-core the    *)
(* deployments it counts against a plan.  A handler awaits in the middle,  *)
(* others run meanwhile; what it throws after an await ends its process,   *)
(* and with the process its table.  Each registration makes a tenant of    *)
(* its own.                                                                *)
(***************************************************************************)
EXTENDS Integers, Sequences, FiniteSets, FiniteSetsExt

CONSTANTS
    People,         \* each registers once, as a tenant of its own
    Email,          \* the address each registers with
    MaxRequests,    \* deploy requests, numbered as they come
    FreeLimit, ProLimit,
    MaxStops,
    None

TenantsAssumption ==
    /\ None \notin People /\ DOMAIN Email = People /\ MaxRequests \in Nat /\ MaxStops \in Nat
    /\ FreeLimit \in Nat \ {0} /\ ProLimit \in Nat /\ FreeLimit <= ProLimit

Requests == 1..MaxRequests
Emails == {Email[p] : p \in People}
Services == {"auth", "billing", "core"}

VARIABLES
    up,             \* the services that run
    users,          \* auth-service: who is registered with an address, or None
    person,         \* what each person is at: "new", "hash", "told", "refused", "in"
    pro,            \* billing-service: tenants with the plan PRO
    deployed,       \* platform-core: the tenant of each deployment it knows, request by request
    request,        \* deploy requests: [step, by, limit, plain]
    pooled,         \* platform-core has a database
    events, rows,   \* the topic and the table: requests
    raced,          \* history: addresses that were looked up while another registration hashed
    paid,           \* history: whose checkout was told of
    crossed,        \* history: tenants with two requests past the count at once
    stops           \* history: the services that ended, in order

authVars == <<users, person, raced>>
billingVars == <<pro, paid>>
coreVars == <<deployed, request, events, rows, crossed>>
vars == <<up, pooled, stops, authVars, billingVars, coreVars>>

Request ==
    [step : {"idle", "plan", "count", "send", "insert", "push", "queued", "refused", "lost"},
     by : People \cup {None}, limit : Nat, plain : BOOLEAN]

TypeOK ==
    /\ up \subseteq Services /\ users \in [Emails -> People \cup {None}] /\ pro \subseteq People
    /\ person \in [People -> {"new", "hash", "told", "refused", "in"}]
    /\ deployed \subseteq Requests /\ events \subseteq Requests /\ rows \subseteq Requests
    /\ request \in [Requests -> Request]
    /\ crossed \subseteq People /\ raced \subseteq Emails /\ paid \subseteq People /\ pooled \in BOOLEAN
    /\ stops \in Seq(Services) /\ Len(stops) <= MaxStops

Init ==
    /\ up = Services /\ users = [e \in Emails |-> None] /\ person = [p \in People |-> "new"]
    /\ pro = {} /\ deployed = {} /\ pooled \in BOOLEAN
    /\ request = [r \in Requests |-> [step |-> "idle", by |-> None, limit |-> 0, plain |-> TRUE]]
    /\ events = {} /\ rows = {} /\ raced = {} /\ crossed = {} /\ stops = <<>>
    /\ paid = {}

Person(p, step) == person' = [person EXCEPT ![p] = step]

-----------------------------------------------------------------------------
(* The address is looked up, the password hashed, the user stored.         *)
RegisterAnyway(p) == \* variant: the address is not looked up
    /\ "auth" \in up /\ person[p] = "new" /\ Person(p, "hash")
    /\ raced' = IF \E q \in People : person[q] = "hash" /\ Email[q] = Email[p] THEN raced \cup {Email[p]} ELSE raced
    /\ UNCHANGED <<up, users, pooled, stops, billingVars, coreVars>>

Register(p) ==
    /\ "auth" \in up /\ person[p] = "new"
    /\ IF users[Email[p]] # None THEN Person(p, "refused") /\ UNCHANGED raced
       ELSE /\ Person(p, "hash")
            /\ raced' = IF \E q \in People : person[q] = "hash" /\ Email[q] = Email[p] THEN raced \cup {Email[p]} ELSE raced
    /\ UNCHANGED <<up, users, pooled, stops, billingVars, coreVars>>

Store(p) == users' = [users EXCEPT ![Email[p]] = p] /\ Person(p, "told")

Registered(p) ==
    /\ "auth" \in up /\ person[p] = "hash" /\ Store(p)
    /\ UNCHANGED <<up, raced, pooled, stops, billingVars, coreVars>>

(* The user is read, and the password verified against what was read: each *)
(* has a password of their own, and nothing is looked at again.  The token *)
(* lives on without the service.                                           *)
Login(p) ==
    /\ "auth" \in up /\ person[p] = "told" /\ users[Email[p]] = p /\ Person(p, "in")
    /\ UNCHANGED <<up, users, raced, pooled, stops, billingVars, coreVars>>

-----------------------------------------------------------------------------
(* Stripe tells of a completed checkout until it is answered, and          *)
(* sometimes again.                                                        *)
Webhook(p) ==
    /\ "billing" \in up /\ person[p] = "in" /\ pro' = pro \cup {p} /\ paid' = paid \cup {p}
    /\ UNCHANGED <<up, pooled, stops, authVars, coreVars>>

-----------------------------------------------------------------------------
(* Requests reach platform-core through the gateway, which takes user and  *)
(* tenant from the token.  A repository from GitHub is neither counted nor *)
(* kept.                                                                   *)
Step(r, step) == request' = [request EXCEPT ![r].step = step]
Deployments(p) == Cardinality({r \in deployed : request[r].by = p})
Between(p) == {r \in Requests : request[r].by = p /\ request[r].plain /\ request[r].step \in {"send", "insert", "push"}}

Deploy(r) ==
    /\ "core" \in up /\ request[r].step = "idle" /\ \A o \in 1..(r - 1) : request[o].step # "idle"
    /\ \E p \in People, plain \in BOOLEAN :
         /\ person[p] = "in"
         /\ request' = [request EXCEPT ![r] = [step |-> IF plain THEN "plan" ELSE "send", by |-> p, limit |-> 0, plain |-> plain]]
    /\ UNCHANGED <<up, pooled, stops, deployed, events, rows, crossed, authVars, billingVars>>

Plan(r) ==
    /\ {"core", "billing"} \subseteq up /\ request[r].step = "plan"
    /\ request' = [request EXCEPT ![r].step = "count", ![r].limit = IF request[r].by \in pro THEN ProLimit ELSE FreeLimit]
    /\ UNCHANGED <<up, pooled, stops, deployed, events, rows, crossed, authVars, billingVars>>

MayDeploy(r) == Deployments(request[r].by) < request[r].limit

Count(r) ==
    /\ "core" \in up /\ request[r].step = "count"
    /\ IF MayDeploy(r)
       THEN Step(r, "send") /\ crossed' = IF Between(request[r].by) # {} THEN crossed \cup {request[r].by} ELSE crossed
       ELSE Step(r, "refused") /\ UNCHANGED crossed
    /\ UNCHANGED <<up, pooled, stops, deployed, events, rows, authVars, billingVars>>

Send(r) ==
    /\ "core" \in up /\ request[r].step = "send" /\ events' = events \cup {r}
    /\ Step(r, IF ~request[r].plain THEN "queued" ELSE IF pooled THEN "insert" ELSE "push")
    /\ UNCHANGED <<up, pooled, stops, deployed, rows, crossed, authVars, billingVars>>

Insert(r) ==
    /\ "core" \in up /\ request[r].step = "insert" /\ rows' = rows \cup {r} /\ Step(r, "push")
    /\ UNCHANGED <<up, pooled, stops, deployed, events, crossed, authVars, billingVars>>

Push(r) ==
    /\ "core" \in up /\ request[r].step = "push" /\ deployed' = deployed \cup {r} /\ Step(r, "queued")
    /\ UNCHANGED <<up, pooled, stops, events, rows, crossed, authVars, billingVars>>

-----------------------------------------------------------------------------
(* A service ends: it is stopped, or a checkout at Stripe, the plan, the   *)
(* broker or the database fails after an await.  Its table and its open    *)
(* requests go with it; the tokens stay.                                   *)
Stop(s) ==
    /\ s \in up /\ Len(stops) < MaxStops /\ up' = up \ {s} /\ stops' = Append(stops, s)
    /\ users' = IF s = "auth" THEN [e \in Emails |-> None] ELSE users
    /\ person' = IF s = "auth" THEN [p \in People |-> IF person[p] = "hash" THEN "refused" ELSE person[p]] ELSE person
    /\ pro' = IF s = "billing" THEN {} ELSE pro
    /\ deployed' = IF s = "core" THEN {} ELSE deployed
    /\ request' = IF s = "core"
                  THEN [r \in Requests |-> IF request[r].step \in {"plan", "count", "send", "insert", "push"}
                                           THEN [request[r] EXCEPT !.step = "lost"] ELSE request[r]]
                  ELSE request
    /\ UNCHANGED <<pooled, raced, paid, events, rows, crossed>>

Start(s) ==
    /\ s \in Services \ up /\ up' = up \cup {s}
    /\ UNCHANGED <<pooled, stops, authVars, billingVars, coreVars>>

Next ==
    \/ \E p \in People : Register(p) \/ Registered(p) \/ Login(p) \/ Webhook(p)
    \/ \E r \in Requests : Deploy(r) \/ Plan(r) \/ Count(r) \/ Send(r) \/ Insert(r) \/ Push(r)
    \/ \E s \in Services : Stop(s) \/ Start(s)

Spec == Init /\ [][Next]_vars

-----------------------------------------------------------------------------
Stops(s) == Cardinality({i \in DOMAIN stops : stops[i] = s})

(* Whoever was told of a registration is the user of that address, unless  *)
(* two registrations for it ran together or the service lost its table.    *)
ToldIsUser ==
    \A p \in People :
        person[p] \in {"told", "in"} => users[Email[p]] = p \/ Email[p] \in raced \/ Stops("auth") > 0

(* Also after such a meeting the address has a user, one of those told;    *)
(* only such a meeting, or a lost table, has two people told of one        *)
(* address.                                                                *)
OneOfTold ==
    \A e \in Emails :
        LET told == {p \in People : Email[p] = e /\ person[p] \in {"told", "in"}}
        IN /\ Stops("auth") = 0 /\ told # {} => users[e] \in told
           /\ Cardinality(told) > 1 => e \in raced \/ Stops("auth") > 0

(* The deployments of a tenant exceed its plan only when two of its        *)
(* requests were past the count together; and the deployments ever queued  *)
(* exceed it once more for every time platform-core forgot them.           *)
Bought(p) == IF p \in paid THEN ProLimit ELSE FreeLimit
WithinPlan ==
    \A p \in People \ crossed :
        /\ Deployments(p) <= Bought(p)
        /\ Cardinality({r \in Requests : request[r].by = p /\ request[r].plain /\ request[r].step = "queued"})
             <= Bought(p) * (1 + Stops("core"))

(* A plan is paid for, and one that was told of is kept until              *)
(* billing-service ends: from then on the tenant is back at FREE, and      *)
(* nobody tells of the checkout again unless by accident.                  *)
PlanPaid ==
    /\ pro \subseteq paid
    /\ Stops("billing") = 0 => pro = paid

(* Whoever is told that a deployment is queued has its event and its row;  *)
(* an event without its answer is of a request that is under way or was    *)
(* lost with the process, and a row never lacks its event.                 *)
QueuedIsSent ==
    \A r \in Requests :
        /\ request[r].step = "queued" => r \in events /\ (pooled /\ request[r].plain => r \in rows)
        /\ r \in events => request[r].step \in {"insert", "push", "queued", "lost"}
        /\ r \in rows => r \in events /\ pooled
        /\ r \in deployed => request[r].step = "queued"

(* What the tenants may rely on.                                           *)
TenantsInv == ToldIsUser /\ OneOfTold /\ WithinPlan /\ PlanPaid /\ QueuedIsSent
=============================================================================

------------------------------ MODULE AgentKeys ------------------------------
(***************************************************************************)
(* Keys and the names made of them.  Agents (identity: did, keystore)      *)
(* keep a signing key in a file: the first to find none makes one and      *)
(* writes it, with no exclusion, and a keystore renews it in memory when   *)
(* it is old.  Tenants (tenant-service) are given a key once, in the       *)
(* answer that creates them; the database keeps its hash, under a name     *)
(* that is unique.  Keys are numbered in the order they are made.          *)
(***************************************************************************)
EXTENDS Integers, FiniteSets

CONSTANTS
    Agents, Clients, Names,
    MaxKeys, MaxAttempts,
    None, Torn

KeysAssumption ==
    /\ MaxKeys \in Nat /\ MaxAttempts \in Nat
    /\ {None, Torn} \cap (1..MaxKeys) = {} /\ None # Torn

VARIABLES
    file,           \* the key file: None, Torn or a key
    agent,          \* each agent: where its start is, its key, and whether it renewed it
    tenants,        \* the key whose hash each tenant's row holds, or None
    client,         \* each client: the name it asked for, where the request is, the key made for it
    held,           \* keys each client was answered with, by name
    keys, attempts,
    raced, cut      \* history: two agents wrote the file; tenants whose creation was not answered

agentVars == <<file, agent, raced>>
tenantVars == <<tenants, client, held, attempts, cut>>
vars == <<agentVars, tenantVars, keys>>

Key == 1..MaxKeys
Off == [step |-> "off", key |-> None, renewed |-> FALSE]
Quiet == [step |-> "quiet", name |-> None, key |-> None]

TypeOK ==
    /\ file \in {None, Torn} \cup Key
    /\ agent \in [Agents -> [step : {"off", "made", "open", "up"}, key : Key \cup {None}, renewed : BOOLEAN]]
    /\ tenants \in [Names -> Key \cup {None}] /\ held \in [Clients -> [Names -> SUBSET Key]]
    /\ client \in [Clients -> [step : {"quiet", "insert", "answer"}, name : Names \cup {None}, key : Key \cup {None}]]
    /\ keys \in 0..MaxKeys /\ attempts \in 0..MaxAttempts /\ raced \in BOOLEAN /\ cut \subseteq Names

Init ==
    /\ file = None /\ agent = [a \in Agents |-> Off] /\ raced = FALSE
    /\ tenants = [n \in Names |-> None] /\ client = [c \in Clients |-> Quiet]
    /\ held = [c \in Clients |-> [n \in Names |-> {}]] /\ keys = 0 /\ attempts = 0 /\ cut = {}

NewKey == keys < MaxKeys /\ keys' = keys + 1

-----------------------------------------------------------------------------
(* An agent starts: the key in the file, if there is a file, ...           *)
Load(a) ==
    /\ agent[a].step = "off" /\ file \in Key
    /\ agent' = [agent EXCEPT ![a] = [Off EXCEPT !.step = "up", !.key = file]]
    /\ UNCHANGED <<file, raced, tenantVars, keys>>

(* ... or one it makes; a file that is not whole yet ends the start.       *)
Make(a) ==
    /\ agent[a].step = "off" /\ file = None /\ NewKey
    /\ agent' = [agent EXCEPT ![a] = [Off EXCEPT !.step = "made", !.key = keys']]
    /\ UNCHANGED <<file, raced, tenantVars>>

Open(a) ==
    /\ agent[a].step = "made" /\ file' = Torn
    /\ agent' = [agent EXCEPT ![a].step = "open"]
    /\ raced' = (raced \/ file # None)
    /\ UNCHANGED <<tenantVars, keys>>

Store(a) ==
    /\ agent[a].step = "open" /\ file' = agent[a].key
    /\ agent' = [agent EXCEPT ![a].step = "up"]
    /\ UNCHANGED <<raced, tenantVars, keys>>

(* A keystore that is older than the interval: a new key, not in the file. *)
RenewStored(a) == \* variant: the new key is written to the file too
    /\ agent[a].step = "up" /\ NewKey
    /\ agent' = [agent EXCEPT ![a].key = keys', ![a].renewed = TRUE]
    /\ file' = keys' /\ UNCHANGED <<raced, tenantVars>>

Renew(a) ==
    /\ agent[a].step = "up" /\ NewKey
    /\ agent' = [agent EXCEPT ![a].key = keys', ![a].renewed = TRUE]
    /\ UNCHANGED <<file, raced, tenantVars>>

Stop(a) ==
    /\ agent[a].step # "off" /\ agent' = [agent EXCEPT ![a] = Off]
    /\ UNCHANGED <<file, raced, tenantVars, keys>>

-----------------------------------------------------------------------------
Create(c, n) ==
    /\ client[c].step = "quiet" /\ attempts < MaxAttempts /\ attempts' = attempts + 1 /\ NewKey
    /\ client' = [client EXCEPT ![c] = [step |-> "insert", name |-> n, key |-> keys']]
    /\ UNCHANGED <<agentVars, tenants, held, cut>>

(* The row is inserted and committed, or the name is there already: 409.   *)
InsertOver(c) == \* variant: the row is written whether or not the name is there
    /\ client[c].step = "insert" /\ UNCHANGED <<held, cut>>
    /\ tenants' = [tenants EXCEPT ![client[c].name] = client[c].key]
    /\ client' = [client EXCEPT ![c].step = "answer"]
    /\ UNCHANGED <<agentVars, keys, attempts>>

Insert(c) ==
    /\ client[c].step = "insert" /\ UNCHANGED <<held, cut>>
    /\ \/ /\ tenants[client[c].name] = None
          /\ tenants' = [tenants EXCEPT ![client[c].name] = client[c].key]
          /\ client' = [client EXCEPT ![c].step = "answer"]
       \/ /\ tenants[client[c].name] # None
          /\ client' = [client EXCEPT ![c] = Quiet] /\ UNCHANGED tenants
    /\ UNCHANGED <<agentVars, keys, attempts>>

Answer(c) ==
    /\ client[c].step = "answer"
    /\ held' = [held EXCEPT ![c][client[c].name] = @ \cup {client[c].key}]
    /\ client' = [client EXCEPT ![c] = Quiet]
    /\ UNCHANGED <<agentVars, tenants, keys, attempts, cut>>

(* The answer is lost, or the commit went through and its confirmation did *)
(* not (503): the key is known to nobody.  Or nothing was inserted.        *)
Lose(c) ==
    /\ client[c].step \in {"insert", "answer"}
    /\ cut' = IF client[c].step = "answer" THEN cut \cup {client[c].name} ELSE cut
    /\ client' = [client EXCEPT ![c] = Quiet]
    /\ UNCHANGED <<agentVars, tenants, held, keys, attempts>>

Next ==
    \/ \E a \in Agents : Load(a) \/ Make(a) \/ Open(a) \/ Store(a) \/ Renew(a) \/ Stop(a)
    \/ \E c \in Clients : Insert(c) \/ Answer(c) \/ Lose(c) \/ \E n \in Names : Create(c, n)

Spec == Init /\ [][Next]_vars

-----------------------------------------------------------------------------
(* Agents that started one after another hold one key, the file's, until   *)
(* they renew it; only agents that started together may hold different     *)
(* keys, and an agent that renewed has its old name again after a restart. *)
OneIdentity ==
    \A a \in Agents : agent[a].step = "up" /\ ~agent[a].renewed => agent[a].key = file \/ raced

(* No two ever sign with a key one of them made for itself.                *)
RenewedAlone ==
    \A a, b \in Agents :
        a # b /\ agent[a].renewed /\ agent[a].step = "up" => agent[b].key # agent[a].key

(* A key that a client was given opens its tenant for good, for it alone,  *)
(* and every tenant's key is with somebody or on its way, unless an answer *)
(* was lost; then nobody ever gets one: each retry is refused.             *)
KeyWithOwner ==
    \A n \in Names :
        /\ \A c \in Clients : held[c][n] # {} => held[c][n] = {tenants[n]}
        /\ Cardinality({c \in Clients : held[c][n] # {}}) <= 1
        /\ tenants[n] # None =>
             \/ n \in cut
             \/ \E c \in Clients : held[c][n] # {} \/ (client[c].step = "answer" /\ client[c].name = n)
        /\ n \in cut => \A c \in Clients : held[c][n] = {}

(* What holds of the keys.                                                 *)
KeysInv == OneIdentity /\ RenewedAlone /\ KeyWithOwner
=============================================================================

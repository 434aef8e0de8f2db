--------------------------- MODULE ModelRegistry ---------------------------
(***************************************************************************)
(* From a training to a registered version.  rl-policy writes              *)
(* /shared-models/policy.pt in place; model-registry copies that file into *)
(* its own store (BASE) and then into the shared one (SHARED), each copy a *)
(* temporary file that replaces the destination.  retraining-loop changes  *)
(* nothing: its request to train has no body, is refused, and the error    *)
(* ends the loop before anything is registered.                            *)
(***************************************************************************)
EXTENDS Integers, FiniteSets

CONSTANTS
    Clients,        \* of the registry
    Trainings,      \* requests to train, each a policy of its own
    Files,          \* file names <name>_<version>.pt
    Globbed,        \* of each name: the files that <name>_*.pt matches
    Rank,           \* of each file: its place in the order of strings
    MaxRequests,    \* bound: requests to the registry
    None, Empty, Torn

RegistryAssumption ==
    /\ Globbed \in [DOMAIN Globbed -> SUBSET Files]
    /\ Rank \in [Files -> Nat] /\ \A f, g \in Files : Rank[f] = Rank[g] => f = g
    /\ MaxRequests \in Nat
    /\ IsFiniteSet(Files) /\ None \notin Files
    /\ IsFiniteSet(Trainings) /\ {None, Empty, Torn} \cap Trainings = {}
    /\ None # Empty /\ None # Torn /\ Empty # Torn

VARIABLES
    policy,         \* /shared-models/policy.pt
    training,       \* of each training: "idle", "writing" or "done"
    base, shared,   \* of each file: what the store holds under its name
    reg,            \* of each client: its request to /register
    sent,           \* requests sent to the registry
    \* history
    met             \* files in whose registration two handlers met

vars == <<policy, training, base, shared, reg, sent, met>>

Content == Trainings \cup {None, Empty, Torn}
Steps == {"check", "openBase", "moveBase", "openShared", "moveShared"}
NoRequest == [step |-> "idle", file |-> None, temp |-> None]

TypeOK ==
    /\ policy \in Content /\ training \in [Trainings -> {"idle", "writing", "done"}]
    /\ base \in [Files -> Content \ {Empty}] /\ shared \in [Files -> Content \ {Empty}]
    /\ reg \in [Clients -> [step : Steps \cup {"idle", "stored", "refused", "failed"},
                            file : Files \cup {None}, temp : Content]]
    /\ sent \in 0..MaxRequests /\ met \subseteq Files

Init ==
    /\ policy = None /\ training = [t \in Trainings |-> "idle"]
    /\ base = [f \in Files |-> None] /\ shared = [f \in Files |-> None]
    /\ reg = [c \in Clients |-> NoRequest]
    /\ sent = 0 /\ met = {}

-----------------------------------------------------------------------------
(* POST /train with samples: write_text truncates the file, then writes.   *)
(* A file written since then by another training has a part of each.       *)
TrainOpen(t) ==
    /\ training[t] = "idle"
    /\ training' = [training EXCEPT ![t] = "writing"]
    /\ policy' = Empty
    /\ UNCHANGED <<base, shared, reg, sent, met>>

TrainWrite(t) ==
    /\ training[t] = "writing"
    /\ training' = [training EXCEPT ![t] = "done"]
    /\ policy' \in IF policy = Empty THEN {t} ELSE {t, Torn}
    /\ UNCHANGED <<base, shared, reg, sent, met>>

-----------------------------------------------------------------------------
(* POST /register.  The source is found first, both destinations are       *)
(* tested together, and each again before its own copy is made.            *)
Meeting(c, f) == \E d \in Clients \ {c} : reg[d].file = f /\ reg[d].step \in Steps

Go(c, step, temp) == reg' = [reg EXCEPT ![c].step = step, ![c].temp = temp]

Register(c, f) ==
    /\ reg[c].step \notin Steps /\ sent < MaxRequests /\ sent' = sent + 1
    /\ reg' = [reg EXCEPT ![c] = [step |-> IF policy = None THEN "failed" ELSE "check", file |-> f, temp |-> None]]
    /\ met' = IF Meeting(c, f) THEN met \cup {f} ELSE met
    /\ UNCHANGED <<policy, training, base, shared>>

CheckNothing(c) == \* variant: neither store is tested first
    /\ reg[c].step = "check"
    /\ Go(c, "openShared", None)
    /\ UNCHANGED <<policy, training, base, shared, sent, met>>

Check(c) ==
    /\ reg[c].step = "check"
    /\ Go(c, IF base[reg[c].file] # None \/ shared[reg[c].file] # None THEN "refused" ELSE "openBase", None)
    /\ UNCHANGED <<policy, training, base, shared, sent, met>>

CopyAsIs(c, store, open, move) == \* variant: an empty source is stored as such
    /\ reg[c].step = open
    /\ IF store[reg[c].file] # None THEN Go(c, "refused", None) ELSE Go(c, move, policy)
    /\ UNCHANGED <<policy, training, base, shared, sent, met>>

(* _atomic_copy up to the temporary file: what the source holds now.       *)
Copy(c, store, open, move) ==
    /\ reg[c].step = open
    /\ IF store[reg[c].file] # None THEN Go(c, "refused", None)
       ELSE Go(c, move, IF policy = Empty THEN Torn ELSE policy)
    /\ UNCHANGED <<policy, training, base, shared, sent, met>>

MoveBaseLast(c) == \* variant: the request is answered after the first copy
    /\ reg[c].step = "moveBase"
    /\ base' = [base EXCEPT ![reg[c].file] = reg[c].temp]
    /\ Go(c, "stored", None)
    /\ UNCHANGED <<policy, training, shared, sent, met>>

MoveBaseSwapped(c) == \* variant: the shared store comes first
    /\ reg[c].step = "moveBase"
    /\ shared' = [shared EXCEPT ![reg[c].file] = reg[c].temp]
    /\ Go(c, "openShared", None)
    /\ UNCHANGED <<policy, training, base, sent, met>>

MoveBase(c) ==
    /\ reg[c].step = "moveBase"
    /\ base' = [base EXCEPT ![reg[c].file] = reg[c].temp]
    /\ Go(c, "openShared", None)
    /\ UNCHANGED <<policy, training, shared, sent, met>>

MoveShared(c) ==
    /\ reg[c].step = "moveShared"
    /\ shared' = [shared EXCEPT ![reg[c].file] = reg[c].temp]
    /\ Go(c, "stored", None)
    /\ UNCHANGED <<policy, training, base, sent, met>>

(* The disk is full, or the process ends: nothing is undone but the        *)
(* temporary file.                                                         *)
Fail(c) ==
    /\ reg[c].step \in Steps
    /\ Go(c, "failed", None)
    /\ UNCHANGED <<policy, training, base, shared, sent, met>>

Next ==
    \/ \E t \in Trainings : TrainOpen(t) \/ TrainWrite(t)
    \/ \E c \in Clients :
         \/ \E f \in Files : Register(c, f)
         \/ Check(c) \/ MoveBase(c) \/ MoveShared(c) \/ Fail(c)
         \/ Copy(c, base, "openBase", "moveBase")
         \/ Copy(c, shared, "openShared", "moveShared")

Spec == Init /\ [][Next]_vars

-----------------------------------------------------------------------------
(* GET /latest: the greatest file name, as a string, among those that      *)
(* match; those of a longer name that begins with this one match as well.  *)
LatestLeast(n) == \* variant: the order is not reversed
    LET found == {f \in Globbed[n] : base[f] # None}
    IN IF found = {} THEN None ELSE CHOOSE f \in found : \A g \in found : Rank[f] <= Rank[g]

Latest(n) ==
    LET found == {f \in Globbed[n] : base[f] # None}
    IN IF found = {} THEN None ELSE CHOOSE f \in found : \A g \in found : Rank[g] <= Rank[f]

(* A request answered with 200 left its version in both stores, whatever   *)
(* other requests and failures came between its steps.                     *)
StoredInBoth == \A c \in Clients : reg[c].step = "stored" => base[reg[c].file] # None /\ shared[reg[c].file] # None

(* A version is replaced by another copy, or refused to one request while  *)
(* another is storing it, only where two requests for it met: without one, *)
(* the two copies differ only if the source was written between them, and  *)
(* nothing is in the shared store that is not in the registry's own.       *)
OneWriterEach ==
    \A f \in Files \ met :
      /\ shared[f] # None => base[f] # None
      /\ base[f] # None /\ shared[f] # None /\ base[f] # shared[f]
           => Cardinality({t \in Trainings : training[t] # "idle"}) > 1 \/ Torn \in {base[f], shared[f]}

(* What the two stores keep between them.                                  *)
RegistryInv == StoredInBoth /\ OneWriterEach

(* Without such a meeting a version never changes.  Whatever met, one left *)
(* in the registry's own store by a failure, with no request past its      *)
(* tests, stays like that for ever: every later request is refused.  And   *)
(* the answer of /latest goes from no model to one and then only upwards,  *)
(* in the order of strings.                                                *)
Orphan(f) ==
    base[f] # None /\ shared[f] = None /\ \A c \in Clients : ~(reg[c].file = f /\ reg[c].step \in Steps \ {"check"})

VersionsStay ==
    [][/\ \A f \in Files :
         /\ f \notin met /\ base[f] # None => base'[f] = base[f]
         /\ f \notin met /\ shared[f] # None => shared'[f] = shared[f]
         /\ Orphan(f) => base'[f] = base[f] /\ shared'[f] = None
       /\ \A n \in DOMAIN Globbed :
         Latest(n) # None => Latest(n)' # None /\ Rank[Latest(n)'] >= Rank[Latest(n)]]_vars
=============================================================================

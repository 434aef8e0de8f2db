----------------------------- MODULE WeightGossip -----------------------------
(***************************************************************************)
(* The weights that agents of the trainer gossip: each listens in one      *)
(* thread, takes one connection after another and waits for what it says;  *)
(* what reads as numbers it averages with its own weights, as far as both  *)
(* reach.  Whoever connects and says nothing holds up all behind it.  A    *)
(* port that is taken, a connection that is reset and a message that does  *)
(* not parse end the thread, and nobody is told.                           *)
(***************************************************************************)
EXTENDS Integers, Sequences, FiniteSets, SequencesExt

CONSTANTS
    Nodes,
    Weights,        \* what each node starts with: sequences of numbers, in parts fine enough to halve
    Foreign,        \* what others may send that reads as numbers: lists; {}, "" and [] are the empty one
    MaxPayload,     \* how many weights one read takes
    MaxSent,
    None

GossipAssumption ==
    /\ Weights \in [Nodes -> Seq(Nat)] /\ Foreign \subseteq Seq(Nat)
    /\ MaxPayload \in Nat \ {0} /\ MaxSent \in Nat /\ None \notin Nodes

VARIABLES
    weights,        \* the weights of each node
    listening,      \* "no", "yes", or why it ended
    flying,         \* connections that were not taken off the queue yet, and what they said: [to, from, nr, says, body]
    sent,
    spoilt,         \* history: nodes that a connection was reset to, or that were sent what does not parse
    met             \* history: the lists of numbers others sent

historyVars == <<spoilt, met>>
vars == <<weights, listening, flying, sent, historyVars>>

Says == {"nothing", "numbers", "words", "noise", "end", "reset"}

TypeOK ==
    /\ weights \in [Nodes -> Seq(Nat)] /\ listening \in [Nodes -> {"no", "yes", "taken", "raised"}]
    /\ sent \in 0..MaxSent /\ spoilt \subseteq Nodes /\ met \subseteq Foreign
    /\ flying \subseteq [to : Nodes, from : Nodes \cup {None}, nr : 0..MaxSent, says : Says, body : Seq(Nat)]

Init ==
    /\ weights = Weights /\ listening = [n \in Nodes |-> "no"]
    /\ flying = {} /\ sent = 0 /\ spoilt = {} /\ met = {}

-----------------------------------------------------------------------------
StartServer(n) ==
    /\ listening[n] = "no"
    /\ \E how \in {"yes", "taken"} : listening' = [listening EXCEPT ![n] = how]
    /\ UNCHANGED <<weights, flying, sent, historyVars>>

(* A node, or somebody else, connects.  Nobody to connect to raises in the *)
(* caller.                                                                 *)
Connect(from, to) ==
    /\ from # to /\ sent < MaxSent /\ sent' = sent + 1 /\ listening[to] = "yes"
    /\ flying' = flying \cup {[to |-> to, from |-> from, nr |-> sent, says |-> "nothing", body |-> <<>>]}
    /\ UNCHANGED <<weights, listening, historyVars>>

Say(m, what, body) == flying' = (flying \ {m}) \cup {[m EXCEPT !.says = what, !.body = body]}

(* A node says the weights it has by then.                                 *)
Gossip(m) ==
    /\ m \in flying /\ m.says = "nothing" /\ m.from # None
    /\ Say(m, "numbers", weights[m.from])
    /\ UNCHANGED <<weights, listening, sent, historyVars>>

(* Somebody else says numbers, or a list or string of other things, or no  *)
(* JSON to be iterated over.                                               *)
Stranger(m) ==
    /\ m \in flying /\ m.says = "nothing" /\ m.from = None
    /\ \/ \E b \in Foreign : Say(m, "numbers", b) /\ met' = met \cup {b} /\ UNCHANGED spoilt
       \/ \E what \in {"words", "noise"} : Say(m, what, <<>>) /\ spoilt' = spoilt \cup {m.to} /\ UNCHANGED met
    /\ UNCHANGED <<weights, listening, sent>>

(* A peer ends before it said a thing, or its connection breaks, if not    *)
(* what it said was taken.                                                 *)
Leave(m) ==
    /\ m \in flying
    /\ \/ m.says = "nothing" /\ Say(m, "end", <<>>) /\ UNCHANGED spoilt
       \/ m.says # "reset" /\ Say(m, "reset", <<>>) /\ spoilt' = spoilt \cup {m.to}
    /\ UNCHANGED <<weights, listening, sent, met>>

(* As many weights as both have.                                           *)
MergedWhole(own, other) == [i \in DOMAIN own \cap DOMAIN other |-> own[i] + other[i]] \* variant: the halving is lost
MergedLongest(own, other) == \* variant: the shorter one is filled with zeros
    LET value(w, i) == IF i \in DOMAIN w THEN w[i] ELSE 0
    IN [i \in DOMAIN own \cup DOMAIN other |-> (value(own, i) + value(other, i)) \div 2]
Merged(own, other) == [i \in DOMAIN own \cap DOMAIN other |-> (own[i] + other[i]) \div 2]

(* The thread takes the connections in their order and waits for what each *)
(* says.  A message that is longer than one read, or arrives in pieces,    *)
(* does not parse; words raise where there is a weight to add them to.     *)
Raises(m, whole) ==
    \/ m.says \in {"noise", "reset"}
    \/ m.says = "words" /\ weights[m.to] # <<>>
    \/ m.says = "numbers" /\ ~whole

Receive(m) ==
    /\ m \in flying /\ m.says # "nothing" /\ listening[m.to] = "yes"
    /\ \A o \in flying : o.to = m.to => m.nr <= o.nr
    /\ flying' = flying \ {m}
    /\ \E whole \in BOOLEAN :
         /\ Len(m.body) > MaxPayload => ~whole
         /\ listening' = IF Raises(m, whole) THEN [listening EXCEPT ![m.to] = "raised"] ELSE listening
         /\ weights' = IF m.says = "numbers" /\ whole THEN [weights EXCEPT ![m.to] = Merged(@, m.body)] ELSE weights
         /\ spoilt' = IF m.says = "numbers" /\ ~whole THEN spoilt \cup {m.to} ELSE spoilt
    /\ UNCHANGED <<sent, met>>

Next ==
    \/ \E n \in Nodes : StartServer(n) \/ \E from \in Nodes \cup {None} : Connect(from, n)
    \/ \E m \in flying : Gossip(m) \/ Stranger(m) \/ Leave(m) \/ Receive(m)

Spec == Init /\ [][Next]_vars

-----------------------------------------------------------------------------
Lists == {Weights[n] : n \in Nodes} \cup met
All(i) == {w[i] : w \in {l \in Lists : i \in DOMAIN l}}

(* However the messages cross, a weight stays between the least and the    *)
(* greatest of those it is made of: of the nodes, and of what others sent. *)
WithinHull ==
    \A n \in Nodes : \A i \in DOMAIN weights[n] :
        (\E l \in All(i) : l <= weights[n][i]) /\ (\E h \in All(i) : weights[n][i] <= h)

(* A node never gets more weights than it had, and it has fewer only if    *)
(* some node began with as few or somebody else sent as few: none at all   *)
(* only after somebody sent an empty body.                                 *)
LengthTold ==
    \A n \in Nodes :
        /\ Len(weights[n]) <= Len(Weights[n])
        /\ \E l \in Lists : Len(weights[n]) = Len(l)

(* The thread of a node ends only at a connection that was reset, or at a  *)
(* message that does not parse, in pieces or as it was sent.  (One that    *)
(* waits for a peer to speak has not ended, and is no better off.)         *)
EndExplained == \A n \in Nodes : listening[n] = "raised" => n \in spoilt

(* What the agents may rely on.                                            *)
GossipInv == WithinHull /\ LengthTold /\ EndExplained
=============================================================================

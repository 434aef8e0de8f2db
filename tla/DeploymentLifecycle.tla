------------------------ MODULE DeploymentLifecycle ------------------------
(***************************************************************************)
(* What the control plane of services/master-orchestrator promises about   *)
(* one deployment, events and storage left out: it is queued, built, then  *)
(* deployed; a failure must be fixed and built again before the next       *)
(* deploy; success is final.  A restart of the service forgets them all.   *)
(***************************************************************************)
CONSTANT Ids

VARIABLE state

States == {"queued", "building", "failed", "fixing", "deploying", "succeeded"}

Edges == { <<"queued", "building">>,
           <<"building", "failed">>, <<"building", "deploying">>,
           <<"failed", "fixing">>, <<"fixing", "building">>,
           <<"deploying", "failed">>, <<"deploying", "succeeded">> }

Init == state = [d \in Ids |-> "absent"]

Created(d) == state[d] = "absent" /\ state' = [state EXCEPT ![d] = "queued"]

Moved(d) == \E s \in States : <<state[d], s>> \in Edges /\ state' = [state EXCEPT ![d] = s]

Forgotten == state' = [d \in Ids |-> "absent"]

Next == Forgotten \/ \E d \in Ids : Created(d) \/ Moved(d)

Spec == Init /\ [][Next]_state
=============================================================================

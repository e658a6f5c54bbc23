------------------------- MODULE DeploymentMachine --------------------------
(***************************************************************************)
(* What the module docstring of AutoDeploymentService promises of each     *)
(* deployment: a state machine pending -> building -> deploying ->         *)
(* success/failed, in which a requested deployment comes to an end.        *)
(***************************************************************************)
CONSTANT Requests

VARIABLE state

Unfinished == {"pending", "building", "deploying"}

MachineInit == state = [r \in Requests |-> "none"]

Step(r, from, to) == state[r] = from /\ state' = [state EXCEPT ![r] = to]

Request(r) == Step(r, "none", "pending")

Fail(r) == \E from \in Unfinished : Step(r, from, "failed")

Advance(r) ==
    \/ Step(r, "pending", "building")
    \/ Step(r, "building", "deploying")
    \/ Step(r, "deploying", "success")
    \/ Fail(r)

MachineNext == \E r \in Requests : Request(r) \/ Advance(r)

MachineSpec ==
    /\ MachineInit /\ [][MachineNext]_state
    /\ \A r \in Requests : WF_state(Advance(r))
=============================================================================

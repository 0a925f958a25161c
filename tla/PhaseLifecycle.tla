--------------------------- MODULE PhaseLifecycle ---------------------------
(***************************************************************************)
(* What the phase-control plane promises about the statuses of its phases, *)
(* seen from the database alone: every change follows ALLOWED_TRANSITIONS, *)
(* and a phase is begun only when the phases it depends on are Done and    *)
(* its operator has completed it.  Done and Cancelled are final.           *)
(***************************************************************************)
EXTENDS PhaseRules

CONSTANTS Phases, Dependencies, Complete

VARIABLE status

Init == status = [p \in Phases |-> "Planned"]

Begin(p) ==
  /\ CanTransition(status[p], "InProgress")
  /\ p \in Complete
  /\ \A d \in Dependencies[p] : status[d] = "Done"
  /\ status' = [status EXCEPT ![p] = "InProgress"]

Move(p) ==
  \E to \in Status \ {"InProgress"} :
    /\ CanTransition(status[p], to)
    /\ status' = [status EXCEPT ![p] = to]

Next == \E p \in Phases : Begin(p) \/ Move(p)

Spec == Init /\ [][Next]_status
=============================================================================

----------------------------- MODULE PhaseRules -----------------------------
(***************************************************************************)
(* The rules of a phase row that hold no state of their own: the status    *)
(* graph and its guards (state_machine.py), the policy gates (policy.py)   *)
(* and the fields of a row the gates read (models.py).  A row is a record  *)
(* so that the modules that store rows can copy, overwrite and lose them.  *)
(***************************************************************************)
EXTENDS Naturals

Status == {"Planned", "Ready", "InProgress", "Done", "NeedsReview",
           "Blocked", "Cancelled"}

AllowedTransitions ==
  [ Planned     |-> {"Ready"},
    Ready       |-> {"InProgress", "Cancelled"},
    InProgress  |-> {"Done", "NeedsReview", "Blocked", "Cancelled"},
    Blocked     |-> {"Ready"},
    NeedsReview |-> {"Ready"},
    Done        |-> {},
    Cancelled   |-> {} ]

CanTransition(from, to) == to \in AllowedTransitions[from]

NoRun == 0

(* run_id is a fresh uuid per tick, numbered here in the order of creation;*)
(* expires is lease_expires_at, 0 for None.  runner_host is set and        *)
(* cleared with run_id; blocker, summaries and Slack fields are carried    *)
(* along with the row and no gate reads them.                              *)
Row == [ status   : Status,
         approved : BOOLEAN,
         run      : Nat,
         expires  : Nat ]

HasActiveLease(phase, now) == phase.run # NoRun /\ phase.expires > now

(* claim_lease and release_lease, once they have decided.                  *)
WithLease(phase, run, expires) == [phase EXCEPT !.run = run, !.expires = expires]

(* transition_phase once its guards hold.                                  *)
MoveTo(phase, to) == [phase EXCEPT !.status = to]

(* Mutant: a Ready phase is taken to be approved.                          *)
ApprovalByStatus(phase, required) == required => phase.approved \/ phase.status = "Ready"

ApprovalSatisfied(phase, required) == required => phase.approved
=============================================================================

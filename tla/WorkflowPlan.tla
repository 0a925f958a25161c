---------------------------- MODULE WorkflowPlan ----------------------------
(***************************************************************************)
(* WorkflowRunner.run_plan of ai/workflows/runner.py, called by            *)
(* workflow_run of the MCP bridge: the steps of a plan run in the order of *)
(* the list, and a step whose dependencies have not completed by then is   *)
(* skipped.  workflow_run keeps the row of the run in workflow_runs; either*)
(* of its two writes may be lost without notice, and the process may die.  *)
(***************************************************************************)
EXTENDS Naturals

CONSTANT PlanLength

ASSUME PlanAssumption == PlanLength \in Nat

PlanSteps == 1..PlanLength

VARIABLES dependsOn,    \* the plan: depends_on of each step
          stepResult,   \* results; "none" where there is no entry yet
          completed,    \* completed
          nextStep,     \* the step the loop has reached; 0 when it has ended
          runRow        \* status of the row of workflow_runs

planVars == <<dependsOn, stepResult, completed, nextStep, runRow>>

\* A plan may name any other step, a later one too.
PlanInit ==
    /\ dependsOn \in [PlanSteps -> SUBSET PlanSteps]
    /\ \A s \in PlanSteps : s \notin dependsOn[s]
    /\ stepResult = [s \in PlanSteps |-> "none"]
    /\ completed = {}
    /\ nextStep = 0
    /\ runRow = "none"

\* workflow_run logs the run, or fails to and goes on, and starts the plan.
RunStarts ==
    /\ nextStep = 0 /\ runRow = "none"
    /\ runRow' \in {"running", "lost"}
    /\ nextStep' = 1
    /\ UNCHANGED <<dependsOn, stepResult, completed>>

Reached(s) == nextStep = s /\ s \in PlanSteps /\ runRow # "dead"

\* Mutant: it is enough that one dependency has completed.
UnmetUnlessAny(s) == dependsOn[s] # {} /\ dependsOn[s] \cap completed = {}

Unmet(s) == \E d \in dependsOn[s] : d \notin completed

StepSkipped(s) ==
    /\ Reached(s) /\ Unmet(s)
    /\ stepResult' = [stepResult EXCEPT ![s] = "skipped"]
    /\ nextStep' = s + 1
    /\ UNCHANGED <<dependsOn, completed, runRow>>

StepCompletes(s) ==
    /\ Reached(s) /\ ~Unmet(s)
    /\ stepResult' = [stepResult EXCEPT ![s] = "complete"]
    /\ completed' = completed \cup {s}
    /\ nextStep' = s + 1
    /\ UNCHANGED <<dependsOn, runRow>>

\* The tool or the agent fails and the plan goes on: abort_on_error is off,
\* or it is an agent's exception, which never ends the plan.
StepFails(s) ==
    /\ Reached(s) /\ ~Unmet(s)
    /\ stepResult' = [stepResult EXCEPT ![s] = "failed"]
    /\ nextStep' = s + 1
    /\ UNCHANGED <<dependsOn, completed, runRow>>

\* Mutant: the aborting step leaves the loop before it has a result.
AbortsUnrecorded(s) ==
    /\ Reached(s) /\ ~Unmet(s)
    /\ nextStep' = PlanLength + 1
    /\ UNCHANGED <<dependsOn, stepResult, completed, runRow>>

\* It fails with abort_on_error: the later steps get no result at all.
StepAborts(s) ==
    /\ Reached(s) /\ ~Unmet(s)
    /\ stepResult' = [stepResult EXCEPT ![s] = "failed"]
    /\ nextStep' = PlanLength + 1
    /\ UNCHANGED <<dependsOn, completed, runRow>>

\* "complete" when every result there is says so.
PlanStatus ==
    IF \A s \in PlanSteps : stepResult[s] \in {"none", "complete"}
    THEN "complete" ELSE "partial"

\* The plan ends; the row, when there is one, is updated or the update lost.
RunEnds ==
    /\ nextStep = PlanLength + 1
    /\ nextStep' = 0
    /\ runRow' \in (IF runRow = "lost" THEN {"lost"} ELSE {PlanStatus, "stale"})
    /\ UNCHANGED <<dependsOn, stepResult, completed>>

\* The process dies: the row stays as it is for good.
RunDies ==
    /\ nextStep > 0
    /\ nextStep' = 0
    /\ runRow' = "dead"
    /\ UNCHANGED <<dependsOn, stepResult, completed>>

PlanNext ==
    \/ RunStarts \/ RunEnds \/ RunDies
    \/ \E s \in PlanSteps : \/ StepSkipped(s) \/ StepCompletes(s)
                            \/ StepFails(s) \/ StepAborts(s)

PlanSpec == PlanInit /\ [][PlanNext]_planVars

----------------------------------------------------------------------------
PlanTypeOK ==
    /\ dependsOn \in [PlanSteps -> SUBSET PlanSteps]
    /\ stepResult \in [PlanSteps -> {"none", "complete", "failed", "skipped"}]
    /\ completed \subseteq PlanSteps
    /\ nextStep \in 0..(PlanLength + 1)
    /\ runRow \in {"none", "running", "complete", "partial", "lost", "stale", "dead"}

(* What completes stands on what completed: the completed steps are closed  *)
(* under dependency, so nothing is built, however indirectly, on a step     *)
(* that failed, was skipped or was never reached.                           *)
CompletedIsClosed ==
    \A s \in PlanSteps : stepResult[s] = "complete" =>
        \A d \in dependsOn[s] : stepResult[d] = "complete"

(* A run that is recorded as complete completed every step of its plan,     *)
(* although steps after an abort have no result that could say otherwise.   *)
CompleteMeansAll ==
    runRow = "complete" => \A s \in PlanSteps : stepResult[s] = "complete"
=============================================================================

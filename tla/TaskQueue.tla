----------------------------- MODULE TaskQueue -----------------------------
(***************************************************************************)
(* The shared task queue of ai/collab/task_queue.py, a SQLite table.       *)
(* claim_task selects the pending task of the best priority and updates it *)
(* in a second statement that does not look at the status again; every     *)
(* other operation is one transaction.                                     *)
(***************************************************************************)
EXTENDS Naturals, FiniteSets

CONSTANTS Workers,        \* agents that claim tasks
          Tasks,
          Urgent,         \* the tasks of the better of two priorities
          Nothing

TaskStatus == {"pending", "claimed", "in_progress", "done", "failed"}

ASSUME TasksAssumption == /\ Urgent \subseteq Tasks /\ Nothing \notin Tasks
                          /\ IsFiniteSet(Workers)

VARIABLES taskStatus,   \* tasks.status; "absent" before add_task
          selected,     \* the row an agent selected and has not updated yet
          grants        \* how often a task was handed out

taskVars == <<taskStatus, selected, grants>>

TasksInit ==
    /\ taskStatus = [t \in Tasks |-> "absent"]
    /\ selected = [w \in Workers |-> Nothing]
    /\ grants = [t \in Tasks |-> 0]

AddTask(t) ==
    /\ taskStatus[t] = "absent"
    /\ taskStatus' = [taskStatus EXCEPT ![t] = "pending"]
    /\ UNCHANGED <<selected, grants>>

Pending == {t \in Tasks : taskStatus[t] = "pending"}

\* Mutant: a failed task may be claimed again.
UnfinishedFirst(t) ==
    /\ taskStatus[t] \in {"pending", "failed"}
    /\ t \in Urgent \/ Pending \cap Urgent = {}

\* ORDER BY priority: ties in any order.  Dependencies are not looked at.
PendingFirst(t) ==
    /\ taskStatus[t] = "pending"
    /\ t \in Urgent \/ Pending \cap Urgent = {}

SelectTask(w, t) ==
    /\ selected[w] = Nothing
    /\ PendingFirst(t)
    /\ selected' = [selected EXCEPT ![w] = t]
    /\ UNCHANGED <<taskStatus, grants>>

\* UPDATE ... SET status = 'claimed' WHERE task_id: whatever became of the
\* task since it was selected.
ClaimTask(w) ==
    /\ selected[w] # Nothing
    /\ taskStatus' = [taskStatus EXCEPT ![selected[w]] = "claimed"]
    /\ grants' = [grants EXCEPT ![selected[w]] = @ + 1]
    /\ selected' = [selected EXCEPT ![w] = Nothing]

\* start_task, complete_task and fail_task of an agent the task was handed to.
Report(t, st) ==
    /\ grants[t] > 0
    /\ taskStatus' = [taskStatus EXCEPT ![t] = st]
    /\ UNCHANGED <<selected, grants>>

TasksNext ==
    \/ \E t \in Tasks : AddTask(t) \/ \E w \in Workers : SelectTask(w, t)
    \/ \E w \in Workers : ClaimTask(w)
    \/ \E t \in Tasks, st \in {"in_progress", "done", "failed"} : Report(t, st)

TasksSpec == TasksInit /\ [][TasksNext]_taskVars

----------------------------------------------------------------------------
TasksTypeOK ==
    /\ taskStatus \in [Tasks -> TaskStatus \cup {"absent"}]
    /\ selected \in [Workers -> Tasks \cup {Nothing}]
    /\ grants \in [Tasks -> Nat]

(* The claim is not exclusive, and the race is no worse than this: a task   *)
(* is handed out at most once to each agent whose claims overlapped, so     *)
(* with one agent it is handed out once.                                    *)
GrantsBounded == \A t \in Tasks : grants[t] <= Cardinality(Workers)
=============================================================================

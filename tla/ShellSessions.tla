--------------------------- MODULE ShellSessions ---------------------------
(***************************************************************************)
(* ShellService of ai/shell_service.py: terminal sessions of the MCP       *)
(* bridge, each with a login shell of its own.  The dictionary of sessions *)
(* is saved to a file after most calls; a shell is known by its pid only,  *)
(* and a dead one answers os.kill(pid, 0) until it is reaped, which        *)
(* happens when the bridge starts its next process.                        *)
(***************************************************************************)
EXTENDS Naturals, FiniteSets

CONSTANTS MaxSessions,   \* MAX_SESSIONS
          MaxCreates     \* bound: calls of create_session

ASSUME MaxSessionsAssumption == MaxSessions \in Nat /\ MaxCreates \in Nat

Sessions == 1..MaxCreates   \* session ids, in the order of the calls

VARIABLES status,    \* of each session in memory; "none" where there is none
          pids,      \* the sessions with a pid
          savedIds,  \* the sessions in the file
          shell,     \* what became of the shell each session was given
          creates    \* calls of create_session so far

shellVars == <<status, pids, savedIds, shell, creates>>

ShellInit ==
    /\ status = [s \in Sessions |-> "none"]
    /\ pids = {}
    /\ savedIds = {}
    /\ shell = [s \in Sessions |-> "none"]
    /\ creates = 0

Known == {s \in Sessions : status[s] # "none"}
With(st) == {s \in Sessions : shell[s] = st}

\* Popen reaps the children that died since the last one was started.
Reaped == [s \in Sessions |-> IF shell[s] = "zombie" THEN "gone" ELSE shell[s]]

\* _save_sessions of what is in memory after the step: an OSError is only logged.
Save == savedIds' \in {savedIds, {s \in Sessions : status'[s] # "none"}}

\* Mutant: the limit is compared after the session is added.
RoomForOneMore == Cardinality(Known) <= MaxSessions

\* Every entry counts, whatever its status: entries are never deleted.
HasRoom == Cardinality(Known) < MaxSessions

CreateSession ==
    /\ creates < MaxCreates
    /\ HasRoom
    /\ creates' = creates + 1
    /\ status' = [status EXCEPT ![creates'] = "active"]
    /\ pids' = pids \cup {creates'}
    /\ shell' = [Reaped EXCEPT ![creates'] = "running"]
    /\ Save

\* Popen raises OSError: the session is kept, in status "error".
CreateFails ==
    /\ creates < MaxCreates
    /\ HasRoom
    /\ creates' = creates + 1
    /\ status' = [status EXCEPT ![creates'] = "error"]
    /\ shell' = Reaped
    /\ UNCHANGED pids
    /\ Save

CreateRefused ==
    /\ creates < MaxCreates
    /\ ~HasRoom
    /\ creates' = creates + 1
    /\ UNCHANGED <<status, pids, savedIds, shell>>

\* os.kill(pid, 0) succeeds, for a dead shell that is not reaped as well.
Alive(s) == shell[s] \in {"running", "stopping", "zombie"}

\* _check_session_liveness
LiveStatus(s) ==
    IF s \in pids /\ status[s] = "active" /\ ~Alive(s) THEN "disconnected"
    ELSE status[s]

\* get_session and get_session_context save a changed status.
GetSession(s) ==
    /\ LiveStatus(s) # status[s]
    /\ status' = [status EXCEPT ![s] = LiveStatus(s)]
    /\ UNCHANGED <<pids, shell, creates>>
    /\ Save

\* list_sessions checks every session and saves in any case.
ListSessions ==
    /\ status' = [s \in Sessions |-> LiveStatus(s)]
    /\ UNCHANGED <<pids, shell, creates>>
    /\ Save

\* execute_command looks at the stored status only.  The command runs in a
\* process of its own, not in the session's shell.
ExecuteCommand(s) ==
    /\ status[s] = "active"
    /\ shell' = Reaped
    /\ UNCHANGED <<status, pids, creates>>
    /\ Save

\* Mutant: the pid is forgotten before it is asked to stop.
TerminateForgotten(s) ==
    /\ s \in Known
    /\ status' = [status EXCEPT ![s] = "disconnected"]
    /\ pids' = pids \ {s}
    /\ UNCHANGED <<shell, creates>>
    /\ Save

\* terminate_session: SIGTERM to the shell of an active session; the entry
\* stays, without a pid.
TerminateSession(s) ==
    /\ s \in Known
    /\ shell' = IF s \in pids /\ status[s] = "active" /\ shell[s] = "running"
                THEN [shell EXCEPT ![s] = "stopping"] ELSE shell
    /\ status' = [status EXCEPT ![s] = "disconnected"]
    /\ pids' = pids \ {s}
    /\ UNCHANGED creates
    /\ Save

\* A shell ends, on its own or because it was asked to.
ShellExits(s) ==
    /\ shell[s] \in {"running", "stopping"}
    /\ shell' = [shell EXCEPT ![s] = "zombie"]
    /\ UNCHANGED <<status, pids, savedIds, creates>>

\* The bridge ends and starts: _load_sessions makes every saved session a
\* disconnected one.  The shells read the end of their input and end.
BridgeRestarts ==
    /\ status' = [s \in Sessions |-> IF s \in savedIds THEN "disconnected" ELSE "none"]
    /\ pids' = {}
    /\ shell' = [s \in Sessions |-> CASE shell[s] = "running" -> "stopping"
                                      [] shell[s] = "zombie" -> "gone"
                                      [] OTHER -> shell[s]]
    /\ UNCHANGED <<savedIds, creates>>

ShellNext ==
    \/ CreateSession \/ CreateFails \/ CreateRefused
    \/ ListSessions
    \/ \E s \in Sessions : \/ GetSession(s) \/ ExecuteCommand(s)
                           \/ TerminateSession(s) \/ ShellExits(s)
    \/ BridgeRestarts

ShellSpec == ShellInit /\ [][ShellNext]_shellVars

----------------------------------------------------------------------------
ShellTypeOK ==
    /\ status \in [Sessions -> {"none", "active", "disconnected", "error"}]
    /\ pids \subseteq Sessions
    /\ savedIds \subseteq Sessions
    /\ shell \in [Sessions -> {"none", "running", "stopping", "zombie", "gone"}]
    /\ creates \in 0..MaxCreates

(* No shell is orphaned: one that runs and was not asked to stop belongs to *)
(* an active session that knows its pid, after any order of terminations,   *)
(* status checks, restarts and failed saves.                                *)
EveryShellIsOwned ==
    \A s \in With("running") : status[s] = "active" /\ s \in pids

(* The limit bounds the shells: never more of them run than MAX_SESSIONS,   *)
(* although a restart may forget sessions whose save failed.                *)
ShellsBounded == Cardinality(With("running")) <= MaxSessions
=============================================================================

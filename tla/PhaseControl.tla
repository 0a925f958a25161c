---------------------------- MODULE PhaseControl ----------------------------
(***************************************************************************)
(* The phase-control plane over its Notion row store: any number of        *)
(* runners, each a sequence of run_once ticks, and any number of           *)
(* concurrent row handlers (Slack commands and manual closeouts).          *)
(*                                                                         *)
(* Notion offers no lock and no conditional write: every operation of      *)
(* NotionPhaseSync is a read of the page, a local change and a PATCH of    *)
(* the whole row, and anybody may write between the read and the PATCH.    *)
(* update_phase swallows a failed PATCH (_update_page returns False and    *)
(* nobody looks), so a write may be lost without the writer noticing.      *)
(***************************************************************************)
EXTENDS PhaseRules

CONSTANTS
  Runners,         \* processes that execute run_once
  Handlers,        \* concurrent handle_slack_event / run_closeout_manually calls
  Phases,          \* phase numbers, ordered
  Dependencies,    \* phase -> set of phases it depends on
  NeedsApproval,   \* phases with approval_required
  Complete,        \* phases with prompt, validation commands and done criteria
  NoPhase,         \* no tick in progress
  LeaseTime,       \* lease_seconds
  MaxTime,         \* bound on the clock
  MaxRuns,         \* bound on the ticks that get as far as a run id
  MayLose,         \* PATCHes and page reads may fail
  MayCrash         \* a runner process may die between two steps

ASSUME PhaseAssumption ==
  /\ Phases \subseteq Nat
  /\ Dependencies \in [Phases -> SUBSET Phases]
  /\ NeedsApproval \subseteq Phases
  /\ Complete \subseteq Phases
  /\ NoPhase \notin Phases

ASSUME BoundAssumption ==
  /\ LeaseTime \in Nat
  /\ MaxTime \in Nat
  /\ MaxRuns \in Nat
  /\ MayLose \in BOOLEAN
  /\ MayCrash \in BOOLEAN

VARIABLES
  row,        \* the pages of the Notion database
  now,        \* the wall clock
  nextRun,    \* the next unused run id
  pc,         \* where each runner is in run_once
  at,         \* the phase number its tick works on
  run,        \* its run_id
  copy,       \* its local `phase` object
  page,       \* the row its claim_lease or release_lease has read and changed
  handler,    \* each handler's row, read and not yet written back
  validated,  \* history: phases whose backend and validations succeeded
  granted     \* history: phases approved at some time

runnerVars == <<pc, at, run, copy, page>>
vars == <<row, now, nextRun, pc, at, run, copy, page, handler, validated, granted>>

Steps == {"idle", "picked", "claiming", "claimed", "loaded", "started",
          "executing", "releasing", "clearing", "finishing"}

Reading == [phase : Phases, row : Row]
NoReading == [phase |-> "none"]

Blank == [status |-> "Planned", approved |-> FALSE, run |-> NoRun, expires |-> 0]

TypeOK ==
  /\ row \in [Phases -> Row]
  /\ now \in Nat
  /\ nextRun \in Nat \ {NoRun}
  /\ pc \in [Runners -> Steps]
  /\ at \in [Runners -> Phases \union {NoPhase}]
  /\ run \in [Runners -> Nat]
  /\ copy \in [Runners -> Row]
  /\ page \in [Runners -> Row]
  /\ handler \in [Handlers -> Reading \union {NoReading}]
  /\ validated \subseteq Phases
  /\ granted \subseteq Phases

(* The rows an operator has put in the database: planned, not yet approved,*)
(* with no lease.                                                          *)
Init ==
  /\ row = [p \in Phases |-> Blank]
  /\ now = 0
  /\ nextRun = 1
  /\ pc = [r \in Runners |-> "idle"]
  /\ at = [r \in Runners |-> NoPhase]
  /\ run = [r \in Runners |-> NoRun]
  /\ copy = [r \in Runners |-> Blank]
  /\ page = [r \in Runners |-> Blank]
  /\ handler = [h \in Handlers |-> NoReading]
  /\ validated = {}
  /\ granted = {}
-----------------------------------------------------------------------------
(* update_phase: the PATCH writes every field, whatever is in the page by  *)
(* now, or is lost.                                                        *)
UpdatePhase(p, phase) ==
  \/ row' = [row EXCEPT ![p] = phase]
  \/ MayLose /\ row' = row

Go(r, from, to) == pc[r] = from /\ pc' = [pc EXCEPT ![r] = to]

(* run_once returns or dies: its locals are gone.                          *)
Leave(r) ==
  /\ pc' = [pc EXCEPT ![r] = "idle"]
  /\ at' = [at EXCEPT ![r] = NoPhase]
  /\ run' = [run EXCEPT ![r] = NoRun]
  /\ copy' = [copy EXCEPT ![r] = Blank]
  /\ page' = [page EXCEPT ![r] = Blank]

(* Mutant: a cancelled dependency counts as settled.                       *)
DependenciesOver(p) == \A d \in Dependencies[p] : row[d].status \in {"Done", "Cancelled"}

DependenciesSatisfied(p) == \A d \in Dependencies[p] : row[d].status = "Done"

Eligible(p) ==
  /\ row[p].status = "Ready"
  /\ DependenciesSatisfied(p)
  /\ ~HasActiveLease(row[p], now)

(* get_next_ready_phase, check_ready_requirements and check_approval.  Only*)
(* the first eligible phase is looked at: if its requirements or approval  *)
(* are missing the tick ends, having changed nothing.                      *)
Pick(r) ==
  /\ Go(r, "idle", "picked")
  /\ nextRun <= MaxRuns
  /\ \E p \in Phases :
       /\ Eligible(p)
       /\ \A q \in Phases : Eligible(q) => p <= q
       /\ p \in Complete
       /\ ApprovalSatisfied(row[p], p \in NeedsApproval)
       /\ at' = [at EXCEPT ![r] = p]
  /\ run' = [run EXCEPT ![r] = nextRun]
  /\ nextRun' = nextRun + 1
  /\ UNCHANGED <<row, now, copy, page, handler, validated, granted>>

(* claim_lease, the read: an active lease of another run refuses the tick. *)
ClaimConflict(r) ==
  /\ pc[r] = "picked"
  /\ HasActiveLease(row[at[r]], now)
  /\ Leave(r)
  /\ UNCHANGED <<row, now, nextRun, handler, validated, granted>>

ClaimRead(r) ==
  /\ Go(r, "picked", "claiming")
  /\ ~HasActiveLease(row[at[r]], now)
  /\ page' = [page EXCEPT ![r] = WithLease(row[at[r]], run[r], now + LeaseTime)]
  /\ UNCHANGED <<row, now, nextRun, at, run, copy, handler, validated, granted>>

(* claim_lease, the PATCH.  The claim reports success even when it is lost.*)
ClaimWrite(r) ==
  /\ Go(r, "claiming", "claimed")
  /\ UpdatePhase(at[r], page[r])
  /\ page' = [page EXCEPT ![r] = Blank]
  /\ UNCHANGED <<now, nextRun, at, run, copy, handler, validated, granted>>

(* get_phase after the claim.  Neither its run id nor its approval is      *)
(* looked at again.                                                        *)
Load(r) ==
  /\ Go(r, "claimed", "loaded")
  /\ copy' = [copy EXCEPT ![r] = row[at[r]]]
  /\ UNCHANGED <<row, now, nextRun, at, run, page, handler, validated, granted>>

(* The preflight gate refuses: the blocker is recorded, the status is not  *)
(* changed, and the tick goes to its finally clause.                       *)
PreflightBlocked(r) ==
  /\ Go(r, "loaded", "releasing")
  /\ UpdatePhase(at[r], copy[r])
  /\ UNCHANGED <<now, nextRun, at, run, copy, page, handler, validated, granted>>

(* Mutants: an exception leaves the phase as it is, or readies it again.   *)
ExceptedAsIs(phase) == phase
ExceptedReady(phase) ==
  IF phase.status = "InProgress" THEN MoveTo(phase, "Ready") ELSE phase

(* The except clause: a phase the runner holds as In Progress is blocked.  *)
Excepted(phase) ==
  IF phase.status = "InProgress" THEN MoveTo(phase, "Blocked") ELSE phase

(* transition_phase to In Progress and its update_phase; approval is the   *)
(* decision taken at Pick.                                                 *)
Start(r) ==
  LET begun == MoveTo(copy[r], "InProgress")
  IN /\ Go(r, "loaded", "started")
     /\ CanTransition(copy[r].status, "InProgress")
     /\ copy' = [copy EXCEPT ![r] = begun]
     /\ UpdatePhase(at[r], begun)
     /\ UNCHANGED <<now, nextRun, at, run, page, handler, validated, granted>>

(* The row is no longer Ready: TransitionError.                            *)
StartRefused(r) ==
  /\ Go(r, "loaded", "releasing")
  /\ ~CanTransition(copy[r].status, "InProgress")
  /\ copy' = [copy EXCEPT ![r] = Excepted(copy[r])]
  /\ UNCHANGED <<row, now, nextRun, at, run, page, handler, validated, granted>>

(* Reading the page's properties fails inside update_phase: after the      *)
(* preflight verdict (nothing to block) or after the transition (Blocked). *)
StartRaises(r) ==
  /\ MayLose
  /\ Go(r, "loaded", "releasing")
  /\ copy' = [copy EXCEPT ![r] =
               Excepted(IF CanTransition(copy[r].status, "InProgress")
                          THEN MoveTo(copy[r], "InProgress") ELSE copy[r])]
  /\ UNCHANGED <<row, now, nextRun, at, run, page, handler, validated, granted>>

(* The "Starting phase" post.  When it opens a thread, the thread is stored*)
(* by a second update_phase of the whole local row.                        *)
Announce(r) ==
  /\ Go(r, "started", "executing")
  /\ row' = row \/ UpdatePhase(at[r], copy[r])
  /\ UNCHANGED <<now, nextRun, at, run, copy, page, handler, validated, granted>>

(* Mutants: a failed backend's own word becomes the status; a success is   *)
(* Done whatever the validation commands said.                             *)
OutcomeVerbatim(result, passed) ==
  CASE result = "success"   -> IF passed THEN "Done" ELSE "Blocked"
    [] result = "blocked"   -> "Failed"
    [] OTHER                -> "NeedsReview"
OutcomeUnvalidated(result, passed) ==
  CASE result = "success"   -> "Done"
    [] result = "cancelled" -> "Cancelled"
    [] OTHER                -> "Blocked"

(* Where the local phase goes once backend.run and _run_validations have   *)
(* returned.  A failed backend and one that raised count as blocked; an    *)
(* exception after that (an empty reason, an unparsable command, an unknown*)
(* backend) is the except clause's.                                        *)
Outcome(result, passed) ==
  CASE result = "success"      -> IF passed THEN "Done" ELSE "Blocked"
    [] result = "needs_review" -> "NeedsReview"
    [] result = "blocked"      -> "Blocked"
    [] result = "cancelled"    -> "Cancelled"

Execute(r) ==
  /\ Go(r, "executing", "releasing")
  /\ \E result \in {"success", "needs_review", "blocked", "cancelled"}, passed \in BOOLEAN :
       /\ copy' = [copy EXCEPT ![r] = MoveTo(@, Outcome(result, passed))]
       /\ validated' = IF result = "success" /\ passed
                         THEN validated \union {at[r]} ELSE validated
  /\ UNCHANGED <<row, now, nextRun, at, run, page, handler, granted>>

ExecuteRaises(r) ==
  /\ Go(r, "executing", "releasing")
  /\ copy' = [copy EXCEPT ![r] = Excepted(@)]
  /\ UNCHANGED <<row, now, nextRun, at, run, page, handler, validated, granted>>

(* release_lease in the finally clause: only the row's current run clears  *)
(* it.                                                                     *)
ReleaseForeign(r) ==
  /\ Go(r, "releasing", "finishing")
  /\ row[at[r]].run # run[r]
  /\ UNCHANGED <<row, now, nextRun, at, run, copy, page, handler, validated, granted>>

ReleaseRead(r) ==
  /\ Go(r, "releasing", "clearing")
  /\ row[at[r]].run = run[r]
  /\ page' = [page EXCEPT ![r] = WithLease(row[at[r]], NoRun, 0)]
  /\ UNCHANGED <<row, now, nextRun, at, run, copy, handler, validated, granted>>

ReleaseWrite(r) ==
  /\ Go(r, "clearing", "finishing")
  /\ UpdatePhase(at[r], page[r])
  /\ page' = [page EXCEPT ![r] = Blank]
  /\ UNCHANGED <<now, nextRun, at, run, copy, handler, validated, granted>>

(* The last two lines of the finally clause.  The local phase still holds  *)
(* the lease it was loaded with.                                           *)
FinalWrite(r) ==
  /\ pc[r] = "finishing"
  /\ UpdatePhase(at[r], [copy[r] EXCEPT !.run = run[r]])
  /\ Leave(r)
  /\ UNCHANGED <<now, nextRun, handler, validated, granted>>

(* The process dies, or a page read outside the try block raises: the      *)
(* finally clause's own writes do not happen.                              *)
Crash(r) ==
  /\ MayCrash
  /\ pc[r] # "idle"
  /\ Leave(r)
  /\ UNCHANGED <<row, now, nextRun, handler, validated, granted>>
-----------------------------------------------------------------------------
(* get_phase of handle_slack_event and of run_closeout_manually.           *)
HandlerRead(h) ==
  /\ handler[h] = NoReading
  /\ \E p \in Phases : handler' = [handler EXCEPT ![h] = [phase |-> p, row |-> row[p]]]
  /\ UNCHANGED <<row, now, nextRun, runnerVars, validated, granted>>

(* What a command makes of the row it read: several commands change nothing*)
(* in most statuses.                                                       *)
Stopped(phase) ==
  IF phase.status = "InProgress" THEN MoveTo(phase, "Blocked") ELSE phase

Commanded(phase, command) ==
  CASE command = "approve" -> [phase EXCEPT !.approved = TRUE]
    [] command = "reject"  -> Stopped([phase EXCEPT !.approved = FALSE])
    [] command = "hold"    -> Stopped(phase)
    [] command = "resume"  -> IF phase.status \in {"Blocked", "NeedsReview"}
                                THEN MoveTo(phase, "Ready") ELSE phase
    [] command = "cancel"  -> IF phase.status \in {"Ready", "InProgress"}
                                THEN MoveTo(phase, "Cancelled") ELSE phase
    [] command = "status"  -> phase

Commands == {"approve", "reject", "hold", "resume", "cancel", "status"}

(* handle_slack_event from the parse on.  Text that is no command, or is   *)
(* outside the phase's thread, is ignored; every command ends in           *)
(* update_phase, also when it changed nothing.  A resume of an incomplete  *)
(* phase raises a TransitionError: no write.                               *)
SlackIgnored(h) ==
  /\ handler[h] # NoReading
  /\ handler' = [handler EXCEPT ![h] = NoReading]
  /\ UNCHANGED <<row, now, nextRun, runnerVars, validated, granted>>

SlackCommand(h) ==
  /\ handler[h] # NoReading
  /\ \E command \in Commands :
       /\ (command = "resume" /\ handler[h].row.status \in {"Blocked", "NeedsReview"})
            => handler[h].phase \in Complete
       /\ UpdatePhase(handler[h].phase, Commanded(handler[h].row, command))
       /\ granted' = IF command = "approve" THEN granted \union {handler[h].phase}
                                            ELSE granted
  /\ handler' = [handler EXCEPT ![h] = NoReading]
  /\ UNCHANGED <<now, nextRun, runnerVars, validated>>

(* run_closeout_manually after its ingestion: the row it read is written   *)
(* back, metadata being no Notion property.                                *)
CloseoutRerun(h) ==
  /\ handler[h] # NoReading
  /\ UpdatePhase(handler[h].phase, handler[h].row)
  /\ handler' = [handler EXCEPT ![h] = NoReading]
  /\ UNCHANGED <<now, nextRun, runnerVars, validated, granted>>

(* The operator moves a planned phase to Ready in Notion's own interface.  *)
OperatorReady(p) ==
  /\ row[p].status = "Planned"
  /\ row' = [row EXCEPT ![p].status = "Ready"]
  /\ UNCHANGED <<now, nextRun, runnerVars, handler, validated, granted>>

Tick ==
  /\ now < MaxTime
  /\ now' = now + 1
  /\ UNCHANGED <<row, nextRun, runnerVars, handler, validated, granted>>
-----------------------------------------------------------------------------
RunnerStep(r) ==
  \/ Pick(r) \/ ClaimConflict(r) \/ ClaimRead(r) \/ ClaimWrite(r) \/ Load(r)
  \/ PreflightBlocked(r) \/ Start(r) \/ StartRefused(r) \/ StartRaises(r)
  \/ Announce(r) \/ Execute(r) \/ ExecuteRaises(r)
  \/ ReleaseForeign(r) \/ ReleaseRead(r) \/ ReleaseWrite(r) \/ FinalWrite(r)

HandlerStep(h) == HandlerRead(h) \/ SlackIgnored(h) \/ SlackCommand(h) \/ CloseoutRerun(h)

Next ==
  \/ \E r \in Runners : RunnerStep(r) \/ Crash(r)
  \/ \E h \in Handlers : HandlerStep(h)
  \/ \E p \in Phases : OperatorReady(p)
  \/ Tick

Spec == Init /\ [][Next]_vars

(* A runner that has begun a tick goes on: it is one thread of straight-   *)
(* line code, its backend call has timeout_seconds and each validation     *)
(* command 300 s.                                                          *)
Fairness == \A r \in Runners : WF_vars(RunnerStep(r))

FairSpec == Spec /\ Fairness
-----------------------------------------------------------------------------
(* What the gates guarantee whatever the interleaving, the lost writes and *)
(* the crashes.                                                            *)

(* A row says Done only if a backend run of that phase succeeded and its   *)
(* validation commands passed: no stale copy of any actor, and no path     *)
(* through the finally clause, can invent a completion (check_done_        *)
(* validation, transition_phase).                                          *)
DoneWasValidated == \A p \in Phases : row[p].status = "Done" => p \in validated

(* A backend works on a phase that requires approval only after an approve *)
(* command for it (check_approval).                                        *)
ApprovedBeforeWork ==
  \A r \in Runners :
    pc[r] \in {"started", "executing"} /\ at[r] \in NeedsApproval => at[r] \in granted

(* A backend works on a phase only after every phase it depends on was     *)
(* validated, even though the rows of those phases may have been           *)
(* overwritten since (get_next_ready_phase).                               *)
DependenciesFirst ==
  \A r \in Runners :
    pc[r] \in {"started", "executing"} => Dependencies[at[r]] \subseteq validated

(* Without Slack, lost writes and crashes one runner leaves no phase In    *)
(* Progress with nobody working on it: the last write of its tick takes    *)
(* the phase out of In Progress (the except and finally clauses of         *)
(* run_once).  Two runners may write each other's rows back.               *)
Settles ==
  \A p \in Phases : row[p].status = "InProgress" ~> row[p].status # "InProgress"

(* With one runner, no Slack and no lost write the rows move along the     *)
(* status graph, dependencies first, although the runner writes whole      *)
(* copies of them six times a tick.                                        *)
Lifecycle == INSTANCE PhaseLifecycle WITH status <- [p \in Phases |-> row[p].status]
FollowsLifecycle == Lifecycle!Spec

(* A cancelled phase stays cancelled (ALLOWED_TRANSITIONS; Slack cancel).  *)
CancelledIsFinal ==
  [][\A p \in Phases : row[p].status = "Cancelled" => row'[p].status = "Cancelled"]_vars

(* Once every runner has returned from its tick no lease is active         *)
(* (release_lease in the finally clause).                                  *)
LeaseReleased ==
  (\A r \in Runners : pc[r] = "idle") =>
    \A p \in Phases : ~HasActiveLease(row[p], now)

(* At most one backend works on a phase (claim_lease).                     *)
OneBackend ==
  \A r, s \in Runners :
    pc[r] = "executing" /\ pc[s] = "executing" /\ at[r] = at[s] => r = s
=============================================================================

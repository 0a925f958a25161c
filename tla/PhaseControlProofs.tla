------------------------- MODULE PhaseControlProofs -------------------------
(***************************************************************************)
(* The gates of the phase-control plane, for any number of runners,        *)
(* handlers, phases and ticks, with lost writes and crashes.               *)
(*                                                                         *)
(* Why an invariant stronger than the gates is needed: every actor carries *)
(* copies of rows and may write them back at any time, so what is claimed  *)
(* of a row in the database has to hold of every copy in flight.           *)
(***************************************************************************)
EXTENDS PhaseControl, TLAPS

(* A version of phase p's row that may reach the database.                 *)
Sound(p, phase) ==
  /\ phase.status = "Done" => p \in validated
  /\ phase.approved => p \in granted

(* A phase that passed Pick.                                               *)
Cleared(p) ==
  /\ p \in Phases
  /\ p \in NeedsApproval => p \in granted
  /\ Dependencies[p] \subseteq validated

GateInv ==
  /\ \A p \in Phases : Sound(p, row[p])
  /\ \A r \in Runners : Sound(at[r], copy[r]) /\ Sound(at[r], page[r])
  /\ \A h \in Handlers :
       handler[h] # NoReading => Sound(handler[h].phase, handler[h].row)
  /\ \A r \in Runners : IF pc[r] = "idle" THEN copy[r] = Blank /\ page[r] = Blank
                                          ELSE Cleared(at[r])

IInv == TypeOK /\ GateInv
-----------------------------------------------------------------------------
LEMMA BlankRow == Blank \in Row /\ Blank.status = "Planned" /\ Blank.approved = FALSE
  BY DEF Blank, Row, Status, NoRun

LEMMA OutcomeType ==
  ASSUME NEW result \in {"success", "needs_review", "blocked", "cancelled"},
         NEW passed \in BOOLEAN
  PROVE  /\ Outcome(result, passed) \in Status
         /\ Outcome(result, passed) = "Done" => result = "success" /\ passed
  BY DEF Outcome, Status

LEMMA MoveToType ==
  ASSUME NEW phase \in Row, NEW to \in Status
  PROVE  /\ MoveTo(phase, to) \in Row
         /\ MoveTo(phase, to).status = to
         /\ MoveTo(phase, to).approved = phase.approved
  BY DEF MoveTo, Row

LEMMA WithLeaseType ==
  ASSUME NEW phase \in Row, NEW r \in Nat, NEW e \in Nat
  PROVE  /\ WithLease(phase, r, e) \in Row
         /\ WithLease(phase, r, e).status = phase.status
         /\ WithLease(phase, r, e).approved = phase.approved
  BY DEF WithLease, Row

LEMMA ExceptedType ==
  ASSUME NEW phase \in Row
  PROVE  /\ Excepted(phase) \in Row
         /\ Excepted(phase).status = "Done" => phase.status = "Done"
         /\ Excepted(phase).approved = phase.approved
  BY MoveToType DEF Excepted, Status

LEMMA CommandedType ==
  ASSUME NEW phase \in Row, NEW command \in Commands
  PROVE  /\ Commanded(phase, command) \in Row
         /\ Commanded(phase, command).status = "Done" => phase.status = "Done"
         /\ Commanded(phase, command).approved => phase.approved \/ command = "approve"
  <1> DEFINE unapproved == [phase EXCEPT !.approved = FALSE]
  <1>1. unapproved \in Row /\ unapproved.status = phase.status /\ unapproved.approved = FALSE
    BY DEF Row
  <1>2. CASE command = "approve"
    BY <1>2 DEF Commanded, Row
  <1>3. CASE command = "reject"
    BY <1>1, <1>3, MoveToType DEF Commanded, Stopped, Status
  <1>4. CASE command = "hold"
    BY <1>4, MoveToType DEF Commanded, Stopped, Status
  <1>5. CASE command = "resume"
    BY <1>5, MoveToType DEF Commanded, Status
  <1>6. CASE command = "cancel"
    BY <1>6, MoveToType DEF Commanded, Status
  <1>7. CASE command = "status"
    BY <1>7 DEF Commanded
  <1>8. QED
    BY <1>2, <1>3, <1>4, <1>5, <1>6, <1>7 DEF Commands

LEMMA InitInv == Init => IInv
  <1> SUFFICES ASSUME Init PROVE IInv
    OBVIOUS
  <1>1. TypeOK
    BY BlankRow DEF Init, TypeOK, NoRun, Steps
  <1>2. GateInv
    BY BlankRow DEF Init, GateInv, Sound
  <1>3. QED
    BY <1>1, <1>2 DEF IInv

(* The shapes a step's write and a step's exit take.                       *)
LEMMA UpdateInv ==
  ASSUME TypeOK, NEW p \in Phases, NEW phase \in Row, UpdatePhase(p, phase)
  PROVE  /\ row' \in [Phases -> Row]
         /\ \A q \in Phases : row'[q] = row[q] \/ (q = p /\ row'[q] = phase)
  BY DEF UpdatePhase, TypeOK

LEMMA LeaveInv ==
  ASSUME IInv, NEW r \in Runners, Leave(r), row' = row, now' = now,
         nextRun' = nextRun, handler' = handler, validated' = validated, granted' = granted
  PROVE  IInv'
  BY BlankRow DEF IInv, TypeOK, GateInv, Sound, Cleared, Leave, Steps, NoRun

(* A runner's step, by the part of run_once it belongs to.                 *)
LEMMA ClaimInv ==
  ASSUME IInv, NEW r \in Runners,
         Pick(r) \/ ClaimConflict(r) \/ ClaimRead(r) \/ ClaimWrite(r) \/ Load(r)
  PROVE  IInv'
  <1> USE DEF IInv, Go, Steps
  <1>1. CASE Pick(r)
    <2>1. PICK p \in Phases : Eligible(p) /\ ApprovalSatisfied(row[p], p \in NeedsApproval)
                             /\ at' = [at EXCEPT ![r] = p]
      BY <1>1 DEF Pick
    <2>2. TypeOK'
      BY <1>1, <2>1 DEF Pick, TypeOK, NoRun
    <2>3. \A d \in Dependencies[p] : d \in validated
      BY <2>1, PhaseAssumption DEF Eligible, DependenciesSatisfied, GateInv, Sound
    <2>4. Cleared(p)
      BY <2>1, <2>3 DEF ApprovalSatisfied, GateInv, Sound, Cleared
    <2>5. copy[r] = copy'[r] /\ page[r] = page'[r]
      BY <1>1 DEF Pick
    <2>6. Sound(p, copy[r]) /\ Sound(p, page[r])
      BY <1>1, BlankRow DEF Pick, GateInv, Sound
    <2>7. GateInv'
      BY <1>1, <2>1, <2>4, <2>6 DEF Pick, GateInv, Sound, Cleared, TypeOK
    <2>8. QED
      BY <2>2, <2>7
  <1>2. CASE ClaimConflict(r)
    BY <1>2, LeaveInv DEF ClaimConflict
  <1>3. CASE ClaimRead(r)
    <2> DEFINE claimed == WithLease(row[at[r]], run[r], now + LeaseTime)
    <2>0. row[at[r]] \in Row /\ run[r] \in Nat /\ now + LeaseTime \in Nat
      BY <1>3, BoundAssumption DEF ClaimRead, TypeOK, GateInv, Cleared
    <2>1. /\ claimed \in Row
          /\ claimed.status = row[at[r]].status
          /\ claimed.approved = row[at[r]].approved
      BY <2>0, WithLeaseType
    <2>2. page' = [page EXCEPT ![r] = claimed]
      BY <1>3 DEF ClaimRead
    <2> HIDE DEF claimed
    <2>3. QED
      BY <1>3, <2>1, <2>2 DEF ClaimRead, TypeOK, GateInv, Sound, Cleared
  <1>4. CASE ClaimWrite(r)
    <2>1. at[r] \in Phases /\ page[r] \in Row
      BY <1>4 DEF ClaimWrite, GateInv, Cleared, TypeOK
    <2>2. /\ row' \in [Phases -> Row]
          /\ \A q \in Phases : row'[q] = row[q] \/ (q = at[r] /\ row'[q] = page[r])
      BY <1>4, <2>1, UpdateInv DEF ClaimWrite
    <2>3. QED
      BY <1>4, <2>2, BlankRow DEF ClaimWrite, TypeOK, GateInv, Sound, Cleared
  <1>5. CASE Load(r)
    BY <1>5 DEF Load, TypeOK, GateInv, Sound, Cleared
  <1>6. QED
    BY <1>1, <1>2, <1>3, <1>4, <1>5

LEMMA WorkInv ==
  ASSUME IInv, NEW r \in Runners,
         \/ PreflightBlocked(r) \/ Start(r) \/ StartRefused(r) \/ StartRaises(r)
         \/ Announce(r) \/ Execute(r) \/ ExecuteRaises(r)
  PROVE  IInv'
  <1> USE DEF IInv, Go, Steps
  <1>0. at[r] \in Phases /\ copy[r] \in Row /\ Sound(at[r], copy[r])
    BY DEF PreflightBlocked, Start, StartRefused, StartRaises, Announce, Execute,
           ExecuteRaises, GateInv, Cleared, TypeOK
  <1>1. CASE PreflightBlocked(r)
    <2>1. /\ row' \in [Phases -> Row]
          /\ \A q \in Phases : row'[q] = row[q] \/ (q = at[r] /\ row'[q] = copy[r])
      BY <1>0, <1>1, UpdateInv DEF PreflightBlocked
    <2>2. QED
      BY <1>0, <1>1, <2>1 DEF PreflightBlocked, TypeOK, GateInv, Sound, Cleared
  <1>2. CASE Start(r)
    <2> DEFINE begun == MoveTo(copy[r], "InProgress")
    <2>1. begun \in Row /\ begun.status = "InProgress" /\ begun.approved = copy[r].approved
      BY <1>0, MoveToType DEF Status
    <2>2. UpdatePhase(at[r], begun) /\ copy' = [copy EXCEPT ![r] = begun]
      BY <1>2 DEF Start
    <2> HIDE DEF begun
    <2>3. /\ row' \in [Phases -> Row]
          /\ \A q \in Phases : row'[q] = row[q] \/ (q = at[r] /\ row'[q] = begun)
      BY <1>0, <2>1, <2>2, UpdateInv
    <2>4. QED
      BY <1>0, <1>2, <2>1, <2>2, <2>3 DEF Start, TypeOK, GateInv, Sound, Cleared
  <1>3. CASE StartRefused(r)
    <2> DEFINE ended == Excepted(copy[r])
    <2>1. /\ ended \in Row
          /\ ended.status = "Done" => copy[r].status = "Done"
          /\ ended.approved = copy[r].approved
      BY <1>0, ExceptedType
    <2>2. copy' = [copy EXCEPT ![r] = ended]
      BY <1>3 DEF StartRefused
    <2> HIDE DEF ended
    <2>3. QED
      BY <1>0, <1>3, <2>1, <2>2 DEF StartRefused, TypeOK, GateInv, Sound, Cleared
  <1>4. CASE StartRaises(r)
    <2> DEFINE begun == IF CanTransition(copy[r].status, "InProgress")
                          THEN MoveTo(copy[r], "InProgress") ELSE copy[r]
    <2> DEFINE ended == Excepted(begun)
    <2>1. /\ begun \in Row
          /\ begun.status = "Done" => copy[r].status = "Done"
          /\ begun.approved = copy[r].approved
      BY <1>0, MoveToType DEF Status
    <2>2. copy' = [copy EXCEPT ![r] = ended]
      BY <1>4 DEF StartRaises
    <2> HIDE DEF begun
    <2>3. /\ ended \in Row
          /\ ended.status = "Done" => copy[r].status = "Done"
          /\ ended.approved = copy[r].approved
      BY <2>1, ExceptedType
    <2> HIDE DEF ended
    <2>4. QED
      BY <1>0, <1>4, <2>2, <2>3 DEF StartRaises, TypeOK, GateInv, Sound, Cleared
  <1>5. CASE Announce(r)
    <2>1. /\ row' \in [Phases -> Row]
          /\ \A q \in Phases : row'[q] = row[q] \/ (q = at[r] /\ row'[q] = copy[r])
      BY <1>0, <1>5, UpdateInv DEF Announce, TypeOK
    <2>2. QED
      BY <1>0, <1>5, <2>1 DEF Announce, TypeOK, GateInv, Sound, Cleared
  <1>6. CASE Execute(r)
    <2>1. PICK result \in {"success", "needs_review", "blocked", "cancelled"},
               passed \in BOOLEAN :
            /\ copy' = [copy EXCEPT ![r] = MoveTo(copy[r], Outcome(result, passed))]
            /\ validated' = IF result = "success" /\ passed
                              THEN validated \union {at[r]} ELSE validated
      BY <1>6 DEF Execute
    <2> DEFINE ended == MoveTo(copy[r], Outcome(result, passed))
    <2>2. /\ ended \in Row
          /\ ended.status = "Done" => at[r] \in validated'
          /\ ended.approved = copy[r].approved
      <3>1. Outcome(result, passed) \in Status
        BY OutcomeType
      <3>2. ended.status = "Done" => result = "success" /\ passed
        <4>1. ended.status = Outcome(result, passed)
          BY <1>0, <3>1, MoveToType
        <4>2. Outcome(result, passed) = "Done" => result = "success" /\ passed
          BY OutcomeType, Zenon
        <4>3. QED
          BY <4>1, <4>2, Zenon
      <3>3. ended.status = "Done" => at[r] \in validated'
        <4>1. result = "success" /\ passed => validated' = validated \union {at[r]}
          BY <2>1, Zenon
        <4>2. QED
          BY <3>2, <4>1
      <3>4. ended \in Row /\ ended.approved = copy[r].approved
        BY <1>0, <3>1, MoveToType
      <3>5. QED
        BY <3>3, <3>4
    <2>3. copy' = [copy EXCEPT ![r] = ended]
      BY <2>1
    <2> HIDE DEF ended
    <2>4. validated \subseteq validated' /\ validated' \subseteq Phases
      BY <1>0, <2>1 DEF TypeOK
    <2>5. QED
      BY <1>0, <1>6, <2>2, <2>3, <2>4 DEF Execute, TypeOK, GateInv, Sound, Cleared
  <1>7. CASE ExecuteRaises(r)
    <2> DEFINE ended == Excepted(copy[r])
    <2>1. /\ ended \in Row
          /\ ended.status = "Done" => copy[r].status = "Done"
          /\ ended.approved = copy[r].approved
      BY <1>0, ExceptedType
    <2>2. copy' = [copy EXCEPT ![r] = ended]
      BY <1>7 DEF ExecuteRaises
    <2> HIDE DEF ended
    <2>3. QED
      BY <1>0, <1>7, <2>1, <2>2 DEF ExecuteRaises, TypeOK, GateInv, Sound, Cleared
  <1>8. QED
    BY <1>1, <1>2, <1>3, <1>4, <1>5, <1>6, <1>7

LEMMA ReleaseInv ==
  ASSUME IInv, NEW r \in Runners,
         \/ ReleaseForeign(r) \/ ReleaseRead(r) \/ ReleaseWrite(r) \/ FinalWrite(r)
  PROVE  IInv'
  <1> USE DEF IInv, Go, Steps
  <1>0. at[r] \in Phases /\ run[r] \in Nat /\ copy[r] \in Row /\ page[r] \in Row
    BY DEF ReleaseForeign, ReleaseRead, ReleaseWrite, FinalWrite, GateInv, Cleared, TypeOK
  <1>1. CASE ReleaseForeign(r)
    BY <1>1 DEF ReleaseForeign, TypeOK, GateInv, Sound, Cleared
  <1>2. CASE ReleaseRead(r)
    <2> DEFINE released == WithLease(row[at[r]], NoRun, 0)
    <2>1. /\ released \in Row
          /\ released.status = row[at[r]].status
          /\ released.approved = row[at[r]].approved
      <3>1. row[at[r]] \in Row /\ NoRun \in Nat /\ 0 \in Nat
        BY <1>0 DEF TypeOK, NoRun
      <3>2. QED
        BY <3>1, WithLeaseType
    <2>2. page' = [page EXCEPT ![r] = released]
      BY <1>2 DEF ReleaseRead
    <2> HIDE DEF released
    <2>3. QED
      BY <1>0, <1>2, <2>1, <2>2 DEF ReleaseRead, TypeOK, GateInv, Sound, Cleared
  <1>3. CASE ReleaseWrite(r)
    <2>1. /\ row' \in [Phases -> Row]
          /\ \A q \in Phases : row'[q] = row[q] \/ (q = at[r] /\ row'[q] = page[r])
      BY <1>0, <1>3, UpdateInv DEF ReleaseWrite
    <2>2. QED
      BY <1>0, <1>3, <2>1, BlankRow DEF ReleaseWrite, TypeOK, GateInv, Sound, Cleared
  <1>4. CASE FinalWrite(r)
    <2> DEFINE final == [copy[r] EXCEPT !.run = run[r]]
    <2>1. final \in Row /\ final.status = copy[r].status /\ final.approved = copy[r].approved
      BY <1>0 DEF Row
    <2>2. UpdatePhase(at[r], final)
      BY <1>4 DEF FinalWrite
    <2> HIDE DEF final
    <2>3. /\ row' \in [Phases -> Row]
          /\ \A q \in Phases : row'[q] = row[q] \/ (q = at[r] /\ row'[q] = final)
      BY <1>0, <2>1, <2>2, UpdateInv
    <2>4. QED
      BY <1>0, <1>4, <2>1, <2>3, BlankRow
         DEF FinalWrite, Leave, NoRun, TypeOK, GateInv, Sound, Cleared
  <1>5. QED
    BY <1>1, <1>2, <1>3, <1>4

(* The steps of the handlers, the operator and the clock.                  *)
LEMMA HandlerInv ==
  ASSUME IInv, NEW h \in Handlers, HandlerStep(h)
  PROVE  IInv'
  <1> USE DEF IInv, runnerVars
  <1>1. CASE HandlerRead(h)
    <2>1. PICK p \in Phases : handler' = [handler EXCEPT ![h] = [phase |-> p, row |-> row[p]]]
      BY <1>1 DEF HandlerRead
    <2>2. [phase |-> p, row |-> row[p]] \in Reading
      BY DEF Reading, TypeOK
    <2>3. QED
      BY <1>1, <2>1, <2>2 DEF HandlerRead, TypeOK, GateInv, Sound, Cleared
  <1>2. CASE SlackIgnored(h)
    BY <1>2 DEF SlackIgnored, TypeOK, GateInv, Sound, Cleared
  <1>3. ASSUME handler[h] # NoReading
        PROVE  /\ handler[h].phase \in Phases /\ handler[h].row \in Row
               /\ Sound(handler[h].phase, handler[h].row)
    BY <1>3 DEF TypeOK, Reading, GateInv
  <1>4. CASE SlackCommand(h)
    <2> DEFINE p == handler[h].phase
    <2>1. PICK command \in Commands :
            /\ UpdatePhase(p, Commanded(handler[h].row, command))
            /\ granted' = IF command = "approve" THEN granted \union {p} ELSE granted
      BY <1>4 DEF SlackCommand
    <2> DEFINE phase == Commanded(handler[h].row, command)
    <2>2. p \in Phases /\ handler[h].row \in Row /\ Sound(p, handler[h].row)
      BY <1>3, <1>4 DEF SlackCommand
    <2>3. /\ phase \in Row
          /\ phase.status = "Done" => p \in validated
          /\ phase.approved => p \in granted'
      BY <2>1, <2>2, CommandedType DEF Sound
    <2>4. UpdatePhase(p, phase)
      BY <2>1
    <2>5. granted \subseteq granted' /\ granted' \subseteq Phases
      BY <2>1, <2>2 DEF TypeOK
    <2> HIDE DEF p, phase
    <2>6. /\ row' \in [Phases -> Row]
          /\ \A q \in Phases : row'[q] = row[q] \/ (q = p /\ row'[q] = phase)
      BY <2>2, <2>3, <2>4, UpdateInv
    <2>7. QED
      BY <1>4, <2>2, <2>3, <2>5, <2>6 DEF SlackCommand, TypeOK, GateInv, Sound, Cleared
  <1>5. CASE CloseoutRerun(h)
    <2>1. /\ row' \in [Phases -> Row]
          /\ \A q \in Phases : row'[q] = row[q]
                               \/ (q = handler[h].phase /\ row'[q] = handler[h].row)
      BY <1>3, <1>5, UpdateInv DEF CloseoutRerun
    <2>2. QED
      BY <1>3, <1>5, <2>1 DEF CloseoutRerun, TypeOK, GateInv, Sound, Cleared
  <1>6. QED
    BY <1>1, <1>2, <1>4, <1>5 DEF HandlerStep

LEMMA EnvironmentInv ==
  ASSUME IInv, Tick \/ \E p \in Phases : OperatorReady(p)
  PROVE  IInv'
  <1> USE DEF IInv, runnerVars
  <1>1. CASE Tick
    BY <1>1 DEF Tick, TypeOK, GateInv, Sound, Cleared
  <1>2. ASSUME NEW p \in Phases, OperatorReady(p)
        PROVE  IInv'
    <2> DEFINE readied == [row[p] EXCEPT !.status = "Ready"]
    <2>1. readied \in Row /\ readied.status = "Ready" /\ readied.approved = row[p].approved
      BY DEF TypeOK, Row, Status
    <2>2. row' = [row EXCEPT ![p] = readied]
      BY <1>2 DEF OperatorReady, TypeOK
    <2> HIDE DEF readied
    <2>3. QED
      BY <1>2, <2>1, <2>2 DEF OperatorReady, TypeOK, GateInv, Sound, Cleared
  <1>3. QED
    BY <1>1, <1>2

LEMMA NextInv == IInv /\ [Next]_vars => IInv'
  <1> SUFFICES ASSUME IInv, [Next]_vars PROVE IInv'
    OBVIOUS
  <1>1. ASSUME NEW r \in Runners, RunnerStep(r) PROVE IInv'
    BY <1>1, ClaimInv, WorkInv, ReleaseInv DEF RunnerStep
  <1>2. ASSUME NEW r \in Runners, Crash(r) PROVE IInv'
    BY <1>2, LeaveInv DEF Crash
  <1>3. ASSUME NEW h \in Handlers, HandlerStep(h) PROVE IInv'
    BY <1>3, HandlerInv
  <1>4. CASE UNCHANGED vars
    BY <1>4 DEF vars, IInv, TypeOK, GateInv, Sound, Cleared
  <1>5. QED
    BY <1>1, <1>2, <1>3, <1>4, EnvironmentInv DEF Next
-----------------------------------------------------------------------------
(* Every variable keeps its type, for all values of the constants.         *)
THEOREM Typing == Spec => []TypeOK
  <1>1. IInv => TypeOK
    BY DEF IInv
  <1>2. QED
    BY <1>1, InitInv, NextInv, PTL DEF Spec

(* Whatever runners, Slack handlers, lost writes and crashes do to the     *)
(* database, a row reads Done only after a successful backend run whose    *)
(* validations passed.                                                     *)
THEOREM DoneIsValidated == Spec => []DoneWasValidated
  <1>1. IInv => DoneWasValidated
    BY DEF IInv, GateInv, Sound, DoneWasValidated
  <1>2. QED
    BY <1>1, InitInv, NextInv, PTL DEF Spec

(* No backend starts on a phase that requires approval before somebody     *)
(* approved it.                                                            *)
THEOREM WorkIsApproved == Spec => []ApprovedBeforeWork
  <1>1. IInv => ApprovedBeforeWork
    BY DEF IInv, GateInv, Cleared, ApprovedBeforeWork
  <1>2. QED
    BY <1>1, InitInv, NextInv, PTL DEF Spec

(* No backend starts on a phase before each of its dependencies was        *)
(* validated.                                                              *)
THEOREM WorkIsOrdered == Spec => []DependenciesFirst
  <1>1. IInv => DependenciesFirst
    BY DEF IInv, GateInv, Cleared, DependenciesFirst
  <1>2. QED
    BY <1>1, InitInv, NextInv, PTL DEF Spec
-----------------------------------------------------------------------------
(* The refinement of PhaseLifecycle: one runner, which may die between any *)
(* two steps, no handler and no lost write; any phases and dependencies.   *)
Alone(r) == Runners = {r} /\ Handlers = {} /\ MayLose = FALSE

Ended == {"Done", "NeedsReview", "Blocked", "Cancelled"}

(* The row is behind the runner's copy only once the phase has ended, and  *)
(* then by one transition of the graph.                                    *)
InStep(r) ==
  /\ pc[r] \in {"picked", "claiming", "claimed"} => row[at[r]].status = "Ready"
  /\ pc[r] = "loaded" => row[at[r]].status = "Ready" /\ copy[r].status = "Ready"
  /\ pc[r] \in {"started", "executing"} =>
       row[at[r]].status = "InProgress" /\ copy[r].status = "InProgress"
  /\ pc[r] \in {"releasing", "clearing", "finishing"} =>
       \/ row[at[r]].status = "InProgress" /\ copy[r].status \in Ended
       \/ row[at[r]].status = "Ready" /\ copy[r].status = "Ready"
  /\ pc[r] \in {"claiming", "clearing"} => page[r].status = row[at[r]].status

Busy(r) ==
  /\ at[r] \in Complete /\ at[r] \in Phases
  /\ at[r] \notin Dependencies[at[r]]
  /\ \A d \in Dependencies[at[r]] : row[d].status = "Done"
  /\ InStep(r)

LifecycleInv(r) == IInv /\ (pc[r] # "idle" => Busy(r))

statuses == [p \in Phases |-> row[p].status]

LEMMA Transitions ==
  /\ CanTransition("Planned", "Ready") /\ CanTransition("Ready", "InProgress")
  /\ \A to \in Ended : CanTransition("InProgress", to) /\ to \in Status \ {"InProgress"}
  /\ "Ready" \in Status \ {"InProgress"}
  BY DEF CanTransition, AllowedTransitions, Ended, Status

Written(p, phase) == row' = [row EXCEPT ![p] = phase]

(* A write of a whole row, seen through the mapping.                       *)
LEMMA WriteMapped ==
  ASSUME TypeOK, NEW p \in Phases, NEW phase \in Row, Written(p, phase),
         NEW to, to = phase.status
  PROVE  /\ row'[p] = phase
         /\ \A q \in Phases \ {p} : row'[q] = row[q]
         /\ statuses' = [statuses EXCEPT ![p] = to]
         /\ to = row[p].status => /\ statuses' = statuses
                                  /\ \A q \in Phases : row'[q].status = row[q].status
  BY DEF TypeOK, statuses, Written

(* The runner's steps that move no status.                                 *)
LEMMA QuietStep ==
  ASSUME NEW r \in Runners, Alone(r), LifecycleInv(r), IInv', Dependencies \in [Phases -> SUBSET Phases],
         \/ Pick(r) \/ ClaimConflict(r) \/ ClaimRead(r) \/ ClaimWrite(r) \/ Load(r)
         \/ PreflightBlocked(r) \/ StartRefused(r) \/ Announce(r)
         \/ Execute(r) \/ ExecuteRaises(r)
         \/ ReleaseForeign(r) \/ ReleaseRead(r) \/ ReleaseWrite(r) \/ Crash(r)
  PROVE  LifecycleInv(r)' /\ statuses' = statuses
  <1> USE DEF LifecycleInv, IInv, TypeOK, Go, Alone, Steps
  <1>1. CASE Pick(r)
    <2>1. PICK p \in Phases : Eligible(p) /\ p \in Complete /\ at' = [at EXCEPT ![r] = p]
      BY <1>1 DEF Pick
    <2>2. at'[r] = p /\ pc'[r] = "picked" /\ row' = row
      BY <1>1, <2>1 DEF Pick
    <2>3. row[p].status = "Ready" /\ \A d \in Dependencies[p] : row[d].status = "Done"
      BY <2>1 DEF Eligible, DependenciesSatisfied
    <2>4. QED
      BY <2>1, <2>2, <2>3 DEF Busy, InStep, statuses
  <1>2. CASE ClaimConflict(r) \/ Crash(r)
    BY <1>2 DEF ClaimConflict, Crash, Leave, statuses
  <1>3. CASE ClaimRead(r)
    <2>1. /\ pc[r] = "picked" /\ pc'[r] = "claiming" /\ at' = at /\ row' = row
          /\ page'[r] = WithLease(row[at[r]], run[r], now + LeaseTime)
      BY <1>3 DEF ClaimRead
    <2>a. row[at[r]] \in Row /\ run[r] \in Nat /\ now + LeaseTime \in Nat
      BY <2>1, BoundAssumption DEF Busy
    <2>b. WithLease(row[at[r]], run[r], now + LeaseTime).status = row[at[r]].status
      <3> HIDE DEF LifecycleInv, IInv, TypeOK
      <3> QED
        BY <2>a, WithLeaseType
    <2>2. page'[r].status = row[at[r]].status
      BY <2>1, <2>b
    <2>3. QED
      BY <2>1, <2>2 DEF Busy, InStep, statuses
  <1>4. CASE ClaimWrite(r)
    <2>1. /\ pc[r] = "claiming" /\ pc'[r] = "claimed" /\ at' = at
          /\ Written(at[r], page[r])
      BY <1>4 DEF ClaimWrite, UpdatePhase, Written
    <2>2. page[r].status = row[at[r]].status /\ at[r] \in Phases /\ page[r] \in Row
      BY <2>1 DEF Busy, InStep
    <2>3. QED
      BY <2>1, <2>2, WriteMapped DEF Busy, InStep
  <1>5. CASE Load(r)
    BY <1>5 DEF Load, Busy, InStep, statuses
  <1>6. CASE PreflightBlocked(r) \/ Announce(r)
    <2>1. /\ pc[r] \in {"loaded", "started"} /\ at' = at /\ copy' = copy
          /\ pc'[r] = IF pc[r] = "loaded" THEN "releasing" ELSE "executing"
          /\ row' = row \/ Written(at[r], copy[r])
      BY <1>6 DEF PreflightBlocked, Announce, UpdatePhase, Written
    <2>2. copy[r].status = row[at[r]].status /\ at[r] \in Phases /\ copy[r] \in Row
      BY <2>1 DEF Busy, InStep
    <2>3. statuses' = statuses /\ \A q \in Phases : row'[q].status = row[q].status
      <3>1. CASE row' = row
        BY <3>1 DEF statuses
      <3>2. CASE Written(at[r], copy[r])
        BY <2>2, <3>2, WriteMapped
      <3>3. QED
        BY <2>1, <3>1, <3>2
    <2>4. QED
      BY <2>1, <2>2, <2>3 DEF Busy, InStep
  <1>7. CASE StartRefused(r)
    BY <1>7, Transitions DEF StartRefused, Busy, InStep
  <1>8. CASE Execute(r) \/ ExecuteRaises(r)
    <2>1. /\ pc[r] = "executing" /\ pc'[r] = "releasing" /\ at' = at /\ row' = row
          /\ copy'[r].status \in Ended
      <3>1. CASE Execute(r)
        <4>1. PICK result \in {"success", "needs_review", "blocked", "cancelled"}, passed \in BOOLEAN :
                copy' = [copy EXCEPT ![r] = MoveTo(copy[r], Outcome(result, passed))]
          BY <3>1 DEF Execute
        <4>2. Outcome(result, passed) \in Ended
          BY DEF Outcome, Ended
        <4>3. QED
          BY <3>1, <4>1, <4>2, MoveToType DEF Execute, Ended, Status
      <3>2. CASE ExecuteRaises(r)
        <4>1. copy[r].status = "InProgress" /\ copy'[r] = Excepted(copy[r])
          BY <3>2 DEF ExecuteRaises, Busy, InStep
        <4>2. QED
          BY <3>2, <4>1, MoveToType DEF ExecuteRaises, Excepted, Ended, Status
      <3>3. QED
        BY <1>8, <3>1, <3>2
    <2>2. QED
      BY <2>1 DEF Busy, InStep, statuses
  <1>9. CASE ReleaseForeign(r)
    BY <1>9 DEF ReleaseForeign, Busy, InStep, statuses
  <1>10. CASE ReleaseRead(r)
    <2>1. /\ pc[r] = "releasing" /\ pc'[r] = "clearing" /\ at' = at /\ row' = row /\ copy' = copy
          /\ page'[r] = WithLease(row[at[r]], NoRun, 0)
      BY <1>10 DEF ReleaseRead
    <2>a. row[at[r]] \in Row /\ NoRun \in Nat /\ 0 \in Nat
      BY <2>1 DEF Busy, NoRun
    <2>b. WithLease(row[at[r]], NoRun, 0).status = row[at[r]].status
      <3> HIDE DEF LifecycleInv, IInv, TypeOK
      <3> QED
        BY <2>a, WithLeaseType
    <2>2. page'[r].status = row[at[r]].status
      BY <2>1, <2>b
    <2>3. QED
      BY <2>1, <2>2 DEF Busy, InStep, statuses
  <1>11. CASE ReleaseWrite(r)
    <2>1. /\ pc[r] = "clearing" /\ pc'[r] = "finishing" /\ at' = at /\ copy' = copy
          /\ Written(at[r], page[r])
      BY <1>11 DEF ReleaseWrite, UpdatePhase, Written
    <2>2. page[r].status = row[at[r]].status /\ at[r] \in Phases /\ page[r] \in Row
      BY <2>1 DEF Busy, InStep
    <2>3. QED
      BY <2>1, <2>2, WriteMapped DEF Busy, InStep
  <1>12. QED
    BY <1>1, <1>2, <1>3, <1>4, <1>5, <1>6, <1>7, <1>8, <1>9, <1>10, <1>11

LEMMA WithRunType ==
  ASSUME NEW phase \in Row, NEW n \in Nat
  PROVE  /\ [phase EXCEPT !.run = n] \in Row
         /\ [phase EXCEPT !.run = n].status = phase.status
  BY DEF Row

(* The steps that move one.                                                *)
LEMMA StartMapped ==
  ASSUME NEW r \in Runners, Alone(r), LifecycleInv(r), IInv', Start(r)
  PROVE  LifecycleInv(r)' /\ Lifecycle!Next
  <1> USE DEF LifecycleInv, IInv, TypeOK
  <1> DEFINE begun == MoveTo(copy[r], "InProgress")
  <1>1. /\ pc[r] = "loaded" /\ pc'[r] = "started" /\ at' = at /\ copy'[r] = begun
        /\ Written(at[r], begun)
    BY DEF Start, Go, UpdatePhase, Alone, Written
  <1>2. Busy(r) /\ at[r] \in Phases /\ row[at[r]].status = "Ready"
    BY <1>1 DEF Busy, InStep
  <1>3. begun \in Row /\ begun.status = "InProgress"
    BY MoveToType DEF Status
  <1>4. /\ row'[at[r]] = begun /\ \A q \in Phases \ {at[r]} : row'[q] = row[q]
        /\ statuses' = [statuses EXCEPT ![at[r]] = "InProgress"]
    BY <1>1, <1>2, <1>3, WriteMapped
  <1>5. Busy(r)'
    <2>1. \A d \in Dependencies[at[r]] : d \in Phases \ {at[r]}
      BY <1>2, PhaseAssumption DEF Busy
    <2>2. \A d \in Dependencies[at[r]] : row'[d].status = "Done"
      BY <1>2, <1>4, <2>1 DEF Busy
    <2>3. InStep(r)'
      BY <1>1, <1>3, <1>4 DEF InStep
    <2>4. QED
      BY <1>1, <1>2, <2>2, <2>3 DEF Busy
  <1>6. PICK p \in Phases : p = at[r]
    BY <1>2
  <1>7. Lifecycle!Begin(p)
    BY <1>2, <1>4, <1>6, Transitions, PhaseAssumption DEF Lifecycle!Begin, Lifecycle!CanTransition, Lifecycle!AllowedTransitions, CanTransition, AllowedTransitions, Busy, statuses
  <1>8. QED
    BY <1>5, <1>7 DEF Lifecycle!Next

LEMMA FinalMapped ==
  ASSUME NEW r \in Runners, Alone(r), LifecycleInv(r), IInv', FinalWrite(r)
  PROVE  LifecycleInv(r)' /\ (Lifecycle!Next \/ statuses' = statuses)
  <1> USE DEF LifecycleInv, IInv, TypeOK
  <1> DEFINE last == [copy[r] EXCEPT !.run = run[r]]
  <1>1. pc[r] = "finishing" /\ pc'[r] = "idle" /\ Written(at[r], last)
    BY DEF FinalWrite, Leave, UpdatePhase, Alone, Written
  <1>2. /\ at[r] \in Phases
        /\ \/ row[at[r]].status = "InProgress" /\ copy[r].status \in Ended
           \/ row[at[r]].status = "Ready" /\ copy[r].status = "Ready"
    BY <1>1 DEF Busy, InStep
  <1>3. last \in Row /\ last.status = copy[r].status
    BY WithRunType
  <1> HIDE DEF last
  <1>4. /\ statuses' = [statuses EXCEPT ![at[r]] = copy[r].status]
        /\ copy[r].status = row[at[r]].status => statuses' = statuses
    BY <1>1, <1>2, <1>3, WriteMapped
  <1>5. CASE copy[r].status \in Ended /\ row[at[r]].status = "InProgress"
    <2>1. PICK p \in Phases : p = at[r]
      BY <1>2
    <2>2. Lifecycle!Move(p)
      BY <1>4, <1>5, <2>1, Transitions DEF Lifecycle!Move, Lifecycle!CanTransition, Lifecycle!AllowedTransitions, Lifecycle!Status, CanTransition, AllowedTransitions, Status, statuses
    <2>3. QED
      BY <1>1, <2>2 DEF Lifecycle!Next
  <1>6. QED
    BY <1>1, <1>2, <1>4, <1>5

LEMMA ReadyMapped ==
  ASSUME NEW r \in Runners, LifecycleInv(r), IInv', NEW p \in Phases, OperatorReady(p)
  PROVE  LifecycleInv(r)' /\ Lifecycle!Move(p)
  <1> USE DEF LifecycleInv, IInv, TypeOK
  <1> DEFINE readied == [row[p] EXCEPT !.status = "Ready"]
  <1>1. row[p].status = "Planned" /\ UNCHANGED <<pc, at, copy, page>>
    BY DEF OperatorReady, runnerVars
  <1>2. readied \in Row /\ readied.status = "Ready" /\ Written(p, readied)
    BY DEF OperatorReady, Row, Status, Written
  <1> HIDE DEF readied
  <1>3. /\ \A q \in Phases \ {p} : row'[q] = row[q]
        /\ statuses' = [statuses EXCEPT ![p] = "Ready"]
    BY <1>2, WriteMapped
  <1>4. ASSUME Busy(r), pc[r] # "idle" PROVE Busy(r)'
    <2>1. p # at[r]
      BY <1>1, <1>4 DEF Busy, InStep, Steps
    <2>2. p \notin Dependencies[at[r]] /\ \A d \in Dependencies[at[r]] : d \in Phases
      BY <1>1, <1>4, PhaseAssumption DEF Busy
    <2>3. QED
      BY <1>1, <1>3, <1>4, <2>1, <2>2 DEF Busy, InStep
  <1>5. Lifecycle!Move(p)
    BY <1>1, <1>3, Transitions DEF Lifecycle!Move, Lifecycle!CanTransition, Lifecycle!AllowedTransitions, Lifecycle!Status, CanTransition, AllowedTransitions, Status, statuses
  <1>6. QED
    BY <1>1, <1>4, <1>5

LEMMA LifecycleStep ==
  ASSUME NEW r, Alone(r), LifecycleInv(r), [Next]_vars
  PROVE  LifecycleInv(r)' /\ [Lifecycle!Next]_statuses
  <1>0. IInv /\ IInv' /\ r \in Runners
    BY NextInv DEF LifecycleInv, Alone
  <1>1. CASE RunnerStep(r) \/ Crash(r)
    <2>2. ~StartRaises(r)
      BY DEF StartRaises, Alone
    <2>3. CASE Start(r)
      BY <1>0, <2>3, StartMapped
    <2>4. CASE FinalWrite(r)
      BY <1>0, <2>4, FinalMapped
    <2>5. QED
      BY <1>0, <1>1, <2>2, <2>3, <2>4, QuietStep, PhaseAssumption DEF RunnerStep
  <1>2. ASSUME NEW p \in Phases, OperatorReady(p) PROVE LifecycleInv(r)' /\ Lifecycle!Next
    BY <1>0, <1>2, ReadyMapped DEF Lifecycle!Next
  <1>3. CASE Tick \/ UNCHANGED vars
    BY <1>0, <1>3 DEF Tick, vars, runnerVars, LifecycleInv, Busy, InStep, statuses
  <1>4. QED
    BY <1>1, <1>2, <1>3 DEF Next, Alone

(* With one runner, no Slack handler and no lost write, whatever phases,   *)
(* dependencies, expired leases and crashes, every change of a status      *)
(* follows the status graph, and a phase is begun only after the phases it *)
(* depends on are Done: the plane implements PhaseLifecycle.               *)
THEOREM Implements == ASSUME NEW r, Alone(r) PROVE Spec => FollowsLifecycle
  <1>1. Init => LifecycleInv(r) /\ Lifecycle!Init
    BY InitInv DEF Init, LifecycleInv, Lifecycle!Init, Alone, Blank
  <1>2. LifecycleInv(r) /\ [Next]_vars => LifecycleInv(r)' /\ [Lifecycle!Next]_statuses
    BY LifecycleStep
  <1>3. QED
    BY <1>1, <1>2, PTL DEF Spec, FollowsLifecycle, Lifecycle!Spec, statuses
-----------------------------------------------------------------------------
(* What Settles rests on besides fairness: a phase in progress has its     *)
(* runner, and every step brings the end of the runner's tick nearer.      *)
Attended(r) ==
  \A p \in Phases : row[p].status = "InProgress" => pc[r] # "idle" /\ at[r] = p

(* The most steps that a tick still takes from where it is.                *)
StepsLeft(step) ==
  CASE step = "idle"      -> 0
    [] step = "finishing" -> 1
    [] step = "clearing"  -> 2
    [] step = "releasing" -> 3
    [] step = "executing" -> 4
    [] step = "started"   -> 5
    [] step = "loaded"    -> 6
    [] step = "claimed"   -> 7
    [] step = "claiming"  -> 8
    [] step = "picked"    -> 9

(* A tick that has begun ends after nine more steps at the most, and only  *)
(* its own steps move it (run_once is one pass through its stages).        *)
TicksEnd ==
  [][\A r \in Runners :
       /\ RunnerStep(r) /\ pc[r] # "idle" => StepsLeft(pc[r])' < StepsLeft(pc[r])
       /\ pc[r] # "idle" => StepsLeft(pc[r])' <= StepsLeft(pc[r])]_vars

LEMMA StepNearer ==
  ASSUME TypeOK, NEW r \in Runners, RunnerStep(r), pc[r] # "idle"
  PROVE  StepsLeft(pc'[r]) < StepsLeft(pc[r])
  BY DEF TypeOK, RunnerStep, Pick, ClaimConflict, ClaimRead, ClaimWrite, Load, PreflightBlocked,
         Start, StartRefused, StartRaises, Announce, Execute, ExecuteRaises, ReleaseForeign,
         ReleaseRead, ReleaseWrite, FinalWrite, Go, Leave, StepsLeft

LEMMA OthersWait ==
  ASSUME TypeOK, NEW r \in Runners, NEW s \in Runners, RunnerStep(s) \/ Crash(s), r # s
  PROVE  pc'[r] = pc[r]
  BY DEF TypeOK, RunnerStep, Pick, ClaimConflict, ClaimRead, ClaimWrite, Load, PreflightBlocked,
         Start, StartRefused, StartRaises, Announce, Execute, ExecuteRaises, ReleaseForeign,
         ReleaseRead, ReleaseWrite, FinalWrite, Crash, Go, Leave

(* For any runners and handlers, with crashes and lost writes.             *)
THEOREM TicksAreFinite == Spec => TicksEnd
  <1>1. IInv /\ [Next]_vars =>
          [\A r \in Runners :
             /\ RunnerStep(r) /\ pc[r] # "idle" => StepsLeft(pc[r])' < StepsLeft(pc[r])
             /\ pc[r] # "idle" => StepsLeft(pc[r])' <= StepsLeft(pc[r])]_vars
    <2> SUFFICES ASSUME IInv, Next, NEW r \in Runners, pc[r] # "idle"
                 PROVE  /\ RunnerStep(r) => StepsLeft(pc'[r]) < StepsLeft(pc[r])
                        /\ StepsLeft(pc'[r]) <= StepsLeft(pc[r])
      OBVIOUS
    <2>1. \A step \in Steps : StepsLeft(step) \in Nat
      BY DEF Steps, StepsLeft
    <2>2. /\ TypeOK /\ pc'[r] \in Steps
          /\ StepsLeft(pc[r]) \in Nat /\ StepsLeft(pc'[r]) \in Nat
      BY <2>1, NextInv DEF IInv, TypeOK
    <2>3. CASE RunnerStep(r)
      <3>1. StepsLeft(pc'[r]) < StepsLeft(pc[r])
        BY <2>2, <2>3, StepNearer
      <3>2. QED
        BY <2>2, <3>1
    <2>4. CASE Crash(r)
      <3>1. pc'[r] = "idle"
        BY <2>2, <2>4 DEF Crash, Leave, TypeOK
      <3>2. StepsLeft(pc'[r]) = 0
        BY <3>1 DEF StepsLeft
      <3>3. QED
        BY <2>2, <2>3, <3>2
    <2>5. CASE pc'[r] = pc[r]
      BY <2>2, <2>3, <2>5
    <2>6. QED
      <3>1. ASSUME NEW s \in Runners, RunnerStep(s) \/ Crash(s)
            PROVE  RunnerStep(r) \/ Crash(r) \/ pc'[r] = pc[r]
        BY <2>2, <3>1, OthersWait
      <3>2. ASSUME \/ \E h \in Handlers : HandlerStep(h)
                   \/ \E p \in Phases : OperatorReady(p)
                   \/ Tick
            PROVE  pc'[r] = pc[r]
        BY <3>2 DEF HandlerStep, HandlerRead, SlackIgnored, SlackCommand, CloseoutRerun,
                    OperatorReady, Tick, runnerVars
      <3>3. QED
        BY <2>3, <2>4, <2>5, <3>1, <3>2 DEF Next
  <1>2. QED
    BY <1>1, InitInv, NextInv, PTL DEF Spec, TicksEnd

LEMMA AttendedStep ==
  ASSUME NEW r, Alone(r), MayCrash = FALSE, LifecycleInv(r), Attended(r), [Next]_vars
  PROVE  Attended(r)'
  <1>0. IInv /\ IInv' /\ r \in Runners /\ TypeOK
    BY NextInv DEF LifecycleInv, Alone, IInv
  <1>1. ASSUME statuses' = statuses
        PROVE  \A p \in Phases : row'[p].status = row[p].status
    <2>1. \A p \in Phases : statuses'[p] = row'[p].status /\ statuses[p] = row[p].status
      BY DEF statuses
    <2>2. QED
      BY <1>1, <2>1
  <1>2. CASE RunnerStep(r)
    <2>1. CASE Start(r)
      <3>1. /\ pc[r] = "loaded" /\ pc'[r] = "started" /\ at' = at
            /\ Written(at[r], MoveTo(copy[r], "InProgress"))
        BY <1>0, <2>1 DEF Start, Go, UpdatePhase, Alone, Written, TypeOK
      <3>2. \A p \in Phases \ {at[r]} : row'[p] = row[p]
        BY <1>0, <3>1 DEF Written, TypeOK
      <3>3. QED
        BY <3>1, <3>2 DEF Attended
    <2>2. CASE FinalWrite(r)
      <3>1. /\ pc[r] = "finishing" /\ Written(at[r], [copy[r] EXCEPT !.run = run[r]])
        BY <1>0, <2>2 DEF FinalWrite, UpdatePhase, Alone, Written, TypeOK
      <3>2. at[r] \in Phases /\ copy[r].status \in Ended \cup {"Ready"}
        BY <3>1 DEF LifecycleInv, Busy, InStep
      <3>3. [copy[r] EXCEPT !.run = run[r]].status = copy[r].status
        BY <1>0, WithRunType DEF TypeOK
      <3>4. /\ row'[at[r]].status # "InProgress"
            /\ \A p \in Phases \ {at[r]} : row'[p] = row[p]
        BY <1>0, <3>1, <3>2, <3>3 DEF Written, TypeOK, Ended
      <3>5. QED
        BY <3>1, <3>4 DEF Attended
    <2>3. CASE ClaimConflict(r)
      <3>1. pc[r] = "picked" /\ row' = row
        BY <2>3 DEF ClaimConflict
      <3>2. row[at[r]].status = "Ready"
        BY <3>1 DEF LifecycleInv, Busy, InStep
      <3>3. QED
        BY <3>1, <3>2 DEF Attended
    <2>4. CASE Pick(r)
      <3>1. pc[r] = "idle" /\ row' = row
        BY <2>4 DEF Pick, Go
      <3>2. QED
        BY <3>1 DEF Attended
    <2>5. CASE \/ ClaimRead(r) \/ ClaimWrite(r) \/ Load(r) \/ PreflightBlocked(r)
               \/ StartRefused(r) \/ Announce(r) \/ Execute(r) \/ ExecuteRaises(r)
               \/ ReleaseForeign(r) \/ ReleaseRead(r) \/ ReleaseWrite(r)
      <3>1. at' = at /\ pc'[r] # "idle" /\ pc[r] # "idle"
        BY <1>0, <2>5 DEF ClaimRead, ClaimWrite, Load, PreflightBlocked, StartRefused, Announce,
                   Execute, ExecuteRaises, ReleaseForeign, ReleaseRead, ReleaseWrite, Go, TypeOK
      <3>2. statuses' = statuses
        BY <1>0, <2>5, QuietStep, PhaseAssumption
      <3>3. QED
        BY <1>1, <3>1, <3>2 DEF Attended
    <2>6. ~StartRaises(r)
      BY DEF StartRaises, Alone
    <2>7. QED
      BY <1>2, <2>1, <2>2, <2>3, <2>4, <2>5, <2>6 DEF RunnerStep
  <1>3. ~Crash(r)
    BY DEF Crash
  <1>4. ASSUME NEW p \in Phases, OperatorReady(p)
        PROVE  Attended(r)'
    <2>1. /\ UNCHANGED <<pc, at>> /\ row' = [row EXCEPT ![p].status = "Ready"]
      BY <1>4 DEF OperatorReady, runnerVars
    <2>2. /\ row'[p].status = "Ready" /\ \A q \in Phases \ {p} : row'[q] = row[q]
      BY <1>0, <2>1 DEF TypeOK, Row
    <2>3. QED
      BY <2>1, <2>2 DEF Attended
  <1>5. CASE Tick \/ UNCHANGED vars
    BY <1>5 DEF Tick, vars, runnerVars, Attended
  <1>6. QED
    BY <1>2, <1>3, <1>4, <1>5 DEF Next, Alone

(* One runner that does not die, without Slack and lost writes, leaves no  *)
(* phase In Progress behind: whenever a row says so it is the phase of the *)
(* tick that is under way.                                                 *)
THEOREM WorkIsAttended ==
  ASSUME NEW r, Alone(r), MayCrash = FALSE
  PROVE  Spec => []Attended(r)
  <1>1. Init => LifecycleInv(r) /\ Attended(r)
    BY InitInv DEF Init, LifecycleInv, Alone, Blank, Attended
  <1>2. LifecycleInv(r) /\ Attended(r) /\ [Next]_vars => (LifecycleInv(r) /\ Attended(r))'
    BY LifecycleStep, AttendedStep
  <1>3. QED
    BY <1>1, <1>2, PTL DEF Spec
=============================================================================

------------------------ MODULE OrchestrationProofs ------------------------
(***************************************************************************)
(* Proofs about what agents share: the levels of the orchestration bus,    *)
(* the steps of a plan, the claims of files and the tasks of the queue.    *)
(***************************************************************************)
EXTENDS OrchestrationBus, WorkflowPlan, FileClaims, TaskQueue, TLAPS,
        FiniteSetTheorems

----------------------------------------------------------------------------
(* File claims (ai/collab/file_claims.py).                                  *)

\* What a claim step leaves true: the file names every agent that relies.
ClaimsInv == ClaimsTypeOK /\ GrantsAreRecorded

(* A claim that somebody relies on has not expired and survives the sweep   *)
(* of claim_file.                                                           *)
LEMMA ReliedKept ==
    ASSUME ClaimsInv, NEW a \in Agents, NEW f \in Files, Relies(a, f)
    PROVE  Kept(f) = claims[f] /\ claims[f].agent = a
  <1>1. claims[f].agent = a /\ claims[f].at >= granted[a][f].at
    BY DEF ClaimsInv, GrantsAreRecorded
  <1>2. granted[a][f].at \in Nat /\ clock \in Nat /\ claims[f] \in Claim
    BY DEF ClaimsInv, ClaimsTypeOK
  <1>3. claims[f].at \in Nat
    BY <1>2 DEF Claim, Unclaimed
  <1>4. ~Expired(claims[f])
    BY <1>1, <1>2, <1>3, ClaimAssumption DEF Relies, Expired
  <1>5. QED
    BY <1>1, <1>4 DEF Kept

(* The types of file_claims.py hold of every state.                         *)
LEMMA ClaimsTypeStep ==
    ASSUME ClaimsTypeOK, [ClaimsNext]_claimVars
    PROVE  ClaimsTypeOK'
  <1> USE ClaimAssumption DEF ClaimsTypeOK
  <1>1. \A f \in Files : Kept(f) \in Claim
    BY DEF Kept, Claim
  <1>2. ASSUME NEW a \in Agents, NEW f \in Files, ClaimFile(a, f)
        PROVE  ClaimsTypeOK'
    BY <1>1, <1>2 DEF ClaimFile, Grant, Claim
  <1>3. ASSUME NEW a \in Agents, NEW f \in Files, ReleaseFile(a, f)
        PROVE  ClaimsTypeOK'
    BY <1>3 DEF ReleaseFile, Never, Claim
  <1>4. CASE WriterKilled
    BY <1>4 DEF WriterKilled
  <1>5. CASE ClaimsTick
    BY <1>5 DEF ClaimsTick
  <1>6. CASE UNCHANGED claimVars
    BY <1>6 DEF claimVars
  <1>7. QED
    BY <1>2, <1>3, <1>4, <1>5, <1>6 DEF ClaimsNext

LEMMA ClaimsStep ==
    ASSUME ClaimsInv, [ClaimsNext]_claimVars
    PROVE  ClaimsInv'
  <1>1. ClaimsTypeOK'
    BY ClaimsTypeStep DEF ClaimsInv
  <1>2. SUFFICES ASSUME NEW g \in Files, NEW b \in Agents, Relies(b, g)'
                 PROVE  claims'[g].agent = b /\ claims'[g].at >= granted'[b][g].at
    BY <1>1 DEF ClaimsInv, GrantsAreRecorded
  <1>3. ASSUME Relies(b, g)
        PROVE  claims[g].agent = b /\ claims[g].at >= granted[b][g].at /\ Kept(g) = claims[g]
    BY <1>3, ReliedKept DEF ClaimsInv, GrantsAreRecorded
  <1>4. b # Nobody
    BY ClaimAssumption
  <1>5. ASSUME NEW a \in Agents, NEW f \in Files, ClaimFile(a, f)
        PROVE  claims'[g].agent = b /\ claims'[g].at >= granted'[b][g].at
    <2>1. CASE g = f /\ b = a
      <3>1. claims'[g] = [agent |-> a, at |-> clock] /\ granted'[b][g] = Grant(clock)
        BY <1>5, <2>1 DEF ClaimFile, ClaimsInv, ClaimsTypeOK
      <3>2. QED
        BY <3>1, <2>1 DEF Grant, ClaimsInv, ClaimsTypeOK
    <2>2. CASE ~(g = f /\ b = a)
      <3>1. granted'[b][g] = granted[b][g] /\ clock' = clock
        BY <1>5, <2>2 DEF ClaimFile, ClaimsInv, ClaimsTypeOK
      <3>2. Relies(b, g)
        BY <1>2, <3>1 DEF Relies
      <3>3. g # f
        BY <1>3, <1>4, <1>5, <2>2, <3>2 DEF ClaimFile
      <3>4. claims'[g] = claims[g]
        BY <1>3, <1>5, <3>2, <3>3 DEF ClaimFile
      <3>5. QED
        BY <1>3, <3>1, <3>2, <3>4
    <2>3. QED
      BY <2>1, <2>2
  <1>6. ASSUME NEW a \in Agents, NEW f \in Files, ReleaseFile(a, f)
        PROVE  claims'[g].agent = b /\ claims'[g].at >= granted'[b][g].at
    <2>1. ~(g = f /\ b = a)
      BY <1>2, <1>6 DEF ReleaseFile, Relies, Never, ClaimsInv, ClaimsTypeOK
    <2>2. granted'[b][g] = granted[b][g] /\ clock' = clock
      BY <1>6, <2>1 DEF ReleaseFile, ClaimsInv, ClaimsTypeOK
    <2>3. Relies(b, g)
      BY <1>2, <2>2 DEF Relies
    <2>4. claims'[g] = claims[g]
      BY <1>3, <1>6, <2>1, <2>3 DEF ReleaseFile, ClaimsInv, ClaimsTypeOK
    <2>5. QED
      BY <1>3, <2>2, <2>3, <2>4
  <1>7. CASE WriterKilled
    BY <1>2, <1>3, <1>7 DEF WriterKilled, Relies
  <1>8. CASE ClaimsTick
    <2>1. Relies(b, g)
      BY <1>2, <1>8, ClaimAssumption DEF ClaimsTick, Relies, ClaimsInv, ClaimsTypeOK
    <2>2. QED
      BY <1>3, <1>8, <2>1 DEF ClaimsTick
  <1>9. CASE UNCHANGED claimVars
    BY <1>2, <1>3, <1>9 DEF claimVars, Relies
  <1>10. QED
    BY <1>5, <1>6, <1>7, <1>8, <1>9 DEF ClaimsNext

(* Exclusive editing for any agents, files and timeout: claim_file never    *)
(* lets two agents rely on the same file.                                   *)
THEOREM ClaimsAreExclusive == ClaimsSpec => [](ClaimsTypeOK /\ ClaimsExclusive)
  <1>1. ClaimsInit => ClaimsInv
    <2> SUFFICES ASSUME ClaimsInit PROVE ClaimsInv
      OBVIOUS
    <2>1. Never \in [granted : BOOLEAN, at : Nat]
      BY DEF Never
    <2>2. ClaimsTypeOK
      BY <2>1 DEF ClaimsInit, ClaimsTypeOK, Claim
    <2>3. \A a \in Agents, f \in Files : ~Relies(a, f)
      BY DEF ClaimsInit, Relies, Never
    <2>4. QED
      BY <2>2, <2>3 DEF ClaimsInv, GrantsAreRecorded
  <1>2. ClaimsInv /\ [ClaimsNext]_claimVars => ClaimsInv'
    BY ClaimsStep
  <1>3. ClaimsInv => ClaimsTypeOK /\ ClaimsExclusive
    BY DEF ClaimsInv, ClaimsExclusive, GrantsAreRecorded
  <1>4. QED
    BY <1>1, <1>2, <1>3, PTL DEF ClaimsSpec

----------------------------------------------------------------------------
(* The bus (ai/orchestration/bus.py).                                       *)

\* The levels the counter forgot are at most a bound's worth for each stop.
LevelsInv ==
    /\ BusTypeOK
    /\ NestingBounded
    /\ LevelsAccounted
    /\ \A c \in Correlations : Open(c) <= stack[c] + MaxDepth * stops

LEMMA OneMoreBound ==
    ASSUME NEW m \in Nat, NEW s \in Nat
    PROVE  m * s \in Nat /\ m * (s + 1) = m * s + m
  <1>1. m * s \in Nat
    BY SMT
  <1>2. m * (s + 1) = m * s + m
    BY SMT
  <1>3. QED
    BY <1>1, <1>2

LEMMA BusTypeStep ==
    ASSUME BusTypeOK, [BusNext]_busVars
    PROVE  BusTypeOK'
  <1> USE DEF BusTypeOK
  <1>1. ASSUME NEW c \in Correlations, Admit(c) \/ Refuse(c)
        PROVE  BusTypeOK'
    BY <1>1 DEF Admit, Refuse, Called
  <1>2. ASSUME NEW c \in Correlations, NoHandler(c) \/ Handle(c) \/ Return(c)
        PROVE  BusTypeOK'
    BY <1>2 DEF NoHandler, Handle, Return
  <1>3. CASE Stop
    BY <1>3 DEF Stop
  <1>4. CASE UNCHANGED busVars
    BY <1>4 DEF busVars
  <1>5. QED
    BY <1>1, <1>2, <1>3, <1>4 DEF BusNext

\* What LevelsInv says of one correlation, with the product by its name.
Levels(c, forgotten) ==
    /\ Open(c) <= forgotten + MaxDepth
    /\ Open(c) <= stack[c] + forgotten
    /\ stops = 0 => stack[c] = Open(c) + refused[c]

LEMMA LevelsOf ==
    ASSUME BusTypeOK
    PROVE  LevelsInv <=> \A c \in Correlations : Levels(c, MaxDepth * stops)
  <1>1. MaxDepth * stops \in Nat /\ MaxDepth * (stops + 1) = MaxDepth * stops + MaxDepth
    BY OneMoreBound, MaxDepthAssumption DEF BusTypeOK
  <1>2. QED
    BY <1>1 DEF LevelsInv, NestingBounded, LevelsAccounted, Levels

LEMMA BusStep ==
    ASSUME LevelsInv, [BusNext]_busVars
    PROVE  LevelsInv'
  <1>1. BusTypeOK /\ BusTypeOK'
    BY BusTypeStep DEF LevelsInv
  <1>2. PICK forgotten \in Nat : forgotten = MaxDepth * stops
    BY <1>1, OneMoreBound, MaxDepthAssumption DEF BusTypeOK
  <1>3. \A c \in Correlations : Levels(c, forgotten)
    BY <1>1, <1>2, LevelsOf
  <1>4. SUFFICES \A c \in Correlations : Levels(c, MaxDepth * stops)'
    <2>1. MaxDepth * stops' \in Nat
          /\ MaxDepth * (stops' + 1) = MaxDepth * stops' + MaxDepth
      BY <1>1, OneMoreBound, MaxDepthAssumption DEF BusTypeOK
    <2>2. QED
      BY <1>1, <2>1 DEF LevelsInv, NestingBounded, LevelsAccounted, Levels
  <1>5. SUFFICES ASSUME NEW c \in Correlations
                 PROVE  Levels(c, MaxDepth * stops)'
    OBVIOUS
  <1> USE <1>1, <1>3, MaxDepthAssumption DEF BusTypeOK, Levels, Open
  <1>6. CASE ~Stop
    <2>1. stops' = stops
      BY <1>6 DEF BusNext, Admit, Refuse, NoHandler, Handle, Return, busVars
    <2>2. SUFFICES Levels(c, forgotten)'
      BY <1>2, <2>1
    <2>3. ASSUME NEW d \in Correlations, Admit(d)
          PROVE  Levels(c, forgotten)'
      <3>1. CASE c = d
        <4>1. /\ stack'[c] = stack[c] + 1
              /\ stack'[c] <= MaxDepth
              /\ lookingUp'[c] = lookingUp[c] + 1
              /\ UNCHANGED <<handling, refused, stops>>
          BY <2>3, <3>1 DEF Admit, Called
        <4>2. /\ {lookingUp[c], handling[c], refused[c]} \subseteq Nat
              /\ stack[c] \in Int
          OBVIOUS
        <4>3. Open(c)' = Open(c) + 1 /\ Open(c) \in Int
          BY <4>1, <4>2
        <4>4. Levels(c, forgotten)
          BY <1>3
        <4>5. QED
          BY <4>1, <4>2, <4>3, <4>4
      <3>2. CASE c # d
        BY <2>3, <3>2 DEF Admit, Called
      <3>3. QED
        BY <3>1, <3>2
    <2>4. ASSUME NEW d \in Correlations, Refuse(d)
          PROVE  Levels(c, forgotten)'
      BY <2>4 DEF Refuse, Called
    <2>5. ASSUME NEW d \in Correlations, NoHandler(d)
          PROVE  Levels(c, forgotten)'
      BY <2>5 DEF NoHandler
    <2>6. ASSUME NEW d \in Correlations, Handle(d)
          PROVE  Levels(c, forgotten)'
      BY <2>6 DEF Handle
    <2>7. ASSUME NEW d \in Correlations, Return(d)
          PROVE  Levels(c, forgotten)'
      BY <2>7 DEF Return
    <2>8. CASE UNCHANGED busVars
      BY <2>8 DEF busVars
    <2>9. QED
      BY <1>6, <2>3, <2>4, <2>5, <2>6, <2>7, <2>8 DEF BusNext
  <1>7. CASE Stop
    <2>1. stops' = stops + 1 /\ stack'[c] = 0
      BY <1>7 DEF Stop
    <2>2. MaxDepth * stops' = forgotten + MaxDepth
      BY <1>2, <2>1, OneMoreBound
    <2>3. Open(c)' = Open(c)
      BY <1>7 DEF Stop
    <2>4. QED
      BY <2>1, <2>2, <2>3
  <1>8. QED
    BY <1>6, <1>7

(* For any bound and any number of correlations, dispatches and stops: the  *)
(* open dispatches of a correlation stay within the bound for each stop,    *)
(* and before the first one the counter is exact.                           *)
THEOREM LevelsHold == BusSpec => [](BusTypeOK /\ NestingBounded /\ LevelsAccounted)
  <1>1. BusInit => LevelsInv
    <2> SUFFICES ASSUME BusInit PROVE LevelsInv
      OBVIOUS
    <2>1. BusTypeOK
      BY DEF BusInit, BusTypeOK
    <2>2. MaxDepth * stops = 0
      BY MaxDepthAssumption DEF BusInit
    <2>3. QED
      BY <2>1, <2>2, LevelsOf, MaxDepthAssumption DEF BusInit, Levels, Open
  <1>2. LevelsInv /\ [BusNext]_busVars => LevelsInv'
    BY BusStep
  <1>3. LevelsInv => BusTypeOK /\ NestingBounded /\ LevelsAccounted
    BY DEF LevelsInv
  <1>4. QED
    BY <1>1, <1>2, <1>3, PTL DEF BusSpec

----------------------------------------------------------------------------
(* The plan of a workflow (ai/workflows/runner.py).                         *)

\* Steps the loop has not reached have no result, those behind it have one
\* unless the plan was aborted, and completed is what the results say.
PlanInv ==
    /\ PlanTypeOK
    /\ completed = {s \in PlanSteps : stepResult[s] = "complete"}
    /\ CompletedIsClosed
    /\ CompleteMeansAll
    /\ runRow = "none" => nextStep = 0 /\ \A s \in PlanSteps : stepResult[s] = "none"
    /\ nextStep > 0 =>
          /\ runRow \in {"running", "lost"}
          /\ \A s \in PlanSteps : s >= nextStep => stepResult[s] = "none"
          /\ \/ \E s \in PlanSteps : stepResult[s] = "failed"
             \/ \A s \in PlanSteps : s < nextStep => stepResult[s] # "none"

\* A step of the plan gets its result, and nothing else does.
StepEnds(s, result) ==
    /\ Reached(s)
    /\ stepResult' = [stepResult EXCEPT ![s] = result]
    /\ completed' = IF result = "complete" THEN completed \cup {s} ELSE completed
    /\ UNCHANGED <<dependsOn, runRow>>
    /\ \/ nextStep' = s + 1
       \/ nextStep' = PlanLength + 1 /\ result = "failed"

LEMMA StepEndsKeeps ==
    ASSUME PlanInv, NEW s \in PlanSteps, NEW result \in {"complete", "failed", "skipped"},
           StepEnds(s, result), result = "complete" => ~Unmet(s)
    PROVE  PlanInv'
  <1> USE DEF PlanInv, PlanTypeOK
  <1>1. s \in Nat /\ s >= 1 /\ s <= PlanLength /\ nextStep = s /\ PlanLength \in Nat
        /\ \A t \in PlanSteps : t \in Nat
    BY PlanAssumption DEF StepEnds, Reached, PlanSteps
  <1>2. stepResult[s] = "none" /\ stepResult'[s] = result
        /\ \A t \in PlanSteps : t # s => stepResult'[t] = stepResult[t]
    BY <1>1 DEF StepEnds
  <1>3. PlanTypeOK'
    BY <1>1 DEF StepEnds
  <1>4. (completed = {t \in PlanSteps : stepResult[t] = "complete"})'
    BY <1>2 DEF StepEnds
  <1>5. CompletedIsClosed'
    <2>1. SUFFICES ASSUME NEW t \in PlanSteps, stepResult'[t] = "complete",
                          NEW d \in dependsOn[t]
                   PROVE  stepResult'[d] = "complete"
      BY DEF CompletedIsClosed, StepEnds
    <2>2. d \in PlanSteps
      OBVIOUS
    <2>3. stepResult[d] = "complete"
      <3>1. CASE t = s
        BY <1>2, <2>1, <2>2, <3>1 DEF Unmet
      <3>2. CASE t # s
        BY <1>2, <2>1, <3>2 DEF CompletedIsClosed
      <3>3. QED
        BY <3>1, <3>2
    <2>4. QED
      BY <1>2, <2>2, <2>3
  <1>6. runRow \in {"running", "lost"} /\ runRow' = runRow
    BY <1>1 DEF StepEnds
  <1>7. \A t \in PlanSteps : t >= nextStep' => stepResult'[t] = "none"
    BY <1>1, <1>2 DEF StepEnds, PlanSteps
  <1>8. \/ \E t \in PlanSteps : stepResult'[t] = "failed"
        \/ \A t \in PlanSteps : t < nextStep' => stepResult'[t] # "none"
    <2>1. CASE \E t \in PlanSteps : stepResult[t] = "failed"
      BY <1>2, <2>1
    <2>2. CASE result = "failed"
      BY <1>2, <2>2
    <2>3. CASE result # "failed" /\ \A t \in PlanSteps : t < nextStep => stepResult[t] # "none"
      <3>1. nextStep' = s + 1
        BY <2>3 DEF StepEnds
      <3>2. ASSUME NEW t \in PlanSteps, t < nextStep', t # s
            PROVE  t < nextStep
        BY <1>1, <3>1, <3>2
      <3>3. QED
        BY <1>2, <2>3, <3>2
    <2>4. QED
      BY <1>1, <2>1, <2>2, <2>3
  <1>9. QED
    BY <1>1, <1>3, <1>4, <1>5, <1>6, <1>7, <1>8 DEF CompleteMeansAll

LEMMA PlanStep ==
    ASSUME PlanInv, [PlanNext]_planVars
    PROVE  PlanInv'
  <1>1. CASE RunStarts
    BY <1>1, PlanAssumption DEF RunStarts, PlanInv, PlanTypeOK, PlanSteps,
                                CompletedIsClosed, CompleteMeansAll
  <1>2. CASE RunEnds
    <2>1. PlanStatus = "complete" => \A s \in PlanSteps : stepResult[s] = "complete"
      BY <1>2, PlanAssumption DEF RunEnds, PlanInv, PlanTypeOK, PlanStatus, PlanSteps
    <2>2. PlanStatus \in {"complete", "partial"} /\ nextStep' = 0
      BY <1>2 DEF PlanStatus, RunEnds
    <2>3. runRow' \in {"lost", "stale", PlanStatus}
      BY <1>2 DEF RunEnds
    <2>4. CompletedIsClosed' /\ CompleteMeansAll'
      BY <1>2, <2>1, <2>3 DEF RunEnds, PlanInv, CompletedIsClosed, CompleteMeansAll
    <2>5. QED
      BY <1>2, <2>2, <2>3, <2>4, PlanAssumption DEF RunEnds, PlanInv, PlanTypeOK
  <1>3. CASE RunDies
    BY <1>3, PlanAssumption DEF RunDies, PlanInv, PlanTypeOK, CompletedIsClosed,
                                CompleteMeansAll
  <1>4. ASSUME NEW s \in PlanSteps, StepSkipped(s)
        PROVE  PlanInv'
    BY <1>4, StepEndsKeeps DEF StepSkipped, StepEnds
  <1>5. ASSUME NEW s \in PlanSteps, StepCompletes(s)
        PROVE  PlanInv'
    BY <1>5, StepEndsKeeps DEF StepCompletes, StepEnds
  <1>6. ASSUME NEW s \in PlanSteps, StepFails(s) \/ StepAborts(s)
        PROVE  PlanInv'
    BY <1>6, StepEndsKeeps DEF StepFails, StepAborts, StepEnds
  <1>7. CASE UNCHANGED planVars
    BY <1>7 DEF planVars, PlanInv, PlanTypeOK, CompletedIsClosed, CompleteMeansAll
  <1>8. QED
    BY <1>1, <1>2, <1>3, <1>4, <1>5, <1>6, <1>7 DEF PlanNext

(* For plans of any length and any dependencies: nothing completes on a     *)
(* step that did not, and a run recorded as complete completed every step.  *)
THEOREM PlansHold == PlanSpec => [](PlanTypeOK /\ CompletedIsClosed /\ CompleteMeansAll)
  <1>1. PlanInit => PlanInv
    BY PlanAssumption DEF PlanInit, PlanInv, PlanTypeOK, CompletedIsClosed,
                          CompleteMeansAll
  <1>2. PlanInv /\ [PlanNext]_planVars => PlanInv'
    BY PlanStep
  <1>3. PlanInv => PlanTypeOK /\ CompletedIsClosed /\ CompleteMeansAll
    BY DEF PlanInv
  <1>4. QED
    BY <1>1, <1>2, <1>3, PTL DEF PlanSpec

----------------------------------------------------------------------------
(* The task queue (ai/collab/task_queue.py).                                *)

\* The agents between the SELECT and the UPDATE of claim_task.
Selecting(t) == {w \in Workers : selected[w] = t}

\* A task that was handed out is never pending again, and whoever selected it
\* before is still to be counted.
GrantsInv ==
    /\ TasksTypeOK
    /\ \A t \in Tasks :
          /\ taskStatus[t] \in {"absent", "pending"} => grants[t] = 0
          /\ grants[t] + Cardinality(Selecting(t)) <= Cardinality(Workers)

LEMMA SelectingFinite ==
    ASSUME NEW t
    PROVE  /\ IsFiniteSet(Selecting(t))
           /\ Cardinality(Selecting(t)) \in Nat
           /\ Cardinality(Selecting(t)) <= Cardinality(Workers)
           /\ Cardinality(Workers) \in Nat
  <1>1. Selecting(t) \subseteq Workers
    BY DEF Selecting
  <1>2. QED
    BY <1>1, FS_Subset, FS_CardinalityType, TasksAssumption

LEMMA TasksTypeStep ==
    ASSUME TasksTypeOK, [TasksNext]_taskVars
    PROVE  TasksTypeOK'
  <1> USE DEF TasksTypeOK, TaskStatus
  <1>1. ASSUME NEW t \in Tasks, AddTask(t)
        PROVE  TasksTypeOK'
    BY <1>1 DEF AddTask
  <1>2. ASSUME NEW t \in Tasks, NEW w \in Workers, SelectTask(w, t)
        PROVE  TasksTypeOK'
    BY <1>2 DEF SelectTask
  <1>3. ASSUME NEW w \in Workers, ClaimTask(w)
        PROVE  TasksTypeOK'
    BY <1>3 DEF ClaimTask
  <1>4. ASSUME NEW t \in Tasks, NEW st \in {"in_progress", "done", "failed"}, Report(t, st)
        PROVE  TasksTypeOK'
    BY <1>4 DEF Report
  <1>5. CASE UNCHANGED taskVars
    BY <1>5 DEF taskVars
  <1>6. QED
    BY <1>1, <1>2, <1>3, <1>4, <1>5 DEF TasksNext

LEMMA GrantsStep ==
    ASSUME GrantsInv, [TasksNext]_taskVars
    PROVE  GrantsInv'
  <1>1. TasksTypeOK /\ TasksTypeOK'
    BY TasksTypeStep DEF GrantsInv
  <1>2. SUFFICES ASSUME NEW u \in Tasks
                 PROVE  /\ taskStatus'[u] \in {"absent", "pending"} => grants'[u] = 0
                        /\ grants'[u] + Cardinality(Selecting(u)') <= Cardinality(Workers)
    BY <1>1 DEF GrantsInv
  <1>3. /\ taskStatus[u] \in {"absent", "pending"} => grants[u] = 0
        /\ grants[u] + Cardinality(Selecting(u)) <= Cardinality(Workers)
        /\ grants[u] \in Nat
    BY <1>1 DEF GrantsInv, TasksTypeOK
  <1>4. ASSUME NEW t \in Tasks, AddTask(t)
        PROVE  /\ taskStatus'[u] \in {"absent", "pending"} => grants'[u] = 0
               /\ grants'[u] + Cardinality(Selecting(u)') <= Cardinality(Workers)
    BY <1>1, <1>3, <1>4 DEF AddTask, TasksTypeOK, Selecting
  <1>5. ASSUME NEW t \in Tasks, NEW w \in Workers, SelectTask(w, t)
        PROVE  /\ taskStatus'[u] \in {"absent", "pending"} => grants'[u] = 0
               /\ grants'[u] + Cardinality(Selecting(u)') <= Cardinality(Workers)
    <2>1. UNCHANGED <<taskStatus, grants>>
      BY <1>5 DEF SelectTask
    <2>2. CASE t = u
      <3>1. Selecting(u)' \subseteq Workers
        BY DEF Selecting
      <3>2. Cardinality(Selecting(u)') <= Cardinality(Workers)
            /\ Cardinality(Selecting(u)') \in Nat
        BY <3>1, FS_Subset, FS_CardinalityType, TasksAssumption
      <3>3. grants[u] = 0
        BY <1>3, <1>5, <2>2 DEF SelectTask, PendingFirst
      <3>4. Cardinality(Workers) \in Nat
        BY FS_CardinalityType, TasksAssumption
      <3>5. QED
        BY <1>3, <2>1, <3>2, <3>3, <3>4
    <2>3. CASE t # u
      <3>1. Selecting(u)' = Selecting(u)
        BY <1>1, <1>5, <2>3, TasksAssumption DEF SelectTask, Selecting, TasksTypeOK
      <3>2. QED
        BY <1>3, <2>1, <3>1
    <2>4. QED
      BY <2>2, <2>3
  <1>6. ASSUME NEW w \in Workers, ClaimTask(w)
        PROVE  /\ taskStatus'[u] \in {"absent", "pending"} => grants'[u] = 0
               /\ grants'[u] + Cardinality(Selecting(u)') <= Cardinality(Workers)
    <2>1. CASE selected[w] = u
      <3>1. grants'[u] = grants[u] + 1 /\ taskStatus'[u] = "claimed"
        BY <1>1, <1>6, <2>1 DEF ClaimTask, TasksTypeOK
      <3>2. Selecting(u)' = Selecting(u) \ {w} /\ w \in Selecting(u)
        BY <1>1, <1>6, <2>1, TasksAssumption DEF ClaimTask, Selecting, TasksTypeOK
      <3>3. Cardinality(Selecting(u)') = Cardinality(Selecting(u)) - 1
        BY <3>2, SelectingFinite, FS_RemoveElement
      <3>4. QED
        BY <1>3, <3>1, <3>3, SelectingFinite
    <2>2. CASE selected[w] # u
      <3>1. grants'[u] = grants[u] /\ taskStatus'[u] = taskStatus[u]
        BY <1>1, <1>6, <2>2 DEF ClaimTask, TasksTypeOK
      <3>2. Selecting(u)' = Selecting(u)
        BY <1>1, <1>6, <2>2, TasksAssumption DEF ClaimTask, Selecting, TasksTypeOK
      <3>3. QED
        BY <1>3, <3>1, <3>2
    <2>3. QED
      BY <2>1, <2>2
  <1>7. ASSUME NEW t \in Tasks, NEW st \in {"in_progress", "done", "failed"}, Report(t, st)
        PROVE  /\ taskStatus'[u] \in {"absent", "pending"} => grants'[u] = 0
               /\ grants'[u] + Cardinality(Selecting(u)') <= Cardinality(Workers)
    BY <1>1, <1>3, <1>7 DEF Report, TasksTypeOK, Selecting
  <1>8. CASE UNCHANGED taskVars
    BY <1>3, <1>8 DEF taskVars, Selecting
  <1>9. QED
    BY <1>4, <1>5, <1>6, <1>7, <1>8 DEF TasksNext

(* For any number of agents and tasks: a task is handed out at most once to *)
(* each of the agents.                                                      *)
THEOREM GrantsAreBounded == TasksSpec => [](TasksTypeOK /\ GrantsBounded)
  <1>1. TasksInit => GrantsInv
    <2> SUFFICES ASSUME TasksInit PROVE GrantsInv
      OBVIOUS
    <2>1. TasksTypeOK
      BY DEF TasksInit, TasksTypeOK
    <2>2. \A t \in Tasks : grants[t] = 0
      BY DEF TasksInit
    <2>3. QED
      BY <2>1, <2>2, SelectingFinite DEF GrantsInv
  <1>2. GrantsInv /\ [TasksNext]_taskVars => GrantsInv'
    BY GrantsStep
  <1>3. GrantsInv => TasksTypeOK /\ GrantsBounded
    <2>1. ASSUME GrantsInv, NEW t \in Tasks
          PROVE  grants[t] <= Cardinality(Workers)
      BY <2>1, SelectingFinite DEF GrantsInv, TasksTypeOK
    <2>2. QED
      BY <2>1 DEF GrantsInv, GrantsBounded
  <1>4. QED
    BY <1>1, <1>2, <1>3, PTL DEF TasksSpec
=============================================================================

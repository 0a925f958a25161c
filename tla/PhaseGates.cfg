\* One runner and a Slack handler, with lost writes and crashes.
SPECIFICATION Spec
CONSTANTS
  Runners = {r1}
  Handlers = {h1}
  Phases = {1, 2}
  Dependencies <- ChainOfPhases
  NeedsApproval = {2}
  Complete = {1, 2}
  NoPhase = NoPhase
  LeaseTime = 1
  MaxTime = 1
  MaxRuns = 2
  MayLose = TRUE
  MayCrash = TRUE
INVARIANTS TypeOK DoneWasValidated ApprovedBeforeWork DependenciesFirst
CHECK_DEADLOCK FALSE

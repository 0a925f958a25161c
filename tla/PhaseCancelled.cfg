\* One runner and one Slack handler, no failures.
SPECIFICATION Spec
CONSTANTS
  Runners = {r1}
  Handlers = {h1}
  Phases = {1, 2}
  Dependencies <- ChainOfPhases
  NeedsApproval = {2}
  Complete = {1, 2}
  NoPhase = NoPhase
  LeaseTime = 1
  MaxTime = 1
  MaxRuns = 2
  MayLose = FALSE
  MayCrash = FALSE
PROPERTIES CancelledIsFinal
CHECK_DEADLOCK FALSE

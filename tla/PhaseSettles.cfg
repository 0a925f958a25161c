\* One runner that does neither lose writes nor crash, and no Slack.
SPECIFICATION FairSpec
CONSTANTS
  Runners = {r1}
  Handlers = {}
  Phases = {1, 2}
  Dependencies <- ChainOfPhases
  NeedsApproval = {}
  Complete = {1, 2}
  NoPhase = NoPhase
  LeaseTime = 1
  MaxTime = 2
  MaxRuns = 3
  MayLose = FALSE
  MayCrash = FALSE
PROPERTIES Settles FollowsLifecycle
CHECK_DEADLOCK FALSE

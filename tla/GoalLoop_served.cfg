CONSTANTS
  r1 = r1
  r2 = r2
  Nobody = Nobody
  Runners <- OneProcess
  Users <- OneProcess
  Goals <- TwoGoals
  Priority <- FirstFirst
  Tasks <- TwoTasks
  Cadence = 2
  Window = 3
  UsesBackend = TRUE
  MaxAge = 3
  MaxPending = 2
  MaxEdits = 0
  MaxCrashes = 1
SPECIFICATION FairSpec
INVARIANT
  OneCyclePending
PROPERTIES
  EveryDueGoalIsSeen
  RunningIsResumed
CHECK_DEADLOCK FALSE

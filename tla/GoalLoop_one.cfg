CONSTANTS
  r1 = r1
  r2 = r2
  Nobody = Nobody
  Runners <- TwoProcesses
  Users <- NoOne
  Goals <- OneGoal
  Priority <- FirstFirst
  Tasks <- ThreeTasks
  Cadence = 1
  Window = 3
  UsesBackend = TRUE
  MaxAge = 2
  MaxPending = 2
  MaxEdits = 1
  MaxCrashes = 1
SPECIFICATION Spec
SYMMETRY ProcessSymmetry
INVARIANT
  PendingIsShown
PROPERTY
  OneLoopPerLook
CHECK_DEADLOCK FALSE

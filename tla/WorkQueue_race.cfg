CONSTANTS
  w1 = w1
  w2 = w2
  Workers <- TwoWorkers
  Jobs <- ThreeJobs
  Limit = 2
  MaxSteps = 2
  MaxCrashes = 1
SPECIFICATION FairSpec
INVARIANTS
  NoDoubleRun
  CompletedMeansRan
PROPERTIES
  ImplementsBoard
  QueueDrains
CHECK_DEADLOCK FALSE

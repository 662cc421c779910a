CONSTANTS
  u1 = u1
  u2 = u2
  a1 = a1
  a2 = a2
  Nobody = Nobody
  Users <- NoOne
  Autopilots <- TwoAutopilots
  Runs <- SixRuns
  Intents <- TwoIntents
  Modes <- SemiOnly
  Pack <- DraftAtLast
  ByHand <- NothingByHand
  RoleBackend = TRUE
  MaxDays = 1
  MaxMishaps = 1
SPECIFICATION FairSpec
PROPERTY
  IntentsGetTheirRun
CHECK_DEADLOCK FALSE

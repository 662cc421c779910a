CONSTANTS
  u1 = u1
  u2 = u2
  a1 = a1
  a2 = a2
  Nobody = Nobody
  Users <- TwoUsers
  Autopilots <- NoOne
  Runs <- OneRun
  Intents <- OneIntent
  Modes <- ReviewOrFull
  Pack <- CaptureAndDraft
  ByHand <- ApprovedByHand
  RoleBackend = TRUE
  MaxDays = 0
  MaxMishaps = 1
SPECIFICATION Spec
SYMMETRY UserSymmetry
INVARIANTS
  ReviewFirstWaits
  OneBatch
  ActionsAreSettled
PROPERTY
  Consent
CHECK_DEADLOCK FALSE

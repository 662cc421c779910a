CONSTANTS
  p1 = p1
  p2 = p2
  NoProc = NoProc
  Procs <- TwoProcs
  WithFts5 <- Only1
  Starts <- Versions
  Cases <- Meetings
  NoCopy = NoCopy
  Writers <- Only1
  Restorers <- Only2
  MaxRestores = 1
  MaxMishaps = 1
SPECIFICATION FairLocalSpec
INVARIANTS
  RecordedMeansDone
  OpenIsCurrent
  RestoreKeeps
  NeverStranded
CHECK_DEADLOCK FALSE
PROPERTIES
  GetsIn

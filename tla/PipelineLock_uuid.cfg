CONSTANTS
  p1 = p1
  p2 = p2
  p3 = p3
  n1 = n1
  n2 = n2
  n3 = n3
  n4 = n4
  NoName = NoName
  Procs <- ThreeProcs
  Names <- FourNames
  Lease = 3
  Longest = 3
  Reused = FALSE
SPECIFICATION FairLockSpec
PROPERTIES
  ImplementsMutex
  OrphanIsReclaimed
CHECK_DEADLOCK FALSE

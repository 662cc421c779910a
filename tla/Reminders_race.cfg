CONSTANTS
  r1 = r1
  r2 = r2
  t1 = t1
  t2 = t2
  u1 = u1
  x1 = x1
  NoTick = NoTick
  Reminders <- TwoReminders
  Texts <- OneText
  TextOf <- SameText
  Ticks <- TwoTicks
  Users <- OneUser
  TickLimit = 1
  MaxClock = 1
  MaxSnoozes = 1
  MaxLost = 1
  MaxNotices = 6
SPECIFICATION FairSpec
INVARIANTS
  FiresWithinSchedules
  NoSilentFire
PROPERTIES
  TicksKeepClosed
  DueIsFired
CHECK_DEADLOCK FALSE

CONSTANTS
  i1 = i1
  c1 = c1
  g1 = g1
  loop = loop
  user = user
  NoRow = NoRow
  NoProc = NoProc
  Items <- OneItem
  Versions <- TwoTitles
  Captures <- OneCapture
  Procs <- LoopAndUser
  Loops <- OneLoop
  Risky <- FirstRisky
  Goals <- OneGoal
  Limit = 1
  MaxTorn = 1
  SignalLimit = 2
  MaxWindows = 1
  MaxFailures = 1
SPECIFICATION FairSpec
INVARIANTS
  EachRowOnce
  SignalsAccounted
PROPERTIES
  ItemsBecomeWork
  GoalsAreSeen

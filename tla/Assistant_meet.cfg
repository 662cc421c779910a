CONSTANTS
  p1 = p1
  p2 = p2
  Procs <- TwoProcs
  MaxTraces = 3
  MaxRows = 1
  Meetings <- AllMeetings
  Before <- Earlier
  Texts <- AllTexts
  CuesOf <- GivenCues
  Guesses <- GivenGuesses
  Replies <- AllReplies
  Corrected <- GivenCorrections
  MaxRules = 2
  MaxCorrections = 1
  Messages <- AllTexts
  ObservedIn <- Seen
  MaxTurns = 3
SPECIFICATION Spec
SYMMETRY Symmetry
INVARIANTS
  TracesCounted
  RequestsAreSettled
  MemoryHolds
PROPERTY
  RulesPrevail
CHECK_DEADLOCK FALSE

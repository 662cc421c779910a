CONSTANTS
  p1 = p1
  p2 = p2
  live = live
  safe = safe
  undo1 = undo1
  undo2 = undo2
  d1 = d1
  n1 = n1
  NoPin = NoPin
  NoCaller = NoCaller
  NoUndo = NoUndo
  Callers <- TwoCallers
  Actions <- Mixed
  Undos <- TwoUndos
  Recognised <- Known
  Payloads <- OnePayload
  Notes <- OneNote
  Kind <- MixedKind
  PersonaAllows <- MixedPersona
  RuleBlocks <- MixedRules
  ApprovalTTL = 1
  MaxCalls = 3
  MaxClock = 0
  MaxEdits = 0
SPECIFICATION RollbackSpec
INVARIANTS
  UndoCoversSends
PROPERTIES
  ImplementsGate
  EveryCallReturns
CHECK_DEADLOCK FALSE

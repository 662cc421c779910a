CONSTANTS
  p1 = p1
  p2 = p2
  live = live
  d1 = d1
  d2 = d2
  n1 = n1
  NoPin = NoPin
  NoCaller = NoCaller
  Callers <- TwoCallers
  Actions <- OneLive
  Payloads <- TwoPayloads
  Notes <- OneNote
  Kind <- LiveKind
  PersonaAllows <- LivePersona
  RuleBlocks <- LiveRules
  ApprovalTTL = 1
  MaxCalls = 3
  MaxClock = 2
  MaxEdits = 1
SPECIFICATION Spec
SYMMETRY Symmetry
INVARIANTS
  SendsWithinApprovals
  LedgerBalances
  ApprovalsHold
  FailureHasFollowUp
CHECK_DEADLOCK FALSE

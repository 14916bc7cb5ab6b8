SPECIFICATION Spec
CONSTANTS
  None = None
  MaxPlans = 2
  TTL = 2
  MaxIssue = 4
  MaxExec = 3
  MaxTime = 5
  MaxTerminal = 1
INVARIANTS
  PlanInv
  CapacityHeld
  ExecInv
  HistoryIsRecent
  CancellationIsNotSuccess
PROPERTIES
  PinnedWhileReserved
  GrantsAreFresh
  EvictsTheOldest
  OutcomeIsFinal

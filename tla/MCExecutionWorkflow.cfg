SPECIFICATION Spec
CONSTANTS
  MaxIssue = 2
  MaxExec = 3
  None = None
  MaxPlans = 2
  TTL = 1
  MaxTime = 1
  MaxTerminal = 1
  Faults = {"late_acceptance", "wait_error", "stop_lost"}
INVARIANTS
  WorkflowInv
  AcceptedPlanIsSpent
  OutcomeIsEarned
  StopsOnce
PROPERTIES
  QuarantineHolds

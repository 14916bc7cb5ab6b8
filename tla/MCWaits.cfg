SPECIFICATION Spec
CONSTANTS
  None = None
  Lag = 1
  Durations <- UpToSix
  Multiplier = 2
  Margin = 2
  Maximum = 11
  CancelTimeout = 4
  Poll = 3
  MaxDelay = 1
  Joint <- Arm
  Readings <- ArmReadings
  Start <- AroundZero
  Patience = 16
  Window = 3
  MaxDelta = 1
  MaxVelocity = 1
  Sleep = 1
  ReadTime = 1
  c1 = c1
  c2 = c2
  c3 = c3
  fk = fk
  Call = {c1, c2, c3}
  Service = {fk}
  ServiceOf <- MCServiceOf
  Workers = 2
  Timeout = 2
INVARIANTS
  WaitsInv
  NothingInTimeIsGivenUp
  QuietForWindow
PROPERTIES
  WaitsEnd
CHECK_DEADLOCK FALSE

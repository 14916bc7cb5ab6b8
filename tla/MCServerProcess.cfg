SPECIFICATION FairSpec
CONSTANTS
  None = None
  NotFinite = NotFinite
  Invalid = Invalid
  strict = strict
  lax = lax
  Content <- MCContent
  MaxExec = 3
INVARIANTS
  ServerInv
  ToldUnlessEdited
  RecordedIsStopped
PROPERTIES
  ShutdownEnds
CHECK_DEADLOCK FALSE

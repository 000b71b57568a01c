SPECIFICATION Spec
CONSTANTS
  None = None
  MaxTasks = 2
  MaxReplies = 2
  MaxIterations = 2
  MaxViolations = 2
  RepetitionThreshold = 2
  MaxPauses = 1
  MaxRestarts = 1
INVARIANTS
  TypeOK
  ActionOnce
  ApprovedBeforeRun
  OneLoop
PROPERTIES
  OutboxSpec
CHECK_DEADLOCK FALSE

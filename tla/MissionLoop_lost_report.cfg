SPECIFICATION Spec
CONSTANTS
  None = None
  MaxTasks = 1
  MaxReplies = 2
  MaxIterations = 2
  MaxViolations = 2
  RepetitionThreshold = 2
  MaxPauses = 1
  MaxRestarts = 1
INVARIANTS
  ReportResent
CHECK_DEADLOCK FALSE

SPECIFICATION FairSpec
CONSTANTS
  None = None
  MaxTasks = 2
  MaxReplies = 3
  MaxIterations = 3
  MaxViolations = 2
  RepetitionThreshold = 3
  MaxPauses = 0
  MaxRestarts = 0
INVARIANTS
  CompletedHonest
PROPERTIES
  ComesToRest
CHECK_DEADLOCK FALSE

SPECIFICATION FairSpec
CONSTANTS
  k1 = k1
  k2 = k2
  Calls <- TwoCalls
  ToolOf <- SameTool
  Scenarios <- Everything
  MaxSteps = 3
CHECK_DEADLOCK FALSE
INVARIANTS TypeOK BatchFollowsJournal RunsAreApproved NoOrphans
PROPERTIES TurnsEnd AbortsEnd

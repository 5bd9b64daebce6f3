CONSTANTS
  Deadline = 3
  IdleTimeouts = {1}
  PreludeLimit = 1
  MaxFrames = 2
  MaxTime = 3
SPECIFICATION FairSpec
INVARIANTS
  OutcomesAgree
  ReportsMatchOutput
  QuietAfterEnd
PROPERTIES
  IdleCutIsJustified
  SessionEnds
CHECK_DEADLOCK FALSE

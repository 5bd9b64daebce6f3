CONSTANTS
  Deadline = 3
  IdleTimeouts = {1}
  PreludeLimit = 1
  MaxFrames = 2
  MaxTime = 3
SPECIFICATION Spec
INVARIANTS
  PhaseMatchesLog
CHECK_DEADLOCK FALSE

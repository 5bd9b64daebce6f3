CONSTANTS
  Requests = {r1}
  MaxEdits = 1
SPECIFICATION FairSpec
INVARIANTS
  NothingLeftBehind
PROPERTIES
  
  EverybodyEnds
CHECK_DEADLOCK FALSE

CONSTANTS
  old = old
  new = new
  w1 = w1
  Nothing = Nothing
  Instances <- MCTwoInstances
  Windows <- MCWindows
  Retentions <- MCOneRetention
  Legacies <- MCNoLegacy
  CompactEvents = 1
  JournalLimit = 3
  MaxSequence = 3
  MaxFaults = 2
  MaxKills = 0
SPECIFICATION LogSpec
PROPERTIES
  SnapshotsMoveForward
CHECK_DEADLOCK FALSE

CONSTANTS
  old = old
  new = new
  w1 = w1
  Nothing = Nothing
  Instances <- MCOneInstance
  Windows <- MCWindows
  Retentions <- MCRetentions
  Legacies <- MCLegacies
  CompactEvents = 2
  JournalLimit = 3
  MaxSequence = 3
  MaxFaults = 2
  MaxKills = 1
SPECIFICATION LogFairSpec
INVARIANTS
  LogTypeOK
  RestartReadsLog
  AcknowledgedIsDurable
  OneRowPerWindow
PROPERTIES
  Durable
  StorageRecovers
CHECK_DEADLOCK FALSE

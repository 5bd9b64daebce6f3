CONSTANTS
  c1 = c1
  c2 = c2
  c3 = c3
  c4 = c4
  p1 = p1
  p2 = p2
  direct = direct
  g1 = g1
  g2 = g2
  g3 = g3
  None = None
  Callers <- MCCallers
  Pinned <- MCPinned
  Management <- MCManagement
  Proxies <- MCProxies
  Direct = direct
  Groups <- MCGroups
  GatewayOf <- MCGatewayOf
  Configs <- MCConfigs
  Followers <- MCFollowers
  Starts <- MCStarts
  Minute = 2
  UnlistedRPM = 1
  UnlistedInflight = 1
  Cooldowns <- MCCooldowns
  MaxTime = 2
  MaxEdits = 1
  MaxStops = 1
  Impatient <- MCImpatient
SPECIFICATION FairSpec
INVARIANTS
  InflightIsLeases
  SleepersCannotProceed
  DrainedAfterShutdown
PROPERTIES
  AdmissionRespectsGroup
  CancelledCallsEnd
\* The calls are over and the bounds used up.
CHECK_DEADLOCK FALSE

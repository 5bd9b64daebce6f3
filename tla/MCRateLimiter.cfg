CONSTANTS
  r1 = r1
  r2 = r2
  r3 = r3
  r4 = r4
  k1 = k1
  k2 = k2
  c1 = c1
  None = None
  Requests <- MCRequests
  Keys <- MCKeys
  Credentials <- MCCredentials
  CredentialOf <- MCCredentialOf
  RetryAfters <- MCRetryAfters
  ProbePause = 1
  IdleExpiry = 1
  MaxTime = 3
SPECIFICATION Spec
SYMMETRY Symmetry
PROPERTIES
  LimitsAreRespected
  UnrestrictedNeedsEvidence
CHECK_DEADLOCK FALSE

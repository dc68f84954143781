SPECIFICATION Spec
CONSTANTS
  ip1 = ip1
  r1 = r1
  r2 = r2
  s1 = s1
  s2 = s2
  NoSession = NoSession
  IPs <- MCIPs
  Requests <- MCRequests
  Sessions <- MCSessions
  MaxFails = 2
  FailWindow = 1
  LockTime = 2
  TTL = 2
  MaxTime = 4
  MaxArrivals = 5
SYMMETRY Symmetry
INVARIANTS
  LockJustified
  GuessesBounded
  SessionsExact
PROPERTIES
  OnlyEarlierSlip
CHECK_DEADLOCK FALSE

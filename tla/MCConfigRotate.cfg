SPECIFICATION Spec
CONSTANTS
  a1 = a1
  a2 = a2
  u1 = u1
  u2 = u2
  d1 = d1
  c1 = c1
  long = long
  short = short
  Empty = Empty
  Absent = Absent
  Stars = Stars
  Admins <- MCAdmins
  Ups <- MCUps
  Devs <- MCDevs
  Clients <- MCClients
  Keys <- MCKeys
  Short <- MCNone
  Limits <- MCLimits
  MaxEdits = 3
  MaxFaults = 0
  MaxRestarts = 0
SYMMETRY Symmetry
INVARIANTS
  RotatedTokenDead
CHECK_DEADLOCK FALSE

SPECIFICATION Spec
CONSTANTS
  a1 = a1
  a2 = a2
  u1 = u1
  u2 = u2
  d1 = d1
  c1 = c1
  long = long
  short = short
  Empty = Empty
  Absent = Absent
  Stars = Stars
  Admins <- MCAdmins
  Ups <- MCUps
  Devs <- MCDevs
  Clients <- MCClients
  Keys <- MCAllKeys
  Short <- MCShort
  Limits <- MCLimits
  MaxEdits = 3
  MaxFaults = 1
  MaxRestarts = 1
SYMMETRY Symmetry
INVARIANTS
  
  LiveValid
  DeadStayDead
CHECK_DEADLOCK FALSE

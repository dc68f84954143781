SPECIFICATION Spec
CONSTANTS
  a1 = a1
  a2 = a2
  k0 = k0
  c1 = c1
  c2 = c2
  m1 = m1
  p1 = p1
  Gone = Gone
  Keep = Keep
  NoSecret = NoSecret
  ModelIds = {m1}
  Probes = {p1}
  Addresses = {a1, a2}
  Secrets = {k0}
  EnvBase = a1
  EnvKey = NoSecret
  Calls = {c1, c2}
  SeedDevs <- MCSeedDevs
  Limits = {0, 1, 2}
  Window = 2
  MaxTime = 2
  MaxCalls = 3
  MaxEdits = 2
INVARIANTS
  BindingsResolve
  RpmOvershoot
PROPERTIES
  OnlyTheAdminEdits
  Accounted

SPECIFICATION MCSpec
CONSTANTS
  Tabs = {t1, t2}
  Sessions = {s1, s2}
  Typed = Typed
  None = None
  MaxNet = 2
  second = t2
  MaxFails = 1
  MaxSwitches = 1
INVARIANTS
  SignedOutStaysOut
PROPERTIES
  RefusedTabsLeave
CHECK_DEADLOCK FALSE

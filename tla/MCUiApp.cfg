SPECIFICATION MCSpec
CONSTANTS
  Idle = Idle
  Unset = Unset
  MaxSends = 3
  MaxTicks = 2
  MaxKeys = 3
  Switches = {"cache_enabled"}
  Numbers = {"cache_ttl"}
  Ips = {"home"}
  Values = {1, 2}
  Default = 1
  Texts = {2}
  MaxWrites = 2
  MaxNet = 2
  Filters = {"week", "month"}
  NoFilter = NoFilter
  MaxLoads = 1
  MaxChanges = 2
  MaxMounts = 2
INVARIANTS
  RepliesWhole
  CalmSavesStick
PROPERTIES
  TypingEnds
  UsageConverges
CHECK_DEADLOCK FALSE

SPECIFICATION LoggerFairSpec
CONSTANTS
  e1 = e1
  e2 = e2
  e3 = e3
  Unused = Unused
  Entries <- MCEntries
  Bytes <- MCBytes
  Retentions <- MCRetentions
  QueueCap = 2
  RingSize = 2
  MaxSize = 2
  LastDay = 2
  MaxFaults = 1
  MaxRestarts = 1
INVARIANTS
  NothingMissing
  FilesSane
PROPERTIES
  BackupsOnlyExpire
  Delivered
CHECK_DEADLOCK FALSE

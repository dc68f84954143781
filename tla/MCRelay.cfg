SPECIFICATION FairSpec
CONSTANTS
  MaxCands = 3
  MaxRetry = 1
INVARIANTS
  BoundedInOrder
  GivesUpOnlyWhenExhausted
  EventsMatchAttempts
PROPERTIES
  TimeoutNotResent
  Terminates
CHECK_DEADLOCK FALSE

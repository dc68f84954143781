SPECIFICATION FairSpec
CONSTANTS
  ticker = ticker
  admin = admin
  u1 = u1
  u2 = u2
  NoOne = NoOne
  Ups <- MCUps
  Probers <- MCProbers
  Configs <- MCConfigs
  MaxConc = 1
  MaxPasses = 2
  MaxRestarts = 1
INVARIANTS
  TransitionsTold
  CountsInARow
PROPERTIES
  SavedForward
  PassesEnd
CHECK_DEADLOCK FALSE

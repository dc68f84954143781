SPECIFICATION MCSpec
CONSTANTS
  r1 = r1
  r2 = r2
  s1 = s1
  s2 = s2
  dev = dev
  tok = tok
  Nobody = Nobody
  Requests <- MCRequests
  Saves <- MCSaves
  Devices <- MCDevices
  Tokens <- MCTokens
  DeviceRPM <- MCDeviceRPM
  DeviceDaily <- MCDeviceDaily
  PolicyRPM <- MCPolicyRPM
  Configs <- MCConfigs
  Keys <- MCKeys
  QKeys <- MCQKeys
  WarnPercents <- MCWarnPercents
  MaxTime = 2
  Window = 2
  DayLen = 2
  MaxLimit = 2
  MaxLog = 2
  MaxDaily = 2
SYMMETRY Symmetry
INVARIANTS
  WindowBound
  DayBound
  WarnsOncePerDay
  NoFalseDenial
CHECK_DEADLOCK FALSE

CONSTANTS
  D = 3
  OutlierK = 2
  KeyGroup = 2
  ScaleSets = 2
  SramDepth = 2
  RdWaitMax = 1
  MaxTokens = 2
  ReadAddrs = {0, 1}
  WriteAddrs = {0}
  HostMasks = {}
  CommitAnyTime = FALSE
  Token = {1, 2}
SPECIFICATION Spec
INVARIANTS BurstExact

CONSTANTS
  D = 2
  OutlierK = 1
  KeyGroup = 2
  ScaleSets = 2
  SramDepth = 2
  RdWaitMax = 1
  MaxTokens = 2
  ReadAddrs = {0}
  WriteAddrs = {0}
  HostMasks = {{1}}
  CommitAnyTime = FALSE
  Token = {1, 2}
SPECIFICATION FairSpec
INVARIANTS IdleNeverLies RowOfOwnGroup  BurstExact
PROPERTIES StoresAreDue ReadEnds

CONSTANTS
  Files = 2
  Caps = 2
  Jobs = 2
  Transports = {"daemon", "oneshot", "remote"}
SPECIFICATION FairSpec
  
PROPERTY EveryJobTold
CHECK_DEADLOCK FALSE

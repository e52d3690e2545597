CONSTANTS
  QDepth = 2
  MaxDesc = 5
  MaxResults = 2
SPECIFICATION FairSysSpec
INVARIANTS BusyHonest
PROPERTIES NoAbortLeak  AbortWaitsForJob EveryDescAnswered

CONSTANTS
  MxeN = 2
  MTile = 2
  KbMax = 3
  NJobs = 2
  Descs <- MCDescs
SPECIFICATION FairSpec
INVARIANT ResultExact
PROPERTIES JobContract EveryJobEnds

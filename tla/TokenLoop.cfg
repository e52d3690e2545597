SPECIFICATION Spec
CONSTANTS
  Runs <- TheRuns
  NLayers = 2
  Workers = {"w1", "w2"}
  SimMax = 4
  HwMax = 6
  SessionMax = 6
  ChunksMax = 1
INVARIANTS GateEarned 
PROPERTIES SampledAfterGrade EveryRunEnds

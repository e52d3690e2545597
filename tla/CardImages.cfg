CONSTANTS
  Table <- MCTable
  Burst = 2
  Poison <- MCPoison
  Picks = {}
  Gamma <- MCGamma
  Qkv <- MCQkv
  Requests <- MCRequests
  Rows = 2
  BatchSize = 2
  Layers = 2
  Prompts = {2, 3}
  TokensMax = 2
  Heads = 2
  PerProj = 2
  NBlocks <- MCNBlocks
  SweepBlocks = {0, 1}
SPECIFICATION Spec
INVARIANTS RestoredOrRaised 
PROPERTIES DramAfterClaim CardIsFreed

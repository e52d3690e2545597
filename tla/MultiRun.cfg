CONSTANTS
  Vocab = 3
  DimMax = 2
  BlockRows = 1
  PerProgram = 1
  MaxBytes = 1
  KChunks = 2
  NLayers = 2
  PromptLen = 2
  TokensMax = 4
  NHeads = 2
  HeadAcc <- MCHeadAcc
  Eos = 2
SPECIFICATION MultiSpec
INVARIANTS HeadExact ArmsApart 
CHECK_DEADLOCK FALSE

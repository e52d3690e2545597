CONSTANTS
  short = short
  moved = moved
  long = long
  Prompts <- MCPrompts
  PromptLen <- MCPromptLen
  EosAt <- MCEosAt
  BusMoves <- MCBusMoves
  TokensMax = 4
  Layers = 2
  TokenLimits = {1, 2}
  StepChoices <- MCStepChoices
  MaxRuns = 2
SPECIFICATION SessionSpec
INVARIANTS ReferenceIsGolden 
CHECK_DEADLOCK FALSE

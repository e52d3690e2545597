CONSTANTS
  FifoCap = 2
  FifoAddr = 1
  BudgetCap = 2
  MaxLines = 3
  Programs <- MCPrograms
SPECIFICATION Spec
INVARIANT BudgetSafe
PROPERTY SameAsLines
CHECK_DEADLOCK FALSE

CONSTANTS
  Q3BParams <- MCQ3BParams
  Q3BReps = 1
  NockptExists = TRUE
  PFParams <- MCPFParams
  AblParams <- MCAblParams
  Orders <- MCOrders
  Stale = Stale
SPECIFICATION Spec
CHECK_DEADLOCK FALSE
INVARIANT ConfigDeterminism

CONSTANTS
  theta_values <- MCThetas
  block_sizes <- MCBlocks
  suspend_percentages <- MCSuspend
  None = None
  Inputs <- MCInputs
SPECIFICATION Spec
INVARIANT RankReport
CHECK_DEADLOCK FALSE

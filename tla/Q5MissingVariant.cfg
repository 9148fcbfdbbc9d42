CONSTANTS
  queries <- MCQueries
  theta_values <- MCThetas
  failover_points <- MCFailover
  cnts <- MCCnts
  Missing <- MCMissingBack
  Stale = Stale
  LaunchCanFail = FALSE
  MaxInterrupts = 0
SPECIFICATION Spec
INVARIANT ConfigConsistency
CHECK_DEADLOCK FALSE

CONSTANTS
  queries <- MCQueries
  theta_values <- MCThetas
  failover_points <- MCFailover
  cnts <- MCCnts
  Missing = {}
  Stale = Stale
  LaunchCanFail = TRUE
  MaxInterrupts = 1
SPECIFICATION Spec
INVARIANT TypeOK
INVARIANT ConfigConsistency
INVARIANT SingleInvocationRun
INVARIANT ReleasedWhenDone
CHECK_DEADLOCK FALSE

CONSTANTS
  TBConfigs <- MCTBConfigs
  Exp1Iters <- MCExp1Iters
  Orders <- MCOrders
  Stale = Stale
SPECIFICATION Spec
INVARIANT HostSingleLiveRun
CHECK_DEADLOCK FALSE

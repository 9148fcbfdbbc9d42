CONSTANTS
  TBConfigs <- MCTBConfigs
  Exp1Iters <- MCExp1Iters
  Orders <- MCOrders
  Stale = Stale
SPECIFICATION Spec
INVARIANT TypeOK TBConfigConsistency TBSingleLiveRun TBReleasedOnExit RwServersOfCurrentRun
PROPERTY TBRefinesLifecycle
CHECK_DEADLOCK FALSE

CONSTANTS
  Q3BParams <- MCQ3BParams
  Q3BReps = 1
  NockptExists = TRUE
  PFParams <- MCPFParams
  AblParams <- MCAblParams
  Orders <- MCOrders
  Stale = Stale
SPECIFICATION Spec
INVARIANT TypeOK
INVARIANT HostSingleLiveRun
INVARIANT PFServerConfigConsistency
INVARIANT PFFreshArtifacts
INVARIANT AblationConfigConsistency
CHECK_DEADLOCK FALSE

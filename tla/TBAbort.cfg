CONSTANTS
  configs <- MCConfigs
  Stale = Stale
  Script = "theta_block"
SPECIFICATION Spec
PROPERTY SweepCompletes
CHECK_DEADLOCK FALSE

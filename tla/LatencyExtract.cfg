CONSTANTS
  param_sets <- MCParamSets
  Absent = Absent
  Contents <- MCContents
SPECIFICATION Spec
INVARIANT TypeOK
INVARIANT SentinelOnlyWhenNoValue
CHECK_DEADLOCK FALSE

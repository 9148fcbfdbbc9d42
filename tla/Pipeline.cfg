CONSTANTS
  theta_range <- MCThetas
  block_range <- MCBlocks
  suspend_percentages <- MCSuspend
  None = None
  LogFiles <- MCLogFiles
  LogGroup <- MCLogGroup
  LogLines <- MCLogLines
  Keys <- MCKeys
  NoMatch <- MCNoMatch
  Pages <- MCPages
  ProxyLogs <- MCProxyLogs
  StorageLogs <- MCStorageLogs
  Svgs <- MCSvgs
  MaxCleanRuns = 2
SPECIFICATION StageSpec
INVARIANT DuplicateKeyReport BalanceReport
PROPERTY SanitizeIdempotent
CHECK_DEADLOCK FALSE

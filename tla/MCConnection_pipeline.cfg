SPECIFICATION FairSpec
CONSTANTS
  Scripts <- PipelineScripts
  KeepAlive = TRUE
  BufLen = 6
CHECK_DEADLOCK FALSE
INVARIANT TypeOK
INVARIANT AlwaysScheduled
INVARIANT NoLineLeftBehind
PROPERTY CloseIsFinal
PROPERTY ServesInOrder
PROPERTY EventuallyFreed

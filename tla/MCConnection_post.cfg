SPECIFICATION Spec
CONSTANTS
  Scripts <- PostScripts
  KeepAlive = TRUE
  BufLen = 8
CHECK_DEADLOCK FALSE
INVARIANT PostDataIsBody

\* Both transports, both roles, a close at every point and from every callback.
SPECIFICATION FairSpec
CONSTANTS
  Transports = {"sim", "wifi"}
  EarlyClose = FALSE
INVARIANTS
  TypeOK
  NoUseAfterFree
  QuietAfterClose
PROPERTIES
  CloseReturns
  DeferredCloseEnds
\* A session that is closed, or failed and never closed, has nothing left to do.
CHECK_DEADLOCK FALSE

SPECIFICATION FairSpec
CONSTANTS
  root = root
  child = child
  h1 = h1
  h2 = h2
  h3 = h3
  Proc <- OneProc
  First = root
  Handler <- ThreeHandlers
  None = None
  Ops <- AllOps
  Kills = TRUE
  Eintr = TRUE
CHECK_DEADLOCK FALSE
INVARIANTS PollSafe 
PROPERTIES NoWriteUnderIteration HandlerReturns

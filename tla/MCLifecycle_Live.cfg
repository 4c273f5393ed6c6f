SPECIFICATION FairSpec
CONSTANTS
  root = root
  child = child
  h1 = h1
  h2 = h2
  h3 = h3
  Proc <- TwoProcs
  First = root
  Handler <- TwoHandlers
  None = None
  Ops <- OpenOps
  Kills = TRUE
  Eintr = TRUE
CHECK_DEADLOCK FALSE
PROPERTIES DeadForgotten EngineCloses

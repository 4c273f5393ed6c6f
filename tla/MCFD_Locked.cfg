SPECIFICATION FairSpec
CONSTANTS
  g1 = g1
  g2 = g2
  g3 = g3
  Goroutine <- ThreeGoroutines
  Creator = g1
  Hasty <- NoHasty
  FlagClosed = 16
  MaxRefs = 8
  MaxCalls = 2
CHECK_DEADLOCK FALSE
INVARIANTS NoUseAfterClose NumberOutlivesRefs SettledFD
PROPERTIES LockReturns ImplementsGuardedFile

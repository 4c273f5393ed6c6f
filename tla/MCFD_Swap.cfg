SPECIFICATION Spec
CONSTANTS
  g1 = g1
  g2 = g2
  g3 = g3
  Goroutine <- ThreeGoroutines
  Creator = g1
  Hasty <- NoHasty
  FlagClosed = 16
  MaxRefs = 8
  MaxCalls = 1
CHECK_DEADLOCK FALSE
INVARIANT DecRefFindsNumber

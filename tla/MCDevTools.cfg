SPECIFICATION FairSpec
CONSTANTS
  c1 = c1
  c2 = c2
  c3 = c3
  Conns <- ThreeConns
  ByteMod = 3
  MaxTimers = 3
  MaxSent = 1
CHECK_DEADLOCK FALSE
INVARIANTS OneAttempt NeverStranded ShownOnce
PROPERTIES Reconnects

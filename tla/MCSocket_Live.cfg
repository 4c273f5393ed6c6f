SPECIFICATION FairSpec
CONSTANTS
  c1 = c1
  c2 = c2
  c3 = c3
  c4 = c4
  Call <- ThreeCalls
  None = None
  Root = Root
  Ops <- LiveOps
  Blocking <- BlockingOnly
  Dials <- GoodDial
  Faults <- NoFaults
CHECK_DEADLOCK FALSE
PROPERTIES CallReturns ConnectingResolves

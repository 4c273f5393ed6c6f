SPECIFICATION FairSpec
CONSTANTS
  f1 = f1
  f2 = f2
  f3 = f3
  Calls <- ThreeCalls
  Bodies <- OneCall
  Instances = 1
  Limit = 2
  MaxBody = 3
  MaxMakers = 7
CHECK_DEADLOCK FALSE
INVARIANTS NothingDropped PayloadLimited
PROPERTIES CallReturns

SPECIFICATION FairSpec
CONSTANTS
  n1 = n1
  n2 = n2
  n3 = n3
  w1 = w1
  w2 = w2
  Notification <- ThreeCalls
  Worker <- TwoWorkers
  Nil = Nil
  Faults <- AllFaults
CHECK_DEADLOCK FALSE
INVARIANTS NothingLost
PROPERTIES CallServed SafeModeServes ImplementsTracedCall

SPECIFICATION FairSpec
CONSTANTS
  n1 = n1
  n2 = n2
  Notification <- TwoCalls
CHECK_DEADLOCK FALSE
INVARIANTS RefBalance StatusTruth NoDanglingFD
PROPERTIES ReceivedEnds

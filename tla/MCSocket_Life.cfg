SPECIFICATION Spec
CONSTANTS
  c1 = c1
  c2 = c2
  c3 = c3
  c4 = c4
  Call <- FourCalls
  None = None
  Root = Root
  Ops <- AllOps
  Blocking <- AnyMode
  Dials <- OddDial
  Faults <- AllFaults
CHECK_DEADLOCK FALSE
SYMMETRY Sym4
CONSTRAINT ThreeOrPlain
INVARIANTS NoBindUseAfterClose ConnectOkMeansConnected ConnectedStaysUp StateBindOpen FinalCloseFindsOpen Reclaimed
PROPERTIES StateOrder

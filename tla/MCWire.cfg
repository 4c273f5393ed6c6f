SPECIFICATION Spec
CONSTANTS
  Messages <- AllMessages
  MaxSafe = 3
  MaxHops = 2
CHECK_DEADLOCK FALSE
INVARIANTS Faithful RefusedNotRounded

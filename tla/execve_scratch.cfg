SPECIFICATION Spec
CONSTANTS
  Thread = {i, a, b}
  Idle = i
INVARIANT RightContext
CHECK_DEADLOCK FALSE

SPECIFICATION Spec
CONSTANTS
  Proc = {a, b, c}
  Idle = idle
  NULL = NULL
  Modulus = 8
  BIG_STRIDE = 3
  Priorities = {0, 3}
  MAX_TIME_SLICE = 2
  Span = 24
PROPERTIES
  PicksMinimum

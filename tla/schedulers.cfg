SPECIFICATION AllSpec
CONSTANTS
  Sleeper = {p1, p2, p3, p4}
  MaxTicks = 4
  Idle = idle
  Proc = {idle, init, u1, u2, u3}
  Targets = {u1, u2, u3}
  NULL = NULL
  StrideProc = {a, b, c}
  Modulus = 8
  BIG_STRIDE = 3
  Priorities = {0, 3}
  MAX_TIME_SLICE = 2
  Span = 8
  InitProc = init
  StdinReader = {r1, r2, r3}
  MaxSlice = 1
  BufSize = 2
  CONSBUFSIZE = 2
  MaxTyped = 3
  AnyChild = any
  MaxSleep = 2
INVARIANTS
  TypeOK
  HeapOfReady
  ListAndWaits
  RunQueue
  SleepersFound
  NoneAbandoned
PROPERTIES
  ImplementsTimers
  SharesKept
  TurnsInOrder
  KeysRead
SYMMETRY Symmetry

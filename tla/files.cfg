SPECIFICATION AllSpec
CONSTANTS
  File = {f, g}
  OpenFile = {d1, d2}
  Blocks = 3
  BLKSIZE = 2
  NDIRECT = 1
  MaxPos = 3
  InitProc = init
  User = {a, b}
  Program = h
  Root = root
  Console = con
  NFD = 2
  Kept = 1
  MaxSize = 1
  MaxLost = 1
  NINOS = 20
  BLKBITS = 8
  ImageDirect = 3
  NENTRY = 2
  Name = {"x", "y"}
  Long = {"y"}
  Beginning = "x"
  Lengths = {0, 4, 6}
  BlockBytes = 2
  DiskSize = 3
  Span = 5
  Tags = {"a"}
  MaxCalls = 2
  Disk0 = "d"
  Called = "x"
  MaxName = 3
  MaxPath = 4
  DevBlocks = 4
  MaxMemory = 15
  MaxOpened = 2
INVARIANTS
  BlocksOwned
  Counted
  ImageRight
PROPERTIES
  ContentsKept
  CallsDoAsTold
SYMMETRY Symmetry
CHECK_DEADLOCK FALSE

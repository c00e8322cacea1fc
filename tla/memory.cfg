SPECIFICATION AllSpec
CONSTANTS
  N = 6
  TopUsed = FALSE
  BuddyN = 9
  SLOB_UNIT = 2
  SlobUnits = 6
  SlobPages = 3
  SlobSizes = {2, 5, 8, 13, 25}
  SlubN = 2
  SlubPage = 5
  SLAB_SIZE = 1
  Requests = {1, 2, 3}
  SpaceProc = {s1, s2, s3}
  NPage = 18
  MaxCopy = 2
  NPTE = 4
  NPDE = 2
  NPD = 2
  Word = {0, 1}
  StackPages = 3
  Images <- OneTable
  Proc = {init, a, b, c}
  InitProc = init
  FailAt = {"proc", "kstack", "mm", "pgdir", "image", "ph"}
  Programs = {"missing", "bad", "good"}
  Headers = 2
  MaxLeak = 2
INVARIANTS
  PagesWhole
  HeapsWhole
  PagesOwned
  Conserved
PROPERTIES
  ImplementsPages
  ImplementsHeaps
  ImplementsSpaces
  NoReturnBare
CHECK_DEADLOCK FALSE

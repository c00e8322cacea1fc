SPECIFICATION AllSpec
CONSTANTS
  N = 2
  TopUsed = FALSE
  BuddyN = 2
  SLOB_UNIT = 2
  SlobUnits = 6
  SlobPages = 1
  SlobSizes = {1}
  SlubN = 2
  SlubPage = 5
  SLAB_SIZE = 1
  Requests = {1}
  SpaceProc = {1, 2}
  NPage = 12
  MaxCopy = 1
  NPTE = 2
  NPDE = 2
  NPD = 2
  Word = {0}
  StackPages = 2
  Images <- TwoTables
  Proc = {init, a}
  InitProc = init
  FailAt = {}
  Programs = {"missing", "bad", "good"}
  Headers = 1
  MaxLeak = 1
INVARIANTS
  NoTableLost
CHECK_DEADLOCK FALSE

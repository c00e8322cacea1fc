SPECIFICATION Spec
CONSTANTS
  File = {f, g}
  OpenFile = {d1, d2}
  Blocks = 3
  BLKSIZE = 2
  NDIRECT = 1
  MaxPos = 4
INVARIANTS
  AssertHolds

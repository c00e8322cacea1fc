SPECIFICATION Spec
CONSTANTS
  N = 6
  TopUsed = TRUE
INVARIANTS
  NoPageTwice

SPECIFICATION FairSpec
CONSTANTS
  N = 5
  Times = 2
  SleepTime = 2
  MaxSlice = 1
  Proc = {0, 1, 2, 3, 4, 5}
  Idle = 0
  Thread = {1, 2, 3, 4, 5}
  Sem = {0, 1, 2, 3, 4, 5, 6}
INVARIANTS
  ForksExclusive
  OneInMonitor
PROPERTIES
  AllQuit

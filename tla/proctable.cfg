SPECIFICATION FairTable
CONSTANTS
  MaxPid = 6
  MaxProcess = 5
  Proc = {idle, init, a, b, c}
  Idle = idle
  InitProc = init
  Null = Null
INVARIANTS
  Unique
  PidsNameProcs
PROPERTIES
  Returns
  ImplementsFamily

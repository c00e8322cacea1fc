SPECIFICATION FairSpec
CONSTANTS
  Idle = idle
  Proc = {idle, t1, t2, t3}
  Thread = {t1,t2,t3}
  Sem = {sem}
  Units = 1
  MaxSleep = 1
  MaxSlice = 1
  LifeProc = {idle, init, u1, u2}
  InitProc = init
  AnyChild = any
  LifeSlice = 2
  LifeSleep = 2
  Targets = {u1, u2}
INVARIANTS
  WaitsInQueue
PROPERTIES
  ImplementsSemaphore
  WaiterEnters
  NoStarvation
  SleepersWake
  OrphansReaped
  KilledSleeperDies

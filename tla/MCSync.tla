------------------------------- MODULE MCSync -------------------------------
(***************************************************************************)
(* Who waits in the kernel of lab8 goes on, in two systems that TLC checks *)
(* one after the other: kernel threads that share the units of one         *)
(* semaphore (Semaphore), and processes that wait for children, sleep and  *)
(* are killed (Process).  system is the one that runs; the other stays at  *)
(* its beginning.                                                          *)
(***************************************************************************)
EXTENDS Semaphore

CONSTANTS
  LifeProc, InitProc, AnyChild, LifeSlice, LifeSleep, Targets   \* Process

VARIABLES
  system,
  lk, parent, exiting, waitFor, ltimers, pc, nr, halted         \* Process

life == <<lk, parent, exiting, waitFor, ltimers, pc, nr, halted>>

Life == INSTANCE Process WITH
  Proc <- LifeProc, MaxSlice <- LifeSlice, MaxSleep <- LifeSleep,
  k <- lk, timers <- ltimers

ASSUME SyncAssumption ==
  SemaphoreAssumption /\ Life!ProcessAssumption /\ Life!SchedAssumption

BothInit ==
  /\ system \in {"units", "life"}
  /\ Init /\ Life!Init
  /\ system # "units" => k = CHOOSE first \in {Started(born) : born \in Orders} : TRUE

UnitsNext == system = "units" /\ Next /\ UNCHANGED <<system, life>>
LifeNext  == system = "life" /\ Life!Next /\ UNCHANGED <<system, kvars>>

BothNext == UnitsNext \/ LifeNext

(* Fairness of the threads: the CPU executes the current one, and the      *)
(* timer goes on.  That of the processes is the one of module Process.     *)
Fairness ==
  /\ \A p \in Thread : WF_kvars(system = "units" /\ Step(p))
  /\ WF_kvars(system = "units" /\ IdleLoop)
  /\ WF_kvars(system = "units" /\ Tick)
  /\ \A p \in LifeProc : WF_life(system = "life" /\ Life!Kernel(p))
  /\ WF_life(system = "life" /\ Life!IdleLoop)
  /\ \A p \in LifeProc : SF_life(system = "life" /\ Life!Tick(p))

FairSpec == BothInit /\ [][BothNext]_<<system, kvars, life>> /\ Fairness

-----------------------------------------------------------------------------
(* Of the semaphore: WaitsInQueue, ImplementsSemaphore and WaiterEnters of *)
(* module Semaphore.                                                       *)

(* Of the processes: who is ready gets the CPU, who sleeps wakes up, who   *)
(* has lost its parent is reaped, and who is killed in its sleep dies.     *)
NoStarvation      == system = "life" => Life!NoStarvation
SleepersWake      == system = "life" => Life!SleepersWake
OrphansReaped     == system = "life" => Life!OrphansReaped
KilledSleeperDies == system = "life" => Life!KilledSleeperDies
=============================================================================

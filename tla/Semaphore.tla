------------------------------ MODULE Semaphore ------------------------------
(***************************************************************************)
(* Kernel threads that share the units of one semaphore: each sleeps for a *)
(* while, takes a unit (down, or try_down and again later), keeps it over  *)
(* another sleep and gives it back (up).                                   *)
(***************************************************************************)
EXTENDS KThreads

CONSTANTS
  Units,     \* the initial value of the semaphore
  MaxSleep   \* bound of the model: the longest sleep

SemaphoreAssumption ==
  /\ IsFiniteSet(Proc) /\ Thread = Proc \ {Idle}
  /\ Sem # {} /\ Units \in Nat /\ MaxSleep \in Nat

s == CHOOSE m \in Sem : TRUE

(* The threads may have been created in any order.                         *)
Orders == Bijection(1..Cardinality(Thread), Thread)

Init ==
  \E born \in Orders : StartUp(born, [m \in Sem |-> Units], "out")

-----------------------------------------------------------------------------
Rest(p)  == at[p] = "out"  /\ \E n \in 1..MaxSleep : Sleep(p, n, "want")
Enter(p) == at[p] = "want" /\ Down(p, s, "in")

(* try_down: a unit if there is one, without waiting.                      *)
TryDown(p) ==
  /\ at[p] = "want" /\ Runs(p)
  /\ IF sem[s].value > 0
     THEN sem' = [sem EXCEPT ![s].value = @ - 1] /\ GoesTo(p, "in")
     ELSE UNCHANGED sem /\ GoesTo(p, "out")
  /\ UNCHANGED <<k, timers, phase>>

Use(p)   == at[p] = "in" /\ \E n \in 1..MaxSleep : Sleep(p, n, "leave")
Leave(p) == at[p] = "leave" /\ Up(p, s, "out")

Step(p) == Rest(p) \/ Enter(p) \/ TryDown(p) \/ Use(p) \/ Leave(p) \/ Block(p)

Next ==
  \/ \E p \in Thread : Rest(p) \/ Enter(p) \/ TryDown(p) \/ Use(p)
  \/ \E p \in Thread : Leave(p) \/ Block(p)
  \/ IdleLoop
  \/ Tick

Spec == Init /\ [][Next]_kvars

-----------------------------------------------------------------------------
(* The assertions of wakeup_proc, RR_enqueue, run_timer_list, __up and     *)
(* down: nothing but an up() ever wakes a thread from a down(), even when  *)
(* the timer interrupt comes just before the thread has left the CPU.      *)
AssertsHold == k.ok

(* A thread is in the wait queue exactly as long as it sleeps in down():   *)
(* no wakeup is lost and none comes too early.                             *)
WaitsInQueue ==
  AssertsHold /\ \A p \in Thread :
    k.wait[p] = "WT_KSEM" <=> \E i \in DOMAIN sem[s].queue : sem[s].queue[i] = p

(* The semaphore implements units that are held and a line that is served  *)
(* in turn: a woken thread holds its unit before it runs again, so nobody  *)
(* who comes later can take it.                                            *)
Holds(p) ==
  \/ at[p] \in {"in", "leave"}
  \/ /\ at[p] = "want" /\ phase[p] # "runs"
     /\ \A i \in DOMAIN sem[s].queue : sem[s].queue[i] # p

Abs == INSTANCE AbsSemaphore WITH
         held <- {p \in Thread : Holds(p)}, line <- sem[s].queue

ImplementsSemaphore == Abs!Spec

(* Who has to wait in down() gets in.  Threads are created in every order, *)
(* so that it is enough to ask one of them.                                *)
Enters(p) ==
  (\E i \in DOMAIN sem[s].queue : sem[s].queue[i] = p) ~> at[p] = "in"

WaiterEnters == Enters(CHOOSE p \in Thread : TRUE)
=============================================================================

------------------------------- MODULE CheckSync -------------------------------
(***************************************************************************)
(* check_sync of sync/check_sync.c: the philosophers dine with semaphores; *)
(* when check_sync has waited for the last of them it starts philosophers  *)
(* who dine with a monitor.  check_sync itself only waits; its thread is   *)
(* left out.                                                               *)
(*                                                                         *)
(* With semaphores, a mutex guards state_sema, and each philosopher has a  *)
(* semaphore on which it waits for its forks.  With the monitor            *)
(* (sync/monitor.c) there is a mutex to get in, a condition variable for   *)
(* each philosopher, and the semaphore next, on which a signaller waits    *)
(* while the thread it has woken is in the monitor.  Places outside are    *)
(* think, lock, eat, back, quit and over; inside, each line between two    *)
(* semaphore operations is a place.                                        *)
(***************************************************************************)
EXTENDS KThreads

CONSTANTS
  N,          \* philosophers
  Times,      \* TIMES, how often each one eats
  SleepTime   \* SLEEP_TIME

(* Thread i is philosopher i, 0 is the idle process.  Semaphore 0 is the   *)
(* mutex and i is that of philosopher i; N + 1 is the monitor's next.      *)
ASSUME CheckSyncAssumption ==
  /\ Proc = 0..N /\ Idle = 0 /\ Thread = 1..N /\ Sem = 0..(N + 1)
  /\ N \in Nat \ {0, 1} /\ Times \in Nat \ {0} /\ SleepTime \in Nat \ {0}

(* mutex or mtp->mutex, and mtp->next; s[i] or the semaphore of mtp->cv[i] *)
(* is i.                                                                   *)
mutex == 0
next  == N + 1

VARIABLES
  half,           \* "sema" or "condvar"
  state_sema,     \* with semaphores: THINKING, HUNGRY or EATING
  next_count,     \* signallers that wait on next
  count,          \* per condition variable, the threads that wait on it
  state_condvar,  \* with the monitor: THINKING, HUNGRY or EATING
  caller,         \* where p goes on after cond_signal
  iter            \* the meals a philosopher has begun to think about

monitor == <<next_count, count, state_condvar, caller>>
others  == <<half, state_sema>>
locals  == <<others, monitor, iter>>
vars    == <<kvars, locals>>

LEFT(i)  == IF i = 1 THEN N ELSE i - 1
RIGHT(i) == IF i = N THEN 1 ELSE i + 1

(* All threads start alike, with all semaphores at 0 but the mutex.        *)
Unlocked == [m \in Sem |-> IF m = mutex THEN 1 ELSE 0]

(* What the philosophers of both kinds do in the same way: they think, ask *)
(* to take the forks, eat, ask to put them back, and quit.                 *)
Think(p) == at[p] = "think" /\ Sleep(p, SleepTime, "lock") /\ UNCHANGED locals
Lock(p)  == at[p] = "lock"  /\ Down(p, mutex, "hungry")    /\ UNCHANGED locals
Eat(p)   == at[p] = "eat"   /\ Sleep(p, SleepTime, "back") /\ UNCHANGED locals
Back(p)  == at[p] = "back"  /\ Down(p, mutex, "full")      /\ UNCHANGED locals
Leave(p) == at[p] = "quit"  /\ Quit(p, "over")             /\ UNCHANGED locals

Common(p) ==
  \/ Think(p) \/ Lock(p) \/ Eat(p) \/ Back(p) \/ Leave(p)
  \/ Block(p) /\ UNCHANGED locals

-----------------------------------------------------------------------------
(* The semaphores.                                                         *)
(*                                                                         *)
(* Of phi_test_sema: i may eat, since it is hungry and no neighbour eats.  *)
(* Mutant: only the left neighbour is looked at.                           *)
MayEatLeft(i) == state_sema[i] = "HUNGRY" /\ state_sema[LEFT(i)] # "EATING"

MayEatSema(i) ==
  /\ state_sema[i] = "HUNGRY"
  /\ state_sema[LEFT(i)] # "EATING" /\ state_sema[RIGHT(i)] # "EATING"

(* phi_test_sema(j), called by p: j's forks are laid aside and j is told.  *)
TestSema(p, j, l) ==
  /\ IF MayEatSema(j)
     THEN /\ state_sema' = [state_sema EXCEPT ![j] = "EATING"]
          /\ Up(p, j, l)
     ELSE /\ Runs(p) /\ GoesTo(p, l)
          /\ UNCHANGED <<k, timers, sem, phase, state_sema>>
  /\ UNCHANGED <<half, monitor, iter>>

BecomesSema(p, s, l) ==
  /\ Runs(p) /\ GoesTo(p, l)
  /\ state_sema' = [state_sema EXCEPT ![p] = s]
  /\ UNCHANGED <<k, timers, sem, phase, half, monitor, iter>>

(* phi_take_forks_sema                                                     *)
HungrySema(p)   == at[p] = "hungry" /\ BecomesSema(p, "HUNGRY", "test")
TestSelfSema(p) == at[p] = "test" /\ TestSema(p, p, "unlock")
UnlockSema(p)   == at[p] = "unlock" /\ Up(p, mutex, "get") /\ UNCHANGED locals
GetSema(p)      == at[p] = "get" /\ Down(p, p, "eat") /\ UNCHANGED locals

(* phi_put_forks_sema                                                      *)
FullSema(p)      == at[p] = "full" /\ BecomesSema(p, "THINKING", "left")
TestLeftSema(p)  == at[p] = "left"  /\ TestSema(p, LEFT(p), "right")
TestRightSema(p) == at[p] = "right" /\ TestSema(p, RIGHT(p), "done")

Dined(p) == iter' = [iter EXCEPT ![p] = @ + 1]

DoneSema(p) ==
  /\ at[p] = "done"
  /\ Up(p, mutex, IF iter[p] < Times THEN "think" ELSE "quit")
  /\ Dined(p)
  /\ UNCHANGED <<half, state_sema, monitor>>

SemaStep(p) ==
  \/ HungrySema(p) \/ TestSelfSema(p) \/ UnlockSema(p) \/ GetSema(p)
  \/ FullSema(p) \/ TestLeftSema(p) \/ TestRightSema(p) \/ DoneSema(p)

-----------------------------------------------------------------------------
(* The monitor.                                                            *)
MonitorInit ==
  /\ next_count    = 0
  /\ count         = [i \in Thread |-> 0]
  /\ state_condvar = [i \in Thread |-> "THINKING"]
  /\ caller        = [i \in Thread |-> "self"]

(* Leaving the monitor: to a signaller if there is one, else to anybody.   *)
Exit == IF next_count > 0 THEN next ELSE mutex

(* cond_wait on p's own condition variable: count it, leave the monitor,   *)
(* wait, and be in the monitor again.                                      *)
WaitLeaves(p) ==
  /\ at[p] = "wait"
  /\ count' = [count EXCEPT ![p] = @ + 1]
  /\ Up(p, Exit, "asleep")
  /\ UNCHANGED <<others, next_count, state_condvar, caller, iter>>

WaitSleeps(p) == at[p] = "asleep" /\ Down(p, p, "awake") /\ UNCHANGED locals

Uncount(p) == [count EXCEPT ![p] = @ - 1]

WaitEnds(p) ==
  /\ at[p] = "awake" /\ Runs(p)
  /\ count' = Uncount(p)
  /\ GoesTo(p, "exit")
  /\ UNCHANGED <<k, timers, sem, phase, others, next_count, state_condvar, caller, iter>>

(* cond_signal does nothing unless somebody waits.                         *)
(* Mutant: the signal is sent whether or not anybody waits for it.         *)
SignalsAny(j) == TRUE
Signals(j) == count[j] > 0

(* The test of phi_test_condvar.                                           *)
MayEat(i) ==
  /\ state_condvar[i] = "HUNGRY"
  /\ state_condvar[LEFT(i)] # "EATING" /\ state_condvar[RIGHT(i)] # "EATING"

(* phi_test_condvar(j) called by p, with the first half of cond_signal:    *)
(* if somebody waits for the signal, p hands the monitor over.             *)
Test(p, j, l) ==
  /\ state_condvar' = IF MayEat(j) THEN [state_condvar EXCEPT ![j] = "EATING"]
                      ELSE state_condvar
  /\ IF MayEat(j) /\ Signals(j)
     THEN /\ next_count' = next_count + 1
          /\ caller' = [caller EXCEPT ![p] = l]
          /\ Up(p, j, "signal")
     ELSE /\ Runs(p) /\ GoesTo(p, l)
          /\ UNCHANGED <<k, timers, sem, phase, next_count, caller>>
  /\ UNCHANGED <<others, count, iter>>

(* The second half of cond_signal: wait on next until the monitor comes    *)
(* back, and go on behind the test.                                        *)
SignalSleeps(p) == at[p] = "signal" /\ Down(p, next, "signalled") /\ UNCHANGED locals

SignalEnds(p) ==
  /\ at[p] = "signalled" /\ Runs(p)
  /\ next_count' = next_count - 1
  /\ GoesTo(p, caller[p])
  /\ UNCHANGED <<k, timers, sem, phase, others, count, state_condvar, caller, iter>>

-----------------------------------------------------------------------------
Becomes(p, s, l) ==
  /\ Runs(p) /\ GoesTo(p, l)
  /\ state_condvar' = [state_condvar EXCEPT ![p] = s]
  /\ UNCHANGED <<k, timers, sem, phase, others, next_count, count, caller, iter>>

(* phi_take_forks_condvar                                                  *)
Hungry(p)   == at[p] = "hungry" /\ Becomes(p, "HUNGRY", "self")
TestSelf(p) == at[p] = "self"   /\ Test(p, p, "tested")
Tested(p) ==
  /\ at[p] = "tested" /\ Runs(p)
  /\ GoesTo(p, IF state_condvar[p] = "HUNGRY" THEN "wait" ELSE "exit")
  /\ UNCHANGED <<k, timers, sem, phase, locals>>
Taken(p)    == at[p] = "exit" /\ Up(p, Exit, "eat") /\ UNCHANGED locals

(* phi_put_forks_condvar                                                   *)
Full(p)      == at[p] = "full"  /\ Becomes(p, "THINKING", "left")
TestLeft(p)  == at[p] = "left"  /\ Test(p, LEFT(p), "right")
TestRight(p) == at[p] = "right" /\ Test(p, RIGHT(p), "done")
Done(p) ==
  /\ at[p] = "done"
  /\ Up(p, Exit, IF iter[p] < Times THEN "think" ELSE "quit")
  /\ Dined(p)
  /\ UNCHANGED <<others, monitor>>

CondvarStep(p) ==
  \/ Hungry(p) \/ TestSelf(p) \/ Tested(p) \/ Taken(p)
  \/ WaitLeaves(p) \/ WaitSleeps(p) \/ WaitEnds(p)
  \/ SignalSleeps(p) \/ SignalEnds(p)
  \/ Full(p) \/ TestLeft(p) \/ TestRight(p) \/ Done(p)

-----------------------------------------------------------------------------
(* check_sync.                                                             *)
Init ==
  /\ half = "sema"
  /\ StartUp([i \in 1..N |-> i], Unlocked, "think")
  /\ state_sema = [i \in Thread |-> "THINKING"]
  /\ iter       = [i \in Thread |-> 1]
  /\ MonitorInit

(* Every do_wait has returned: monitor_init, and five new threads.         *)
check_sync ==
  /\ half = "sema" /\ \A p \in Thread : k.state[p] = "ZOMBIE"
  /\ half'   = "condvar"
  /\ k'      = Started([i \in 1..N |-> i])
  /\ timers' = <<>>
  /\ sem'    = Semaphores(Unlocked)
  /\ at'     = [p \in Thread |-> "think"]
  /\ phase'  = [p \in Thread |-> "runs"]
  /\ iter'   = [p \in Thread |-> 1]
  /\ UNCHANGED <<state_sema, monitor>>

Step(p) ==
  \/ Common(p)
  \/ half = "sema" /\ SemaStep(p)
  \/ half = "condvar" /\ CondvarStep(p)

Idles == IdleLoop /\ UNCHANGED locals
Ticks == Tick /\ UNCHANGED locals

Next == (\E p \in Thread : Step(p)) \/ check_sync \/ Idles \/ Ticks

Spec == Init /\ [][Next]_vars

(* Fairness: the CPU executes the current thread, and the timer goes on.   *)
Fairness ==
  /\ \A p \in Thread : WF_vars(Step(p))
  /\ WF_vars(check_sync) /\ WF_vars(Idles) /\ WF_vars(Ticks)

FairSpec == Spec /\ Fairness

-----------------------------------------------------------------------------
Inside == {"hungry", "self", "tested", "wait", "asleep", "awake", "signal",
           "signalled", "exit", "full", "left", "right", "done"}
(* The threads that have the monitor: in it, and not waiting to get it     *)
(* back.  One that has been woken has it although it does not run yet.     *)
InQueue(p, m) == \E i \in DOMAIN sem[m].queue : sem[m].queue[i] = p

Active(p) ==
  \/ at[p] \in Inside \ {"asleep", "signal"}
  \/ at[p] = "asleep" /\ phase[p] # "runs" /\ ~InQueue(p, p)
  \/ at[p] = "signal" /\ phase[p] # "runs" /\ ~InQueue(p, next)
  \/ at[p] \in {"lock", "back"} /\ phase[p] # "runs" /\ ~InQueue(p, mutex)

(* The monitor is with exactly one thread, or free: it is not lost when a  *)
(* signal hands it on, and the last to leave sets it free.                 *)
OneHasMonitor == Cardinality({p \in Thread : Active(p)}) + sem[mutex].value = 1

(* A signal is not saved: it finds its waiter or is not sent; and the      *)
(* counts that decide this are those of the threads that wait.             *)
SignalsNotSaved ==
  /\ sem[next].value = 0 /\ \A i \in Thread : sem[i].value = 0
  /\ \A i \in Thread : count[i] = IF at[i] \in {"asleep", "awake"} THEN 1 ELSE 0
  /\ next_count = Cardinality({p \in Thread : at[p] \in {"signal", "signalled"}})

(* With semaphores, a philosopher is told of its forks once: s[p] is 1     *)
(* only between the test in which p gets them and p's own down.            *)
ToldOnce ==
  \A p \in Thread :
    /\ sem[p].value \in 0..1
    /\ sem[p].value = 1 => state_sema[p] = "EATING" /\ at[p] \in {"unlock", "get"}

(* Two neighbours never eat together: neither by their states nor by where *)
(* they are.  And a philosopher is told of its forks once.                 *)
ForksExclusive ==
  LET state == IF half = "sema" THEN state_sema ELSE state_condvar
  IN  /\ \A p \in Thread :
           /\ at[p] \in {"eat", "back", "full"} => state[p] = "EATING"
           /\ state[p] = "EATING" => state[RIGHT(p)] # "EATING"
      /\ half = "sema" => ToldOnce

(* The monitor is with one thread or free, and a signal that nobody waits  *)
(* for is not saved.                                                       *)
OneInMonitor ==
  half = "condvar" => OneHasMonitor /\ SignalsNotSaved

(* No wakeup is lost and nobody is stuck: all philosophers of both kinds   *)
(* eat TIMES times, and check_sync comes to its end.                       *)
Over ==
  half = "condvar" /\ \A p \in Thread : k.state[p] = "ZOMBIE" /\ iter[p] = Times + 1

AllQuit == <>Over
=============================================================================

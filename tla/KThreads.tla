------------------------------- MODULE KThreads -------------------------------
(***************************************************************************)
(* Kernel threads of lab8 and what they block on: the semaphores of        *)
(* sync/sem.c over the wait queues of sync/wait.c, and do_sleep.  A module *)
(* that extends this one gives the threads a program: at[p] is p's place   *)
(* in it, and each operation below takes the place it leads to.            *)
(*                                                                         *)
(* A kernel thread is not preempted, but runs with interrupts on: the      *)
(* timer interrupt comes between any two steps, also between the step that *)
(* marks a thread as sleeping and its schedule().                          *)
(***************************************************************************)
EXTENDS Sched

CONSTANTS
  Thread,  \* the kernel threads: all of Proc but Idle
  Sem      \* the semaphores

VARIABLES
  k,        \* the scheduler record
  timers,   \* timer_list
  sem,      \* per semaphore its value and its wait queue
  at,       \* the place of each thread in its program
  phase     \* "runs"; "sleeps": about to call schedule(); "woken": back from it

kvars == <<k, timers, sem, at, phase>>

(* Threads created by kernel_thread in the order of born, semaphores set   *)
(* up by sem_init, and the CPU given up to the threads.                    *)
Started(born) ==
  [current |-> Idle,
   state   |-> [p \in Proc |-> "RUNNABLE"],
   wait    |-> [p \in Proc |-> "none"],
   resched |-> [p \in Proc |-> p = Idle],
   slice   |-> [p \in Proc |-> IF p = Idle THEN 0 ELSE MaxSlice],
   runq    |-> born,
   ok      |-> TRUE]

Semaphores(value) == [m \in Sem |-> [value |-> value[m], queue |-> <<>>]]

StartUp(born, value, start) ==
  /\ k = Started(born)
  /\ timers = <<>>
  /\ sem    = Semaphores(value)
  /\ at     = [p \in Thread |-> start]
  /\ phase  = [p \in Thread |-> "runs"]

Runs(p)     == k.current = p /\ phase[p] = "runs"
GoesTo(p, l) == at' = [at EXCEPT ![p] = l]

-----------------------------------------------------------------------------
(* __down of semaphore m by p: takes a unit, or queues up and goes to      *)
(* sleep uninterruptibly.                                                  *)
DownTakes(p, m, l) ==
  /\ Runs(p) /\ sem[m].value > 0
  /\ sem' = [sem EXCEPT ![m].value = @ - 1]
  /\ GoesTo(p, l)
  /\ UNCHANGED <<k, timers, phase>>

DownSleeps(p, m) ==
  /\ Runs(p) /\ sem[m].value <= 0
  /\ k'     = Sleeping(k, "WT_KSEM")
  /\ sem'   = [sem EXCEPT ![m].queue = Append(@, p)]
  /\ phase' = [phase EXCEPT ![p] = "sleeps"]
  /\ UNCHANGED <<timers, at>>

(* wait_current_del: p's entry leaves the queue, if it is still there.     *)
WaitDel(q, p) ==
  IF \A i \in DOMAIN q : q[i] # p THEN q
  ELSE RemoveAt(q, CHOOSE i \in DOMAIN q : q[i] = p)

(* Back from schedule(): wakeup_flags is WT_KSEM exactly when __up took p  *)
(* off the queue; down() asserts that nothing else wakes it.               *)
DownWoken(p, m, l) ==
  /\ k.current = p /\ phase[p] = "woken"
  /\ k'     = [k EXCEPT !.ok = @ /\ \A i \in DOMAIN sem[m].queue : sem[m].queue[i] # p]
  /\ sem'   = [sem EXCEPT ![m].queue = WaitDel(@, p)]
  /\ phase' = [phase EXCEPT ![p] = "runs"]
  /\ GoesTo(p, l)
  /\ UNCHANGED timers

Down(p, m, l) == DownTakes(p, m, l) \/ DownSleeps(p, m) \/ DownWoken(p, m, l)

(* __up of semaphore m: a unit goes to the first waiter without passing    *)
(* through the value, which is raised only if there is none.               *)
(* Mutant: the value is raised and the first waiter woken.                 *)
Raised(m) ==
  [sem EXCEPT ![m].value = @ + 1, ![m].queue = IF @ = <<>> THEN @ ELSE Tail(@)]

Given(m) ==
  IF sem[m].queue = <<>> THEN [sem EXCEPT ![m].value = @ + 1]
  ELSE [sem EXCEPT ![m].queue = Tail(@)]

(* Mutant: the waiter is taken off the queue but not woken.                *)
SignalledNot(m) == k

Signalled(m) ==
  IF sem[m].queue = <<>> THEN k
  ELSE LET w == Head(sem[m].queue)
       IN  WakeupProc([k EXCEPT !.ok = @ /\ k.wait[w] = "WT_KSEM"], w)

Up(p, m, l) ==
  /\ Runs(p)
  /\ k'   = Signalled(m)
  /\ sem' = Given(m)
  /\ GoesTo(p, l)
  /\ UNCHANGED <<timers, phase>>

-----------------------------------------------------------------------------
(* do_sleep for n ticks.                                                   *)
Sleep(p, n, l) ==
  \/ /\ Runs(p)
     /\ k'      = Sleeping(k, "WT_TIMER")
     /\ timers' = AddTimer(timers, p, n)
     /\ phase'  = [phase EXCEPT ![p] = "sleeps"]
     /\ UNCHANGED <<sem, at>>
  \/ /\ k.current = p /\ phase[p] = "woken"
     /\ timers' = DelTimer(timers, p)
     /\ phase'  = [phase EXCEPT ![p] = "runs"]
     /\ GoesTo(p, l)
     /\ UNCHANGED <<k, sem>>

(* The schedule() of down and of do_sleep.                                 *)
Block(p) ==
  /\ k.current = p /\ phase[p] = "sleeps"
  /\ k'     = Schedule(k)
  /\ phase' = [phase EXCEPT ![p] = "woken"]
  /\ UNCHANGED <<timers, sem, at>>

(* The thread function returns: do_exit.                                   *)
Quit(p, l) ==
  /\ Runs(p)
  /\ k' = Schedule([k EXCEPT !.state[p] = "ZOMBIE"])
  /\ GoesTo(p, l)
  /\ UNCHANGED <<timers, sem, phase>>

IdleLoop ==
  /\ k.current = Idle /\ k.resched[Idle]
  /\ k' = Schedule(k)
  /\ UNCHANGED <<timers, sem, at, phase>>

(* The timer interrupt.  It comes in kernel mode: nobody is preempted.     *)
Tick ==
  /\ k' \in Ticked(k, timers)
  /\ timers' = RunTimers(timers)
  /\ UNCHANGED <<sem, at, phase>>
=============================================================================

------------------------------- MODULE Process -------------------------------
(***************************************************************************)
(* The life of a process in lab8: fork, wait, exit, kill, yield, sleep     *)
(* (process/proc.c), the trap epilogue and the timer interrupt             *)
(* (trap/trap.c), init_main and the idle loop, over the scheduler of       *)
(* modules Sched and Timers, which the timer interrupt of Sched drives.    *)
(*                                                                         *)
(* There is one CPU and the kernel does not preempt itself: a process      *)
(* gives up the CPU only in schedule(), and a user process in a system     *)
(* call runs with interrupts off.  pc[p] says where p stands:              *)
(*   "boot"     init, before it has created user_main                      *)
(*   "run"      user code; the loop of init_main; the loop of cpu_idle     *)
(*   "trapret"  in trap(), after the handler, before the return to user    *)
(*   "wait"     do_wait, asleep, about to call schedule()                  *)
(*   "waited"   do_wait, to go on after that schedule()                    *)
(*   "sleep"    do_sleep, asleep, about to call schedule()                 *)
(*   "slept"    do_sleep, to go on after that schedule()                   *)
(*   "reaped"   init_main, about to call schedule() after a reaped child   *)
(*   "end"      a zombie, or no process in the slot                        *)
(***************************************************************************)
EXTENDS Sched

CONSTANTS
  InitProc,       \* initproc
  AnyChild,   \* do_wait's pid = 0
  MaxSleep,   \* bound of the model: the longest sleep a program asks for
  Targets     \* bound of the model: the pids that programs kill

ASSUME ProcessAssumption ==
  /\ InitProc \in Proc \ {Idle}
  /\ AnyChild \notin Proc
  /\ MaxSleep \in Nat
  /\ Targets \subseteq Proc \ {Idle}

User == Proc \ {Idle, InitProc}

VARIABLES
  k,        \* the scheduler record
  parent,   \* proc->parent
  exiting,  \* proc->flags & PF_EXITING
  waitFor,  \* the pid argument of the do_wait that p is in
  timers,   \* timer_list
  pc,       \* where each process stands
  nr,       \* nr_process
  halted    \* initproc has called do_exit, the kernel has panicked

vars == <<k, parent, exiting, waitFor, timers, pc, nr, halted>>

PC == {"boot", "run", "trapret", "wait", "waited", "sleep", "slept", "reaped",
       "end"}

Exists(p)   == k.state[p] # "NONE"
Children(p) == {c \in Proc \ {Idle} : Exists(c) /\ parent[c] = p}

TypeOK ==
  /\ k \in SchedRecord
  /\ parent  \in [Proc -> Proc]
  /\ exiting \in [Proc -> BOOLEAN]
  /\ waitFor \in [Proc -> Proc \cup {AnyChild}]
  /\ timers  \in Seq(Timer(Proc))
  /\ pc      \in [Proc -> PC]
  /\ nr      \in Int
  /\ halted  \in BOOLEAN

(* proc_init: idle runs and wants to reschedule, init waits in the queue.  *)
Init ==
  /\ k = [current |-> Idle,
          state   |-> [p \in Proc |-> IF p \in {Idle, InitProc} THEN "RUNNABLE"
                                      ELSE "NONE"],
          wait    |-> [p \in Proc |-> "none"],
          resched |-> [p \in Proc |-> p = Idle],
          slice   |-> [p \in Proc |-> IF p = InitProc THEN MaxSlice ELSE 0],
          runq    |-> <<InitProc>>,
          ok      |-> TRUE]
  /\ parent  = [p \in Proc |-> Idle]
  /\ exiting = [p \in Proc |-> FALSE]
  /\ waitFor = [p \in Proc |-> AnyChild]
  /\ timers  = <<>>
  /\ pc      = [p \in Proc |-> CASE p = Idle -> "run" [] p = InitProc -> "boot"
                                 [] OTHER -> "end"]
  /\ nr      = 2
  /\ halted  = FALSE

-----------------------------------------------------------------------------
(* p is on the CPU and stands at pc l.                                     *)
At(p, l) == ~halted /\ k.current = p /\ pc[p] = l

(* The end of a system call: a user process finishes trap(), a kernel      *)
(* thread simply goes on.                                                  *)
Return(p) == IF p = InitProc THEN "run" ELSE "trapret"

(* do_fork: a fresh proc_struct in slot c, child of the current process,   *)
(* whose wait_state is cleared; wakeup_proc puts the child in the queue.   *)
Fork(p, c) ==
  /\ \/ At(p, "run") /\ p \in User
     \/ At(p, "boot")
  /\ ~Exists(c)
  /\ k' = WakeupProc([k EXCEPT !.state[c]   = "UNINIT",
                               !.wait[c]    = "none",
                               !.wait[p]    = "none",
                               !.resched[c] = FALSE,
                               !.slice[c]   = 0], c)
  /\ parent'  = [parent EXCEPT ![c] = p]
  /\ exiting' = [exiting EXCEPT ![c] = FALSE]
  /\ pc'      = [pc EXCEPT ![c] = "run", ![p] = Return(p)]
  /\ nr'      = nr + 1
  /\ UNCHANGED <<waitFor, timers, halted>>

(* A system call that leaves the process table alone: getpid, a do_fork    *)
(* that found no memory, do_sleep(0).                                      *)
OtherSyscall(p) ==
  /\ At(p, "run") /\ p \in User
  /\ pc' = [pc EXCEPT ![p] = "trapret"]
  /\ UNCHANGED <<k, parent, exiting, waitFor, timers, nr, halted>>

-----------------------------------------------------------------------------
(* do_exit of p: p becomes a zombie, its parent is woken if it waits for a *)
(* child, p's children become init's, and init is woken if it waits and    *)
(* one of them is a zombie.  init itself may not exit: the kernel panics.  *)
(* Mutants: nobody is woken; the children stay with their dead parent.     *)
WakeIfNever(s, cond, p) == s
AdoptedNot(p) == parent

WakeIf(s, cond, p) ==
  IF cond /\ s.wait[p] = "WT_CHILD" THEN WakeupProc(s, p) ELSE s

Adopted(p) == [c \in Proc |-> IF c \in Children(p) THEN InitProc ELSE parent[c]]

DoExit(p) ==
  IF p = InitProc
  THEN /\ halted' = TRUE
       /\ UNCHANGED <<k, parent, exiting, waitFor, timers, pc, nr>>
  ELSE LET dead   == [k EXCEPT !.state[p] = "ZOMBIE"]
           told   == WakeIf(dead, TRUE, parent[p])
           orphan == \E c \in Children(p) : k.state[c] = "ZOMBIE"
       IN  /\ k' = Schedule(WakeIf(told, orphan, InitProc))
           /\ parent' = Adopted(p)
           /\ pc' = [pc EXCEPT ![p] = "end"]
           /\ waitFor' = [waitFor EXCEPT ![p] = AnyChild]
           /\ UNCHANGED <<exiting, timers, nr, halted>>

Exit(p) == At(p, "run") /\ p \in User /\ DoExit(p)

-----------------------------------------------------------------------------
(* do_wait of p for child q, or for any child: entered from user code or   *)
(* from init_main, and entered again (goto repeat) after each wakeup that  *)
(* did not come from a kill.                                               *)
(* Mutant: the flag is not looked at after the wakeup.                     *)
EntersWaitKilled(p, q) ==
  \/ At(p, "run") /\ p \in User
  \/ At(p, "run") /\ p = InitProc /\ q = AnyChild
  \/ At(p, "waited") /\ q = waitFor[p]

EntersWait(p, q) ==
  \/ At(p, "run") /\ p \in User
  \/ At(p, "run") /\ p = InitProc /\ q = AnyChild
  \/ At(p, "waited") /\ ~exiting[p] /\ q = waitFor[p]

WaitedFor(p, q) == IF q = AnyChild THEN Children(p) ELSE Children(p) \cap {q}

(* remove_links takes the process out of the count.                        *)
Discounted == nr - 1

(* A zombie is found: it leaves the hash list, the process list and its    *)
(* parent's children, and its proc_struct is freed.                        *)
Reap(p, q) ==
  /\ EntersWait(p, q)
  /\ \E z \in WaitedFor(p, q) :
       /\ k.state[z] = "ZOMBIE"
       /\ k'  = [k EXCEPT !.state[z] = "NONE"]
       /\ pc' = [pc EXCEPT ![p] = IF p = InitProc THEN "reaped" ELSE "trapret"]
  /\ nr' = Discounted
  /\ waitFor' = [waitFor EXCEPT ![p] = AnyChild]
  /\ UNCHANGED <<parent, exiting, timers, halted>>

(* There are such children, none of them a zombie: p goes to sleep.        *)
WaitSleep(p, q) ==
  /\ EntersWait(p, q)
  /\ WaitedFor(p, q) # {}
  /\ \A c \in WaitedFor(p, q) : k.state[c] # "ZOMBIE"
  /\ k'  = Sleeping(k, "WT_CHILD")
  /\ pc' = [pc EXCEPT ![p] = "wait"]
  /\ waitFor' = [waitFor EXCEPT ![p] = q]
  /\ UNCHANGED <<parent, exiting, timers, nr, halted>>

(* No such child: -E_BAD_PROC.  This ends init_main, and with it the       *)
(* kernel: the thread that returns calls do_exit.                          *)
WaitNone(p, q) ==
  /\ EntersWait(p, q)
  /\ WaitedFor(p, q) = {}
  /\ waitFor' = [waitFor EXCEPT ![p] = AnyChild]
  /\ pc' = [pc EXCEPT ![p] = Return(p)]
  /\ halted' = (p = InitProc)
  /\ UNCHANGED <<k, parent, exiting, timers, nr>>

(* p wakes up in do_wait and finds that it has been killed.                *)
WaitKilled(p) == At(p, "waited") /\ exiting[p] /\ DoExit(p)

-----------------------------------------------------------------------------
(* do_kill of t: the flag, and a wakeup if t sleeps interruptibly.         *)
Kill(p, t) ==
  /\ At(p, "run") /\ p \in User
  /\ Exists(t)
  /\ exiting' = [exiting EXCEPT ![t] = TRUE]
  /\ k' = IF ~exiting[t] /\ k.wait[t] \in Interruptible
          THEN WakeupProc(k, t) ELSE k
  /\ pc' = [pc EXCEPT ![p] = "trapret"]
  /\ UNCHANGED <<parent, waitFor, timers, nr, halted>>

Yield(p) ==
  /\ At(p, "run") /\ p \in User
  /\ k'  = [k EXCEPT !.resched[p] = TRUE]
  /\ pc' = [pc EXCEPT ![p] = "trapret"]
  /\ UNCHANGED <<parent, exiting, waitFor, timers, nr, halted>>

(* do_sleep, up to its schedule() and after it.                            *)
Sleep(p, n) ==
  /\ At(p, "run") /\ p \in User
  /\ k'      = Sleeping(k, "WT_TIMER")
  /\ timers' = AddTimer(timers, p, n)
  /\ pc'     = [pc EXCEPT ![p] = "sleep"]
  /\ UNCHANGED <<parent, exiting, waitFor, nr, halted>>

SleepReturn(p) ==
  /\ At(p, "slept")
  /\ timers' = DelTimer(timers, p)
  /\ pc'     = [pc EXCEPT ![p] = "trapret"]
  /\ UNCHANGED <<k, parent, exiting, waitFor, nr, halted>>

(* The schedule() of do_wait, do_sleep and init_main.                      *)
Block(p) ==
  /\ \E l \in {"wait", "sleep", "reaped"} :
       /\ At(p, l)
       /\ pc' = [pc EXCEPT ![p] = CASE l = "wait"   -> "waited"
                                    [] l = "sleep"  -> "slept"
                                    [] l = "reaped" -> "run"]
  /\ k' = Schedule(k)
  /\ UNCHANGED <<parent, exiting, waitFor, timers, nr, halted>>

-----------------------------------------------------------------------------
(* The end of trap() on the way back to user mode: a killed process exits, *)
(* one that must give way is rescheduled and returns to user mode later.   *)
TrapExit(p) == At(p, "trapret") /\ exiting[p] /\ DoExit(p)

TrapReturn(p) ==
  /\ At(p, "trapret") /\ ~exiting[p]
  /\ k'  = IF k.resched[p] THEN Schedule(k) ELSE k
  /\ pc' = [pc EXCEPT ![p] = "run"]
  /\ UNCHANGED <<parent, exiting, waitFor, timers, nr, halted>>

(* cpu_idle.                                                               *)
IdleLoop ==
  /\ At(Idle, "run")
  /\ k.resched[Idle]
  /\ k' = Schedule(k)
  /\ UNCHANGED <<parent, exiting, waitFor, timers, pc, nr, halted>>

(* Interrupts are on in user code and in the kernel threads idle and init. *)
Interrupted(p) ==
  /\ ~halted /\ k.current = p
  /\ p \in User => pc[p] = "run"

(* The timer interrupt; a process interrupted in user mode ends in trap(). *)
Tick(p) ==
  /\ Interrupted(p)
  /\ k' \in Ticked(k, timers)
  /\ timers' = RunTimers(timers)
  /\ pc' = [pc EXCEPT ![p] = IF p \in User THEN "trapret" ELSE @]
  /\ UNCHANGED <<parent, exiting, waitFor, nr, halted>>

-----------------------------------------------------------------------------
(* The kernel has stopped.                                                 *)
Halted == halted /\ UNCHANGED vars

Next ==
  \/ \E p, c \in Proc : Fork(p, c)
  \/ \E p \in Proc : OtherSyscall(p)
  \/ \E p \in Proc : Exit(p)
  \/ \E p \in Proc, q \in Proc \cup {AnyChild} :
       Reap(p, q) \/ WaitSleep(p, q) \/ WaitNone(p, q)
  \/ \E p \in Proc : WaitKilled(p)
  \/ \E p \in Proc, t \in Targets : Kill(p, t)
  \/ \E p \in Proc : Yield(p)
  \/ \E p \in Proc, n \in 1..MaxSleep : Sleep(p, n)
  \/ \E p \in Proc : SleepReturn(p)
  \/ \E p \in Proc : Block(p)
  \/ \E p \in Proc : TrapExit(p)
  \/ \E p \in Proc : TrapReturn(p)
  \/ IdleLoop
  \/ \E p \in Proc : Tick(p)
  \/ Halted

Spec == Init /\ [][Next]_vars

-----------------------------------------------------------------------------
(* The run queue holds exactly the runnable processes that are neither on  *)
(* the CPU nor idle, each of them once; schedule() never gives the CPU to  *)
(* a zombie or to a freed process; and none of the assertions of           *)
(* wakeup_proc, of the RR class and of run_timer_list fails (k.ok): no     *)
(* zombie is woken, none is queued twice, an expiring timer finds no       *)
(* process that sleeps uninterruptibly.                                    *)
RunQueue ==
  /\ k.ok
  /\ \A i, j \in DOMAIN k.runq : k.runq[i] = k.runq[j] => i = j
  /\ Queued(k) = {p \in Proc : k.state[p] = "RUNNABLE"} \ {k.current, Idle}
  /\ k.state[k.current] \in {"RUNNABLE", "SLEEPING"}

(* No wakeup is lost between do_exit and do_wait: a process asleep in      *)
(* do_wait waits for a child, and none that it waits for is a zombie.      *)
NoLostChild ==
  \A p \in Proc : k.wait[p] = "WT_CHILD" =>
    /\ k.state[p] = "SLEEPING"
    /\ WaitedFor(p, waitFor[p]) # {}
    /\ \A c \in WaitedFor(p, waitFor[p]) : k.state[c] # "ZOMBIE"

(* A process asleep in do_sleep has a timer in the list; a timer lives on  *)
(* the kernel stack of do_sleep, so it is in the list only while its owner *)
(* is in do_sleep, and a process has at most one.                          *)
TimersInUse ==
  /\ \A p \in Proc : k.wait[p] = "WT_TIMER" => p \in Owners(timers)
  /\ \A p \in Owners(timers) : pc[p] \in {"sleep", "slept"}
  /\ \A i, j \in DOMAIN timers : timers[i].proc = timers[j].proc => i = j

(* Whoever sleeps in a system call will be found by what it waits for.     *)
SleepersFound == NoLostChild /\ TimersInUse

(* Every process but idle has a living parent, so that someone can wait    *)
(* for it: do_exit leaves no child behind.                                 *)
Parented ==
  \A p \in Proc \ {Idle} : Exists(p) =>
    Exists(parent[p]) /\ k.state[parent[p]] # "ZOMBIE"

(* init_main ends, and the kernel with it, only after all user processes   *)
(* have quit and been reaped.                                              *)
InitEndsLast == halted => \A p \in User : ~Exists(p)

(* No process is ever left without somebody who waits for it.              *)
NoneAbandoned == Parented /\ InitEndsLast

-----------------------------------------------------------------------------
(* Fairness.  Kernel code runs on; the timer interrupt is latched and taken *)
(* as soon as interrupts are on, hence strong fairness.  Nothing is assumed *)
(* of user code: it may loop for ever.                                     *)
Kernel(p) ==
  \/ WaitKilled(p) \/ SleepReturn(p) \/ Block(p) \/ TrapExit(p) \/ TrapReturn(p)
  \/ \E c \in Proc : At(p, "boot") /\ Fork(p, c)
  \/ \E q \in Proc \cup {AnyChild} :
       /\ p = InitProc \/ pc[p] = "waited"
       /\ Reap(p, q) \/ WaitSleep(p, q) \/ WaitNone(p, q)

Fairness ==
  /\ \A p \in Proc : WF_vars(Kernel(p))
  /\ WF_vars(IdleLoop)
  /\ \A p \in Proc : SF_vars(Tick(p))

FairSpec == Spec /\ Fairness

(* Round robin starves no one: a runnable process gets the CPU, whatever   *)
(* the others do.                                                          *)
NoStarvation ==
  \A p \in Proc \ {Idle} :
    k.state[p] = "RUNNABLE" ~> halted \/ k.current = p

(* Every sleeper wakes up.                                                 *)
SleepersWake ==
  \A p \in User : k.wait[p] = "WT_TIMER" ~> k.wait[p] # "WT_TIMER"

(* Orphans do not pile up: a zombie child of init is reaped.               *)
OrphansReaped ==
  \A p \in User :
    k.state[p] = "ZOMBIE" /\ parent[p] = InitProc ~> k.state[p] = "NONE" \/ halted

(* A process that is killed in its sleep dies.                             *)
KilledSleeperDies ==
  \A p \in User :
    exiting[p] /\ k.state[p] = "RUNNABLE" /\ pc[p] \in {"waited", "slept"}
      ~> k.state[p] \in {"ZOMBIE", "NONE"} \/ halted

(* "do_kill - kill process with pid" (proc.c): a killed process dies.      *)
KilledDies ==
  \A p \in User :
    exiting[p] /\ Exists(p) ~> k.state[p] \in {"ZOMBIE", "NONE"} \/ halted
=============================================================================

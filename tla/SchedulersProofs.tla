-------------------------- MODULE SchedulersProofs ---------------------------
(***************************************************************************)
(* Proofs about the systems of MCSchedulers, for all values of the         *)
(* constants.                                                              *)
(*                                                                         *)
(* Module Process: its type invariant, the run queue, that sleepers are    *)
(* found and that nobody is abandoned.  One lemma for each action and      *)
(* invariant; the invariants IInv, JInv and KInv each contain the one      *)
(* before.                                                                 *)
(*                                                                         *)
(* Module TimerList: the list of differences implements the timers, for    *)
(* any number of sleepers and any length of sleep.  What is left to a      *)
(* timer is the sum of the differences up to it (Sums).                    *)
(*                                                                         *)
(* Module Walk: the list and who waits, and that turns are in order, for   *)
(* any number of processes.  The invariant is WalkInv.                     *)
(***************************************************************************)
EXTENDS MCSchedulers, SchedProofs, WellFoundedInduction

LEMMA WakeIfType ==
  ASSUME NEW s \in SchedRecord, NEW c, NEW p \in Proc
  PROVE  WakeIf(s, c, p) \in SchedRecord
  BY WakeupType DEF WakeIf

(* do_exit, called by the process p.                                       *)
LEMMA DoExitType ==
  ASSUME TypeOK, NEW p \in Proc, DoExit(p)
  PROVE  TypeOK'
<1>1. CASE p = InitProc
  BY <1>1 DEF DoExit, TypeOK
<1>2. CASE p # InitProc
  <2> DEFINE dead   == [k EXCEPT !.state[p] = "ZOMBIE"]
             told   == WakeIf(dead, TRUE, parent[p])
             orphan == \E c \in Children(p) : k.state[c] = "ZOMBIE"
  <2>1. dead \in SchedRecord
    BY DEF TypeOK, SchedRecord, State
  <2>2. told \in SchedRecord
    <3> HIDE DEF dead
    <3> QED BY <2>1, WakeIfType DEF TypeOK
  <2>3. Schedule(WakeIf(told, orphan, InitProc)) \in SchedRecord
    <3> HIDE DEF told, orphan
    <3>1. WakeIf(told, orphan, InitProc) \in SchedRecord
      BY <2>2, WakeIfType, ProcessAssumption
    <3> QED BY <3>1, ScheduleType
  <2>4. k' \in SchedRecord
    BY <1>2, <2>3 DEF DoExit
  <2>5. /\ parent' = Adopted(p)
        /\ pc' = [pc EXCEPT ![p] = "end"]
        /\ waitFor' = [waitFor EXCEPT ![p] = AnyChild]
        /\ UNCHANGED <<exiting, timers, nr, halted>>
    BY <1>2 DEF DoExit
  <2>6. parent' \in [Proc -> Proc]
    BY <2>5, ProcessAssumption DEF Adopted, TypeOK
  <2> QED BY <2>4, <2>5, <2>6 DEF TypeOK, PC
<1> QED BY <1>1, <1>2

(* The process in slot c, which p has created and not yet woken.           *)
LEMMA ForkedType ==
  ASSUME TypeOK, NEW p \in Proc, NEW c \in Proc
  PROVE  [k EXCEPT !.state[c] = "UNINIT", !.wait[c] = "none", !.wait[p] = "none",
                   !.resched[c] = FALSE, !.slice[c] = 0] \in SchedRecord
<1> DEFINE new == [k EXCEPT !.state[c] = "UNINIT", !.wait[c] = "none",
                            !.wait[p] = "none", !.resched[c] = FALSE,
                            !.slice[c] = 0]
           wt  == [k.wait EXCEPT ![c] = "none", ![p] = "none"]
           sl  == [k.slice EXCEPT ![c] = 0]
<1>1. wt \in [Proc -> WaitState] /\ sl \in [Proc -> 0..MaxSlice]
  <2>1. k.wait \in [Proc -> WaitState] /\ k.slice \in [Proc -> 0..MaxSlice]
    BY Fields DEF TypeOK
  <2>2. "none" \in WaitState /\ 0 \in 0..MaxSlice
    BY SchedAssumption DEF WaitState
  <2> QED BY <2>1, <2>2
<1>2. new = [k EXCEPT !.state[c] = "UNINIT", !.wait = wt,
                      !.resched[c] = FALSE, !.slice = sl]
  BY Fields DEF TypeOK, SchedRecord
<1> HIDE DEF wt, sl
<1>3. [k EXCEPT !.state[c] = "UNINIT", !.wait = wt,
                !.resched[c] = FALSE, !.slice = sl] \in SchedRecord
  BY <1>1 DEF TypeOK, SchedRecord, State
<1> QED BY <1>2, <1>3

LEMMA ForkType ==
  ASSUME TypeOK, NEW p \in Proc, NEW c \in Proc, Fork(p, c)
  PROVE  TypeOK'
<1> DEFINE new == [k EXCEPT !.state[c] = "UNINIT", !.wait[c] = "none",
                            !.wait[p] = "none", !.resched[c] = FALSE,
                            !.slice[c] = 0]
<1>1. WakeupProc(new, c) \in SchedRecord
  <2>1. new \in SchedRecord
    BY ForkedType, Zenon
  <2> HIDE DEF new
  <2> QED BY <2>1, WakeupType
<1> QED BY <1>1 DEF Fork, TypeOK, PC, Return

(* The timer interrupt.                                                    *)
LEMMA TickType ==
  ASSUME TypeOK, NEW p \in Proc, Tick(p)
  PROVE  TypeOK'
<1>1. k' \in SchedRecord
  BY TickedType DEF Tick, TypeOK
<1>2. timers' \in Seq(Timer(Proc))
  BY RunTimersType DEF Tick, TypeOK
<1> QED BY <1>1, <1>2 DEF Tick, TypeOK, PC

(* Every step of the specification.                                        *)
LEMMA NextType ==
  ASSUME TypeOK, [Next]_vars
  PROVE  TypeOK'
<1>1. ASSUME NEW p \in Proc, NEW c \in Proc, Fork(p, c) PROVE TypeOK'
  BY <1>1, ForkType
<1>2. ASSUME NEW p \in Proc, OtherSyscall(p) PROVE TypeOK'
  BY <1>2 DEF OtherSyscall, TypeOK, PC
<1>3. ASSUME NEW p \in Proc, Exit(p) \/ WaitKilled(p) \/ TrapExit(p) PROVE TypeOK'
  BY <1>3, DoExitType DEF Exit, WaitKilled, TrapExit
<1>4. ASSUME NEW p \in Proc, NEW q \in Proc \cup {AnyChild}, Reap(p, q) PROVE TypeOK'
  <2>1. PICK z \in Proc : k' = [k EXCEPT !.state[z] = "NONE"]
    BY <1>4 DEF Reap, WaitedFor, Children
  <2>2. k' \in SchedRecord
    BY <2>1 DEF TypeOK, SchedRecord, State
  <2>3. nr' \in Int
    BY <1>4 DEF Reap, Discounted, TypeOK
  <2> QED BY <1>4, <2>2, <2>3 DEF Reap, TypeOK, PC
<1>5. ASSUME NEW p \in Proc, NEW q \in Proc \cup {AnyChild}, WaitSleep(p, q)
      PROVE  TypeOK'
  <2>1. k' \in SchedRecord
    BY <1>5, SleepingType DEF WaitSleep, TypeOK, WaitState, Interruptible
  <2> QED BY <1>5, <2>1 DEF WaitSleep, TypeOK, PC
<1>6. ASSUME NEW p \in Proc, NEW q \in Proc \cup {AnyChild}, WaitNone(p, q)
      PROVE  TypeOK'
  BY <1>6 DEF WaitNone, TypeOK, PC, Return
<1>7. ASSUME NEW p \in Proc, NEW t \in Targets, Kill(p, t) PROVE TypeOK'
  <2>1. t \in Proc
    BY ProcessAssumption
  <2>2. k' \in SchedRecord
    BY <1>7, <2>1, WakeupType DEF Kill, TypeOK
  <2> QED BY <1>7, <2>2 DEF Kill, TypeOK, PC
<1>8. ASSUME NEW p \in Proc, Yield(p) PROVE TypeOK'
  <2>1. k' \in SchedRecord
    BY <1>8 DEF Yield, TypeOK, SchedRecord
  <2> QED BY <1>8, <2>1 DEF Yield, TypeOK, PC
<1>9. ASSUME NEW p \in Proc, NEW n \in 1..MaxSleep, Sleep(p, n) PROVE TypeOK'
  <2>1. k' \in SchedRecord
    BY <1>9, SleepingType DEF Sleep, TypeOK, WaitState, Interruptible
  <2>2. n \in Nat
    BY ProcessAssumption
  <2>3. timers' \in Seq(Timer(Proc))
    BY <1>9, <2>2, AddTimerType DEF Sleep, TypeOK
  <2> QED BY <1>9, <2>1, <2>3 DEF Sleep, TypeOK, PC
<1>10. ASSUME NEW p \in Proc, SleepReturn(p) PROVE TypeOK'
  <2>1. timers' \in Seq(Timer(Proc))
    BY <1>10, DelTimerType DEF SleepReturn, TypeOK
  <2> QED BY <1>10, <2>1 DEF SleepReturn, TypeOK, PC
<1>11. ASSUME NEW p \in Proc, Block(p) PROVE TypeOK'
  <2>1. k' \in SchedRecord
    BY <1>11, ScheduleType DEF Block, TypeOK
  <2> QED BY <1>11, <2>1 DEF Block, TypeOK, PC
<1>12. ASSUME NEW p \in Proc, TrapReturn(p) PROVE TypeOK'
  <2>1. k' \in SchedRecord
    BY <1>12, ScheduleType DEF TrapReturn, TypeOK
  <2> QED BY <1>12, <2>1 DEF TrapReturn, TypeOK, PC
<1>13. ASSUME IdleLoop PROVE TypeOK'
  BY <1>13, ScheduleType DEF IdleLoop, TypeOK
<1>14. ASSUME NEW p \in Proc, Tick(p) PROVE TypeOK'
  BY <1>14, TickType
<1>15. CASE Halted \/ UNCHANGED vars
  BY <1>15 DEF Halted, vars, TypeOK
<1> QED BY <1>1, <1>2, <1>3, <1>4, <1>5, <1>6, <1>7, <1>8, <1>9, <1>10, <1>11,
           <1>12, <1>13, <1>14, <1>15 DEF Next

LEMMA InitType ==
  ASSUME Init
  PROVE  TypeOK
<1> DEFINE st == [p \in Proc |-> IF p \in {Idle, InitProc} THEN "RUNNABLE"
                                ELSE "NONE"]
           wt == [p \in Proc |-> "none"]
           rs == [p \in Proc |-> p = Idle]
           sl == [p \in Proc |-> IF p = InitProc THEN MaxSlice ELSE 0]
           q  == <<InitProc>>
<1>1. k \in SchedRecord
  <2>1. /\ st \in [Proc -> State] /\ wt \in [Proc -> WaitState]
        /\ rs \in [Proc -> BOOLEAN] /\ sl \in [Proc -> 0..MaxSlice]
        /\ q \in Seq(Proc)
    BY SchedAssumption, ProcessAssumption DEF State, WaitState
  <2>2. k = [current |-> Idle, state |-> st, wait |-> wt, resched |-> rs,
             slice |-> sl, runq |-> q, ok |-> TRUE]
    BY DEF Init
  <2> HIDE DEF st, wt, rs, sl, q
  <2> QED BY <2>1, <2>2, SchedAssumption DEF SchedRecord
<1>2. pc \in [Proc -> PC]
  BY DEF Init, PC
<1>3. /\ parent \in [Proc -> Proc] /\ exiting \in [Proc -> BOOLEAN]
      /\ waitFor \in [Proc -> Proc \cup {AnyChild}] /\ timers \in Seq(Timer(Proc))
      /\ nr \in Int /\ halted \in BOOLEAN
  <2>1. /\ parent = [p \in Proc |-> Idle] /\ exiting = [p \in Proc |-> FALSE]
        /\ waitFor = [p \in Proc |-> AnyChild] /\ timers = <<>>
        /\ nr = 2 /\ halted = FALSE
    BY DEF Init
  <2>2. timers \in Seq(Timer(Proc))
    BY <2>1
  <2>3. exiting \in [Proc -> BOOLEAN] /\ halted \in BOOLEAN
    <3> HIDE DEF st, wt, rs, sl, q
    <3> QED BY <2>1
  <2>4. parent \in [Proc -> Proc] /\ waitFor \in [Proc -> Proc \cup {AnyChild}]
    BY <2>1, SchedAssumption
  <2>5. nr \in Int
    BY <2>1
  <2> QED BY <2>2, <2>3, <2>4, <2>5
<1> QED BY <1>1, <1>2, <1>3 DEF TypeOK

(* The scheduler record, the process table, the timer list and the control *)
(* points keep their types in every behaviour of the kernel: in particular *)
(* no time slice ever leaves 0..max_time_slice.                            *)
THEOREM TypeCorrect == Spec => []TypeOK
<1>1. Init => TypeOK
  BY InitType
<1>2. TypeOK /\ [Next]_vars => TypeOK'
  BY NextType
<1> QED BY <1>1, <1>2, PTL DEF Spec

-----------------------------------------------------------------------------
(* What do_exit keeps of the scheduler when it wakes a parent.             *)
LEMMA WakeIfSane ==
  ASSUME NEW s \in SchedRecord, Sane(s), NEW c, NEW p \in Proc
  PROVE  LET r == WakeIf(s, c, p)
         IN  /\ Sane(r) /\ r.current = s.current /\ Woken(s, r)
             /\ c => r.wait[p] # "WT_CHILD"
<1>1. CASE c /\ s.wait[p] = "WT_CHILD"
  <2>1. s.state[p] = "SLEEPING"
    BY <1>1 DEF Sane
  <2> DEFINE r == WakeupProc(s, p)
  <2>2. /\ Sane(r) /\ r.current = s.current
        /\ r.state = [s.state EXCEPT ![p] = "RUNNABLE"]
        /\ r.wait = [s.wait EXCEPT ![p] = "none"]
    BY <2>1, WakeupSane
  <2> HIDE DEF r
  <2>3. Woken(s, r)
    BY <2>1, <2>2, Fields DEF Woken
  <2>4. r.wait[p] # "WT_CHILD"
    BY <2>2, Fields
  <2> QED BY <1>1, <2>2, <2>3, <2>4 DEF WakeIf, r
<1>2. CASE ~(c /\ s.wait[p] = "WT_CHILD")
  BY <1>2 DEF WakeIf, Woken
<1> QED BY <1>1, <1>2

-----------------------------------------------------------------------------
(* The inductive invariant: the queue agrees with the states, each state   *)
(* with the place where its process stands, and the timers in the list     *)
(* belong to processes in do_sleep, one each.                              *)
Places ==
  \A p \in Proc : /\ k.state[p] # "UNINIT"
                  /\ pc[p] = "end" <=> k.state[p] \in {"ZOMBIE", "NONE"}

OnCPU ==
  /\ pc[Idle] = "run"
  /\ pc[k.current] \notin {"wait", "sleep"} => k.state[k.current] = "RUNNABLE"

TimerOwners ==
  /\ OneTimer(timers)
  /\ \A q \in Owners(timers) : pc[q] \in {"sleep", "slept"}

NoSemaphore == \A p \in Proc : k.wait[p] # "WT_KSEM"

IInv == TypeOK /\ Sane(k) /\ Places /\ OnCPU /\ TimerOwners /\ NoSemaphore

(* It is more than the invariant of the run queue.                         *)
LEMMA InvQueue ==
  ASSUME IInv
  PROVE  RunQueue
<1>1. k.current \in Proc /\ k.state[k.current] \in State
  BY Fields DEF IInv, TypeOK
<1>2. k.state[k.current] \in {"RUNNABLE", "SLEEPING"}
  BY <1>1 DEF IInv, Places, OnCPU, State
<1> QED BY <1>2 DEF IInv, Sane, Distinct, RunQueue

(* A step that wakes processes, lets the current one or the next one go    *)
(* on, and moves no process out of a sleep that has a timer.               *)
LEMMA Placed ==
  ASSUME IInv, TypeOK', Sane(k'), NEW p \in Proc, NEW l \in PC \ {"end"},
         pc[p] # "end", pc' = [pc EXCEPT ![p] = l], Woken(k, k'),
         p = Idle => l = "run"
  PROVE  Places' /\ pc'[Idle] = "run"
<1>1. pc \in [Proc -> PC] /\ k.state \in [Proc -> State]
  BY Fields DEF IInv, TypeOK
<1>2. pc'[Idle] = "run"
  BY <1>1, SchedAssumption DEF IInv, OnCPU
<1>3. ASSUME NEW q \in Proc
      PROVE  /\ k'.state[q] # "UNINIT"
             /\ pc'[q] = "end" <=> k'.state[q] \in {"ZOMBIE", "NONE"}
  <2>1. pc'[q] = "end" <=> pc[q] = "end"
    BY <1>1
  <2>2. /\ k.state[q] # "UNINIT"
        /\ pc[q] = "end" <=> k.state[q] \in {"ZOMBIE", "NONE"}
    BY DEF IInv, Places
  <2>3. \/ k'.state[q] = k.state[q]
        \/ k.state[q] = "SLEEPING" /\ k'.state[q] = "RUNNABLE"
    BY DEF Woken
  <2> QED BY <2>1, <2>2, <2>3
<1> QED BY <1>2, <1>3 DEF Places

LEMMA OwnersType ==
  ASSUME NEW ts \in Seq(Timer(Proc))
  PROVE  Owners(ts) \subseteq Proc
<1>1. ASSUME NEW i \in DOMAIN ts PROVE ts[i].proc \in Proc
  <2>1. ts[i] \in Timer(Proc)
    OBVIOUS
  <2> QED BY <2>1 DEF Timer
<1> QED BY <1>1 DEF Owners

LEMMA TimersKept ==
  ASSUME IInv, NEW p \in Proc, NEW l, p \notin Owners(timers),
         pc' = [pc EXCEPT ![p] = l], timers' = timers
  PROVE  TimerOwners'
<1>1. pc \in [Proc -> PC] /\ OneTimer(timers) /\ \A q \in Owners(timers) : pc[q] \in {"sleep", "slept"}
  BY DEF IInv, TypeOK, TimerOwners
<1>2. Owners(timers) \subseteq Proc
  BY OwnersType DEF IInv, TypeOK
<1>3. \A q \in Owners(timers) : pc'[q] = pc[q]
  BY <1>1, <1>2
<1> QED BY <1>1, <1>3 DEF TimerOwners, OneTimer, Owners

(* Who is on the CPU, and not asleep there, has no timer and runs.         *)
LEMMA Running ==
  ASSUME IInv, NEW p \in Proc, NEW l \in {"boot", "run", "trapret", "waited", "reaped"},
         At(p, l)
  PROVE  /\ p = k.current /\ p \notin Owners(timers)
         /\ k.state[p] = "RUNNABLE" /\ k.wait[p] = "none"
         /\ l # "run" => p # Idle
<1>1. p = k.current /\ pc[p] = l
  BY DEF At
<1>2. k.state[p] = "RUNNABLE"
  BY <1>1 DEF IInv, OnCPU
<1> QED BY <1>1, <1>2 DEF IInv, OnCPU, TimerOwners, Sane

(* The step of a process p that goes on to l, or asleep, or gives way.     *)
LEMMA Goes ==
  ASSUME IInv, TypeOK', Sane(k'), Woken(k, k'), TimerOwners',
         NEW p \in Proc, NEW l \in PC \ {"end"}, pc[p] # "end",
         pc' = [pc EXCEPT ![p] = l], p = Idle => l = "run",
         \/ k'.state[k'.current] = "RUNNABLE"
         \/ k'.current = p /\ l \in {"wait", "sleep"}
  PROVE  IInv'
<1>1. Places' /\ pc'[Idle] = "run"
  BY Placed
<1>2. k'.current = p => pc'[k'.current] = l
  BY DEF IInv, TypeOK
<1>3. OnCPU'
  BY <1>1, <1>2 DEF OnCPU
<1>4. NoSemaphore'
  BY DEF IInv, NoSemaphore, Woken
<1> QED BY <1>1, <1>3, <1>4 DEF IInv

(* A step of the current process, which stays on the CPU.                  *)
LEMMA Stays ==
  ASSUME IInv, TypeOK', NEW p \in Proc \ {Idle},
         NEW m \in {"boot", "run", "trapret", "waited", "reaped"}, At(p, m),
         NEW l \in {"run", "trapret"}, pc' = [pc EXCEPT ![p] = l],
         Sane(k'), k'.current = k.current, Woken(k, k'), timers' = timers
  PROVE  IInv'
<1>1. p = k.current /\ p \notin Owners(timers) /\ k.state[p] = "RUNNABLE" /\ pc[p] = m
  BY Running DEF At
<1>2. TimerOwners'
  BY <1>1, TimersKept
<1>3. k'.state[k'.current] = "RUNNABLE" /\ l \in PC \ {"end"} /\ pc[p] # "end"
  BY <1>1 DEF Woken, PC
<1> QED BY <1>2, <1>3, Goes

LEMMA Unmoved ==
  ASSUME IInv, k' = k
  PROVE  Sane(k') /\ k'.current = k.current /\ Woken(k, k')
BY DEF IInv, Woken

LEMMA Entered ==
  ASSUME IInv, NEW p \in Proc, NEW q, EntersWait(p, q)
  PROVE  /\ p # Idle /\ p = k.current /\ p \notin Owners(timers)
         /\ k.state[p] = "RUNNABLE" /\ k.wait[p] = "none"
         /\ \E m \in {"run", "waited"} : At(p, m)
<1>1. CASE At(p, "run") /\ p # Idle
  BY <1>1, Running
<1>2. CASE At(p, "waited")
  BY <1>2, Running
<1> QED BY <1>1, <1>2, ProcessAssumption DEF EntersWait, User

LEMMA OtherSyscallInv ==
  ASSUME IInv, TypeOK', NEW p \in Proc, OtherSyscall(p)
  PROVE  IInv' /\ Woken(k, k')
<1>1. p # Idle
  BY DEF OtherSyscall, User
<1> QED BY <1>1, Unmoved, Stays DEF OtherSyscall

LEMMA WaitNoneInv ==
  ASSUME IInv, TypeOK', NEW p \in Proc, NEW q, WaitNone(p, q)
  PROVE  IInv' /\ Woken(k, k')
<1>1. /\ EntersWait(p, q) /\ pc' = [pc EXCEPT ![p] = Return(p)]
      /\ k' = k /\ timers' = timers
  BY DEF WaitNone
<1>2. PICK m \in {"run", "waited"} : At(p, m)
  BY <1>1, Entered
<1>3. p # Idle /\ Return(p) \in {"run", "trapret"}
  BY <1>1, Entered DEF Return
<1> QED BY <1>1, <1>2, <1>3, Unmoved, Stays

LEMMA YieldInv ==
  ASSUME IInv, TypeOK', NEW p \in Proc, Yield(p)
  PROVE  IInv' /\ Woken(k, k')
<1>1. /\ At(p, "run") /\ p # Idle /\ pc' = [pc EXCEPT ![p] = "trapret"]
      /\ k' = [k EXCEPT !.resched[p] = TRUE] /\ timers' = timers
  BY DEF Yield, User
<1>2. /\ k'.ok = k.ok /\ k'.runq = k.runq /\ k'.current = k.current
      /\ k'.state = k.state /\ k'.wait = k.wait
  BY <1>1 DEF IInv, TypeOK, SchedRecord
<1>3. Sane(k') /\ Woken(k, k')
  BY <1>2 DEF IInv, Sane, Queued, Woken
<1> QED BY <1>1, <1>2, <1>3, Stays

LEMMA KillInv ==
  ASSUME IInv, TypeOK', NEW p \in Proc, NEW t \in Targets, Kill(p, t)
  PROVE  IInv' /\ Woken(k, k')
<1>1. /\ At(p, "run") /\ p # Idle /\ pc' = [pc EXCEPT ![p] = "trapret"]
      /\ timers' = timers /\ t \in Proc
  BY ProcessAssumption DEF Kill, User
<1>2. CASE k' = k
  BY <1>1, <1>2, Unmoved, Stays
<1>3. CASE k' # k
  <2>1. k' = WakeupProc(k, t) /\ k.wait[t] \in Interruptible
    BY <1>3 DEF Kill
  <2>2. k.state[t] = "SLEEPING" /\ k \in SchedRecord /\ Sane(k)
    BY <1>1, <2>1 DEF IInv, Sane, Interruptible, TypeOK
  <2>3. /\ Sane(k') /\ k'.current = k.current
        /\ k'.state = [k.state EXCEPT ![t] = "RUNNABLE"]
        /\ k'.wait = [k.wait EXCEPT ![t] = "none"]
    BY <1>1, <2>1, <2>2, WakeupSane
  <2>4. Woken(k, k')
    BY <2>2, <2>3, Fields DEF Woken
  <2> QED BY <1>1, <2>3, <2>4, Stays
<1> QED BY <1>2, <1>3

(* The actions that put the current process to sleep.                      *)
LEMMA Asleep ==
  ASSUME IInv, TypeOK', NEW p \in Proc \ {Idle}, p = k.current, pc[p] # "end",
         k.state[p] = "RUNNABLE", NEW w \in Interruptible, k' = Sleeping(k, w),
         NEW l \in {"wait", "sleep"}, pc' = [pc EXCEPT ![p] = l], TimerOwners'
  PROVE  IInv'
<1>1. /\ pc \in [Proc -> PC] /\ k.state \in [Proc -> State] /\ k \in SchedRecord
      /\ Sane(k)
  BY Fields DEF IInv, TypeOK
<1>2. /\ Sane(k') /\ k'.current = p /\ k'.state = [k.state EXCEPT ![p] = "SLEEPING"]
      /\ k'.wait = [k.wait EXCEPT ![p] = w]
  <2>1. w # "none"
    BY DEF Interruptible
  <2> QED BY <1>1, <2>1, SleepingSane
<1>3. Places'
  <2> SUFFICES ASSUME NEW q \in Proc
               PROVE  /\ k'.state[q] # "UNINIT"
                      /\ pc'[q] = "end" <=> k'.state[q] \in {"ZOMBIE", "NONE"}
    BY DEF Places
  <2>1. /\ k.state[q] # "UNINIT"
        /\ pc[q] = "end" <=> k.state[q] \in {"ZOMBIE", "NONE"}
    BY DEF IInv, Places
  <2> QED BY <1>1, <1>2, <2>1
<1>4. OnCPU'
  BY <1>1, <1>2 DEF IInv, OnCPU
<1>5. NoSemaphore'
  <2>1. w # "WT_KSEM" /\ k.wait \in [Proc -> WaitState]
    BY <1>1, Fields DEF Interruptible
  <2> QED BY <1>2, <2>1 DEF IInv, NoSemaphore
<1> QED BY <1>2, <1>3, <1>4, <1>5 DEF IInv

LEMMA WaitSleepInv ==
  ASSUME IInv, TypeOK', NEW p \in Proc, NEW q, WaitSleep(p, q)
  PROVE  IInv'
<1>1. /\ EntersWait(p, q) /\ k' = Sleeping(k, "WT_CHILD")
      /\ pc' = [pc EXCEPT ![p] = "wait"] /\ timers' = timers
  BY DEF WaitSleep
<1>2. /\ p # Idle /\ p = k.current /\ p \notin Owners(timers)
      /\ k.state[p] = "RUNNABLE" /\ pc[p] # "end"
  BY <1>1, Entered DEF At
<1>3. TimerOwners'
  BY <1>1, <1>2, TimersKept
<1> QED BY <1>1, <1>2, <1>3, Asleep DEF Interruptible

LEMMA SleepInv ==
  ASSUME IInv, TypeOK', NEW p \in Proc, NEW n \in 1..MaxSleep, Sleep(p, n)
  PROVE  IInv'
<1>1. /\ At(p, "run") /\ p # Idle /\ k' = Sleeping(k, "WT_TIMER")
      /\ timers' = AddTimer(timers, p, n) /\ pc' = [pc EXCEPT ![p] = "sleep"]
  BY DEF Sleep, User
<1>2. /\ p = k.current /\ p \notin Owners(timers) /\ k.state[p] = "RUNNABLE"
      /\ pc[p] # "end"
  BY <1>1, Running DEF At
<1>3. TimerOwners'
  <2>1. /\ pc \in [Proc -> PC] /\ timers \in Seq(Timer(Proc)) /\ n \in Nat
        /\ OneTimer(timers) /\ \A q \in Owners(timers) : pc[q] \in {"sleep", "slept"}
    BY ProcessAssumption DEF IInv, TypeOK, TimerOwners
  <2>2. OneTimer(timers') /\ Owners(timers') = Owners(timers) \cup {p}
    <3>1. OneTimer(AddTimer(timers, p, n))
      BY <1>2, <2>1, AddTimerOne
    <3>2. Owners(AddTimer(timers, p, n)) = Owners(timers) \cup {p}
      BY <2>1, AddTimerType
    <3> QED BY <1>1, <3>1, <3>2
  <2>3. \A q \in Owners(timers') : pc'[q] \in {"sleep", "slept"}
    <3>1. \A q \in Owners(timers) : q # p /\ q \in Proc
      <4>1. Owners(timers) \subseteq Proc
        BY <2>1, OwnersType
      <4> QED BY <1>2, <4>1
    <3> QED BY <1>1, <2>1, <2>2, <3>1
  <2> QED BY <2>2, <2>3 DEF TimerOwners, OneTimer, Owners
<1> QED BY <1>1, <1>2, <1>3, Asleep DEF Interruptible

LEMMA SleepReturnInv ==
  ASSUME IInv, TypeOK', NEW p \in Proc, SleepReturn(p)
  PROVE  IInv' /\ Woken(k, k')
<1>1. /\ At(p, "slept") /\ timers' = DelTimer(timers, p) /\ k' = k
      /\ pc' = [pc EXCEPT ![p] = "trapret"]
  BY DEF SleepReturn
<1>2. p = k.current /\ pc[p] = "slept" /\ p # Idle /\ k.state[p] = "RUNNABLE"
  BY <1>1 DEF At, IInv, OnCPU
<1>3. TimerOwners'
  <2>1. /\ pc \in [Proc -> PC] /\ timers \in Seq(Timer(Proc))
        /\ OneTimer(timers) /\ \A q \in Owners(timers) : pc[q] \in {"sleep", "slept"}
    BY DEF IInv, TypeOK, TimerOwners
  <2>2. /\ OneTimer(timers') /\ p \notin Owners(timers')
        /\ Owners(timers') \subseteq Owners(timers)
    BY <1>1, <2>1, DelTimerOne, DelTimerType
  <2>3. \A q \in Owners(timers') : q # p /\ q \in Proc /\ q \in Owners(timers)
    BY <2>1, <2>2, OwnersType
  <2>4. \A q \in Owners(timers') : pc'[q] \in {"sleep", "slept"}
    BY <1>1, <2>1, <2>3
  <2> QED BY <2>2, <2>4 DEF TimerOwners, OneTimer, Owners
<1>4. Sane(k') /\ Woken(k, k') /\ k'.state[k'.current] = "RUNNABLE"
  BY <1>1, <1>2, Unmoved
<1> QED BY <1>1, <1>2, <1>3, <1>4, Goes DEF PC

(* The actions that call schedule().                                       *)
LEMMA Scheduled ==
  ASSUME IInv, k' = Schedule(k)
  PROVE  Sane(k') /\ Woken(k, k') /\ k'.state[k'.current] = "RUNNABLE"
<1>1. /\ Sane(k') /\ k'.state = k.state /\ k'.wait = k.wait
      /\ k.state[k'.current] = "RUNNABLE"
  BY ScheduleSane DEF IInv, TypeOK
<1> QED BY <1>1 DEF Woken

LEMMA BlockInv ==
  ASSUME IInv, TypeOK', NEW p \in Proc, Block(p)
  PROVE  IInv' /\ Woken(k, k')
<1>1. PICK m \in {"wait", "sleep", "reaped"} :
        /\ At(p, m)
        /\ pc' = [pc EXCEPT ![p] = CASE m = "wait"   -> "waited"
                                     [] m = "sleep"  -> "slept"
                                     [] m = "reaped" -> "run"]
  BY DEF Block
<1>2. k' = Schedule(k) /\ timers' = timers
  BY DEF Block
<1> DEFINE l == CASE m = "wait" -> "waited" [] m = "sleep" -> "slept" [] m = "reaped" -> "run"
<1>3. /\ l \in PC \ {"end"} /\ (m = "sleep" => l = "slept") /\ pc[p] = m
      /\ pc' = [pc EXCEPT ![p] = l]
  BY <1>1 DEF At, PC
<1> HIDE DEF l
<1>4. p # Idle
  BY <1>3 DEF IInv, OnCPU
<1>5. TimerOwners'
  <2>1. CASE m = "sleep"
    <3>1. \A q \in Owners(timers) : pc'[q] \in {"sleep", "slept"}
      BY <1>3, <2>1 DEF IInv, TypeOK, TimerOwners
    <3> QED BY <1>2, <3>1 DEF IInv, TimerOwners, OneTimer, Owners
  <2>2. CASE m # "sleep"
    <3>1. p \notin Owners(timers)
      BY <1>3, <2>2 DEF IInv, TimerOwners
    <3> QED BY <1>2, <1>3, <3>1, TimersKept
  <2> QED BY <2>1, <2>2
<1> QED BY <1>2, <1>3, <1>4, <1>5, Scheduled, Goes

LEMMA TrapReturnInv ==
  ASSUME IInv, TypeOK', NEW p \in Proc, TrapReturn(p)
  PROVE  IInv' /\ Woken(k, k')
<1>1. /\ At(p, "trapret") /\ pc' = [pc EXCEPT ![p] = "run"] /\ timers' = timers
      /\ k' = Schedule(k) \/ k' = k
  BY DEF TrapReturn
<1>2. p \notin Owners(timers) /\ p # Idle /\ pc[p] # "end"
  BY <1>1, Running DEF At
<1>3. TimerOwners'
  BY <1>1, <1>2, TimersKept
<1>4. CASE k' = Schedule(k)
  BY <1>1, <1>2, <1>3, <1>4, Scheduled, Goes DEF PC
<1>5. CASE k' = k
  BY <1>1, <1>2, <1>5, Unmoved, Stays
<1> QED BY <1>1, <1>4, <1>5

LEMMA IdleLoopInv ==
  ASSUME IInv, TypeOK', IdleLoop
  PROVE  IInv' /\ Woken(k, k')
<1>1. At(Idle, "run") /\ k' = Schedule(k) /\ pc' = pc /\ timers' = timers
  BY DEF IdleLoop
<1>2. pc' = [pc EXCEPT ![Idle] = "run"] /\ pc[Idle] # "end" /\ Idle \in Proc
  BY <1>1, SchedAssumption DEF IInv, TypeOK, At
<1>3. TimerOwners'
  BY <1>1 DEF IInv, TimerOwners, OneTimer, Owners
<1> QED BY <1>1, <1>2, <1>3, Scheduled, Goes DEF PC

(* A zombie's slot becomes free.                                           *)
LEMMA ReapInv ==
  ASSUME IInv, TypeOK', NEW p \in Proc, NEW q, Reap(p, q)
  PROVE  /\ IInv'
         /\ \E z \in WaitedFor(p, q) :
              /\ k.state[z] = "ZOMBIE" /\ k'.state = [k.state EXCEPT ![z] = "NONE"]
         /\ k'.wait = k.wait
<1>1. PICK z \in WaitedFor(p, q) :
        /\ z \in Proc /\ k.state[z] = "ZOMBIE" /\ k' = [k EXCEPT !.state[z] = "NONE"]
        /\ pc' = [pc EXCEPT ![p] = IF p = InitProc THEN "reaped" ELSE "trapret"]
  BY DEF Reap, WaitedFor, Children
<1> DEFINE l == IF p = InitProc THEN "reaped" ELSE "trapret"
<1>2. EntersWait(p, q) /\ timers' = timers
  BY DEF Reap
<1>3. /\ p # Idle /\ p = k.current /\ p \notin Owners(timers)
      /\ k.state[p] = "RUNNABLE" /\ pc[p] # "end"
  BY <1>2, Entered DEF At
<1>4. /\ pc \in [Proc -> PC] /\ k.state \in [Proc -> State] /\ Sane(k) /\ z # p
      /\ k \in SchedRecord /\ l \in {"reaped", "trapret"} /\ pc' = [pc EXCEPT ![p] = l]
  BY <1>1, <1>3, Fields DEF IInv, TypeOK
<1> HIDE DEF l
<1>5. /\ k'.ok = k.ok /\ k'.runq = k.runq /\ k'.current = k.current /\ k'.wait = k.wait
      /\ k'.state = [k.state EXCEPT ![z] = "NONE"]
  BY <1>1, <1>4 DEF SchedRecord
<1>6. Sane(k')
  <2>1. Queued(k') = {r \in Proc : k'.state[r] = "RUNNABLE"} \ {k'.current, Idle}
    BY <1>1, <1>4, <1>5 DEF Sane, Queued
  <2> QED BY <1>1, <1>4, <1>5, <2>1, SchedAssumption DEF Sane
<1>7. Places'
  <2> SUFFICES ASSUME NEW r \in Proc
               PROVE  /\ k'.state[r] # "UNINIT"
                      /\ pc'[r] = "end" <=> k'.state[r] \in {"ZOMBIE", "NONE"}
    BY DEF Places
  <2>1. /\ k.state[r] # "UNINIT"
        /\ pc[r] = "end" <=> k.state[r] \in {"ZOMBIE", "NONE"}
    BY DEF IInv, Places
  <2> QED BY <1>1, <1>3, <1>4, <1>5, <2>1
<1>8. OnCPU'
  BY <1>3, <1>4, <1>5 DEF IInv, OnCPU
<1>9. TimerOwners'
  BY <1>2, <1>3, <1>4, TimersKept
<1>10. NoSemaphore'
  BY <1>5 DEF IInv, NoSemaphore
<1> QED BY <1>1, <1>5, <1>6, <1>7, <1>8, <1>9, <1>10 DEF IInv

(* A fresh process takes a free slot and is woken.                         *)
LEMMA ForkInv ==
  ASSUME IInv, TypeOK', NEW p \in Proc, NEW c \in Proc, Fork(p, c)
  PROVE  /\ IInv' /\ k'.wait = k.wait /\ k'.state = [k.state EXCEPT ![c] = "RUNNABLE"]
         /\ p # c /\ k.state[p] = "RUNNABLE" /\ k.state[c] = "NONE"
<1> DEFINE new == [k EXCEPT !.state[c] = "UNINIT", !.wait[c] = "none",
                            !.wait[p] = "none", !.resched[c] = FALSE,
                            !.slice[c] = 0]
<1>1. /\ (At(p, "run") /\ p \in User) \/ At(p, "boot")
      /\ k.state[c] = "NONE" /\ k' = WakeupProc(new, c) /\ timers' = timers
      /\ pc' = [pc EXCEPT ![c] = "run", ![p] = Return(p)]
  BY DEF Fork, Exists
<1>2. /\ p = k.current /\ p # Idle /\ p \notin Owners(timers)
      /\ k.state[p] = "RUNNABLE" /\ k.wait[p] = "none" /\ pc[p] # "end"
  BY <1>1, Running DEF At, User
<1>3. /\ pc \in [Proc -> PC] /\ k.state \in [Proc -> State] /\ Sane(k)
      /\ k \in SchedRecord /\ k.wait \in [Proc -> WaitState]
      /\ timers \in Seq(Timer(Proc))
  BY Fields DEF IInv, TypeOK
<1>4. pc[c] = "end" /\ c # p /\ c # Idle /\ k.wait[c] = "none"
  BY <1>1, <1>2, <1>3 DEF IInv, Places, OnCPU, Sane
<1>5. /\ new.ok = k.ok /\ new.runq = k.runq /\ new.current = k.current
      /\ new.wait = k.wait /\ new.state = [k.state EXCEPT ![c] = "UNINIT"]
  <2>1. /\ new.ok = k.ok /\ new.runq = k.runq /\ new.current = k.current
        /\ new.wait = [k.wait EXCEPT ![c] = "none", ![p] = "none"]
        /\ new.state = [k.state EXCEPT ![c] = "UNINIT"]
    BY <1>3 DEF SchedRecord
  <2>2. [k.wait EXCEPT ![c] = "none", ![p] = "none"] = k.wait
    BY <1>2, <1>3, <1>4
  <2> QED BY <2>1, <2>2
<1>6. new \in SchedRecord
  BY ForkedType, Zenon DEF IInv
<1> HIDE DEF new
<1>7. Sane(new)
  <2>1. Queued(new) = {r \in Proc : new.state[r] = "RUNNABLE"} \ {new.current, Idle}
    BY <1>1, <1>3, <1>5 DEF Sane, Queued
  <2> QED BY <1>1, <1>3, <1>4, <1>5, <2>1, SchedAssumption DEF Sane
<1>8. /\ Sane(k') /\ k'.current = p /\ k'.wait = k.wait
      /\ k'.state = [k.state EXCEPT ![c] = "RUNNABLE"]
  <2>1. new.state[c] # "ZOMBIE"
    BY <1>3, <1>5
  <2>2. /\ Sane(k') /\ k'.current = new.current
        /\ k'.state = [new.state EXCEPT ![c] = "RUNNABLE"]
        /\ k'.wait = [new.wait EXCEPT ![c] = "none"]
    BY <1>1, <1>6, <1>7, <2>1, WakeupSane
  <2> QED BY <1>2, <1>3, <1>4, <1>5, <2>2
<1>9. /\ pc'[c] = "run" /\ pc'[p] \in {"run", "trapret"}
      /\ \A r \in Proc \ {c, p} : pc'[r] = pc[r]
  BY <1>1, <1>3, <1>4 DEF Return
<1>10. Places'
  <2> SUFFICES ASSUME NEW r \in Proc
               PROVE  /\ k'.state[r] # "UNINIT"
                      /\ pc'[r] = "end" <=> k'.state[r] \in {"ZOMBIE", "NONE"}
    BY DEF Places
  <2>1. /\ k.state[r] # "UNINIT"
        /\ pc[r] = "end" <=> k.state[r] \in {"ZOMBIE", "NONE"}
    BY DEF IInv, Places
  <2> QED BY <1>2, <1>3, <1>4, <1>8, <1>9, <2>1
<1>11. OnCPU'
  BY <1>2, <1>3, <1>4, <1>8, <1>9, SchedAssumption DEF IInv, OnCPU
<1>12. TimerOwners'
  <2>1. /\ OneTimer(timers) /\ \A r \in Owners(timers) : pc[r] \in {"sleep", "slept"}
        /\ Owners(timers) \subseteq Proc
    BY <1>3, OwnersType DEF IInv, TimerOwners
  <2>2. \A r \in Owners(timers) : r \in Proc \ {c, p}
    BY <1>2, <1>4, <2>1
  <2>3. \A r \in Owners(timers) : pc'[r] \in {"sleep", "slept"}
    BY <1>9, <2>1, <2>2
  <2> QED BY <1>1, <2>1, <2>3 DEF TimerOwners, OneTimer, Owners
<1>13. NoSemaphore'
  BY <1>8 DEF IInv, NoSemaphore
<1> QED BY <1>1, <1>2, <1>4, <1>8, <1>10, <1>11, <1>12, <1>13 DEF IInv

(* do_exit: a zombie leaves the CPU, and wakes its parent and init.        *)
LEMMA DoExitInv ==
  ASSUME IInv, TypeOK', NEW p \in Proc \ {Idle}, p = k.current,
         k.state[p] = "RUNNABLE", p \notin Owners(timers), DoExit(p)
  PROVE  /\ IInv'
         /\ p # InitProc =>
              /\ Woken([k EXCEPT !.state[p] = "ZOMBIE"], k')
              /\ k'.wait[parent[p]] # "WT_CHILD"
              /\ (\E c \in Children(p) : k.state[c] = "ZOMBIE")
                   => k'.wait[InitProc] # "WT_CHILD"
<1>1. CASE p = InitProc
  <2>1. k' = k /\ pc' = pc /\ timers' = timers
    BY <1>1 DEF DoExit
  <2>2. IInv'
    BY <2>1 DEF IInv, Places, OnCPU, TimerOwners, OneTimer, Owners, NoSemaphore
  <2> QED BY <1>1, <2>2
<1>2. CASE p # InitProc
  <2> DEFINE dead   == [k EXCEPT !.state[p] = "ZOMBIE"]
             told   == WakeIf(dead, TRUE, parent[p])
             orphan == \E c \in Children(p) : k.state[c] = "ZOMBIE"
             last   == WakeIf(told, orphan, InitProc)
  <2>1. k' = Schedule(last) /\ pc' = [pc EXCEPT ![p] = "end"] /\ timers' = timers
    BY <1>2 DEF DoExit
  <2>2. /\ pc \in [Proc -> PC] /\ k.state \in [Proc -> State] /\ Sane(k)
        /\ k \in SchedRecord /\ parent[p] \in Proc /\ InitProc \in Proc
    BY Fields, ProcessAssumption DEF IInv, TypeOK
  <2>3. /\ dead.ok = k.ok /\ dead.runq = k.runq /\ dead.current = k.current
        /\ dead.wait = k.wait /\ dead.state = [k.state EXCEPT ![p] = "ZOMBIE"]
        /\ dead \in SchedRecord
    BY <2>2 DEF SchedRecord, State
  <2> HIDE DEF dead, orphan
  <2>4. Sane(dead)
    <3>1. Queued(dead) = {r \in Proc : dead.state[r] = "RUNNABLE"} \ {dead.current, Idle}
      BY <2>2, <2>3 DEF Sane, Queued
    <3> QED BY <2>2, <2>3, <3>1, SchedAssumption DEF Sane
  <2>5. /\ told \in SchedRecord /\ Sane(told) /\ Woken(dead, told)
        /\ told.wait[parent[p]] # "WT_CHILD"
    <3>1. told \in SchedRecord
      BY <2>2, <2>3, WakeIfType
    <3> DEFINE yes == TRUE
               par == parent[p]
    <3>2. told = WakeIf(dead, yes, par) /\ yes /\ par \in Proc
      BY <2>2
    <3>3. par = parent[p] /\ dead \in SchedRecord /\ Sane(dead)
      BY <2>3, <2>4
    <3> HIDE DEF yes, told, par
    <3>4. LET r == WakeIf(dead, yes, par)
          IN  /\ Sane(r) /\ Woken(dead, r)
              /\ yes => r.wait[par] # "WT_CHILD"
      BY <3>2, <3>3, WakeIfSane
    <3> QED BY <3>1, <3>2, <3>3, <3>4
  <2> HIDE DEF told
  <2>6. /\ last \in SchedRecord /\ Sane(last) /\ Woken(told, last)
        /\ orphan => last.wait[InitProc] # "WT_CHILD"
    BY <2>2, <2>5, WakeIfType, WakeIfSane
  <2> HIDE DEF last
  <2>7. /\ Sane(k') /\ k'.state = last.state /\ k'.wait = last.wait
        /\ k'.state[k'.current] = "RUNNABLE"
    BY <2>1, <2>6, ScheduleSane
  <2>8. ASSUME NEW r \in Proc
        PROVE  /\ k'.state[r] # "UNINIT"
               /\ pc'[r] = "end" <=> k'.state[r] \in {"ZOMBIE", "NONE"}
    <3>1. \/ k'.state[r] = dead.state[r]
          \/ dead.state[r] = "SLEEPING" /\ k'.state[r] = "RUNNABLE"
      BY <2>5, <2>6, <2>7 DEF Woken
    <3>2. /\ k.state[r] # "UNINIT"
          /\ pc[r] = "end" <=> k.state[r] \in {"ZOMBIE", "NONE"}
      BY DEF IInv, Places
    <3>3. CASE r = p
      BY <2>1, <2>2, <2>3, <3>1, <3>3
    <3>4. CASE r # p
      BY <2>1, <2>2, <2>3, <3>1, <3>2, <3>4
    <3> QED BY <3>3, <3>4
  <2>9. OnCPU'
    BY <2>1, <2>2, <2>7, SchedAssumption DEF IInv, OnCPU
  <2>10. TimerOwners'
    BY <2>1, TimersKept
  <2>11. Woken(dead, k')
    BY <2>5, <2>6, <2>7 DEF Woken
  <2>12. k'.wait[parent[p]] # "WT_CHILD"
    BY <2>2, <2>5, <2>6, <2>7 DEF Woken
  <2>13. orphan => k'.wait[InitProc] # "WT_CHILD"
    BY <2>6, <2>7
  <2>14. NoSemaphore'
    BY <2>2, <2>3, <2>11 DEF IInv, NoSemaphore, Woken
  <2> QED BY <2>7, <2>8, <2>9, <2>10, <2>11, <2>12, <2>13, <2>14 DEF IInv, Places, dead, orphan
<1> QED BY <1>1, <1>2

LEMMA ExitCalls ==
  ASSUME IInv, NEW p \in Proc, Exit(p) \/ WaitKilled(p) \/ TrapExit(p)
  PROVE  /\ DoExit(p) /\ p # Idle /\ p = k.current /\ k.state[p] = "RUNNABLE"
         /\ p \notin Owners(timers) /\ k.wait[p] = "none"
<1>1. /\ DoExit(p) /\ p # Idle
      /\ \E m \in {"run", "waited", "trapret"} : At(p, m)
  BY Running DEF Exit, WaitKilled, TrapExit, User
<1> QED BY <1>1, Running

LEMMA ExitInv ==
  ASSUME IInv, TypeOK', NEW p \in Proc, Exit(p) \/ WaitKilled(p) \/ TrapExit(p)
  PROVE  IInv'
BY ExitCalls, DoExitInv

(* The timer interrupt.                                                    *)
LEMMA TickInv ==
  ASSUME IInv, TypeOK', NEW p \in Proc, Tick(p)
  PROVE  /\ IInv' /\ Woken(k, k')
         /\ \A q \in Elements(Expired(timers)) : k'.wait[q] = "none"
<1> DEFINE l == IF p \in User THEN "trapret" ELSE pc[p]
<1>1. /\ p = k.current /\ (p \in User => pc[p] = "run")
      /\ k' \in Ticked(k, timers) /\ timers' = RunTimers(timers)
      /\ pc' = [pc EXCEPT ![p] = l]
  BY DEF Tick, Interrupted
<1>2. /\ pc \in [Proc -> PC] /\ k.state \in [Proc -> State] /\ Sane(k)
      /\ k \in SchedRecord /\ timers \in Seq(Timer(Proc)) /\ OneTimer(timers)
      /\ \A q \in Owners(timers) : pc[q] \in {"sleep", "slept"}
      /\ Owners(timers) \subseteq Proc
  BY Fields, OwnersType DEF IInv, TypeOK, TimerOwners
<1>3. pc[p] # "end" /\ l \in PC \ {"end"} /\ (p = Idle => l = "run")
  BY <1>1, <1>2 DEF IInv, Places, OnCPU, User, PC
<1>4. \A q \in Owners(timers) : /\ k.state[q] \in {"RUNNABLE", "SLEEPING"}
                                  /\ k.wait[q] # "WT_KSEM"
  BY <1>2 DEF IInv, Places, State, NoSemaphore
<1>5. /\ Sane(k') /\ k'.current = p /\ Woken(k, k')
      /\ \A q \in Elements(Expired(timers)) : k'.wait[q] = "none"
  BY <1>1, <1>2, <1>4, TickedSane
<1>6. TimerOwners'
  <2>1. OneTimer(timers') /\ Owners(timers') \subseteq Owners(timers)
    BY <1>1, <1>2, RunTimersOne
  <2>2. \A q \in Owners(timers') : pc'[q] \in {"sleep", "slept"}
    BY <1>1, <1>2, <2>1
  <2> QED BY <2>1, <2>2 DEF TimerOwners, OneTimer, Owners
<1>7. l \in {"wait", "sleep"} \/ k'.state[k'.current] = "RUNNABLE"
  BY <1>1, <1>5 DEF IInv, OnCPU, Woken
<1> HIDE DEF l
<1> QED BY <1>1, <1>3, <1>5, <1>6, <1>7, Goes

LEMMA NextInv ==
  ASSUME IInv, [Next]_vars
  PROVE  IInv'
<1>1. TypeOK'
  BY NextType DEF IInv
<1>2. CASE Halted \/ UNCHANGED vars
  <2>1. k' = k /\ pc' = pc /\ timers' = timers
    BY <1>2 DEF Halted, vars
  <2> QED BY <1>1, <2>1 DEF IInv, Places, OnCPU, TimerOwners, OneTimer, Owners, NoSemaphore
<1> QED BY <1>1, <1>2, ForkInv, OtherSyscallInv, ExitInv, ReapInv, WaitSleepInv,
           WaitNoneInv, KillInv, YieldInv, SleepInv, SleepReturnInv, BlockInv,
           TrapReturnInv, IdleLoopInv, TickInv DEF Next

LEMMA InitInv ==
  ASSUME Init
  PROVE  IInv
<1>1. TypeOK
  BY InitType
<1>2. /\ k.current = Idle /\ k.runq = <<InitProc>> /\ k.ok = TRUE
      /\ k.state = [p \in Proc |-> IF p \in {Idle, InitProc} THEN "RUNNABLE" ELSE "NONE"]
      /\ k.wait = [p \in Proc |-> "none"] /\ timers = <<>>
      /\ pc = [p \in Proc |-> CASE p = Idle -> "run" [] p = InitProc -> "boot"
                                [] OTHER -> "end"]
  BY DEF Init
<1>3. InitProc # Idle /\ InitProc \in Proc /\ Idle \in Proc
  BY SchedAssumption, ProcessAssumption
<1>4. Sane(k)
  <2>1. Queued(k) = {InitProc} /\ Distinct(k.runq)
    BY <1>2 DEF Queued, Distinct
  <2>2. {p \in Proc : k.state[p] = "RUNNABLE"} = {Idle, InitProc}
    BY <1>2, <1>3
  <2>3. Queued(k) = {p \in Proc : k.state[p] = "RUNNABLE"} \ {k.current, Idle}
    BY <1>2, <1>3, <2>1, <2>2
  <2>4. /\ \A p \in Proc : k.wait[p] = "none" /\ k.state[p] # "SLEEPING"
        /\ k.state[Idle] = "RUNNABLE" /\ k.ok = TRUE
    BY <1>2, <1>3
  <2> QED BY <2>1, <2>3, <2>4 DEF Sane
<1>5. Places /\ OnCPU
  BY <1>2, <1>3 DEF Places, OnCPU
<1>6. TimerOwners
  BY <1>2 DEF TimerOwners, OneTimer, Owners
<1>7. NoSemaphore
  BY <1>2 DEF NoSemaphore
<1> QED BY <1>1, <1>4, <1>5, <1>6, <1>7 DEF IInv

(* In every behaviour of the kernel, however many processes it has: the    *)
(* run queue holds each runnable process once, except for the current one  *)
(* and idle, the CPU is never given to a zombie or to a freed process, and *)
(* no assertion of wakeup_proc, of the RR class or of run_timer_list fails.*)
THEOREM RunQueueHolds == Spec => []RunQueue
<1>1. Init => IInv
  BY InitInv
<1>2. IInv /\ [Next]_vars => IInv'
  BY NextInv
<1>3. IInv => RunQueue
  BY InvQueue
<1> QED BY <1>1, <1>2, <1>3, PTL DEF Spec

-----------------------------------------------------------------------------
(* Whoever sleeps is found.  This needs the family as well: every process  *)
(* but idle has a parent that lives and is not itself, and init is idle's. *)
Alive(q) == k.state[q] \notin {"NONE", "ZOMBIE"}

Kin ==
  /\ parent[InitProc] = Idle /\ Alive(InitProc)
  /\ \A c \in Proc \ {Idle} : Exists(c) => parent[c] # c /\ Alive(parent[c])

Timed == \A p \in Proc : k.wait[p] = "WT_TIMER" => p \in Owners(timers)

JInv == IInv /\ Kin /\ NoLostChild /\ Timed

(* Nobody becomes a zombie, is created or freed in this step.              *)
SameLives ==
  \A q \in Proc : k.state[q] \in {"NONE", "ZOMBIE"} \/ k'.state[q] \in {"NONE", "ZOMBIE"}
                    => k'.state[q] = k.state[q]

LEMMA WakingSpares ==
  ASSUME IInv, Woken(k, k')
  PROVE  /\ SameLives
         /\ \A q \in Proc : k'.wait[q] \in {"WT_CHILD", "WT_TIMER"} => k'.wait[q] = k.wait[q]
BY DEF Woken, SameLives

LEMMA FamilyKept ==
  ASSUME Kin, TypeOK, SameLives, parent' = parent
  PROVE  /\ Kin'
         /\ \A p \in Proc : Children(p)' = Children(p)
         /\ \A c \in Proc : k'.state[c] = "ZOMBIE" <=> k.state[c] = "ZOMBIE"
<1>1. /\ parent \in [Proc -> Proc] /\ InitProc \in Proc
      /\ \A c \in Proc : k'.state[c] = "NONE" <=> k.state[c] = "NONE"
      /\ \A c \in Proc : k'.state[c] = "ZOMBIE" <=> k.state[c] = "ZOMBIE"
  BY ProcessAssumption DEF SameLives, TypeOK
<1>2. Kin'
  BY <1>1 DEF Kin, Alive, Exists
<1>3. ASSUME NEW p \in Proc PROVE Children(p)' = Children(p)
  BY <1>1 DEF Children, Exists
<1> QED BY <1>1, <1>2, <1>3

(* A step in which nobody goes to sleep in do_wait.                        *)
LEMMA Quiet ==
  ASSUME JInv, IInv', SameLives, parent' = parent,
         \A q \in Proc : k'.wait[q] = "WT_CHILD" =>
           k.wait[q] = "WT_CHILD" /\ waitFor'[q] = waitFor[q],
         \A q \in Proc : k'.wait[q] = "WT_TIMER" => q \in Owners(timers')
  PROVE  JInv'
<1>1. Kin /\ TypeOK /\ NoLostChild
  BY DEF JInv, IInv
<1>2. /\ Kin'
      /\ \A p \in Proc : Children(p)' = Children(p)
      /\ \A c \in Proc : k'.state[c] = "ZOMBIE" <=> k.state[c] = "ZOMBIE"
  BY <1>1, FamilyKept
<1>3. NoLostChild'
  <2> SUFFICES ASSUME NEW p \in Proc, k'.wait[p] = "WT_CHILD"
               PROVE  /\ k'.state[p] = "SLEEPING"
                      /\ WaitedFor(p, waitFor[p])' # {}
                      /\ \A c \in WaitedFor(p, waitFor[p])' : k'.state[c] # "ZOMBIE"
    BY DEF NoLostChild
  <2>1. k'.state[p] = "SLEEPING"
    BY DEF IInv, Sane
  <2>2. /\ WaitedFor(p, waitFor[p]) # {}
        /\ \A c \in WaitedFor(p, waitFor[p]) : k.state[c] # "ZOMBIE"
    BY <1>1 DEF NoLostChild
  <2>3. WaitedFor(p, waitFor[p])' = WaitedFor(p, waitFor[p])
    <3>1. waitFor'[p] = waitFor[p] /\ Children(p)' = Children(p)
      BY <1>2
    <3> QED BY <3>1 DEF WaitedFor
  <2>4. WaitedFor(p, waitFor[p]) \subseteq Proc
    BY DEF WaitedFor, Children
  <2> QED BY <1>2, <2>1, <2>2, <2>3, <2>4
<1>4. Timed'
  BY DEF Timed
<1> QED BY <1>2, <1>3, <1>4 DEF JInv

LEMMA Waking ==
  ASSUME JInv, IInv', Woken(k, k'), parent' = parent,
         \A q \in Proc : k.wait[q] = "WT_CHILD" => waitFor'[q] = waitFor[q],
         \A q \in Owners(timers) : k'.wait[q] = "WT_TIMER" => q \in Owners(timers')
  PROVE  JInv'
<1>1. IInv /\ \A q \in Proc : k.wait[q] = "WT_TIMER" => q \in Owners(timers)
  BY DEF JInv, Timed
<1>2. /\ SameLives
      /\ \A q \in Proc : k'.wait[q] \in {"WT_CHILD", "WT_TIMER"} => k'.wait[q] = k.wait[q]
  BY <1>1, WakingSpares
<1> QED BY <1>1, <1>2, Quiet

(* The steps that at most wake sleepers.                                   *)
LEMMA WakingSteps ==
  ASSUME JInv, TypeOK', NEW p \in Proc,
         \/ OtherSyscall(p) \/ Yield(p) \/ Block(p) \/ TrapReturn(p) \/ IdleLoop
         \/ \E t \in Targets : Kill(p, t)
  PROVE  JInv'
<1>1. IInv' /\ Woken(k, k')
  BY OtherSyscallInv, YieldInv, BlockInv, TrapReturnInv, IdleLoopInv, KillInv DEF JInv
<1>2. parent' = parent /\ waitFor' = waitFor /\ timers' = timers
  BY DEF OtherSyscall, Yield, Block, TrapReturn, IdleLoop, Kill
<1>3. Owners(timers') = Owners(timers)
  BY <1>2
<1> QED BY <1>1, <1>2, <1>3, Waking

LEMMA WaitNoneFound ==
  ASSUME JInv, TypeOK', NEW p \in Proc, NEW q, WaitNone(p, q)
  PROVE  JInv'
<1>1. IInv' /\ Woken(k, k')
  BY WaitNoneInv DEF JInv
<1>2. /\ parent' = parent /\ timers' = timers /\ waitFor' = [waitFor EXCEPT ![p] = AnyChild]
      /\ k.wait[p] = "none"
  BY Entered DEF WaitNone, JInv
<1>3. \A r \in Proc : k.wait[r] = "WT_CHILD" => waitFor'[r] = waitFor[r]
  BY <1>2 DEF JInv, IInv, TypeOK
<1> QED BY <1>1, <1>2, <1>3, Waking

LEMMA SleepReturnFound ==
  ASSUME JInv, TypeOK', NEW p \in Proc, SleepReturn(p)
  PROVE  JInv'
<1>1. IInv /\ IInv' /\ Woken(k, k')
  BY SleepReturnInv DEF JInv
<1>2. /\ parent' = parent /\ waitFor' = waitFor /\ timers' = DelTimer(timers, p)
      /\ At(p, "slept") /\ k' = k
  BY DEF SleepReturn
<1>3. k'.wait[p] = "none"
  BY <1>1, <1>2 DEF At, IInv, OnCPU, Sane
<1>4. Owners(timers) \ {p} \subseteq Owners(timers')
  BY <1>1, <1>2, DelTimerType DEF IInv, TypeOK
<1> QED BY <1>1, <1>2, <1>3, <1>4, Waking

LEMMA TickFound ==
  ASSUME JInv, TypeOK', NEW p \in Proc, Tick(p)
  PROVE  JInv'
<1>1. /\ IInv /\ IInv' /\ Woken(k, k')
      /\ \A q \in Elements(Expired(timers)) : k'.wait[q] = "none"
  BY TickInv DEF JInv
<1>2. parent' = parent /\ waitFor' = waitFor /\ timers' = RunTimers(timers)
  BY DEF Tick
<1>3. Owners(timers) \ Elements(Expired(timers)) \subseteq Owners(timers')
  BY <1>1, <1>2, RunTimersOne DEF IInv, TypeOK, TimerOwners
<1>4. \A q \in Owners(timers) : k'.wait[q] = "WT_TIMER" => q \in Owners(timers')
  BY <1>1, <1>3
<1> QED BY <1>1, <1>2, <1>4, Waking

(* The steps that send the current process to sleep.                       *)
LEMMA SleepFound ==
  ASSUME JInv, TypeOK', NEW p \in Proc, NEW n \in 1..MaxSleep, Sleep(p, n)
  PROVE  JInv'
<1>1. IInv /\ IInv'
  BY SleepInv DEF JInv
<1>2. /\ At(p, "run") /\ p # Idle /\ k' = Sleeping(k, "WT_TIMER")
      /\ timers' = AddTimer(timers, p, n) /\ parent' = parent /\ waitFor' = waitFor
  BY DEF Sleep, User
<1>3. p = k.current /\ k.state[p] = "RUNNABLE"
  BY <1>1, <1>2, Running
<1>4. /\ k'.state = [k.state EXCEPT ![p] = "SLEEPING"]
      /\ k'.wait = [k.wait EXCEPT ![p] = "WT_TIMER"]
      /\ k.state \in [Proc -> State] /\ k.wait \in [Proc -> WaitState]
  <2>1. /\ k \in SchedRecord /\ Sane(k) /\ k.current # Idle
        /\ "WT_CHILD" # "none" /\ "WT_TIMER" # "none"
    BY <1>1, <1>2, <1>3 DEF IInv, TypeOK, Interruptible
  <2> QED BY <1>2, <1>3, <2>1, SleepingSane, Fields
<1>5. SameLives
  BY <1>3, <1>4 DEF SameLives
<1>6. Owners(timers') = Owners(timers) \cup {p}
  <2>1. n \in Nat /\ timers \in Seq(Timer(Proc))
    BY <1>1, ProcessAssumption DEF IInv, TypeOK
  <2>2. Owners(AddTimer(timers, p, n)) = Owners(timers) \cup {p}
    BY <2>1, AddTimerType
  <2> QED BY <1>2, <2>2
<1>7. \A q \in Proc : k'.wait[q] = "WT_TIMER" => q \in Owners(timers')
  BY <1>4, <1>6 DEF JInv, Timed
<1>8. \A q \in Proc : k'.wait[q] = "WT_CHILD" =>
        k.wait[q] = "WT_CHILD" /\ waitFor'[q] = waitFor[q]
  BY <1>2, <1>4
<1> QED BY <1>1, <1>2, <1>5, <1>7, <1>8, Quiet

LEMMA WaitSleepFound ==
  ASSUME JInv, TypeOK', NEW p \in Proc, NEW q \in Proc \cup {AnyChild}, WaitSleep(p, q)
  PROVE  JInv'
<1>1. IInv /\ IInv' /\ Kin
  BY WaitSleepInv DEF JInv
<1>2. /\ EntersWait(p, q) /\ k' = Sleeping(k, "WT_CHILD")
      /\ timers' = timers /\ parent' = parent
      /\ waitFor' = [waitFor EXCEPT ![p] = q] /\ waitFor \in [Proc -> Proc \cup {AnyChild}]
      /\ WaitedFor(p, q) # {} /\ \A c \in WaitedFor(p, q) : k.state[c] # "ZOMBIE"
  BY <1>1 DEF WaitSleep, IInv, TypeOK
<1>3. p = k.current /\ k.state[p] = "RUNNABLE" /\ p # Idle
  BY <1>1, <1>2, Entered
<1>4. /\ k'.state = [k.state EXCEPT ![p] = "SLEEPING"]
      /\ k'.wait = [k.wait EXCEPT ![p] = "WT_CHILD"]
      /\ k.state \in [Proc -> State] /\ k.wait \in [Proc -> WaitState]
  <2>1. /\ k \in SchedRecord /\ Sane(k) /\ k.current # Idle
        /\ "WT_CHILD" # "none" /\ "WT_TIMER" # "none"
    BY <1>1, <1>2, <1>3 DEF IInv, TypeOK, Interruptible
  <2> QED BY <1>2, <1>3, <2>1, SleepingSane, Fields
<1>5. SameLives
  BY <1>3, <1>4 DEF SameLives
<1>6. /\ Kin' /\ \A r \in Proc : Children(r)' = Children(r)
      /\ \A c \in Proc : k'.state[c] = "ZOMBIE" <=> k.state[c] = "ZOMBIE"
  BY <1>1, <1>2, <1>5, FamilyKept DEF IInv
<1>7. NoLostChild'
  <2> SUFFICES ASSUME NEW r \in Proc, k'.wait[r] = "WT_CHILD"
               PROVE  /\ k'.state[r] = "SLEEPING"
                      /\ WaitedFor(r, waitFor[r])' # {}
                      /\ \A c \in WaitedFor(r, waitFor[r])' : k'.state[c] # "ZOMBIE"
    BY DEF NoLostChild
  <2>1. k'.state[r] = "SLEEPING"
    BY <1>1 DEF IInv, Sane
  <2> DEFINE w == IF r = p THEN q ELSE waitFor[r]
  <2>2. waitFor'[r] = w
    BY <1>2
  <2>3. WaitedFor(r, w) # {} /\ \A c \in WaitedFor(r, w) : k.state[c] # "ZOMBIE"
    <3>1. CASE r = p
      BY <1>2, <3>1
    <3>2. CASE r # p
      <4>1. k.wait[r] = "WT_CHILD"
        BY <1>4, <3>2
      <4> QED BY <3>2, <4>1 DEF JInv, NoLostChild
    <3> QED BY <3>1, <3>2
  <2> HIDE DEF w
  <2>4. WaitedFor(r, waitFor[r])' = WaitedFor(r, w)
    BY <1>6, <2>2 DEF WaitedFor
  <2>5. WaitedFor(r, w) \subseteq Proc
    BY DEF WaitedFor, Children
  <2> QED BY <1>6, <2>1, <2>3, <2>4, <2>5
<1>8. Timed'
  BY <1>2, <1>4 DEF JInv, Timed
<1> QED BY <1>1, <1>6, <1>7, <1>8 DEF JInv

(* The steps that create, free and end a process.                          *)
LEMMA ForkFound ==
  ASSUME JInv, TypeOK', NEW p \in Proc, NEW c \in Proc, Fork(p, c)
  PROVE  JInv'
<1>1. /\ IInv /\ IInv' /\ k'.wait = k.wait /\ k'.state = [k.state EXCEPT ![c] = "RUNNABLE"]
      /\ p # c /\ k.state[p] = "RUNNABLE" /\ k.state[c] = "NONE"
  BY ForkInv DEF JInv
<1>2. parent' = [parent EXCEPT ![c] = p] /\ waitFor' = waitFor /\ timers' = timers
  BY DEF Fork
<1>3. /\ k.state \in [Proc -> State] /\ parent \in [Proc -> Proc] /\ Sane(k) /\ Sane(k')
      /\ InitProc \in Proc
  BY <1>1, Fields, ProcessAssumption DEF IInv, TypeOK
<1>4. Kin'
  <2>1. /\ parent[InitProc] = Idle /\ Alive(InitProc)
        /\ \A d \in Proc \ {Idle} : Exists(d) => parent[d] # d /\ Alive(parent[d])
    BY DEF JInv, Kin
  <2>2. parent'[InitProc] = Idle /\ k'.state[InitProc] \notin {"NONE", "ZOMBIE"}
    BY <1>1, <1>2, <1>3, <2>1 DEF Alive
  <2>3. ASSUME NEW d \in Proc \ {Idle}, k'.state[d] # "NONE"
        PROVE  parent'[d] # d /\ k'.state[parent'[d]] \notin {"NONE", "ZOMBIE"}
    <3>1. CASE d = c
      BY <1>1, <1>2, <1>3, <3>1
    <3>2. CASE d # c
      BY <1>1, <1>2, <1>3, <2>1, <2>3, <3>2 DEF Alive, Exists
    <3> QED BY <3>1, <3>2
  <2> QED BY <2>2, <2>3 DEF Kin, Alive, Exists
<1>5. NoLostChild'
  <2> SUFFICES ASSUME NEW r \in Proc, k'.wait[r] = "WT_CHILD"
               PROVE  /\ k'.state[r] = "SLEEPING"
                      /\ WaitedFor(r, waitFor[r])' # {}
                      /\ \A d \in WaitedFor(r, waitFor[r])' : k'.state[d] # "ZOMBIE"
    BY DEF NoLostChild
  <2>1. k'.state[r] = "SLEEPING" /\ r # p
    BY <1>1, <1>3 DEF Sane
  <2>2. /\ WaitedFor(r, waitFor[r]) # {}
        /\ \A d \in WaitedFor(r, waitFor[r]) : k.state[d] # "ZOMBIE"
    BY <1>1 DEF JInv, NoLostChild
  <2>3. Children(r)' = Children(r)
    BY <1>1, <1>2, <1>3, <2>1 DEF Children, Exists
  <2>4. WaitedFor(r, waitFor[r])' = WaitedFor(r, waitFor[r])
    BY <1>2, <2>3 DEF WaitedFor
  <2>5. WaitedFor(r, waitFor[r]) \subseteq Proc
    BY DEF WaitedFor, Children
  <2>6. \A d \in Proc : k.state[d] # "ZOMBIE" => k'.state[d] # "ZOMBIE"
    BY <1>1, <1>3
  <2> QED BY <2>1, <2>2, <2>4, <2>5, <2>6
<1>6. Timed'
  BY <1>1, <1>2 DEF JInv, Timed
<1> QED BY <1>1, <1>4, <1>5, <1>6 DEF JInv

LEMMA ReapFound ==
  ASSUME JInv, TypeOK', NEW p \in Proc, NEW q, Reap(p, q)
  PROVE  JInv'
<1>1. IInv /\ IInv' /\ k'.wait = k.wait
  BY ReapInv DEF JInv
<1>2. PICK z \in WaitedFor(p, q) :
        k.state[z] = "ZOMBIE" /\ k'.state = [k.state EXCEPT ![z] = "NONE"]
  BY ReapInv DEF JInv
<1>3. z \in Proc /\ z # Idle /\ parent[z] = p
  BY DEF WaitedFor, Children
<1>4. /\ parent' = parent /\ timers' = timers /\ waitFor' = [waitFor EXCEPT ![p] = AnyChild]
      /\ k.wait[p] = "none"
  BY <1>1, Entered DEF Reap
<1>5. /\ k.state \in [Proc -> State] /\ parent \in [Proc -> Proc] /\ Sane(k) /\ Sane(k')
      /\ InitProc \in Proc /\ waitFor \in [Proc -> Proc \cup {AnyChild}]
  BY <1>1, Fields, ProcessAssumption DEF IInv, TypeOK
<1>6. Kin'
  BY <1>2, <1>3, <1>4, <1>5 DEF JInv, Kin, Alive, Exists
<1>7. NoLostChild'
  <2> SUFFICES ASSUME NEW r \in Proc, k'.wait[r] = "WT_CHILD"
               PROVE  /\ k'.state[r] = "SLEEPING"
                      /\ WaitedFor(r, waitFor[r])' # {}
                      /\ \A d \in WaitedFor(r, waitFor[r])' : k'.state[d] # "ZOMBIE"
    BY DEF NoLostChild
  <2>1. k'.state[r] = "SLEEPING" /\ r # p /\ waitFor'[r] = waitFor[r]
    BY <1>1, <1>4, <1>5 DEF Sane
  <2>2. /\ WaitedFor(r, waitFor[r]) # {}
        /\ \A d \in WaitedFor(r, waitFor[r]) : k.state[d] # "ZOMBIE"
    BY <1>1 DEF JInv, NoLostChild
  <2>3. Children(r)' = Children(r)
    BY <1>2, <1>3, <1>4, <1>5, <2>1 DEF Children, Exists
  <2>4. WaitedFor(r, waitFor[r])' = WaitedFor(r, waitFor[r])
    BY <2>1, <2>3 DEF WaitedFor
  <2>5. WaitedFor(r, waitFor[r]) \subseteq Proc
    BY DEF WaitedFor, Children
  <2>6. \A d \in Proc : k.state[d] # "ZOMBIE" => k'.state[d] # "ZOMBIE"
    BY <1>2, <1>3, <1>5
  <2> QED BY <2>1, <2>2, <2>4, <2>5, <2>6
<1>8. Timed'
  BY <1>1, <1>4 DEF JInv, Timed
<1> QED BY <1>1, <1>6, <1>7, <1>8 DEF JInv

LEMMA ExitFound ==
  ASSUME JInv, TypeOK', NEW p \in Proc, Exit(p) \/ WaitKilled(p) \/ TrapExit(p)
  PROVE  JInv'
<1>1. /\ IInv /\ DoExit(p) /\ p # Idle /\ p = k.current /\ k.state[p] = "RUNNABLE"
      /\ p \notin Owners(timers) /\ k.wait[p] = "none"
  BY ExitCalls DEF JInv
<1>2. /\ IInv'
      /\ p # InitProc =>
           /\ Woken([k EXCEPT !.state[p] = "ZOMBIE"], k')
           /\ k'.wait[parent[p]] # "WT_CHILD"
           /\ (\E c \in Children(p) : k.state[c] = "ZOMBIE")
                => k'.wait[InitProc] # "WT_CHILD"
  BY <1>1, DoExitInv
<1>3. CASE p = InitProc
  <2>1. k' = k /\ parent' = parent /\ waitFor' = waitFor /\ timers' = timers
    BY <1>1, <1>3 DEF DoExit
  <2>2. /\ Woken(k, k')
        /\ \A q \in Owners(timers) : k'.wait[q] = "WT_TIMER" => q \in Owners(timers')
    BY <2>1 DEF Woken
  <2> QED BY <1>2, <2>1, <2>2, Waking
<1>4. CASE p # InitProc
  <2>1. /\ parent' = Adopted(p) /\ timers' = timers
        /\ waitFor' = [waitFor EXCEPT ![p] = AnyChild]
    BY <1>1, <1>4 DEF DoExit
  <2>2. /\ k.state \in [Proc -> State] /\ parent \in [Proc -> Proc] /\ Sane(k) /\ Sane(k')
        /\ InitProc \in Proc /\ waitFor \in [Proc -> Proc \cup {AnyChild}]
        /\ k \in SchedRecord
    BY <1>1, <1>2, Fields, ProcessAssumption DEF IInv, TypeOK
  <2>3. \A r \in Proc \ {p} :
          \/ k'.state[r] = k.state[r] /\ k'.wait[r] = k.wait[r]
          \/ k.state[r] = "SLEEPING" /\ k'.state[r] = "RUNNABLE" /\ k'.wait[r] = "none"
    <3> DEFINE dead == [k EXCEPT !.state[p] = "ZOMBIE"]
    <3>1. dead.state = [k.state EXCEPT ![p] = "ZOMBIE"] /\ dead.wait = k.wait
      BY <2>2 DEF SchedRecord
    <3> HIDE DEF dead
    <3>2. Woken(dead, k')
      BY <1>2, <1>4 DEF dead
    <3> QED BY <2>2, <3>1, <3>2 DEF Woken
  <2>4. k'.state[p] = "ZOMBIE" /\ k'.wait[p] = "none"
    <3> DEFINE dead == [k EXCEPT !.state[p] = "ZOMBIE"]
    <3>1. dead.state = [k.state EXCEPT ![p] = "ZOMBIE"] /\ dead.wait = k.wait
      BY <2>2 DEF SchedRecord
    <3> HIDE DEF dead
    <3>2. Woken(dead, k')
      BY <1>2, <1>4 DEF dead
    <3> QED BY <1>1, <2>2, <3>1, <3>2 DEF Woken
  <2>5. /\ parent[InitProc] = Idle /\ k.state[InitProc] \notin {"NONE", "ZOMBIE"}
        /\ \A d \in Proc \ {Idle} : k.state[d] # "NONE" =>
             parent[d] # d /\ k.state[parent[d]] \notin {"NONE", "ZOMBIE"}
    BY DEF JInv, Kin, Alive, Exists
  <2>6. \A d \in Proc : parent'[d] =
          IF d # Idle /\ k.state[d] # "NONE" /\ parent[d] = p THEN InitProc ELSE parent[d]
    BY <2>1 DEF Adopted, Children, Exists
  <2>7. Kin'
    <3>1. parent'[InitProc] = Idle /\ k'.state[InitProc] \notin {"NONE", "ZOMBIE"}
      BY <1>1, <1>4, <2>2, <2>3, <2>5, <2>6
    <3>2. ASSUME NEW d \in Proc \ {Idle}, k'.state[d] # "NONE"
          PROVE  parent'[d] # d /\ k'.state[parent'[d]] \notin {"NONE", "ZOMBIE"}
      <4>1. k.state[d] # "NONE"
        BY <1>1, <2>3, <3>2
      <4>2. parent[d] # d /\ k.state[parent[d]] \notin {"NONE", "ZOMBIE"} /\ parent[d] \in Proc
        BY <2>2, <2>5, <4>1
      <4>3. CASE parent[d] = p
        <5>1. parent'[d] = InitProc /\ d # InitProc
          BY <1>1, <2>5, <2>6, <4>1, <4>3
        <5> QED BY <3>1, <5>1
      <4>4. CASE parent[d] # p
        <5>1. parent'[d] = parent[d]
          BY <2>6, <4>4
        <5> QED BY <2>3, <4>2, <4>4, <5>1
      <4> QED BY <4>3, <4>4
    <3> QED BY <3>1, <3>2 DEF Kin, Alive, Exists
  <2>8. NoLostChild'
    <3> SUFFICES ASSUME NEW r \in Proc, k'.wait[r] = "WT_CHILD"
                 PROVE  /\ k'.state[r] = "SLEEPING"
                        /\ WaitedFor(r, waitFor[r])' # {}
                        /\ \A c \in WaitedFor(r, waitFor[r])' : k'.state[c] # "ZOMBIE"
      BY DEF NoLostChild
    <3>1. k'.state[r] = "SLEEPING" /\ r # p /\ r # parent[p] /\ k.wait[r] = "WT_CHILD"
      BY <1>2, <1>4, <2>2, <2>3, <2>4 DEF Sane
    <3> DEFINE w == waitFor[r]
    <3>2. waitFor'[r] = w
      BY <2>1, <2>2, <3>1
    <3>3. WaitedFor(r, w) # {} /\ \A c \in WaitedFor(r, w) : k.state[c] # "ZOMBIE"
      BY <3>1 DEF JInv, NoLostChild
    <3> HIDE DEF w
    <3>4. \A c \in Proc : k'.state[c] = "NONE" <=> k.state[c] = "NONE"
      BY <1>1, <2>3, <2>4
    <3>5. ASSUME NEW c \in Children(r) PROVE c \in Children(r)'
      BY <2>6, <3>1, <3>4 DEF Children, Exists
    <3>6. ASSUME NEW c \in Children(r)', c \notin Children(r)
          PROVE  r = InitProc /\ c \in Children(p)
      BY <2>6, <3>4, <3>6 DEF Children, Exists
    <3>7. WaitedFor(r, waitFor[r])' = IF w = AnyChild THEN Children(r)' ELSE Children(r)' \cap {w}
      BY <3>2 DEF WaitedFor
    <3>8. WaitedFor(r, w) = IF w = AnyChild THEN Children(r) ELSE Children(r) \cap {w}
      BY DEF WaitedFor
    <3>9. WaitedFor(r, w) \subseteq WaitedFor(r, waitFor[r])'
      BY <3>5, <3>7, <3>8
    <3>10. ASSUME NEW c \in WaitedFor(r, waitFor[r])' PROVE k'.state[c] # "ZOMBIE"
      <4>1. c \in Children(r)' /\ c \in Proc
        BY <3>7 DEF Children
      <4>2. CASE c \in Children(r)
        <5>1. c \in WaitedFor(r, w) /\ c # p
          BY <3>1, <3>7, <3>8, <3>10, <4>2 DEF Children
        <5> QED BY <2>3, <3>3, <4>1, <5>1
      <4>3. CASE c \notin Children(r)
        <5>1. r = InitProc /\ c \in Children(p)
          BY <3>6, <4>1, <4>3
        <5>2. k.state[c] # "ZOMBIE" /\ c # p
          BY <1>1, <1>2, <1>4, <2>5, <5>1 DEF Children, Exists
        <5> QED BY <2>3, <4>1, <5>2
      <4> QED BY <4>2, <4>3
    <3> QED BY <3>1, <3>3, <3>9, <3>10
  <2>9. Timed'
    <3>1. \A q \in Proc : k'.wait[q] = "WT_TIMER" => k.wait[q] = "WT_TIMER"
      BY <2>3, <2>4
    <3> QED BY <2>1, <3>1 DEF JInv, Timed
  <2> QED BY <1>2, <2>7, <2>8, <2>9 DEF JInv
<1> QED BY <1>3, <1>4

LEMMA NextFound ==
  ASSUME JInv, [Next]_vars
  PROVE  JInv'
<1>1. IInv /\ TypeOK'
  BY NextType DEF JInv, IInv
<1>2. CASE Halted \/ UNCHANGED vars
  <2>1. k' = k /\ parent' = parent /\ waitFor' = waitFor /\ timers' = timers
    BY <1>2 DEF Halted, vars
  <2>2. IInv'
    BY <1>1, NextInv
  <2>3. /\ Woken(k, k')
        /\ \A q \in Owners(timers) : k'.wait[q] = "WT_TIMER" => q \in Owners(timers')
    BY <2>1 DEF Woken
  <2> QED BY <2>1, <2>2, <2>3, Waking
<1>3. ASSUME IdleLoop PROVE JInv'
  BY <1>1, <1>3, SchedAssumption, WakingSteps
<1> QED BY <1>1, <1>2, <1>3, WakingSteps, ForkFound, ExitFound, ReapFound,
           WaitSleepFound, WaitNoneFound, SleepFound, SleepReturnFound, TickFound DEF Next

LEMMA InitFound ==
  ASSUME Init
  PROVE  JInv
<1>1. IInv
  BY InitInv
<1>2. /\ k.state = [p \in Proc |-> IF p \in {Idle, InitProc} THEN "RUNNABLE" ELSE "NONE"]
      /\ k.wait = [p \in Proc |-> "none"] /\ parent = [p \in Proc |-> Idle]
  BY DEF Init
<1>3. InitProc # Idle /\ InitProc \in Proc /\ Idle \in Proc
  BY SchedAssumption, ProcessAssumption
<1>4. Kin
  BY <1>2, <1>3 DEF Kin, Alive, Exists
<1>5. NoLostChild /\ Timed
  BY <1>2 DEF NoLostChild, Timed
<1> QED BY <1>1, <1>4, <1>5 DEF JInv

LEMMA FoundTimers ==
  ASSUME JInv
  PROVE  TimersInUse
BY DEF JInv, IInv, Timed, TimerOwners, OneTimer, TimersInUse

(* In every behaviour, with any number of processes: nobody sleeps in      *)
(* do_wait while a child that it waits for is a zombie, or has no such     *)
(* child any more; whoever sleeps in do_sleep has its timer in the list,   *)
(* and nobody else has.                                                    *)
THEOREM SleepersFoundHolds == Spec => []SleepersFound
<1>1. Init => JInv
  BY InitFound
<1>2. JInv /\ [Next]_vars => JInv'
  BY NextFound
<1>3. JInv => SleepersFound
  BY FoundTimers DEF JInv, SleepersFound
<1> QED BY <1>1, <1>2, <1>3, PTL DEF Spec

(* And every process but idle has a parent that exists and is no zombie,   *)
(* so that somebody can reap it: do_exit leaves no child to a dead parent. *)
THEOREM ParentedHolds == Spec => []Parented
<1>1. Init => JInv
  BY InitFound
<1>2. JInv /\ [Next]_vars => JInv'
  BY NextFound
<1>3. JInv => Parented
  BY DEF JInv, Kin, Alive, Exists, Parented
<1> QED BY <1>1, <1>2, <1>3, PTL DEF Spec

-----------------------------------------------------------------------------
(* init_main ends last.  Every set of user processes holds one whose       *)
(* parent is outside it, so the parents of a user process lead up to init, *)
(* and as long as there is one, init has a child.  init itself waits for   *)
(* any child, and it is not killed.                                        *)
Rooted ==
  \A S \in SUBSET User : S # {} /\ (\A c \in S : Exists(c))
                           => \E c \in S : parent[c] \notin S

KInv ==
  /\ JInv /\ Rooted /\ InitEndsLast
  /\ \A c \in User : Exists(c) => parent[c] # Idle
  /\ ~exiting[InitProc] /\ waitFor[InitProc] = AnyChild

(* If init has no child there is no user process.                          *)
LEMMA Childless ==
  ASSUME KInv, Children(InitProc) = {}
  PROVE  \A c \in User : ~Exists(c)
<1> DEFINE S == {c \in User : Exists(c)}
<1>1. SUFFICES ASSUME S # {} PROVE FALSE
  OBVIOUS
<1>2. PICK c \in S : parent[c] \notin S
  <2>1. S \in SUBSET User /\ \A c \in S : Exists(c)
    OBVIOUS
  <2> HIDE DEF S
  <2> QED BY <1>1, <2>1 DEF KInv, Rooted
<1>3. c \in Proc \ {Idle} /\ Exists(c) /\ parent[c] \in Proc
  BY <1>2 DEF User, KInv, JInv, IInv, TypeOK
<1>4. Exists(parent[c]) /\ parent[c] # Idle
  BY <1>2, <1>3 DEF KInv, JInv, Kin, Alive, Exists
<1>5. parent[c] = InitProc
  BY <1>2, <1>3, <1>4 DEF User
<1> QED BY <1>3, <1>5 DEF Children

(* A step that creates no process, gives nobody another parent and does    *)
(* not end the kernel.                                                     *)
LEMMA KeepsRoot ==
  ASSUME KInv, JInv', parent' = parent, \A c \in Proc : Exists(c)' => Exists(c),
         ~exiting'[InitProc], waitFor'[InitProc] = AnyChild,
         halted' => \A c \in User : ~Exists(c)
  PROVE  KInv'
<1>1. \A c \in User : Exists(c)' => Exists(c)
  BY DEF User
<1>2. Rooted'
  <2> SUFFICES ASSUME NEW S \in SUBSET User, S # {}, \A c \in S : Exists(c)'
               PROVE  \E c \in S : parent[c] \notin S
    BY DEF Rooted
  <2>1. \A c \in S : Exists(c)
    BY <1>1
  <2> QED BY <2>1 DEF KInv, Rooted
<1>3. InitEndsLast' /\ \A c \in User : Exists(c)' => parent'[c] # Idle
  BY <1>1 DEF KInv, InitEndsLast
<1> QED BY <1>2, <1>3 DEF KInv

LEMMA WakesOnly ==
  ASSUME Woken(k, k')
  PROVE  \A c \in Proc : Exists(c)' => Exists(c)
BY DEF Woken, Exists

(* The steps that wake, or leave the states alone.                         *)
LEMMA WakingRooted ==
  ASSUME KInv, TypeOK', JInv', InitProc \notin Targets, NEW p \in Proc,
         \/ OtherSyscall(p) \/ Yield(p) \/ Block(p) \/ TrapReturn(p) \/ IdleLoop
         \/ SleepReturn(p) \/ Tick(p) \/ \E t \in Targets : Kill(p, t)
  PROVE  KInv'
<1>1. IInv
  BY DEF KInv, JInv
<1>2. Woken(k, k')
  BY <1>1, OtherSyscallInv, YieldInv, BlockInv, TrapReturnInv, IdleLoopInv, KillInv,
     SleepReturnInv, TickInv
<1>3. /\ parent' = parent /\ waitFor' = waitFor /\ halted' = halted /\ ~halted
      /\ exiting' = exiting \/ \E t \in Targets : exiting' = [exiting EXCEPT ![t] = TRUE]
  BY DEF OtherSyscall, Yield, Block, TrapReturn, IdleLoop, Kill, SleepReturn, Tick,
         At, Interrupted
<1>4. exiting \in [Proc -> BOOLEAN]
  BY <1>1 DEF IInv, TypeOK
<1>5. ~exiting'[InitProc]
  BY <1>3, <1>4, ProcessAssumption DEF KInv
<1> QED BY <1>2, <1>3, <1>5, WakesOnly, KeepsRoot DEF KInv

(* The current process goes to sleep.                                      *)
LEMMA SleepingRooted ==
  ASSUME KInv, JInv', NEW w \in WaitState, k' = Sleeping(k, w),
         k.state[k.current] = "RUNNABLE", ~halted, parent' = parent,
         exiting' = exiting, halted' = halted, waitFor'[InitProc] = AnyChild
  PROVE  KInv'
<1>1. k \in SchedRecord
  BY DEF KInv, JInv, IInv, TypeOK
<1>2. \A c \in Proc : k'.state[c] # "NONE" => k.state[c] # "NONE"
  BY <1>1, Fields DEF Sleeping, SchedRecord
<1> QED BY <1>2, KeepsRoot DEF KInv, Exists

LEMMA SleepRooted ==
  ASSUME KInv, JInv', NEW p \in Proc, NEW n \in 1..MaxSleep, Sleep(p, n)
  PROVE  KInv'
<1>1. /\ At(p, "run") /\ k' = Sleeping(k, "WT_TIMER") /\ parent' = parent
      /\ exiting' = exiting /\ halted' = halted /\ waitFor' = waitFor
  BY DEF Sleep
<1>2. k.state[k.current] = "RUNNABLE" /\ ~halted
  BY <1>1, Running DEF KInv, JInv, At
<1>3. waitFor'[InitProc] = AnyChild /\ "WT_TIMER" \in WaitState
  BY <1>1 DEF KInv, WaitState, Interruptible
<1> QED BY <1>1, <1>2, <1>3, SleepingRooted

LEMMA WaitSleepRooted ==
  ASSUME KInv, JInv', NEW p \in Proc, NEW q \in Proc \cup {AnyChild}, WaitSleep(p, q)
  PROVE  KInv'
<1>1. /\ EntersWait(p, q) /\ k' = Sleeping(k, "WT_CHILD") /\ parent' = parent
      /\ exiting' = exiting /\ halted' = halted /\ waitFor' = [waitFor EXCEPT ![p] = q]
  BY DEF WaitSleep
<1>2. k.state[k.current] = "RUNNABLE" /\ ~halted
  BY <1>1, Entered DEF KInv, JInv, At
<1>3. waitFor'[InitProc] = AnyChild
  <2>1. waitFor \in [Proc -> Proc \cup {AnyChild}] /\ InitProc \in Proc
    BY ProcessAssumption DEF KInv, JInv, IInv, TypeOK
  <2>2. EntersWait(InitProc, q) => q = AnyChild
    BY DEF EntersWait, User, KInv
  <2> QED BY <1>1, <2>1, <2>2 DEF KInv
<1>4. "WT_CHILD" \in WaitState
  BY DEF WaitState, Interruptible
<1> QED BY <1>1, <1>2, <1>3, <1>4, SleepingRooted

(* Here the kernel ends: do_wait has found no child of init.               *)
LEMMA WaitNoneRooted ==
  ASSUME KInv, TypeOK', JInv', NEW p \in Proc, NEW q, WaitNone(p, q)
  PROVE  KInv'
<1>1. IInv
  BY DEF KInv, JInv
<1>2. Woken(k, k')
  BY <1>1, WaitNoneInv
<1>3. /\ parent' = parent /\ exiting' = exiting /\ halted' = (p = InitProc)
      /\ waitFor' = [waitFor EXCEPT ![p] = AnyChild]
      /\ EntersWait(p, q) /\ WaitedFor(p, q) = {}
  BY DEF WaitNone
<1>4. waitFor'[InitProc] = AnyChild
  BY <1>1, <1>3, ProcessAssumption DEF KInv, IInv, TypeOK
<1>5. ASSUME p = InitProc PROVE \A c \in User : ~Exists(c)
  <2>1. q = AnyChild
    BY <1>3, <1>5 DEF EntersWait, User, KInv
  <2> QED BY <1>3, <1>5, <2>1, Childless DEF WaitedFor
<1> QED BY <1>2, <1>3, <1>4, <1>5, WakesOnly, KeepsRoot DEF KInv

LEMMA ReapRooted ==
  ASSUME KInv, TypeOK', JInv', NEW p \in Proc, NEW q, Reap(p, q)
  PROVE  KInv'
<1>1. IInv
  BY DEF KInv, JInv
<1>2. /\ parent' = parent /\ exiting' = exiting /\ halted' = halted /\ ~halted
      /\ waitFor' = [waitFor EXCEPT ![p] = AnyChild]
  BY DEF Reap, EntersWait, At
<1>3. waitFor'[InitProc] = AnyChild
  BY <1>1, <1>2, ProcessAssumption DEF KInv, IInv, TypeOK
<1>4. \A c \in Proc : Exists(c)' => Exists(c)
  <2>1. PICK z \in WaitedFor(p, q) : k'.state = [k.state EXCEPT ![z] = "NONE"]
    BY <1>1, ReapInv
  <2>2. k.state \in [Proc -> State]
    BY <1>1, Fields DEF IInv, TypeOK
  <2> QED BY <2>1, <2>2 DEF Exists
<1> QED BY <1>2, <1>3, <1>4, KeepsRoot DEF KInv

(* The new process has no children yet: it closes no ring of parents.      *)
LEMMA ForkRooted ==
  ASSUME KInv, TypeOK', JInv', NEW p \in Proc, NEW c \in Proc, Fork(p, c)
  PROVE  KInv'
<1>1. /\ IInv /\ Kin /\ k'.state = [k.state EXCEPT ![c] = "RUNNABLE"]
      /\ p # c /\ k.state[p] = "RUNNABLE" /\ k.state[c] = "NONE"
  BY ForkInv DEF KInv, JInv
<1>2. /\ parent' = [parent EXCEPT ![c] = p] /\ waitFor' = waitFor
      /\ exiting' = [exiting EXCEPT ![c] = FALSE] /\ halted' = halted /\ ~halted
  BY DEF Fork, At
<1>3. p # Idle /\ (p = InitProc \/ p \in User)
  <2>1. p # Idle
    BY <1>1 DEF Fork, At, User, IInv, OnCPU
  <2> QED BY <2>1 DEF User
<1>4. /\ k.state \in [Proc -> State] /\ parent \in [Proc -> Proc]
      /\ exiting \in [Proc -> BOOLEAN]
  BY <1>1, Fields DEF IInv, TypeOK
<1>5. \A d \in Proc : d # c => (Exists(d)' <=> Exists(d)) /\ parent'[d] = parent[d]
  BY <1>1, <1>2, <1>4 DEF Exists
<1>6. parent'[c] = p /\ ~exiting'[InitProc]
  BY <1>2, <1>4, ProcessAssumption DEF KInv
<1>7. Rooted'
  <2> SUFFICES ASSUME NEW S \in SUBSET User, S # {}, \A d \in S : Exists(d)',
                      \A d \in S : parent'[d] \in S
               PROVE  FALSE
    BY DEF Rooted
  <2> DEFINE T == S \ {c}
  <2>1. T \in SUBSET User /\ \A d \in T : d \in Proc \ {Idle} /\ d # c /\ d \in S
    BY DEF User
  <2>2. T # {}
    BY <1>1, <1>6
  <2>3. \A d \in T : Exists(d)
    BY <1>5, <2>1
  <2>4. ASSUME NEW d \in T PROVE parent[d] \in T
    <3>1. parent[d] \in S /\ Exists(d)
      BY <1>5, <2>1, <2>3
    <3>2. k.state[parent[d]] # "NONE"
      BY <1>1, <2>1, <3>1 DEF Kin, Alive
    <3> QED BY <1>1, <3>1, <3>2
  <2> HIDE DEF T
  <2> QED BY <2>1, <2>2, <2>3, <2>4 DEF KInv, Rooted
<1>8. \A d \in User : Exists(d)' => parent'[d] # Idle
  BY <1>3, <1>5, <1>6 DEF User, KInv
<1>9. InitEndsLast'
  BY <1>2 DEF InitEndsLast
<1> QED BY <1>2, <1>6, <1>7, <1>8, <1>9 DEF KInv

(* do_exit gives the children to init, which is no user process; init      *)
(* itself does not exit, since nobody kills it.                            *)
LEMMA ExitRooted ==
  ASSUME KInv, TypeOK', JInv', NEW p \in Proc, Exit(p) \/ WaitKilled(p) \/ TrapExit(p)
  PROVE  KInv'
<1>1. /\ IInv /\ DoExit(p) /\ k.state[p] = "RUNNABLE"
  BY ExitCalls DEF KInv, JInv
<1>2. p # InitProc /\ ~halted
  BY DEF Exit, WaitKilled, TrapExit, User, At, KInv
<1>3. /\ parent' = Adopted(p) /\ waitFor' = [waitFor EXCEPT ![p] = AnyChild]
      /\ exiting' = exiting /\ halted' = halted
      /\ Woken([k EXCEPT !.state[p] = "ZOMBIE"], k')
  BY <1>1, <1>2, ExitCalls, DoExitInv DEF DoExit, KInv, JInv
<1>4. /\ InitProc \in Proc /\ waitFor \in [Proc -> Proc \cup {AnyChild}] /\ k \in SchedRecord
      /\ InitProc # Idle
  BY <1>1, ProcessAssumption DEF IInv, TypeOK
<1>5. \A c \in Proc : Exists(c)' => Exists(c)
  <2> DEFINE dead == [k EXCEPT !.state[p] = "ZOMBIE"]
  <2>1. dead.state = [k.state EXCEPT ![p] = "ZOMBIE"] /\ k.state \in [Proc -> State]
    BY <1>4 DEF SchedRecord
  <2>2. Woken(dead, k')
    BY <1>3
  <2> HIDE DEF dead
  <2>3. \A c \in Proc : k'.state[c] = "NONE" <=> dead.state[c] = "NONE"
    BY <2>2 DEF Woken
  <2> QED BY <1>1, <2>1, <2>3 DEF Exists
<1>6. \A c \in Proc : parent'[c] = parent[c] \/ parent'[c] = InitProc
  BY <1>3 DEF Adopted
<1>7. \A c \in User : c \in Proc /\ c # InitProc
  BY DEF User
<1>8. Rooted'
  <2> SUFFICES ASSUME NEW S \in SUBSET User, S # {}, \A c \in S : Exists(c)',
                      \A c \in S : parent'[c] \in S
               PROVE  FALSE
    BY DEF Rooted
  <2>1. \A c \in S : Exists(c) /\ parent[c] \in S
    BY <1>5, <1>6, <1>7
  <2> QED BY <2>1 DEF KInv, Rooted
<1>9. \A c \in User : Exists(c)' => parent'[c] # Idle
  BY <1>4, <1>5, <1>6, <1>7 DEF KInv
<1>10. waitFor'[InitProc] = AnyChild /\ InitEndsLast'
  BY <1>2, <1>3, <1>4 DEF KInv, InitEndsLast
<1> QED BY <1>3, <1>8, <1>9, <1>10 DEF KInv

LEMMA NextRooted ==
  ASSUME InitProc \notin Targets, KInv, [Next]_vars
  PROVE  KInv'
<1>1. JInv' /\ TypeOK'
  BY NextFound DEF KInv, JInv, IInv
<1>2. CASE Halted \/ UNCHANGED vars
  <2>1. /\ k' = k /\ parent' = parent /\ waitFor' = waitFor /\ exiting' = exiting
        /\ halted' = halted
    BY <1>2 DEF Halted, vars
  <2>2. \A c \in Proc : Exists(c)' => Exists(c)
    BY <2>1 DEF Exists
  <2> QED BY <1>1, <2>1, <2>2, KeepsRoot DEF KInv, InitEndsLast
<1>3. ASSUME IdleLoop PROVE KInv'
  BY <1>1, <1>3, SchedAssumption, WakingRooted
<1>4. ASSUME NEW p \in Proc, NEW q \in Proc \cup {AnyChild}, WaitSleep(p, q) PROVE KInv'
  <2>1. JInv'
    BY <1>1
  <2> QED BY <1>4, <2>1, WaitSleepRooted
<1>5. ASSUME NEW p \in Proc, NEW n \in 1..MaxSleep, Sleep(p, n) PROVE KInv'
  BY <1>1, <1>5, SleepRooted
<1> QED BY <1>1, <1>2, <1>3, <1>4, <1>5, WakingRooted, ForkRooted, ExitRooted, ReapRooted,
           WaitNoneRooted DEF Next

LEMMA InitRooted ==
  ASSUME Init
  PROVE  KInv
<1>1. JInv
  BY InitFound
<1>2. \A c \in User : ~Exists(c)
  BY DEF Init, Exists, User
<1>3. ~exiting[InitProc] /\ waitFor[InitProc] = AnyChild /\ ~halted
  BY ProcessAssumption DEF Init
<1>4. Rooted
  BY <1>2 DEF Rooted
<1> QED BY <1>1, <1>2, <1>3, <1>4 DEF KInv, InitEndsLast

(* If no program kills init, nobody is abandoned in any behaviour: every   *)
(* process has a living parent, and the kernel ends only after the last    *)
(* user process has quit and has been reaped.                              *)
THEOREM NoneAbandonedHolds ==
  ASSUME InitProc \notin Targets
  PROVE  Spec => []NoneAbandoned
<1>1. Init => KInv
  BY InitRooted
<1>2. KInv /\ [Next]_vars => KInv'
  BY NextRooted
<1>3. KInv => NoneAbandoned
  BY DEF KInv, JInv, Kin, Alive, Exists, Parented, NoneAbandoned
<1> QED BY <1>1, <1>2, <1>3, PTL DEF Spec

-----------------------------------------------------------------------------
(* A set of numbers has a least one.                                       *)
LEMMA LeastNumber ==
  ASSUME NEW T, T \subseteq Nat, T # {}
  PROVE  \E x \in T : \A y \in T : x <= y
<1> DEFINE R == {ss \in Nat \X Nat : ss[1] < ss[2]}
<1>1. IsWellFoundedOn(R, Nat)
  BY NatLessThanWellFounded DEF OpToRel
<1> HIDE DEF R
<1>2. PICK x \in T : \A y \in T : ~ (<<y, x>> \in R)
  BY <1>1, WFMin
<1>3. \A y \in T : ~(y < x)
  BY <1>2 DEF R
<1> QED BY <1>3

-----------------------------------------------------------------------------
(* The timers as they are stored, and the sums of their differences.       *)
Delta == [proc : Sleeper, expires : Nat]

LEMMA DeltaFields ==
  ASSUME NEW l \in Seq(Delta)
  PROVE  /\ Len(l) \in Nat /\ DOMAIN l = 1..Len(l)
         /\ \A i \in 1..Len(l) : l[i].expires \in Nat /\ l[i].proc \in Sleeper
<1>1. Len(l) \in Nat /\ DOMAIN l = 1..Len(l) /\ \A i \in 1..Len(l) : l[i] \in Delta
  BY LenProperties, ElementOfSeq
<1> QED BY <1>1 DEF Delta

Partial(l, d, n) ==
  /\ d \in [0..n -> Int] /\ d[0] = 0
  /\ \A i \in 1..n : d[i] = d[i - 1] + l[i].expires

Sums(l, d) == Partial(l, d, Len(l))

(* There are such sums: otherwise take the shortest beginning without.     *)
LEMMA SumsExist ==
  ASSUME NEW l \in Seq(Delta)
  PROVE  \E d : Sums(l, d)
<1> DEFINE T == {m \in 0..Len(l) : ~\E d : Partial(l, d, m)}
<1>0. Len(l) \in Nat /\ \A i \in 1..Len(l) : l[i].expires \in Nat
  BY DeltaFields
<1> SUFFICES ASSUME T # {} PROVE FALSE
  BY <1>0 DEF Sums
<1>1. PICK m \in T : \A y \in T : m <= y
  <2>1. T \subseteq Nat
    BY <1>0
  <2> HIDE DEF T
  <2> QED BY <2>1, LeastNumber
<1>2. m \in 0..Len(l) /\ ~\E d : Partial(l, d, m)
  OBVIOUS
<1>3. CASE m = 0
  <2> DEFINE g == [i \in 0..0 |-> 0]
  <2>1. Partial(l, g, 0)
    BY DEF Partial
  <2> QED BY <1>2, <1>3, <2>1
<1>4. CASE m # 0
  <2>1. m - 1 \in 0..Len(l) /\ m - 1 \notin T
    BY <1>0, <1>1, <1>2, <1>4
  <2>2. PICK g : Partial(l, g, m - 1)
    BY <2>1
  <2> DEFINE h == [i \in 0..m |-> IF i = m THEN g[m - 1] + l[m].expires ELSE g[i]]
  <2>3. g[m - 1] \in Int /\ l[m].expires \in Int
    BY <1>0, <1>2, <1>4, <2>2 DEF Partial
  <2>4. h \in [0..m -> Int] /\ h[0] = 0
    BY <1>0, <1>2, <1>4, <2>2, <2>3 DEF Partial
  <2>5. ASSUME NEW i \in 1..m PROVE h[i] = h[i - 1] + l[i].expires
    <3>1. i - 1 \in 0..(m - 1) /\ h[i - 1] = g[i - 1]
      BY <1>0, <1>2
    <3> QED BY <1>0, <1>2, <2>2, <3>1 DEF Partial
  <2>6. Partial(l, h, m)
    <3> HIDE DEF h
    <3> QED BY <2>4, <2>5 DEF Partial
  <2> QED BY <1>2, <2>6
<1> QED BY <1>3, <1>4

(* The sums do not fall.                                                   *)
LEMMA SumsRise ==
  ASSUME NEW l \in Seq(Delta), NEW d, Sums(l, d)
  PROVE  \A i, j \in 0..Len(l) : i <= j => d[i] <= d[j]
<1>1. Len(l) \in Nat /\ d \in [0..Len(l) -> Int]
      /\ \A i \in 1..Len(l) : l[i].expires \in Nat
  BY DeltaFields DEF Sums, Partial
<1> SUFFICES ASSUME NEW i \in 0..Len(l), {j \in 0..Len(l) : i <= j /\ ~(d[i] <= d[j])} # {}
             PROVE  FALSE
  OBVIOUS
<1> DEFINE T == {j \in 0..Len(l) : i <= j /\ ~(d[i] <= d[j])}
<1>2. PICK m \in T : \A y \in T : m <= y
  <2>1. T \subseteq Nat /\ T # {}
    BY <1>1
  <2> HIDE DEF T
  <2> QED BY <2>1, LeastNumber
<1>3. m # i
  BY <1>1
<1>4. m - 1 \in 0..Len(l) /\ m - 1 \notin T /\ m \in 1..Len(l) /\ i <= m - 1
  BY <1>1, <1>2, <1>3
<1>5. d[m] = d[m - 1] + l[m].expires
  BY <1>4 DEF Sums, Partial
<1>6. d[i] <= d[m - 1] /\ ~(d[i] <= d[m])
  BY <1>4
<1>7. d[i] \in Int /\ d[m] \in Int /\ d[m - 1] \in Int /\ l[m].expires \in Nat
  BY <1>1, <1>4
<1> HIDE DEF T
<1> QED BY <1>5, <1>6, <1>7

(* So a recursive definition, which is a CHOOSE, chooses the sums.         *)
LEMMA DueRight ==
  ASSUME NEW l \in Seq(Delta), NEW d, Sums(l, d)
  PROVE  Deltas!Expiries(l) = [i \in DOMAIN l |-> [proc |-> l[i].proc, left |-> d[i]]]
<1> DEFINE W(h) == h = [i \in 0..Len(l) |-> IF i = 0 THEN 0 ELSE h[i - 1] + l[i].expires]
           c == CHOOSE h : W(h)
<1>1. Len(l) \in Nat /\ DOMAIN l = 1..Len(l)
      /\ \A i \in 1..Len(l) : l[i].expires \in Nat
  BY DeltaFields
<1>2. W(d)
  <2>1. ASSUME NEW i \in 0..Len(l)
        PROVE  d[i] = IF i = 0 THEN 0 ELSE d[i - 1] + l[i].expires
    BY <1>1 DEF Sums, Partial
  <2>2. d = [i \in 0..Len(l) |-> d[i]]
    BY DEF Sums, Partial
  <2> QED BY <2>1, <2>2
<1>3. W(c)
  <2> HIDE DEF W
  <2> QED BY <1>2
<1>4. Deltas!Expiries(l) = [i \in DOMAIN l |-> [proc |-> l[i].proc, left |-> c[i]]]
  BY DEF Deltas!Expiries
<1>5. \A i \in 0..Len(l) : c[i] = d[i]
  <2> DEFINE T == {m \in 0..Len(l) : c[m] # d[m]}
  <2> HIDE DEF c
  <2>1. ASSUME NEW i \in 0..Len(l)
        PROVE  c[i] = IF i = 0 THEN 0 ELSE c[i - 1] + l[i].expires
    BY <1>3
  <2> SUFFICES ASSUME T # {} PROVE FALSE
    OBVIOUS
  <2>2. PICK m \in T : \A y \in T : m <= y
    <3>1. T \subseteq Nat /\ T # {}
      BY <1>1
    <3> HIDE DEF T
    <3> QED BY <3>1, LeastNumber
  <2>3. m # 0
    BY <2>1, <1>1 DEF Sums, Partial
  <2>4. m - 1 \in 0..Len(l) /\ m - 1 \notin T /\ m \in 1..Len(l)
    BY <1>1, <2>2, <2>3
  <2> QED BY <2>1, <2>3, <2>4 DEF Sums, Partial
<1> QED BY <1>1, <1>4, <1>5

(* What add_timer has left of an expiry when it reaches position i.        *)
LEMMA RemainingRight ==
  ASSUME NEW d, list \in Seq(Delta), Sums(list, d), NEW n \in Nat
  PROVE  \A i \in 1..(Len(list) + 1) : Deltas!Remaining(n)[i] = n - d[i - 1]
<1> DEFINE W(h) == h = [i \in 1..(Len(list) + 1) |->
                         IF i = 1 THEN n ELSE h[i - 1] - list[i - 1].expires]
           c == CHOOSE h : W(h)
           r == [i \in 1..(Len(list) + 1) |-> n - d[i - 1]]
<1>1. /\ Len(list) \in Nat /\ d \in [0..Len(list) -> Int]
      /\ \A i \in 1..Len(list) : list[i].expires \in Nat
  BY DeltaFields DEF Sums, Partial
<1>2. W(r)
  <2>1. ASSUME NEW i \in 1..(Len(list) + 1)
        PROVE  n - d[i - 1] = IF i = 1 THEN n ELSE r[i - 1] - list[i - 1].expires
    <3>1. CASE i = 1
      BY <1>1, <3>1 DEF Sums, Partial
    <3>2. CASE i # 1
      <4>1. i - 1 \in 1..Len(list) /\ i - 1 \in 1..(Len(list) + 1) /\ i - 2 \in 0..Len(list)
            /\ i - 1 - 1 = i - 2
        BY <1>1, <3>2
      <4>2. r[i - 1] = n - d[i - 2] /\ d[i - 1] = d[i - 2] + list[i - 1].expires
        BY <4>1 DEF Sums, Partial
      <4>3. d[i - 1] \in Int /\ d[i - 2] \in Int /\ list[i - 1].expires \in Int
        BY <1>1, <4>1
      <4> HIDE DEF r
      <4> QED BY <3>2, <4>2, <4>3
    <3> QED BY <3>1, <3>2
  <2> QED BY <2>1
<1>3. W(c)
  <2> HIDE DEF W, r
  <2> QED BY <1>2
<1>4. Deltas!Remaining(n) = c
  BY DEF Deltas!Remaining
<1>5. \A i \in 1..(Len(list) + 1) : c[i] = r[i]
  <2> DEFINE T == {m \in 1..(Len(list) + 1) : c[m] # r[m]}
  <2>1. \A i \in 1..(Len(list) + 1) :
          /\ c[i] = IF i = 1 THEN n ELSE c[i - 1] - list[i - 1].expires
          /\ r[i] = IF i = 1 THEN n ELSE r[i - 1] - list[i - 1].expires
    <3> HIDE DEF r, c
    <3> QED BY <1>2, <1>3
  <2> HIDE DEF c, r
  <2> SUFFICES ASSUME T # {} PROVE FALSE
    OBVIOUS
  <2>2. PICK m \in T : \A y \in T : m <= y
    <3>1. T \subseteq Nat /\ T # {}
      BY <1>1
    <3> HIDE DEF T
    <3> QED BY <3>1, LeastNumber
  <2>3. m \in 1..(Len(list) + 1) /\ c[m] # r[m] /\ m # 1
    BY <2>1
  <2>4. m - 1 \in 1..(Len(list) + 1) /\ m - 1 \notin T
    BY <1>1, <2>2, <2>3
  <2> QED BY <2>1, <2>3, <2>4
<1> QED BY <1>4, <1>5

-----------------------------------------------------------------------------
(* Each process has one timer, and the first has a tick left: so all have, *)
(* for the differences are not negative.                                   *)
TimerInv ==
  /\ list \in Seq(Delta)
  /\ \A i, j \in 1..Len(list) : list[i].proc = list[j].proc => i = j
  /\ list # <<>> => list[1].expires > 0

(* add_timer.                                                              *)
LEMMA AddPlace ==
  ASSUME TimerInv, NEW d, Sums(list, d), NEW n \in 1..MaxTicks,
         NEW i \in 1..(Len(list) + 1), Deltas!StopsAt(n, i)
  PROVE  /\ {j \in 1..Len(list) : d[j] <= n} = 1..(i - 1)
         /\ i <= Len(list) => n < d[i]
         /\ d[i - 1] <= n
<1>0. n \in Nat
  BY SchedulersAssumption DEF Deltas!TimerListAssumption
<1>1. /\ Len(list) \in Nat /\ d \in [0..Len(list) -> Int]
      /\ \A j \in 1..Len(list) : list[j].expires \in Nat
  BY DeltaFields DEF Sums, Partial, TimerInv
<1>2. \A j, m \in 0..Len(list) : j <= m => d[j] <= d[m]
  BY SumsRise DEF TimerInv
<1>3. \A j \in 1..(Len(list) + 1) : Deltas!Remaining(n)[j] = n - d[j - 1]
  BY <1>0, RemainingRight DEF TimerInv
<1>4. \A j \in 1..Len(list) : d[j] = d[j - 1] + list[j].expires /\ d[j - 1] \in Int
  BY <1>1 DEF Sums, Partial
<1>5. i <= Len(list) => n < d[i]
  <2> SUFFICES ASSUME i <= Len(list) PROVE n < d[i]
    OBVIOUS
  <2>1. i \in 1..Len(list) /\ n - d[i - 1] < list[i].expires
    BY <1>1, <1>3 DEF Deltas!StopsAt
  <2> QED BY <1>0, <1>1, <1>4, <2>1
<1>6. ASSUME NEW j \in 1..(i - 1) PROVE d[j] <= n
  <2>1. j \in 1..Len(list) /\ j \in 1..(Len(list) + 1) /\ n - d[j - 1] >= list[j].expires
    BY <1>1, <1>3 DEF Deltas!StopsAt
  <2> QED BY <1>0, <1>1, <1>4, <2>1
<1>7. ASSUME NEW j \in 1..Len(list), d[j] <= n PROVE j \in 1..(i - 1)
  <2> SUFFICES ASSUME ~(j <= i - 1) PROVE FALSE
    BY <1>1
  <2>1. i <= Len(list) /\ i \in 0..Len(list) /\ j \in 0..Len(list) /\ i <= j
    BY <1>1
  <2>2. d[i] <= d[j] /\ n < d[i] /\ d[i] \in Int /\ d[j] \in Int
    BY <1>1, <1>2, <1>5, <2>1
  <2> QED BY <1>0, <1>7, <2>2
<1>8. d[i - 1] <= n
  <2>1. i - 1 = 0 \/ i - 1 \in 1..(i - 1)
    BY <1>1
  <2>2. d[0] = 0
    BY DEF Sums, Partial
  <2> QED BY <1>0, <1>6, <2>1, <2>2
<1>9. 1..(i - 1) \subseteq 1..Len(list)
  BY <1>1
<1> QED BY <1>5, <1>6, <1>7, <1>8, <1>9

(* The list with a new timer of expiry e at position i.                    *)
Added(i, p, e) ==
  [j \in 1..(Len(list) + 1) |->
     IF j < i THEN list[j]
     ELSE IF j = i THEN [proc |-> p, expires |-> e]
     ELSE IF j = i + 1 THEN [list[i] EXCEPT !.expires = @ - e]
     ELSE list[j - 1]]

(* Element by element, and its sums.                                       *)
LEMMA AddSums ==
  ASSUME TimerInv, NEW d, Sums(list, d), NEW p \in Sleeper, NEW n \in 1..MaxTicks,
         NEW i \in 1..(Len(list) + 1), Deltas!StopsAt(n, i), p \notin Deltas!Listed,
         NEW e, e = n - d[i - 1],
         list' = Added(i, p, e)
  PROVE  /\ TimerInv' /\ Len(list') = Len(list) + 1
         /\ \A j \in 1..(Len(list) + 1) :
              list'[j].proc = IF j < i THEN list[j].proc
                              ELSE IF j = i THEN p ELSE list[j - 1].proc
         /\ Sums(list', [j \in 0..(Len(list) + 1) |->
                           IF j < i THEN d[j] ELSE IF j = i THEN n ELSE d[j - 1]])
<1> DEFINE len == Len(list)
           D == [j \in 0..(len + 1) |->
                   IF j < i THEN d[j] ELSE IF j = i THEN n ELSE d[j - 1]]
<1>a. list' = [j \in 1..(len + 1) |->
                 IF j < i THEN list[j]
                 ELSE IF j = i THEN [proc |-> p, expires |-> e]
                 ELSE IF j = i + 1 THEN [list[i] EXCEPT !.expires = @ - e]
                 ELSE list[j - 1]]
  BY DEF Added
<1>0. n \in Nat /\ n >= 1
  BY SchedulersAssumption DEF Deltas!TimerListAssumption
<1>1. /\ len \in Nat /\ DOMAIN list = 1..len /\ d \in [0..len -> Int] /\ d[0] = 0
      /\ \A j \in 0..len : d[j] \in Int
      /\ \A j \in 1..len : /\ list[j].expires \in Nat /\ list[j].proc \in Sleeper
                           /\ d[j] = d[j - 1] + list[j].expires
  BY DeltaFields DEF Sums, Partial, TimerInv
<1>2. (i <= len => n < d[i]) /\ d[i - 1] <= n
  BY AddPlace
<1>3. e \in Nat
  BY <1>0, <1>1, <1>2
<1>4. i <= len => list[i].expires - e \in Nat \ {0}
  <2> SUFFICES ASSUME i <= len PROVE list[i].expires - e \in Nat \ {0}
    OBVIOUS
  <2>1. i \in 1..len /\ i - 1 \in 0..len
    BY <1>1
  <2>2. d[i] = d[i - 1] + list[i].expires /\ i \in 0..len
    BY <1>1, <2>1
  <2>3. d[i] \in Int /\ d[i - 1] \in Int /\ list[i].expires \in Int
    BY <1>1, <2>1, <2>2
  <2> QED BY <1>0, <1>2, <2>1, <2>2, <2>3
<1>5. \A j \in 1..len : list[j] \in Delta
  BY <1>1, ElementOfSeq DEF TimerInv
<1>6. ASSUME NEW j \in 1..(len + 1), j = i + 1
      PROVE  /\ [list[i] EXCEPT !.expires = @ - e] \in Delta
             /\ [list[i] EXCEPT !.expires = @ - e].proc = list[j - 1].proc
             /\ [list[i] EXCEPT !.expires = @ - e].expires = list[i].expires - e
  <2>1. i \in 1..len /\ j - 1 = i /\ list[i] \in Delta
    BY <1>1, <1>5, <1>6
  <2>2. list[i].expires - e \in Nat
    BY <1>4, <2>1
  <2> QED BY <2>1, <2>2 DEF Delta
<1>7. [proc |-> p, expires |-> e] \in Delta
  <2> QED BY <1>3 DEF Delta
<1>8. DOMAIN list' = 1..(len + 1) /\ list' \in [1..(len + 1) -> Delta]
  <2> SUFFICES ASSUME NEW j \in 1..(len + 1) PROVE list'[j] \in Delta
    BY <1>a
  <2>1. j < i => j \in 1..len
    BY <1>1
  <2>2. ~(j < i) /\ j # i /\ j # i + 1 => j - 1 \in 1..len
    BY <1>1
  <2> HIDE DEF len
  <2> QED BY <1>a, <1>5, <1>6, <1>7, <2>1, <2>2 DEF len
<1>9. list' \in Seq(Delta) /\ Len(list') = len + 1
  <2>1. len + 1 \in Nat
    BY <1>1
  <2> QED BY <1>8, <2>1
<1>10. ASSUME NEW j \in 1..(len + 1)
       PROVE  list'[j].proc = IF j < i THEN list[j].proc
                              ELSE IF j = i THEN p ELSE list[j - 1].proc
  <2>1. CASE j = i + 1
    <3>1. ~(j < i) /\ j # i
      BY <1>1, <2>1
    <3>2. list'[j] = [list[i] EXCEPT !.expires = @ - e]
      BY <1>a, <2>1, <3>1
    <3> QED BY <1>6, <2>1, <3>1, <3>2
  <2>2. CASE j # i + 1
    BY <1>a, <2>2
  <2> QED BY <2>1, <2>2
<1>11. ASSUME NEW j \in 1..(len + 1), NEW m \in 1..(len + 1), list'[j].proc = list'[m].proc
       PROVE  j = m
  <2>1. \A a \in 1..len : list[a].proc # p
    BY <1>1 DEF Deltas!Listed
  <2>2. \A a, b \in 1..len : list[a].proc = list[b].proc => a = b
    BY DEF TimerInv
  <2>3. /\ j < i => j \in 1..len
        /\ j > i => j - 1 \in 1..len
        /\ m < i => m \in 1..len
        /\ m > i => m - 1 \in 1..len
    BY <1>1
  <2>4. list'[j].proc = IF j < i THEN list[j].proc
                        ELSE IF j = i THEN p ELSE list[j - 1].proc
    BY <1>10
  <2>5. list'[m].proc = IF m < i THEN list[m].proc
                        ELSE IF m = i THEN p ELSE list[m - 1].proc
    BY <1>10
  <2>6. j \in Int /\ m \in Int /\ i \in Int
    BY <1>1
  <2>7. CASE j < i /\ m < i
    BY <1>11, <2>2, <2>3, <2>4, <2>5, <2>7
  <2>8. CASE j > i /\ m > i
    <3>1. list'[j].proc = list[j - 1].proc /\ list'[m].proc = list[m - 1].proc
      BY <2>4, <2>5, <2>6, <2>8
    <3>2. j - 1 = m - 1
      BY <1>11, <2>2, <2>3, <2>8, <3>1
    <3> QED BY <2>6, <3>2
  <2>9. CASE j < i /\ m > i
    <3>1. list'[j].proc = list[j].proc /\ list'[m].proc = list[m - 1].proc
      BY <2>4, <2>5, <2>6, <2>9
    <3>2. j = m - 1
      BY <1>11, <2>2, <2>3, <2>9, <3>1
    <3> QED BY <2>6, <2>9, <3>2
  <2>10. CASE j > i /\ m < i
    <3>1. list'[j].proc = list[j - 1].proc /\ list'[m].proc = list[m].proc
      BY <2>4, <2>5, <2>6, <2>10
    <3>2. j - 1 = m
      BY <1>11, <2>2, <2>3, <2>10, <3>1
    <3> QED BY <2>6, <2>10, <3>2
  <2>11. CASE j = i
    BY <1>11, <2>1, <2>3, <2>4, <2>5, <2>6, <2>11
  <2>12. CASE m = i
    BY <1>11, <2>1, <2>3, <2>4, <2>5, <2>6, <2>12
  <2> QED BY <2>6, <2>7, <2>8, <2>9, <2>10, <2>11, <2>12
<1>12. list'[1].expires > 0
  <2>0. 1 \in 1..(len + 1)
    BY <1>1
  <2>1. CASE i = 1
    <3>1. list'[1].expires = e /\ e = n - d[0]
      BY <1>a, <2>0, <2>1
    <3> QED BY <1>0, <1>1, <3>1
  <2>2. CASE i # 1
    <3>1. 1 < i /\ len > 0
      BY <1>1, <2>2
    <3>2. list'[1] = list[1] /\ list # <<>>
      BY <1>a, <1>1, <2>0, <3>1
    <3> QED BY <3>2 DEF TimerInv
  <2> QED BY <2>1, <2>2
<1>13. TimerInv'
  BY <1>9, <1>11, <1>12 DEF TimerInv, Delta
<1>14. D \in [0..(len + 1) -> Int] /\ D[0] = 0
  <2> SUFFICES ASSUME NEW j \in 0..(len + 1) PROVE D[j] \in Int /\ D[0] = 0
    OBVIOUS
  <2>1. (j < i => j \in 0..len) /\ (j > i => j - 1 \in 0..len) /\ 0 \in 0..(len + 1) /\ 0 < i
    BY <1>1
  <2>2. CASE j < i
    BY <1>1, <2>1, <2>2
  <2>3. CASE j = i
    BY <1>0, <1>1, <2>1, <2>3
  <2>4. CASE j > i
    BY <1>1, <2>1, <2>4
  <2> QED BY <1>1, <2>2, <2>3, <2>4
<1>15. ASSUME NEW j \in 1..(len + 1)
       PROVE  D[j] = D[j - 1] + list'[j].expires
  <2>0. j \in 0..(len + 1) /\ j - 1 \in 0..(len + 1)
    BY <1>1
  <2>1. CASE j < i
    <3>1. list'[j] = list[j] /\ D[j] = d[j] /\ D[j - 1] = d[j - 1] /\ j \in 1..len
      BY <1>a, <1>1, <2>0, <2>1
    <3> QED BY <1>1, <3>1
  <2>2. CASE j = i
    <3>1. list'[j].expires = e /\ D[j] = n /\ D[j - 1] = d[i - 1]
      BY <1>a, <1>1, <2>0, <2>2
    <3>2. d[i - 1] \in Int
      BY <1>1
    <3> QED BY <1>0, <3>1, <3>2
  <2>3. CASE j = i + 1
    <3>1. D[j] = d[i] /\ D[j - 1] = n /\ i \in 1..len /\ i - 1 \in 0..len
      BY <1>1, <2>0, <2>3
    <3>2. list'[j].expires = list[i].expires - e
      <4>0. ~(j < i) /\ j # i
        BY <1>1, <2>3
      <4>1. list'[j] = [list[i] EXCEPT !.expires = @ - e]
        <5> HIDE DEF D
        <5> QED BY <1>a, <2>3, <4>0
      <4> QED BY <1>6, <2>3, <4>1
    <3>3. d[i] = d[i - 1] + list[i].expires /\ list[i].expires \in Int
      <4> HIDE DEF D
      <4> QED BY <1>1, <3>1
    <3>4. d[i - 1] \in Int
      BY <1>1, <3>1
    <3> HIDE DEF D
    <3> QED BY <1>0, <3>1, <3>2, <3>3, <3>4
  <2>4. CASE j > i + 1
    <3>1. /\ list'[j] = list[j - 1] /\ j - 1 \in 1..len
          /\ D[j] = d[j - 1] /\ D[j - 1] = d[j - 1 - 1]
      <4>1. /\ j - 1 \in 1..len /\ ~(j < i) /\ j # i /\ j # i + 1
            /\ ~(j - 1 < i) /\ j - 1 # i
        BY <1>1, <2>4
      <4>2. list'[j] = list[j - 1]
        <5> HIDE DEF D
        <5> QED BY <1>a, <4>1
      <4> QED BY <2>0, <4>1, <4>2
    <3> QED BY <1>1, <3>1
  <2> QED BY <1>1, <2>1, <2>2, <2>3, <2>4
<1>16. Sums(list', D)
  <2> HIDE DEF D
  <2> QED BY <1>9, <1>14, <1>15 DEF Sums, Partial
<1> QED BY <1>9, <1>10, <1>13, <1>16

(* What stands for the list is a list of timers, with the sums.            *)
AbsTimer == [proc : Sleeper, left : Int]

LEMMA DueList ==
  ASSUME NEW l \in Seq(Delta), NEW d, Sums(l, d)
  PROVE  /\ Deltas!Expiries(l) \in Seq(AbsTimer) /\ Len(Deltas!Expiries(l)) = Len(l)
         /\ \A i \in 1..Len(l) :
              Deltas!Expiries(l)[i] = [proc |-> l[i].proc, left |-> d[i]]
<1> DEFINE D == [i \in 1..Len(l) |-> [proc |-> l[i].proc, left |-> d[i]]]
<1>1. /\ Len(l) \in Nat /\ DOMAIN l = 1..Len(l) /\ d \in [0..Len(l) -> Int]
      /\ \A i \in 1..Len(l) : l[i].proc \in Sleeper
  BY DeltaFields DEF Sums, Partial
<1>2. Deltas!Expiries(l) = D
  BY <1>1, DueRight
<1>3. D \in [1..Len(l) -> AbsTimer]
  <2> SUFFICES ASSUME NEW i \in 1..Len(l) PROVE D[i] \in AbsTimer
    OBVIOUS
  <2> QED BY <1>1 DEF AbsTimer
<1>4. D \in Seq(AbsTimer) /\ Len(D) = Len(l)
  <2> HIDE DEF D
  <2> QED BY <1>1, <1>3
<1> QED BY <1>2, <1>4

LEMMA AddSimulated ==
  ASSUME TimerInv, NEW p \in Sleeper, NEW n \in 1..MaxTicks, Deltas!Add(p, n)
  PROVE  TimerInv' /\ Deltas!Abs!Start(p, n)
<1>0. n \in Nat
  BY SchedulersAssumption DEF Deltas!TimerListAssumption
<1>1. list \in Seq(Delta)
  BY DEF TimerInv
<1>2. PICK d : Sums(list, d)
  BY <1>1, SumsExist
<1>3. PICK i \in 1..(Len(list) + 1) :
        /\ Deltas!StopsAt(n, i)
        /\ list' = [j \in 1..(Len(list) + 1) |->
                     IF j < i THEN list[j]
                     ELSE IF j = i THEN [proc |-> p, expires |-> Deltas!Remaining(n)[i]]
                     ELSE IF j = i + 1
                          THEN [list[i] EXCEPT !.expires = @ - Deltas!Remaining(n)[i]]
                     ELSE list[j - 1]]
  BY DEF Deltas!Add
<1>4. Deltas!Remaining(n)[i] = n - d[i - 1] /\ p \notin Deltas!Listed /\ fired' = <<>>
  BY <1>0, <1>1, <1>2, RemainingRight DEF Deltas!Add
<1> DEFINE D == [j \in 0..(Len(list) + 1) |->
                  IF j < i THEN d[j] ELSE IF j = i THEN n ELSE d[j - 1]]
           ts == Deltas!Expiries(list)
           us == Deltas!Expiries(list')
           t  == [proc |-> p, left |-> n]
<1>5. /\ TimerInv' /\ Len(list') = Len(list) + 1 /\ Sums(list', D)
      /\ \A j \in 1..(Len(list) + 1) :
           list'[j].proc = IF j < i THEN list[j].proc
                           ELSE IF j = i THEN p ELSE list[j - 1].proc
  <2>1. list' = Added(i, p, Deltas!Remaining(n)[i])
    BY <1>3 DEF Added
  <2>2. Deltas!StopsAt(n, i) /\ p \notin Deltas!Listed
    BY <1>3, <1>4
  <2> HIDE DEF ts, us, t
  <2>3. Deltas!Remaining(n)[i] = n - d[i - 1]
    BY <1>4
  <2> QED BY <1>2, <2>1, <2>2, <2>3, AddSums
<1>6. /\ ts \in Seq(AbsTimer) /\ Len(ts) = Len(list)
      /\ \A j \in 1..Len(list) : ts[j] = [proc |-> list[j].proc, left |-> d[j]]
  BY <1>1, <1>2, DueList
<1>7. /\ us \in Seq(AbsTimer) /\ Len(us) = Len(list) + 1
      /\ \A j \in 1..(Len(list) + 1) : us[j] = [proc |-> list'[j].proc, left |-> D[j]]
  <2>1. list' \in Seq(Delta)
    BY <1>5 DEF TimerInv, Delta
  <2> HIDE DEF D
  <2> QED BY <1>5, <2>1, DueList
<1>8. Len(list) \in Nat /\ DOMAIN ts = 1..Len(list) /\ t \in AbsTimer
  BY <1>0, <1>1, <1>6, LenProperties DEF AbsTimer
<1>9. {j \in DOMAIN ts : ts[j].left <= n} = 1..(i - 1)
  <2>1. {j \in 1..Len(list) : d[j] <= n} = 1..(i - 1)
    BY <1>2, <1>3, AddPlace
  <2> HIDE DEF ts
  <2> QED BY <1>6, <1>8, <2>1
<1>10. Cardinality(1..(i - 1)) + 1 = i
  <2>1. i - 1 \in Nat /\ (1 > i - 1 => i - 1 = 0) /\ (i - 1) - 1 + 1 = i - 1
    BY <1>3, <1>8
  <2>2. Cardinality(1..(i - 1)) = IF 1 > i - 1 THEN 0 ELSE (i - 1) - 1 + 1
    BY <2>1, FS_Interval
  <2>3. i \in Int
    BY <1>3, <1>8
  <2> QED BY <2>1, <2>2, <2>3
<1>11. /\ InsertAt(ts, i, t) \in Seq(AbsTimer) /\ Len(InsertAt(ts, i, t)) = Len(list) + 1
       /\ \A j \in 1..(Len(list) + 1) :
            InsertAt(ts, i, t)[j] = IF j < i THEN ts[j] ELSE IF j = i THEN t ELSE ts[j - 1]
  <2>1. i \in 1..(Len(ts) + 1)
    BY <1>3, <1>6
  <2> HIDE DEF ts, t, us, D
  <2>2. ts \in Seq(AbsTimer) /\ t \in AbsTimer
    BY <1>6, <1>8
  <2>3. /\ InsertAt(ts, i, t) \in Seq(AbsTimer) /\ Len(InsertAt(ts, i, t)) = Len(ts) + 1
        /\ \A j \in 1..(Len(ts) + 1) :
             InsertAt(ts, i, t)[j] = IF j < i THEN ts[j] ELSE IF j = i THEN t ELSE ts[j - 1]
    BY <2>1, <2>2, Inserted
  <2> QED BY <1>6, <2>3
<1>12. us = InsertAt(ts, i, t)
  <2>1. ASSUME NEW j \in 1..(Len(list) + 1) PROVE us[j] = InsertAt(ts, i, t)[j]
    <3>1. (j < i => j \in 1..Len(list)) /\ (j > i => j - 1 \in 1..Len(list)) /\ j \in Int /\ i \in Int
      BY <1>8
    <3>2. D[j] = IF j < i THEN d[j] ELSE IF j = i THEN n ELSE d[j - 1]
      OBVIOUS
    <3> HIDE DEF ts, us, D
    <3>3. CASE j < i
      BY <1>5, <1>6, <1>7, <1>11, <3>1, <3>2, <3>3
    <3>4. CASE j = i
      BY <1>5, <1>6, <1>7, <1>11, <3>1, <3>2, <3>4
    <3>5. CASE j > i
      <4>1. D[j] = d[j - 1] /\ list'[j].proc = list[j - 1].proc /\ j - 1 \in 1..Len(list)
        BY <1>5, <3>1, <3>2, <3>5
      <4>2. InsertAt(ts, i, t)[j] = ts[j - 1]
        BY <1>11, <3>1, <3>5
      <4> QED BY <1>6, <1>7, <4>1, <4>2, Zenon
    <3> QED BY <3>1, <3>3, <3>4, <3>5
  <2> HIDE DEF ts, us, t
  <2> QED BY <1>7, <1>11, <2>1, SeqEqual
<1>13. us = Deltas!Abs!AddTimer(ts, p, n)
  BY <1>9, <1>10, <1>12, Zenon DEF Deltas!Abs!AddTimer, Deltas!Abs!InsertAt, InsertAt,
     Deltas!Abs!Cardinality, Cardinality
<1>14. p \notin Deltas!Abs!Owners(ts)
  <2> HIDE DEF ts
  <2> QED BY <1>4, <1>6, <1>8 DEF Deltas!Listed, Deltas!Abs!Owners
<1> QED BY <1>4, <1>5, <1>13, <1>14 DEF Deltas!Abs!Start, Deltas!Due

(* del_timer: the list without the timer at position i, and its sums.      *)
LEMMA DeletedFields ==
  ASSUME list \in Seq(Delta), NEW i \in 1..Len(list)
  PROVE  /\ Deltas!Deleted(i) \in Seq(Delta) /\ Len(Deltas!Deleted(i)) = Len(list) - 1
         /\ \A j \in 1..(Len(list) - 1) :
              /\ Deltas!Deleted(i)[j].proc = IF j < i THEN list[j].proc ELSE list[j + 1].proc
              /\ Deltas!Deleted(i)[j].expires =
                   IF j < i THEN list[j].expires
                   ELSE IF j = i THEN list[i + 1].expires + list[i].expires
                   ELSE list[j + 1].expires
<1> DEFINE len == Len(list)
           w == Deltas!Without(i)
           x == Deltas!Deleted(i)
           e == list[i].expires
<1>1. /\ len \in Nat /\ DOMAIN list = 1..len /\ i \in Int /\ i >= 1 /\ i <= len
      /\ \A j \in 1..len : list[j].expires \in Nat /\ list[j] \in Delta
  BY DeltaFields, ElementOfSeq
<1>2. /\ w \in Seq(Delta) /\ Len(w) = len - 1
      /\ \A j \in 1..(len - 1) : w[j] = IF j < i THEN list[j] ELSE list[j + 1]
  BY Removed DEF Deltas!Without, RemoveAt
<1>3. CASE i = len
  <2>1. x = w
    BY <1>3 DEF Deltas!Deleted
  <2>2. \A j \in 1..(len - 1) : j < i
    BY <1>1, <1>3
  <2> HIDE DEF x, w
  <2>3. \A j \in 1..(len - 1) : x[j] = list[j]
    BY <1>2, <2>1, <2>2
  <2> QED BY <1>2, <2>1, <2>2, <2>3 DEF x
<1>4. CASE i # len
  <2>1. i \in 1..(len - 1) /\ i + 1 \in 1..len /\ ~(i < i)
    <3>1. \A c \in Nat : i <= c /\ i # c => /\ i \in 1..(c - 1) /\ i + 1 \in 1..c
                                           /\ ~(i < i)
      BY <1>1
    <3> QED BY <1>1, <1>4, <3>1, Zenon
  <2>2. x = [w EXCEPT ![i].expires = @ + e]
    BY <1>4 DEF Deltas!Deleted
  <2>3. w[i] = list[i + 1] /\ w[i] \in Delta /\ e \in Nat
    <3> HIDE DEF w
    <3> QED BY <1>1, <1>2, <2>1
  <2> HIDE DEF x, w, e
  <2> DEFINE r == [w[i] EXCEPT !.expires = @ + e]
  <2>4. r \in Delta /\ r.proc = w[i].proc /\ r.expires = w[i].expires + e
    BY <2>3 DEF Delta
  <2>5. x = [w EXCEPT ![i] = r]
    BY <2>2
  <2> HIDE DEF r
  <2>6. /\ x \in Seq(Delta) /\ Len(x) = Len(w)
        /\ \A j \in 1..Len(w) : x[j] = IF j = i THEN r ELSE w[j]
    <3>1. i \in 1..Len(w) /\ DOMAIN w = 1..Len(w)
      BY <1>2, <2>1
    <3> QED BY <1>2, <2>4, <2>5, <3>1
  <2>7. ASSUME NEW j \in 1..(len - 1)
        PROVE  /\ x[j].proc = IF j < i THEN list[j].proc ELSE list[j + 1].proc
               /\ x[j].expires = IF j < i THEN list[j].expires
                                 ELSE IF j = i THEN list[i + 1].expires + e
                                 ELSE list[j + 1].expires
    <3>1. CASE j = i
      <4>1. x[j] = r
        BY <1>2, <2>6, <3>1
      <4> QED BY <2>1, <2>3, <2>4, <3>1, <4>1
    <3>2. CASE j # i
      <4>1. x[j] = w[j]
        BY <1>2, <2>6, <3>2
      <4>2. w[j] = IF j < i THEN list[j] ELSE list[j + 1]
        BY <1>2
      <4> QED BY <3>2, <4>1, <4>2
    <3> QED BY <3>1, <3>2
  <2>8. x \in Seq(Delta) /\ Len(x) = len - 1
    BY <1>2, <2>6
  <2> QED BY <2>7, <2>8, ZenonT(30) DEF x, e
<1> QED BY <1>3, <1>4

LEMMA DelSums ==
  ASSUME TimerInv, NEW d, Sums(list, d), NEW i \in 1..Len(list),
         list' = Deltas!Deleted(i)
  PROVE  /\ TimerInv'
         /\ Sums(list', [j \in 0..(Len(list) - 1) |-> IF j < i THEN d[j] ELSE d[j + 1]])
<1> DEFINE len == Len(list)
           D == [j \in 0..(len - 1) |-> IF j < i THEN d[j] ELSE d[j + 1]]
<1>1. /\ len \in Nat /\ d[0] = 0 /\ i \in Int /\ i >= 1 /\ i <= len
      /\ \A j \in 0..len : d[j] \in Int
      /\ \A j \in 1..len : /\ list[j].expires \in Nat
                           /\ d[j] = d[j - 1] + list[j].expires
  BY DeltaFields DEF Sums, Partial, TimerInv
<1>2. /\ list' \in Seq(Delta) /\ Len(list') = len - 1
      /\ \A j \in 1..(len - 1) :
           /\ list'[j].proc = IF j < i THEN list[j].proc ELSE list[j + 1].proc
           /\ list'[j].expires =
                IF j < i THEN list[j].expires
                ELSE IF j = i THEN list[i + 1].expires + list[i].expires
                ELSE list[j + 1].expires
  <2>1. list \in Seq(Delta)
    BY DEF TimerInv
  <2> QED BY <2>1, DeletedFields
<1>3. ASSUME NEW j \in 1..(len - 1), NEW m \in 1..(len - 1), list'[j].proc = list'[m].proc
      PROVE  j = m
  <2> DEFINE a == IF j < i THEN j ELSE j + 1
             b == IF m < i THEN m ELSE m + 1
  <2>1. a \in 1..len /\ b \in 1..len
    BY <1>1
  <2>2. list'[j].proc = list[a].proc /\ list'[m].proc = list[b].proc
    BY <1>2
  <2>3. a = b
    <3> HIDE DEF a, b
    <3> QED BY <1>3, <2>1, <2>2 DEF TimerInv
  <2> QED BY <1>1, <2>3
<1>4. ASSUME list' # <<>> PROVE list'[1].expires > 0
  <2>1. 1 \in 1..(len - 1) /\ list # <<>> /\ 2 \in 1..len /\ 1 \in 1..len
    BY <1>1, <1>2, <1>4
  <2>2. list[1].expires > 0 /\ list[1].expires \in Nat /\ list[2].expires \in Nat
    BY <1>1, <2>1 DEF TimerInv
  <2>3. CASE i = 1
    <3>1. list'[1].expires = list[2].expires + list[1].expires
      BY <1>2, <2>1, <2>3
    <3> QED BY <2>2, <3>1
  <2>4. CASE i # 1
    <3>1. list'[1].expires = list[1].expires
      BY <1>1, <1>2, <2>1, <2>4
    <3> QED BY <2>2, <3>1
  <2> QED BY <2>3, <2>4
<1>5. TimerInv'
  BY <1>2, <1>3, <1>4 DEF TimerInv, Delta
<1>6. D \in [0..(len - 1) -> Int] /\ D[0] = 0
  <2>1. \A j \in 0..(len - 1) : j \in 0..len /\ j + 1 \in 0..len
    BY <1>1
  <2>2. 0 \in 0..(len - 1) /\ 0 < i
    BY <1>1
  <2> QED BY <1>1, <2>1, <2>2
<1>7. ASSUME NEW j \in 1..(len - 1)
      PROVE  D[j] = D[j - 1] + list'[j].expires
  <2>0. /\ j \in 0..(len - 1) /\ j - 1 \in 0..(len - 1) /\ j \in 1..len /\ j + 1 \in 1..len
        /\ j - 1 + 1 = j /\ j + 1 - 1 = j /\ j \in Int
    BY <1>1
  <2>1. D[j] = (IF j < i THEN d[j] ELSE d[j + 1])
        /\ D[j - 1] = (IF j - 1 < i THEN d[j - 1] ELSE d[j - 1 + 1])
    BY <2>0
  <2>2. /\ d[j] = d[j - 1] + list[j].expires
        /\ d[j + 1] = d[j + 1 - 1] + list[j + 1].expires
        /\ d[j - 1] \in Int /\ d[j] \in Int /\ d[j + 1] \in Int
        /\ list[j].expires \in Int /\ list[j + 1].expires \in Int
    <3>1. j - 1 \in 0..len /\ j \in 0..len /\ j + 1 \in 0..len
      BY <1>1
    <3> HIDE DEF D
    <3> QED BY <1>1, <2>0, <3>1
  <2> HIDE DEF D
  <2>3. CASE j < i
    <3>1. j - 1 < i /\ list'[j].expires = list[j].expires
      BY <1>1, <1>2, <2>0, <2>3
    <3> QED BY <2>1, <2>2, <2>3, <3>1
  <2>4. CASE j = i
    <3>1. /\ list'[j].expires = list[j + 1].expires + list[j].expires
          /\ j - 1 < i /\ ~(j < i)
      BY <1>2, <2>0, <2>4
    <3> QED BY <2>0, <2>1, <2>2, <3>1
  <2>5. CASE j > i
    <3>1. ~(j < i) /\ ~(j - 1 < i) /\ j # i
      BY <1>1, <2>0, <2>5
    <3>2. list'[j].expires = list[j + 1].expires
      BY <1>2, <3>1
    <3> QED BY <2>0, <2>1, <2>2, <3>1, <3>2
  <2> QED BY <1>1, <2>0, <2>3, <2>4, <2>5
<1>8. Sums(list', D)
  <2> HIDE DEF D
  <2> QED BY <1>2, <1>6, <1>7 DEF Sums, Partial
<1> QED BY <1>5, <1>8

LEMMA DelSimulated ==
  ASSUME TimerInv, NEW p \in Sleeper, Deltas!Del(p)
  PROVE  TimerInv' /\ Deltas!Abs!Stop(p)
<1>1. list \in Seq(Delta) /\ DOMAIN list = 1..Len(list) /\ Len(list) \in Nat
  BY DeltaFields DEF TimerInv
<1>2. PICK d : Sums(list, d)
  BY <1>1, SumsExist
<1> DEFINE ts == Deltas!Expiries(list)
           us == Deltas!Expiries(list')
<1>3. \A j \in 1..Len(list) : ts[j] = [proc |-> list[j].proc, left |-> d[j]]
  BY <1>1, <1>2, DueList
<1>4. ts \in Seq(AbsTimer) /\ Len(ts) = Len(list) /\ DOMAIN ts = 1..Len(list)
  <2>1. ts \in Seq(AbsTimer) /\ Len(ts) = Len(list)
    BY <1>1, <1>2, DueList
  <2> HIDE DEF ts
  <2> QED BY <2>1, LenProperties
<1>5. Deltas!Abs!Owners(ts) = Deltas!Listed
  <2> HIDE DEF ts
  <2> QED BY <1>1, <1>3, <1>4 DEF Deltas!Listed, Deltas!Abs!Owners
<1>6. CASE p \notin Deltas!Listed
  <2>1. list' = list /\ fired' = <<>>
    BY <1>6 DEF Deltas!Del
  <2>2. us = ts
    BY <2>1
  <2>3. Deltas!Abs!DelTimer(ts, p) = ts
    BY <1>5, <1>6 DEF Deltas!Abs!DelTimer
  <2>4. TimerInv'
    BY <2>1 DEF TimerInv, Delta
  <2> QED BY <2>1, <2>2, <2>3, <2>4 DEF Deltas!Abs!Stop, Deltas!Due
<1>7. CASE p \in Deltas!Listed
  <2>1. fired' = <<>> /\ \E i \in DOMAIN list : list[i].proc = p /\ list' = Deltas!Deleted(i)
    BY <1>7 DEF Deltas!Del
  <2>2. PICK i \in 1..Len(list) : list[i].proc = p /\ list' = Deltas!Deleted(i)
    BY <1>1, <2>1
  <2> DEFINE D == [j \in 0..(Len(list) - 1) |-> IF j < i THEN d[j] ELSE d[j + 1]]
  <2>3. TimerInv' /\ Sums(list', D)
    BY <1>2, <2>2, DelSums, Zenon
  <2>4. /\ Len(list') = Len(list) - 1
        /\ \A j \in 1..(Len(list) - 1) :
             list'[j].proc = IF j < i THEN list[j].proc ELSE list[j + 1].proc
    BY <1>1, <2>2, DeletedFields, Zenon
  <2>5. /\ us \in Seq(AbsTimer) /\ Len(us) = Len(list) - 1
        /\ \A j \in 1..(Len(list) - 1) : us[j] = [proc |-> list'[j].proc, left |-> D[j]]
    <3>1. list' \in Seq(Delta)
      BY <2>3 DEF TimerInv, Delta
    <3> HIDE DEF D
    <3> QED BY <2>3, <2>4, <3>1, DueList
  <2>6. \A j \in 1..(Len(list) - 1) :
          /\ D[j] = IF j < i THEN d[j] ELSE d[j + 1]
          /\ j < i => j \in 1..Len(list)
          /\ j + 1 \in 1..Len(list)
    BY <1>1
  <2> HIDE DEF ts, us, D
  <2>7. i = CHOOSE j \in DOMAIN ts : ts[j].proc = p
    <3>1. \A j \in DOMAIN ts : ts[j].proc = p <=> j = i
      BY <1>3, <1>4, <2>2 DEF TimerInv
    <3>2. i \in DOMAIN ts
      BY <1>4, <2>2
    <3> QED BY <3>1, <3>2
  <2>8. /\ RemoveAt(ts, i) \in Seq(AbsTimer) /\ Len(RemoveAt(ts, i)) = Len(list) - 1
        /\ \A j \in 1..(Len(list) - 1) :
             RemoveAt(ts, i)[j] = IF j < i THEN ts[j] ELSE ts[j + 1]
    <3>1. i \in 1..Len(ts)
      <4>1. i \in 1..Len(list)
        BY <2>2, Zenon
      <4> QED BY <1>4, <4>1
    <3>2. /\ RemoveAt(ts, i) \in Seq(AbsTimer) /\ Len(RemoveAt(ts, i)) = Len(ts) - 1
          /\ \A j \in 1..(Len(ts) - 1) :
               RemoveAt(ts, i)[j] = IF j < i THEN ts[j] ELSE ts[j + 1]
      BY <1>4, <3>1, Removed, Zenon
    <3> QED BY <1>4, <3>2
  <2>9. us = RemoveAt(ts, i)
    <3>1. ASSUME NEW j \in 1..(Len(list) - 1) PROVE us[j] = RemoveAt(ts, i)[j]
      <4>1. us[j] = [proc |-> list'[j].proc, left |-> D[j]]
        BY <2>5
      <4>2. RemoveAt(ts, i)[j] = IF j < i THEN ts[j] ELSE ts[j + 1]
        BY <2>8
      <4>3. CASE j < i
        <5>1. list'[j].proc = list[j].proc /\ D[j] = d[j] /\ j \in 1..Len(list)
          BY <2>4, <2>6, <4>3
        <5> QED BY <1>3, <4>1, <4>2, <4>3, <5>1, Zenon
      <4>4. CASE ~(j < i)
        <5>1. list'[j].proc = list[j + 1].proc /\ D[j] = d[j + 1] /\ j + 1 \in 1..Len(list)
          BY <2>4, <2>6, <4>4
        <5> QED BY <1>3, <4>1, <4>2, <4>4, <5>1, Zenon
      <4> QED BY <4>3, <4>4
    <3> QED BY <2>5, <2>8, <3>1, SeqEqual
  <2>10. us = Deltas!Abs!DelTimer(ts, p)
    <3>1. Deltas!Abs!DelTimer(ts, p)
            = Deltas!Abs!RemoveAt(ts, CHOOSE j \in DOMAIN ts : ts[j].proc = p)
      <4>1. p \in Deltas!Abs!Owners(ts)
        BY <1>5, <1>7 DEF ts
      <4> QED BY <4>1 DEF Deltas!Abs!DelTimer
    <3>2. Deltas!Abs!RemoveAt(ts, i) = RemoveAt(ts, i)
      BY DEF Deltas!Abs!RemoveAt, RemoveAt
    <3> QED BY <2>7, <2>9, <3>1, <3>2
  <2> QED BY <2>1, <2>3, <2>10 DEF Deltas!Abs!Stop, Deltas!Due, ts, us
<1> QED BY <1>6, <1>7

(* run_timer_list: the first timer loses a tick.                           *)
Ticks(l) ==
  /\ l \in Seq(Delta) /\ Len(l) = Len(list)
  /\ l[1].expires = list[1].expires - 1 /\ l[1].proc = list[1].proc
  /\ \A i \in 1..Len(list) : i # 1 => l[i] = list[i]

LEMMA FirstTicks ==
  ASSUME TimerInv, list # <<>>
  PROVE  Ticks([list EXCEPT ![1].expires = @ - 1])
<1> DEFINE r == [list[1] EXCEPT !.expires = @ - 1]
<1>1. Len(list) \in Nat /\ 1 \in 1..Len(list) /\ DOMAIN list = 1..Len(list)
  BY DeltaFields DEF TimerInv
<1>2. list[1] \in Delta /\ list[1].expires - 1 \in Nat
  <2>1. list[1] \in Delta /\ list[1].expires \in Nat /\ list[1].expires > 0
    BY <1>1, DeltaFields, ElementOfSeq DEF TimerInv
  <2> QED BY <2>1
<1>3. r \in Delta /\ r.expires = list[1].expires - 1 /\ r.proc = list[1].proc
  BY <1>2 DEF Delta
<1>4. [list EXCEPT ![1].expires = @ - 1] = [list EXCEPT ![1] = r]
  OBVIOUS
<1> HIDE DEF r
<1>5. Ticks([list EXCEPT ![1] = r])
  <2>1. [list EXCEPT ![1] = r] \in Seq(Delta) /\ Len([list EXCEPT ![1] = r]) = Len(list)
    BY <1>1, <1>3, ExceptSeq DEF TimerInv
  <2>2. \A i \in 1..Len(list) : [list EXCEPT ![1] = r][i] = IF i = 1 THEN r ELSE list[i]
    BY <1>1
  <2> QED BY <1>1, <1>3, <2>1, <2>2 DEF Ticks
<1> QED BY <1>4, <1>5

(* What is left after n timers expired.                                    *)
After(l, n) == SubSeq(l, n + 1, Len(l))

LEMMA RunSums ==
  ASSUME TimerInv, NEW d, Sums(list, d), NEW n \in 0..Len(list), list # <<>>,
         NEW l, Ticks(l),
         \A i \in 1..n : l[i].expires = 0, n < Len(list) => l[n + 1].expires # 0,
         list' = After(l, n)
  PROVE  /\ TimerInv' /\ Len(list') = Len(list) - n
         /\ Sums(list', [j \in 0..(Len(list) - n) |-> IF j = 0 THEN 0 ELSE d[n + j] - 1])
         /\ \A i \in 1..Len(list) : l[i].proc = list[i].proc
         /\ \A j \in 1..(Len(list) - n) : list'[j].proc = list[n + j].proc
         /\ \A i \in 1..n : d[i] = 1
         /\ \A i \in 1..Len(list) : i > n => d[i] > 1
<1> DEFINE len == Len(list)
           D == [j \in 0..(len - n) |-> IF j = 0 THEN 0 ELSE d[n + j] - 1]
<1>1. /\ len \in Nat /\ d[0] = 0 /\ n \in Int /\ n >= 0 /\ n <= len /\ DOMAIN list = 1..len
      /\ 1 \in 1..len
      /\ \A j \in 0..len : d[j] \in Int
      /\ \A j \in 1..len : /\ list[j].expires \in Nat /\ list[j] \in Delta
                           /\ d[j] = d[j - 1] + list[j].expires
  <2> HIDE DEF D
  <2>1. len \in Nat /\ DOMAIN list = 1..len
        /\ \A j \in 1..len : list[j].expires \in Nat /\ list[j] \in Delta
    BY DeltaFields, ElementOfSeq DEF TimerInv
  <2>2. d[0] = 0 /\ d \in [0..len -> Int] /\ \A j \in 1..len : d[j] = d[j - 1] + list[j].expires
    BY DEF Sums, Partial
  <2>3. n \in Int /\ n >= 0 /\ n <= len /\ 1 \in 1..len
    BY <2>1
  <2> QED BY <2>1, <2>2, <2>3
<1>2. list[1].expires > 0
  BY DEF TimerInv
<1>3. /\ l \in Seq(Delta) /\ Len(l) = len
      /\ l[1].expires = list[1].expires - 1 /\ l[1].proc = list[1].proc
      /\ \A i \in 1..len : i # 1 => l[i] = list[i]
  BY DEF Ticks
<1>0. len \in Nat /\ n \in Nat /\ n <= len
  BY <1>1
<1> HIDE DEF D
<1>4. \A i \in 1..len : l[i].proc = list[i].proc /\ l[i].expires \in Nat /\ l[i] \in Delta
  BY <1>1, <1>2, <1>3, DeltaFields, ElementOfSeq
<1>5. /\ list' \in Seq(Delta) /\ Len(list') = len - n
      /\ \A j \in 1..(len - n) : list'[j] = l[n + j] /\ n + j \in 1..len
  <2>1. \A j \in 1..(len - n) : n + j \in 1..len
    BY <1>1
  <2>2. /\ list' \in Seq(Delta) /\ Len(list') = len - n
        /\ \A j \in 1..(len - n) : list'[j] = l[n + j]
    <3> DEFINE m == n + 1
               q == SubSeq(l, m, len)
    <3>1. m \in Int /\ \A i \in m..len : l[i] \in Delta
      BY <1>1, <1>4
    <3>2. list' = q
      BY <1>3 DEF After
    <3>3. /\ q \in Seq(Delta) /\ Len(q) = IF m <= len THEN len - m + 1 ELSE 0
          /\ \A j \in 1..(len - m + 1) : q[j] = l[m + j - 1]
      <4> HIDE DEF m
      <4> QED BY <1>1, <3>1, SubSeqProperties
    <3>4. (IF m <= len THEN len - m + 1 ELSE 0) = len - n /\ len - m + 1 = len - n
          /\ \A j \in 1..(len - n) : m + j - 1 = n + j
      <4> HIDE DEF len, q
      <4> QED BY <1>0
    <3> HIDE DEF m, q
    <3> QED BY <3>2, <3>3, <3>4
  <2> QED BY <2>1, <2>2
<1>6. \A i \in 1..n : d[i] = 1
  <2> DEFINE T == {i \in 1..n : d[i] # 1}
  <2> SUFFICES ASSUME T # {} PROVE FALSE
    OBVIOUS
  <2>1. PICK m \in T : \A y \in T : m <= y
    <3>1. T \subseteq Nat /\ T # {}
      BY <1>1
    <3> HIDE DEF T
    <3> QED BY <3>1, LeastNumber
  <2>2. m \in 1..n /\ m \in 1..len /\ d[m] # 1 /\ l[m].expires = 0
    BY <1>1
  <2>3. d[m] = d[m - 1] + list[m].expires
    BY <1>1, <2>2
  <2>4. CASE m = 1
    <3>1. d[m - 1] = 0 /\ list[m].expires = 1
      BY <1>1, <1>3, <2>2, <2>4
    <3> QED BY <2>2, <2>3, <3>1
  <2>5. CASE m # 1
    <3>1. m - 1 \in 1..n /\ m - 1 \notin T
      BY <1>1, <2>1, <2>2, <2>5
    <3>2. d[m - 1] = 1 /\ list[m].expires = 0
      BY <1>3, <2>2, <2>5, <3>1
    <3> QED BY <2>2, <2>3, <3>2
  <2> QED BY <2>4, <2>5
<1>7. ASSUME n < len
      PROVE  /\ l[n + 1].expires > 0 /\ d[n + 1] = l[n + 1].expires + 1
  <2>1. n + 1 \in 1..len /\ n \in 0..len /\ n + 1 - 1 = n
    BY <1>1, <1>7
  <2>2. l[n + 1].expires \in Nat /\ l[n + 1].expires # 0
    BY <1>4, <1>7, <2>1
  <2>3. d[n + 1] = d[n] + list[n + 1].expires /\ d[n] \in Int /\ list[n + 1].expires \in Int
    BY <1>1, <2>1
  <2>4. CASE n = 0
    <3>1. d[n] = 0 /\ list[n + 1].expires = l[n + 1].expires + 1
      BY <1>1, <1>3, <2>4
    <3> QED BY <2>2, <2>3, <3>1
  <2>5. CASE n # 0
    <3>1. n \in 1..n /\ n + 1 # 1
      BY <1>1, <2>5
    <3>2. d[n] = 1 /\ l[n + 1] = list[n + 1]
      BY <1>3, <1>6, <2>1, <3>1
    <3> QED BY <2>2, <2>3, <3>2
  <2> QED BY <2>4, <2>5
<1>8. ASSUME NEW i \in 1..len, i > n PROVE d[i] > 1
  <2>1. n < len /\ n + 1 \in 0..len /\ n + 1 \in 1..len /\ i \in 0..len /\ n + 1 <= i
    BY <1>1, <1>8
  <2>2. d[n + 1] <= d[i]
    BY <2>1, SumsRise DEF TimerInv
  <2>3. d[n + 1] > 1
    BY <1>4, <1>7, <2>1
  <2> QED BY <1>1, <2>1, <2>2, <2>3
<1>9. ASSUME NEW j \in 1..(len - n), NEW m \in 1..(len - n), list'[j].proc = list'[m].proc
      PROVE  j = m
  <2>1. list[n + j].proc = list[n + m].proc /\ n + j \in 1..len /\ n + m \in 1..len
    BY <1>4, <1>5, <1>9
  <2>2. n + j = n + m
    BY <2>1 DEF TimerInv
  <2> QED BY <1>1, <2>2
<1>10. ASSUME list' # <<>> PROVE list'[1].expires > 0
  <2>1. len - n # 0
    BY <1>5, <1>10, EmptySeq
  <2>2. 1 \in 1..(len - n) /\ n < len
    <3> HIDE DEF len
    <3> QED BY <1>0, <2>1
  <2> QED BY <1>5, <1>7, <2>2
<1>11. TimerInv'
  BY <1>5, <1>9, <1>10 DEF TimerInv, Delta
<1>12. D \in [0..(len - n) -> Int] /\ D[0] = 0
  <2>1. \A j \in 0..(len - n) : n + j \in 0..len /\ 0 \in 0..(len - n)
    BY <1>1
  <2>2. 0 \in 0..(len - n)
    BY <1>1
  <2> QED BY <1>1, <2>1, <2>2 DEF D
<1>13. ASSUME NEW j \in 1..(len - n)
       PROVE  D[j] = D[j - 1] + list'[j].expires
  <2>1. /\ j \in 0..(len - n) /\ j - 1 \in 0..(len - n) /\ j # 0 /\ n + j \in 1..len
        /\ n + (j - 1) = n + j - 1 /\ j \in Int
    BY <1>1
  <2>2. D[j] = d[n + j] - 1 /\ D[j - 1] = IF j - 1 = 0 THEN 0 ELSE d[n + j - 1] - 1
    BY <2>1 DEF D
  <2>3. /\ d[n + j] = d[n + j - 1] + list[n + j].expires
        /\ d[n + j - 1] \in Int /\ list[n + j].expires \in Int
    <3>1. n + j - 1 \in 0..len
      BY <1>1, <2>1
    <3> QED BY <1>1, <2>1, <3>1
  <2>4. list'[j].expires = l[n + j].expires
    BY <1>5
  <2>5. CASE j = 1
    <3>1. n < len /\ n + j = n + 1
      BY <1>1, <2>1, <2>5
    <3>2. d[n + j] = l[n + j].expires + 1 /\ l[n + j].expires \in Nat
      BY <1>4, <1>7, <2>1, <3>1
    <3>3. D[j - 1] = 0
      BY <2>2, <2>5
    <3>4. D[j] = l[n + j].expires
      BY <2>2, <3>2
    <3> QED BY <2>4, <3>2, <3>3, <3>4
  <2>6. CASE j # 1
    <3>1. n + j # 1 /\ j - 1 # 0
      BY <1>1, <2>1, <2>6
    <3>2. l[n + j] = list[n + j]
      BY <1>3, <2>1, <3>1
    <3>3. D[j] = d[n + j] - 1 /\ D[j - 1] = d[n + j - 1] - 1
      BY <2>2, <3>1
    <3>4. list'[j].expires = list[n + j].expires
      BY <2>4, <3>2
    <3> QED BY <2>3, <3>3, <3>4
  <2> QED BY <2>5, <2>6
<1>14. Sums(list', D)
  BY <1>5, <1>12, <1>13 DEF Sums, Partial
<1>15. \A j \in 1..(len - n) : list'[j].proc = list[n + j].proc
  BY <1>4, <1>5
<1> QED BY <1>4, <1>5, <1>6, <1>8, <1>11, <1>14, <1>15 DEF D

LEMMA RunSimulated ==
  ASSUME TimerInv, Deltas!Run
  PROVE  TimerInv' /\ Deltas!Abs!Run
<1>1. list \in Seq(Delta) /\ DOMAIN list = 1..Len(list) /\ Len(list) \in Nat
  BY DeltaFields DEF TimerInv
<1>2. PICK d : Sums(list, d)
  BY <1>1, SumsExist
<1> DEFINE ts == Deltas!Expiries(list)
           us == Deltas!Expiries(list')
           x  == Deltas!Abs!Expiring(ts)
<1>3. /\ ts \in Seq(AbsTimer) /\ Len(ts) = Len(list) /\ DOMAIN ts = 1..Len(list)
      /\ \A j \in 1..Len(list) : ts[j] = [proc |-> list[j].proc, left |-> d[j]]
  <2>1. /\ ts \in Seq(AbsTimer) /\ Len(ts) = Len(list)
        /\ \A j \in 1..Len(list) : ts[j] = [proc |-> list[j].proc, left |-> d[j]]
    BY <1>1, <1>2, DueList
  <2> HIDE DEF ts
  <2> QED BY <2>1, LenProperties
<1>4. x = Cardinality({i \in 1..Len(list) : d[i] = 1})
  <2>1. {i \in DOMAIN ts : ts[i].left = 1} = {i \in 1..Len(list) : d[i] = 1}
    <3> HIDE DEF ts
    <3> QED BY <1>3
  <2>2. x = Cardinality({i \in DOMAIN ts : ts[i].left = 1})
    BY DEF Deltas!Abs!Expiring, Deltas!Abs!Cardinality, Cardinality
  <2> HIDE DEF ts, x
  <2> QED BY <2>1, <2>2
<1>5. CASE list = <<>>
  <2>1. list' = list /\ fired' = <<>> /\ Len(list) = 0
    BY <1>5 DEF Deltas!Run
  <2>2. x = 0
    <3>1. {i \in 1..Len(list) : d[i] = 1} = {}
      BY <2>1
    <3> HIDE DEF x
    <3> QED BY <1>4, <3>1, FS_EmptySet
  <2>3. TimerInv' /\ us = ts
    BY <2>1 DEF TimerInv, Delta
  <2>4. ts = <<>> /\ Len(ts) = 0
    <3> HIDE DEF ts
    <3> QED BY <1>3, <2>1
  <2>5. us = Deltas!Abs!RunTimers(ts)
    <3>1. Deltas!Abs!RunTimers(ts) = [i \in 1..(Len(ts) - x) |-> [ts[x + i] EXCEPT !.left = @ - 1]]
      BY DEF Deltas!Abs!RunTimers
    <3> HIDE DEF ts, us, x
    <3>2. 1..(Len(ts) - x) = {}
      BY <2>2, <2>4
    <3>3. Deltas!Abs!RunTimers(ts) = [i \in {} |-> [ts[x + i] EXCEPT !.left = @ - 1]]
      BY <3>1, <3>2
    <3>4. [i \in {} |-> [ts[x + i] EXCEPT !.left = @ - 1]] = <<>>
      OBVIOUS
    <3> QED BY <2>3, <2>4, <3>3, <3>4
  <2>6. fired' = [i \in 1..x |-> ts[i].proc]
    <3> HIDE DEF ts, x
    <3>1. 1..x = {}
      BY <2>2
    <3> QED BY <2>1, <3>1
  <2> QED BY <2>3, <2>5, <2>6, Zenon DEF Deltas!Abs!Run, Deltas!Due
<1>6. CASE list # <<>>
  <2> DEFINE l == [list EXCEPT ![1].expires = @ - 1]
  <2>1. Len(l) = Len(list)
    <3>1. DOMAIN l = DOMAIN list
      OBVIOUS
    <3> HIDE DEF l
    <3>2. DOMAIN l = 1..Len(list)
      BY <1>1, <3>1
    <3> QED BY <1>1, <3>2
  <2>2. PICK n \in 0..Len(l) :
          /\ \A i \in 1..n : l[i].expires = 0
          /\ n < Len(l) => l[n + 1].expires # 0
          /\ list'  = SubSeq(l, n + 1, Len(l))
          /\ fired' = [i \in 1..n |-> l[i].proc]
    BY <1>6 DEF Deltas!Run
  <2> DEFINE D == [j \in 0..(Len(list) - n) |-> IF j = 0 THEN 0 ELSE d[n + j] - 1]
  <2>3. n \in 0..Len(list) /\ (n < Len(list) => l[n + 1].expires # 0)
    <3> HIDE DEF l
    <3> QED BY <2>1, <2>2
  <2>4. /\ TimerInv' /\ Len(list') = Len(list) - n /\ Sums(list', D)
        /\ \A i \in 1..Len(list) : l[i].proc = list[i].proc
        /\ \A j \in 1..(Len(list) - n) : list'[j].proc = list[n + j].proc
        /\ \A i \in 1..n : d[i] = 1
        /\ \A i \in 1..Len(list) : i > n => d[i] > 1
    <3>1. Ticks(l)
      BY <1>6, FirstTicks
    <3>2. /\ \A i \in 1..n : l[i].expires = 0
          /\ list' = After(l, n)
      BY <2>2 DEF After
    <3> HIDE DEF l, ts, us, x
    <3> QED BY <1>2, <1>6, <2>3, <3>1, <3>2, RunSums
  <2> HIDE DEF l
  <2>5. x = n
    <3>1. {i \in 1..Len(list) : d[i] = 1} = 1..n
      <4>1. n \in Int /\ n >= 0 /\ n <= Len(list)
        BY <1>1, <2>3
      <4>2. ASSUME NEW i \in 1..Len(list) PROVE d[i] = 1 <=> i \in 1..n
        <5>1. i \in 1..n \/ i > n
          BY <4>1
        <5>2. i > n => d[i] # 1
          BY <2>4
        <5>3. i > n => i \notin 1..n
          BY <4>1
        <5> QED BY <2>4, <5>1, <5>2, <5>3
      <4>3. 1..n \subseteq 1..Len(list)
        BY <1>1, <4>1
      <4> QED BY <4>2, <4>3
    <3>2. n \in Nat
      BY <1>1, <2>3
    <3>3. Cardinality(1..n) = n
      BY <3>2, FS_Interval
    <3> HIDE DEF x
    <3> QED BY <1>4, <3>1, <3>3
  <2>6. /\ us \in Seq(AbsTimer) /\ Len(us) = Len(list) - n /\ DOMAIN us = 1..(Len(list) - n)
        /\ \A j \in 1..(Len(list) - n) : us[j] = [proc |-> list'[j].proc, left |-> D[j]]
    <3>1. list' \in Seq(Delta) /\ Sums(list', D) /\ Len(list') = Len(list) - n
      BY <2>4 DEF TimerInv, Delta
    <3> HIDE DEF D, l
    <3>0. /\ us \in Seq(AbsTimer) /\ Len(us) = Len(list')
          /\ \A j \in 1..Len(list') : us[j] = [proc |-> list'[j].proc, left |-> D[j]]
      BY <3>1, DueList
    <3>2. /\ us \in Seq(AbsTimer) /\ Len(us) = Len(list) - n
          /\ \A j \in 1..(Len(list) - n) : us[j] = [proc |-> list'[j].proc, left |-> D[j]]
      BY <3>0, <3>1
    <3> HIDE DEF us
    <3> QED BY <3>2, LenProperties
  <2>7. us = Deltas!Abs!RunTimers(ts)
    <3>1. Deltas!Abs!RunTimers(ts) = [i \in 1..(Len(ts) - x) |-> [ts[x + i] EXCEPT !.left = @ - 1]]
      BY DEF Deltas!Abs!RunTimers
    <3> HIDE DEF ts, us, x
    <3>2. Deltas!Abs!RunTimers(ts) = [j \in 1..(Len(list) - n) |-> [ts[n + j] EXCEPT !.left = @ - 1]]
      BY <1>3, <2>5, <3>1
    <3>3. ASSUME NEW j \in 1..(Len(list) - n)
          PROVE  us[j] = [ts[n + j] EXCEPT !.left = @ - 1]
      <4>1. n + j \in 1..Len(list) /\ j # 0 /\ j \in 0..(Len(list) - n)
        BY <1>1, <2>3
      <4>2. D[j] = d[n + j] - 1
        BY <4>1
      <4>3. ts[n + j] = [proc |-> list[n + j].proc, left |-> d[n + j]]
        BY <1>3, <4>1
      <4>4. us[j] = [proc |-> list[n + j].proc, left |-> d[n + j] - 1]
        <5> HIDE DEF D
        <5> QED BY <2>4, <2>6, <4>2
      <4> QED BY <4>3, <4>4
    <3>4. us = [j \in 1..(Len(list) - n) |-> us[j]]
      BY <2>6, LenProperties
    <3> QED BY <3>2, <3>3, <3>4
  <2>8. fired' = [i \in 1..x |-> ts[i].proc]
    <3> HIDE DEF ts, x
    <3>1. \A i \in 1..n : i \in 1..Len(list)
      BY <1>1, <2>3
    <3>2. ASSUME NEW i \in 1..n PROVE l[i].proc = ts[i].proc
      <4>1. l[i].proc = list[i].proc
        BY <2>4, <3>1
      <4>2. ts[i] = [proc |-> list[i].proc, left |-> d[i]]
        BY <1>3, <3>1
      <4> QED BY <4>1, <4>2
    <3> QED BY <2>2, <2>5, <3>2
  <2> QED BY <2>4, <2>7, <2>8 DEF Deltas!Abs!Run, Deltas!Due
<1> QED BY <1>5, <1>6

(* The timers of sched.c, each with the ticks after the one before,        *)
(* implement timers that each know their expiry, for any number of         *)
(* sleepers and any length of sleep: each start, stop and tick of the list *)
(* is one of AbsTimers, which wakes the same processes in the same order.  *)
THEOREM TimersImplemented == AllSpec => ImplementsTimers
<1>1. AllInit => TimerInv /\ Deltas!Abs!Init
  <2> SUFFICES ASSUME AllInit PROVE TimerInv /\ Deltas!Abs!Init
    OBVIOUS
  <2>1. list = <<>> /\ fired = <<>>
    BY DEF AllInit, Deltas!Init
  <2>2. TimerInv
    BY <2>1 DEF TimerInv
  <2>3. Deltas!Expiries(list) = <<>>
    <3>1. PICK d : Sums(list, d)
      BY <2>2, SumsExist DEF TimerInv
    <3>2. /\ Deltas!Expiries(list) \in Seq(AbsTimer) /\ Len(Deltas!Expiries(list)) = Len(list)
      BY <2>2, <3>1, DueList DEF TimerInv
    <3>3. Len(list) = 0
      BY <2>1
    <3> QED BY <3>2, <3>3, EmptySeq
  <2> QED BY <2>1, <2>2, <2>3 DEF Deltas!Abs!Init, Deltas!Due
<1>2. TimerInv /\ [AllNext]_<<system, vars, deltas, stride, walk, keyboard>>
      => TimerInv' /\ [Deltas!Abs!Next]_<<Deltas!Due, fired>>
  <2> SUFFICES ASSUME TimerInv, [AllNext]_<<system, vars, deltas, stride, walk, keyboard>>
               PROVE  TimerInv' /\ [Deltas!Abs!Next]_<<Deltas!Due, fired>>
    OBVIOUS
  <2>1. CASE Deltas!Next
    <3>1. ASSUME NEW p \in Sleeper, NEW n \in 1..MaxTicks, Deltas!Add(p, n)
          PROVE  TimerInv' /\ Deltas!Abs!Next
      BY <3>1, AddSimulated DEF Deltas!Abs!Next
    <3>2. ASSUME NEW p \in Sleeper, Deltas!Del(p)
          PROVE  TimerInv' /\ Deltas!Abs!Next
      BY <3>2, DelSimulated DEF Deltas!Abs!Next
    <3>3. ASSUME Deltas!Run PROVE TimerInv' /\ Deltas!Abs!Next
      BY <3>3, RunSimulated DEF Deltas!Abs!Next
    <3> QED BY <2>1, <3>1, <3>2, <3>3 DEF Deltas!Next
  <2>2. CASE UNCHANGED deltas
    <3>1. list' = list /\ fired' = fired
      BY <2>2 DEF deltas
    <3>2. TimerInv'
      BY <3>1 DEF TimerInv, Delta
    <3>3. Deltas!Due' = Deltas!Due
      BY <3>1 DEF Deltas!Due
    <3> QED BY <3>1, <3>2, <3>3
  <2>3. AllNext => Deltas!Next \/ UNCHANGED deltas
    BY DEF AllNext
  <2> QED BY <2>1, <2>2, <2>3
<1> QED BY <1>1, <1>2, PTL DEF AllSpec, ImplementsTimers, Deltas!ImplementsTimers, Deltas!Abs!Spec

-----------------------------------------------------------------------------
WState == {"NONE", "RUNNABLE", "SLEEPING", "ZOMBIE"}

Once(l) == \A i, j \in 1..Len(l) : l[i] = l[j] => i = j

(* The list l has the processes that are there by s.                       *)
Lists(l, s) ==
  /\ l \in Seq(Proc \ {Idle}) /\ Once(l)
  /\ \A p \in Proc \ {Idle} : s[p] # "NONE" <=> \E i \in 1..Len(l) : l[i] = p

(* Going round from e, without e itself, j comes before b.                 *)
Passed(e, j, b) == IF e < b THEN e < j /\ j < b ELSE e < j \/ j < b

(* Going round from i, without i itself, j is met up to e.                 *)
Met(i, j, e) == IF i < e THEN i < j /\ j <= e ELSE i < j \/ j <= e

LEMMA OrderIs ==
  ASSUME NEW l \in Seq(Proc \ {Idle}), Once(l), NEW e \in 1..Len(l), l[e] = wcurrent
  PROVE  /\ Walk!Order(l) \in Seq(Proc \ {Idle}) /\ Len(Walk!Order(l)) = Len(l)
         /\ \A m \in 1..Len(l) :
              Walk!Order(l)[m] = IF m <= Len(l) - e THEN l[e + m] ELSE l[m - (Len(l) - e)]
<1> DEFINE len == Len(l)
           a == SubSeq(l, e + 1, len)
           b == SubSeq(l, 1, e)
<1>1. /\ len \in Nat /\ DOMAIN l = 1..len /\ e \in Int /\ e >= 1 /\ e <= len
      /\ \A i \in 1..len : l[i] \in Proc \ {Idle}
  BY LenProperties, ElementOfSeq
<1>2. wcurrent # Idle
  BY <1>1
<1>3. e = CHOOSE j \in DOMAIN l : l[j] = wcurrent
  <2>1. \A j \in DOMAIN l : l[j] = wcurrent <=> j = e
    BY <1>1 DEF Once
  <2> QED BY <1>1, <2>1
<1>4. Walk!Order(l) = a \o b
  BY <1>2, <1>3 DEF Walk!Order
<1>5. /\ a \in Seq(Proc \ {Idle}) /\ Len(a) = len - e
      /\ \A m \in 1..(len - e) : a[m] = l[e + m]
  <2> DEFINE f == e + 1
  <2>1. f \in Int /\ \A i \in f..len : l[i] \in Proc \ {Idle}
    BY <1>1
  <2>2. /\ SubSeq(l, f, len) \in Seq(Proc \ {Idle})
        /\ Len(SubSeq(l, f, len)) = IF f <= len THEN len - f + 1 ELSE 0
        /\ \A m \in 1..(len - f + 1) : SubSeq(l, f, len)[m] = l[f + m - 1]
    <3> HIDE DEF f
    <3> QED BY <1>1, <2>1, SubSeqProperties
  <2>3. (IF f <= len THEN len - f + 1 ELSE 0) = len - e /\ len - f + 1 = len - e
        /\ \A m \in 1..(len - e) : f + m - 1 = e + m
    <3> HIDE DEF len
    <3> QED BY <1>1
  <2> HIDE DEF len
  <2> QED BY <2>2, <2>3
<1>6. /\ b \in Seq(Proc \ {Idle}) /\ Len(b) = e
      /\ \A m \in 1..e : b[m] = l[m]
  <2>1. \A i \in 1..e : l[i] \in Proc \ {Idle}
    BY <1>1
  <2>2. /\ b \in Seq(Proc \ {Idle}) /\ Len(b) = IF 1 <= e THEN e - 1 + 1 ELSE 0
        /\ \A m \in 1..(e - 1 + 1) : b[m] = l[1 + m - 1]
    BY <1>1, <2>1, SubSeqProperties
  <2>3. (IF 1 <= e THEN e - 1 + 1 ELSE 0) = e /\ e - 1 + 1 = e
        /\ \A m \in 1..e : 1 + m - 1 = m
    BY <1>1
  <2> HIDE DEF b
  <2> QED BY <2>2, <2>3
<1>7. /\ a \o b \in Seq(Proc \ {Idle}) /\ Len(a \o b) = len
      /\ \A m \in 1..len : (a \o b)[m] = IF m <= len - e THEN a[m] ELSE b[m - (len - e)]
  <2> HIDE DEF a, b
  <2>1. /\ a \o b \in Seq(Proc \ {Idle}) /\ Len(a \o b) = Len(a) + Len(b)
        /\ \A m \in 1..(Len(a) + Len(b)) :
             (a \o b)[m] = IF m <= Len(a) THEN a[m] ELSE b[m - Len(a)]
    BY <1>5, <1>6, ConcatProperties
  <2>2. Len(a) + Len(b) = len
    BY <1>1, <1>5, <1>6
  <2> QED BY <1>5, <2>1, <2>2
<1>8. ASSUME NEW m \in 1..len
      PROVE  (a \o b)[m] = IF m <= len - e THEN l[e + m] ELSE l[m - (len - e)]
  <2> HIDE DEF a, b
  <2>1. m <= len - e => m \in 1..(len - e)
    BY <1>1
  <2>2. ~(m <= len - e) => m - (len - e) \in 1..e
    BY <1>1
  <2> QED BY <1>5, <1>6, <1>7, <2>1, <2>2
<1> QED BY <1>4, <1>7, <1>8

(* The first that is ready in a list.                                      *)
LEMMA FirstIs ==
  ASSUME NEW o \in Seq(Proc \ {Idle}), NEW s
  PROVE  \/ /\ Walk!First(o, s) = Idle
            /\ \A i \in 1..Len(o) : s[o[i]] # "RUNNABLE"
         \/ \E m \in 1..Len(o) : /\ Walk!First(o, s) = o[m] /\ s[o[m]] = "RUNNABLE"
                                 /\ \A i \in 1..(m - 1) : s[o[i]] # "RUNNABLE"
<1> DEFINE ready == {i \in DOMAIN o : s[o[i]] = "RUNNABLE"}
<1>1. DOMAIN o = 1..Len(o) /\ Len(o) \in Nat
  BY LenProperties
<1>2. CASE ready = {}
  <2>1. Walk!First(o, s) = Idle
    BY <1>2 DEF Walk!First
  <2> QED BY <1>1, <1>2, <2>1
<1>3. CASE ready # {}
  <2> DEFINE m == CHOOSE i \in ready : \A j \in ready : i <= j
  <2>1. Walk!First(o, s) = o[m]
    BY <1>3 DEF Walk!First
  <2>2. \E i \in ready : \A j \in ready : i <= j
    <3>1. ready \subseteq Nat
      BY <1>1
    <3> HIDE DEF ready
    <3> QED BY <1>3, <3>1, LeastNumber
  <2>3. m \in ready /\ \A j \in ready : m <= j
    <3> HIDE DEF ready
    <3> QED BY <2>2
  <2> HIDE DEF m
  <2>4. m \in 1..Len(o) /\ s[o[m]] = "RUNNABLE"
    BY <1>1, <2>3
  <2>5. ASSUME NEW i \in 1..(m - 1) PROVE s[o[i]] # "RUNNABLE"
    <3>1. i \in DOMAIN o /\ ~(m <= i)
      BY <1>1, <2>4
    <3> QED BY <2>3, <3>1
  <2> QED BY <2>1, <2>4, <2>5
<1> QED BY <1>2, <1>3

(* So schedule() picks the next one that is ready, going round.            *)
LEMMA NextIs ==
  ASSUME NEW l \in Seq(Proc \ {Idle}), Once(l), NEW s,
         wcurrent = Idle \/ \E e \in 1..Len(l) : l[e] = wcurrent
  PROVE  \/ /\ Walk!NextProc(l, s) = Idle
            /\ \A i \in 1..Len(l) : s[l[i]] # "RUNNABLE"
         \/ \E b \in 1..Len(l) :
              /\ Walk!NextProc(l, s) = l[b] /\ s[l[b]] = "RUNNABLE"
              /\ \A e, j \in 1..Len(l) :
                   l[e] = wcurrent /\ Passed(e, j, b) => s[l[j]] # "RUNNABLE"
<1> DEFINE len == Len(l)
           o == Walk!Order(l)
<1>1. len \in Nat /\ \A i \in 1..len : l[i] \in Proc \ {Idle}
  BY LenProperties, ElementOfSeq
<1>2. CASE wcurrent = Idle
  <2>1. Walk!NextProc(l, s) = Walk!First(l, s)
    BY <1>2 DEF Walk!NextProc, Walk!Order
  <2>2. \A e \in 1..len : l[e] # wcurrent
    BY <1>1, <1>2
  <2> QED BY <2>1, <2>2, FirstIs
<1>3. CASE \E e \in 1..len : l[e] = wcurrent
  <2>1. PICK e \in 1..len : l[e] = wcurrent
    BY <1>3
  <2>2. /\ o \in Seq(Proc \ {Idle}) /\ Len(o) = len
        /\ \A m \in 1..len : o[m] = IF m <= len - e THEN l[e + m] ELSE l[m - (len - e)]
    BY <2>1, OrderIs
  <2>3. Walk!NextProc(l, s) = Walk!First(o, s)
    BY DEF Walk!NextProc
  <2> HIDE DEF o, len
  <2>4. e \in Int /\ 1 <= e /\ e <= len
    BY <1>1, <2>1
  <2>5. CASE Walk!First(o, s) = Idle /\ \A i \in 1..Len(o) : s[o[i]] # "RUNNABLE"
    <3>1. ASSUME NEW j \in 1..len PROVE s[l[j]] # "RUNNABLE"
      <4> DEFINE i == IF j > e THEN j - e ELSE j + (len - e)
      <4>1. i \in 1..len /\ (j > e => i <= len - e /\ e + i = j)
            /\ (~(j > e) => ~(i <= len - e) /\ i - (len - e) = j)
        BY <1>1, <2>4
      <4> HIDE DEF i
      <4>2. o[i] = l[j]
        BY <2>2, <4>1
      <4> QED BY <2>2, <2>5, <4>1, <4>2
    <3> QED BY <2>3, <2>5, <3>1 DEF len
  <2>6. CASE \E m \in 1..Len(o) : /\ Walk!First(o, s) = o[m] /\ s[o[m]] = "RUNNABLE"
                                  /\ \A i \in 1..(m - 1) : s[o[i]] # "RUNNABLE"
    <3>1. PICK m \in 1..len : /\ Walk!First(o, s) = o[m] /\ s[o[m]] = "RUNNABLE"
                              /\ \A i \in 1..(m - 1) : s[o[i]] # "RUNNABLE"
      BY <2>2, <2>6
    <3> DEFINE b == IF m <= len - e THEN e + m ELSE m - (len - e)
    <3>2. b \in 1..len /\ m \in Int /\ 1 <= m /\ m <= len
      BY <1>1, <2>4, <3>1
    <3>3. o[m] = l[b]
      BY <2>2, <3>1
    <3>4. ASSUME NEW j \in 1..len, Passed(e, j, b) PROVE s[l[j]] # "RUNNABLE"
      <4> DEFINE i == IF j > e THEN j - e ELSE j + (len - e)
      <4>1. i \in 1..len /\ (j > e => i <= len - e /\ e + i = j)
            /\ (~(j > e) => ~(i <= len - e) /\ i - (len - e) = j)
        BY <1>1, <2>4
      <4>2. i \in 1..(m - 1)
        BY <1>1, <2>4, <3>2, <3>4 DEF Passed
      <4> HIDE DEF i, b
      <4>3. o[i] = l[j]
        BY <2>2, <4>1
      <4> QED BY <3>1, <4>2, <4>3
    <3>5. ASSUME NEW c \in 1..len, l[c] = wcurrent PROVE c = e
      BY <2>1, <3>5 DEF Once, len
    <3> HIDE DEF b
    <3>6. Walk!NextProc(l, s) = l[b] /\ s[l[b]] = "RUNNABLE"
      BY <2>3, <3>1, <3>3
    <3> QED BY <3>2, <3>4, <3>5, <3>6 DEF len
  <2>7. \/ Walk!First(o, s) = Idle /\ \A i \in 1..Len(o) : s[o[i]] # "RUNNABLE"
        \/ \E m \in 1..Len(o) : /\ Walk!First(o, s) = o[m] /\ s[o[m]] = "RUNNABLE"
                                /\ \A i \in 1..(m - 1) : s[o[i]] # "RUNNABLE"
    <3>1. o \in Seq(Proc \ {Idle})
      BY <2>2
    <3> QED BY <3>1, FirstIs
  <2> QED BY <2>5, <2>6, <2>7
<1> QED BY <1>2, <1>3

(* Of the positions on the way round.                                      *)
LEMMA GoingRound ==
  ASSUME NEW n \in Nat, NEW i \in 1..n, NEW e \in 1..n, NEW b \in 1..n, i # b,
         i # e => ~Passed(e, i, b)
  PROVE  /\ Met(i, b, b)
         /\ i # e => ~Met(i, b, e)
         /\ \A j \in 1..n : i # e /\ Met(i, j, e) => Met(i, j, b)
<1>1. n \in Nat /\ i \in Int /\ e \in Int /\ b \in Int /\ 1 <= i /\ 1 <= e /\ 1 <= b
      /\ i <= n /\ e <= n /\ b <= n
  OBVIOUS
<1>2. Met(i, b, b)
  BY <1>1 DEF Met
<1>3. i # e => ~Met(i, b, e)
  BY <1>1 DEF Met, Passed
<1>4. ASSUME NEW j \in 1..n, i # e, Met(i, j, e) PROVE Met(i, j, b)
  BY <1>1, <1>4 DEF Met, Passed
<1> QED BY <1>2, <1>3, <1>4

(* Going round from p, q is met up to c.                                   *)
Round(l, p, q, c) ==
  \E i, j, e \in 1..Len(l) : l[i] = p /\ l[j] = q /\ l[e] = c /\ i # e /\ Met(i, j, e)

(* Whom a process that waits for its turn has seen lie between it and the  *)
(* current process, and so behind it when the walk goes on.                *)
Turns ==
  /\ seen \in [Proc -> SUBSET Proc]
  /\ \A p \in Proc \ {Idle} :
       /\ wstate[p] # "RUNNABLE" \/ p = wcurrent \/ wcurrent = Idle => seen[p] = {}
       /\ \A q \in seen[p] : Round(proc_list, p, q, wcurrent)

Keeps(l, s) ==
  \A p, q, c : /\ Round(proc_list, p, q, c)
               /\ s[p] # "NONE" /\ s[q] # "NONE" /\ s[c] # "NONE"
               => Round(l, p, q, c)

LEMMA ScheduleTurns ==
  ASSUME Turns, NEW l, NEW s, Lists(l, s), Keeps(l, s), Idle \in Proc,
         wcurrent \in Proc, wcurrent # Idle => s[wcurrent] # "NONE", Walk!schedule(l, s)
  PROVE  /\ Turns' /\ wcurrent' \in Proc
         /\ wcurrent' # Idle => wstate'[wcurrent'] = "RUNNABLE"
         /\ \A p \in Proc \ {Idle, wcurrent'} :
              s[p] = "RUNNABLE" /\ p # wcurrent => wcurrent' \notin seen[p]
<1> DEFINE n == Walk!NextProc(l, s)
<1>1. /\ proc_list' = l /\ wstate' = s /\ wcurrent' = n
      /\ seen' = [p \in Proc |-> IF p = n \/ s[p] # "RUNNABLE" THEN {}
                                 ELSE {q \in seen[p] \cup {n} : s[q] # "NONE"}]
  BY DEF Walk!schedule
<1>2. /\ l \in Seq(Proc \ {Idle}) /\ Once(l)
      /\ \A p \in Proc \ {Idle} : s[p] # "NONE" => \E i \in 1..Len(l) : l[i] = p
  BY DEF Lists
<1>3. wcurrent = Idle \/ \E e \in 1..Len(l) : l[e] = wcurrent
  BY <1>2
<1>4. /\ Len(l) \in Nat /\ \A i \in 1..Len(l) : l[i] \in Proc \ {Idle}
  BY <1>2, LenProperties, ElementOfSeq
<1> HIDE DEF n
<1>5. CASE n = Idle /\ \A i \in 1..Len(l) : s[l[i]] # "RUNNABLE"
  <2>1. \A p \in Proc \ {Idle} : s[p] # "RUNNABLE"
    BY <1>2, <1>5
  <2>2. seen' \in [Proc -> SUBSET Proc]
    BY <1>1, <1>5 DEF Turns
  <2>3. \A p \in Proc \ {Idle} : seen'[p] = {}
    BY <1>1, <2>1
  <2> QED BY <1>1, <1>5, <2>1, <2>2, <2>3 DEF Turns
<1>6. ASSUME NEW b \in 1..Len(l), n = l[b], s[l[b]] = "RUNNABLE",
             \A e, j \in 1..Len(l) :
               l[e] = wcurrent /\ Passed(e, j, b) => s[l[j]] # "RUNNABLE"
      PROVE  /\ Turns' /\ wcurrent' \in Proc
             /\ wcurrent' # Idle => wstate'[wcurrent'] = "RUNNABLE"
             /\ \A p \in Proc \ {Idle, wcurrent'} :
                  s[p] = "RUNNABLE" /\ p # wcurrent => wcurrent' \notin seen[p]
  <2>1. n \in Proc /\ n # Idle
    BY <1>4, <1>6
  <2>2. seen' \in [Proc -> SUBSET Proc]
    BY <1>1, <2>1 DEF Turns
  <2>3. ASSUME NEW p \in Proc \ {Idle}, p # n, s[p] = "RUNNABLE"
        PROVE  /\ p # wcurrent => n \notin seen[p]
               /\ \A q \in seen'[p] : Round(l, p, q, n)
    <3>1. PICK i \in 1..Len(l) : l[i] = p
      BY <1>2, <2>3
    <3>2. i # b
      BY <1>6, <2>3, <3>1
    <3>3. \A e \in 1..Len(l) : l[e] = wcurrent => ~Passed(e, i, b)
      BY <1>6, <2>3, <3>1
    <3>4. Met(i, b, b)
      BY <3>1, <3>2, <1>4 DEF Met
    <3>5. Round(l, p, n, n)
      BY <1>6, <3>1, <3>2, <3>4 DEF Round
    <3>6. seen'[p] \subseteq {q \in seen[p] : s[q] # "NONE"} \cup {n}
      BY <1>1, <2>3
    <3>7. CASE wcurrent = Idle \/ p = wcurrent
      <4>1. seen[p] = {}
        BY <3>7 DEF Turns
      <4> QED BY <3>5, <3>6, <4>1
    <3>8. CASE ~(wcurrent = Idle \/ p = wcurrent)
      <4>1. PICK e \in 1..Len(l) : l[e] = wcurrent
        BY <1>3, <3>8
      <4>2. i # e /\ ~Passed(e, i, b)
        BY <3>1, <3>3, <3>8, <4>1
      <4>3. ~Met(i, b, e) /\ \A j \in 1..Len(l) : Met(i, j, e) => Met(i, j, b)
        BY <1>4, <3>2, <4>2, GoingRound
      <4>4. ASSUME NEW q \in seen[p], s[q] # "NONE"
            PROVE  \E j \in 1..Len(l) : l[j] = q /\ Met(i, j, e)
        <5>1. Round(l, p, q, wcurrent)
          BY <2>3, <3>8, <4>4 DEF Turns, Keeps
        <5>2. PICK a, j, c \in 1..Len(l) :
                l[a] = p /\ l[j] = q /\ l[c] = wcurrent /\ Met(a, j, c)
          BY <5>1 DEF Round
        <5>3. a = i /\ c = e
          BY <1>2, <3>1, <4>1, <5>2 DEF Once
        <5> QED BY <5>2, <5>3
      <4>5. n \notin seen[p]
        <5> SUFFICES ASSUME n \in seen[p] PROVE FALSE
          OBVIOUS
        <5>1. PICK j \in 1..Len(l) : l[j] = n /\ Met(i, j, e)
          BY <1>6, <4>4
        <5>2. j = b
          BY <1>2, <1>6, <5>1 DEF Once
        <5> QED BY <4>3, <5>1, <5>2
      <4>6. ASSUME NEW q \in seen[p], s[q] # "NONE" PROVE Round(l, p, q, n)
        <5>1. PICK j \in 1..Len(l) : l[j] = q /\ Met(i, j, e)
          BY <4>4, <4>6
        <5>2. Met(i, j, b)
          BY <4>3, <5>1
        <5> QED BY <1>6, <3>1, <3>2, <5>1, <5>2 DEF Round
      <4> QED BY <3>5, <3>6, <4>5, <4>6
    <3> QED BY <3>7, <3>8
  <2>4. ASSUME NEW p \in Proc \ {Idle}, p = n \/ s[p] # "RUNNABLE" PROVE seen'[p] = {}
    BY <1>1, <2>4
  <2>5. Turns'
    BY <1>1, <2>1, <2>2, <2>3, <2>4 DEF Turns
  <2> QED BY <1>1, <1>6, <2>1, <2>3, <2>5
<1>7. \/ n = Idle /\ \A i \in 1..Len(l) : s[l[i]] # "RUNNABLE"
      \/ \E b \in 1..Len(l) :
           /\ n = l[b] /\ s[l[b]] = "RUNNABLE"
           /\ \A e, j \in 1..Len(l) :
                l[e] = wcurrent /\ Passed(e, j, b) => s[l[j]] # "RUNNABLE"
  BY <1>2, <1>3, NextIs DEF n
<1> QED BY <1>5, <1>6, <1>7

LEMMA StaysTurns ==
  ASSUME Turns, NEW l, NEW s, Keeps(l, s), Walk!Stays(l, s),
         wcurrent # Idle => s[wcurrent] # "NONE",
         \A p \in Proc \ {Idle} : wstate[p] = "RUNNABLE" => s[p] = "RUNNABLE"
  PROVE  Turns'
<1>1. /\ proc_list' = l /\ wstate' = s /\ wcurrent' = wcurrent
      /\ seen' = [p \in Proc |-> {q \in seen[p] : s[q] # "NONE"}]
  BY DEF Walk!Stays
<1>2. seen' \in [Proc -> SUBSET Proc]
  BY <1>1 DEF Turns
<1>3. ASSUME NEW p \in Proc \ {Idle}
      PROVE  /\ s[p] # "RUNNABLE" \/ p = wcurrent \/ wcurrent = Idle => seen'[p] = {}
             /\ \A q \in seen'[p] : Round(l, p, q, wcurrent)
  <2>1. seen'[p] = {q \in seen[p] : s[q] # "NONE"}
    BY <1>1
  <2>2. CASE seen[p] = {}
    BY <2>1, <2>2
  <2>3. CASE seen[p] # {}
    <3>1. wstate[p] = "RUNNABLE" /\ p # wcurrent /\ wcurrent # Idle
      BY <2>3 DEF Turns
    <3>2. s[p] = "RUNNABLE" /\ s[wcurrent] # "NONE"
      BY <3>1
    <3>3. \A q \in seen'[p] : Round(proc_list, p, q, wcurrent) /\ s[q] # "NONE"
      BY <2>1 DEF Turns
    <3> QED BY <3>1, <3>2, <3>3 DEF Keeps
  <2> QED BY <2>2, <2>3
<1> QED BY <1>1, <1>2, <1>3 DEF Turns

-----------------------------------------------------------------------------
(* p stands before q in the list.                                          *)
Ahead(l, p, q) == \E i, j \in 1..Len(l) : i < j /\ l[i] = p /\ l[j] = q

Same(l, s) ==
  \A p, q : Ahead(proc_list, p, q) /\ s[p] # "NONE" /\ s[q] # "NONE" => Ahead(l, p, q)

(* The list without z.                                                     *)
Freed(z) == RemoveAt(proc_list, CHOOSE i \in DOMAIN proc_list : proc_list[i] = z)

(* A process that is freed leaves the others in their order.               *)
LEMMA ReapedList ==
  ASSUME Lists(proc_list, wstate), wstate \in [Proc -> WState],
         NEW z \in Proc \ {Idle}, wstate[z] # "NONE",
         NEW l, l = Freed(z),
         NEW s, s = [wstate EXCEPT ![z] = "NONE"]
  PROVE  Lists(l, s) /\ Keeps(l, s) /\ Same(l, s)
<1>1. /\ proc_list \in Seq(Proc \ {Idle}) /\ Once(proc_list)
      /\ Len(proc_list) \in Nat /\ DOMAIN proc_list = 1..Len(proc_list)
  BY LenProperties DEF Lists
<1>2. PICK h \in 1..Len(proc_list) : proc_list[h] = z
  BY DEF Lists
<1>3. h = CHOOSE i \in DOMAIN proc_list : proc_list[i] = z
  <2>1. \A i \in DOMAIN proc_list : proc_list[i] = z <=> i = h
    BY <1>1, <1>2 DEF Once
  <2> QED BY <1>1, <2>1
<1> DEFINE len == Len(proc_list)
           Down(a) == IF a < h THEN a ELSE a - 1
           Up(a)   == IF a < h THEN a ELSE a + 1
<1>4. /\ l \in Seq(Proc \ {Idle}) /\ Len(l) = len - 1
      /\ \A a \in 1..(len - 1) : l[a] = proc_list[Up(a)]
  <2>1. l = RemoveAt(proc_list, h)
    BY <1>3, Zenon DEF Freed
  <2>2. /\ RemoveAt(proc_list, h) \in Seq(Proc \ {Idle})
        /\ Len(RemoveAt(proc_list, h)) = Len(proc_list) - 1
        /\ \A j \in 1..(Len(proc_list) - 1) :
              RemoveAt(proc_list, h)[j] = IF j < h THEN proc_list[j] ELSE proc_list[j + 1]
    BY <1>1, <1>2, Removed, Zenon
  <2> QED BY <2>1, <2>2, ZenonT(30)
<1>5. /\ len \in Nat /\ h \in Int /\ 1 <= h /\ h <= len
  BY <1>1, <1>2
<1> HIDE DEF len
<1>6. \A a \in 1..(len - 1) : Up(a) \in 1..len /\ Up(a) # h /\ Down(Up(a)) = a
  BY <1>5
<1>7. \A a \in 1..len : a # h => Down(a) \in 1..(len - 1) /\ Up(Down(a)) = a
  BY <1>5
<1>8. \A a \in 1..len : a # h => l[Down(a)] = proc_list[a]
  <2> HIDE DEF Up, Down
  <2> QED BY <1>4, <1>7
<1>9. \A p : s[p] # "NONE" => p # z
  <2>1. s[z] = "NONE"
    BY DEF WState
  <2> QED BY <2>1
<1>10. Once(l)
  <2> SUFFICES ASSUME NEW a \in 1..(len - 1), NEW b \in 1..(len - 1), l[a] = l[b]
               PROVE  a = b
    <3> HIDE DEF Up, Down
    <3> QED BY <1>4, Zenon DEF Once
  <2>1. Up(a) = Up(b)
    <3> HIDE DEF Up, Down
    <3> QED BY <1>1, <1>4, <1>6 DEF Once, len
  <2>2. Down(Up(a)) = a /\ Down(Up(b)) = b
    BY <1>6, Zenon
  <2> HIDE DEF Up, Down
  <2> QED BY <2>1, <2>2, Zenon
<1>11. ASSUME NEW p \in Proc \ {Idle}
       PROVE  s[p] # "NONE" <=> \E i \in 1..Len(l) : l[i] = p
  <2> HIDE DEF Up, Down
  <2>1. CASE p = z
    <3>1. ASSUME NEW a \in 1..Len(l) PROVE l[a] # z
      <4>1. a \in 1..(len - 1) /\ Up(a) \in 1..len /\ Up(a) # h
        BY <1>4, <1>6
      <4>2. proc_list[Up(a)] # proc_list[h]
        BY <1>1, <1>2, <4>1 DEF Once, len
      <4> QED BY <1>2, <1>4, <4>1, <4>2
    <3> QED BY <1>9, <2>1, <3>1
  <2>2. CASE p # z
    <3>1. s[p] = wstate[p]
      BY <2>2
    <3>2. wstate[p] # "NONE" <=> \E i \in 1..len : proc_list[i] = p
      BY DEF Lists, len
    <3>3. ASSUME NEW i \in 1..len, proc_list[i] = p PROVE \E a \in 1..Len(l) : l[a] = p
      BY <1>2, <1>4, <1>7, <1>8, <2>2, <3>3
    <3>4. ASSUME NEW a \in 1..Len(l), l[a] = p PROVE \E i \in 1..len : proc_list[i] = p
      BY <1>4, <1>6, <3>4
    <3> QED BY <3>1, <3>2, <3>3, <3>4
  <2> QED BY <2>1, <2>2
<1>12. ASSUME NEW p, NEW q, Ahead(proc_list, p, q), s[p] # "NONE", s[q] # "NONE"
       PROVE  Ahead(l, p, q)
  <2>1. PICK i, j \in 1..len : i < j /\ proc_list[i] = p /\ proc_list[j] = q
    BY <1>12 DEF Ahead, len
  <2>2. i # h /\ j # h
    BY <1>2, <1>9, <1>12, <2>1
  <2>3. Down(i) < Down(j)
    BY <1>5, <2>1, <2>2
  <2>4. l[Down(i)] = p /\ l[Down(j)] = q /\ Down(i) \in 1..Len(l) /\ Down(j) \in 1..Len(l)
    <3> HIDE DEF Down, Up
    <3> QED BY <1>4, <1>7, <1>8, <2>1, <2>2
  <2> HIDE DEF Down
  <2> QED BY <2>3, <2>4 DEF Ahead
<1>13. ASSUME NEW p, NEW q, NEW c, Round(proc_list, p, q, c),
              s[p] # "NONE", s[q] # "NONE", s[c] # "NONE"
       PROVE  Round(l, p, q, c)
  <2>1. PICK i, j, e \in 1..len : /\ proc_list[i] = p /\ proc_list[j] = q /\ proc_list[e] = c
                                  /\ i # e /\ Met(i, j, e)
    BY <1>13 DEF Round, len
  <2>2. i # h /\ j # h /\ e # h
    BY <1>2, <1>9, <1>13, <2>1
  <2>3. Down(i) # Down(e) /\ Met(Down(i), Down(j), Down(e))
    BY <1>5, <2>1, <2>2 DEF Met
  <2>4. /\ l[Down(i)] = p /\ l[Down(j)] = q /\ l[Down(e)] = c
        /\ Down(i) \in 1..Len(l) /\ Down(j) \in 1..Len(l) /\ Down(e) \in 1..Len(l)
    <3> HIDE DEF Down, Up
    <3> QED BY <1>4, <1>7, <1>8, <2>1, <2>2
  <2> HIDE DEF Down
  <2> QED BY <2>3, <2>4 DEF Round
<1> QED BY <1>4, <1>10, <1>11, <1>12, <1>13 DEF Lists, Keeps, Same

(* So does a new one, which comes before all others.                       *)
LEMMA ForkedList ==
  ASSUME Lists(proc_list, wstate), wstate \in [Proc -> WState],
         NEW z \in Proc \ {Idle}, wstate[z] = "NONE",
         NEW l, l = <<z>> \o proc_list,
         NEW s, s = [wstate EXCEPT ![z] = "RUNNABLE"]
  PROVE  /\ Lists(l, s) /\ Keeps(l, s) /\ Same(l, s)
         /\ \A p \in Proc \ {Idle} : wstate[p] # "NONE" => Ahead(l, z, p)
<1> DEFINE len == Len(proc_list)
           m == <<z>>
<1>1. /\ proc_list \in Seq(Proc \ {Idle}) /\ Once(proc_list) /\ len \in Nat
  BY LenProperties DEF Lists
<1>2. m \in Seq(Proc \ {Idle}) /\ Len(m) = 1 /\ m[1] = z
  OBVIOUS
<1>3. /\ l \in Seq(Proc \ {Idle}) /\ Len(l) = len + 1 /\ l[1] = z
      /\ \A a \in 1..len : l[a + 1] = proc_list[a]
  <2> HIDE DEF m
  <2>1. /\ m \o proc_list \in Seq(Proc \ {Idle}) /\ Len(m \o proc_list) = Len(m) + len
        /\ \A a \in 1..(Len(m) + len) :
             (m \o proc_list)[a] = IF a <= Len(m) THEN m[a] ELSE proc_list[a - Len(m)]
    BY <1>1, <1>2, ConcatProperties
  <2>2. l = m \o proc_list
    BY DEF m
  <2>3. 1 \in 1..(1 + len) /\ \A a \in 1..len : a + 1 \in 1..(1 + len) /\ ~(a + 1 <= 1) /\ a + 1 - 1 = a
    BY <1>1
  <2>4. l[1] = z
    BY <1>2, <2>1, <2>2, <2>3
  <2>5. ASSUME NEW a \in 1..len PROVE l[a + 1] = proc_list[a]
    BY <1>2, <2>1, <2>2, <2>3
  <2> QED BY <1>1, <1>2, <2>1, <2>2, <2>4, <2>5
<1> HIDE DEF len
<1>4. ASSUME NEW a \in 1..(len + 1), a # 1
      PROVE  a - 1 \in 1..len /\ l[a] = proc_list[a - 1]
  <2>1. a - 1 \in 1..len /\ a - 1 + 1 = a
    BY <1>1, <1>4
  <2> QED BY <1>3, <2>1
<1>5. \A a \in 1..len : a + 1 \in 1..(len + 1)
  BY <1>1
<1>6. \A a \in 1..len : proc_list[a] # z
  BY DEF Lists, len
<1>7. Once(l)
  <2> SUFFICES ASSUME NEW a \in 1..(len + 1), NEW b \in 1..(len + 1), l[a] = l[b]
               PROVE  a = b
    BY <1>3 DEF Once
  <2>1. CASE a = 1 \/ b = 1
    BY <1>3, <1>4, <1>6, <2>1
  <2>2. CASE a # 1 /\ b # 1
    <3>1. a - 1 = b - 1
      BY <1>1, <1>4, <2>2 DEF Once, len
    <3> QED BY <1>1, <3>1
  <2> QED BY <2>1, <2>2
<1>8. ASSUME NEW p \in Proc \ {Idle}
      PROVE  s[p] # "NONE" <=> \E i \in 1..Len(l) : l[i] = p
  <2>1. CASE p = z
    <3>1. 1 \in 1..Len(l)
      BY <1>1, <1>3
    <3> QED BY <1>3, <2>1, <3>1
  <2>2. CASE p # z
    <3>1. s[p] = wstate[p]
      BY <2>2
    <3>2. wstate[p] # "NONE" <=> \E i \in 1..len : proc_list[i] = p
      BY DEF Lists, len
    <3>3. ASSUME NEW i \in 1..len, proc_list[i] = p PROVE \E a \in 1..Len(l) : l[a] = p
      BY <1>3, <1>5, <3>3
    <3>4. ASSUME NEW a \in 1..Len(l), l[a] = p PROVE \E i \in 1..len : proc_list[i] = p
      BY <1>3, <1>4, <2>2, <3>4
    <3> QED BY <3>1, <3>2, <3>3, <3>4
  <2> QED BY <2>1, <2>2
<1>9. ASSUME NEW p, NEW q, Ahead(proc_list, p, q) PROVE Ahead(l, p, q)
  <2>1. PICK i, j \in 1..len : i < j /\ proc_list[i] = p /\ proc_list[j] = q
    BY <1>9 DEF Ahead, len
  <2>2. i + 1 < j + 1
    BY <2>1
  <2> QED BY <1>3, <1>5, <2>1, <2>2 DEF Ahead
<1>10. ASSUME NEW p, NEW q, NEW c, Round(proc_list, p, q, c) PROVE Round(l, p, q, c)
  <2>1. PICK i, j, e \in 1..len : /\ proc_list[i] = p /\ proc_list[j] = q /\ proc_list[e] = c
                                  /\ i # e /\ Met(i, j, e)
    BY <1>10 DEF Round, len
  <2>2. i + 1 # e + 1 /\ Met(i + 1, j + 1, e + 1)
    BY <2>1 DEF Met
  <2> QED BY <1>3, <1>5, <2>1, <2>2 DEF Round
<1>11. ASSUME NEW p \in Proc \ {Idle}, wstate[p] # "NONE" PROVE Ahead(l, z, p)
  <2>1. PICK i \in 1..len : proc_list[i] = p
    BY <1>11 DEF Lists, len
  <2>2. 1 < i + 1 /\ 1 \in 1..(len + 1)
    BY <1>1
  <2> QED BY <1>3, <1>5, <2>1, <2>2 DEF Ahead
<1> QED BY <1>3, <1>7, <1>8, <1>9, <1>10, <1>11 DEF Lists, Keeps, Same

-----------------------------------------------------------------------------
(* The inductive invariant: where processes may stand; each user process   *)
(* has a living parent, which comes after it in the list, as init does;    *)
(* who sleeps waits for a child it has, and for no zombie.                  *)
WPlace == {"boot", "run", "trapret", "wait", "end"}

WPlaces ==
  /\ wstate \in [Proc -> WState] /\ wparent \in [Proc -> Proc]
  /\ wexiting \in [Proc -> BOOLEAN] /\ wpc \in [Proc -> WPlace] /\ wcurrent \in Proc
  /\ wcurrent # Idle => wstate[wcurrent] = "RUNNABLE"
  /\ wstate[Idle] = "RUNNABLE" /\ wpc[Idle] = "run"
  /\ wstate[InitProc] \in {"RUNNABLE", "SLEEPING"} /\ wpc[InitProc] \in {"boot", "run", "wait"}
  /\ \A p \in Proc \ {InitProc} : wpc[p] # "boot"
  /\ wwaitFor \in [Proc -> Proc \cup {AnyChild}] /\ wwaitFor[InitProc] = AnyChild

Parents(l, s, par) ==
  /\ par[InitProc] = Idle
  /\ \A c \in Proc \ {Idle, InitProc} : s[c] # "NONE" =>
       /\ par[c] # Idle /\ s[par[c]] \notin {"NONE", "ZOMBIE"}
       /\ Ahead(l, c, par[c]) /\ Ahead(l, c, InitProc)

Kids(s, par, p) == {c \in Proc : s[c] # "NONE" /\ par[c] = p /\ c # Idle}

(* The children that p waits for, when w says for whom.                    *)
Waited(s, par, w, p) == {c \in Kids(s, par, p) : w[p] = AnyChild \/ c = w[p]}

WaitsAsleep(s, par, w) ==
  \A p \in Proc : s[p] = "SLEEPING" =>
    Waited(s, par, w, p) # {} /\ \A c \in Waited(s, par, w, p) : s[c] # "ZOMBIE"

Ends == whalted /\ ~wexiting[InitProc] => proc_list = <<InitProc>>

WalkInv ==
  /\ WPlaces /\ Lists(proc_list, wstate) /\ Parents(proc_list, wstate, wparent)
  /\ WaitsAsleep(wstate, wparent, wwaitFor) /\ Ends /\ Turns

(* What TurnsInOrder says of a step.                                       *)
InTurn ==
  wcurrent' # wcurrent =>
    \A p \in Proc \ {wcurrent', Idle} :
      wstate[p] = "RUNNABLE" /\ wstate'[p] = "RUNNABLE" /\ p # wcurrent
        => wcurrent' \notin seen[p]

(* Nobody is ahead of itself.                                              *)
LEMMA NotAhead ==
  ASSUME NEW l, Once(l), NEW p, NEW q, Ahead(l, p, q)
  PROVE  p # q
  BY DEF Ahead, Once

(* If init has no children then there is nobody else: the last but one in  *)
(* the list would have a parent behind it.                                 *)
LEMMA OnlyInit ==
  ASSUME WalkInv, Kids(wstate, wparent, InitProc) = {}
  PROVE  proc_list = <<InitProc>>
<1> DEFINE l == proc_list
           len == Len(l)
<1>1. /\ l \in Seq(Proc \ {Idle}) /\ Once(l) /\ len \in Nat
      /\ \A i \in 1..len : l[i] \in Proc \ {Idle} /\ wstate[l[i]] # "NONE"
  BY LenProperties, ElementOfSeq DEF WalkInv, Lists
<1>2. PICK h \in 1..len : l[h] = InitProc
  BY ProcessAssumption DEF WalkInv, WPlaces, Lists
<1>3. ASSUME NEW i \in 1..len, i # h
      PROVE  /\ i < h /\ l[i] \in Proc \ {Idle, InitProc}
             /\ \E j \in 1..len : i < j /\ l[j] = wparent[l[i]]
  <2>1. l[i] # InitProc
    BY <1>1, <1>2, <1>3 DEF Once
  <2>2. l[i] \in Proc \ {Idle, InitProc} /\ wstate[l[i]] # "NONE"
    BY <1>1, <2>1
  <2>3. Ahead(l, l[i], wparent[l[i]]) /\ Ahead(l, l[i], InitProc)
    BY <2>2 DEF WalkInv, Parents
  <2>4. PICK a, j \in 1..len : a < j /\ l[a] = l[i] /\ l[j] = wparent[l[i]]
    BY <2>3 DEF Ahead
  <2>5. PICK b, g \in 1..len : b < g /\ l[b] = l[i] /\ l[g] = InitProc
    BY <2>3 DEF Ahead
  <2>6. a = i /\ b = i /\ g = h
    BY <1>1, <1>2, <2>4, <2>5 DEF Once
  <2> QED BY <2>2, <2>4, <2>5, <2>6
<1> HIDE DEF len
<1>4. h = len
  <2>1. len \in 1..len
    BY <1>1, <1>2
  <2> QED BY <1>1, <1>2, <1>3, <2>1
<1>5. len = 1
  <2> SUFFICES ASSUME len # 1 PROVE FALSE
    OBVIOUS
  <2> DEFINE i == len - 1
  <2>1. i \in 1..len /\ i # h /\ i + 1 = len
    BY <1>1, <1>2, <1>4
  <2>2. PICK j \in 1..len : i < j /\ l[j] = wparent[l[i]]
    BY <1>3, <2>1
  <2>3. j = len
    BY <1>1, <2>1, <2>2
  <2>4. wparent[l[i]] = InitProc /\ l[i] \in Proc \ {Idle} /\ wstate[l[i]] # "NONE"
    BY <1>1, <1>2, <1>4, <2>1, <2>2, <2>3
  <2> QED BY <2>4 DEF Kids
<1>6. proc_list = <<InitProc>>
  <2>1. Len(proc_list) = 1 /\ proc_list[1] = InitProc /\ proc_list \in Seq(Proc \ {Idle})
    BY <1>1, <1>2, <1>4, <1>5 DEF len
  <2>2. <<InitProc>> \in Seq(Proc \ {Idle}) /\ Len(<<InitProc>>) = 1 /\ <<InitProc>>[1] = InitProc
    BY ProcessAssumption
  <2>3. \A i \in 1..1 : proc_list[i] = <<InitProc>>[i]
    BY <2>1, <2>2
  <2> HIDE DEF l
  <2> QED BY <2>1, <2>2, <2>3, SeqEqual
<1> QED BY <1>6

(* A list and states that are as before.                                   *)
LEMMA NoChange ==
  ASSUME Lists(proc_list, wstate)
  PROVE  Keeps(proc_list, wstate) /\ Same(proc_list, wstate)
  BY DEF Keeps, Same

-----------------------------------------------------------------------------
(* What schedule() and its absence do to the invariant, when the list and  *)
(* the states are l and s.                                                 *)
LEMMA ScheduleStep ==
  ASSUME WalkInv, NEW l, NEW s, Lists(l, s), Keeps(l, s), s \in [Proc -> WState],
         wcurrent # Idle => s[wcurrent] # "NONE", Walk!schedule(l, s)
  PROVE  /\ proc_list' = l /\ wstate' = s /\ wcurrent' \in Proc
         /\ wcurrent' # Idle => s[wcurrent'] = "RUNNABLE"
         /\ Turns' /\ InTurn
<1>1. proc_list' = l /\ wstate' = s
  BY DEF Walk!schedule
<1>2. /\ Turns' /\ wcurrent' \in Proc
      /\ wcurrent' # Idle => wstate'[wcurrent'] = "RUNNABLE"
      /\ \A p \in Proc \ {Idle, wcurrent'} :
           s[p] = "RUNNABLE" /\ p # wcurrent => wcurrent' \notin seen[p]
  BY SchedAssumption, ScheduleTurns DEF WalkInv, WPlaces
<1>3. InTurn
  BY <1>1, <1>2 DEF InTurn
<1> QED BY <1>1, <1>2, <1>3

LEMMA StaysStep ==
  ASSUME WalkInv, NEW l, NEW s, Keeps(l, s), Walk!Stays(l, s),
         wcurrent # Idle => s[wcurrent] # "NONE",
         \A p \in Proc \ {Idle} : wstate[p] = "RUNNABLE" => s[p] = "RUNNABLE"
  PROVE  /\ proc_list' = l /\ wstate' = s /\ wcurrent' = wcurrent
         /\ Turns' /\ InTurn
<1>1. proc_list' = l /\ wstate' = s /\ wcurrent' = wcurrent
  BY DEF Walk!Stays
<1>2. Turns'
  BY StaysTurns DEF WalkInv
<1> QED BY <1>1, <1>2 DEF InTurn

LEMMA SameStep ==
  ASSUME WalkInv, UNCHANGED <<proc_list, wstate, wcurrent, seen>>
  PROVE  Turns' /\ InTurn
<1>1. Turns'
  BY DEF WalkInv, Turns
<1> QED BY <1>1 DEF InTurn

(* do_exit: the children go to init, which stands behind all of them.      *)
LEMMA WalkExits ==
  ASSUME WalkInv, NEW p \in Proc \ {Idle, InitProc}, p = wcurrent, ~whalted,
         Walk!do_exit(p)
  PROVE  WalkInv' /\ InTurn
<1> DEFINE dead   == Walk!Woken([wstate EXCEPT ![p] = "ZOMBIE"], wparent[p])
           orphan == \E c \in Walk!Children(p) : wstate[c] = "ZOMBIE"
           s      == IF orphan THEN Walk!Woken(dead, InitProc) ELSE dead
           q      == wparent[p]
<1>0. Idle \in Proc /\ InitProc \in Proc \ {Idle}
  BY SchedAssumption, ProcessAssumption
<1>1. /\ wstate \in [Proc -> WState] /\ wparent \in [Proc -> Proc] /\ wstate[p] = "RUNNABLE"
      /\ q \in Proc /\ q # Idle /\ wstate[q] \notin {"NONE", "ZOMBIE"}
  BY DEF WalkInv, WPlaces, Parents
<1>2. p # q
  <2>1. Ahead(proc_list, p, q) /\ Once(proc_list)
    BY <1>1 DEF WalkInv, Parents, Lists
  <2> QED BY <2>1, NotAhead
<1>3. /\ wparent' = [c \in Proc |-> IF c \in Walk!Children(p) THEN InitProc ELSE wparent[c]]
      /\ wpc' = [wpc EXCEPT ![p] = "end"] /\ Walk!schedule(proc_list, s)
      /\ wwaitFor' = [wwaitFor EXCEPT ![p] = AnyChild]
      /\ wexiting' = wexiting /\ whalted' = whalted
  BY DEF Walk!do_exit, Walk!Goes, Walk!WaitsFor
<1>4. \A c \in Proc : c \in Walk!Children(p) <=> wstate[c] # "NONE" /\ wparent[c] = p /\ c # Idle
  BY DEF Walk!Children
<1>5. /\ s \in [Proc -> WState] /\ s[p] = "ZOMBIE"
      /\ \A c \in Proc : c # p => \/ s[c] = wstate[c]
                                  \/ wstate[c] = "SLEEPING" /\ s[c] = "RUNNABLE"
      /\ s[q] # "SLEEPING" /\ (orphan => s[InitProc] # "SLEEPING")
  <2> DEFINE z == [wstate EXCEPT ![p] = "ZOMBIE"]
  <2>1. z \in [Proc -> WState] /\ z[p] = "ZOMBIE" /\ \A c \in Proc : c # p => z[c] = wstate[c]
    BY <1>1 DEF WState
  <2>2. dead = IF z[q] = "SLEEPING" THEN [z EXCEPT ![q] = "RUNNABLE"] ELSE z
    BY DEF Walk!Woken
  <2> HIDE DEF z
  <2>3. /\ dead \in [Proc -> WState] /\ dead[p] = "ZOMBIE" /\ dead[q] # "SLEEPING"
        /\ \A c \in Proc : c # p => \/ dead[c] = wstate[c]
                                    \/ wstate[c] = "SLEEPING" /\ dead[c] = "RUNNABLE"
    BY <1>1, <1>2, <2>1, <2>2 DEF WState
  <2>4. Walk!Woken(dead, InitProc) = IF dead[InitProc] = "SLEEPING"
                                     THEN [dead EXCEPT ![InitProc] = "RUNNABLE"] ELSE dead
    BY DEF Walk!Woken
  <2> HIDE DEF dead, orphan
  <2> QED BY <1>0, <1>1, <2>3, <2>4 DEF WState
<1> HIDE DEF s, dead
<1>6. \A c \in Proc : s[c] = "NONE" <=> wstate[c] = "NONE"
  BY <1>1, <1>5
<1>7. Lists(proc_list, s) /\ Keeps(proc_list, s)
  BY <1>6 DEF WalkInv, Lists, Keeps
<1>8. /\ proc_list' = proc_list /\ wstate' = s /\ wcurrent' \in Proc
      /\ wcurrent' # Idle => s[wcurrent'] = "RUNNABLE"
      /\ Turns' /\ InTurn
  <2>1. wcurrent # Idle => s[wcurrent] # "NONE"
    BY <1>5
  <2> QED BY <1>3, <1>5, <1>7, <2>1, ScheduleStep
<1>9. WPlaces'
  <2>1. wpc' \in [Proc -> WPlace] /\ wparent' \in [Proc -> Proc] /\ wexiting' \in [Proc -> BOOLEAN]
    BY <1>0, <1>1, <1>3 DEF WalkInv, WPlaces, WPlace
  <2>2. wpc'[Idle] = "run" /\ wpc'[InitProc] \in {"boot", "run", "wait"}
        /\ \A a \in Proc \ {InitProc} : wpc'[a] # "boot"
    BY <1>0, <1>3 DEF WalkInv, WPlaces
  <2>3. s[Idle] = "RUNNABLE" /\ s[InitProc] \in {"RUNNABLE", "SLEEPING"}
    BY <1>0, <1>5 DEF WalkInv, WPlaces
  <2>4. wwaitFor' \in [Proc -> Proc \cup {AnyChild}] /\ wwaitFor'[InitProc] = AnyChild
    BY <1>0, <1>3 DEF WalkInv, WPlaces
  <2> QED BY <1>5, <1>8, <2>1, <2>2, <2>3, <2>4 DEF WPlaces
<1>10. Parents(proc_list, s, wparent')
  <2>1. wparent'[InitProc] = Idle
    BY <1>0, <1>3, <1>4 DEF WalkInv, Parents
  <2>2. ASSUME NEW c \in Proc \ {Idle, InitProc}, s[c] # "NONE"
        PROVE  /\ wparent'[c] # Idle /\ s[wparent'[c]] \notin {"NONE", "ZOMBIE"}
               /\ Ahead(proc_list, c, wparent'[c]) /\ Ahead(proc_list, c, InitProc)
    <3>1. /\ wstate[c] # "NONE" /\ wparent[c] # Idle /\ wstate[wparent[c]] \notin {"NONE", "ZOMBIE"}
          /\ Ahead(proc_list, c, wparent[c]) /\ Ahead(proc_list, c, InitProc)
      BY <1>6, <2>2 DEF WalkInv, Parents
    <3>2. CASE wparent[c] = p
      <4>1. wparent'[c] = InitProc
        BY <1>3, <1>4, <3>1, <3>2
      <4>2. s[InitProc] \notin {"NONE", "ZOMBIE"}
        BY <1>0, <1>5 DEF WalkInv, WPlaces
      <4> QED BY <1>0, <3>1, <4>1, <4>2
    <3>3. CASE wparent[c] # p
      <4>1. wparent'[c] = wparent[c] /\ wparent[c] \in Proc
        BY <1>1, <1>3, <1>4, <3>3
      <4>2. s[wparent[c]] \notin {"NONE", "ZOMBIE"}
        BY <1>5, <3>1, <3>3, <4>1
      <4> QED BY <3>1, <4>1, <4>2
    <3> QED BY <3>2, <3>3
  <2> QED BY <2>1, <2>2 DEF Parents
<1>11. WaitsAsleep(s, wparent', wwaitFor')
  <2> SUFFICES ASSUME NEW a \in Proc, s[a] = "SLEEPING"
               PROVE  /\ Waited(s, wparent', wwaitFor', a) # {}
                      /\ \A c \in Waited(s, wparent', wwaitFor', a) : s[c] # "ZOMBIE"
    BY DEF WaitsAsleep
  <2>1. wstate[a] = "SLEEPING" /\ a # p /\ a # q /\ (orphan => a # InitProc)
    BY <1>1, <1>5
  <2>2. /\ Waited(wstate, wparent, wwaitFor, a) # {}
        /\ \A c \in Waited(wstate, wparent, wwaitFor, a) : wstate[c] # "ZOMBIE"
    BY <2>1 DEF WalkInv, WaitsAsleep
  <2>3. wwaitFor'[a] = wwaitFor[a] /\ (a = InitProc => wwaitFor'[a] = AnyChild)
    BY <1>3, <2>1 DEF WalkInv, WPlaces
  <2>4. Waited(wstate, wparent, wwaitFor, a) \subseteq Waited(s, wparent', wwaitFor', a)
    BY <1>3, <1>4, <1>6, <2>1, <2>3 DEF Waited, Kids
  <2>5. ASSUME NEW c \in Waited(s, wparent', wwaitFor', a) PROVE s[c] # "ZOMBIE"
    <3>1. /\ c \in Proc /\ wstate[c] # "NONE" /\ c # Idle /\ wparent'[c] = a
          /\ wwaitFor[a] = AnyChild \/ c = wwaitFor[a]
      BY <1>6, <2>3 DEF Waited, Kids
    <3>2. CASE wparent[c] = p
      <4>1. c \in Walk!Children(p) /\ a = InitProc
        BY <1>3, <1>4, <3>1, <3>2
      <4>2. wstate[c] # "ZOMBIE" /\ c # p
        BY <1>2, <2>1, <3>2, <4>1
      <4> QED BY <1>5, <3>1, <4>2
    <3>3. CASE wparent[c] # p
      <4>1. wparent[c] = a
        BY <1>3, <1>4, <3>1, <3>3
      <4>2. wstate[c] # "ZOMBIE" /\ c # p
        BY <2>1, <2>2, <3>1, <4>1 DEF Waited, Kids
      <4> QED BY <1>5, <3>1, <4>2
    <3> QED BY <3>2, <3>3
  <2> QED BY <2>2, <2>4, <2>5
<1>12. Ends'
  BY <1>3 DEF Ends
<1>13. Lists(proc_list', wstate') /\ Parents(proc_list', wstate', wparent') /\ WaitsAsleep(wstate', wparent', wwaitFor')
  BY <1>7, <1>8, <1>10, <1>11
<1>14. WalkInv'
  BY <1>8, <1>9, <1>12, <1>13 DEF WalkInv, Lists, Once, Parents, Ahead, WaitsAsleep, Waited, Kids
<1> QED BY <1>8, <1>14

(* A step of which the places, the end and the turns are known.            *)
LEMMA WalkInvAfter ==
  ASSUME NEW l, NEW s, NEW par, proc_list' = l, wstate' = s, wparent' = par,
         Lists(l, s), Parents(l, s, par), WaitsAsleep(s, par, wwaitFor'),
         WPlaces', Ends', Turns'
  PROVE  WalkInv'
<1>1. Lists(proc_list', wstate') /\ Parents(proc_list', wstate', wparent') /\ WaitsAsleep(wstate', wparent', wwaitFor')
  OBVIOUS
<1> QED BY <1>1 DEF WalkInv, Lists, Once, Parents, Ahead, WaitsAsleep, Waited, Kids

LEMMA WalkYields ==
  ASSUME WalkInv, NEW p \in Proc, Walk!do_yield(p)
  PROVE  WalkInv' /\ InTurn
<1>0. Idle \in Proc /\ InitProc \in Proc \ {Idle}
  BY SchedAssumption, ProcessAssumption
<1>1. /\ wpc' = [wpc EXCEPT ![p] = "trapret"] /\ p \in Proc \ {Idle, InitProc}
      /\ UNCHANGED <<proc_list, wstate, wcurrent, wparent, wexiting, wwaitFor, whalted,
                     seen>>
  BY DEF Walk!do_yield, Walk!Goes, Walk!User
<1>2. Turns' /\ InTurn
  BY <1>1, SameStep
<1>3. WPlaces'
  BY <1>0, <1>1 DEF WalkInv, WPlaces, WPlace
<1>4. Ends'
  BY <1>1 DEF WalkInv, Ends
<1>5. /\ Lists(proc_list, wstate) /\ Parents(proc_list, wstate, wparent)
      /\ WaitsAsleep(wstate, wparent, wwaitFor)
  BY DEF WalkInv
<1> QED BY <1>1, <1>2, <1>3, <1>4, <1>5, WalkInvAfter

LEMMA WalkTicks ==
  ASSUME WalkInv, NEW p \in Proc, Walk!Tick(p)
  PROVE  WalkInv' /\ InTurn
<1>0. Idle \in Proc /\ InitProc \in Proc \ {Idle}
  BY SchedAssumption, ProcessAssumption
<1>1. /\ wpc' = [wpc EXCEPT ![p] = IF p \in Walk!User THEN "trapret" ELSE wpc[p]]
      /\ UNCHANGED <<proc_list, wstate, wcurrent, wparent, wexiting, wwaitFor, whalted,
                     seen>>
  BY DEF Walk!Tick, Walk!Goes
<1>2. Turns' /\ InTurn
  BY <1>1, SameStep
<1>3. WPlaces'
  <2>1. CASE p \in Walk!User
    <3>1. wpc' = [wpc EXCEPT ![p] = "trapret"] /\ p \in Proc \ {Idle, InitProc}
      BY <1>1, <2>1 DEF Walk!User
    <3> QED BY <1>0, <1>1, <3>1 DEF WalkInv, WPlaces, WPlace
  <2>2. CASE p \notin Walk!User
    <3>1. wpc' = wpc
      BY <1>1, <2>2 DEF WalkInv, WPlaces
    <3> QED BY <1>1, <3>1 DEF WalkInv, WPlaces
  <2> QED BY <2>1, <2>2
<1>4. Ends'
  BY <1>1 DEF WalkInv, Ends
<1>5. /\ Lists(proc_list, wstate) /\ Parents(proc_list, wstate, wparent)
      /\ WaitsAsleep(wstate, wparent, wwaitFor)
  BY DEF WalkInv
<1> QED BY <1>1, <1>2, <1>3, <1>4, <1>5, WalkInvAfter

LEMMA WalkReturns ==
  ASSUME WalkInv, NEW p \in Proc, Walk!TrapReturn(p)
  PROVE  WalkInv' /\ InTurn
<1>0. Idle \in Proc /\ InitProc \in Proc \ {Idle}
  BY SchedAssumption, ProcessAssumption
<1>1. /\ wpc[p] = "trapret" /\ wpc' = [wpc EXCEPT ![p] = "run"]
      /\ Walk!schedule(proc_list, wstate) \/ Walk!Stays(proc_list, wstate)
      /\ UNCHANGED <<wparent, wexiting, wwaitFor, whalted>>
  BY DEF Walk!TrapReturn, Walk!Goes, Walk!At
<1>2. /\ Lists(proc_list, wstate) /\ Parents(proc_list, wstate, wparent)
      /\ WaitsAsleep(wstate, wparent, wwaitFor) /\ Keeps(proc_list, wstate) /\ wstate \in [Proc -> WState]
      /\ (wcurrent # Idle => wstate[wcurrent] # "NONE")
  BY NoChange DEF WalkInv, WPlaces
<1>3. /\ proc_list' = proc_list /\ wstate' = wstate /\ wcurrent' \in Proc
      /\ (wcurrent' # Idle => wstate[wcurrent'] = "RUNNABLE") /\ Turns' /\ InTurn
  <2>1. CASE Walk!schedule(proc_list, wstate)
    BY <1>2, <2>1, ScheduleStep
  <2>2. CASE Walk!Stays(proc_list, wstate)
    BY <1>2, <2>2, StaysStep DEF WalkInv, WPlaces
  <2> QED BY <1>1, <2>1, <2>2
<1>4. WPlaces'
  BY <1>0, <1>1, <1>3 DEF WalkInv, WPlaces, WPlace
<1>5. Ends'
  BY <1>1, <1>3 DEF WalkInv, Ends
<1> QED BY <1>1, <1>2, <1>3, <1>4, <1>5, WalkInvAfter

LEMMA WalkIdles ==
  ASSUME WalkInv, Walk!cpu_idle
  PROVE  WalkInv' /\ InTurn
<1>1. Walk!schedule(proc_list, wstate) /\ UNCHANGED <<wparent, wexiting, wpc, wwaitFor, whalted>>
  BY DEF Walk!cpu_idle
<1>2. /\ Lists(proc_list, wstate) /\ Parents(proc_list, wstate, wparent)
      /\ WaitsAsleep(wstate, wparent, wwaitFor) /\ Keeps(proc_list, wstate) /\ wstate \in [Proc -> WState]
      /\ (wcurrent # Idle => wstate[wcurrent] # "NONE")
  BY NoChange DEF WalkInv, WPlaces
<1>3. /\ proc_list' = proc_list /\ wstate' = wstate /\ wcurrent' \in Proc
      /\ (wcurrent' # Idle => wstate[wcurrent'] = "RUNNABLE") /\ Turns' /\ InTurn
  BY <1>1, <1>2, ScheduleStep
<1>4. WPlaces'
  BY <1>1, <1>3 DEF WalkInv, WPlaces
<1>5. Ends'
  BY <1>1, <1>3 DEF WalkInv, Ends
<1> QED BY <1>1, <1>2, <1>3, <1>4, <1>5, WalkInvAfter

(* do_fork: the child stands before everybody, its parent with them.       *)
LEMMA WalkForks ==
  ASSUME WalkInv, NEW p \in Proc, NEW c \in Proc, Walk!do_fork(p, c)
  PROVE  WalkInv' /\ InTurn
<1> DEFINE l   == <<c>> \o proc_list
           s   == [wstate EXCEPT ![c] = "RUNNABLE"]
           par == [wparent EXCEPT ![c] = p]
<1>0. Idle \in Proc /\ InitProc \in Proc \ {Idle}
  BY SchedAssumption, ProcessAssumption
<1>1. /\ wparent' = par /\ wexiting' = [wexiting EXCEPT ![c] = FALSE]
      /\ wpc' = [wpc EXCEPT ![c] = "run", ![p] = IF p = InitProc THEN "run" ELSE "trapret"]
      /\ Walk!Stays(l, s) /\ wstate[c] = "NONE" /\ ~whalted /\ UNCHANGED <<wwaitFor, whalted>>
      /\ wcurrent = p /\ (p \in Proc \ {Idle, InitProc} \/ wpc[p] = "boot")
  BY DEF Walk!do_fork, Walk!At, Walk!User
<1>2. /\ wstate \in [Proc -> WState] /\ wparent \in [Proc -> Proc]
      /\ c \in Proc \ {Idle, InitProc} /\ p \in Proc \ {Idle, c} /\ wstate[p] = "RUNNABLE"
  BY <1>0, <1>1 DEF WalkInv, WPlaces
<1>3. /\ s \in [Proc -> WState] /\ s[c] = "RUNNABLE" /\ \A a \in Proc \ {c} : s[a] = wstate[a]
  BY <1>2 DEF WState
<1>4. /\ par \in [Proc -> Proc] /\ par[c] = p /\ \A a \in Proc \ {c} : par[a] = wparent[a]
  BY <1>2
<1>5. /\ Lists(l, s) /\ Keeps(l, s) /\ Same(l, s)
      /\ \A a \in Proc \ {Idle} : wstate[a] # "NONE" => Ahead(l, c, a)
  BY <1>1, <1>2, ForkedList DEF WalkInv
<1> HIDE DEF l, s, par
<1>6. /\ proc_list' = l /\ wstate' = s /\ wcurrent' = wcurrent /\ Turns' /\ InTurn
  <2>1. (wcurrent # Idle => s[wcurrent] # "NONE")
        /\ \A a \in Proc \ {Idle} : wstate[a] = "RUNNABLE" => s[a] = "RUNNABLE"
    BY <1>1, <1>2, <1>3
  <2> QED BY <1>1, <1>5, <2>1, StaysStep
<1>7. WPlaces'
  <2>1. wpc' \in [Proc -> WPlace] /\ wexiting' \in [Proc -> BOOLEAN]
    BY <1>1, <1>2 DEF WalkInv, WPlaces, WPlace
  <2>2. /\ wpc'[Idle] = "run" /\ wpc'[InitProc] \in {"boot", "run", "wait"}
        /\ \A a \in Proc \ {InitProc} : wpc'[a] # "boot"
    BY <1>0, <1>1, <1>2 DEF WalkInv, WPlaces
  <2>3. s[Idle] = "RUNNABLE" /\ s[InitProc] \in {"RUNNABLE", "SLEEPING"}
    BY <1>0, <1>2, <1>3 DEF WalkInv, WPlaces
  <2>4. wwaitFor' \in [Proc -> Proc \cup {AnyChild}] /\ wwaitFor'[InitProc] = AnyChild
    BY <1>1 DEF WalkInv, WPlaces
  <2> QED BY <1>1, <1>2, <1>3, <1>4, <1>6, <2>1, <2>2, <2>3, <2>4 DEF WPlaces
<1>8. Parents(l, s, par)
  <2>1. par[InitProc] = Idle
    BY <1>0, <1>2, <1>4 DEF WalkInv, Parents
  <2>2. ASSUME NEW a \in Proc \ {Idle, InitProc}, s[a] # "NONE"
        PROVE  /\ par[a] # Idle /\ s[par[a]] \notin {"NONE", "ZOMBIE"}
               /\ Ahead(l, a, par[a]) /\ Ahead(l, a, InitProc)
    <3>1. CASE a = c
      <4>1. wstate[InitProc] # "NONE"
        BY <1>0 DEF WalkInv, WPlaces
      <4> QED BY <1>0, <1>2, <1>3, <1>4, <1>5, <3>1, <4>1
    <3>2. CASE a # c
      <4>1. /\ wstate[a] # "NONE" /\ par[a] = wparent[a] /\ wparent[a] \in Proc
        BY <1>2, <1>3, <1>4, <2>2, <3>2
      <4>2. /\ wparent[a] # Idle /\ wstate[wparent[a]] \notin {"NONE", "ZOMBIE"}
            /\ Ahead(proc_list, a, wparent[a]) /\ Ahead(proc_list, a, InitProc)
        BY <4>1 DEF WalkInv, Parents
      <4>3. s[wparent[a]] = wstate[wparent[a]] /\ s[InitProc] # "NONE"
        BY <1>0, <1>1, <1>2, <1>3, <4>1, <4>2 DEF WalkInv, WPlaces
      <4> QED BY <1>5, <2>2, <4>1, <4>2, <4>3 DEF Same
    <3> QED BY <3>1, <3>2
  <2> QED BY <2>1, <2>2 DEF Parents
<1>9. WaitsAsleep(s, par, wwaitFor')
  <2> SUFFICES ASSUME NEW a \in Proc, s[a] = "SLEEPING"
               PROVE  /\ Waited(s, par, wwaitFor', a) # {}
                      /\ \A e \in Waited(s, par, wwaitFor', a) : s[e] # "ZOMBIE"
    BY DEF WaitsAsleep
  <2>1. wstate[a] = "SLEEPING" /\ a # c /\ a # p
    BY <1>2, <1>3
  <2>2. /\ Waited(wstate, wparent, wwaitFor, a) # {}
        /\ \A e \in Waited(wstate, wparent, wwaitFor, a) : wstate[e] # "ZOMBIE"
    BY <2>1 DEF WalkInv, WaitsAsleep
  <2>3. Waited(wstate, wparent, wwaitFor, a) = Waited(s, par, wwaitFor', a)
    BY <1>1, <1>3, <1>4, <2>1 DEF Waited, Kids
  <2>4. \A e \in Waited(s, par, wwaitFor', a) : s[e] = wstate[e]
    BY <1>3, <1>4, <2>1 DEF Waited, Kids
  <2> QED BY <2>2, <2>3, <2>4
<1>10. Ends'
  BY <1>1 DEF Ends
<1> QED BY <1>1, <1>5, <1>6, <1>7, <1>8, <1>9, <1>10, WalkInvAfter

LEMMA WalkKills ==
  ASSUME WalkInv, NEW p \in Proc, NEW t \in Proc, Walk!do_kill(p, t)
  PROVE  WalkInv' /\ InTurn
<1> DEFINE s == Walk!Woken(wstate, t)
<1>0. Idle \in Proc /\ InitProc \in Proc \ {Idle}
  BY SchedAssumption, ProcessAssumption
<1>1. /\ wexiting' = [wexiting EXCEPT ![t] = TRUE] /\ wpc' = [wpc EXCEPT ![p] = "trapret"]
      /\ Walk!Stays(proc_list, s) /\ ~whalted
      /\ UNCHANGED <<wparent, wwaitFor, whalted>>
      /\ wcurrent = p /\ p \in Proc \ {Idle, InitProc} /\ t # Idle
  BY DEF Walk!do_kill, Walk!At, Walk!Goes, Walk!User
<1>2. /\ wstate \in [Proc -> WState] /\ wparent \in [Proc -> Proc] /\ wstate[p] = "RUNNABLE"
  BY <1>1 DEF WalkInv, WPlaces
<1>3. /\ s \in [Proc -> WState]
      /\ \A a \in Proc : \/ s[a] = wstate[a]
                         \/ wstate[a] = "SLEEPING" /\ s[a] = "RUNNABLE"
  BY <1>2 DEF Walk!Woken, WState
<1> HIDE DEF s
<1>4. \A a \in Proc : s[a] = "NONE" <=> wstate[a] = "NONE"
  BY <1>3
<1>5. Lists(proc_list, s) /\ Keeps(proc_list, s)
  BY <1>4 DEF WalkInv, Lists, Keeps
<1>6. /\ proc_list' = proc_list /\ wstate' = s /\ wcurrent' = wcurrent /\ Turns' /\ InTurn
  <2>1. (wcurrent # Idle => s[wcurrent] # "NONE")
        /\ \A a \in Proc \ {Idle} : wstate[a] = "RUNNABLE" => s[a] = "RUNNABLE"
    BY <1>1, <1>2, <1>3
  <2> QED BY <1>1, <1>5, <2>1, StaysStep
<1>7. WPlaces'
  <2>1. wpc' \in [Proc -> WPlace] /\ wexiting' \in [Proc -> BOOLEAN]
    BY <1>1 DEF WalkInv, WPlaces, WPlace
  <2>2. /\ wpc'[Idle] = "run" /\ wpc'[InitProc] \in {"boot", "run", "wait"}
        /\ \A a \in Proc \ {InitProc} : wpc'[a] # "boot"
    BY <1>0, <1>1 DEF WalkInv, WPlaces
  <2>3. /\ s[Idle] = "RUNNABLE" /\ s[InitProc] \in {"RUNNABLE", "SLEEPING"}
        /\ s[p] = "RUNNABLE"
    BY <1>0, <1>2, <1>3 DEF WalkInv, WPlaces
  <2>4. wwaitFor' \in [Proc -> Proc \cup {AnyChild}] /\ wwaitFor'[InitProc] = AnyChild
    BY <1>1 DEF WalkInv, WPlaces
  <2> QED BY <1>1, <1>2, <1>3, <1>6, <2>1, <2>2, <2>3, <2>4 DEF WPlaces
<1>8. Parents(proc_list, s, wparent)
  <2> SUFFICES ASSUME NEW a \in Proc \ {Idle, InitProc}, s[a] # "NONE"
               PROVE  /\ wparent[a] # Idle /\ s[wparent[a]] \notin {"NONE", "ZOMBIE"}
                      /\ Ahead(proc_list, a, wparent[a]) /\ Ahead(proc_list, a, InitProc)
    BY DEF WalkInv, Parents
  <2>1. /\ wparent[a] # Idle /\ wstate[wparent[a]] \notin {"NONE", "ZOMBIE"}
        /\ Ahead(proc_list, a, wparent[a]) /\ Ahead(proc_list, a, InitProc)
    BY <1>4 DEF WalkInv, Parents
  <2>2. wparent[a] \in Proc
    BY <1>2
  <2> QED BY <1>3, <2>1, <2>2
<1>9. WaitsAsleep(s, wparent, wwaitFor')
  <2> SUFFICES ASSUME NEW a \in Proc, s[a] = "SLEEPING"
               PROVE  /\ Waited(s, wparent, wwaitFor', a) # {}
                      /\ \A e \in Waited(s, wparent, wwaitFor', a) : s[e] # "ZOMBIE"
    BY DEF WaitsAsleep
  <2>1. wstate[a] = "SLEEPING"
    BY <1>3
  <2>2. /\ Waited(wstate, wparent, wwaitFor, a) # {}
        /\ \A e \in Waited(wstate, wparent, wwaitFor, a) : wstate[e] # "ZOMBIE"
    BY <2>1 DEF WalkInv, WaitsAsleep
  <2>3. Waited(wstate, wparent, wwaitFor, a) = Waited(s, wparent, wwaitFor', a)
    BY <1>1, <1>4 DEF Waited, Kids
  <2>4. \A e \in Waited(s, wparent, wwaitFor', a) : e \in Proc
    BY DEF Waited, Kids
  <2> QED BY <1>3, <2>2, <2>3, <2>4
<1>10. Ends'
  BY <1>1 DEF Ends
<1> QED BY <1>1, <1>5, <1>6, <1>7, <1>8, <1>9, <1>10, WalkInvAfter

(* Who waits is no idle and runs.                                          *)
LEMMA InWaitIs ==
  ASSUME WalkInv, NEW p \in Proc, NEW q, Walk!InWait(p, q)
  PROVE  ~whalted /\ wcurrent = p /\ p # Idle /\ wstate[p] = "RUNNABLE"
<1>1. ~whalted /\ wcurrent = p /\ (p # Idle \/ wpc[p] = "wait")
  BY DEF Walk!InWait, Walk!At
<1>2. p # Idle
  BY <1>1 DEF WalkInv, WPlaces
<1> QED BY <1>1, <1>2 DEF WalkInv, WPlaces

(* The zombie is nobody's parent, and its parent does not sleep.           *)
LEMMA WalkReaps ==
  ASSUME WalkInv, NEW p \in Proc, NEW q \in Proc \cup {AnyChild}, NEW z \in Proc,
         Walk!Reap(p, q, z)
  PROVE  WalkInv' /\ InTurn
<1> DEFINE l == Walk!RemoveAt(proc_list, CHOOSE i \in DOMAIN proc_list : proc_list[i] = z)
           s == [wstate EXCEPT ![z] = "NONE"]
<1>0. Idle \in Proc /\ InitProc \in Proc \ {Idle}
  BY SchedAssumption, ProcessAssumption
<1>1. /\ wstate[z] = "ZOMBIE" /\ wparent[z] = p /\ z # Idle
      /\ wwaitFor' = [wwaitFor EXCEPT ![p] = AnyChild]
      /\ UNCHANGED <<wparent, wexiting, whalted>>
      /\ \/ p = InitProc /\ wpc' = [wpc EXCEPT ![p] = "run"] /\ Walk!schedule(l, s)
         \/ p # InitProc /\ wpc' = [wpc EXCEPT ![p] = "trapret"] /\ Walk!Stays(l, s)
  BY DEF Walk!Reap, Walk!WaitedFor, Walk!Children, Walk!Goes, Walk!WaitsFor
<1>2. ~whalted /\ wcurrent = p /\ p # Idle /\ wstate[p] = "RUNNABLE"
  BY InWaitIs DEF Walk!Reap
<1>3. /\ wstate \in [Proc -> WState] /\ wparent \in [Proc -> Proc]
      /\ z \in Proc \ {Idle, InitProc} /\ p # z
  BY <1>1, <1>2 DEF WalkInv, WPlaces
<1>4. /\ s \in [Proc -> WState] /\ s[z] = "NONE" /\ \A a \in Proc \ {z} : s[a] = wstate[a]
  BY <1>3 DEF WState
<1>5. Lists(l, s) /\ Keeps(l, s) /\ Same(l, s)
  <2>1. l = Freed(z)
    BY DEF Walk!RemoveAt, RemoveAt, Freed
  <2> QED BY <1>1, <1>3, <2>1, ReapedList DEF WalkInv
<1> HIDE DEF l, s
<1>6. /\ proc_list' = l /\ wstate' = s /\ wcurrent' \in Proc
      /\ (wcurrent' # Idle => s[wcurrent'] = "RUNNABLE") /\ Turns' /\ InTurn
  <2>1. /\ wcurrent # Idle => s[wcurrent] # "NONE"
        /\ \A a \in Proc \ {Idle} : wstate[a] = "RUNNABLE" => s[a] = "RUNNABLE"
    BY <1>1, <1>2, <1>3, <1>4
  <2>2. CASE Walk!schedule(l, s)
    BY <1>4, <1>5, <2>1, <2>2, ScheduleStep
  <2>3. CASE Walk!Stays(l, s)
    <3>1. proc_list' = l /\ wstate' = s /\ wcurrent' = wcurrent /\ Turns' /\ InTurn
      BY <1>5, <2>1, <2>3, StaysStep
    <3> QED BY <1>2, <1>3, <1>4, <3>1
  <2> QED BY <1>1, <2>2, <2>3
<1>7. WPlaces'
  <2>1. wpc' \in [Proc -> WPlace]
    BY <1>1 DEF WalkInv, WPlaces, WPlace
  <2>2. /\ wpc'[Idle] = "run" /\ wpc'[InitProc] \in {"boot", "run", "wait"}
        /\ \A a \in Proc \ {InitProc} : wpc'[a] # "boot"
    BY <1>0, <1>1, <1>2 DEF WalkInv, WPlaces
  <2>3. s[Idle] = "RUNNABLE" /\ s[InitProc] \in {"RUNNABLE", "SLEEPING"}
    BY <1>0, <1>3, <1>4 DEF WalkInv, WPlaces
  <2>4. wparent' \in [Proc -> Proc] /\ wexiting' \in [Proc -> BOOLEAN]
    BY <1>1 DEF WalkInv, WPlaces
  <2>5. wwaitFor' \in [Proc -> Proc \cup {AnyChild}] /\ wwaitFor'[InitProc] = AnyChild
    BY <1>0, <1>1 DEF WalkInv, WPlaces
  <2> QED BY <1>4, <1>6, <2>1, <2>2, <2>3, <2>4, <2>5 DEF WPlaces
<1>8. Parents(l, s, wparent)
  <2>1. wparent[InitProc] = Idle
    BY DEF WalkInv, Parents
  <2>2. ASSUME NEW a \in Proc \ {Idle, InitProc}, s[a] # "NONE"
        PROVE  /\ wparent[a] # Idle /\ s[wparent[a]] \notin {"NONE", "ZOMBIE"}
               /\ Ahead(l, a, wparent[a]) /\ Ahead(l, a, InitProc)
    <3>1. a # z /\ wstate[a] # "NONE" /\ wparent[a] \in Proc
      BY <1>3, <1>4, <2>2
    <3>2. /\ wparent[a] # Idle /\ wstate[wparent[a]] \notin {"NONE", "ZOMBIE"}
          /\ Ahead(proc_list, a, wparent[a]) /\ Ahead(proc_list, a, InitProc)
      BY <3>1 DEF WalkInv, Parents
    <3>3. s[wparent[a]] = wstate[wparent[a]] /\ s[InitProc] # "NONE"
      BY <1>0, <1>1, <1>3, <1>4, <3>1, <3>2 DEF WalkInv, WPlaces
    <3> QED BY <1>5, <2>2, <3>2, <3>3 DEF Same
  <2> QED BY <2>1, <2>2 DEF Parents
<1>9. WaitsAsleep(s, wparent, wwaitFor')
  <2> SUFFICES ASSUME NEW a \in Proc, s[a] = "SLEEPING"
               PROVE  /\ Waited(s, wparent, wwaitFor', a) # {}
                      /\ \A e \in Waited(s, wparent, wwaitFor', a) : s[e] # "ZOMBIE"
    BY DEF WaitsAsleep
  <2>1. wstate[a] = "SLEEPING" /\ a # p
    BY <1>2, <1>3, <1>4
  <2>2. /\ Waited(wstate, wparent, wwaitFor, a) # {}
        /\ \A e \in Waited(wstate, wparent, wwaitFor, a) : wstate[e] # "ZOMBIE"
    BY <2>1 DEF WalkInv, WaitsAsleep
  <2>3. Waited(wstate, wparent, wwaitFor, a) = Waited(s, wparent, wwaitFor', a)
    BY <1>1, <1>4, <2>1 DEF Waited, Kids
  <2>4. \A e \in Waited(s, wparent, wwaitFor', a) : e \in Proc \ {z}
    BY <1>1, <2>1 DEF Waited, Kids
  <2> QED BY <1>4, <2>2, <2>3, <2>4
<1>10. Ends'
  BY <1>1, <1>2 DEF Ends
<1> QED BY <1>1, <1>5, <1>6, <1>7, <1>8, <1>9, <1>10, WalkInvAfter

LEMMA WalkSleeps ==
  ASSUME WalkInv, NEW p \in Proc, NEW q \in Proc \cup {AnyChild}, Walk!WaitSleep(p, q)
  PROVE  WalkInv' /\ InTurn
<1> DEFINE s == [wstate EXCEPT ![p] = "SLEEPING"]
<1>0. Idle \in Proc /\ InitProc \in Proc \ {Idle}
  BY SchedAssumption, ProcessAssumption
<1>1. /\ wpc' = [wpc EXCEPT ![p] = "wait"] /\ Walk!schedule(proc_list, s)
      /\ wwaitFor' = [wwaitFor EXCEPT ![p] = q]
      /\ UNCHANGED <<wparent, wexiting, whalted>>
  BY DEF Walk!WaitSleep, Walk!Goes, Walk!WaitsFor
<1>2. ~whalted /\ wcurrent = p /\ p # Idle /\ wstate[p] = "RUNNABLE"
  BY InWaitIs DEF Walk!WaitSleep
<1>3. /\ wstate \in [Proc -> WState] /\ wparent \in [Proc -> Proc]
      /\ wwaitFor' \in [Proc -> Proc \cup {AnyChild}] /\ wwaitFor'[InitProc] = AnyChild
      /\ wwaitFor'[p] = q /\ \A a \in Proc \ {p} : wwaitFor'[a] = wwaitFor[a]
  <2>1. wwaitFor \in [Proc -> Proc \cup {AnyChild}] /\ wwaitFor[InitProc] = AnyChild
    BY DEF WalkInv, WPlaces
  <2>2. p = InitProc => q = AnyChild
    BY <2>1 DEF Walk!WaitSleep, Walk!InWait
  <2> QED BY <1>1, <2>1, <2>2 DEF WalkInv, WPlaces
<1>4. /\ s \in [Proc -> WState] /\ s[p] = "SLEEPING" /\ \A a \in Proc \ {p} : s[a] = wstate[a]
  BY <1>3 DEF WState
<1> HIDE DEF s
<1>5. \A a \in Proc : s[a] = "NONE" <=> wstate[a] = "NONE"
  BY <1>2, <1>4
<1>6. Lists(proc_list, s) /\ Keeps(proc_list, s)
  BY <1>5 DEF WalkInv, Lists, Keeps
<1>7. /\ proc_list' = proc_list /\ wstate' = s /\ wcurrent' \in Proc
      /\ (wcurrent' # Idle => s[wcurrent'] = "RUNNABLE") /\ Turns' /\ InTurn
  <2>1. wcurrent # Idle => s[wcurrent] # "NONE"
    BY <1>2, <1>4
  <2> QED BY <1>1, <1>4, <1>6, <2>1, ScheduleStep
<1>8. WPlaces'
  <2>1. wpc' \in [Proc -> WPlace]
    BY <1>1 DEF WalkInv, WPlaces, WPlace
  <2>2. /\ wpc'[Idle] = "run" /\ wpc'[InitProc] \in {"boot", "run", "wait"}
        /\ \A a \in Proc \ {InitProc} : wpc'[a] # "boot"
    BY <1>0, <1>1, <1>2 DEF WalkInv, WPlaces
  <2>3. s[Idle] = "RUNNABLE" /\ s[InitProc] \in {"RUNNABLE", "SLEEPING"}
    BY <1>0, <1>2, <1>4 DEF WalkInv, WPlaces
  <2>4. wparent' \in [Proc -> Proc] /\ wexiting' \in [Proc -> BOOLEAN]
    BY <1>1 DEF WalkInv, WPlaces
  <2> QED BY <1>3, <1>4, <1>7, <2>1, <2>2, <2>3, <2>4 DEF WPlaces
<1>9. Parents(proc_list, s, wparent)
  <2> SUFFICES ASSUME NEW a \in Proc \ {Idle, InitProc}, s[a] # "NONE"
               PROVE  /\ wparent[a] # Idle /\ s[wparent[a]] \notin {"NONE", "ZOMBIE"}
                      /\ Ahead(proc_list, a, wparent[a]) /\ Ahead(proc_list, a, InitProc)
    BY DEF WalkInv, Parents
  <2>1. /\ wparent[a] # Idle /\ wstate[wparent[a]] \notin {"NONE", "ZOMBIE"}
        /\ Ahead(proc_list, a, wparent[a]) /\ Ahead(proc_list, a, InitProc)
    BY <1>5 DEF WalkInv, Parents
  <2>2. wparent[a] \in Proc
    BY <1>3
  <2> QED BY <1>4, <2>1, <2>2
<1>10. WaitsAsleep(s, wparent, wwaitFor')
  <2> SUFFICES ASSUME NEW a \in Proc, s[a] = "SLEEPING"
               PROVE  /\ Waited(s, wparent, wwaitFor', a) # {}
                      /\ \A e \in Waited(s, wparent, wwaitFor', a) : s[e] # "ZOMBIE"
    BY DEF WaitsAsleep
  <2>1. CASE a = p
    <3>1. Walk!WaitedFor(p, q) = Waited(s, wparent, wwaitFor', p)
      BY <1>3, <1>5 DEF Walk!WaitedFor, Walk!Children, Waited, Kids
    <3>2. /\ Walk!WaitedFor(p, q) # {}
          /\ \A e \in Walk!WaitedFor(p, q) : wstate[e] # "ZOMBIE"
      BY DEF Walk!WaitSleep
    <3>3. \A e \in Waited(s, wparent, wwaitFor', p) : e \in Proc
      BY DEF Waited, Kids
    <3> QED BY <1>4, <2>1, <3>1, <3>2, <3>3
  <2>2. CASE a # p
    <3>1. wwaitFor'[a] = wwaitFor[a] /\ wstate[a] = "SLEEPING"
      BY <1>3, <1>4, <2>2
    <3>2. /\ Waited(wstate, wparent, wwaitFor, a) # {}
          /\ \A e \in Waited(wstate, wparent, wwaitFor, a) : wstate[e] # "ZOMBIE"
      BY <3>1 DEF WalkInv, WaitsAsleep
    <3>3. Waited(wstate, wparent, wwaitFor, a) = Waited(s, wparent, wwaitFor', a)
      BY <1>5, <3>1 DEF Waited, Kids
    <3>4. \A e \in Waited(s, wparent, wwaitFor', a) : e \in Proc
      BY DEF Waited, Kids
    <3> QED BY <1>4, <3>2, <3>3, <3>4
  <2> QED BY <2>1, <2>2
<1>11. Ends'
  BY <1>1, <1>2 DEF Ends
<1> QED BY <1>1, <1>6, <1>7, <1>8, <1>9, <1>10, <1>11, WalkInvAfter

(* init_main ends, or the thread of init was killed: the kernel stops.     *)
LEMMA WalkPanics ==
  ASSUME WalkInv, Walk!Panics,
         wexiting[InitProc] \/ Kids(wstate, wparent, InitProc) = {}
  PROVE  WalkInv' /\ InTurn
<1>1. /\ UNCHANGED <<proc_list, wstate, wcurrent, wparent, wexiting, wpc, wwaitFor, seen>>
  BY DEF Walk!Panics
<1>2. Turns' /\ InTurn
  BY <1>1, SameStep
<1>3. WPlaces'
  BY <1>1 DEF WalkInv, WPlaces
<1>4. Ends'
  BY <1>1, OnlyInit DEF Ends
<1>5. /\ Lists(proc_list, wstate) /\ Parents(proc_list, wstate, wparent)
      /\ WaitsAsleep(wstate, wparent, wwaitFor)
  BY DEF WalkInv
<1> QED BY <1>1, <1>2, <1>3, <1>4, <1>5, WalkInvAfter

LEMMA WalkWaitsForNone ==
  ASSUME WalkInv, NEW p \in Proc, NEW q \in Proc \cup {AnyChild}, Walk!WaitNone(p, q)
  PROVE  WalkInv' /\ InTurn
<1>0. Idle \in Proc /\ InitProc \in Proc \ {Idle}
  BY SchedAssumption, ProcessAssumption
<1>1. CASE p = InitProc
  <2>1. Walk!Panics /\ q = AnyChild
    BY <1>1 DEF Walk!WaitNone, Walk!InWait, WalkInv, WPlaces
  <2>2. Kids(wstate, wparent, InitProc) = {}
    BY <1>1, <2>1 DEF Walk!WaitNone, Walk!WaitedFor, Walk!Children, Kids
  <2> QED BY <2>1, <2>2, WalkPanics
<1>2. CASE p # InitProc
  <2>1. /\ wpc' = [wpc EXCEPT ![p] = "trapret"]
        /\ wwaitFor' = [wwaitFor EXCEPT ![p] = AnyChild]
        /\ UNCHANGED <<proc_list, wstate, wcurrent, wparent, wexiting, whalted, seen>>
    BY <1>2 DEF Walk!WaitNone, Walk!Goes, Walk!WaitsFor
  <2>2. p \in Proc \ {Idle, InitProc}
    BY <1>2, InWaitIs DEF Walk!WaitNone
  <2>3. Turns' /\ InTurn
    BY <2>1, SameStep
  <2>4. WPlaces'
    BY <1>0, <2>1, <2>2 DEF WalkInv, WPlaces, WPlace
  <2>5. Ends'
    BY <2>1 DEF WalkInv, Ends
  <2>6. wwaitFor'[p] = AnyChild /\ \A a \in Proc \ {p} : wwaitFor'[a] = wwaitFor[a]
    BY <2>1 DEF WalkInv, WPlaces
  <2>7. wstate[p] = "RUNNABLE"
    BY InWaitIs DEF Walk!WaitNone
  <2>8. /\ Lists(proc_list, wstate) /\ Parents(proc_list, wstate, wparent)
        /\ WaitsAsleep(wstate, wparent, wwaitFor')
    BY <2>6, <2>7 DEF WalkInv, WaitsAsleep, Waited
  <2> QED BY <2>1, <2>3, <2>4, <2>5, <2>8, WalkInvAfter
<1> QED BY <1>1, <1>2

(* do_exit from do_wait, from the end of trap() and as a system call.      *)
LEMMA WalkDies ==
  ASSUME WalkInv, NEW p \in Proc,
         Walk!WaitKilled(p) \/ Walk!TrapExit(p) \/ Walk!Exit(p)
  PROVE  WalkInv' /\ InTurn
<1>1. CASE Walk!WaitKilled(p)
  <2>1. ~whalted /\ wcurrent = p /\ wpc[p] = "wait" /\ wexiting[p] /\ Walk!Dies(p)
    BY <1>1 DEF Walk!WaitKilled, Walk!At
  <2>2. CASE p = InitProc
    BY <2>1, <2>2, WalkPanics DEF Walk!Dies
  <2>3. CASE p # InitProc
    <3>1. p \in Proc \ {Idle, InitProc}
      BY <2>1, <2>3 DEF WalkInv, WPlaces
    <3> QED BY <2>1, <2>3, <3>1, WalkExits DEF Walk!Dies
  <2> QED BY <2>2, <2>3
<1>2. CASE Walk!TrapExit(p)
  <2>1. ~whalted /\ wcurrent = p /\ wpc[p] = "trapret" /\ Walk!do_exit(p)
    BY <1>2 DEF Walk!TrapExit, Walk!At
  <2>2. p \in Proc \ {Idle, InitProc}
    BY <2>1 DEF WalkInv, WPlaces
  <2> QED BY <2>1, <2>2, WalkExits
<1>3. CASE Walk!Exit(p)
  <2>1. ~whalted /\ wcurrent = p /\ p \in Proc \ {Idle, InitProc} /\ Walk!do_exit(p)
    BY <1>3 DEF Walk!Exit, Walk!At, Walk!User
  <2> QED BY <2>1, WalkExits
<1> QED BY <1>1, <1>2, <1>3

LEMMA WalkSteps ==
  ASSUME WalkInv, Walk!Next
  PROVE  WalkInv' /\ InTurn
<1>1. CASE Walk!cpu_idle
  BY <1>1, WalkIdles
<1>2. CASE Walk!Halted
  <2>1. UNCHANGED <<proc_list, wstate, wcurrent, wparent, wexiting, wpc, wwaitFor, whalted,
                     seen>>
    BY <1>2 DEF Walk!Halted, Walk!vars
  <2>2. Turns' /\ InTurn
    BY <2>1, SameStep
  <2> QED BY <2>1, <2>2 DEF WalkInv, WPlaces, Lists, Once, Parents, Ahead, WaitsAsleep, Waited, Kids, Ends
<1>3. ASSUME NEW p \in Proc, Walk!Exit(p) \/ Walk!WaitKilled(p) \/ Walk!TrapExit(p)
      PROVE  WalkInv' /\ InTurn
  BY <1>3, WalkDies
<1>4. ASSUME NEW p \in Proc, Walk!do_yield(p) \/ Walk!TrapReturn(p) \/ Walk!Tick(p)
      PROVE  WalkInv' /\ InTurn
  BY <1>4, WalkYields, WalkReturns, WalkTicks
<1>5. ASSUME NEW p \in Proc, NEW q \in Proc,
             Walk!do_fork(p, q) \/ Walk!do_kill(p, q)
      PROVE  WalkInv' /\ InTurn
  BY <1>5, WalkForks, WalkKills
<1>6. ASSUME NEW p \in Proc, NEW q \in Proc \cup {AnyChild},
             \/ Walk!WaitSleep(p, q) \/ Walk!WaitNone(p, q)
             \/ \E z \in Proc : Walk!Reap(p, q, z)
      PROVE  WalkInv' /\ InTurn
  BY <1>6, WalkSleeps, WalkWaitsForNone, WalkReaps
<1> QED BY <1>1, <1>2, <1>3, <1>4, <1>5, <1>6 DEF Walk!Next

LEMMA WalkBegins ==
  ASSUME Walk!Init
  PROVE  WalkInv
<1>0. Idle \in Proc /\ InitProc \in Proc \ {Idle}
  BY SchedAssumption, ProcessAssumption
<1>1. /\ proc_list = <<InitProc>> /\ wcurrent = Idle
      /\ wstate = [p \in Proc |-> IF p \in {Idle, InitProc} THEN "RUNNABLE" ELSE "NONE"]
      /\ wparent = [p \in Proc |-> Idle] /\ wexiting = [p \in Proc |-> FALSE]
      /\ wpc = [p \in Proc |-> CASE p = Idle -> "run" [] p = InitProc -> "boot" [] OTHER -> "end"]
      /\ wwaitFor = [p \in Proc |-> AnyChild]
      /\ whalted = FALSE /\ seen = [p \in Proc |-> {}]
  BY DEF Walk!Init
<1>2. /\ proc_list \in Seq(Proc \ {Idle}) /\ Len(proc_list) = 1 /\ proc_list[1] = InitProc
      /\ \A i \in 1..1 : i = 1
  BY <1>0, <1>1
<1>3. Lists(proc_list, wstate)
  <2>1. ASSUME NEW p \in Proc \ {Idle}
        PROVE  wstate[p] # "NONE" <=> \E i \in 1..Len(proc_list) : proc_list[i] = p
    <3>1. wstate[p] # "NONE" <=> p = InitProc
      BY <1>1
    <3>2. 1 \in 1..Len(proc_list) /\ \A i \in 1..Len(proc_list) : i = 1
      BY <1>2
    <3> QED BY <1>2, <3>1, <3>2
  <2> QED BY <1>2, <2>1 DEF Lists, Once
<1>4. Parents(proc_list, wstate, wparent)
  BY <1>0, <1>1 DEF Parents
<1>5. WaitsAsleep(wstate, wparent, wwaitFor) /\ Ends
  BY <1>1 DEF WaitsAsleep, Ends
<1>6. WPlaces
  <2>1. wpc \in [Proc -> WPlace]
    BY <1>1 DEF WPlace
  <2> QED BY <1>0, <1>1, <2>1 DEF WPlaces, WState
<1>7. Turns
  BY <1>1 DEF Turns
<1> QED BY <1>3, <1>4, <1>5, <1>6, <1>7 DEF WalkInv

LEMMA WalkEnds ==
  ASSUME WalkInv
  PROVE  ListAndWaits
<1>1. Walk!IsInjective(proc_list)
  BY LenProperties DEF WalkInv, Lists, Once, Walk!IsInjective
<1>2. Walk!ToSet(proc_list) = {p \in Proc \ {Idle} : wstate[p] # "NONE"}
  <2>1. /\ proc_list \in Seq(Proc \ {Idle}) /\ DOMAIN proc_list = 1..Len(proc_list)
        /\ \A i \in 1..Len(proc_list) : proc_list[i] \in Proc \ {Idle}
    BY LenProperties, ElementOfSeq DEF WalkInv, Lists
  <2>2. Walk!ToSet(proc_list) = {proc_list[i] : i \in 1..Len(proc_list)}
    BY <2>1 DEF Walk!ToSet
  <2> QED BY <2>1, <2>2 DEF WalkInv, Lists
<1>3. whalted /\ ~wexiting[InitProc] => proc_list = <<InitProc>>
  BY DEF WalkInv, Ends
<1>4. ASSUME NEW p \in Proc, wstate[p] = "SLEEPING"
      PROVE  /\ Walk!WaitedFor(p, wwaitFor[p]) # {}
             /\ \A c \in Walk!WaitedFor(p, wwaitFor[p]) : wstate[c] # "ZOMBIE"
  <2>1. Walk!WaitedFor(p, wwaitFor[p]) = Waited(wstate, wparent, wwaitFor, p)
    BY DEF Waited, Kids, Walk!WaitedFor, Walk!Children
  <2> QED BY <1>4, <2>1 DEF WalkInv, WaitsAsleep
<1> QED BY <1>1, <1>2, <1>3, <1>4 DEF ListAndWaits, Walk!ListAndWaits

LEMMA WalkSame ==
  ASSUME WalkInv, UNCHANGED walk
  PROVE  WalkInv'
<1>1. UNCHANGED <<proc_list, wstate, wcurrent, wparent, wexiting, wpc, wwaitFor, whalted,
                     seen>>
  BY DEF walk
<1> QED BY <1>1 DEF WalkInv, WPlaces, Lists, Once, Parents, Ahead, WaitsAsleep, Waited, Kids, Ends, Turns, Round

LEMMA WalkAlways == AllSpec => []WalkInv
<1>1. AllInit => WalkInv
  BY WalkBegins DEF AllInit
<1>2. ASSUME WalkInv, [AllNext]_<<system, vars, deltas, stride, walk, keyboard>>
      PROVE  WalkInv'
  <2>1. Walk!Next \/ UNCHANGED walk
    BY <1>2 DEF AllNext
  <2> QED BY <1>2, <2>1, WalkSteps, WalkSame
<1> QED BY <1>1, <1>2, PTL DEF AllSpec

(* lab5: proc_list has each process once; init, when it ends by itself, is *)
(* alone; and who sleeps in do_wait has a child that it waits for, the one *)
(* with a pid or any, and none of those is a zombie.                       *)
THEOREM ListAndWaitsHolds == AllSpec => []ListAndWaits
<1> QED BY WalkAlways, WalkEnds, PTL

(* lab5: nobody gets the CPU a second time while a process that could run  *)
(* waits for its first.                                                    *)
THEOREM TurnsInOrderHolds == AllSpec => TurnsInOrder
<1> DEFINE Turn == wcurrent' # wcurrent =>
                     \A p \in Proc \ {wcurrent', Idle} :
                       wstate[p] = "RUNNABLE" /\ wstate'[p] = "RUNNABLE" /\ p # wcurrent
                         => wcurrent' \notin seen[p]
<1>1. ASSUME WalkInv, [AllNext]_<<system, vars, deltas, stride, walk, keyboard>>
      PROVE  [Turn]_(Walk!vars)
  <2>1. Walk!Next \/ UNCHANGED walk
    BY <1>1 DEF AllNext
  <2>2. CASE Walk!Next
    BY <1>1, <2>2, WalkSteps DEF InTurn
  <2>3. CASE UNCHANGED walk
    BY <2>3 DEF walk
  <2> QED BY <2>1, <2>2, <2>3
<1>2. TurnsInOrder <=> [][Turn]_(Walk!vars)
  BY DEF TurnsInOrder, Walk!TurnsInOrder
<1> QED BY <1>1, <1>2, WalkAlways, PTL DEF AllSpec
=============================================================================

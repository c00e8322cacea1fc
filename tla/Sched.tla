-------------------------------- MODULE Sched --------------------------------
(***************************************************************************)
(* The scheduler core of the uCore kernel (lab8/kern/schedule): the run    *)
(* queue, wakeup_proc, schedule and the round-robin class.  The C code is  *)
(* a set of functions that update global structures; each is an operator   *)
(* here that maps one scheduler record to the next, so that a kernel       *)
(* operation is the composition of the functions it calls, in their order. *)
(*                                                                         *)
(* A scheduler record s has the fields                                     *)
(*   current  the process on the (only) CPU                                *)
(*   state    proc->state, "NONE" for a slot that holds no proc_struct     *)
(*   wait     proc->wait_state, "none" for 0                               *)
(*   resched  proc->need_resched                                           *)
(*   slice    proc->time_slice                                             *)
(*   runq     rq->run_list, head first                                     *)
(*   ok       no assert() of the functions below has failed so far         *)
(***************************************************************************)
EXTENDS Timers

CONSTANTS
  Proc,      \* the process slots (a slot is also the pid of its process)
  Idle,      \* idleproc
  MaxSlice   \* rq->max_time_slice

ASSUME SchedAssumption == Idle \in Proc /\ MaxSlice \in Nat \ {0}

State == {"NONE", "UNINIT", "SLEEPING", "RUNNABLE", "ZOMBIE"}

(* The wait states that carry the WT_INTERRUPTED bit, and all of them.     *)
Interruptible == {"WT_CHILD", "WT_TIMER", "WT_KBD"}
WaitState     == Interruptible \cup {"WT_KSEM", "none"}

Queued(s) == {s.runq[i] : i \in DOMAIN s.runq}

SchedRecord ==
  [current : Proc, state : [Proc -> State], wait : [Proc -> WaitState],
   resched : [Proc -> BOOLEAN], slice : [Proc -> 0..MaxSlice],
   runq : Seq(Proc), ok : BOOLEAN]

-----------------------------------------------------------------------------
(* sched_class_enqueue and RR_enqueue: idle is never queued; a used-up time *)
(* slice is refilled.  The assert wants a process that is on no queue.      *)
(* Mutants: idle is queued like any other; the queue is a stack.           *)
EnqueueIdle(s, p) ==
  [s EXCEPT !.ok       = @ /\ p \notin Queued(s),
            !.runq     = Append(@, p),
            !.slice[p] = IF @ = 0 THEN MaxSlice ELSE @]
EnqueueFront(s, p) ==
  IF p = Idle THEN s
  ELSE [s EXCEPT !.runq = <<p>> \o @,
                 !.slice[p] = IF @ = 0 THEN MaxSlice ELSE @]

Enqueue(s, p) ==
  IF p = Idle THEN s
  ELSE [s EXCEPT !.ok       = @ /\ p \notin Queued(s),
                 !.runq     = Append(@, p),
                 !.slice[p] = IF @ = 0 \/ @ > MaxSlice THEN MaxSlice ELSE @]

(* wakeup_proc: makes p runnable and queues it, unless p is still running  *)
(* (an interrupt that wakes a process on its way into schedule()).         *)
WakeupProc(s, p) ==
  LET a == [s EXCEPT !.ok = @ /\ s.state[p] # "ZOMBIE"]
      r == [a EXCEPT !.state[p] = "RUNNABLE", !.wait[p] = "none"]
  IN  IF s.state[p] = "RUNNABLE" THEN a
      ELSE IF p = s.current THEN r
      ELSE Enqueue(r, p)

(* The sequences that list the elements of S in the order of w.            *)
InOrder(S, w) ==
  {v \in UNION {[1..m -> S] : m \in 0..Len(w)} :
     /\ {v[i] : i \in DOMAIN v} = S
     /\ \A i, j \in DOMAIN v : i < j =>
          \E a, b \in DOMAIN w : a < b /\ w[a] = v[i] /\ w[b] = v[j]}

(* wakeup_proc of each process of the set W, none of them runnable, in     *)
(* closed form: v lists those other than the current process.              *)
WakeAll(s, W, v) ==
  [s EXCEPT
     !.ok    = @ /\ \A p \in W : s.state[p] # "ZOMBIE" /\ p \notin Queued(s),
     !.state = [p \in Proc |-> IF p \in W THEN "RUNNABLE" ELSE @[p]],
     !.wait  = [p \in Proc |-> IF p \in W THEN "none" ELSE @[p]],
     !.slice = [p \in Proc |-> IF p \in W \ {s.current} /\ @[p] = 0
                               THEN MaxSlice ELSE @[p]],
     !.runq  = @ \o v]

(* schedule: a runnable current goes to the tail, the head of the queue is *)
(* dispatched (RR_pick_next, RR_dequeue, proc_run), idle if there is none. *)
Schedule(s) ==
  LET a == [s EXCEPT !.resched[s.current] = FALSE]
      b == IF a.state[a.current] = "RUNNABLE" THEN Enqueue(a, a.current) ELSE a
  IN  IF b.runq = <<>>
      THEN [b EXCEPT !.current = Idle]
      ELSE [b EXCEPT !.current = Head(b.runq), !.runq = Tail(b.runq)]

(* sched_class_proc_tick and RR_proc_tick, for the current process.        *)
(* Mutant: the slice is counted down past zero.                            *)
ProcTickBelow(s) ==
  LET p == s.current
  IN  IF p = Idle
      THEN [s EXCEPT !.resched[p] = TRUE]
      ELSE [s EXCEPT !.slice[p] = @ - 1, !.resched[p] = @ \/ s.slice[p] <= 1]

ProcTick(s) ==
  LET p    == s.current
      left == IF s.slice[p] > 0 THEN s.slice[p] - 1 ELSE 0
  IN  IF p = Idle
      THEN [s EXCEPT !.resched[p] = TRUE]
      ELSE [s EXCEPT !.slice[p] = left, !.resched[p] = @ \/ left = 0]

(* do_exit, do_wait, do_sleep and wait_current_set put the current process *)
(* to sleep by assigning its state; schedule() comes later.                *)
Sleeping(s, w) ==
  [s EXCEPT !.state[s.current] = "SLEEPING", !.wait[s.current] = w]

-----------------------------------------------------------------------------
(* The timer interrupt (trap/trap.c): run_timer_list over the sleep timers *)
(* of module Timers, then the tick of the class for the current process.   *)

(* The owners of the timers that expire in this tick, in the list's order. *)
Expired(ts) == [i \in 1..Expiring(ts) |-> ts[i].proc]

(* The scheduler after a tick.  run_timer_list wakes these processes, in   *)
(* order: one of them may be the current process, on its way into          *)
(* schedule(), and one that was killed in its sleep is runnable already.   *)
(* It asserts that none sleeps uninterruptibly.                            *)
Ticked(s, ts) ==
  LET owner == Expired(ts)
      due   == {owner[i] : i \in DOMAIN owner}
      woken == {q \in due : s.state[q] # "RUNNABLE"}
      sane  == \A q \in due : s.wait[q] \in Interruptible \cup {"none"}
  IN  {ProcTick(WakeAll([s EXCEPT !.ok = @ /\ sane], woken, v)) :
         v \in InOrder(woken \ {s.current}, owner)}
=============================================================================

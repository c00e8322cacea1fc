--------------------------------- MODULE Walk ---------------------------------
(***************************************************************************)
(* Processes of lab5 (lab5/kern/process/proc.c, schedule/sched.c and       *)
(* trap/trap.c): there is no run queue, schedule() walks proc_list from    *)
(* the current process on.  The scheduler of lab4 is the same.             *)
(*                                                                         *)
(* A system call runs with interrupts off and gives up the CPU only where  *)
(* it calls schedule(): what it does up to there, or up to the end of      *)
(* trap(), is one step.  pc says where a process stands: "boot" (init has  *)
(* not made user_main yet), "run", "trapret" (the end of trap()), "wait"   *)
(* (in do_wait, asleep or just woken) or "end".                            *)
(***************************************************************************)
EXTENDS Naturals, Sequences, SequencesExt

CONSTANTS
  Proc, Idle, InitProc,
  AnyChild    \* do_wait's pid = 0

WalkAssumption ==
  {Idle, InitProc} \subseteq Proc /\ Idle # InitProc /\ AnyChild \notin Proc

VARIABLES
  proc_list,   \* all processes but idle, head first
  state,       \* "NONE", "RUNNABLE", "SLEEPING" (for a child) or "ZOMBIE"
  current, resched,     \* resched: current->need_resched
  parent, exiting, pc,
  waitFor,     \* the pid argument of the do_wait that a process is in
  halted,      \* init_main has returned, or a panic
  seen         \* history: who got the CPU while a process was ready for it

vars == <<proc_list, state, current, resched, parent, exiting, pc, waitFor, halted,
          seen>>

User == Proc \ {Idle, InitProc}

(* proc_init                                                               *)
Init ==
  /\ proc_list = <<InitProc>>
  /\ state = [p \in Proc |-> IF p \in {Idle, InitProc} THEN "RUNNABLE" ELSE "NONE"]
  /\ current = Idle /\ resched = TRUE
  /\ parent = [p \in Proc |-> Idle] /\ exiting = [p \in Proc |-> FALSE]
  /\ pc = [p \in Proc |-> CASE p = Idle -> "run" [] p = InitProc -> "boot" [] OTHER -> "end"]
  /\ waitFor = [p \in Proc |-> AnyChild]
  /\ halted = FALSE /\ seen = [p \in Proc |-> {}]

-----------------------------------------------------------------------------
(* The order in which schedule() looks at the processes of list l.         *)
Order(l) ==
  IF current = Idle THEN l
  ELSE LET i == CHOOSE j \in DOMAIN l : l[j] = current IN
       SubSeq(l, i + 1, Len(l)) \o SubSeq(l, 1, i)

(* The first one that is ready in that order.                              *)
First(o, s) ==
  LET ready == {i \in DOMAIN o : s[o[i]] = "RUNNABLE"} IN
  IF ready = {} THEN Idle ELSE o[CHOOSE i \in ready : \A j \in ready : i <= j]

(* Mutant: it always begins at the head of the list.                       *)
NextFromHead(l, s) == First(l, s)
NextProc(l, s) == First(Order(l), s)

(* schedule() with list l and states s.                                    *)
schedule(l, s) ==
  LET next == NextProc(l, s) IN
  /\ proc_list' = l /\ state' = s /\ current' = next /\ resched' = FALSE
  /\ seen' = [p \in Proc |-> IF p = next \/ s[p] # "RUNNABLE" THEN {}
                             ELSE {q \in seen[p] \cup {next} : s[q] # "NONE"}]

Stays(l, s) ==
  /\ proc_list' = l /\ state' = s /\ UNCHANGED <<current, resched>>
  /\ seen' = [p \in Proc |-> {q \in seen[p] : s[q] # "NONE"}]

(* Mutant: the parent is not told.                                         *)
WokenNot(s, p) == s
(* wakeup_proc of p, if it waits for a child.                              *)
Woken(s, p) == IF s[p] = "SLEEPING" THEN [s EXCEPT ![p] = "RUNNABLE"] ELSE s

Children(p) == {c \in Proc : state[c] # "NONE" /\ parent[c] = p /\ c # Idle}

At(p, l) == ~halted /\ current = p /\ pc[p] = l
Goes(p, l) == pc' = [pc EXCEPT ![p] = l]
(* do_wait of p is called for c, or over, when there is no c to wait for.  *)
WaitsFor(p, c) == waitFor' = [waitFor EXCEPT ![p] = c]

(* do_exit: the children go to init, which is told of zombies.  For init   *)
(* it is a panic.                                                          *)
do_exit(p) ==
  LET dead   == Woken([state EXCEPT ![p] = "ZOMBIE"], parent[p])
      orphan == \E c \in Children(p) : state[c] = "ZOMBIE"
  IN /\ parent' = [c \in Proc |-> IF c \in Children(p) THEN InitProc ELSE parent[c]]
     /\ Goes(p, "end") /\ WaitsFor(p, AnyChild)
     /\ schedule(proc_list, IF orphan THEN Woken(dead, InitProc) ELSE dead)
     /\ UNCHANGED <<exiting, halted>>

Panics == halted' = TRUE /\ UNCHANGED <<proc_list, state, current, resched, parent,
                                        exiting, pc, waitFor, seen>>

Dies(p) == IF p = InitProc THEN Panics ELSE do_exit(p)

Exit(p) == At(p, "run") /\ p \in User /\ do_exit(p)

(* do_fork, of user_main too; set_links puts the child in front.           *)
do_fork(p, c) ==
  /\ (At(p, "run") /\ p \in User) \/ At(p, "boot")
  /\ state[c] = "NONE"
  /\ parent' = [parent EXCEPT ![c] = p] /\ exiting' = [exiting EXCEPT ![c] = FALSE]
  /\ pc' = [pc EXCEPT ![c] = "run", ![p] = IF p = InitProc THEN "run" ELSE "trapret"]
  /\ Stays(<<c>> \o proc_list, [state EXCEPT ![c] = "RUNNABLE"])
  /\ UNCHANGED <<waitFor, halted>>

do_yield(p) ==
  /\ At(p, "run") /\ p \in User
  /\ resched' = TRUE /\ Goes(p, "trapret")
  /\ UNCHANGED <<proc_list, state, current, parent, exiting, waitFor, halted, seen>>

do_kill(p, t) ==
  /\ At(p, "run") /\ p \in User
  /\ state[t] # "NONE" /\ ~exiting[t] /\ t # Idle
  /\ exiting' = [exiting EXCEPT ![t] = TRUE] /\ Goes(p, "trapret")
  /\ Stays(proc_list, Woken(state, t))
  /\ UNCHANGED <<parent, waitFor, halted>>

-----------------------------------------------------------------------------
(* do_wait: called for any child or, by a user program, for the one with a *)
(* pid; or woken and not killed, to look for the same again.               *)
InWait(p, q) ==
  \/ At(p, "run") /\ p # Idle /\ (p = InitProc => q = AnyChild)
  \/ At(p, "wait") /\ ~exiting[p] /\ q = waitFor[p]

(* The children that do_wait looks at: find_proc(q), if p is its parent.   *)
WaitedFor(p, q) == {c \in Children(p) : q = AnyChild \/ c = q}

(* A zombie is freed; init then calls schedule().                          *)
Reap(p, q, z) ==
  LET l == RemoveAt(proc_list, CHOOSE i \in DOMAIN proc_list : proc_list[i] = z)
      s == [state EXCEPT ![z] = "NONE"]
  IN /\ InWait(p, q) /\ z \in WaitedFor(p, q) /\ state[z] = "ZOMBIE"
     /\ WaitsFor(p, AnyChild)
     /\ IF p = InitProc THEN Goes(p, "run") /\ schedule(l, s)
                        ELSE Goes(p, "trapret") /\ Stays(l, s)
     /\ UNCHANGED <<parent, exiting, halted>>

WaitSleep(p, q) ==
  /\ InWait(p, q) /\ WaitedFor(p, q) # {}
  /\ \A c \in WaitedFor(p, q) : state[c] # "ZOMBIE"
  /\ Goes(p, "wait") /\ WaitsFor(p, q)
  /\ schedule(proc_list, [state EXCEPT ![p] = "SLEEPING"])
  /\ UNCHANGED <<parent, exiting, halted>>

(* init_main ends with it, and its thread with do_exit.                    *)
WaitNone(p, q) ==
  /\ InWait(p, q) /\ WaitedFor(p, q) = {}
  /\ IF p = InitProc THEN Panics
     ELSE /\ Goes(p, "trapret") /\ WaitsFor(p, AnyChild)
          /\ UNCHANGED <<proc_list, state, current, resched, parent, exiting, halted, seen>>

WaitKilled(p) == At(p, "wait") /\ exiting[p] /\ Dies(p)

(* The end of trap().                                                      *)
TrapExit(p) == At(p, "trapret") /\ exiting[p] /\ do_exit(p)

TrapReturn(p) ==
  /\ At(p, "trapret") /\ ~exiting[p]
  /\ Goes(p, "run")
  /\ IF resched THEN schedule(proc_list, state) ELSE Stays(proc_list, state)
  /\ UNCHANGED <<parent, exiting, waitFor, halted>>

(* The timer interrupt, TICK_NUM times over or not.                        *)
Tick(p) ==
  /\ At(p, "run") \/ At(p, "boot")
  /\ resched' \in {resched, TRUE}
  /\ Goes(p, IF p \in User THEN "trapret" ELSE pc[p])
  /\ UNCHANGED <<proc_list, state, current, parent, exiting, waitFor, halted, seen>>

cpu_idle ==
  /\ At(Idle, "run") /\ resched
  /\ schedule(proc_list, state)
  /\ UNCHANGED <<parent, exiting, pc, waitFor, halted>>

Halted == halted /\ UNCHANGED vars

Next ==
  \/ \E p \in Proc :
       \/ Exit(p) \/ do_yield(p) \/ WaitKilled(p)
       \/ TrapExit(p) \/ TrapReturn(p) \/ Tick(p)
       \/ \E q \in Proc : do_fork(p, q) \/ do_kill(p, q)
       \/ \E q \in Proc \cup {AnyChild} :
            \/ WaitSleep(p, q) \/ WaitNone(p, q)
            \/ \E z \in Proc : Reap(p, q, z)
  \/ cpu_idle \/ Halted

Spec == Init /\ [][Next]_vars

-----------------------------------------------------------------------------
(* Walking the list is fair, although processes are added at its head,     *)
(* freed and woken all the time: nobody gets the CPU a second time while a *)
(* process that could run waits for its first.                             *)
TurnsInOrder ==
  [][current' # current =>
       \A p \in Proc \ {current', Idle} :
         state[p] = "RUNNABLE" /\ state'[p] = "RUNNABLE" /\ p # current
           => current' \notin seen[p]]_vars

(* proc_list has every process once; init_main, when it ends by itself,    *)
(* finds only init, which it asserts; and who sleeps in do_wait has a child*)
(* that it waits for, the one or any, and no zombie among those.           *)
ListAndWaits ==
  /\ IsInjective(proc_list)
  /\ ToSet(proc_list) = {p \in Proc \ {Idle} : state[p] # "NONE"}
  /\ halted /\ ~exiting[InitProc] => proc_list = <<InitProc>>
  /\ \A p \in Proc : state[p] = "SLEEPING" =>
       /\ WaitedFor(p, waitFor[p]) # {}
       /\ \A c \in WaitedFor(p, waitFor[p]) : state[c] # "ZOMBIE"
=============================================================================

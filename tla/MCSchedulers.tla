---------------------------- MODULE MCSchedulers -----------------------------
(***************************************************************************)
(* Who gets the CPU and when, of lab5, lab6 and lab8: five systems that    *)
(* TLC checks one after the other.  They are the processes (Process), the  *)
(* timers (TimerList) and the keyboard's readers (Stdin) of lab8, the      *)
(* stride scheduler of lab6 and the list of processes of lab5 (Walk).      *)
(* system is the one that runs; the others stay at their beginning.  What  *)
(* is said of each system is thus said of all of its behaviours.           *)
(***************************************************************************)
EXTENDS Process

CONSTANTS
  Sleeper, MaxTicks,                                                  \* TimerList
  NULL, StrideProc, Modulus, BIG_STRIDE, Priorities, MAX_TIME_SLICE, Span, \* Stride
  StdinReader, BufSize, CONSBUFSIZE, MaxTyped                         \* Stdin

VARIABLES
  system,
  list, fired,                                                  \* TimerList
  state, current, slice, proc, pool, near,                      \* Stride
  proc_list, wstate, wcurrent, resched, wparent, wexiting, wpc, wwaitFor, whalted,
  seen,                                                         \* Walk
  dk, killed, at, want, got, buffer, rpos, wpos, queue, cons, typed, dropped,
  taken                                                         \* Stdin

deltas == <<list, fired>>
stride == <<state, current, slice, proc, pool, near>>
walk   == <<proc_list, wstate, wcurrent, resched, wparent, wexiting, wpc, wwaitFor, whalted,
            seen>>
keyboard == <<dk, killed, at, want, got, buffer, rpos, wpos, queue, cons, typed, dropped,
              taken>>

Deltas == INSTANCE TimerList
Stride == INSTANCE Stride WITH Proc <- StrideProc
Walk   == INSTANCE Walk WITH
  state <- wstate, current <- wcurrent, parent <- wparent, exiting <- wexiting,
  pc <- wpc, waitFor <- wwaitFor, halted <- whalted
Stdin  == INSTANCE Stdin WITH
  Proc <- StdinReader \cup {Idle}, k <- dk, exiting <- killed, pc <- at

ASSUME SchedulersAssumption ==
  /\ Deltas!TimerListAssumption /\ Stride!StrideAssumption
  /\ Walk!WalkAssumption /\ Stdin!StdinAssumption

(* Processes of one system are interchangeable.                            *)
Symmetry == Permutations(StrideProc) \cup Permutations(User)

(* Where a system can begin in several ways, that matters to itself only.  *)
AllInit ==
  /\ system \in {"processes", "timers", "stride", "walk", "keyboard"}
  /\ Init /\ Deltas!Init /\ Stride!Init /\ Walk!Init /\ Stdin!Init
  /\ system # "stride" => pool = CHOOSE p \in StrideProc : TRUE
  /\ system # "keyboard" => dk.runq = CHOOSE born \in SetToSeqs(StdinReader) : TRUE

AllNext ==
  /\ UNCHANGED system
  /\ \/ /\ system = "processes" /\ Next
        /\ UNCHANGED <<deltas, stride, walk, keyboard>>
     \/ /\ system = "timers" /\ Deltas!Next
        /\ UNCHANGED <<vars, stride, walk, keyboard>>
     \/ /\ system = "stride" /\ Stride!Next
        /\ UNCHANGED <<vars, deltas, walk, keyboard>>
     \/ /\ system = "walk" /\ Walk!Next
        /\ UNCHANGED <<vars, deltas, stride, keyboard>>
     \/ /\ system = "keyboard" /\ Stdin!Next
        /\ UNCHANGED <<vars, deltas, stride, walk>>

AllSpec == AllInit /\ [][AllNext]_<<system, vars, deltas, stride, walk, keyboard>>

-----------------------------------------------------------------------------
(* Of the processes of lab8: RunQueue, SleepersFound and NoneAbandoned of  *)
(* module Process.                                                         *)

(* lab8: the timers of sched.c, each with the ticks after the one before,  *)
(* implement expiries.                                                     *)
ImplementsTimers == Deltas!ImplementsTimers

(* lab6: the heap of the stride scheduler has every process that is ready, *)
(* with the lowest stride at the root; and so each gets its share.         *)
HeapOfReady == Stride!HeapOfReady /\ Stride!RootIsLowest
SharesKept  == Stride!SharesKept

(* lab5: the walk through proc_list gives turns, and wait misses nobody.   *)
ListAndWaits == Walk!ListAndWaits
TurnsInOrder == Walk!TurnsInOrder

(* lab8: who sleeps in a read of the keyboard is in its queue and has      *)
(* nothing to read; each character is read once and in order; a read is    *)
(* short only if its process was killed.                                   *)
KeysRead ==
  [](Stdin!SleepersQueued /\ Stdin!EachCharOnce) /\ Stdin!ShortOnlyIfKilled
=============================================================================

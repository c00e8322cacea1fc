------------------------------ MODULE TimerList ------------------------------
(***************************************************************************)
(* timer_list of lab8/kern/schedule/sched.c as it is stored: the expires   *)
(* field of a timer holds the ticks between the timer before it and        *)
(* itself, so that a tick touches the first timer only.                    *)
(*                                                                         *)
(* The list is a sequence of records [proc, expires]; fired lists the      *)
(* processes that the last operation woke.                                 *)
(***************************************************************************)
EXTENDS Integers, Sequences

CONSTANTS
  Sleeper,   \* the processes that sleep, each with at most one timer
  MaxTicks   \* bound of the model: the longest sleep

TimerListAssumption == MaxTicks \in Nat

VARIABLES list, fired

vars == <<list, fired>>

Listed == {list[i].proc : i \in DOMAIN list}

Init == list = <<>> /\ fired = <<>>

-----------------------------------------------------------------------------
(* The expiry that add_timer has left when its walk reaches position i.    *)
Remaining(n) ==
  LET rem[i \in 1..(Len(list) + 1)] ==
        IF i = 1 THEN n ELSE rem[i - 1] - list[i - 1].expires
  IN  rem

(* Mutant: equal timers overtake one another.                              *)
StopsAtEqual(n, i) ==
  /\ i <= Len(list) => Remaining(n)[i] <= list[i].expires
  /\ \A j \in 1..(i - 1) : Remaining(n)[j] > list[j].expires

(* The walk stops at the first timer that expires later than the new one.  *)
StopsAt(n, i) ==
  /\ i <= Len(list) => Remaining(n)[i] < list[i].expires
  /\ \A j \in 1..(i - 1) : Remaining(n)[j] >= list[j].expires

(* add_timer: the new timer goes there, and its expiry off the next one.   *)
Add(p, n) ==
  /\ p \notin Listed
  /\ \E i \in 1..(Len(list) + 1) :
       /\ StopsAt(n, i)
       /\ LET e == Remaining(n)[i]
          IN  list' = [j \in 1..(Len(list) + 1) |->
                         IF j < i THEN list[j]
                         ELSE IF j = i THEN [proc |-> p, expires |-> e]
                         ELSE IF j = i + 1
                              THEN [list[i] EXCEPT !.expires = @ - e]
                         ELSE list[j - 1]]
  /\ fired' = <<>>

(* del_timer: what is left on the timer is handed on to the next one.      *)
Without(i) == SubSeq(list, 1, i - 1) \o SubSeq(list, i + 1, Len(list))

Deleted(i) ==
  IF i = Len(list) THEN Without(i)
  ELSE [Without(i) EXCEPT ![i].expires = @ + list[i].expires]

Del(p) ==
  /\ IF p \in Listed
     THEN \E i \in DOMAIN list : list[i].proc = p /\ list' = Deleted(i)
     ELSE UNCHANGED list
  /\ fired' = <<>>

(* run_timer_list: a tick off the first timer; while the first timer has   *)
(* no ticks left its process is woken and it is deleted.                   *)
Run ==
  IF list = <<>> THEN UNCHANGED list /\ fired' = <<>>
  ELSE LET l == [list EXCEPT ![1].expires = @ - 1]
       IN  \E n \in 0..Len(l) :
             /\ \A i \in 1..n : l[i].expires = 0
             /\ n < Len(l) => l[n + 1].expires # 0
             /\ list'  = SubSeq(l, n + 1, Len(l))
             /\ fired' = [i \in 1..n |-> l[i].proc]

Next ==
  \/ \E p \in Sleeper, n \in 1..MaxTicks : Add(p, n)
  \/ \E p \in Sleeper : Del(p)
  \/ Run

Spec == Init /\ [][Next]_vars

-----------------------------------------------------------------------------
(* The list implements the timers of module Timers: the ticks left on a    *)
(* timer are the sum of the differences up to it.                          *)
Expiries(l) ==
  LET due[i \in 0..Len(l)] == IF i = 0 THEN 0 ELSE due[i - 1] + l[i].expires
  IN  [i \in DOMAIN l |-> [proc |-> l[i].proc, left |-> due[i]]]

Due == Expiries(list)

Abs == INSTANCE AbsTimers WITH ts <- Due

ImplementsTimers == Abs!Spec
=============================================================================

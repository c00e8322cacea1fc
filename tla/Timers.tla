-------------------------------- MODULE Timers --------------------------------
(***************************************************************************)
(* What the sleep timers of lab8/kern/schedule/sched.c promise: a list of  *)
(* timers ordered by expiry, timers of the same expiry in the order they   *)
(* were added.  Each timer here says how many ticks are left until it      *)
(* expires; the code stores the differences between neighbours, and module *)
(* TimerList shows that its list implements this one.                      *)
(***************************************************************************)
EXTENDS Integers, Sequences, SequencesExt

Timer(P) == [proc : P, left : Int]

Owners(ts) == {ts[i].proc : i \in DOMAIN ts}

(* add_timer: after the timers that expire no later.                       *)
AddTimer(ts, p, n) ==
  LET before == {j \in DOMAIN ts : ts[j].left <= n}
  IN  InsertAt(ts, Cardinality(before) + 1, [proc |-> p, left |-> n])

(* del_timer on the timer of p, a no-op when p has none in the list.       *)
DelTimer(ts, p) ==
  IF p \notin Owners(ts) THEN ts
  ELSE RemoveAt(ts, CHOOSE i \in DOMAIN ts : ts[i].proc = p)

(* run_timer_list: the timers with one tick left expire in this tick, they *)
(* are the first ones of the list; the others lose a tick.                 *)
Expiring(ts) == Cardinality({i \in DOMAIN ts : ts[i].left = 1})

(* Mutant: the tick is taken off no timer.                                 *)
RunTimersStill(ts) == SubSeq(ts, Expiring(ts) + 1, Len(ts))

RunTimers(ts) ==
  LET n == Expiring(ts)
  IN  [i \in 1..(Len(ts) - n) |-> [ts[n + i] EXCEPT !.left = @ - 1]]
=============================================================================

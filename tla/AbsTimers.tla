------------------------------ MODULE AbsTimers ------------------------------
(***************************************************************************)
(* What a client of the sleep timers may rely on, as a specification: the  *)
(* timers of module Timers started, stopped and run, and which processes   *)
(* each tick wakes, in which order.                                        *)
(***************************************************************************)
EXTENDS Timers

CONSTANTS Sleeper, MaxTicks

VARIABLES ts, fired

Init == ts = <<>> /\ fired = <<>>

Start(p, n) ==
  /\ p \notin Owners(ts)
  /\ ts' = AddTimer(ts, p, n)
  /\ fired' = <<>>

Stop(p) ==
  /\ ts' = DelTimer(ts, p)
  /\ fired' = <<>>

Run ==
  /\ ts' = RunTimers(ts)
  /\ fired' = [i \in 1..Expiring(ts) |-> ts[i].proc]

Next ==
  \/ \E p \in Sleeper, n \in 1..MaxTicks : Start(p, n)
  \/ \E p \in Sleeper : Stop(p)
  \/ Run

Spec == Init /\ [][Next]_<<ts, fired>>
=============================================================================

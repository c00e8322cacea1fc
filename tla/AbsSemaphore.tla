----------------------------- MODULE AbsSemaphore -----------------------------
(***************************************************************************)
(* A semaphore as its users see it: Units of a resource, each held by one  *)
(* thread, and a line in which the others are served strictly in turn.     *)
(***************************************************************************)
EXTENDS Naturals, Sequences, FiniteSets

CONSTANTS Thread, Units

VARIABLES held, line

Init == held = {} /\ line = <<>>

InLine(p) == \E i \in DOMAIN line : line[i] = p

(* A free unit is handed out at once, and only when nobody is in the line. *)
Take(p) ==
  /\ p \notin held /\ line = <<>> /\ Cardinality(held) < Units
  /\ held' = held \cup {p}
  /\ UNCHANGED line

Join(p) ==
  /\ p \notin held /\ ~InLine(p) /\ Cardinality(held) = Units
  /\ line' = Append(line, p)
  /\ UNCHANGED held

(* A unit that is given back goes to the first of the line.                *)
Release(p) ==
  /\ p \in held
  /\ IF line = <<>>
     THEN held' = held \ {p} /\ UNCHANGED line
     ELSE held' = (held \ {p}) \cup {Head(line)} /\ line' = Tail(line)

Next == \E p \in Thread : Take(p) \/ Join(p) \/ Release(p)

Spec == Init /\ [][Next]_<<held, line>>
=============================================================================

------------------------------- MODULE Family -------------------------------
(***************************************************************************)
(* What the family pointers of lab8/kern/process/proc.c are for: every     *)
(* process has a list of its children, the youngest first.                 *)
(***************************************************************************)
EXTENDS Naturals, Sequences, SequencesExt

CONSTANTS
  Proc,      \* the slots for proc_structs
  Idle,      \* idleproc
  InitProc   \* initproc

VARIABLES
  kids,      \* the children of each process
  zombie     \* the processes that have exited and are not reaped

Born == {Idle, InitProc} \cup UNION {ToSet(kids[p]) : p \in Proc}

Init ==
  /\ kids = [p \in Proc |-> IF p = Idle THEN <<InitProc>> ELSE <<>>]
  /\ zombie = {}

Fork(p, c) ==
  /\ p \in Born \ zombie /\ c \notin Born
  /\ kids' = [kids EXCEPT ![p] = <<c>> \o @]
  /\ UNCHANGED zombie

Die(p) ==
  /\ p \in Born \ (zombie \cup {Idle, InitProc})
  /\ zombie' = zombie \cup {p}
  /\ UNCHANGED kids

(* The youngest child of a dead process becomes the youngest of init's.    *)
Adopt(p) ==
  /\ p \in zombie /\ kids[p] # <<>>
  /\ kids' = [kids EXCEPT ![p] = Tail(@), ![InitProc] = <<Head(kids[p])>> \o @]
  /\ UNCHANGED zombie

(* A process reaps a zombie that has no children any more.                 *)
Reap(p, z) ==
  /\ z \in zombie /\ kids[z] = <<>>
  /\ zombie' = zombie \ {z}
  /\ \E i \in DOMAIN kids[p] :
       kids[p][i] = z /\ kids' = [kids EXCEPT ![p] = RemoveAt(@, i)]

Next ==
  \/ \E p \in Born \ zombie : Die(p) \/ \E c \in Proc \ Born : Fork(p, c)
  \/ \E z \in zombie : Adopt(z) \/ \E p \in Proc : Reap(p, z)

Spec == Init /\ [][Next]_<<kids, zombie>>
=============================================================================

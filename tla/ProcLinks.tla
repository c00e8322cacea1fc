------------------------------ MODULE ProcLinks ------------------------------
(***************************************************************************)
(* The pointers parent, cptr (youngest child), yptr (younger sibling) and  *)
(* optr (older sibling) of lab8/kern/process/proc.c, as set_links,         *)
(* remove_links and the loop of do_exit change them and as do_wait follows *)
(* them.  One step is one round of do_exit's loop; it runs with interrupts *)
(* off, so nothing else happens before it has ended.                       *)
(***************************************************************************)
EXTENDS Naturals, Sequences, FiniteSets

CONSTANTS
  Proc,      \* the slots for proc_structs
  Idle,      \* idleproc
  InitProc,  \* initproc
  Null

VARIABLES
  f,         \* the pointers: parent, cptr, yptr, optr
  state,     \* "none" (a free slot), "live" or "zombie"
  leaving    \* the process in the loop of do_exit, or Null

vars == <<f, state, leaving>>

Exists(p) == state[p] # "none"
May(p)    == leaving = Null /\ state[p] = "live" /\ p # Idle

(* proc_init: idle, which set_links never saw, and its child init.         *)
Init ==
  /\ f = [parent |-> [p \in Proc |-> IF p = InitProc THEN Idle ELSE Null],
          cptr   |-> [p \in Proc |-> IF p = Idle THEN InitProc ELSE Null],
          yptr   |-> [p \in Proc |-> Null],
          optr   |-> [p \in Proc |-> Null]]
  /\ state = [p \in Proc |-> IF p \in {Idle, InitProc} THEN "live" ELSE "none"]
  /\ leaving = Null

-----------------------------------------------------------------------------
(* set_links: c becomes the youngest child of p.                           *)
Linked(g, p, c) ==
  [parent |-> [g.parent EXCEPT ![c] = p],
   optr   |-> [g.optr EXCEPT ![c] = g.cptr[p]],
   yptr   |-> [q \in Proc |-> IF q = c THEN Null
                              ELSE IF q = g.cptr[p] THEN c ELSE g.yptr[q]],
   cptr   |-> [g.cptr EXCEPT ![p] = c]]

(* remove_links: the siblings of z close ranks; if it was the youngest its *)
(* parent is told.                                                         *)
Unlinked(g, z) ==
  [g EXCEPT !.yptr = [q \in Proc |-> IF q = g.optr[z] THEN g.yptr[z] ELSE @[q]],
            !.optr = [q \in Proc |-> IF q = g.yptr[z] THEN g.optr[z] ELSE @[q]],
            !.cptr = [q \in Proc |-> IF g.yptr[z] = Null /\ q = g.parent[z]
                                     THEN g.optr[z] ELSE @[q]]]

(* The chain of a process and its older siblings, of at most n processes.  *)
Chain(n, p) ==
  LET walk[i \in 0..n] ==
        [q \in Proc \cup {Null} |->
           IF i = 0 \/ q = Null THEN <<>> ELSE <<q>> \o walk[i - 1][f.optr[q]]]
  IN  walk[n][p]

(* A chain longer than this has a cycle.                                   *)
ChildChain(p) == Chain(Cardinality(Proc) + 1, f.cptr[p])

-----------------------------------------------------------------------------
(* alloc_proc, which clears the pointers, and set_links.                   *)
Fork(p, c) ==
  /\ May(p) /\ ~Exists(c)
  /\ f' = Linked([f EXCEPT !.cptr[c] = Null], p, c)
  /\ state' = [state EXCEPT ![c] = "live"]
  /\ UNCHANGED leaving

(* do_exit: p is a zombie, and then gives its children to init one by one. *)
Exit(p) ==
  /\ May(p) /\ p # InitProc
  /\ state' = [state EXCEPT ![p] = "zombie"]
  /\ leaving' = p
  /\ UNCHANGED f

(* Mutant: the rest of the children is forgotten.                          *)
AdoptOnly ==
  /\ leaving # Null /\ f.cptr[leaving] # Null
  /\ f' = Linked([f EXCEPT !.cptr[leaving] = Null], InitProc, f.cptr[leaving])
  /\ UNCHANGED <<state, leaving>>

Adopt ==
  /\ leaving # Null /\ f.cptr[leaving] # Null
  /\ LET c == f.cptr[leaving]
     IN  f' = Linked([f EXCEPT !.cptr[leaving] = f.optr[c]], InitProc, c)
  /\ UNCHANGED <<state, leaving>>

Exited ==
  /\ leaving # Null /\ f.cptr[leaving] = Null
  /\ leaving' = Null
  /\ UNCHANGED <<f, state>>

(* do_wait finds a zombie: the one of that pid, or the youngest there is.  *)
Found(p, z) ==
  \/ f.parent[z] = p
  \/ \E i \in 1..Len(ChildChain(p)) :
       /\ ChildChain(p)[i] = z
       /\ \A j \in 1..(i - 1) : state[ChildChain(p)[j]] # "zombie"

Wait(p, z) ==
  /\ May(p)
  /\ state[z] = "zombie" /\ Found(p, z)
  /\ f' = Unlinked(f, z)
  /\ state' = [state EXCEPT ![z] = "none"]
  /\ UNCHANGED leaving

Next ==
  \/ Adopt \/ Exited
  \/ \E p, q \in Proc : Fork(p, q) \/ Wait(p, q)
  \/ \E p \in Proc : Exit(p)

Spec == Init /\ [][Next]_vars

-----------------------------------------------------------------------------
(* Outside do_exit's loop: yptr and optr are inverse, the child without a  *)
(* younger sibling is the cptr of its parent, siblings have one parent.    *)
DoublyLinked ==
  leaving = Null => \A c \in Proc \ {Idle} : Exists(c) =>
    /\ IF f.yptr[c] = Null THEN f.cptr[f.parent[c]] = c
       ELSE f.optr[f.yptr[c]] = c /\ f.parent[f.yptr[c]] = f.parent[c]
    /\ f.optr[c] # Null => f.yptr[f.optr[c]] = c

(* The pointers implement the lists of children, youngest first.           *)
Lists == INSTANCE Family WITH
  kids   <- [p \in Proc |-> IF Exists(p) THEN ChildChain(p) ELSE <<>>],
  zombie <- {p \in Proc : state[p] = "zombie"}

ImplementsFamily == Lists!Spec
=============================================================================

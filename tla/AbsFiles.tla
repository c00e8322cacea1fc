------------------------------ MODULE AbsFiles -------------------------------
(***************************************************************************)
(* What open files promise to processes: a table of descriptors for each   *)
(* process, with a position for each descriptor, and files that have one   *)
(* size whoever looks.  Nothing is known here of inodes in memory, of who  *)
(* else uses them or of when they are written to the disk.                 *)
(***************************************************************************)
EXTENDS Naturals

CONSTANTS Proc, Fd, Node, Access, MaxSize

VARIABLES
  tab,    \* for each process, a partial function from descriptors to their
          \* node, position and access
  size    \* the size of each node

vars == <<tab, size>>

Init ==
  /\ tab = [p \in Proc |-> [d \in {} |-> {}]]
  /\ size \in [Node -> 0..MaxSize]

Only(t, S) == [d \in S |-> t[d]]
With(t, d, e) == [x \in DOMAIN t \cup {d} |-> IF x = d THEN e ELSE t[x]]

(* Some descriptors may go, as in an exec, and one comes, at the beginning *)
(* of the file, at its end, or where an exec stopped to read it; who opens *)
(* a file may empty it.                                                    *)
Open(p, d) ==
  LET e == tab'[p][d] IN
  /\ d \in DOMAIN tab'[p]
  /\ tab' = [tab EXCEPT ![p] = With(Only(@, (DOMAIN @ \cap DOMAIN tab'[p]) \ {d}), d, e)]
  /\ e \in [node : Node, pos : 0..size'[e.node], access : Access]
  /\ size' \in {size, [size EXCEPT ![e.node] = 0]}

Dup(p, d, e) ==
  /\ d \in DOMAIN tab[p] /\ e \notin DOMAIN tab[p]
  /\ tab' = [tab EXCEPT ![p] = With(@, e, @[d])]
  /\ UNCHANGED size

(* Close, and exit; an exec that fails is an exit.                         *)
Close(p) ==
  /\ tab' = [tab EXCEPT ![p] = Only(@, DOMAIN @ \cap DOMAIN tab'[p])]
  /\ UNCHANGED size

(* Reading, writing and seeking move the position of one descriptor; the   *)
(* file it is open for may grow as far as that.                            *)
Move(p, d) ==
  LET n == tab[p][d].node IN
  /\ d \in DOMAIN tab[p]
  /\ \E pos \in 0..MaxSize, s \in size[n]..MaxSize :
       /\ pos <= s
       /\ tab' = [tab EXCEPT ![p][d].pos = pos]
       /\ size' = [size EXCEPT ![n] = s]

(* The child has the same files at the same positions; from then on the    *)
(* positions are its own.                                                  *)
Fork(p, c) ==
  /\ DOMAIN tab[c] = {}
  /\ tab' = [tab EXCEPT ![c] = tab[p]]
  /\ UNCHANGED size

Next == \E p \in Proc :
  \/ Close(p) \/ \E c \in Proc : Fork(p, c)
  \/ \E d \in Fd : Open(p, d) \/ Move(p, d) \/ \E e \in Fd : Dup(p, d, e)

Spec == Init /\ [][Next]_vars
=============================================================================

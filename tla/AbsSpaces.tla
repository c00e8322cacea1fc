------------------------------ MODULE AbsSpaces ------------------------------
(***************************************************************************)
(* What virtual memory promises to processes: each has a memory of its     *)
(* own.  A child begins with a copy of its parent's, a program with its    *)
(* image, and nobody else's stores are ever seen.                          *)
(***************************************************************************)
CONSTANTS
  Proc,
  Word,     \* what is in a page, with whether the process may store to it
  Image     \* the memories that programs begin with

VARIABLE mem   \* a partial function on Addr for each process

vars == mem
Nothing == [a \in {} |-> {}]

Init == mem = [p \in Proc |-> Nothing]

(* A step changes the memory of p from old to new.                         *)

(* Also on failure: the process then has no memory and ends.               *)
Load(new) == new \in Image \cup {Nothing}

Fork(old, new) == old = Nothing /\ \E p \in Proc : new = mem[p]

(* By the process, or by the kernel for it, at several addresses.          *)
Store(old, new) ==
  /\ DOMAIN new = DOMAIN old
  /\ \E w \in Word : \A a \in DOMAIN old :
       new[a] = old[a] \/ (old[a][2] /\ new[a] = <<w, TRUE>>)

Next == \E p \in Proc : \E old \in {mem[p]}, new \in {mem'[p]} :
  /\ \A q \in Proc \ {p} : mem'[q] = mem[q]
  /\ Load(new) \/ Fork(old, new) \/ Store(old, new)

Spec == Init /\ [][Next]_vars
=============================================================================

------------------------------- MODULE AbsHeap -------------------------------
(***************************************************************************)
(* What an allocator of objects promises: what is handed out lies in       *)
(* memory, has the size that was asked for, and shares nothing with what   *)
(* others have until it is given back.                                     *)
(***************************************************************************)
EXTENDS Integers

CONSTANTS Memory, Sizes

VARIABLE live    \* the objects in use, <<first, size>>

vars == live

Within(o) == o[1]..(o[1] + o[2] - 1)

Init == live = {}

Alloc == \E a \in Memory, n \in Sizes :
  /\ Within(<<a, n>>) \subseteq Memory
  /\ \A o \in live : Within(o) \cap Within(<<a, n>>) = {}
  /\ live' = live \cup {<<a, n>>}

Free == \E o \in live : live' = live \ {o}

Next == Alloc \/ Free

Spec == Init /\ [][Next]_vars
=============================================================================

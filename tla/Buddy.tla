-------------------------------- MODULE Buddy --------------------------------
(***************************************************************************)
(* The buddy allocator of lab2/kern/mm/buddy_system_pmm.c: a free list for *)
(* every order, blocks that are split on allocation and merged with their  *)
(* buddies when they are freed.  pmm.c calls it with interrupts off: a     *)
(* call is one step.                                                       *)
(***************************************************************************)
EXTENDS Integers, Sequences, FiniteSets, SequencesExt

CONSTANTS
  N   \* bound of the model: the pages that init_memmap is given

(* order_down and order_up: the logarithm of n, rounded down and up.       *)
order_down(n) == CHOOSE k \in 0..n : 2^k <= n /\ n < 2^(k + 1)
order_up(n)   == CHOOSE k \in 0..n : n <= 2^k /\ \A i \in 0..(k - 1) : 2^i < n

MAX_ORDERS == order_down(N)
MAX_PAGES  == 2^MAX_ORDERS
Page       == 0..(MAX_PAGES - 1)
Order      == 0..MAX_ORDERS

VARIABLES
  free_area,  \* the free blocks of every order, head of the list first
  nr_free,    \* free_area[order].nr_free
  property,   \* p->property: the order of a free block
  flag,       \* PageProperty(p)
  used,       \* the blocks that callers hold: first page and pages asked for
  asserted    \* the assertion of free_pages never failed

vars == <<free_area, nr_free, property, flag, used, asserted>>

(* init_memmap: one block of the highest order; the pages beyond it are    *)
(* never used.                                                             *)
Init ==
  /\ free_area = [k \in Order |-> IF k = MAX_ORDERS THEN <<0>> ELSE <<>>]
  /\ nr_free = [k \in Order |-> IF k = MAX_ORDERS THEN 1 ELSE 0]
  /\ property = [p \in Page |-> IF p = 0 THEN MAX_ORDERS ELSE 0]
  /\ flag = [p \in Page |-> p = 0]
  /\ used = {}
  /\ asserted = TRUE

-----------------------------------------------------------------------------
(* The halves that are put on the lists as block p of order k is split     *)
(* down to one of order j.                                                 *)
Halves(p, j, k) == {<<p + 2^i, i>> : i \in j..(k - 1)}

(* alloc_pages of n pages takes the first block of the smallest order that *)
(* has one.                                                                *)
Alloc(n) ==
  /\ \E k \in order_up(n)..MAX_ORDERS :
       /\ nr_free[k] > 0
       /\ \A i \in order_up(n)..(k - 1) : nr_free[i] = 0
       /\ LET p      == Head(free_area[k])
              halves == Halves(p, order_up(n), k)
              half(i) == <<p + 2^i, i>> \in halves
          IN  /\ free_area' = [i \in Order |->
                   (IF half(i) THEN <<p + 2^i>> ELSE <<>>)
                   \o (IF i = k THEN Tail(free_area[k]) ELSE free_area[i])]
              /\ nr_free' = [i \in Order |->
                   nr_free[i] + (IF half(i) THEN 1 ELSE 0) - (IF i = k THEN 1 ELSE 0)]
              /\ property' = [q \in Page |->
                   IF q = p THEN 2^order_up(n)
                   ELSE IF \E i \in Order : <<q, i>> \in halves
                        THEN CHOOSE i \in Order : <<q, i>> \in halves
                   ELSE property[q]]
              /\ flag' = [q \in Page |->
                   q # p /\ (flag[q] \/ \E i \in Order : <<q, i>> \in halves)]
              /\ used' = used \cup {<<p, n>>}
  /\ UNCHANGED asserted

AllocNone(n) ==
  /\ \A k \in order_up(n)..MAX_ORDERS : nr_free[k] = 0
  /\ UNCHANGED vars

-----------------------------------------------------------------------------
(* The buddy of a block of order k.                                        *)
Buddy(p, k) == IF (p \div 2^k) % 2 = 0 THEN p + 2^k ELSE p - 2^k

(* buddy_block: the buddy is a free block of the same order.               *)
FreeBuddy(s, p, k) ==
  LET q == Buddy(p, k) IN s.flag[q] /\ s.property[q] = k

(* One round of the merge: the buddy leaves its list and the left half     *)
(* stands for both.                                                        *)
Joined(s) ==
  LET q == Buddy(s.base, s.order)
  IN  [base     |-> IF q < s.base THEN q ELSE s.base,
       order    |-> s.order + 1,
       area     |-> [s.area EXCEPT ![s.order] = Remove(@, q)],
       nr       |-> [s.nr EXCEPT ![s.order] = @ - 1],
       property |-> s.property,
       flag     |-> [s.flag EXCEPT ![IF q < s.base THEN s.base ELSE q] = FALSE]]

(* The loop ends at the highest order, or when the buddy is not free.      *)
Goes(s) == s.order < MAX_ORDERS /\ FreeBuddy(s, s.base, s.order)

Merge(s) ==
  LET round[i \in Order] ==
        IF i = 0 THEN s
        ELSE IF Goes(round[i - 1]) THEN Joined(round[i - 1]) ELSE round[i - 1]
  IN  round[MAX_ORDERS]

FreedOrder(n) == order_up(n)

Free(b, n) ==
  /\ <<b, n>> \in used
  /\ LET s == Merge([base |-> b, order |-> FreedOrder(n), area |-> free_area,
                     nr |-> nr_free, property |-> [property EXCEPT ![b] = n],
                     flag |-> [q \in Page |-> IF q \in b..(b + n - 1) THEN q = b
                                              ELSE flag[q]]])
     IN  /\ free_area' = [s.area EXCEPT ![s.order] = <<s.base>> \o @]
         /\ nr_free' = [s.nr EXCEPT ![s.order] = @ + 1]
         /\ property' = [s.property EXCEPT ![s.base] = s.order]
         /\ flag' = [s.flag EXCEPT ![s.base] = TRUE]
  /\ used' = used \ {<<b, n>>}
  /\ asserted' = (asserted /\ \A q \in b..(b + n - 1) : ~flag[q])

Next == \/ \E n \in 1..MAX_PAGES : Alloc(n) \/ AllocNone(n)
        \/ \E u \in used : Free(u[1], u[2])

Spec == Init /\ [][Next]_vars

-----------------------------------------------------------------------------
(* The free blocks, with their orders, and those that callers hold.        *)
FreeBlocks == UNION {{<<p, k>> : p \in ToSet(free_area[k])} : k \in Order}
UsedBlocks == {<<u[1], order_up(u[2])>> : u \in used}
Pages(b)   == b[1]..(b[1] + 2^b[2] - 1)

(* Every page is in exactly one block, free or used, and every block lies  *)
(* at a multiple of its size.                                              *)
Partition ==
  LET all == FreeBlocks \cup UsedBlocks
  IN  /\ UNION {Pages(b) : b \in all} = Page
      /\ \A b, c \in all : b # c => Pages(b) \cap Pages(c) = {}
      /\ \A b \in all : b[1] % 2^b[2] = 0
      /\ FreeBlocks \cap UsedBlocks = {}

(* The flags and orders of the pages, which free_pages trusts to find a    *)
(* buddy in the middle of a list, say what the lists say.                  *)
FlagsAgree ==
  /\ {p \in Page : flag[p]} = {b[1] : b \in FreeBlocks}
  /\ \A b \in FreeBlocks : property[b[1]] = b[2]
  /\ \A k \in Order : nr_free[k] = Len(free_area[k]) /\ IsInjective(free_area[k])
=============================================================================

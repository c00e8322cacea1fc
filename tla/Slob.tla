--------------------------------- MODULE Slob ---------------------------------
(***************************************************************************)
(* kmalloc and kfree of lab8 (mm/kmalloc.c): a circular list of free       *)
(* blocks in order of their addresses, with headers in the blocks, and     *)
(* whole pages for what is large.                                          *)
(*                                                                         *)
(* Sizes of objects are in bytes; blocks and addresses are in SLOB_UNITs,  *)
(* the size of a header.  The arena is the block at 0, page k begins at    *)
(* k * PageUnits.  A call is one step, for kernel code is not preempted    *)
(* and interrupt handlers allocate nothing.                                *)
(***************************************************************************)
EXTENDS Integers, FiniteSets, FiniteSetsExt, Functions

CONSTANTS
  SLOB_UNIT,   \* sizeof(slob_t), in bytes: 16
  PageUnits,   \* the units of a page: 256
  NPage,       \* bound of the model: the pages that the page allocator has
  Sizes        \* what is asked for, in bytes

SlobAssumption ==
  /\ SLOB_UNIT \in Nat \ {0} /\ PageUnits \in Nat /\ PageUnits > 3
  /\ NPage \in Nat /\ Sizes \subseteq Nat \ {0}

VARIABLES
  heap,        \* units of each block that has a header, next of each free one,
               \* slobfree, and the free pages
  bigblocks,   \* the list of bigblock_ts: their blocks, pages and orders
  live,        \* what callers of kmalloc have, <<address, bytes>>
  panic        \* the assertion of slob_alloc has failed

vars == <<heap, bigblocks, live, panic>>

NULL     == 0
Arena    == 0
BigUnits == 2    \* SLOB_UNITS(sizeof(bigblock_t))

PAGE_SIZE        == PageUnits * SLOB_UNIT
SLOB_UNITS(size) == (size + SLOB_UNIT - 1) \div SLOB_UNIT

-----------------------------------------------------------------------------
(* The page allocator: 2^order pages in a row, the first that there are.   *)
Rows(h, order) == {k \in h.pages : \A i \in k..(k + 2^order - 1) : i \in h.pages}

__slob_get_free_pages(h, order) ==
  IF Rows(h, order) = {} THEN [h |-> h, at |-> NULL]
  ELSE LET k == Min(Rows(h, order)) IN
       [h |-> [h EXCEPT !.pages = @ \ (k..(k + 2^order - 1))], at |-> k * PageUnits]

__slob_free_pages(h, a, order) ==
  LET k == a \div PageUnits IN
  [h EXCEPT !.pages = @ \cup (k..(k + 2^order - 1))]

(* The free blocks as a scan meets them: the one at slobfree, and on.      *)
Around(h) ==
  LET node[i \in 0..Cardinality(DOMAIN h.next)] ==
        IF i = 0 THEN h.slobfree ELSE h.next[node[i - 1]]
  IN node
Once(h) ==   \* the places of one round, from the one after slobfree
  LET n == Around(h) IN 1..Min({i \in DOMAIN n : i > 0 /\ n[i] = h.slobfree})

Drop(f, x) == RestrictDomain(f, LAMBDA y : y # x)

(* slob_alloc takes u units of block cur, the one after prev.              *)
Cut(h, prev, cur, u) ==
  LET rest == cur + u
      keep == Drop(h.next, cur)
  IN IF h.units[cur] = u
     THEN [h EXCEPT !.next = [keep EXCEPT ![prev] = h.next[cur]], !.slobfree = prev]
     ELSE [h EXCEPT
             !.units = [a \in DOMAIN h.units \cup {rest} |->
                          CASE a = cur -> u [] a = rest -> h.units[cur] - u
                            [] OTHER -> h.units[a]],
             !.next = [a \in DOMAIN keep \cup {rest} |->
                         CASE a = prev -> rest [] a = rest -> h.next[cur]
                           [] OTHER -> keep[a]],
             !.slobfree = prev]

(* Where b goes: after cur, or else after the highest block.               *)
Follows(h, b, cur) ==
  LET nx == h.next[cur] IN
  \/ b > cur /\ b < nx
  \/ cur >= nx /\ (b > cur \/ b < nx)

(* Mutant: a block is not joined with the one before it.                   *)
slob_freeAfter(h, b) ==
  LET n   == Around(h)
      cur == n[Min({i \in DOMAIN n : Follows(h, b, n[i])})]
      nx  == h.next[cur]
  IN [h EXCEPT !.next = [a \in DOMAIN h.next \cup {b} |->
                           CASE a = cur -> b [] a = b -> nx [] OTHER -> h.next[a]],
               !.slobfree = cur]
(* slob_free: block b, whose header has its size, is listed between its    *)
(* neighbours, and joined with the one that it touches.                    *)
slob_free(h, b) ==
  LET n     == Around(h)
      cur   == n[Min({i \in DOMAIN n : Follows(h, b, n[i])})]
      nx    == h.next[cur]
      up    == b + h.units[b] = nx
      down  == cur + h.units[cur] = b
      size  == h.units[b] + (IF up THEN h.units[nx] ELSE 0)
      then  == IF up THEN h.next[nx] ELSE nx
      heads == (DOMAIN h.next \ IF up THEN {nx} ELSE {})
      gone  == (IF up THEN {nx} ELSE {}) \cup (IF down THEN {b} ELSE {})
  IN [h EXCEPT
        !.units = [a \in DOMAIN h.units \ gone |->
                     CASE a = cur /\ down -> h.units[cur] + size
                       [] a = b -> size [] OTHER -> h.units[a]],
        !.next = [a \in heads \cup (IF down THEN {} ELSE {b}) |->
                    CASE a = cur -> IF down THEN then ELSE b
                      [] a = b -> then [] OTHER -> h.next[a]],
        !.slobfree = cur]

(* Mutant: a block of any size will do.                                    *)
FitsAny(h, u) == {i \in Once(h) : Around(h)[i] # Arena}
Fits(h, u) == {i \in Once(h) : h.units[Around(h)[i]] >= u}

CutFirst(h, u) ==
  LET i == Min(Fits(h, u)) IN
  [h |-> Cut(h, Around(h)[i - 1], Around(h)[i], u), at |-> Around(h)[i]]

(* slob_alloc: the first block that is large enough; if there is none, a   *)
(* page is given to the list and the search goes on from where it is.      *)
slob_alloc(h, u) ==
  LET p    == __slob_get_free_pages(h, 0)
      page == [p.h EXCEPT !.units = [a \in DOMAIN @ \cup {p.at} |->
                                       IF a = p.at THEN PageUnits ELSE @[a]]]
  IN IF Fits(h, u) # {} THEN CutFirst(h, u)
     ELSE IF p.at = NULL THEN p
     ELSE CutFirst(slob_free(page, p.at), u)

(* How often the size is halved, and its remainder dropped, until it fits  *)
(* into a page.                                                            *)
find_order(size) == Min({o \in 0..size : size \div 2^o <= PAGE_SIZE})

-----------------------------------------------------------------------------
Init ==
  /\ heap = [units |-> [a \in {Arena} |-> 1], next |-> [a \in {Arena} |-> Arena],
             slobfree |-> Arena, pages |-> 1..NPage]
  /\ bigblocks = {} /\ live = {} /\ panic = FALSE

Small(size) == size < PAGE_SIZE - SLOB_UNIT
RoomForHeader(size) == (size + SLOB_UNIT) + SLOB_UNIT < PAGE_SIZE

(* kmalloc of what fits into a page with its header; the block begins      *)
(* behind the header.                                                      *)
SmallAlloc(size) ==
  LET r == slob_alloc(heap, SLOB_UNITS(size + SLOB_UNIT)) IN
  /\ Small(size) /\ RoomForHeader(size)
  /\ heap' = r.h
  /\ live' = IF r.at = NULL THEN live ELSE live \cup {<<r.at + 1, size>>}
  /\ UNCHANGED <<bigblocks, panic>>

(* slob_alloc asserts that there is room for one more header.              *)
AssertFails(size) ==
  /\ Small(size) /\ ~RoomForHeader(size)
  /\ panic' = TRUE
  /\ UNCHANGED <<heap, bigblocks, live>>

(* kmalloc of whole pages: a bigblock_t that says how many.                *)
BigAlloc(size) ==
  LET bb    == slob_alloc(heap, BigUnits)
      order == find_order(size)
      pages == __slob_get_free_pages(bb.h, order)
      block == [at |-> pages.at, order |-> order, bb |-> bb.at]
  IN /\ ~Small(size)
     /\ \/ /\ bb.at = NULL
           /\ UNCHANGED vars
        \/ /\ bb.at # NULL /\ pages.at # NULL
           /\ heap' = pages.h
           /\ bigblocks' = bigblocks \cup {block}
           /\ live' = live \cup {<<pages.at, size>>}
           /\ UNCHANGED panic
        \/ /\ bb.at # NULL /\ pages.at = NULL
           /\ heap' = slob_free(bb.h, bb.at)
           /\ UNCHANGED <<bigblocks, live, panic>>

kmalloc(size) == ~panic /\ (SmallAlloc(size) \/ AssertFails(size) \/ BigAlloc(size))

(* kfree: an address at the beginning of a page may be a big block.        *)
Listed(a) == {b \in bigblocks : b.at = a /\ a % PageUnits = 0}

FreeBig(o) == \E b \in Listed(o[1]) :
  /\ heap' = slob_free(__slob_free_pages(heap, b.at, b.order), b.bb)
  /\ bigblocks' = bigblocks \ {b}

FreeSmall(o) ==
  /\ Listed(o[1]) = {}
  /\ heap' = slob_free(heap, o[1] - 1)
  /\ UNCHANGED bigblocks

kfree(o) ==
  /\ ~panic /\ o \in live
  /\ FreeBig(o) \/ FreeSmall(o)
  /\ live' = live \ {o}
  /\ UNCHANGED panic

Next == \/ \E size \in Sizes : kmalloc(size)
        \/ \E o \in live : kfree(o)

Spec == Init /\ [][Next]_vars

-----------------------------------------------------------------------------
Units(a) == a..(a + heap.units[a] - 1)
InPage(k) == (k * PageUnits)..((k + 1) * PageUnits - 1)

(* The blocks that callers of slob_alloc have.                             *)
Busy == {o[1] - 1 : o \in {x \in live : Listed(x[1]) = {}}} \cup {b.bb : b \in bigblocks}
BigPages == UNION {(b.at \div PageUnits)..(b.at \div PageUnits + 2^b.order - 1) : b \in bigblocks}

(* The heap is made of blocks, free or in use, that cover its pages        *)
(* without gaps or overlaps, in a list of the free ones that is closed and *)
(* in order and never has two that touch: whatever was split, joined and   *)
(* freed, in whatever order and across the borders of pages, no unit is    *)
(* lost or given twice.                                                    *)
HeapWhole ==
  LET free  == DOMAIN heap.next
      own   == (1..NPage) \ (heap.pages \cup BigPages)
      parts == free \cup Busy
  IN /\ DOMAIN heap.units = parts /\ free \cap Busy = {}
     /\ heap.pages \cap BigPages = {}
     /\ UNION {Units(a) : a \in parts} = {Arena} \cup UNION {InPage(k) : k \in own}
     /\ \A a, b \in parts : a # b => Units(a) \cap Units(b) = {}
     /\ \A a \in free :
          /\ heap.next[a] = IF \E b \in free : b > a THEN Min({b \in free : b > a})
                            ELSE Min(free)
          /\ a + heap.units[a] \notin free

(* Of n bytes that kmalloc returns, those that are the caller's: all, but  *)
(* where n is less than 2^k bytes above 2^k pages, it gets 2^k pages only. *)
Granted(n) ==
  LET short == {k \in 1..n : 2^k * PAGE_SIZE < n /\ n < 2^k * (PAGE_SIZE + 1)} IN
  IF short = {} THEN n ELSE 2^Min(short) * PAGE_SIZE

(* What kmalloc returns is as large as was asked for, but for those sizes, *)
(* and shared with no other caller.                                        *)
Abs == INSTANCE AbsHeap WITH
  Memory <- PAGE_SIZE..((NPage + 1) * PAGE_SIZE - 1),
  Sizes  <- {Granted(n) : n \in Sizes},
  live   <- {<<o[1] * SLOB_UNIT, Granted(o[2])>> : o \in live}

ImplementsHeap == Abs!Spec

(* "If kmalloc is asked for objects of PAGE_SIZE or larger, it calls       *)
(* __get_free_pages directly": what is smaller is had from the list.       *)
NoAssertFails == ~panic
=============================================================================

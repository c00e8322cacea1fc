--------------------------------- MODULE Slub ---------------------------------
(***************************************************************************)
(* The SLUB allocator of lab2/kern/mm/slub_pmm.c over the buddy allocator: *)
(* caches of objects of one size each, slabs of one page that begins with  *)
(* their header, and three lists of slabs for every cache.  A call is one  *)
(* step, for the kernel of lab2 has one thread and no interrupts.          *)
(***************************************************************************)
EXTENDS Integers, Sequences, FiniteSets, SequencesExt

CONSTANTS
  SlubN,       \* bound of the model: the pages that init_memmap is given
  PAGE_SIZE, SLAB_SIZE,
  ObjSize,     \* obj_size of each cache: 32, 64, up to 1024
  Requests     \* the sizes that are asked for

SlubAssumption ==
  /\ {SlubN, PAGE_SIZE, SLAB_SIZE} \subseteq Nat \ {0}
  /\ ObjSize \in Seq(Nat \ {0}) /\ Requests \subseteq Nat \ {0}
  /\ \A i \in DOMAIN ObjSize : (PAGE_SIZE - SLAB_SIZE) \div ObjSize[i] > 1

VARIABLES
  free_area, nr_free, property, flag, used, asserted,   \* of the buddies
  slabs,   \* the header of each page that is a slab
  lists,   \* slabs_full, slabs_partial and slabs_free of each cache
  live     \* the objects that callers have, <<address, size asked for>>

Buddies == INSTANCE Buddy WITH N <- SlubN

Cache == DOMAIN ObjSize
Sizes == Requests
pagevars == <<free_area, nr_free, property, flag, used, asserted>>
vars  == <<pagevars, slabs, lists, live>>

(* slub_init: no slabs.                                                    *)
cache_init ==
  lists = [i \in Cache |-> [full |-> <<>>, partial |-> <<>>, free |-> <<>>]]

Init == Buddies!Init /\ cache_init /\ slabs = <<>> /\ live = {}

-----------------------------------------------------------------------------
(* A new slab at page p: all of its objects are free, in their order.      *)
Fresh(p, size) ==
  LET n == (PAGE_SIZE - SLAB_SIZE) \div size IN
  [objlist |-> [i \in 1..n |-> p * PAGE_SIZE + SLAB_SIZE + (i - 1) * size],
   free_cnt |-> n, in_use |-> 0]

(* create_slab: P says what becomes of memory with the new slab p.         *)
NewPage(p) == Buddies!Alloc(1) /\ used' = used \cup {<<p, 1>>}

With(p, s) == [q \in DOMAIN slabs \cup {p} |-> IF q = p THEN s ELSE slabs[q]]

create_slab(i) ==
  /\ \/ \E p \in Buddies!Page :
          /\ NewPage(p)
          /\ slabs' = With(p, Fresh(p, ObjSize[i]))
          /\ lists' = [lists EXCEPT ![i].free = <<p>> \o @]
     \/ Buddies!AllocNone(1) /\ UNCHANGED <<slabs, lists>>
  /\ UNCHANGED live

(* The first cache that is large enough.                                   *)
CacheOf(n) ==
  LET bit_cnt == 2^Buddies!order_up(n) IN
  CHOOSE i \in Cache : ObjSize[i] >= bit_cnt /\ \A j \in 1..(i - 1) : ObjSize[j] < bit_cnt
TooLarge(n) == \A i \in Cache : ObjSize[i] < n

(* Where slab p of the partial list, with header s, goes when it has given *)
(* an object away.                                                         *)
Filed(l, p, s) ==
  IF s.free_cnt = 0
  THEN [l EXCEPT !.partial = Remove(@, p), !.full = <<p>> \o @]
  ELSE IF s.in_use = 1 THEN [l EXCEPT !.partial = <<p>> \o Remove(@, p)]
  ELSE l

(* An object of slab p of cache i, whose lists are l, goes to the caller,  *)
(* if there is one.                                                        *)
Give(i, l, p, s, n) ==
  LET t == [objlist |-> Tail(s.objlist), free_cnt |-> s.free_cnt - 1,
            in_use |-> s.in_use + 1]
      none == s.objlist = <<>>
  IN /\ slabs' = With(p, IF none THEN s ELSE t)
     /\ lists' = [lists EXCEPT ![i] = IF none THEN l ELSE Filed(l, p, t)]
     /\ live' = live \cup IF none THEN {} ELSE {<<Head(s.objlist), n>>}

FromPartial(i, n) ==
  LET l == lists[i] IN
  /\ l.partial # <<>>
  /\ Give(i, l, Head(l.partial), slabs[Head(l.partial)], n)
  /\ UNCHANGED pagevars

FromFree(i, n) ==
  LET l == lists[i]
      p == Head(l.free)
  IN /\ l.partial = <<>> /\ l.free # <<>>
     /\ Give(i, [l EXCEPT !.free = Tail(@), !.partial = <<p>>], p, slabs[p], n)
     /\ UNCHANGED pagevars

FromNew(i, n) ==
  LET l == lists[i] IN
  /\ l.partial = <<>> /\ l.free = <<>>
  /\ \/ \E p \in Buddies!Page :
          /\ NewPage(p)
          /\ Give(i, [l EXCEPT !.partial = <<p>>], p, Fresh(p, ObjSize[i]), n)
     \/ Buddies!AllocNone(1) /\ UNCHANGED <<slabs, lists, live>>

slub_alloc_objs(n) ==
  \/ TooLarge(n) /\ UNCHANGED vars
  \/ /\ ~TooLarge(n)
     /\ \/ FromPartial(CacheOf(n), n)
        \/ FromFree(CacheOf(n), n)
        \/ FromNew(CacheOf(n), n)

-----------------------------------------------------------------------------
(* slab2cache looks through the full and partial lists.                    *)
slab2cache(p) ==
  {i \in Cache : p \in ToSet(lists[i].full) \cup ToSet(lists[i].partial)}

Unlinked(l, p) ==
  [l EXCEPT !.full = Remove(@, p), !.partial = Remove(@, p)]

(* The last object of a slab is back: the page goes to the buddies.        *)
Emptied(i, p) ==
  /\ Buddies!Free(p, 1)
  /\ slabs' = [q \in DOMAIN slabs \ {p} |-> slabs[q]]
  /\ lists' = [lists EXCEPT ![i] = Unlinked(@, p)]

(* A slab that was full is partial again.                                  *)
Refiled(l, p, s) ==
  IF s.free_cnt # 1 THEN l
  ELSE LET m == Unlinked(l, p) IN [m EXCEPT !.partial = <<p>> \o @]

slub_free_objs(o) ==
  LET p == o[1] \div PAGE_SIZE
      s == [objlist |-> <<o[1]>> \o slabs[p].objlist,
            free_cnt |-> slabs[p].free_cnt + 1, in_use |-> slabs[p].in_use - 1]
  IN /\ live' = live \ {o}
     /\ \/ slab2cache(p) = {} /\ UNCHANGED <<pagevars, slabs, lists>>
        \/ \E i \in slab2cache(p) :
             IF s.in_use = 0 THEN Emptied(i, p)
             ELSE /\ slabs' = With(p, s)
                  /\ lists' = [lists EXCEPT ![i] = Refiled(@, p, s)]
                  /\ UNCHANGED pagevars

Next == \/ \E i \in Cache : create_slab(i)
        \/ \E n \in Requests : slub_alloc_objs(n)
        \/ \E o \in live : slub_free_objs(o)

Spec == Init /\ [][Next]_vars

-----------------------------------------------------------------------------
(* Every page that was taken from the buddies is a slab in one list of one *)
(* cache, by what is left of it; its counters count its list of objects,   *)
(* and none of those is in use: so that an allocation finds what there is, *)
(* a slab that is full is never asked, and no page is lost.                *)
InCache(i) == lists[i].full \o lists[i].partial \o lists[i].free

SlabsFiled ==
  /\ {<<p, 1>> : p \in DOMAIN slabs} = used
  /\ UNION {ToSet(InCache(i)) : i \in Cache} = DOMAIN slabs
  /\ \A i \in Cache :
       /\ IsInjective(InCache(i))
       /\ \A j \in Cache \ {i} : ToSet(InCache(i)) \cap ToSet(InCache(j)) = {}
       /\ \A p \in ToSet(InCache(i)) :
            LET s == slabs[p] IN
            /\ p \in ToSet(lists[i].full) <=> s.free_cnt = 0
            /\ p \in ToSet(lists[i].free) <=> s.in_use = 0
            /\ s.free_cnt = Len(s.objlist) /\ IsInjective(s.objlist)
            /\ s.free_cnt + s.in_use = (PAGE_SIZE - SLAB_SIZE) \div ObjSize[i]
            /\ Cardinality({o \in live : o[1] \div PAGE_SIZE = p}) = s.in_use
            /\ \A o \in live : o[1] \notin ToSet(s.objlist)

(* What it returns is as large as was asked for and shared with nobody.    *)
Abs == INSTANCE AbsHeap WITH Memory <- 0..(Buddies!MAX_PAGES * PAGE_SIZE - 1)

ImplementsHeap == Abs!Spec
=============================================================================

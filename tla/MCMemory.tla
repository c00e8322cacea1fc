------------------------------ MODULE MCMemory -------------------------------
(***************************************************************************)
(* Who has which memory: the allocators of pages and of smaller objects,   *)
(* address spaces, and what a process holds.  These are five systems for   *)
(* TLC, checked one after the other: system is the one that runs, and the  *)
(* others stay at their beginning.  (What each asks of the one below, it   *)
(* models itself: Paging and Slob a set of free pages, which the page      *)
(* allocators are shown to implement; Slub the buddies as they are.)       *)
(* What a process holds is Resources itself, with its properties.          *)
(***************************************************************************)
EXTENDS Resources, Integers, Sequences

CONSTANTS
  N, TopUsed,     \* as in PageList
  BuddyN,         \* bound of the model: the pages that the buddy allocator gets
  SLOB_UNIT, SlobUnits, SlobPages, SlobSizes,
  SlubN, SlubPage, SLAB_SIZE, Requests,
  SpaceProc, NPage, NPTE, NPDE, NPD, MaxCopy, Word,
  StackPages,     \* the size of a user stack; the code has 256
  Images          \* the programs: OneTable or TwoTables

(* Two sizes of objects; a stack, of which one page is mapped.             *)
ObjSize == <<1, 2>>
UStack  == <<NPTE * NPDE * NPD - StackPages, NPTE * NPDE * NPD>>
(* A program with a page to read and one to write, and one whose segments  *)
(* overlap; or one of two segments that share a directory of level 0 and   *)
(* no table.                                                               *)
OneTable  == {<< <<0, 1, FALSE>>, <<1, 2, TRUE>> >>, << <<0, 2, FALSE>>, <<1, 2, TRUE>> >>}
TwoTables == {<< <<0, 1, FALSE>>, <<1, 3, TRUE>> >>}

VARIABLES
  system,
  manager, property, flag, used, asserted, link, nr_free, free_area, area_free, \* the pages
  arena, bigblocks, slobbed, failed,                                            \* Slob
  sfree_area, snr_free, sproperty, sflag, sused, sasserted, slabs, lists, slubbed,
                                                                                \* Slub
  m, mm, alive, panic                                                           \* Paging

pmm    == <<manager, property, flag, used, asserted, link, nr_free, free_area, area_free>>
slob   == <<arena, bigblocks, slobbed, failed>>
slub   == <<sfree_area, snr_free, sproperty, sflag, sused, sasserted, slabs, lists, slubbed>>
paging == <<m, mm, alive, panic>>

OneList == INSTANCE PageList
Buddies == INSTANCE Buddy WITH N <- BuddyN, nr_free <- area_free
Slob   == INSTANCE Slob WITH
  PageUnits <- SlobUnits, NPage <- SlobPages, Sizes <- SlobSizes,
  heap <- arena, live <- slobbed, panic <- failed
Slub   == INSTANCE Slub WITH
  PAGE_SIZE <- SlubPage, free_area <- sfree_area, nr_free <- snr_free,
  property <- sproperty, flag <- sflag, used <- sused, asserted <- sasserted,
  live <- slubbed
Paging == INSTANCE Paging WITH Proc <- SpaceProc, Programs <- Images

ASSUME MemoryAssumption ==
  /\ N \in Nat \ {0} /\ TopUsed \in BOOLEAN /\ BuddyN \in Nat \ {0}
  /\ StackPages \in Nat
  /\ Slob!SlobAssumption /\ Slub!SlubAssumption
  /\ Paging!PagingAssumption

(* The pmm_manager that init_pmm_manager chooses (lab2 and lab8,           *)
(* mm/pmm.c): first fit, best fit or buddies, with its init and            *)
(* init_memmap.  They share the array of struct Page, here property and    *)
(* flag; what belongs to another manager stays as it is.                   *)
init_pmm_manager ==
  \/ OneList!Init /\ free_area = <<>> /\ area_free = <<>>
  \/ manager = "buddy_system" /\ Buddies!Init /\ link = <<>> /\ nr_free = 0

(* alloc_pages and free_pages call the manager's.                          *)
PagesNext ==
  \/ manager # "buddy_system" /\ OneList!Next /\ UNCHANGED <<free_area, area_free>>
  \/ manager = "buddy_system" /\ Buddies!Next /\ UNCHANGED <<manager, link, nr_free>>

AllInit ==
  /\ system \in {"pmm", "slob", "slub", "paging", "procs"}
  /\ init_pmm_manager /\ Slob!Init /\ Slub!Init /\ Paging!Init /\ Init
  /\ system # "pmm" => manager = "best_fit"
  /\ system # "paging" => alive = {CHOOSE p \in SpaceProc : TRUE}

AllNext ==
  /\ UNCHANGED system
  /\ \/ system = "pmm" /\ PagesNext /\ UNCHANGED <<slob, slub, paging, vars>>
     \/ system = "slob" /\ Slob!Next /\ UNCHANGED <<pmm, slub, paging, vars>>
     \/ system = "slub" /\ Slub!Next /\ UNCHANGED <<pmm, slob, paging, vars>>
     \/ system = "paging" /\ Paging!Next /\ UNCHANGED <<pmm, slob, slub, vars>>
     \/ system = "procs" /\ Next /\ UNCHANGED <<pmm, slob, slub, paging>>

AllSpec == AllInit /\ [][AllNext]_<<system, pmm, slob, slub, paging, vars>>

-----------------------------------------------------------------------------
(* Of a system that stands still there is nothing to check, except for     *)
(* where it begins.                                                        *)

(* First and best fit: the list is whole and has no two blocks that touch. *)
(* Buddies: every page is in one block, free or used; the flags and orders *)
(* that free_pages trusts are those of the lists.  And the assertion of    *)
(* free_pages holds: no page of a block that is freed is free already.     *)
PagesWhole ==
  system = "pmm" =>
    /\ asserted
    /\ IF manager = "buddy_system" THEN Buddies!Partition /\ Buddies!FlagsAgree
       ELSE OneList!ListWhole

(* All of them implement a set of free pages; and so NULL is the answer    *)
(* only if the pages are not there, whatever was split and freed before.   *)
Width(p) == IF manager = "buddy_system" THEN 2^property[p] ELSE property[p]

FreePages == INSTANCE AbsPages WITH
  Total <- [k \in {"default", "best_fit", "buddy_system"} |->
              IF k = "buddy_system" THEN Buddies!MAX_PAGES ELSE N],
  free  <- UNION {p..(p + Width(p) - 1) : p \in {q \in DOMAIN flag : flag[q]}}

ImplementsPages ==
  FreePages!Init /\ [][system = "pmm" => [FreePages!Next]_(FreePages!vars)]_pmm

(* kmalloc's list of blocks, and SLUB's lists of slabs, lose no memory and *)
(* give none twice.                                                        *)
HeapsWhole ==
  (system = "slob" => Slob!HeapWhole) /\ (system = "slub" => Slub!SlabsFiled)

(* Both implement a heap, where what is given out is large enough (for     *)
(* kmalloc: Slob!Granted) and belongs to one caller: Slob!ImplementsHeap,  *)
(* Slub!ImplementsHeap.                                                    *)
ImplementsHeaps ==
  /\ Slob!Abs!Init /\ [][system = "slob" => [Slob!Abs!Next]_(Slob!Abs!vars)]_slob
  /\ Slub!Abs!Init /\ [][system = "slub" => [Slub!Abs!Next]_(Slub!Abs!vars)]_slub

(* lab8: a page that is mapped belongs to one process, and in one place.   *)
PagesOwned == system = "paging" => Paging!PagesOwned

(* Each process has a memory of its own: Paging!ImplementsSpaces.          *)
ImplementsSpaces ==
  Paging!Abs!Init /\ [][system = "paging" => [Paging!Abs!Next]_(Paging!Abs!vars)]_paging

(* exit_range frees a directory only when all of its entries are invalid,  *)
(* so that every page is free or belongs to a process.                     *)
NoTableLost == system = "paging" => Paging!NoTableLost

(* Conserved and NoReturnBare are those of Resources.                      *)
=============================================================================

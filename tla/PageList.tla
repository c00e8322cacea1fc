------------------------------ MODULE PageList ------------------------------
(***************************************************************************)
(* The physical page allocators that keep one list: lab8's default_pmm.c   *)
(* (first fit) and lab2's best_fit_pmm.c, which differ in the block they   *)
(* take.  A doubly linked list of the free blocks in address order, and    *)
(* coalescing when a block is freed.  The links are those of libs/list.h,  *)
(* assignment by assignment.  pmm.c calls the allocator with interrupts    *)
(* off, so that a call is one step.                                        *)
(*                                                                         *)
(* The loop that inserts a block goes on after it has added the block at   *)
(* the end of the list, finds the block itself there and adds it after     *)
(* itself: its prev then points to itself.  What follows from that is in   *)
(* the runs that let the block at the end be used up (TopUsed).            *)
(***************************************************************************)
EXTENDS Integers, Sequences

CONSTANTS
  N,        \* bound of the model: the number of pages
  TopUsed   \* whether the last page is ever allocated

Page == 0..(N - 1)
HEAD == -1             \* free_list; a page stands for its page_link

VARIABLES
  manager,   \* the pmm_manager: "default" or "best_fit"
  link,      \* the links: next and prev
  property,  \* p->property
  flag,      \* PageProperty(p)
  nr_free,
  used,      \* the blocks that callers hold: first page and length
  asserted   \* the assertion of free_pages never failed

vars == <<manager, link, property, flag, nr_free, used, asserted>>

(* page_init hands all pages to init_memmap at once.                       *)
Init ==
  /\ manager \in {"default", "best_fit"}
  /\ link = [next |-> [e \in Page \cup {HEAD} |-> IF e = HEAD THEN 0 ELSE HEAD],
             prev |-> [e \in Page \cup {HEAD} |-> IF e = HEAD THEN 0 ELSE HEAD]]
  /\ property = [p \in Page |-> IF p = 0 THEN N ELSE 0]
  /\ flag = [p \in Page |-> p = 0]
  /\ nr_free = N
  /\ used = {}
  /\ asserted = TRUE

-----------------------------------------------------------------------------
(* __list_add and __list_del.                                              *)
Added(l, e, prev, next) ==
  [next |-> [l.next EXCEPT ![prev] = e, ![e] = next],
   prev |-> [l.prev EXCEPT ![next] = e, ![e] = prev]]

AddedAfter(l, e, p) == Added(l, e, p, l.next[p])
AddedBefore(l, e, p) == Added(l, e, l.prev[p], p)

Deleted(l, e) ==
  [next |-> [l.next EXCEPT ![l.prev[e]] = l.next[e]],
   prev |-> [l.prev EXCEPT ![l.next[e]] = l.prev[e]]]

(* The first n entries that a loop over the list visits.                   *)
Walk(l, n) ==
  LET from[i \in 0..n, e \in Page \cup {HEAD}] ==
        IF i = 0 \/ e = HEAD THEN <<>> ELSE <<e>> \o from[i - 1, l.next[e]]
  IN  from[n, l.next[HEAD]]

FreeList == Walk(link, N + 1)

(* A walk that is longer than the pages are many goes round for ever.      *)
Ends == Len(FreeList) <= N

(* The first of the entries of which test is true.                         *)
First(s, test(_)) ==
  {s[i] : i \in {j \in 1..Len(s) : test(s[j]) /\ \A m \in 1..(j - 1) : ~test(s[m])}}

(* The block that alloc_pages takes: the first one that is large enough;   *)
(* or the first of the smallest ones that are.                             *)
Chosen(n) ==
  IF manager = "default" THEN First(FreeList, LAMBDA q : property[q] >= n)
  ELSE LET fits == {FreeList[i] : i \in 1..Len(FreeList)} \cap
                   {q \in Page : property[q] >= n}
       IN  First(FreeList, LAMBDA q :
             q \in fits /\ \A r \in fits : property[q] <= property[r])

-----------------------------------------------------------------------------
(* alloc_pages takes the front of the block.                               *)
(* Mutant: the rest of the block is put at the head of the list.           *)
TakenToHead(p, n) ==
  IF property[p] > n THEN AddedAfter(Deleted(link, p), p + n, HEAD)
  ELSE Deleted(link, p)

Taken(p, n) ==
  IF property[p] > n THEN AddedAfter(Deleted(link, p), p + n, link.prev[p])
  ELSE Deleted(link, p)

Rest(p, n) ==
  [q \in Page |-> IF q = p + n /\ property[p] > n THEN property[p] - n
                  ELSE property[q]]

Flags(p, n) ==
  [q \in Page |-> q # p /\ (flag[q] \/ (q = p + n /\ property[p] > n))]

Alloc(n) ==
  /\ n <= nr_free /\ Ends
  /\ \E p \in Chosen(n) :
       /\ TopUsed \/ p + n < N
       /\ link' = Taken(p, n)
       /\ property' = Rest(p, n)
       /\ flag' = Flags(p, n)
       /\ used' = used \cup {<<p, n>>}
  /\ nr_free' = nr_free - n
  /\ UNCHANGED <<manager, asserted>>

(* It returns NULL.                                                        *)
AllocNone(n) ==
  /\ n > nr_free \/ (Ends /\ \A i \in 1..Len(FreeList) : property[FreeList[i]] < n)
  /\ UNCHANGED vars

-----------------------------------------------------------------------------
(* free_pages: before the first block with a higher address, or at the end *)
(* of the list, where the loop does not stop.                              *)
Inserted(b) ==
  LET after == First(FreeList, LAMBDA q : b < q)
      last  == FreeList[Len(FreeList)]
  IN  CASE FreeList = <<>> -> AddedAfter(link, b, HEAD)
        [] after # {}      -> AddedBefore(link, b, CHOOSE p \in after : TRUE)
        [] OTHER           -> AddedAfter(AddedAfter(link, b, last), b, b)

(* The state of the blocks, as the two merges change it.                   *)
(* Mutant: the merged block stays in the list.                             *)
MergedListed(s, p, b) ==
  [s EXCEPT !.property[p] = @ + s.property[b], !.flag[b] = FALSE]

Merged(s, p, b) ==
  [link     |-> Deleted(s.link, b),
   property |-> [s.property EXCEPT ![p] = @ + s.property[b]],
   flag     |-> [s.flag EXCEPT ![b] = FALSE]]

MergedDown(s, b) ==
  LET p == s.link.prev[b]
  IN  IF p # HEAD /\ p + s.property[p] = b THEN <<Merged(s, p, b), p>> ELSE <<s, b>>

MergedUp(s, b) ==
  LET p == s.link.next[b]
  IN  IF p # HEAD /\ b + s.property[b] = p THEN Merged(s, b, p) ELSE s

Free(b, n) ==
  /\ <<b, n>> \in used /\ Ends
  /\ LET s    == [link |-> Inserted(b), property |-> [property EXCEPT ![b] = n],
                  flag |-> [q \in Page |-> IF q \in b..(b + n - 1) THEN q = b
                                           ELSE flag[q]]]
         down == MergedDown(s, b)
         all  == MergedUp(down[1], down[2])
     IN  link' = all.link /\ property' = all.property /\ flag' = all.flag
  /\ nr_free' = nr_free + n
  /\ used' = used \ {<<b, n>>}
  /\ asserted' = (asserted /\ \A q \in b..(b + n - 1) : ~flag[q])
  /\ UNCHANGED manager

Next == \/ \E n \in 1..N : Alloc(n) \/ AllocNone(n)
        \/ \E u \in used : Free(u[1], u[2])

Spec == Init /\ [][Next]_vars

-----------------------------------------------------------------------------
(* The list is in address order, prev is the inverse of next, no two of    *)
(* its blocks touch, and its blocks are those with the flag.               *)
ListWhole ==
  LET s == FreeList
  IN  /\ \A i \in 1..Len(s) : link.prev[link.next[s[i]]] = s[i]
      /\ \A i \in 1..(Len(s) - 1) : s[i] + property[s[i]] < s[i + 1]
      /\ {s[i] : i \in 1..Len(s)} = {p \in Page : flag[p]}

(* basic_check asserts of three pages "p0 != p1 && p0 != p2 && p1 != p2":  *)
(* no page is allocated twice.                                             *)
NoPageTwice ==
  \A u, v \in used : u # v => u[1] + u[2] <= v[1] \/ v[1] + v[2] <= u[1]
=============================================================================

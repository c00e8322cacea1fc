-------------------------------- MODULE Paging --------------------------------
(***************************************************************************)
(* Page tables and address spaces of lab8 (mm/pmm.c, mm/vmm.c, and what    *)
(* process/proc.c does with them): three levels of tables in pages of the  *)
(* same memory that they map, the vmas of an mm, and their copies and ends.*)
(*                                                                         *)
(* Addresses are numbers of pages.  The functions work on a record m of    *)
(* all memory; interrupts are off in a system call, so that fork, exec and *)
(* exit are one step each.                                                 *)
(***************************************************************************)
EXTENDS Integers, Sequences, SequencesExt, FiniteSetsExt

CONSTANTS
  Proc,
  NPage,              \* bound of the model: the physical pages
  NPTE, NPDE, NPD,    \* entries of a page table and of a directory of level 0
                      \* and level 1: 512 each
  UStack,             \* the stack's <<first, end>>; its last page is mapped
  MaxCopy,            \* bound of the model: the pages the kernel copies at once
  Programs,           \* sequences of segments <<first, end, writable>>
  Word                \* what a page of a process may hold, 0 in an image

PagingAssumption ==
  /\ {NPage, NPTE, NPDE, NPD, MaxCopy} \subseteq Nat \ {0}
  /\ 0 \in Word /\ UStack \in Int \X {NPTE * NPDE * NPD}
  /\ Programs \subseteq Seq(Int \X Int \X BOOLEAN)

VARIABLES
  m,       \* memory: the free pages, and the counter, entries and word of each
  mm,      \* the mm of each process: its page directory and its vmas
  alive,
  panic    \* "no", or why the kernel stopped

vars == <<m, mm, alive, panic>>

Page   == 1..NPage
USERTOP == NPTE * NPDE * NPD
Addr   == 0..(USERTOP - 1)
Index  == 0..(Max({NPTE, NPDE, NPD}) - 1)
NoEntry == [page |-> 0, write |-> FALSE]    \* PTE_V is not set
Zeroed  == [i \in Index |-> NoEntry]
(* What a page holds that nobody has written yet: whoever took it for a    *)
(* table would find page 1 everywhere.                                     *)
Dirty   == [i \in Index |-> [page |-> 1, write |-> TRUE]]
NoMm    == [pgdir |-> 0, vmas |-> <<>>]

PDX1(la) == la \div (NPTE * NPDE)
PDX0(la) == (la \div NPTE) % NPDE
PTX(la)  == la % NPTE

-----------------------------------------------------------------------------
(* Pages of memory n.                                                      *)
None(n)      == n.free = {}
Next_page(n) == Min(n.free)
(* A page is taken with what it holds; its counter is 0 by free_pages, or  *)
(* set by the caller.                                                      *)
Take(n, r)    == [n EXCEPT !.free = @ \ {Next_page(n)}, !.ref[Next_page(n)] = r]
free_page(n, q) ==
  [n EXCEPT !.free = @ \cup {q}, !.ref[q] = 0, !.ent[q] = Dirty, !.word[q] = -1]

(* One level of get_pte: the table below entry i of table t, made if need  *)
(* be; at is 0 if there is none.                                           *)
Level(n, t, i, create) ==
  LET e == n.ent[t][i].page IN
  IF e # 0 THEN [m |-> n, at |-> e]
  ELSE IF ~create \/ None(n) THEN [m |-> n, at |-> 0]
  ELSE LET q == Next_page(n) IN
       [m  |-> [Take(n, 1) EXCEPT !.ent[q] = Zeroed,
                                  !.ent[t][i] = [page |-> q, write |-> FALSE]],
        at |-> q]

(* The page table that has the entry for la.                               *)
get_pte(n, pgdir, la, create) ==
  LET pd0 == Level(n, pgdir, PDX1(la), create) IN
  IF pd0.at = 0 THEN pd0 ELSE Level(pd0.m, pd0.at, PDX0(la), create)

get_page(n, pgdir, la) ==
  LET pt == get_pte(n, pgdir, la, FALSE).at IN
  IF pt = 0 THEN NoEntry ELSE n.ent[pt][PTX(la)]

RefDec(n, q) ==
  IF n.ref[q] = 1 THEN free_page(n, q) ELSE [n EXCEPT !.ref[q] = @ - 1]

page_remove_pte(n, pt, i) ==
  IF n.ent[pt][i].page = 0 THEN n
  ELSE [RefDec(n, n.ent[pt][i].page) EXCEPT !.ent[pt][i] = NoEntry]

(* q becomes the page at la: done, with memory m, unless there is no page  *)
(* for a table.                                                            *)
page_insert(n, pgdir, q, la, write) ==
  LET g    == get_pte(n, pgdir, la, TRUE)
      i    == PTX(la)
      inc  == [g.m EXCEPT !.ref[q] = @ + 1]
      gone == page_remove_pte(inc, g.at, i)
  IN IF g.at = 0 THEN [m |-> g.m, done |-> FALSE]
     ELSE [m |-> [gone EXCEPT !.ent[g.at][i] = [page |-> q, write |-> write]],
           done |-> TRUE]

(* The page that is inserted has what w says.                              *)
pgdir_alloc_page(n, pgdir, la, write, w) ==
  IF None(n) THEN [m |-> n, done |-> FALSE]
  ELSE LET q == Next_page(n)
           r == page_insert([Take(n, 0) EXCEPT !.word[q] = w], pgdir, q, la, write)
       IN IF r.done THEN r ELSE [r EXCEPT !.m = free_page(@, q)]

-----------------------------------------------------------------------------
(* Ranges of pages lo..hi-1, page after page.                              *)
UnmapPage(n, pgdir, la) ==
  LET pt == get_pte(n, pgdir, la, FALSE).at IN
  IF pt = 0 THEN n ELSE page_remove_pte(n, pt, PTX(la))

unmap_range(n, pgdir, lo, hi) ==
  LET upto[a \in lo..hi] == IF a = lo THEN n ELSE UnmapPage(upto[a - 1], pgdir, a - 1)
  IN upto[hi]

(* exit_range at entry i of the directory pd0: a table without entries is  *)
(* freed; free_pd0 stays set only if every entry looked at was there.      *)
FreePt(x, pd0, i) ==
  LET pt == x.m.ent[pd0][i].page IN
  IF pt = 0 THEN [x EXCEPT !.free_pd0 = FALSE]
  ELSE IF \E j \in Index : x.m.ent[pt][j].page # 0 THEN x
  ELSE [x EXCEPT !.m = [free_page(x.m, pt) EXCEPT !.ent[pd0][i] = NoEntry]]

(* The part of exit_range below entry i of pgdir.                          *)
FreePd0(n, pgdir, i, lo, hi) ==
  LET pd0   == n.ent[pgdir][i].page
      size  == NPTE * NPDE
      first == PDX0(IF PDX1(lo) = i THEN lo ELSE i * size)
      last  == PDX0(Min({hi, (i + 1) * size}) - 1)
      upto[j \in first..(last + 1)] ==
        IF j = first THEN [m |-> n, free_pd0 |-> TRUE] ELSE FreePt(upto[j - 1], pd0, j - 1)
      x     == upto[last + 1]
  IN IF pd0 = 0 THEN n
     ELSE IF x.free_pd0
          THEN [free_page(x.m, pd0) EXCEPT !.ent[pgdir][i] = NoEntry]
          ELSE x.m

exit_range(n, pgdir, lo, hi) ==
  LET upto[i \in PDX1(lo)..(PDX1(hi - 1) + 1)] ==
        IF i = PDX1(lo) THEN n ELSE FreePd0(upto[i - 1], pgdir, i - 1, lo, hi)
  IN upto[PDX1(hi - 1) + 1]

(* copy_range for one page: ret is "ok", or "nomem" (an error), or "panic" *)
(* (an assertion).                                                         *)
(* Mutant: the child gets the parent's page.                               *)
CopyPageShares(x, to, from, la) ==
  LET e == get_page(x.m, from, la)
      r == page_insert(x.m, to, e.page, la, e.write)
  IN IF e.page = 0 THEN x ELSE [x EXCEPT !.m = r.m]

CopyPage(x, to, from, la) ==
  LET e == get_page(x.m, from, la)
      g == get_pte(x.m, to, la, TRUE)
  IN IF x.ret # "ok" \/ e.page = 0 THEN x
     ELSE IF g.at = 0 THEN [m |-> g.m, ret |-> "nomem"]
     ELSE IF None(g.m) THEN [m |-> g.m, ret |-> "panic"]
     ELSE [x EXCEPT !.m =
             pgdir_alloc_page(g.m, to, la, e.write, g.m.word[e.page]).m]

copy_range(x, to, from, lo, hi) ==
  LET upto[a \in lo..hi] == IF a = lo THEN x ELSE CopyPage(upto[a - 1], to, from, a - 1)
  IN upto[hi]

-----------------------------------------------------------------------------
(* The vmas of an mm, <<first, end, write>>, by first address.             *)
find_vma(vmas, la) ==
  LET at == {i \in DOMAIN vmas : vmas[i][1] <= la /\ la < vmas[i][2]}
  IN IF at = {} THEN 0 ELSE Min(at)

(* Where insert_vma_struct puts v, and the assertions on its neighbours.   *)
Place(vmas, v) == Cardinality({i \in DOMAIN vmas : vmas[i][1] <= v[1]}) + 1
Overlap(vmas, v) ==
  \E i \in DOMAIN vmas :
    i \in {Place(vmas, v) - 1, Place(vmas, v)}
    /\ vmas[i][1] < v[2] /\ v[1] < vmas[i][2]

insert_vma_struct(vmas, v) == InsertAt(vmas, Place(vmas, v), v)

(* The first page of the user's part, USERBASE, is page 0 here.            *)
USER_ACCESS(lo, hi) == 0 <= lo /\ lo < hi /\ hi <= USERTOP

(* mm_map looks for a vma at the first address only.                       *)
mm_map(vmas, v) ==
  IF ~USER_ACCESS(v[1], v[2]) \/ find_vma(vmas, v[1]) # 0 THEN "inval"
  ELSE IF Overlap(vmas, v) THEN "panic"
  ELSE "ok"

(* Mutant: what the vma allows is not looked at.                           *)
user_mem_checkAny(vmas, lo, hi, write) ==
  \A la \in lo..(hi - 1) : find_vma(vmas, la) # 0
(* The pages lo..hi-1 are the process's own, and, to be written, are       *)
(* writable and not the first of the stack.                                *)
user_mem_check(vmas, lo, hi, write) ==
  \A la \in lo..(hi - 1) :
    /\ find_vma(vmas, la) # 0
    /\ write => vmas[find_vma(vmas, la)][3] /\ la # UStack[1]

(* exit_mmap, put_pgdir, mm_destroy                                        *)
exit_mmap(n, x) ==
  LET len == Len(x.vmas)
      unmapped[i \in 0..len] ==
        IF i = 0 THEN n
        ELSE unmap_range(unmapped[i - 1], x.pgdir, x.vmas[i][1], x.vmas[i][2])
      exited[i \in 0..len] ==
        IF i = 0 THEN unmapped[len]
        ELSE exit_range(exited[i - 1], x.pgdir, x.vmas[i][1], x.vmas[i][2])
  IN free_page(exited[len], x.pgdir)

(* setup_pgdir: a directory that has only what the kernel needs.           *)
setup_pgdir(n) ==
  [Take(n, 0) EXCEPT !.ent[Next_page(n)] = Zeroed]

-----------------------------------------------------------------------------
(* load_icode.  x is [m, vmas, ret]; v is a segment, or the stack, of      *)
(* which the pages from lo on are allocated.                               *)
LoadPage(x, pgdir, la, write) ==
  LET r == pgdir_alloc_page(x.m, pgdir, la, write, 0) IN
  IF x.ret # "ok" THEN x
  ELSE [x EXCEPT !.m = r.m, !.ret = IF r.done THEN "ok" ELSE "nomem"]

LoadVma(x, pgdir, v, lo) ==
  LET map == mm_map(x.vmas, v)
      upto[a \in lo..v[2]] ==
        IF a = lo THEN [x EXCEPT !.vmas = insert_vma_struct(@, v)]
        ELSE LoadPage(upto[a - 1], pgdir, a - 1, v[3])
  IN IF x.ret # "ok" THEN x
     ELSE IF map # "ok" THEN [x EXCEPT !.ret = map]
     ELSE upto[v[2]]

(* That there are pages for the stack is asserted.                         *)
LoadStack(x, pgdir) ==
  LET y == LoadVma(x, pgdir, <<UStack[1], UStack[2], TRUE>>, UStack[2] - 1) IN
  IF x.ret = "ok" /\ y.ret = "nomem" THEN [y EXCEPT !.ret = "panic"] ELSE y

load_icode(n, prog) ==
  LET pgdir == Next_page(n)
      loaded[i \in 0..Len(prog)] ==
        IF i = 0 THEN [m |-> setup_pgdir(n), vmas |-> <<>>, ret |-> "ok"]
        ELSE LoadVma(loaded[i - 1], pgdir, prog[i], prog[i][1])
  IN LoadStack(loaded[Len(prog)], pgdir)

CopyVma(x, to, from, v) ==
  LET y == copy_range([m |-> x.m, ret |-> x.ret], to, from, v[1], v[2]) IN
  IF x.ret # "ok" THEN x
  ELSE [m |-> y.m, vmas |-> insert_vma_struct(x.vmas, v), ret |-> y.ret]

(* dup_mmap goes through the vmas from the last to the first.              *)
dup_mmap(n, to, from) ==
  LET len == Len(from.vmas)
      copied[i \in 0..len] ==
        IF i = 0 THEN [m |-> n, vmas |-> <<>>, ret |-> "ok"]
        ELSE CopyVma(copied[i - 1], to, from.pgdir, from.vmas[len - i + 1])
  IN copied[len]

-----------------------------------------------------------------------------
Init ==
  /\ m = [free |-> Page, ref |-> [q \in Page |-> 0],
          ent |-> [q \in Page |-> Dirty], word |-> [q \in Page |-> -1]]
  /\ mm = [p \in Proc |-> NoMm]
  /\ \E p \in Proc : alive = {p}
  /\ panic = "no"

(* The memory of p goes, if it has one.                                    *)
Gone(n, p) == IF mm[p] = NoMm THEN n ELSE exit_mmap(n, mm[p])

(* What an address space that was made leaves: p has it, or the kernel     *)
(* panics, or it is undone, and so is what the caller began for p.         *)
Ends(p, pgdir, x) ==
  LET new == [pgdir |-> pgdir, vmas |-> x.vmas] IN
  /\ panic' = IF x.ret = "panic" THEN IF None(x.m) THEN "memory" ELSE "overlap"
              ELSE "no"
  /\ m' = IF x.ret \in {"ok", "panic"} THEN x.m ELSE exit_mmap(x.m, new)
  /\ mm' = [mm EXCEPT ![p] = IF x.ret = "ok" THEN new ELSE NoMm]
  /\ alive' = IF x.ret = "nomem" \/ x.ret = "inval" THEN alive \ {p}
              ELSE alive \cup {p}

NoPgdir(p, n) ==
  /\ m' = n /\ mm' = [mm EXCEPT ![p] = NoMm] /\ alive' = alive \ {p}
  /\ UNCHANGED panic

(* do_execve: who fails to load a program exits.                           *)
Exec(p, prog) ==
  LET n == Gone(m, p) IN
  /\ panic = "no" /\ p \in alive
  /\ IF None(n) THEN NoPgdir(p, n)
     ELSE Ends(p, Next_page(n), load_icode(n, prog))

(* do_fork, as far as copy_mm.                                             *)
Fork(p, c) ==
  /\ panic = "no" /\ p \in alive /\ c \notin alive
  /\ IF mm[p] = NoMm
     THEN alive' = alive \cup {c} /\ UNCHANGED <<m, mm, panic>>
     ELSE IF None(m) THEN NoPgdir(c, m)
     ELSE Ends(c, Next_page(m), dup_mmap(setup_pgdir(m), Next_page(m), mm[p]))

(* do_exit; somebody is left to make processes.                            *)
Exit(p) ==
  /\ panic = "no" /\ p \in alive /\ alive # {p}
  /\ m' = Gone(m, p)
  /\ mm' = [mm EXCEPT ![p] = NoMm]
  /\ alive' = alive \ {p}
  /\ UNCHANGED panic

(* A store of p, in user mode, at an address that is mapped for it.        *)
Store(p, la, w) ==
  LET e == get_page(m, mm[p].pgdir, la) IN
  /\ panic = "no" /\ mm[p] # NoMm
  /\ e.page # 0 /\ e.write
  /\ m' = [m EXCEPT !.word[e.page] = w]
  /\ UNCHANGED <<mm, alive, panic>>

(* copy_to_user and copy_from_user, in a system call of p, of the pages    *)
(* lo..hi-1 in this order.  An address that passed the check and is not    *)
(* mapped is a page fault of the kernel, which trap() answers by going     *)
(* back to the same instruction.                                           *)
Faults(p, lo, hi) ==
  {la \in lo..(hi - 1) : get_page(m, mm[p].pgdir, la).page = 0}

Checked(p, lo, hi, write) ==
  /\ panic = "no" /\ mm[p] # NoMm
  /\ user_mem_check(mm[p].vmas, lo, hi, write)
  /\ panic' = IF Faults(p, lo, hi) = {} THEN "no" ELSE "fault"
  /\ UNCHANGED <<mm, alive>>

copy_to_user(p, lo, hi, w) ==
  /\ Checked(p, lo, hi, TRUE)
  /\ LET q(la) == get_page(m, mm[p].pgdir, la).page
         stored == {q(la) : la \in lo..(Min({hi} \cup Faults(p, lo, hi)) - 1)}
     IN m' = [m EXCEPT !.word = [r \in Page |-> IF r \in stored THEN w ELSE @[r]]]

copy_from_user(p, lo, hi) == Checked(p, lo, hi, FALSE) /\ UNCHANGED m

Next == \E p \in Proc :
  \/ \E prog \in Programs : Exec(p, prog)
  \/ \E c \in Proc : Fork(p, c)
  \/ Exit(p)
  \/ \E la \in Addr, w \in Word : Store(p, la, w)
  \/ \E lo \in Addr : \E hi \in (lo + 1)..Min({lo + MaxCopy, USERTOP}) :
       \/ copy_from_user(p, lo, hi)
       \/ \E w \in Word : copy_to_user(p, lo, hi, w)

Spec == Init /\ [][Next]_vars

-----------------------------------------------------------------------------
(* The tables and pages below a page directory, as pairs of where an entry *)
(* is and what it points to.                                               *)
Entries(t) == {<<t, i, m.ent[t][i].page>> : i \in {j \in Index : m.ent[t][j].page # 0}}
Below(ts)  == UNION {Entries(e[3]) : e \in ts}
Edges(p) ==
  IF mm[p] = NoMm THEN {}
  ELSE LET one == Entries(mm[p].pgdir) IN one \cup Below(one) \cup Below(Below(one))

Owned(p) == IF mm[p] = NoMm THEN {} ELSE {mm[p].pgdir} \cup {e[3] : e \in Edges(p)}

(* A page that anybody can reach through page tables is not free, belongs  *)
(* to one process only, in one place of one table, and its counter says    *)
(* so: what is freed twice or while still mapped, after any failure of a   *)
(* fork or exec in the middle, would be somebody else's page.              *)
PagesOwned ==
  panic = "no" =>
    \A p \in Proc :
      /\ Owned(p) \cap m.free = {}
      /\ \A o \in Proc \ {p} : Owned(p) \cap Owned(o) = {}
      /\ \A e \in Edges(p) :
           /\ m.ref[e[3]] = 1 /\ e[3] # mm[p].pgdir
           /\ \A f \in Edges(p) : f[3] = e[3] => f = e

(* exit_range: free level 0 page directory only when all pde0s in it are   *)
(* already invalid.  Otherwise their page tables are lost: they are not    *)
(* free, and nobody has them.                                              *)
NoTableLost ==
  panic = "no" => \A q \in Page : q \in m.free \/ \E p \in Proc : q \in Owned(p)

(* Each process has its own memory, whatever else was forked, loaded and   *)
(* freed.                                                                  *)
Mapped(p) ==
  LET at(la) == get_page(m, mm[p].pgdir, la) IN
  IF mm[p] = NoMm THEN [la \in {} |-> {}]
  ELSE [la \in {a \in Addr : at(a).page # 0} |-> <<m.word[at(la).page], at(la).write>>]

ImageOf(prog) ==
  LET seg(la) == {i \in DOMAIN prog : prog[i][1] <= la /\ la < prog[i][2]} IN
  [la \in {a \in Addr : seg(a) # {}} \cup {UStack[2] - 1} |->
     <<0, la = UStack[2] - 1 \/ \E i \in seg(la) : prog[i][3]>>]

Abs == INSTANCE AbsSpaces WITH
  Image <- {ImageOf(prog) : prog \in Programs},
  mem   <- [p \in Proc |-> Mapped(p)]

ImplementsSpaces == Abs!Spec
=============================================================================

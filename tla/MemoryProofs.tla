---------------------------- MODULE MemoryProofs -----------------------------
(***************************************************************************)
(* Theorems about memory: about what processes hold (module Resources) and *)
(* about their page tables (module Paging, as MCMemory has it).            *)
(*                                                                         *)
(* Resources, for any finite number of processes, any bounds, and any      *)
(* choice of the allocations that fail, that of the files included except  *)
(* where it says so.  Conserved speaks of the moments between two calls;   *)
(* what makes it hold is that the count agrees with the owners at every    *)
(* label (Balanced), for which the proof has to say what the child of a    *)
(* fork and the caller of an exec hold at each label (Forking, Loading),   *)
(* and that all other processes hold all of an address space or nothing    *)
(* (Resting).                                                              *)
(*                                                                         *)
(* Paging, for any number of processes, any sizes of memory and of tables, *)
(* and any programs.  PagesOwned follows the entries down from the page    *)
(* directories; what is inductive (SpacesInv) is that the pages can be     *)
(* sorted into directories, tables of level 0, page tables, and the others *)
(* (Tables), such that each kind points to the next one only, and no two   *)
(* entries to the same page.  The functions of mm/pmm.c and mm/vmm.c keep  *)
(* that one after the other, with pages on the way that are taken and not  *)
(* yet mapped; a loop keeps what its body keeps.                           *)
(***************************************************************************)
EXTENDS MCMemory, FiniteSetTheorems, SequenceTheorems, WellFoundedInduction, TLAPS

Kept == Object \ {"ph", "files"}
Base == {"proc", "kstack"}

ForkPcs ==
  {l[1] : l \in ForkLabels} \cup
  {"alloc_proc", "setup_kstack", "copy_mm", "copy_pgdir", "dup_mmap", "set_links",
   "copy_files"}

(* Every count is a number, every label is one of the code's.              *)
TypeOK ==
  /\ state \in [Proc -> {"none", "live", "zombie", "freed"}]
  /\ has \in [Proc -> SUBSET Object]
  /\ heap \in [Object -> Int]
  /\ pc \in ForkPcs \cup ExecLabels \cup {"user", "panic"}
  /\ cur \in Proc /\ child \in Proc

(* At every label what is allocated has an owner, a child that is being    *)
(* made and a process that has been freed included; nothing but program    *)
(* headers has been freed by who did not have it.                          *)
Held(o)  == Cardinality({p \in Proc : o \in has[p]})
Balanced == \A o \in Kept : heap[o] = Held(o)
Clean    == wild \subseteq {"ph"}

Has(p, yes, no) == yes \subseteq has[p] /\ no \cap has[p] = {}
Whole(p) == Has(p, Base, Space) \/ Has(p, Base \cup Space, {})

(* What do_fork has allocated for the child at each of its labels.         *)
Forking ==
  /\ pc \in {"alloc_proc", "setup_kstack", "copy_mm", "copy_pgdir", "dup_mmap",
             "set_links", "bad_dup_cleanup_mmap", "bad_fork_cleanup_mm"}
       => state[child] = "none"
  /\ pc = "alloc_proc" => Has(child, {}, Kept)
  /\ pc = "setup_kstack" => Has(child, {"proc"}, {"kstack"} \cup Space)
  /\ pc = "copy_mm" => Has(child, Base, Space)
  /\ pc \in {"copy_pgdir", "bad_fork_cleanup_mm"} =>
       Has(child, Base \cup {"mm"}, {"pgdir", "image"})
  /\ pc \in {"dup_mmap", "bad_dup_cleanup_mmap"} =>
       Has(child, Base \cup {"mm", "pgdir"}, {"image"})
  /\ pc = "set_links" => Whole(child)
  /\ pc = "copy_files" => state[child] = "live" /\ Whole(child)
  /\ pc = "bad_fork_cleanup_kstack" =>
       \/ state[child] = "live" /\ Whole(child)
       \/ state[child] = "none" /\ Has(child, Base, Space)
  /\ pc = "bad_fork_cleanup_proc" =>
       \/ state[child] = "live" /\ Has(child, {"proc"} \cup Space, {"kstack"})
       \/ state[child] \in {"none", "live"} /\ Has(child, {"proc"}, {"kstack"} \cup Space)

(* What the caller of do_execve holds at each label of load_icode.         *)
Loading ==
  /\ pc \in ExecLabels => state[cur] = "live" /\ Base \subseteq has[cur]
  /\ pc = "mm_create" => Has(cur, {}, Space)
  /\ pc \in {"setup_pgdir", "bad_pgdir_cleanup_mm"} => Has(cur, {"mm"}, {"pgdir", "image"})
  /\ pc \in {"read_elf", "alloc_ph", "read_ph", "bad_ph_cleanup", "bad_elf_cleanup_pgdir"} =>
       Has(cur, {"mm", "pgdir"}, {"image"})
  /\ pc \in {"segments", "bad_cleanup_mmap"} => Has(cur, {"mm", "pgdir"}, {})
  /\ pc \in {"mm_map_stack", "stack_pages"} => Has(cur, Space, {})
  /\ pc = "execve_exit" => Whole(cur)

(* A process for which nothing is being allocated or freed.                *)
Rests(p) ==
  \/ state[p] = "none" /\ Has(p, {}, Kept)
  \/ state[p] = "live" /\ Whole(p)
  \/ state[p] = "zombie" /\ Has(p, Base, Space)
  \/ state[p] = "freed"

Resting ==
  \A p \in Proc :
    \/ pc \in ForkPcs /\ p = child
    \/ pc \in ExecLabels /\ p = cur
    \/ Rests(p)

(* do_fork frees no child that runs already, if files can be had.          *)
NoneFreed ==
  "files" \notin FailAt =>
    /\ \A p \in Proc : state[p] # "freed"
    /\ pc \in {"bad_fork_cleanup_kstack", "bad_fork_cleanup_proc"} => state[child] # "live"

IInv == TypeOK /\ Balanced /\ Clean /\ Forking /\ Loading /\ Resting /\ NoneFreed

-----------------------------------------------------------------------------
(* The labels, written out.                                                *)
LEMMA Labels ==
  /\ ForkPcs = {"bad_dup_cleanup_mmap", "bad_fork_cleanup_mm", "bad_fork_cleanup_kstack",
                "bad_fork_cleanup_proc", "alloc_proc", "setup_kstack", "copy_mm",
                "copy_pgdir", "dup_mmap", "set_links", "copy_files"}
  /\ ExecLabels = {"bad_cleanup_mmap", "bad_ph_cleanup", "bad_elf_cleanup_pgdir",
                   "bad_pgdir_cleanup_mm", "mm_create", "setup_pgdir", "read_elf",
                   "alloc_ph", "read_ph", "segments", "mm_map_stack", "stack_pages",
                   "execve_exit"}
<1>1. {l[1] : l \in ForkLabels} =
        {"bad_dup_cleanup_mmap", "bad_fork_cleanup_mm", "bad_fork_cleanup_kstack",
         "bad_fork_cleanup_proc"}
  BY DEF ForkLabels
<1>2. {l[1] : l \in LoadLabels} =
        {"bad_cleanup_mmap", "bad_ph_cleanup", "bad_elf_cleanup_pgdir",
         "bad_pgdir_cleanup_mm"}
  BY DEF LoadLabels
<1> QED
  BY <1>1, <1>2 DEF ForkPcs, ExecLabels

LEMMA HeldNext ==
  ASSUME NEW o
  PROVE  /\ Held(o) = Cardinality({q \in Proc : o \in has[q]})
         /\ Held(o)' = Cardinality({q \in Proc : o \in has'[q]})
  BY DEF Held

(* If p gets o, one more process has o, and of nothing else.               *)
LEMMA HeldTaken ==
  ASSUME has \in [Proc -> SUBSET Object], NEW p \in Proc, NEW o \in Object, o \notin has[p],
         has' = [has EXCEPT ![p] = @ \cup {o}]
  PROVE  /\ Held(o)' = Held(o) + 1
         /\ \A x \in Object \ {o} : Held(x)' = Held(x)
<1>1. {q \in Proc : o \in has'[q]} = {q \in Proc : o \in has[q]} \cup {p}
  OBVIOUS
<1>2. IsFiniteSet({q \in Proc : o \in has[q]})
  <2>1. {q \in Proc : o \in has[q]} \subseteq Proc
    OBVIOUS
  <2> QED
    BY <2>1, FS_Subset, ResourcesAssumption DEF ResourcesAssumption
<1>3. Cardinality({q \in Proc : o \in has[q]} \cup {p}) =
        Cardinality({q \in Proc : o \in has[q]}) + 1
  BY <1>2, FS_AddElement
<1>4. ASSUME NEW x \in Object \ {o}
      PROVE  {q \in Proc : x \in has'[q]} = {q \in Proc : x \in has[q]}
  OBVIOUS
<1> QED
  BY <1>1, <1>3, <1>4, HeldNext

(* If p gives up the objects os, one process less has each of them.        *)
LEMMA HeldGiven ==
  ASSUME has \in [Proc -> SUBSET Object], NEW p \in Proc, NEW os,
         has' = [has EXCEPT ![p] = @ \ os]
  PROVE  \A o \in Object :
           Held(o)' = IF o \in os \cap has[p] THEN Held(o) - 1 ELSE Held(o)
<1> SUFFICES ASSUME NEW o \in Object
             PROVE  Held(o)' = IF o \in os \cap has[p] THEN Held(o) - 1 ELSE Held(o)
  OBVIOUS
<1>1. CASE o \in os \cap has[p]
  <2>1. {q \in Proc : o \in has'[q]} = {q \in Proc : o \in has[q]} \ {p}
    BY <1>1
  <2>2. IsFiniteSet({q \in Proc : o \in has[q]})
    <3>1. {q \in Proc : o \in has[q]} \subseteq Proc
      OBVIOUS
    <3> QED
      BY <3>1, FS_Subset, ResourcesAssumption DEF ResourcesAssumption
  <2>3. p \in {q \in Proc : o \in has[q]}
    BY <1>1
  <2>4. Cardinality({q \in Proc : o \in has[q]} \ {p}) =
          Cardinality({q \in Proc : o \in has[q]}) - 1
    BY <2>2, <2>3, FS_RemoveElement
  <2> QED
    BY <1>1, <2>1, <2>4, HeldNext
<1>2. CASE o \notin os \cap has[p]
  <2>1. {q \in Proc : o \in has'[q]} = {q \in Proc : o \in has[q]}
    BY <1>2
  <2> QED
    BY <1>2, <2>1, HeldNext
<1> QED
  BY <1>1, <1>2

LEMMA HeldType == \A o \in Object : Held(o) \in Nat
<1> SUFFICES ASSUME NEW o \in Object
             PROVE  Held(o) \in Nat
  OBVIOUS
<1>1. {q \in Proc : o \in has[q]} \subseteq Proc
  OBVIOUS
<1>2. IsFiniteSet({q \in Proc : o \in has[q]})
  BY <1>1, FS_Subset, ResourcesAssumption DEF ResourcesAssumption
<1> QED
  BY <1>2, FS_CardinalityType DEF Held

(* Giving up objects keeps the balance; so does an allocation for a        *)
(* process that does not have the object.                                  *)
LEMMA FreesBalanced ==
  ASSUME TypeOK, Balanced, NEW p \in Proc, NEW os, Frees(p, os)
  PROVE  Balanced' /\ has' \in [Proc -> SUBSET Object] /\ heap' \in [Object -> Int]
<1>1. has' = [has EXCEPT ![p] = @ \ os] /\ has \in [Proc -> SUBSET Object]
  BY DEF Frees, TypeOK
<1>2. \A o \in Object :
        Held(o)' = IF o \in os \cap has[p] THEN Held(o) - 1 ELSE Held(o)
  BY <1>1, HeldGiven
<1>3. \A o \in Object : heap'[o] = IF o \in os \cap has[p] THEN heap[o] - 1 ELSE heap[o]
  BY DEF Frees, GivesBack
<1>4. Kept \subseteq Object
  BY DEF Kept
<1>5. Balanced'
  BY <1>2, <1>3, <1>4 DEF Balanced
<1>6. has' \in [Proc -> SUBSET Object]
  BY <1>1
<1>7. heap' \in [Object -> Int]
  BY DEF Frees, GivesBack, TypeOK
<1> QED
  BY <1>5, <1>6, <1>7

LEMMA TakesBalanced ==
  ASSUME TypeOK, Balanced, NEW p \in Proc, NEW o \in Object, o \in Kept => o \notin has[p],
         has' = [has EXCEPT ![p] = @ \cup {o}], heap' = [heap EXCEPT ![o] = @ + 1]
  PROVE  Balanced' /\ has' \in [Proc -> SUBSET Object] /\ heap' \in [Object -> Int]
<1>1. has \in [Proc -> SUBSET Object] /\ heap \in [Object -> Int]
  BY DEF TypeOK
<1>2. has' \in [Proc -> SUBSET Object] /\ heap' \in [Object -> Int]
  BY <1>1
<1>3. ASSUME NEW x \in Kept
      PROVE  heap'[x] = Held(x)'
  <2>1. x \in Object /\ heap[x] = Held(x)
    BY DEF Kept, Balanced
  <2>2. CASE o \notin has[p]
    <3>1. Held(o)' = Held(o) + 1 /\ \A y \in Object \ {o} : Held(y)' = Held(y)
      BY <1>1, <2>2, HeldTaken
    <3> QED
      BY <1>1, <2>1, <3>1
  <2>3. CASE o \in has[p]
    <3>1. x # o /\ has' = has
      BY <1>1, <2>3
    <3> QED
      BY <1>1, <2>1, <3>1 DEF Held
  <2> QED
    BY <2>2, <2>3
<1> QED
  BY <1>2, <1>3 DEF Balanced

LEMMA AllocatesKeeps ==
  ASSUME TypeOK, Balanced, NEW l, NEW p \in Proc, NEW o \in Object, NEW next, NEW bad,
         o \in Kept => o \notin has[p], Allocates(l, p, o, next, bad)
  PROVE  /\ pc = l
         /\ Balanced' /\ has' \in [Proc -> SUBSET Object] /\ heap' \in [Object -> Int]
         /\ \A q \in Proc : q # p => has'[q] = has[q]
         /\ \/ pc' = next /\ has'[p] = has[p] \cup {o}
            \/ pc' = bad /\ has'[p] = has[p]
<1>1. CASE /\ has' = [has EXCEPT ![p] = @ \cup {o}]
           /\ heap' = [heap EXCEPT ![o] = @ + 1] /\ pc' = next
  BY <1>1, TakesBalanced DEF TypeOK, Allocates
<1>2. CASE pc' = bad /\ UNCHANGED <<heap, has>>
  BY <1>2 DEF TypeOK, Balanced, Held, Allocates
<1> QED
  BY <1>1, <1>2 DEF Allocates

LEMMA FreesKeeps ==
  ASSUME TypeOK, Balanced, NEW p \in Proc, NEW os, Frees(p, os)
  PROVE  /\ Balanced' /\ has' \in [Proc -> SUBSET Object] /\ heap' \in [Object -> Int]
         /\ \A q \in Proc : q # p => has'[q] = has[q]
         /\ has'[p] = has[p] \ os
         /\ Clean /\ os \ has[p] \subseteq {"ph"} => Clean'
  BY FreesBalanced DEF TypeOK, Frees, GivesBack, Clean

LEMMA InitHolds == ASSUME Init PROVE IInv
<1> USE ResourcesAssumption DEF ResourcesAssumption
<1>1. TypeOK
  BY DEF Init, TypeOK, Object
<1>2. Balanced
  <2> SUFFICES ASSUME NEW o \in Kept
               PROVE  heap[o] = Held(o)
    BY DEF Balanced
  <2>1. CASE o \in Base
    <3>1. {q \in Proc : o \in has[q]} = {InitProc}
      BY <2>1 DEF Init, Base
    <3> QED
      BY <2>1, <3>1, FS_Singleton DEF Held, Init, Base, Object
  <2>2. CASE o \notin Base
    <3>1. {q \in Proc : o \in has[q]} = {}
      BY <2>2 DEF Init, Base, Kept, Object
    <3> QED
      BY <2>2, <3>1, FS_EmptySet DEF Held, Init, Base, Kept, Object
  <2> QED
    BY <2>1, <2>2
<1>3. Forking /\ Loading
  BY Labels DEF Init, Forking, Loading
<1>4. Resting
  BY DEF Init, Resting, Rests, Has, Whole, Base, Space, Kept, Object
<1>5. Clean /\ NoneFreed
  BY DEF Init, Clean, NoneFreed
<1> QED
  BY <1>1, <1>2, <1>3, <1>4, <1>5 DEF IInv

-----------------------------------------------------------------------------
LEMMA ForkStep == ASSUME IInv, NEW p \in Proc, NEW c \in Proc, Fork(p, c) PROVE IInv'
<1> USE DEF IInv
<1>1. TypeOK'
  BY Labels DEF TypeOK, Fork
<1>2. Balanced'
  BY DEF Balanced, Held, Fork
<1>3. /\ UNCHANGED <<state, has>> /\ pc = "user" /\ pc' = "alloc_proc" /\ child' = c
      /\ state[c] = "none"
  BY DEF Fork, Running
<1>4. Rests(c) /\ \A q \in Proc : Rests(q)
  BY <1>3, Labels DEF Resting
<1>5. Forking'
  BY <1>3, <1>4 DEF Rests, Forking, Has
<1>6. Loading'
  BY <1>3, Labels DEF Loading
<1>7. Resting'
  BY <1>3, <1>4 DEF Resting, Rests, Has, Whole
<1>8. Clean' /\ NoneFreed'
  BY <1>3 DEF Fork, Clean, NoneFreed
<1> QED
  BY <1>1, <1>2, <1>5, <1>6, <1>7, <1>8

LEMMA ForkAllocatesStep == ASSUME IInv, ForkAllocates PROVE IInv'
<1> USE DEF IInv
<1> child \in Proc /\ UNCHANGED <<state, cur, child>> /\ Base \cup Space \subseteq Object
  BY DEF TypeOK, ForkAllocates, call, Base, Space, Object
<1> DEFINE Done(o, next, bad) ==
      /\ Balanced' /\ has' \in [Proc -> SUBSET Object] /\ heap' \in [Object -> Int]
      /\ \A q \in Proc : q # child => has'[q] = has[q]
      /\ \/ pc' = next /\ has'[child] = has[child] \cup {o}
         \/ pc' = bad /\ has'[child] = has[child]
<1>0. Clean' /\ NoneFreed'
  <2>1. Clean'
    BY DEF ForkAllocates, Clean
  <2>2. ASSUME "files" \notin FailAt, pc' \in {"bad_fork_cleanup_kstack", "bad_fork_cleanup_proc"}
        PROVE  pc \in {"copy_mm", "setup_kstack"}
    BY <2>2, Labels DEF ForkAllocates, Allocates
  <2> QED
    BY <2>1, <2>2 DEF NoneFreed, Forking
<1>1. CASE Allocates("alloc_proc", child, "proc", "setup_kstack", "user")
  <2>1. pc = "alloc_proc" /\ "proc" \notin has[child]
    BY <1>1 DEF Allocates, Forking, Has, Kept, Object
  <2>2. Done("proc", "setup_kstack", "user")
    BY <1>1, <2>1, AllocatesKeeps DEF Base
  <2>3. TypeOK'
    BY <2>2, Labels DEF TypeOK
  <2>4. Forking' /\ Loading'
    BY <2>1, <2>2, Labels DEF Forking, Loading, Has, Kept, Object, Space
  <2>5. Resting'
    BY <2>1, <2>2, Labels DEF Resting, Rests, Forking, Has, Whole
  <2> QED
    BY <1>0, <2>2, <2>3, <2>4, <2>5
<1>2. CASE Allocates("setup_kstack", child, "kstack",
                     IF "mm" \in has[cur] THEN "copy_mm" ELSE "set_links",
                     "bad_fork_cleanup_proc")
  <2>1. pc = "setup_kstack" /\ "kstack" \notin has[child]
    BY <1>2 DEF Allocates, Forking, Has
  <2>2. Done("kstack", IF "mm" \in has[cur] THEN "copy_mm" ELSE "set_links",
             "bad_fork_cleanup_proc")
    BY <1>2, <2>1, AllocatesKeeps DEF Base
  <2>3. TypeOK'
    BY <2>2, Labels DEF TypeOK
  <2>4. Forking' /\ Loading'
    BY <2>1, <2>2, Labels DEF Forking, Loading, Has, Whole, Base, Space
  <2>5. Resting'
    BY <2>1, <2>2, Labels DEF Resting, Rests, Has, Whole
  <2> QED
    BY <1>0, <2>2, <2>3, <2>4, <2>5
<1>3. CASE Allocates("copy_mm", child, "mm", "copy_pgdir", "bad_fork_cleanup_kstack")
  <2>1. pc = "copy_mm" /\ "mm" \notin has[child]
    BY <1>3 DEF Allocates, Forking, Has, Space
  <2>2. Done("mm", "copy_pgdir", "bad_fork_cleanup_kstack")
    BY <1>3, <2>1, AllocatesKeeps DEF Space
  <2>3. TypeOK'
    BY <2>2, Labels DEF TypeOK
  <2>4. Forking' /\ Loading'
    BY <2>1, <2>2, Labels DEF Forking, Loading, Has, Whole, Base, Space
  <2>5. Resting'
    BY <2>1, <2>2, Labels DEF Resting, Rests, Has, Whole
  <2> QED
    BY <1>0, <2>2, <2>3, <2>4, <2>5
<1>4. CASE Allocates("copy_pgdir", child, "pgdir", "dup_mmap", "bad_fork_cleanup_mm")
  <2>1. pc = "copy_pgdir" /\ "pgdir" \notin has[child]
    BY <1>4 DEF Allocates, Forking, Has
  <2>2. Done("pgdir", "dup_mmap", "bad_fork_cleanup_mm")
    BY <1>4, <2>1, AllocatesKeeps DEF Space
  <2>3. TypeOK'
    BY <2>2, Labels DEF TypeOK
  <2>4. Forking' /\ Loading'
    BY <2>1, <2>2, Labels DEF Forking, Loading, Has, Whole, Base, Space
  <2>5. Resting'
    BY <2>1, <2>2, Labels DEF Resting, Rests, Has, Whole
  <2> QED
    BY <1>0, <2>2, <2>3, <2>4, <2>5
<1>5. CASE Allocates("dup_mmap", child, "image", "set_links", "bad_dup_cleanup_mmap")
  <2>1. pc = "dup_mmap" /\ "image" \notin has[child]
    BY <1>5 DEF Allocates, Forking, Has
  <2>2. Done("image", "set_links", "bad_dup_cleanup_mmap")
    BY <1>5, <2>1, AllocatesKeeps DEF Space
  <2>3. TypeOK'
    BY <2>2, Labels DEF TypeOK
  <2>4. Forking' /\ Loading'
    BY <2>1, <2>2, Labels DEF Forking, Loading, Has, Whole, Base, Space
  <2>5. Resting'
    BY <2>1, <2>2, Labels DEF Resting, Rests, Has, Whole
  <2> QED
    BY <1>0, <2>2, <2>3, <2>4, <2>5
<1>6. CASE Allocates("copy_files", child, "files", "user", "bad_fork_cleanup_kstack")
  <2>1. pc = "copy_files" /\ "files" \in Object /\ "files" \notin Kept
    BY <1>6 DEF Allocates, Object, Kept
  <2>2. Done("files", "user", "bad_fork_cleanup_kstack")
    BY <1>6, <2>1, AllocatesKeeps
  <2>3. TypeOK'
    BY <2>2, Labels DEF TypeOK
  <2>4. Forking' /\ Loading'
    BY <2>1, <2>2, Labels DEF Forking, Loading, Has, Whole, Base, Space
  <2>5. Resting'
    BY <2>1, <2>2, Labels DEF Resting, Rests, Forking, Has, Whole, Base, Space
  <2> QED
    BY <1>0, <2>2, <2>3, <2>4, <2>5
<1> QED
  BY <1>1, <1>2, <1>3, <1>4, <1>5, <1>6 DEF ForkAllocates

LEMMA SetLinksStep == ASSUME IInv, SetLinks PROVE IInv'
<1> USE DEF IInv
<1>1. TypeOK'
  BY Labels DEF TypeOK, SetLinks, call
<1>2. Balanced'
  BY DEF Balanced, Held, SetLinks
<1>3. Forking' /\ Loading'
  BY Labels DEF Forking, Loading, Has, Whole, SetLinks, TypeOK, call
<1>4. Resting'
  BY Labels DEF Resting, Rests, Has, Whole, SetLinks, TypeOK, call
<1>5. Clean' /\ NoneFreed'
  BY DEF SetLinks, Clean, NoneFreed, TypeOK, call
<1> QED
  BY <1>1, <1>2, <1>3, <1>4, <1>5

LEMMA ForkCleansUpStep == ASSUME IInv, ForkCleansUp PROVE IInv'
<1> USE DEF IInv
<1> child \in Proc /\ UNCHANGED <<cur, child>>
  BY DEF TypeOK, ForkCleansUp, call
<1> PICK l \in ForkLabels : pc = l[1] /\ Frees(child, {l[2]}) /\ pc' = l[3]
  BY DEF ForkCleansUp
<1>1. /\ Balanced' /\ has' \in [Proc -> SUBSET Object] /\ heap' \in [Object -> Int]
      /\ \A q \in Proc : q # child => has'[q] = has[q]
      /\ has'[child] = has[child] \ {l[2]}
      /\ {l[2]} \ has[child] \subseteq {"ph"} => Clean'
  BY FreesKeeps
<1>2. /\ \A q \in Proc : q # child => state'[q] = state[q]
      /\ state'[child] = IF pc = "bad_fork_cleanup_proc" /\ state[child] = "live"
                         THEN "freed" ELSE state[child]
      /\ state' \in [Proc -> {"none", "live", "zombie", "freed"}]
  BY DEF TypeOK, ForkCleansUp
<1>3. \/ pc = "bad_dup_cleanup_mmap" /\ l[2] = "pgdir" /\ pc' = "bad_fork_cleanup_mm"
      \/ pc = "bad_fork_cleanup_mm" /\ l[2] = "mm" /\ pc' = "bad_fork_cleanup_kstack"
      \/ pc = "bad_fork_cleanup_kstack" /\ l[2] = "kstack" /\ pc' = "bad_fork_cleanup_proc"
      \/ pc = "bad_fork_cleanup_proc" /\ l[2] = "proc" /\ pc' = "user"
  BY DEF ForkLabels
<1>4. TypeOK'
  BY <1>1, <1>2, <1>3, Labels DEF TypeOK
<1>5. Forking'
  BY <1>1, <1>2, <1>3, Labels DEF Forking, Has, Whole, Base, Space
<1>6. Loading'
  BY <1>3, Labels DEF Loading
<1>7. Resting'
  BY <1>1, <1>2, <1>3, Labels DEF Resting, Rests, Forking, Has, Whole, Kept, Object, Space
<1>8. Clean'
  BY <1>1, <1>3 DEF Forking, Has, Whole, Base
<1>9. NoneFreed'
  <2>1. pc = "bad_fork_cleanup_mm" => state[child] = "none"
    BY DEF Forking
  <2>2. "files" \notin FailAt /\ pc = "bad_fork_cleanup_proc" => state[child] # "live"
    BY DEF NoneFreed
  <2> QED
    BY <1>2, <1>3, <2>1, <2>2 DEF NoneFreed
<1> QED
  BY <1>1, <1>4, <1>5, <1>6, <1>7, <1>8, <1>9

-----------------------------------------------------------------------------
LEMMA ExecStep == ASSUME IInv, NEW p \in Proc, NEW g, Exec(p, g) PROVE IInv'
<1> USE DEF IInv
<1>1. /\ pc = "user" /\ state[p] = "live" /\ UNCHANGED <<state, child>> /\ cur' = p
      /\ pc' = IF g = "missing" THEN "execve_exit" ELSE "mm_create"
  BY DEF Exec, Running
<1>2. /\ Balanced' /\ Clean' /\ has' \in [Proc -> SUBSET Object] /\ heap' \in [Object -> Int]
      /\ \A q \in Proc : q # p => has'[q] = has[q]
      /\ has'[p] = IF g = "missing" THEN has[p] ELSE has[p] \ SpaceOf(p)
  <2>1. CASE g = "missing"
    BY <2>1 DEF Exec, TypeOK, Balanced, Held, Clean
  <2>2. CASE g # "missing"
    <3>1. SpaceOf(p) \subseteq has[p]
      BY <1>1, Labels DEF Resting, Rests, Whole, Has, SpaceOf, Space
    <3> QED
      BY <2>2, <3>1, FreesKeeps DEF Exec
  <2> QED
    BY <2>1, <2>2
<1>3. TypeOK'
  BY <1>1, <1>2, Labels DEF TypeOK
<1>4. Whole(p) /\ (g # "missing" => Has(p, Base, Space)')
  <2>1. Whole(p)
    BY <1>1, Labels DEF Resting, Rests
  <2> QED
    BY <1>2, <2>1 DEF Has, Whole, Base, Space, SpaceOf
<1>5. Forking' /\ Loading'
  BY <1>1, <1>2, <1>4, Labels DEF Forking, Loading, Has, Whole, Base, Space
<1>6. Resting'
  BY <1>1, <1>2, Labels DEF Resting, Rests, Has, Whole
<1>7. NoneFreed'
  BY <1>1 DEF NoneFreed
<1> QED
  BY <1>2, <1>3, <1>5, <1>6, <1>7

LEMMA LoadAllocatesStep == ASSUME IInv, LoadAllocates PROVE IInv'
<1> USE DEF IInv
<1> cur \in Proc /\ UNCHANGED <<state, cur, child>> /\ Base \cup Space \subseteq Object
  BY DEF TypeOK, LoadAllocates, call, Base, Space, Object
<1> DEFINE Done(o, next, bad) ==
      /\ Balanced' /\ has' \in [Proc -> SUBSET Object] /\ heap' \in [Object -> Int]
      /\ \A q \in Proc : q # cur => has'[q] = has[q]
      /\ \/ pc' = next /\ has'[cur] = has[cur] \cup {o}
         \/ pc' = bad /\ has'[cur] = has[cur]
<1>0. Clean' /\ NoneFreed'
  BY Labels DEF LoadAllocates, Allocates, Clean, NoneFreed
<1>1. CASE Allocates("mm_create", cur, "mm", "setup_pgdir", "execve_exit")
  <2>1. pc = "mm_create" /\ "mm" \notin has[cur]
    BY <1>1 DEF Allocates, Loading, Has, Space
  <2>2. Done("mm", "setup_pgdir", "execve_exit")
    BY <1>1, <2>1, AllocatesKeeps DEF Space
  <2>3. TypeOK'
    BY <2>2, Labels DEF TypeOK
  <2>4. Forking' /\ Loading'
    BY <2>1, <2>2, Labels DEF Forking, Loading, Has, Whole, Base, Space
  <2>5. Resting'
    BY <2>1, <2>2, Labels DEF Resting, Rests, Has, Whole
  <2> QED
    BY <1>0, <2>2, <2>3, <2>4, <2>5
<1>2. CASE Allocates("setup_pgdir", cur, "pgdir", "read_elf", "bad_pgdir_cleanup_mm")
  <2>1. pc = "setup_pgdir" /\ "pgdir" \notin has[cur]
    BY <1>2 DEF Allocates, Loading, Has
  <2>2. Done("pgdir", "read_elf", "bad_pgdir_cleanup_mm")
    BY <1>2, <2>1, AllocatesKeeps DEF Space
  <2>3. TypeOK'
    BY <2>2, Labels DEF TypeOK
  <2>4. Forking' /\ Loading'
    BY <2>1, <2>2, Labels DEF Forking, Loading, Has, Whole, Base, Space
  <2>5. Resting'
    BY <2>1, <2>2, Labels DEF Resting, Rests, Has, Whole
  <2> QED
    BY <1>0, <2>2, <2>3, <2>4, <2>5
<1>3. CASE Allocates("alloc_ph", cur, "ph", "read_ph", "bad_elf_cleanup_pgdir")
  <2>1. pc = "alloc_ph" /\ "ph" \in Object /\ "ph" \notin Kept
    BY <1>3 DEF Allocates, Object, Kept
  <2>2. Done("ph", "read_ph", "bad_elf_cleanup_pgdir")
    BY <1>3, <2>1, AllocatesKeeps
  <2>3. TypeOK'
    BY <2>2, Labels DEF TypeOK
  <2>4. Forking' /\ Loading'
    BY <2>1, <2>2, Labels DEF Forking, Loading, Has, Whole, Base, Space
  <2>5. Resting'
    BY <2>1, <2>2, Labels DEF Resting, Rests, Has, Whole
  <2> QED
    BY <1>0, <2>2, <2>3, <2>4, <2>5
<1> QED
  BY <1>1, <1>2, <1>3 DEF LoadAllocates

LEMMA LoadReadsStep == ASSUME IInv, LoadReads PROVE IInv'
<1> USE DEF IInv
<1>1. /\ UNCHANGED <<state, has, heap, cur, child>>
      /\ \/ pc = "read_elf" /\ pc' \in {"alloc_ph", "bad_elf_cleanup_pgdir"}
         \/ pc = "read_ph" /\ pc' \in {"segments", "bad_ph_cleanup"}
  BY DEF LoadReads, call
<1>2. TypeOK'
  BY <1>1, Labels DEF TypeOK
<1>3. Balanced'
  BY <1>1 DEF Balanced, Held
<1>4. Forking' /\ Loading'
  BY <1>1, Labels DEF Forking, Loading, Has
<1>5. Resting'
  BY <1>1, Labels DEF Resting, Rests, Has, Whole
<1>6. Clean' /\ NoneFreed'
  BY <1>1 DEF LoadReads, Clean, NoneFreed
<1> QED
  BY <1>2, <1>3, <1>4, <1>5, <1>6

LEMMA LoadSegmentStep == ASSUME IInv, LoadSegment PROVE IInv'
<1> USE DEF IInv
<1>1. UNCHANGED <<state, cur, child>> /\ cur \in Proc /\ "image" \in Object
  BY DEF TypeOK, LoadSegment, Object
<1>0. Clean' /\ NoneFreed'
  BY <1>1 DEF LoadSegment, Clean, NoneFreed
<1>2. CASE /\ pc' \in {"segments", "mm_map_stack", "stack_pages"}
           /\ pc = "segments" => pc' # "stack_pages"
           /\ has' = [has EXCEPT ![cur] = @ \cup {"image"}]
           /\ heap' = IF "image" \in has[cur] THEN heap
                      ELSE [heap EXCEPT !["image"] = @ + 1]
  <2>1. pc \in {"segments", "mm_map_stack"} /\ Has(cur, {"mm", "pgdir"}, {})
    BY DEF LoadSegment, Loading, Has, Space
  <2>2. Balanced' /\ has' \in [Proc -> SUBSET Object] /\ heap' \in [Object -> Int]
    <3>1. CASE "image" \in has[cur]
      BY <1>1, <1>2, <3>1 DEF TypeOK, Balanced, Held
    <3>2. CASE "image" \notin has[cur]
      BY <1>1, <1>2, <3>2, TakesBalanced
    <3> QED
      BY <3>1, <3>2
  <2>3. /\ \A q \in Proc : q # cur => has'[q] = has[q]
        /\ has'[cur] = has[cur] \cup {"image"}
    BY <1>1, <1>2 DEF TypeOK
  <2>4. TypeOK'
    BY <1>1, <1>2, <2>2, Labels DEF TypeOK
  <2>5. Forking' /\ Loading'
    BY <1>1, <1>2, <2>1, <2>3, Labels DEF Forking, Loading, Has, Space
  <2>6. Resting'
    BY <1>1, <1>2, <2>1, <2>3, Labels DEF Resting, Rests, Has, Whole
  <2> QED
    BY <1>0, <2>2, <2>4, <2>5, <2>6
<1>3. CASE pc' = "bad_cleanup_mmap" /\ UNCHANGED <<has, heap>>
  <2>1. pc \in {"segments", "mm_map_stack"} /\ Has(cur, {"mm", "pgdir"}, {})
    BY DEF LoadSegment, Loading, Has, Space
  <2>2. TypeOK'
    BY <1>1, <1>3, Labels DEF TypeOK
  <2>3. Balanced'
    BY <1>3 DEF Balanced, Held
  <2>4. Forking' /\ Loading'
    BY <1>1, <1>3, <2>1, Labels DEF Forking, Loading, Has
  <2>5. Resting'
    BY <1>1, <1>3, <2>1, Labels DEF Resting, Rests, Has, Whole
  <2> QED
    BY <1>0, <2>2, <2>3, <2>4, <2>5
<1> QED
  BY <1>2, <1>3 DEF LoadSegment

LEMMA LoadDoneStep == ASSUME IInv, LoadDone PROVE IInv'
<1> USE DEF IInv
<1>1. /\ UNCHANGED <<state, heap, cur, child>> /\ cur \in Proc /\ pc = "stack_pages"
      /\ pc' \in {"user", "panic"}
      /\ has' = [has EXCEPT ![cur] = @ \ {"ph"}] \/ has' = has
  BY DEF TypeOK, LoadDone, call
<1>2. /\ has' \in [Proc -> SUBSET Object]
      /\ \A q \in Proc, o \in Kept : o \in has'[q] <=> o \in has[q]
  BY <1>1 DEF TypeOK, Kept
<1>3. TypeOK'
  BY <1>1, <1>2, Labels DEF TypeOK
<1>4. Balanced'
  <2> SUFFICES ASSUME NEW o \in Kept
               PROVE  Held(o)' = Held(o)
    BY <1>1 DEF Balanced
  <2>1. {q \in Proc : o \in has'[q]} = {q \in Proc : o \in has[q]}
    BY <1>2
  <2> QED
    BY <2>1, HeldNext
<1>5. Forking' /\ Loading'
  BY <1>1, Labels DEF Forking, Loading
<1>6. Resting'
  BY <1>1, <1>2, Labels DEF Resting, Rests, Loading, Has, Whole, Base, Space, Kept, Object
<1>7. Clean' /\ NoneFreed'
  BY <1>1 DEF LoadDone, Clean, NoneFreed
<1> QED
  BY <1>3, <1>4, <1>5, <1>6, <1>7

LEMMA LoadCleansUpStep == ASSUME IInv, LoadCleansUp PROVE IInv'
<1> USE DEF IInv
<1> UNCHANGED <<state, cur, child>> /\ cur \in Proc
  BY DEF TypeOK, LoadCleansUp, call
<1> PICK l \in LoadLabels :
       /\ pc = l[1] /\ pc' = l[3]
       /\ IF l[2] = "ph" /\ seg > 0
          THEN /\ wild' = wild \cup {"ph"} /\ has' = [has EXCEPT ![cur] = @ \ {"ph"}]
               /\ UNCHANGED heap
          ELSE Frees(cur, IF l[2] = "image" THEN {"image"} \cap has[cur] ELSE {l[2]})
  BY DEF LoadCleansUp
<1>1. /\ Balanced' /\ has' \in [Proc -> SUBSET Object] /\ heap' \in [Object -> Int]
      /\ \A q \in Proc : q # cur => has'[q] = has[q]
      /\ has'[cur] = has[cur] \ {l[2]}
      /\ {l[2]} \ has[cur] \subseteq {"ph", "image"} => Clean'
  <2>1. CASE l[2] = "ph" /\ seg > 0
    <3>1. /\ heap' = heap /\ has' \in [Proc -> SUBSET Object]
          /\ has' = [has EXCEPT ![cur] = @ \ {"ph"}]
          /\ \A q \in Proc, o \in Kept : o \in has'[q] <=> o \in has[q]
      BY <2>1 DEF TypeOK, Kept
    <3>2. ASSUME NEW o \in Kept
          PROVE  Held(o)' = Held(o)
      <4>1. {q \in Proc : o \in has'[q]} = {q \in Proc : o \in has[q]}
        BY <3>1
      <4> QED
        BY <4>1, HeldNext
    <3> QED
      BY <2>1, <3>1, <3>2 DEF Balanced, TypeOK, Clean
  <2>2. CASE ~(l[2] = "ph" /\ seg > 0)
    <3> DEFINE os == IF l[2] = "image" THEN {"image"} \cap has[cur] ELSE {l[2]}
    <3>1. Frees(cur, os) /\ has[cur] \ os = has[cur] \ {l[2]}
      BY <2>2
    <3>2. {l[2]} \ has[cur] \subseteq {"ph", "image"} => os \ has[cur] \subseteq {"ph"}
      OBVIOUS
    <3> QED
      BY <3>1, <3>2, FreesKeeps
  <2> QED
    BY <2>1, <2>2
<1>2. \/ pc = "bad_cleanup_mmap" /\ l[2] = "image" /\ pc' = "bad_ph_cleanup"
      \/ pc = "bad_ph_cleanup" /\ l[2] = "ph" /\ pc' = "bad_elf_cleanup_pgdir"
      \/ pc = "bad_elf_cleanup_pgdir" /\ l[2] = "pgdir" /\ pc' = "bad_pgdir_cleanup_mm"
      \/ pc = "bad_pgdir_cleanup_mm" /\ l[2] = "mm" /\ pc' = "execve_exit"
  BY DEF LoadLabels
<1>3. TypeOK'
  BY <1>1, <1>2, Labels DEF TypeOK
<1>4. Forking'
  BY <1>2, Labels DEF Forking
<1>5. Loading'
  BY <1>1, <1>2, Labels DEF Loading, Has, Whole, Base, Space
<1>6. Resting'
  BY <1>1, <1>2, Labels DEF Resting, Rests, Has, Whole
<1>7. Clean' /\ NoneFreed'
  <2>1. Clean'
    BY <1>1, <1>2 DEF Loading, Has
  <2> QED
    BY <1>2, <2>1 DEF NoneFreed
<1> QED
  BY <1>1, <1>3, <1>4, <1>5, <1>6, <1>7

-----------------------------------------------------------------------------
LEMMA ExitStep == ASSUME IInv, NEW p \in Proc, Exit(p) PROVE IInv'
<1> USE DEF IInv
<1>1. /\ Frees(p, GivenUp(p)) /\ pc' = "user" /\ UNCHANGED <<cur, child>>
      /\ state' = [state EXCEPT ![p] = "zombie"]
  BY DEF Exit, call
<1>2. /\ Balanced' /\ has' \in [Proc -> SUBSET Object] /\ heap' \in [Object -> Int]
      /\ \A q \in Proc : q # p => has'[q] = has[q]
      /\ has'[p] = has[p] \ GivenUp(p)
      /\ GivenUp(p) \ has[p] \subseteq {"ph"} => Clean'
  BY <1>1, FreesKeeps
<1>3. Whole(p) /\ pc \in {"user", "execve_exit"} /\ (pc = "execve_exit" => p = cur)
  BY Labels DEF Exit, Running, Resting, Rests, Loading
<1>4. Has(p, Base, Space)'
  BY <1>2, <1>3 DEF Whole, Has, GivenUp, SpaceOf, Base, Space
<1>5. TypeOK'
  BY <1>1, <1>2, Labels DEF TypeOK
<1>6. Forking' /\ Loading'
  BY <1>1, Labels DEF Forking, Loading
<1>7. Resting'
  BY <1>1, <1>2, <1>3, <1>4, Labels DEF TypeOK, Resting, Rests, Has, Whole
<1>8. Clean'
  BY <1>2, <1>3 DEF Whole, Has, GivenUp, SpaceOf, Space
<1>9. NoneFreed'
  BY <1>1 DEF NoneFreed, TypeOK
<1> QED
  BY <1>2, <1>5, <1>6, <1>7, <1>8, <1>9

LEMMA WaitStep == ASSUME IInv, NEW z \in Proc, Wait(z) PROVE IInv'
<1> USE DEF IInv
<1>1. /\ pc = "user" /\ pc' = "user" /\ UNCHANGED <<cur, child>> /\ state[z] = "zombie"
      /\ state' = [state EXCEPT ![z] = "none"]
      /\ has' = [has EXCEPT ![z] = @ \ Object]
      /\ GivesBack(z, {"kstack", "proc"})
  BY DEF Wait, call, TypeOK
<1>2. Has(z, Base, Space)
  BY <1>1, Labels DEF Resting, Rests
<1>3. has' \in [Proc -> SUBSET Object] /\ heap' \in [Object -> Int] /\ has'[z] = {}
  BY <1>1 DEF TypeOK, GivesBack
<1>4. \A o \in Object : Held(o)' = IF o \in Object \cap has[z] THEN Held(o) - 1 ELSE Held(o)
  BY <1>1, HeldGiven DEF TypeOK
<1>5. Balanced'
  <2> SUFFICES ASSUME NEW o \in Kept
               PROVE  heap'[o] = Held(o)'
    BY DEF Balanced
  <2>1. o \in Object /\ heap[o] = Held(o)
    BY DEF Balanced, Kept
  <2>2. heap'[o] = IF o \in Base THEN heap[o] - 1 ELSE heap[o]
    BY <1>1, <1>2, <2>1 DEF GivesBack, Has, Base
  <2>3. o \in has[z] <=> o \in Base
    BY <1>2 DEF Has, Base, Space, Kept, Object
  <2> QED
    BY <1>4, <2>1, <2>2, <2>3
<1>6. TypeOK'
  BY <1>1, <1>3, Labels DEF TypeOK
<1>7. Forking' /\ Loading'
  BY <1>1, Labels DEF Forking, Loading
<1>8. Resting'
  BY <1>1, <1>3, Labels DEF TypeOK, Resting, Rests, Has, Whole
<1>9. Clean' /\ NoneFreed'
  BY <1>1, <1>2 DEF GivesBack, Has, Base, Clean, NoneFreed, TypeOK
<1> QED
  BY <1>5, <1>6, <1>7, <1>8, <1>9

LEMMA StepKeeps == ASSUME IInv, [Next]_vars PROVE IInv'
<1>1. CASE UNCHANGED vars
  <2>1. TypeOK' /\ Forking' /\ Loading' /\ Clean' /\ NoneFreed'
    BY <1>1 DEF IInv, vars, TypeOK, Forking, Loading, Has, Whole, Clean, NoneFreed
  <2>2. Balanced' /\ Resting'
    BY <1>1 DEF IInv, vars, Balanced, Held, Resting, Rests, Has, Whole
  <2> QED
    BY <2>1, <2>2 DEF IInv
<1> QED
  BY <1>1, ForkStep, ForkAllocatesStep, SetLinksStep, ForkCleansUpStep, ExecStep,
     LoadAllocatesStep, LoadReadsStep, LoadSegmentStep, LoadDoneStep, LoadCleansUpStep,
     ExitStep, WaitStep DEF Next

(* The inductive invariant holds.                                          *)
THEOREM BalancedHolds == Spec => []IInv
<1>1. Init => IInv
  BY InitHolds
<1>2. IInv /\ [Next]_vars => IInv'
  BY StepKeeps
<1> QED
  BY <1>1, <1>2, PTL DEF Spec

(* If files can always be had, fork, exec, exit and wait lose no kernel    *)
(* stack, mm, page table, image or proc_struct, and free none that is not  *)
(* there, whatever other allocation of theirs fails: between two calls the *)
(* ones in use are those of the living processes and zombies.  Without the *)
(* assumption it is false of the code (NoFreedProc in Resources).          *)
THEOREM ConservedHolds ==
  ASSUME "files" \notin FailAt
  PROVE  Spec => []Conserved
<1>1. IInv => Conserved
  <2> SUFFICES ASSUME IInv
               PROVE  Conserved
    OBVIOUS
  <2>1. ASSUME pc = "user", NEW o \in Kept
        PROVE  heap[o] = Count(o)
    <3>1. \A p \in Proc : o \in has[p] => state[p] \in {"live", "zombie"}
      BY <2>1, Labels DEF IInv, Resting, Rests, Has, NoneFreed
    <3>2. {p \in Proc : state[p] \in {"live", "zombie"} /\ o \in has[p]} =
            {p \in Proc : o \in has[p]}
      BY <3>1
    <3> QED
      BY <3>2 DEF IInv, Balanced, Held, Count
  <2> QED
    BY <2>1 DEF IInv, Clean, Conserved, Kept
<1> QED
  BY <1>1, BalancedHolds, PTL

-----------------------------------------------------------------------------
(* A process outside exec has all of an address space if it has an mm.     *)
LEMMA WholeSpace ==
  ASSUME IInv, NEW p \in Proc, state[p] = "live", "mm" \in has[p], pc \notin ExecLabels
  PROVE  Space \subseteq has[p]
<1>1. CASE pc \in ForkPcs /\ p = child
  BY <1>1, Labels DEF IInv, Forking, Has, Whole, Space
<1>2. CASE Rests(p)
  BY <1>2 DEF Rests, Whole, Has, Space
<1> QED
  BY <1>1, <1>2 DEF IInv, Resting

(* The step of NoReturnBare, for one process.                              *)
LEMMA NotBare ==
  ASSUME IInv, Next, NEW p \in Proc, pc' = "user", state[p] = "live",
         IF pc \in ExecLabels THEN p = cur ELSE "mm" \in has[p]
  PROVE  Space \subseteq has'[p] \/ state'[p] = "zombie"
<1> USE DEF IInv
<1> child \in Proc /\ cur \in Proc /\ has \in [Proc -> SUBSET Object]
  BY DEF TypeOK
<1>1. ASSUME NEW q \in Proc, NEW c \in Proc, Fork(q, c) PROVE FALSE
  BY <1>1 DEF Fork
<1>2. ASSUME NEW q \in Proc, NEW g \in Programs, Exec(q, g) PROVE FALSE
  BY <1>2 DEF Exec
<1>3. CASE \E q \in Proc : Exit(q)
  <2> PICK q \in Proc : Exit(q)
    BY <1>3
  <2>1. CASE q = p
    BY <2>1 DEF Exit, TypeOK
  <2>2. CASE q # p
    <3>1. pc \notin ExecLabels /\ has'[p] = has[p]
      BY <2>2, Labels DEF Exit, Running, Frees, GivesBack
    <3> QED
      BY <3>1, WholeSpace
  <2> QED
    BY <2>1, <2>2
<1>4. CASE \E z \in Proc : Wait(z)
  <2> PICK z \in Proc : Wait(z)
    BY <1>4
  <2>1. pc = "user" /\ z # p /\ has'[p] = has[p]
    BY DEF Wait
  <2> QED
    BY <2>1, WholeSpace, Labels
<1>5. CASE ForkAllocates
  <2>1. pc \in ForkPcs /\ has[p] \subseteq has'[p]
    BY <1>5, Labels DEF ForkAllocates, Allocates
  <2> QED
    BY <2>1, WholeSpace, Labels
<1>6. CASE ForkCleansUp
  <2> PICK l \in ForkLabels : pc = l[1] /\ Frees(child, {l[2]}) /\ pc' = l[3]
    BY <1>6 DEF ForkCleansUp
  <2>1. pc = "bad_fork_cleanup_proc" /\ l[2] = "proc"
    BY DEF ForkLabels
  <2>2. has[p] \cap Space \subseteq has'[p]
    BY <2>1 DEF Frees, Space
  <2>3. Space \subseteq has[p]
    BY <2>1, WholeSpace, Labels
  <2> QED
    BY <2>2, <2>3
<1>7. CASE LoadDone
  <2>1. pc = "stack_pages" /\ p = cur /\ has' = [has EXCEPT ![cur] = @ \ {"ph"}]
    BY <1>7, Labels DEF LoadDone
  <2>2. Space \subseteq has[cur]
    BY <2>1 DEF Loading, Has
  <2> QED
    BY <2>1, <2>2 DEF Space
<1>8. CASE SetLinks \/ LoadAllocates \/ LoadReads \/ LoadSegment \/ LoadCleansUp
  BY <1>8 DEF SetLinks, LoadAllocates, Allocates, LoadReads, LoadSegment, LoadCleansUp,
              LoadLabels
<1> QED
  BY <1>1, <1>2, <1>3, <1>4, <1>5, <1>6, <1>7, <1>8 DEF Next

(* Nobody returns from exec to a program that is gone, and nobody loses    *)
(* the memory that he runs in.                                             *)
THEOREM NoReturnBareHolds == Spec => NoReturnBare
<1>1. IInv /\ [Next]_vars =>
        [\A p \in Proc :
           /\ pc' = "user" /\ state[p] = "live"
           /\ IF pc \in ExecLabels THEN p = cur ELSE "mm" \in has[p]
           => Space \subseteq has'[p] \/ state'[p] = "zombie"]_vars
  BY NotBare
<1> QED
  BY <1>1, BalancedHolds, PTL DEF Spec, NoReturnBare

-----------------------------------------------------------------------------
(* Numbers.                                                                *)

LEMMA LeastNumber ==
  ASSUME NEW T, T \subseteq Nat, T # {}
  PROVE  \E x \in T : \A y \in T : x <= y
<1> DEFINE R == {ss \in Nat \X Nat : ss[1] < ss[2]}
<1>1. IsWellFoundedOn(R, Nat)
  BY NatLessThanWellFounded DEF OpToRel
<1> HIDE DEF R
<1>2. PICK x \in T : \A y \in T : ~ (<<y, x>> \in R)
  BY <1>1, WFMin
<1>3. \A y \in T : ~(y < x)
  BY <1>2 DEF R
<1> QED BY <1>3

(* What holds at the first and from each to the next holds of all.         *)
LEMMA Upwards ==
  ASSUME NEW lo \in Int, NEW hi \in Int, NEW T,
         lo \in T, \A a \in lo..(hi - 1) : a \in T => a + 1 \in T
  PROVE  \A a \in lo..hi : a \in T
<1> DEFINE D == {d \in Nat : lo + d <= hi /\ lo + d \notin T}
<1> SUFFICES ASSUME NEW a \in lo..hi, a \notin T PROVE FALSE
  OBVIOUS
<1>1. a - lo \in Nat /\ lo + (a - lo) = a
  OBVIOUS
<1>2. a - lo \in D /\ D \subseteq Nat
  BY <1>1
<1>3. PICK d \in D : \A e \in D : d <= e
  <2> HIDE DEF D
  <2> QED BY <1>2, LeastNumber
<1>4. d # 0
  <2>1. CASE d = 0
    <3>1. lo + d = lo
      BY <2>1
    <3> QED BY <1>3, <3>1
  <2> QED BY <2>1
<1>5. d - 1 \in Nat /\ d - 1 \notin D /\ lo + (d - 1) <= hi /\ lo + (d - 1) \in lo..(hi - 1)
  BY <1>3, <1>4
<1>6. lo + (d - 1) \in T
  BY <1>5
<1>7. lo + (d - 1) + 1 = lo + d
  BY <1>5
<1> QED BY <1>3, <1>5, <1>6, <1>7

(* A loop from lo to hi, given by a function for its body, has a history.  *)
Histories(S, lo, hi, x, g) ==
  {h \in [lo..hi -> S] :
     h[lo] = x /\ \A a \in (lo + 1)..hi : h[a] = g[<<h[a - 1], a - 1>>]}

LEMMA History ==
  ASSUME NEW S, NEW lo \in Int, NEW hi \in Int, lo <= hi, NEW x \in S,
         NEW g \in [S \X (lo..(hi - 1)) -> S]
  PROVE  Histories(S, lo, hi, x, g) # {}
<1> DEFINE Part(b, h) == /\ h \in [lo..b -> S] /\ h[lo] = x
                         /\ \A a \in (lo + 1)..b : h[a] = g[<<h[a - 1], a - 1>>]
           T == {b \in lo..hi : \E h : Part(b, h)}
<1>1. lo \in T
  <2> DEFINE h == [a \in lo..lo |-> x]
  <2>1. Part(lo, h)
    OBVIOUS
  <2> QED BY <2>1
<1>2. ASSUME NEW b \in lo..(hi - 1), b \in T PROVE b + 1 \in T
  <2>1. PICK h : Part(b, h)
    BY <1>2
  <2> DEFINE k == [a \in lo..(b + 1) |-> IF a = b + 1 THEN g[<<h[b], b>>] ELSE h[a]]
  <2>2. b \in lo..b /\ h[b] \in S
    BY <2>1
  <2>3. g[<<h[b], b>>] \in S
    BY <2>2
  <2>4. k \in [lo..(b + 1) -> S] /\ k[lo] = x
    BY <2>1, <2>3
  <2>5. ASSUME NEW a \in (lo + 1)..(b + 1) PROVE k[a] = g[<<k[a - 1], a - 1>>]
    <3>1. CASE a = b + 1
      <4>1. a - 1 = b /\ k[b] = h[b] /\ k[b + 1] = g[<<h[b], b>>]
        BY <3>1
      <4> HIDE DEF k
      <4> QED BY <3>1, <4>1
    <3>2. CASE a # b + 1
      <4>1. a \in (lo + 1)..b /\ k[a] = h[a] /\ k[a - 1] = h[a - 1]
        BY <3>2
      <4> HIDE DEF k
      <4> QED BY <2>1, <4>1
    <3> QED BY <3>1, <3>2
  <2>6. Part(b + 1, k)
    <3> HIDE DEF k
    <3> QED BY <2>4, <2>5
  <2> HIDE DEF k
  <2> QED BY <2>6
<1>3. hi \in T
  <2> HIDE DEF T
  <2>1. \A a \in lo..hi : a \in T
    BY <1>1, <1>2, Upwards
  <2> QED BY <2>1
<1>4. PICK h : Part(hi, h)
  BY <1>3
<1> QED BY <1>4 DEF Histories

(* The values of such a history stay where the body leads.                 *)
LEMMA Staying ==
  ASSUME NEW S, NEW lo \in Int, NEW hi \in Int, lo <= hi, NEW c,
         c[lo] \in S, \A a \in lo..(hi - 1) : c[a] \in S => c[a + 1] \in S
  PROVE  c[hi] \in S
<1> DEFINE T == {a \in lo..hi : c[a] \in S}
<1>1. lo \in T /\ \A a \in lo..(hi - 1) : a \in T => a + 1 \in T
  OBVIOUS
<1> HIDE DEF T
<1>2. \A a \in lo..hi : a \in T
  BY <1>1, Upwards
<1>3. hi \in T
  BY <1>2
<1> QED BY <1>3 DEF T

(* Division.                                                               *)
LEMMA Division ==
  ASSUME NEW a \in Nat, NEW b \in Nat \ {0}
  PROVE  /\ a \div b \in Nat /\ a % b \in 0..(b - 1)
         /\ a = b * (a \div b) + (a % b)
<1>1. a \div b \in Nat
  OBVIOUS
<1>2. a % b \in 0..(b - 1)
  OBVIOUS
<1>3. a = b * (a \div b) + (a % b)
  OBVIOUS
<1> QED BY <1>1, <1>2, <1>3

LEMMA Products ==
  ASSUME NEW a \in Nat, NEW b \in Nat, NEW c \in Nat
  PROVE  a <= b => c * a <= c * b
  OBVIOUS

(* A quotient is the number that fits.                                     *)
LEMMA Fits ==
  ASSUME NEW a \in Nat, NEW b \in Nat \ {0}, NEW q \in Nat, b * q <= a, a < b * q + b
  PROVE  a \div b = q
<1>1. /\ a \div b \in Nat /\ a % b \in 0..(b - 1)
      /\ a = b * (a \div b) + (a % b)
  BY Division
<1> DEFINE d == a \div b
<1>2. ~(d < q)
  <2>1. d + 1 <= q => b * (d + 1) <= b * q
    BY <1>1, Products
  <2>2. b * (d + 1) = b * d + b
    BY <1>1
  <2> QED BY <1>1, <2>1, <2>2
<1>3. ~(q < d)
  <2>1. q + 1 <= d => b * (q + 1) <= b * d
    BY <1>1, Products
  <2>2. b * (q + 1) = b * q + b
    OBVIOUS
  <2> QED BY <1>1, <2>1, <2>2
<1> QED BY <1>1, <1>2, <1>3

(* Dividing by one number and then by another divides by their product.    *)
LEMMA DivDiv ==
  ASSUME NEW a \in Nat, NEW b \in Nat \ {0}, NEW c \in Nat \ {0}
  PROVE  (a \div b) \div c = a \div (b * c)
<1> DEFINE d == a \div b
           e == d \div c
<1>1. /\ d \in Nat /\ a % b \in 0..(b - 1) /\ a = b * d + (a % b)
  BY Division
<1>2. /\ e \in Nat /\ d % c \in 0..(c - 1) /\ d = c * e + (d % c)
  <2> HIDE DEF d
  <2> QED BY <1>1, Division
<1>3. b * c \in Nat \ {0}
  OBVIOUS
<1>4. b * d = (b * c) * e + b * (d % c)
  BY <1>1, <1>2
<1>5. b * (d % c) \in Nat /\ b * (d % c) + b <= b * c
  <2>1. (d % c) + 1 <= c => b * ((d % c) + 1) <= b * c
    BY <1>2, Products
  <2>2. b * ((d % c) + 1) = b * (d % c) + b
    BY <1>2
  <2> QED BY <1>2, <2>1, <2>2
<1>6. (b * c) * e \in Nat
  BY <1>2
<1>7. (b * c) * e <= a /\ a < (b * c) * e + b * c
  BY <1>1, <1>3, <1>4, <1>5, <1>6
<1> HIDE DEF d, e
<1>8. a \div (b * c) = e
  BY <1>2, <1>3, <1>7, Fits
<1> QED BY <1>8 DEF d, e

-----------------------------------------------------------------------------
(* Addresses and their indices.                                            *)

Size == NPTE * NPDE

LEMMA Sizes ==
  /\ NPage \in Nat \ {0} /\ NPTE \in Nat \ {0} /\ NPDE \in Nat \ {0}
  /\ NPD \in Nat \ {0} /\ MaxCopy \in Nat \ {0} /\ 0 \in Word
  /\ Size \in Nat \ {0} /\ Paging!USERTOP = Size * NPD /\ Size * NPD \in Nat \ {0}
  /\ StackPages \in Nat /\ UStack = <<Paging!USERTOP - StackPages, Paging!USERTOP>>
  /\ Images \subseteq Seq(Int \X Int \X BOOLEAN)
<1>1. /\ NPage \in Nat \ {0} /\ NPTE \in Nat \ {0} /\ NPDE \in Nat \ {0}
      /\ NPD \in Nat \ {0} /\ MaxCopy \in Nat \ {0} /\ 0 \in Word
      /\ Images \subseteq Seq(Int \X Int \X BOOLEAN) /\ StackPages \in Nat
  BY MemoryAssumption DEF Paging!PagingAssumption
<1>2. Size \in Nat \ {0}
  BY <1>1 DEF Size
<1>3. Size * NPD \in Nat \ {0}
  BY <1>1, <1>2
<1> QED BY <1>1, <1>2, <1>3 DEF Size, Paging!USERTOP, UStack

LEMMA IndexIs ==
  /\ Paging!Index = 0..(Paging!Max({NPTE, NPDE, NPD}) - 1)
  /\ Paging!Max({NPTE, NPDE, NPD}) \in Nat
  /\ 0..(NPTE - 1) \subseteq Paging!Index
  /\ 0..(NPDE - 1) \subseteq Paging!Index
  /\ 0..(NPD - 1) \subseteq Paging!Index
<1> DEFINE S == {NPTE, NPDE, NPD}
           x == CHOOSE z \in S : \A y \in S : z >= y
<1>1. \E z \in S : \A y \in S : z >= y
  <2>1. CASE NPTE >= NPDE /\ NPTE >= NPD
    BY <2>1, Sizes
  <2>2. CASE NPDE >= NPTE /\ NPDE >= NPD
    BY <2>2, Sizes
  <2>3. CASE NPD >= NPDE /\ NPD >= NPTE
    BY <2>3, Sizes
  <2> QED BY <2>1, <2>2, <2>3, Sizes
<1>2. x \in S /\ \A y \in S : x >= y
  <2> HIDE DEF S
  <2> QED BY <1>1
<1>3. Paging!Max({NPTE, NPDE, NPD}) = x
  BY DEF Paging!Max
<1> HIDE DEF x
<1>4. x \in Nat /\ 0..(NPTE - 1) \subseteq 0..(x - 1) /\ 0..(NPDE - 1) \subseteq 0..(x - 1)
      /\ 0..(NPD - 1) \subseteq 0..(x - 1)
  BY <1>2, Sizes
<1>5. Paging!Index = 0..(x - 1)
  BY <1>3, Zenon DEF Paging!Index
<1> QED BY <1>3, <1>4, <1>5, Zenon

LEMMA Indices ==
  ASSUME NEW la \in Paging!Addr
  PROVE  /\ la \in Nat /\ la < Size * NPD
         /\ Paging!PDX1(la) \in 0..(NPD - 1) /\ Paging!PDX0(la) \in 0..(NPDE - 1)
         /\ Paging!PTX(la) \in 0..(NPTE - 1)
         /\ Paging!PDX1(la) \in Paging!Index /\ Paging!PDX0(la) \in Paging!Index
         /\ Paging!PTX(la) \in Paging!Index
<1>1. la \in Nat /\ la < Size * NPD
  BY Sizes DEF Paging!Addr
<1>2. /\ la \div Size \in Nat /\ la % Size \in 0..(Size - 1)
      /\ la = Size * (la \div Size) + (la % Size)
  BY <1>1, Sizes, Division
<1>3. la \div Size < NPD
  <2>1. NPD <= la \div Size => Size * NPD <= Size * (la \div Size)
    BY <1>2, Sizes, Products
  <2> DEFINE d == la \div Size
  <2>2. Size * d \in Nat
    <3>1. d \in Nat
      BY <1>2
    <3> HIDE DEF d
    <3> QED BY <3>1, Sizes
  <2> QED BY <1>1, <1>2, <2>1, <2>2, Sizes
<1>4. Paging!PDX1(la) \in 0..(NPD - 1)
  BY <1>2, <1>3, Sizes DEF Paging!PDX1, Size
<1>5. Paging!PDX0(la) \in 0..(NPDE - 1)
  <2>1. la \div NPTE \in Nat
    BY <1>1, Sizes, Division
  <2> QED BY <2>1, Sizes, Division DEF Paging!PDX0
<1>6. Paging!PTX(la) \in 0..(NPTE - 1)
  BY <1>1, Sizes, Division DEF Paging!PTX
<1> QED BY <1>1, <1>4, <1>5, <1>6, IndexIs

(* In the part of an address space below one entry of the directory of     *)
(* level 1, the entries of level 0 are in the order of the addresses.      *)
LEMMA InOrder ==
  ASSUME NEW i \in Nat, NEW y \in Nat, NEW z \in Nat,
         Size * i <= y, y <= z, z < Size * i + Size
  PROVE  Paging!PDX0(y) <= Paging!PDX0(z)
<1>1. ASSUME NEW a \in Nat, Size * i <= a, a < Size * i + Size
      PROVE  /\ a \div NPTE \in Nat /\ Paging!PDX0(a) \in Int
             /\ a \div NPTE = NPDE * i + Paging!PDX0(a)
  <2>1. /\ a \div NPTE \in Nat /\ a % NPTE \in 0..(NPTE - 1)
        /\ a = NPTE * (a \div NPTE) + (a % NPTE)
    BY Sizes, Division
  <2>2. (a \div NPTE) \div NPDE = i
    <3>1. (a \div NPTE) \div NPDE = a \div Size
      BY Sizes, DivDiv DEF Size
    <3>2. a \div Size = i
      BY <1>1, Sizes, Fits
    <3> QED BY <3>1, <3>2
  <2>3. /\ (a \div NPTE) % NPDE \in 0..(NPDE - 1)
        /\ a \div NPTE = NPDE * ((a \div NPTE) \div NPDE) + ((a \div NPTE) % NPDE)
    BY <2>1, Sizes, Division
  <2>4. Paging!PDX0(a) \in Int
    BY <2>3, Sizes DEF Paging!PDX0
  <2> QED BY <2>1, <2>2, <2>3, <2>4, Zenon DEF Paging!PDX0
<1>2. y \div NPTE <= z \div NPTE
  <2> DEFINE d == y \div NPTE
             e == z \div NPTE
  <2>1. /\ d \in Nat /\ y % NPTE \in 0..(NPTE - 1) /\ y = NPTE * d + (y % NPTE)
    BY Sizes, Division
  <2>2. /\ e \in Nat /\ z % NPTE \in 0..(NPTE - 1) /\ z = NPTE * e + (z % NPTE)
    BY Sizes, Division
  <2> HIDE DEF d, e
  <2>3. e + 1 <= d => NPTE * (e + 1) <= NPTE * d
    BY <2>1, <2>2, Sizes, Products
  <2>4. NPTE * (e + 1) = NPTE * e + NPTE /\ NPTE * e \in Nat /\ NPTE * d \in Nat
    <3>1. NPTE \in Nat /\ d \in Nat /\ e \in Nat
      BY <2>1, <2>2, Sizes
    <3> QED BY <3>1
  <2> DEFINE x == NPTE * d
             u == NPTE * e
  <2>5. /\ x \in Nat /\ u \in Nat /\ (e + 1 <= d => u + NPTE <= x)
        /\ y = x + (y % NPTE) /\ z = u + (z % NPTE)
        /\ y % NPTE \in 0..(NPTE - 1) /\ z % NPTE \in 0..(NPTE - 1)
        /\ d \in Nat /\ e \in Nat /\ y <= z
    BY <2>1, <2>2, <2>3, <2>4, Zenon
  <2>6. NPTE \in Nat
    BY Sizes
  <2> DEFINE r == y % NPTE
             w == z % NPTE
  <2> HIDE DEF x, u, r, w
  <2>7. d <= e
    <3>1. /\ x \in Nat /\ u \in Nat /\ (e + 1 <= d => u + NPTE <= x)
          /\ y = x + r /\ z = u + w /\ d \in Nat /\ e \in Nat /\ y <= z
          /\ r \in 0..(NPTE - 1) /\ w \in 0..(NPTE - 1)
      BY <2>5, Zenon DEF r, w
    <3> QED BY ONLY <2>6, <3>1
  <2> QED BY <2>7 DEF d, e
<1>3. NPDE * i \in Nat /\ y < Size * i + Size /\ Size * i <= z /\ Size * i \in Nat
  BY Sizes
<1>4. /\ y \div NPTE = NPDE * i + Paging!PDX0(y) /\ Paging!PDX0(y) \in Int
      /\ z \div NPTE = NPDE * i + Paging!PDX0(z) /\ Paging!PDX0(z) \in Int
  BY <1>1, <1>3
<1> QED BY <1>2, <1>3, <1>4

-----------------------------------------------------------------------------
(* Memory: R are page directories, those of level 1; below them are tables *)
(* of level 0, which are in A, and page tables, which are in B.  L are     *)
(* pages that are taken and not yet mapped.                                *)

Entry == [page : 0..NPage, write : BOOLEAN]
Table == [Paging!Index -> Entry]

Memory == [free : SUBSET Paging!Page, ref : [Paging!Page -> Int],
           ent : [Paging!Page -> Table], word : [Paging!Page -> Word \cup {-1}]]

At(n, t, i) == n.ent[t][i].page

(* No page is in two of these sets.                                        *)
Apart(n, R, A, B, L) ==
  /\ R \cup A \cup B \cup L \subseteq Paging!Page \ n.free
  /\ R \cap A = {} /\ R \cap B = {} /\ A \cap B = {}
  /\ L \cap (R \cup A \cup B) = {}

(* Each table points to the level below it.                                *)
Levels(n, R, A, B, L) ==
  /\ \A t \in R, i \in Paging!Index : At(n, t, i) = 0 \/ At(n, t, i) \in A
  /\ \A t \in A, i \in Paging!Index : At(n, t, i) = 0 \/ At(n, t, i) \in B
  /\ \A t \in B, i \in Paging!Index :
       \/ At(n, t, i) = 0
       \/ At(n, t, i) \in Paging!Page \ (n.free \cup R \cup A \cup B \cup L)

(* Only one entry points to a page, and the counter of the page says so.   *)
OneEach(n, T) ==
  \A t \in T, i \in Paging!Index :
    At(n, t, i) # 0 =>
      /\ n.ref[At(n, t, i)] = 1
      /\ \A u \in T, j \in Paging!Index : At(n, u, j) = At(n, t, i) => u = t /\ j = i

Tables(n, R, A, B, L) ==
  Apart(n, R, A, B, L) /\ Levels(n, R, A, B, L) /\ OneEach(n, R \cup A \cup B)

LEMMA Blank ==
  /\ Paging!NoEntry \in Entry /\ Paging!NoEntry.page = 0
  /\ Paging!Zeroed \in Table /\ \A i \in Paging!Index : Paging!Zeroed[i].page = 0
  /\ Paging!Dirty \in Table
BY Sizes DEF Entry, Table, Paging!NoEntry, Paging!Zeroed, Paging!Dirty

LEMMA Next_pageFree ==
  ASSUME NEW n \in Memory, n.free # {}
  PROVE  Paging!Next_page(n) \in n.free /\ Paging!Next_page(n) \in Paging!Page
<1>1. n.free \subseteq Nat /\ n.free \subseteq Paging!Page
  BY DEF Memory, Paging!Page
<1>2. \E x \in n.free : \A y \in n.free : x <= y
  BY <1>1, LeastNumber
<1> QED BY <1>1, <1>2 DEF Paging!Next_page, Paging!Min

(* Entries of what a table points to are in range.                         *)
LEMMA AtType ==
  ASSUME NEW n \in Memory, NEW t \in Paging!Page, NEW i \in Paging!Index
  PROVE  /\ n.ent[t][i] \in Entry /\ At(n, t, i) \in 0..NPage
         /\ At(n, t, i) # 0 => At(n, t, i) \in Paging!Page
<1>1. n.ent \in [Paging!Page -> Table]
  BY DEF Memory
<1>2. n.ent[t][i] \in Entry
  BY <1>1 DEF Table
<1> QED BY <1>2, Sizes DEF Entry, At, Paging!Page

(* The entry that points to a page or table is cleared, and that is freed. *)
Dropped(n, t, i) ==
  [Paging!free_page(n, At(n, t, i)) EXCEPT !.ent[t][i] = Paging!NoEntry]

LEMMA Freed ==
  ASSUME NEW n \in Memory, NEW q \in Paging!Page
  PROVE  Paging!free_page(n, q) =
           [free |-> n.free \cup {q}, ref |-> [n.ref EXCEPT ![q] = 0],
            ent |-> [n.ent EXCEPT ![q] = Paging!Dirty],
            word |-> [n.word EXCEPT ![q] = -1]]
<1> DEFINE f == Paging!free_page(n, q)
<1>1. /\ n \in [free : SUBSET Paging!Page, ref : [Paging!Page -> Int],
                ent : [Paging!Page -> Table], word : [Paging!Page -> Word \cup {-1}]]
  BY DEF Memory
<1>2. /\ f.free = n.free \cup {q} /\ f.ref = [n.ref EXCEPT ![q] = 0]
      /\ f.ent = [n.ent EXCEPT ![q] = Paging!Dirty]
      /\ f.word = [n.word EXCEPT ![q] = -1]
  BY <1>1 DEF Paging!free_page
<1>3. f = [free |-> f.free, ref |-> f.ref, ent |-> f.ent, word |-> f.word]
  <2> DEFINE rf == [n.ref EXCEPT ![q] = 0]
             en == [n.ent EXCEPT ![q] = Paging!Dirty]
             wo == [n.word EXCEPT ![q] = -1]
  <2>2. f = [[[[n EXCEPT !.free = n.free \cup {q}] EXCEPT !.ref = rf] EXCEPT !.ent = en]
             EXCEPT !.word = wo]
    BY <1>1 DEF Paging!free_page
  <2>3. /\ rf \in [Paging!Page -> Int] /\ en \in [Paging!Page -> Table]
        /\ wo \in [Paging!Page -> Word \cup {-1}] /\ n.free \cup {q} \in SUBSET Paging!Page
    BY <1>1, Blank
  <2>1. f \in Memory
    <3> HIDE DEF rf, en, wo, f
    <3> QED BY <1>1, <2>2, <2>3 DEF Memory
  <2> HIDE DEF f
  <2> QED BY <2>1 DEF Memory
<1> QED BY <1>2, <1>3

DropDone(n, R, A, B, L, t, i, q, d) ==
  /\ d \in Memory /\ Tables(d, R, A \ {q}, B \ {q}, L)
  /\ q \notin R \cup L /\ q # t /\ q \in Paging!Page
  /\ d.free = n.free \cup {q}
  /\ At(d, t, i) = 0
  /\ \A x \in Paging!Page \ {q} : d.ref[x] = n.ref[x]
  /\ \A u \in Paging!Page \ {q}, j \in Paging!Index :
       u # t \/ j # i => d.ent[u][j] = n.ent[u][j]

LEMMA Drop ==
  ASSUME NEW n \in Memory, NEW R, NEW A, NEW B, NEW L, Tables(n, R, A, B, L),
         NEW t \in R \cup A \cup B, NEW i \in Paging!Index, At(n, t, i) # 0
  PROVE  DropDone(n, R, A, B, L, t, i, At(n, t, i), Dropped(n, t, i))
<1> DEFINE q == At(n, t, i)
           d == Dropped(n, t, i)
<1>1. t \in Paging!Page /\ t \notin L /\ R \cup A \cup B \cup L \subseteq Paging!Page
  BY DEF Tables, Apart, Memory
<1>2. q \in Paging!Page /\ q \notin R \cup L /\ q # t
  <2>1. q \in Paging!Page
    BY <1>1, AtType
  <2> QED BY <2>1 DEF Tables, Apart, Levels
<1>3. /\ n.free \subseteq Paging!Page /\ n.ref \in [Paging!Page -> Int]
      /\ n.ent \in [Paging!Page -> Table] /\ n.word \in [Paging!Page -> Word \cup {-1}]
      /\ n = [free |-> n.free, ref |-> n.ref, ent |-> n.ent, word |-> n.word]
  BY DEF Memory
<1> DEFINE ent == [[n.ent EXCEPT ![q] = Paging!Dirty] EXCEPT ![t][i] = Paging!NoEntry]
<1>4. d = [free |-> n.free \cup {q}, ref |-> [n.ref EXCEPT ![q] = 0], ent |-> ent,
           word |-> [n.word EXCEPT ![q] = -1]]
  <2> DEFINE f  == Paging!free_page(n, q)
             fr == n.free \cup {q}
             rf == [n.ref EXCEPT ![q] = 0]
             en == [n.ent EXCEPT ![q] = Paging!Dirty]
             wo == [n.word EXCEPT ![q] = -1]
  <2>1. f = [free |-> fr, ref |-> rf, ent |-> en, word |-> wo]
    <3> HIDE DEF q
    <3> QED BY <1>2, Freed
  <2>2. d = [f EXCEPT !.ent[t][i] = Paging!NoEntry]
    BY DEF Dropped
  <2>3. ent = [en EXCEPT ![t][i] = Paging!NoEntry]
    OBVIOUS
  <2> HIDE DEF q, d, f, fr, rf, en, wo, ent
  <2>4. f.ent = en
    BY ONLY <2>1
  <2>5. d = [f EXCEPT !.ent = [en EXCEPT ![t][i] = Paging!NoEntry]]
    BY ONLY <2>2, <2>4
  <2>6. d = [f EXCEPT !.ent = ent]
    BY ONLY <2>3, <2>5, Zenon
  <2>7. d = [free |-> fr, ref |-> rf, ent |-> ent, word |-> wo]
    BY ONLY <2>1, <2>6
  <2> QED BY ONLY <2>7 DEF fr, rf, wo
<1>5. /\ ent \in [Paging!Page -> Table] /\ ent[t][i] = Paging!NoEntry
      /\ \A u \in Paging!Page \ {q}, j \in Paging!Index :
           u # t \/ j # i => ent[u][j] = n.ent[u][j]
  BY <1>1, <1>2, <1>3, Blank DEF Table
<1> HIDE DEF ent
<1>6. d \in Memory
  BY <1>2, <1>3, <1>4, <1>5 DEF Memory
<1>7. /\ d.free = n.free \cup {q} /\ At(d, t, i) = 0
      /\ \A x \in Paging!Page \ {q} : d.ref[x] = n.ref[x]
      /\ \A u \in Paging!Page \ {q}, j \in Paging!Index :
           u # t \/ j # i => d.ent[u][j] = n.ent[u][j]
  BY <1>2, <1>3, <1>4, <1>5, Blank DEF At
<1> HIDE DEF d, q
<1> DEFINE T == R \cup A \cup B
<1>8. \A u \in T, j \in Paging!Index : At(n, u, j) = q => u = t /\ j = i
  BY DEF Tables, OneEach, q
<1>9. \A u \in T \ {q}, j \in Paging!Index :
        At(d, u, j) = IF u = t /\ j = i THEN 0 ELSE At(n, u, j)
  BY <1>1, <1>7 DEF At
<1>10. \A u \in T \ {q}, j \in Paging!Index :
         At(d, u, j) # 0 => At(d, u, j) = At(n, u, j) /\ At(d, u, j) # q
  BY <1>8, <1>9
<1>11. Apart(d, R, A \ {q}, B \ {q}, L)
  BY <1>2, <1>7 DEF Tables, Apart
<1>12. Levels(d, R, A \ {q}, B \ {q}, L)
  BY <1>2, <1>7, <1>10 DEF Tables, Levels, Apart
<1>13. OneEach(d, R \cup (A \ {q}) \cup (B \ {q}))
  <2> SUFFICES ASSUME NEW u \in T \ {q}, NEW j \in Paging!Index, At(d, u, j) # 0
               PROVE  /\ d.ref[At(d, u, j)] = 1
                      /\ \A v \in T \ {q}, k \in Paging!Index :
                           At(d, v, k) = At(d, u, j) => v = u /\ k = j
    BY <1>2 DEF OneEach
  <2>1. At(d, u, j) = At(n, u, j) /\ At(d, u, j) # q /\ At(n, u, j) \in Paging!Page
    BY <1>1, <1>10, AtType
  <2>2. n.ref[At(n, u, j)] = 1 /\ \A v \in T, k \in Paging!Index :
          At(n, v, k) = At(n, u, j) => v = u /\ k = j
    BY <2>1 DEF Tables, OneEach
  <2> QED BY <1>7, <1>10, <2>1, <2>2
<1>14. DropDone(n, R, A, B, L, t, i, q, d)
  BY <1>2, <1>6, <1>7, <1>11, <1>12, <1>13 DEF Tables, DropDone
<1> QED BY <1>14 DEF d, q

(* Two sets of fields that differ in the free pages only by what is named. *)
LEMMA Taken ==
  ASSUME NEW n \in Memory, n.free # {}, NEW r \in Int
  PROVE  LET q == Paging!Next_page(n)
             d == [Paging!Take(n, r) EXCEPT !.ent[q] = Paging!Zeroed]
         IN  /\ Paging!Take(n, r) \in Memory
             /\ Paging!Take(n, r) = [free |-> n.free \ {q}, ref |-> [n.ref EXCEPT ![q] = r],
                                     ent |-> n.ent, word |-> n.word]
             /\ d \in Memory
             /\ d = [free |-> n.free \ {q}, ref |-> [n.ref EXCEPT ![q] = r],
                     ent |-> [n.ent EXCEPT ![q] = Paging!Zeroed], word |-> n.word]
<1> DEFINE q  == Paging!Next_page(n)
           f  == Paging!Take(n, r)
           d  == [Paging!Take(n, r) EXCEPT !.ent[q] = Paging!Zeroed]
           rf == [n.ref EXCEPT ![q] = r]
           en == [n.ent EXCEPT ![q] = Paging!Zeroed]
<1>1. /\ n \in [free : SUBSET Paging!Page, ref : [Paging!Page -> Int],
                ent : [Paging!Page -> Table], word : [Paging!Page -> Word \cup {-1}]]
  BY DEF Memory
<1>2. q \in n.free /\ q \in Paging!Page
  BY Next_pageFree
<1>3. f = [[n EXCEPT !.free = n.free \ {q}] EXCEPT !.ref = rf]
  BY <1>1 DEF Paging!Take
<1>4. d = [f EXCEPT !.ent = [f.ent EXCEPT ![q] = Paging!Zeroed]]
  <2> HIDE DEF f, q
  <2> QED BY DEF f
<1>5. /\ rf \in [Paging!Page -> Int] /\ en \in [Paging!Page -> Table]
      /\ n.free \ {q} \in SUBSET Paging!Page
  BY <1>1, <1>2, Blank
<1>6. f = [free |-> n.free \ {q}, ref |-> rf, ent |-> n.ent, word |-> n.word] /\ f \in Memory
  <2> HIDE DEF rf, en, f, q
  <2> QED BY <1>1, <1>3, <1>5 DEF Memory
<1>7. d = [free |-> n.free \ {q}, ref |-> rf, ent |-> en, word |-> n.word] /\ d \in Memory
  <2>1. f.ent = n.ent
    <3> HIDE DEF rf, en, f, q, d
    <3> QED BY <1>6
  <2>2. d = [f EXCEPT !.ent = en]
    BY <1>4, <2>1
  <2> HIDE DEF rf, en, f, q, d
  <2> QED BY <1>5, <1>6, <2>2 DEF Memory
<1> QED BY <1>6, <1>7

(* A new table below entry i of t.                                         *)
Grown(n, t, i) ==
  [Paging!Take(n, 1) EXCEPT
     !.ent[Paging!Next_page(n)] = Paging!Zeroed,
     !.ent[t][i] = [page |-> Paging!Next_page(n), write |-> FALSE]]

GrowDone(n, R, A, B, L, t, i, q, d) ==
  /\ d \in Memory
  /\ t \in R => Tables(d, R, A \cup {q}, B, L)
  /\ t \in A => Tables(d, R, A, B \cup {q}, L)
  /\ At(d, t, i) = q /\ q # 0
  /\ \A x \in L : d.ref[x] = n.ref[x]

LEMMA Grow ==
  ASSUME NEW n \in Memory, NEW R, NEW A, NEW B, NEW L, Tables(n, R, A, B, L),
         NEW t \in R \cup A, NEW i \in Paging!Index, At(n, t, i) = 0, n.free # {}
  PROVE  GrowDone(n, R, A, B, L, t, i, Paging!Next_page(n), Grown(n, t, i))
<1> DEFINE q == Paging!Next_page(n)
           d == Grown(n, t, i)
           z == [Paging!Take(n, 1) EXCEPT !.ent[q] = Paging!Zeroed]
           e == [page |-> q, write |-> FALSE]
           ent == [[n.ent EXCEPT ![q] = Paging!Zeroed] EXCEPT ![t][i] = e]
<1>1. t \in Paging!Page /\ t # q /\ R \cup A \cup B \cup L \subseteq Paging!Page
      /\ q \in n.free /\ q \in Paging!Page /\ q \notin R \cup A \cup B \cup L
  BY Next_pageFree DEF Tables, Apart
<1>2. /\ n.free \subseteq Paging!Page /\ n.ref \in [Paging!Page -> Int]
      /\ n.ent \in [Paging!Page -> Table] /\ n.word \in [Paging!Page -> Word \cup {-1}]
  BY DEF Memory
<1>3. e \in Entry /\ e.page = q /\ q # 0
  BY <1>1, Sizes DEF Entry, Paging!Page
<1>4. /\ ent \in [Paging!Page -> Table] /\ ent[t][i] = e
      /\ \A j \in Paging!Index : ent[q][j] = Paging!Zeroed[j]
      /\ \A u \in Paging!Page \ {q}, j \in Paging!Index :
           u # t \/ j # i => ent[u][j] = n.ent[u][j]
  <2> HIDE DEF q, e
  <2> QED BY <1>1, <1>2, <1>3, Blank DEF Table
<1>5. d = [free |-> n.free \ {q}, ref |-> [n.ref EXCEPT ![q] = 1], ent |-> ent,
           word |-> n.word]
  <2>1. z = [free |-> n.free \ {q}, ref |-> [n.ref EXCEPT ![q] = 1],
             ent |-> [n.ent EXCEPT ![q] = Paging!Zeroed], word |-> n.word]
    BY Taken
  <2>2. d = [z EXCEPT !.ent[t][i] = e]
    BY DEF Grown
  <2> HIDE DEF q, z, d, e
  <2> QED BY <2>1, <2>2
<1> HIDE DEF q, d, z, e, ent
<1>6. /\ d.free = n.free \ {q} /\ d.ref = [n.ref EXCEPT ![q] = 1] /\ d.ent = ent
      /\ d.word = n.word
  BY <1>5
<1>7. d \in Memory
  <2>1. n.free \ {q} \in SUBSET Paging!Page
    BY <1>2
  <2>2. [n.ref EXCEPT ![q] = 1] \in [Paging!Page -> Int]
    BY <1>1, <1>2
  <2> QED BY <1>2, <1>4, <1>5, <2>1, <2>2 DEF Memory
<1> DEFINE T == R \cup A \cup B
<1>8. /\ At(d, t, i) = q /\ \A j \in Paging!Index : At(d, q, j) = 0
      /\ \A u \in T, j \in Paging!Index : u # t \/ j # i => At(d, u, j) = At(n, u, j)
  BY <1>1, <1>3, <1>4, <1>6, Blank DEF At
<1>9. \A u \in T, j \in Paging!Index : At(n, u, j) # q
  BY <1>1, <1>3 DEF Tables, Levels, Apart
<1>10. d.ref[q] = 1 /\ \A x \in Paging!Page \ {q} : d.ref[x] = n.ref[x]
  BY <1>1, <1>2, <1>6
<1>11. t \in R \/ t \in A
  OBVIOUS
<1>12. OneEach(d, T \cup {q})
  <2> SUFFICES ASSUME NEW u \in T \cup {q}, NEW j \in Paging!Index, At(d, u, j) # 0
               PROVE  /\ d.ref[At(d, u, j)] = 1
                      /\ \A v \in T \cup {q}, k \in Paging!Index :
                           At(d, v, k) = At(d, u, j) => v = u /\ k = j
    BY DEF OneEach
  <2>1. u # q
    BY <1>8
  <2>2. CASE u = t /\ j = i
    BY <1>3, <1>8, <1>9, <1>10, <2>1, <2>2
  <2>3. CASE ~(u = t /\ j = i)
    <3>1. u \in T /\ At(d, u, j) = At(n, u, j) /\ At(n, u, j) # 0 /\ At(n, u, j) # q
      BY <1>8, <1>9, <2>1, <2>3
    <3>2. At(n, u, j) \in Paging!Page
      BY <1>1, <3>1, AtType
    <3>3. n.ref[At(n, u, j)] = 1 /\ \A v \in T, k \in Paging!Index :
            At(n, v, k) = At(n, u, j) => v = u /\ k = j
      BY <3>1 DEF Tables, OneEach
    <3>4. d.ref[At(d, u, j)] = 1
      BY <1>10, <3>1, <3>2, <3>3
    <3>5. ASSUME NEW v \in T \cup {q}, NEW k \in Paging!Index, At(d, v, k) = At(d, u, j)
          PROVE  v = u /\ k = j
      <4>1. v # q
        BY <1>8, <3>1, <3>5
      <4>2. ~(v = t /\ k = i)
        BY <1>8, <3>1, <3>5
      <4>3. v \in T /\ At(n, v, k) = At(n, u, j)
        BY <1>8, <3>1, <3>5, <4>1, <4>2
      <4> QED BY <3>3, <4>3
    <3> QED BY <3>4, <3>5
  <2> QED BY <2>2, <2>3
<1>13. ASSUME t \in R PROVE Tables(d, R, A \cup {q}, B, L)
  <2>1. Apart(d, R, A \cup {q}, B, L)
    BY <1>1, <1>6 DEF Tables, Apart
  <2>2. Levels(d, R, A \cup {q}, B, L)
    BY <1>1, <1>6, <1>8, <1>9, <1>13 DEF Tables, Apart, Levels
  <2>3. R \cup (A \cup {q}) \cup B = T \cup {q}
    OBVIOUS
  <2> QED BY <1>12, <2>1, <2>2, <2>3 DEF Tables
<1>14. ASSUME t \in A PROVE Tables(d, R, A, B \cup {q}, L)
  <2>1. Apart(d, R, A, B \cup {q}, L)
    BY <1>1, <1>6 DEF Tables, Apart
  <2>2. Levels(d, R, A, B \cup {q}, L)
    BY <1>1, <1>6, <1>8, <1>9, <1>14 DEF Tables, Apart, Levels
  <2>3. R \cup A \cup (B \cup {q}) = T \cup {q}
    OBVIOUS
  <2> QED BY <1>12, <2>1, <2>2, <2>3 DEF Tables
<1>15. \A x \in L : d.ref[x] = n.ref[x]
  BY <1>1, <1>10
<1>16. GrowDone(n, R, A, B, L, t, i, q, d)
  BY <1>3, <1>7, <1>8, <1>13, <1>14, <1>15 DEF GrowDone
<1> QED BY <1>16 DEF q, d

-----------------------------------------------------------------------------
(* The tables of an address space.                                         *)

(* One level of get_pte.                                                   *)
LEMMA LevelKeeps ==
  ASSUME NEW n \in Memory, NEW R, NEW A, NEW B, NEW L, Tables(n, R, A, B, L),
         NEW t \in R \cup A, NEW i \in Paging!Index, NEW create \in BOOLEAN
  PROVE  LET g == Paging!Level(n, t, i, create)
         IN  /\ g.m \in Memory /\ (~create => g.m = n)
             /\ \A x \in L : g.m.ref[x] = n.ref[x]
             /\ t \in R => \E A2 : /\ A \subseteq A2 /\ Tables(g.m, R, A2, B, L)
                                   /\ g.at = 0 \/ g.at \in A2
             /\ t \in A => \E B2 : /\ B \subseteq B2 /\ Tables(g.m, R, A, B2, L)
                                   /\ g.at = 0 \/ g.at \in B2
<1> DEFINE g == Paging!Level(n, t, i, create)
           q == Paging!Next_page(n)
<1>1. CASE At(n, t, i) # 0
  <2>1. g.m = n /\ g.at = At(n, t, i)
    BY <1>1 DEF Paging!Level, At
  <2>2. /\ t \in R => g.at \in A
        /\ t \in A => g.at \in B
    BY <1>1, <2>1 DEF Tables, Levels
  <2> QED BY <2>1, <2>2
<1>2. CASE At(n, t, i) = 0 /\ (~create \/ n.free = {})
  <2>1. g.m = n /\ g.at = 0
    BY <1>2 DEF Paging!Level, Paging!None, At
  <2> QED BY <2>1
<1>3. CASE At(n, t, i) = 0 /\ create /\ n.free # {}
  <2>1. g.m = Grown(n, t, i) /\ g.at = q
    BY <1>3 DEF Paging!Level, Paging!None, At, Grown
  <2>2. /\ Grown(n, t, i) \in Memory
        /\ t \in R => Tables(Grown(n, t, i), R, A \cup {q}, B, L)
        /\ t \in A => Tables(Grown(n, t, i), R, A, B \cup {q}, L)
        /\ \A x \in L : Grown(n, t, i).ref[x] = n.ref[x]
    <3>1. At(n, t, i) = 0 /\ n.free # {}
      BY <1>3
    <3>2. GrowDone(n, R, A, B, L, t, i, q, Grown(n, t, i))
      BY <3>1, Grow
    <3> QED BY <3>2 DEF GrowDone
  <2> HIDE DEF q
  <2>3. t \in R => \E A2 : /\ A \subseteq A2 /\ Tables(g.m, R, A2, B, L)
                           /\ g.at = 0 \/ g.at \in A2
    <3> SUFFICES ASSUME t \in R
                 PROVE  A \subseteq A \cup {q} /\ Tables(g.m, R, A \cup {q}, B, L)
                        /\ g.at \in A \cup {q}
      OBVIOUS
    <3> QED BY <2>1, <2>2
  <2>4. t \in A => \E B2 : /\ B \subseteq B2 /\ Tables(g.m, R, A, B2, L)
                           /\ g.at = 0 \/ g.at \in B2
    <3> SUFFICES ASSUME t \in A
                 PROVE  B \subseteq B \cup {q} /\ Tables(g.m, R, A, B \cup {q}, L)
                        /\ g.at \in B \cup {q}
      OBVIOUS
    <3> QED BY <2>1, <2>2
  <2> QED BY <1>3, <2>1, <2>2, <2>3, <2>4
<1> QED BY <1>1, <1>2, <1>3

(* Memory that is whole, whatever is in the tables.                        *)
Mem(R, L) == {n \in Memory : \E A, B : Tables(n, R, A, B, L)}

PteDone(n, R, L, create, g) ==
  /\ g.m \in Memory /\ (~create => g.m = n)
  /\ \A x \in L : g.m.ref[x] = n.ref[x]
  /\ \E A, B : Tables(g.m, R, A, B, L) /\ (g.at = 0 \/ g.at \in B)

LEMMA Get_pteKeeps ==
  ASSUME NEW R, NEW L, NEW n \in Mem(R, L),
         NEW pgdir \in R, NEW la \in Paging!Addr, NEW create \in BOOLEAN
  PROVE  PteDone(n, R, L, create, Paging!get_pte(n, pgdir, la, create))
<1>0. PICK A, B : n \in Memory /\ Tables(n, R, A, B, L)
  BY DEF Mem
<1> DEFINE g == Paging!get_pte(n, pgdir, la, create)
           i == Paging!PDX1(la)
           j == Paging!PDX0(la)
           f == Paging!Level(n, pgdir, i, create)
           h == Paging!Level(f.m, f.at, j, create)
<1>1. i \in Paging!Index /\ j \in Paging!Index
  BY Indices
<1>2. /\ f.m \in Memory /\ (~create => f.m = n) /\ \A x \in L : f.m.ref[x] = n.ref[x]
      /\ \E A2 : Tables(f.m, R, A2, B, L) /\ (f.at = 0 \/ f.at \in A2)
  <2> HIDE DEF i
  <2> QED BY <1>0, <1>1, LevelKeeps
<1>3. PICK A2 : Tables(f.m, R, A2, B, L) /\ (f.at = 0 \/ f.at \in A2)
  BY <1>2
<1>4. g = IF f.at = 0 THEN f ELSE h
  BY DEF Paging!get_pte
<1>5. CASE f.at = 0
  <2>1. g = f
    BY <1>4, <1>5
  <2> HIDE DEF f, g
  <2>2. PteDone(n, R, L, create, g)
    BY <1>2, <1>3, <1>5, <2>1 DEF PteDone
  <2> QED BY <2>2 DEF g
<1>6. CASE f.at # 0
  <2>1. /\ h.m \in Memory /\ (~create => h.m = f.m) /\ \A x \in L : h.m.ref[x] = f.m.ref[x]
        /\ \E B2 : Tables(h.m, R, A2, B2, L) /\ (h.at = 0 \/ h.at \in B2)
    <3> HIDE DEF j, f
    <3> QED BY <1>1, <1>2, <1>3, <1>6, LevelKeeps
  <2>2. g = h
    BY <1>4, <1>6
  <2> HIDE DEF f, h, g
  <2>3. PteDone(n, R, L, create, g)
    BY <1>2, <2>1, <2>2 DEF PteDone
  <2> QED BY <2>3 DEF g
<1> QED BY <1>5, <1>6

(* page_remove_pte.                                                        *)
LEMMA Remove_pteKeeps ==
  ASSUME NEW n \in Memory, NEW R, NEW A, NEW B, NEW L, Tables(n, R, A, B, L),
         NEW t \in B, NEW i \in Paging!Index
  PROVE  LET d == Paging!page_remove_pte(n, t, i)
         IN  /\ d \in Memory /\ Tables(d, R, A, B, L) /\ At(d, t, i) = 0
             /\ \A x \in L : d.ref[x] = n.ref[x]
<1> DEFINE d == Paging!page_remove_pte(n, t, i)
           q == At(n, t, i)
<1>1. CASE q = 0
  <2>1. d = n
    BY <1>1 DEF Paging!page_remove_pte, At
  <2> QED BY <1>1, <2>1
<1>2. CASE q # 0
  <2>1. q \notin A \cup B /\ n.ref[q] = 1 /\ L \subseteq Paging!Page
    BY <1>2 DEF Tables, Levels, OneEach, Apart
  <2>2. d = Dropped(n, t, i)
    BY <1>2, <2>1 DEF Paging!page_remove_pte, Paging!RefDec, Dropped, At
  <2>3. A \ {q} = A /\ B \ {q} = B
    BY <2>1
  <2>4. /\ Dropped(n, t, i) \in Memory /\ Tables(Dropped(n, t, i), R, A \ {q}, B \ {q}, L)
        /\ q \notin L
        /\ \A x \in Paging!Page \ {q} : Dropped(n, t, i).ref[x] = n.ref[x]
        /\ At(Dropped(n, t, i), t, i) = 0
    <3>1. t \in R \cup A \cup B
      OBVIOUS
    <3>2. DropDone(n, R, A, B, L, t, i, q, Dropped(n, t, i))
      BY <1>2, <3>1, Drop
    <3> QED BY <3>2 DEF DropDone
  <2> HIDE DEF q
  <2> QED BY <2>1, <2>2, <2>3, <2>4
<1> QED BY <1>1, <1>2

(* The counter of a page that is not mapped, and nothing else.             *)
RefUp(n, q) == [n EXCEPT !.ref[q] = @ + 1]

LEMMA RefUpKeeps ==
  ASSUME NEW n \in Memory, NEW R, NEW A, NEW B, NEW q, NEW L, L = {q},
         Tables(n, R, A, B, L)
  PROVE  /\ RefUp(n, q) \in Memory /\ Tables(RefUp(n, q), R, A, B, L)
         /\ RefUp(n, q).ref[q] = n.ref[q] + 1
<1> DEFINE d  == RefUp(n, q)
           rf == [n.ref EXCEPT ![q] = n.ref[q] + 1]
<1>1. q \in Paging!Page /\ q \notin R \cup A \cup B
  BY DEF Tables, Apart
<1>2. rf \in [Paging!Page -> Int] /\ rf[q] = n.ref[q] + 1
      /\ \A x \in Paging!Page \ {q} : rf[x] = n.ref[x]
  BY <1>1 DEF Memory
<1>3. d = [n EXCEPT !.ref = rf]
  BY DEF Memory, RefUp
<1> HIDE DEF rf, d
<1>4. d \in Memory /\ d.free = n.free /\ d.ent = n.ent /\ d.ref = rf
  BY <1>2, <1>3 DEF Memory
<1>5. \A t \in R \cup A \cup B, i \in Paging!Index : At(d, t, i) = At(n, t, i)
  BY <1>4 DEF At
<1>6. Apart(d, R, A, B, L) /\ Levels(d, R, A, B, L)
  BY <1>4, <1>5 DEF Tables, Apart, Levels
<1>7. OneEach(d, R \cup A \cup B)
  <2>1. ASSUME NEW t \in R \cup A \cup B, NEW i \in Paging!Index, At(n, t, i) # 0
        PROVE  At(n, t, i) \in Paging!Page \ {q}
    BY <1>1, <2>1 DEF Tables, Apart, Levels
  <2> QED BY <1>2, <1>4, <1>5, <2>1 DEF Tables, OneEach
<1> QED BY <1>2, <1>4, <1>6, <1>7 DEF Tables, d

(* The page is mapped.                                                     *)
LEMMA Map ==
  ASSUME NEW n \in Memory, NEW R, NEW A, NEW B, NEW q, Tables(n, R, A, B, {q}),
         n.ref[q] = 1, NEW t \in B, NEW i \in Paging!Index, At(n, t, i) = 0,
         NEW write \in BOOLEAN
  PROVE  LET d == [n EXCEPT !.ent[t][i] = [page |-> q, write |-> write]]
         IN  d \in Memory /\ Tables(d, R, A, B, {})
<1> DEFINE e   == [page |-> q, write |-> write]
           d   == [n EXCEPT !.ent[t][i] = e]
           ent == [n.ent EXCEPT ![t][i] = e]
           T   == R \cup A \cup B
<1>1. /\ q \in Paging!Page /\ q \notin T /\ q \notin n.free /\ T \subseteq Paging!Page
      /\ t \in Paging!Page
  BY DEF Tables, Apart
<1>2. e \in Entry /\ e.page = q /\ q # 0
  BY <1>1, Sizes DEF Entry, Paging!Page
<1>3. /\ ent \in [Paging!Page -> Table] /\ ent[t][i] = e
      /\ \A u \in Paging!Page, j \in Paging!Index :
           u # t \/ j # i => ent[u][j] = n.ent[u][j]
  <2> HIDE DEF e
  <2> QED BY <1>1, <1>2 DEF Memory, Table
<1>4. d = [n EXCEPT !.ent = ent]
  <2> HIDE DEF e
  <2> QED BY DEF Memory
<1> HIDE DEF ent, d, e
<1>5. d \in Memory /\ d.free = n.free /\ d.ref = n.ref /\ d.ent = ent
  BY <1>3, <1>4 DEF Memory
<1>6. /\ At(d, t, i) = q
      /\ \A u \in T, j \in Paging!Index : u # t \/ j # i => At(d, u, j) = At(n, u, j)
  BY <1>1, <1>2, <1>3, <1>5 DEF At
<1>7. \A u \in T, j \in Paging!Index : At(n, u, j) # q
  BY <1>1, <1>2 DEF Tables, Apart, Levels
<1>8. Apart(d, R, A, B, {})
  BY <1>5 DEF Tables, Apart
<1>9. Levels(d, R, A, B, {})
  BY <1>1, <1>5, <1>6 DEF Tables, Apart, Levels
<1>10. OneEach(d, T)
  BY <1>2, <1>5, <1>6, <1>7 DEF Tables, OneEach
<1> QED BY <1>5, <1>8, <1>9, <1>10 DEF Tables, d, e

InsertDone(R, L, r) ==
  \/ r.done = TRUE /\ r.m \in Mem(R, {})
  \/ r.done = FALSE /\ r.m \in Mem(R, L)

LEMMA InsertKeeps ==
  ASSUME NEW R, NEW q, NEW n \in Mem(R, {q}), n.ref[q] = 0, NEW pgdir \in R,
         NEW la \in Paging!Addr, NEW write \in BOOLEAN
  PROVE  InsertDone(R, {q}, Paging!page_insert(n, pgdir, q, la, write))
<1> DEFINE r    == Paging!page_insert(n, pgdir, q, la, write)
           g    == Paging!get_pte(n, pgdir, la, TRUE)
           i    == Paging!PTX(la)
           inc  == RefUp(g.m, q)
           gone == Paging!page_remove_pte(inc, g.at, i)
           put  == [gone EXCEPT !.ent[g.at][i] = [page |-> q, write |-> write]]
<1>1. i \in Paging!Index
  BY Indices
<1>2. /\ g.m \in Memory /\ g.m.ref[q] = 0
      /\ \E A, B : Tables(g.m, R, A, B, {q}) /\ (g.at = 0 \/ g.at \in B)
  <2>1. PteDone(n, R, {q}, TRUE, g)
    BY Get_pteKeeps, Zenon
  <2> HIDE DEF g
  <2> QED BY <2>1 DEF PteDone
<1>3. PICK A, B : Tables(g.m, R, A, B, {q}) /\ (g.at = 0 \/ g.at \in B)
  BY <1>2
<1>4. r = IF g.at = 0 THEN [m |-> g.m, done |-> FALSE] ELSE [m |-> put, done |-> TRUE]
  BY DEF Paging!page_insert, RefUp
<1>5. CASE g.at = 0
  <2>1. r.m = g.m /\ r.done = FALSE
    BY <1>4, <1>5
  <2> HIDE DEF g
  <2>2. g.m \in Mem(R, {q})
    BY <1>2, <1>3 DEF Mem
  <2> QED BY <2>1, <2>2 DEF InsertDone
<1>6. CASE g.at # 0
  <2>1. r.m = put /\ r.done = TRUE
    BY <1>4, <1>6
  <2>2. g.at \in B
    BY <1>3, <1>6
  <2>3. inc \in Memory /\ Tables(inc, R, A, B, {q}) /\ inc.ref[q] = 1
    <3> HIDE DEF g
    <3>1. /\ RefUp(g.m, q) \in Memory /\ Tables(RefUp(g.m, q), R, A, B, {q})
          /\ RefUp(g.m, q).ref[q] = g.m.ref[q] + 1
      BY <1>2, <1>3, RefUpKeeps
    <3> QED BY <1>2, <3>1
  <2>4. /\ gone \in Memory /\ Tables(gone, R, A, B, {q}) /\ At(gone, g.at, i) = 0
        /\ gone.ref[q] = 1
    <3> HIDE DEF g, inc, i
    <3> QED BY <1>1, <2>2, <2>3, Remove_pteKeeps
  <2>5. put \in Memory /\ Tables(put, R, A, B, {})
    <3> HIDE DEF g, inc, gone, i
    <3> QED BY <1>1, <2>2, <2>4, Map
  <2>6. put \in Mem(R, {})
    <3> HIDE DEF put
    <3> QED BY <2>5 DEF Mem
  <2> QED BY <2>1, <2>6 DEF InsertDone
<1> QED BY <1>5, <1>6

(* Memory is whole for fewer directories as well; what one has is lost.    *)
LEMMA Fewer ==
  ASSUME NEW R, NEW L, NEW q, q \notin R, NEW n \in Mem(R \cup {q}, L)
  PROVE  n \in Mem(R, L \cup {q})
<1>1. PICK A, B : Tables(n, R \cup {q}, A, B, L)
  BY DEF Mem
<1>2. Apart(n, R, A, B, L \cup {q})
  BY <1>1 DEF Tables, Apart
<1>3. Levels(n, R, A, B, L \cup {q})
  BY <1>1 DEF Tables, Levels
<1>4. OneEach(n, R \cup A \cup B)
  BY <1>1 DEF Tables, OneEach
<1> QED BY <1>2, <1>3, <1>4 DEF Mem, Tables

(* A page that is not mapped is freed.                                     *)
LEMMA FreeKeeps ==
  ASSUME NEW R, NEW q, NEW n \in Mem(R, {q})
  PROVE  Paging!free_page(n, q) \in Mem(R, {})
<1> DEFINE d == Paging!free_page(n, q)
<1>1. PICK A, B : Tables(n, R, A, B, {q})
  BY DEF Mem
<1>2. n \in Memory /\ q \in Paging!Page /\ q \notin R \cup A \cup B
      /\ R \cup A \cup B \subseteq Paging!Page
  BY <1>1 DEF Mem, Tables, Apart
<1>3. d = [free |-> n.free \cup {q}, ref |-> [n.ref EXCEPT ![q] = 0],
           ent |-> [n.ent EXCEPT ![q] = Paging!Dirty], word |-> [n.word EXCEPT ![q] = -1]]
  BY <1>2, Freed
<1> HIDE DEF d
<1>4. d \in Memory
  <2>1. n.free \cup {q} \in SUBSET Paging!Page
    BY <1>2 DEF Memory
  <2>2. [n.ref EXCEPT ![q] = 0] \in [Paging!Page -> Int]
    BY <1>2 DEF Memory
  <2>3. [n.ent EXCEPT ![q] = Paging!Dirty] \in [Paging!Page -> Table]
    BY <1>2, Blank DEF Memory
  <2>4. [n.word EXCEPT ![q] = -1] \in [Paging!Page -> Word \cup {-1}]
    BY <1>2 DEF Memory
  <2> QED BY <1>3, <2>1, <2>2, <2>3, <2>4 DEF Memory
<1>5. /\ d.free = n.free \cup {q}
      /\ \A x \in Paging!Page \ {q} : d.ref[x] = n.ref[x]
      /\ \A t \in Paging!Page \ {q}, i \in Paging!Index : At(d, t, i) = At(n, t, i)
  BY <1>2, <1>3 DEF Memory, At
<1>6. \A t \in R \cup A \cup B, i \in Paging!Index :
        At(d, t, i) = At(n, t, i) /\ At(d, t, i) # q
        /\ (At(d, t, i) # 0 => At(d, t, i) \in Paging!Page)
  <2>1. ASSUME NEW t \in R \cup A \cup B, NEW i \in Paging!Index
        PROVE  At(d, t, i) = At(n, t, i) /\ At(d, t, i) # q
               /\ (At(d, t, i) # 0 => At(d, t, i) \in Paging!Page)
    <3>1. At(d, t, i) = At(n, t, i)
      BY <1>2, <1>5
    <3>2. At(n, t, i) # 0 => At(n, t, i) \in Paging!Page
      BY <1>2, AtType
    <3>3. q # 0
      BY <1>2, Sizes DEF Paging!Page
    <3>4. At(n, t, i) # q
      BY <1>1, <1>2, <3>3 DEF Tables, Levels
    <3> QED BY <3>1, <3>2, <3>4
  <2> QED BY <2>1
<1>7. Apart(d, R, A, B, {})
  BY <1>1, <1>2, <1>5 DEF Tables, Apart
<1>8. Levels(d, R, A, B, {})
  BY <1>1, <1>5, <1>6 DEF Tables, Levels
<1>9. OneEach(d, R \cup A \cup B)
  BY <1>1, <1>5, <1>6 DEF Tables, OneEach
<1> QED BY <1>4, <1>7, <1>8, <1>9 DEF Mem, Tables, d

(* A free page is taken, as it is or as an empty page directory.           *)
LEMMA TakeKeeps ==
  ASSUME NEW R, NEW n \in Mem(R, {}), n.free # {}
  PROVE  LET q == Paging!Next_page(n)
         IN  /\ q \in Paging!Page /\ q \notin R /\ q # 0
             /\ Paging!Take(n, 0) \in Mem(R, {q}) /\ Paging!Take(n, 0).ref[q] = 0
             /\ Paging!setup_pgdir(n) \in Mem(R \cup {q}, {})
<1> DEFINE q == Paging!Next_page(n)
           f == Paging!Take(n, 0)
           d == Paging!setup_pgdir(n)
<1>1. PICK A, B : Tables(n, R, A, B, {})
  BY DEF Mem
<1>2. n \in Memory /\ q \in Paging!Page /\ q \in n.free /\ q \notin R \cup A \cup B
      /\ R \cup A \cup B \subseteq Paging!Page /\ q # 0
  <2>1. n \in Memory
    BY DEF Mem
  <2>2. q \in n.free /\ q \in Paging!Page
    BY <2>1, Next_pageFree
  <2> QED BY <1>1, <2>1, <2>2, Sizes DEF Tables, Apart, Paging!Page
<1>3. /\ f \in Memory /\ d \in Memory
      /\ f = [free |-> n.free \ {q}, ref |-> [n.ref EXCEPT ![q] = 0],
              ent |-> n.ent, word |-> n.word]
      /\ d = [free |-> n.free \ {q}, ref |-> [n.ref EXCEPT ![q] = 0],
              ent |-> [n.ent EXCEPT ![q] = Paging!Zeroed], word |-> n.word]
  BY <1>2, Taken DEF Paging!setup_pgdir
<1> HIDE DEF f, d, q
<1>4. /\ f.free = n.free \ {q} /\ d.free = n.free \ {q} /\ f.ref[q] = 0 /\ d.ref = f.ref
      /\ \A x \in Paging!Page \ {q} : f.ref[x] = n.ref[x]
      /\ \A t \in Paging!Page \ {q}, i \in Paging!Index :
           At(f, t, i) = At(n, t, i) /\ At(d, t, i) = At(n, t, i)
      /\ \A i \in Paging!Index : At(d, q, i) = 0
  BY <1>2, <1>3, Blank DEF Memory, At
<1>5. \A t \in R \cup A \cup B, i \in Paging!Index :
        At(n, t, i) # q /\ (At(n, t, i) # 0 => At(n, t, i) \in Paging!Page)
  <2>1. ASSUME NEW t \in R \cup A \cup B, NEW i \in Paging!Index
        PROVE  At(n, t, i) # q /\ (At(n, t, i) # 0 => At(n, t, i) \in Paging!Page)
    <3>2. At(n, t, i) # 0 => At(n, t, i) \in Paging!Page
      BY <1>2, AtType
    <3>4. At(n, t, i) # q
      BY <1>1, <1>2 DEF Tables, Levels
    <3> QED BY <3>2, <3>4
  <2> QED BY <2>1
<1>6. Tables(f, R, A, B, {q})
  <2>1. Apart(f, R, A, B, {q})
    BY <1>1, <1>2, <1>4 DEF Tables, Apart
  <2>2. Levels(f, R, A, B, {q})
    BY <1>1, <1>2, <1>4, <1>5 DEF Tables, Levels
  <2>3. OneEach(f, R \cup A \cup B)
    BY <1>1, <1>2, <1>4, <1>5 DEF Tables, OneEach
  <2> QED BY <2>1, <2>2, <2>3 DEF Tables
<1>7. Tables(d, R \cup {q}, A, B, {})
  <2>1. Apart(d, R \cup {q}, A, B, {})
    BY <1>1, <1>2, <1>4 DEF Tables, Apart
  <2>2. Levels(d, R \cup {q}, A, B, {})
    BY <1>1, <1>2, <1>4, <1>5 DEF Tables, Levels
  <2>3. OneEach(d, R \cup {q} \cup A \cup B)
    BY <1>1, <1>2, <1>4, <1>5 DEF Tables, OneEach
  <2> QED BY <2>1, <2>2, <2>3 DEF Tables
<1> QED BY <1>2, <1>3, <1>4, <1>6, <1>7 DEF Mem, q, f, d

(* pgdir_alloc_page.                                                       *)
LEMMA AllocKeeps ==
  ASSUME NEW R, NEW n \in Mem(R, {}), NEW pgdir \in R, NEW la \in Paging!Addr,
         NEW write \in BOOLEAN, NEW w \in Word \cup {-1}
  PROVE  LET r == Paging!pgdir_alloc_page(n, pgdir, la, write, w)
         IN  r.m \in Mem(R, {})
<1> DEFINE r == Paging!pgdir_alloc_page(n, pgdir, la, write, w)
           q == Paging!Next_page(n)
           f == Paging!Take(n, 0)
           x == [f EXCEPT !.word[q] = w]
           s == Paging!page_insert(x, pgdir, q, la, write)
<1>1. CASE n.free = {}
  <2>1. r = [m |-> n, done |-> FALSE]
    BY <1>1 DEF Paging!pgdir_alloc_page, Paging!None
  <2> QED BY <2>1
<1>2. CASE n.free # {}
  <2>1. f \in Mem(R, {q}) /\ f.ref[q] = 0 /\ q \in Paging!Page
    BY <1>2, TakeKeeps
  <2>2. x \in Mem(R, {q}) /\ x.ref[q] = 0
    <3> HIDE DEF f, q
    <3> DEFINE wo == [f.word EXCEPT ![q] = w]
    <3>1. wo \in [Paging!Page -> Word \cup {-1}]
      BY <2>1 DEF Mem, Memory
    <3>2. x = [f EXCEPT !.word = wo]
      OBVIOUS
    <3> HIDE DEF wo, x
    <3>3. x \in Memory /\ x.free = f.free /\ x.ref = f.ref /\ x.ent = f.ent
      BY <2>1, <3>1, <3>2 DEF Mem, Memory
    <3>4. PICK A, B : Tables(f, R, A, B, {q})
      BY <2>1 DEF Mem
    <3>5. Tables(x, R, A, B, {q})
      BY <3>3, <3>4 DEF Tables, Apart, Levels, OneEach, At
    <3> QED BY <2>1, <3>3, <3>5 DEF Mem
  <2>3. r = IF s.done THEN s ELSE [s EXCEPT !.m = Paging!free_page(@, q)]
    BY <1>2 DEF Paging!pgdir_alloc_page, Paging!None
  <2>4. \/ s.done = TRUE /\ s.m \in Mem(R, {})
        \/ s.done = FALSE /\ s.m \in Mem(R, {q})
    <3> HIDE DEF x, q
    <3>1. InsertDone(R, {q}, s)
      BY <2>2, InsertKeeps, Zenon
    <3> HIDE DEF s
    <3> QED BY <3>1 DEF InsertDone
  <2>5. CASE s.done = TRUE /\ s.m \in Mem(R, {})
    BY <2>3, <2>5
  <2>6. CASE s.done = FALSE /\ s.m \in Mem(R, {q})
    <3>1. Paging!free_page(s.m, q) \in Mem(R, {})
      <4> HIDE DEF s, q
      <4> QED BY <2>6, FreeKeeps
    <3>2. r.m = Paging!free_page(s.m, q)
      <4>1. s = [s EXCEPT !.m = s.m] /\ DOMAIN s = {"m", "done"}
        BY Zenon DEF Paging!page_insert
      <4> DEFINE z == Paging!free_page(s.m, q)
      <4>2. r = [s EXCEPT !.m = z]
        BY <2>3, <2>6
      <4> HIDE DEF s, z, r
      <4>3. r.m = z
        BY <4>1, <4>2
      <4> QED BY <4>3 DEF z
    <3> QED BY <3>1, <3>2
  <2> QED BY <2>4, <2>5, <2>6
<1> QED BY <1>1, <1>2

(* unmap_range at one page.                                                *)
LEMMA UnmapPageKeeps ==
  ASSUME NEW R, NEW n \in Mem(R, {}), NEW pgdir \in R, NEW la \in Paging!Addr
  PROVE  Paging!UnmapPage(n, pgdir, la) \in Mem(R, {})
<1> DEFINE pt == Paging!get_pte(n, pgdir, la, FALSE).at
           i  == Paging!PTX(la)
           d  == Paging!page_remove_pte(n, pt, i)
<1>2. n \in Memory /\ i \in Paging!Index
  BY Indices DEF Mem
<1>3. \E A, B : Tables(n, R, A, B, {}) /\ (pt = 0 \/ pt \in B)
  <2>1. PteDone(n, R, {}, FALSE, Paging!get_pte(n, pgdir, la, FALSE))
    BY Get_pteKeeps, Zenon
  <2> QED BY <2>1 DEF PteDone
<1>4. PICK A, B : Tables(n, R, A, B, {}) /\ (pt = 0 \/ pt \in B)
  BY <1>3
<1>5. Paging!UnmapPage(n, pgdir, la) = IF pt = 0 THEN n ELSE d
  BY DEF Paging!UnmapPage
<1>6. CASE pt \in B
  <2>1. d \in Memory /\ Tables(d, R, A, B, {})
    <3> HIDE DEF pt, i
    <3> QED BY <1>2, <1>4, <1>6, Remove_pteKeeps
  <2> HIDE DEF d
  <2> QED BY <1>5, <2>1 DEF Mem
<1> QED BY <1>4, <1>5, <1>6

(* FreePt, of a table that entry i of pgdir points to.                     *)
Below(R, pgdir, i, pd0) == {n \in Mem(R, {}) : At(n, pgdir, i) = pd0}

LEMMA FreePtKeeps ==
  ASSUME NEW R, NEW pgdir \in R, NEW i \in Paging!Index, NEW pd0, pd0 # 0,
         NEW x \in [m : Below(R, pgdir, i, pd0), free_pd0 : BOOLEAN],
         NEW j \in Paging!Index
  PROVE  Paging!FreePt(x, pd0, j) \in [m : Below(R, pgdir, i, pd0), free_pd0 : BOOLEAN]
<1> DEFINE pt == At(x.m, pd0, j)
<1>1. x.m \in Mem(R, {}) /\ x.m \in Memory /\ At(x.m, pgdir, i) = pd0
  BY DEF Below, Mem
<1>2. PICK A, B : Tables(x.m, R, A, B, {})
  BY <1>1 DEF Mem
<1>3. pd0 \in A /\ pd0 # pgdir /\ pd0 \in R \cup A \cup B
  BY <1>1, <1>2 DEF Tables, Levels, Apart
<1>4. CASE pt = 0
  <2>1. Paging!FreePt(x, pd0, j) = [x EXCEPT !.free_pd0 = FALSE]
    BY <1>4 DEF Paging!FreePt, At
  <2> QED BY <2>1, Zenon
<1>5. CASE pt # 0 /\ \E k \in Paging!Index : x.m.ent[pt][k].page # 0
  <2>1. Paging!FreePt(x, pd0, j) = x
    BY <1>5, Zenon DEF Paging!FreePt, At
  <2> QED BY <2>1
<1>6. CASE pt # 0 /\ ~\E k \in Paging!Index : x.m.ent[pt][k].page # 0
  <2> DEFINE d == Dropped(x.m, pd0, j)
  <2>1. Paging!FreePt(x, pd0, j) = [x EXCEPT !.m = d]
    BY <1>6, Zenon DEF Paging!FreePt, At, Dropped
  <2>2. DropDone(x.m, R, A, B, {}, pd0, j, pt, d)
    BY <1>1, <1>2, <1>3, <1>6, Drop
  <2>3. d \in Mem(R, {})
    <3> HIDE DEF d, pt
    <3> QED BY <2>2 DEF DropDone, Mem
  <2>4. At(d, pgdir, i) = pd0
    <3>1. pgdir \in Paging!Page
      BY <1>2 DEF Tables, Apart
    <3> HIDE DEF d, pt
    <3>2. pgdir # pt
      BY <2>2 DEF DropDone
    <3>3. pgdir # pd0 /\ \A u \in Paging!Page \ {pt}, k \in Paging!Index :
            u # pd0 \/ k # j => d.ent[u][k] = x.m.ent[u][k]
      BY <1>3, <2>2 DEF DropDone
    <3>4. d.ent[pgdir][i] = x.m.ent[pgdir][i]
      <4>1. pgdir \in Paging!Page \ {pt} /\ i \in Paging!Index
        BY <3>1, <3>2
      <4> QED BY <3>3, <4>1, Zenon
    <3> QED BY <1>1, <3>4 DEF At
  <2> DEFINE S == Below(R, pgdir, i, pd0)
  <2>5. d \in S
    <3> HIDE DEF d
    <3> QED BY <2>3, <2>4 DEF Below
  <2> DEFINE T == [m : S, free_pd0 : BOOLEAN]
             y == [x EXCEPT !.m = d]
  <2>6. y \in T
    <3>1. x \in T
      OBVIOUS
    <3> HIDE DEF d, S
    <3> QED BY ONLY <2>5, <3>1
  <2>7. Paging!FreePt(x, pd0, j) = y
    BY <2>1, Zenon
  <2> HIDE DEF T, y
  <2>8. Paging!FreePt(x, pd0, j) \in T
    BY ONLY <2>6, <2>7
  <2> QED BY ONLY <2>8 DEF T
<1> QED BY <1>4, <1>5, <1>6

-----------------------------------------------------------------------------
(* Loops: a recursive definition is a CHOOSE, and a history of the loop    *)
(* shows that there is something to choose.                                *)

(* unmap_range.                                                            *)
LEMMA UnmapRangeKeeps ==
  ASSUME NEW R, NEW n \in Mem(R, {}), NEW pgdir \in R, NEW lo \in Int, NEW hi \in Int,
         Paging!USER_ACCESS(lo, hi)
  PROVE  Paging!unmap_range(n, pgdir, lo, hi) \in Mem(R, {})
<1> DEFINE S == Mem(R, {})
           W(h) == h = [a \in lo..hi |-> IF a = lo THEN n
                                         ELSE Paging!UnmapPage(h[a - 1], pgdir, a - 1)]
           c == CHOOSE h : W(h)
           g == [z \in S \X (lo..(hi - 1)) |-> Paging!UnmapPage(z[1], pgdir, z[2])]
<1>1. lo <= hi /\ lo..(hi - 1) \subseteq Paging!Addr
  BY Sizes DEF Paging!USER_ACCESS, Paging!Addr
<1>2. \A y \in S, a \in lo..(hi - 1) : Paging!UnmapPage(y, pgdir, a) \in S
  BY <1>1, UnmapPageKeeps
<1>3. W(c)
  <2>1. g \in [S \X (lo..(hi - 1)) -> S] /\ n \in S
    <3> HIDE DEF S
    <3> QED BY <1>2 DEF S
  <2>2. PICK h \in [lo..hi -> S] :
          h[lo] = n /\ \A a \in (lo + 1)..hi : h[a] = g[<<h[a - 1], a - 1>>]
    <3> HIDE DEF S, g
    <3>1. Histories(S, lo, hi, n, g) # {}
      BY <1>1, <2>1, History, Zenon
    <3> QED BY <3>1 DEF Histories
  <2>3. W(h)
    <3>1. ASSUME NEW a \in (lo + 1)..hi
          PROVE  h[a] = Paging!UnmapPage(h[a - 1], pgdir, a - 1)
      <4>1. a - 1 \in lo..(hi - 1) /\ a - 1 \in lo..hi
        OBVIOUS
      <4> HIDE DEF S
      <4> QED BY <2>2, <4>1
    <3> QED BY <2>2, <3>1
  <2> HIDE DEF W
  <2> QED BY <2>3
<1>4. c[hi] \in S
  <2> HIDE DEF c, S
  <2>1. c[lo] = n
    BY <1>1, <1>3
  <2>2. \A a \in lo..(hi - 1) : c[a + 1] = Paging!UnmapPage(c[a], pgdir, a)
    BY <1>1, <1>3
  <2>3. \A a \in lo..(hi - 1) : c[a] \in S => c[a + 1] \in S
    BY <1>2, <2>2
  <2>4. n \in S
    BY DEF S
  <2> QED BY <1>1, <2>1, <2>3, <2>4, Staying
<1>5. Paging!unmap_range(n, pgdir, lo, hi) = c[hi]
  BY DEF Paging!unmap_range
<1> QED BY <1>4, <1>5

LEMMA MinOfTwo ==
  ASSUME NEW a \in Int, NEW b \in Int
  PROVE  Paging!Min({a, b}) = IF a <= b THEN a ELSE b
<1> DEFINE z == IF a <= b THEN a ELSE b
<1>1. z \in {a, b} /\ \A y \in {a, b} : z <= y
  OBVIOUS
<1>2. \A x \in {a, b} : (\A y \in {a, b} : x <= y) => x = z
  OBVIOUS
<1>3. Paging!Min({a, b}) = CHOOSE x \in {a, b} : \A y \in {a, b} : x <= y
  BY DEF Paging!Min
<1> HIDE DEF z
<1> QED BY <1>1, <1>2, <1>3 DEF z

(* Between which entries of a directory of level 0 exit_range looks.       *)
LEMMA Looks ==
  ASSUME NEW lo \in Int, NEW hi \in Int, Paging!USER_ACCESS(lo, hi),
         NEW i \in Paging!PDX1(lo)..Paging!PDX1(hi - 1)
  PROVE  LET size  == NPTE * NPDE
             first == Paging!PDX0(IF Paging!PDX1(lo) = i THEN lo ELSE i * size)
             last  == Paging!PDX0(Paging!Min({hi, (i + 1) * size}) - 1)
         IN  /\ i \in Paging!Index /\ first \in 0..(NPDE - 1) /\ last \in 0..(NPDE - 1)
             /\ first <= last
<1> DEFINE size  == NPTE * NPDE
           y == IF Paging!PDX1(lo) = i THEN lo ELSE i * size
           z == Paging!Min({hi, (i + 1) * size}) - 1
<1>1. lo \in Paging!Addr /\ hi - 1 \in Paging!Addr /\ lo \in Nat /\ hi - 1 \in Nat
      /\ lo <= hi - 1 /\ size = Size /\ size \in Nat \ {0}
  BY Sizes DEF Paging!USER_ACCESS, Paging!Addr, Size
<1>2. /\ Paging!PDX1(lo) \in 0..(NPD - 1) /\ Paging!PDX1(hi - 1) \in 0..(NPD - 1)
      /\ i \in Nat /\ i \in 0..(NPD - 1) /\ i \in Paging!Index
  <2>1. /\ Paging!PDX1(lo) \in 0..(NPD - 1) /\ Paging!PDX1(hi - 1) \in 0..(NPD - 1)
    BY <1>1, Indices
  <2>2. i \in 0..(NPD - 1)
    BY <2>1, Sizes
  <2>3. i \in Paging!Index
    BY <2>2, IndexIs, Zenon
  <2>4. i \in Nat
    BY <2>2, Sizes
  <2> QED BY <2>1, <2>2, <2>3, <2>4, Zenon
<1>3. /\ i * size = Size * i /\ (i + 1) * size = Size * i + Size /\ Size * i \in Nat
  BY <1>1, <1>2
<1> DEFINE u == Paging!PDX1(lo)
           v == Paging!PDX1(hi - 1)
<1>4. Size * u <= lo /\ lo < Size * u + Size /\ Size * v <= hi - 1
  <2>1. u = lo \div Size /\ v = (hi - 1) \div Size
    BY <1>1 DEF Paging!PDX1
  <2>2. /\ lo % Size \in 0..(Size - 1) /\ lo = Size * (lo \div Size) + (lo % Size)
        /\ (hi - 1) % Size \in 0..(Size - 1)
        /\ hi - 1 = Size * ((hi - 1) \div Size) + ((hi - 1) % Size)
    BY <1>1, Division
  <2> HIDE DEF u, v
  <2>3. u \in Nat /\ v \in Nat /\ Size * u \in Nat /\ Size * v \in Nat
    <3>1. u \in Nat /\ v \in Nat
      BY <1>2 DEF u, v
    <3> QED BY <1>1, <3>1
  <2> DEFINE a == lo % Size
             b == (hi - 1) % Size
  <2>4. /\ a \in 0..(Size - 1) /\ lo = Size * u + a
        /\ b \in 0..(Size - 1) /\ hi - 1 = Size * v + b
    BY <2>1, <2>2, Zenon
  <2> HIDE DEF a, b
  <2> QED BY <1>1, <2>3, <2>4
<1>5. Size * i <= hi - 1
  <2>1. i <= v /\ v \in Nat
    BY <1>2
  <2>2. Size * i <= Size * v
    <3> HIDE DEF v
    <3> QED BY <1>1, <1>2, <2>1, Products
  <2> HIDE DEF u, v
  <2>3. Size * v \in Nat
    BY <1>1, <2>1
  <2> QED BY <1>1, <1>3, <1>4, <2>2, <2>3
<1>6. y \in Nat /\ Size * i <= y /\ y < Size * i + Size /\ y <= hi - 1
  <2>1. CASE u = i
    BY <1>1, <1>4, <2>1
  <2>2. CASE u # i
    BY <1>1, <1>3, <1>5, <2>2
  <2> QED BY <2>1, <2>2
<1>7. z = (IF hi <= Size * i + Size THEN hi ELSE Size * i + Size) - 1
  <2> HIDE DEF size
  <2>1. Size * i + Size \in Int
    BY <1>1, <1>3
  <2> QED BY <1>3, <2>1, MinOfTwo
<1> HIDE DEF size, y, z, u, v
<1>8. z \in Nat /\ y <= z /\ z < Size * i + Size /\ z <= hi - 1
  BY <1>1, <1>3, <1>6, <1>7
<1>9. y \in Paging!Addr /\ z \in Paging!Addr
  BY <1>1, <1>6, <1>8, Sizes DEF Paging!Addr
<1>10. Paging!PDX0(y) <= Paging!PDX0(z)
  BY <1>2, <1>6, <1>8, InOrder
<1>11. Paging!PDX0(y) \in 0..(NPDE - 1) /\ Paging!PDX0(z) \in 0..(NPDE - 1)
  BY <1>9, Indices
<1> QED BY <1>2, <1>10, <1>11 DEF y, z, size

(* exit_range below one entry.                                             *)
LEMMA FreePd0Keeps ==
  ASSUME NEW R, NEW n \in Mem(R, {}), NEW pgdir \in R, NEW lo \in Int, NEW hi \in Int,
         Paging!USER_ACCESS(lo, hi), NEW i \in Paging!PDX1(lo)..Paging!PDX1(hi - 1)
  PROVE  Paging!FreePd0(n, pgdir, i, lo, hi) \in Mem(R, {})
<1> DEFINE pd0   == At(n, pgdir, i)
           size  == NPTE * NPDE
           first == Paging!PDX0(IF Paging!PDX1(lo) = i THEN lo ELSE i * size)
           last  == Paging!PDX0(Paging!Min({hi, (i + 1) * size}) - 1)
           x0 == [m |-> n, free_pd0 |-> TRUE]
           S == [m : Below(R, pgdir, i, pd0), free_pd0 : BOOLEAN]
           W(h) == h = [j \in first..(last + 1) |->
                          IF j = first THEN x0 ELSE Paging!FreePt(h[j - 1], pd0, j - 1)]
           c == CHOOSE h : W(h)
           g == [z \in S \X (first..last) |-> Paging!FreePt(z[1], pd0, z[2])]
<1>1. /\ i \in Paging!Index /\ first \in Int /\ last \in Int /\ first <= last + 1
      /\ first..last \subseteq Paging!Index /\ (last + 1) - 1 = last
  <2>1. /\ i \in Paging!Index /\ first \in 0..(NPDE - 1) /\ last \in 0..(NPDE - 1)
        /\ first <= last
    BY Looks
  <2> HIDE DEF first, last
  <2>2. first..last \subseteq 0..(NPDE - 1)
    BY <2>1, Sizes
  <2>3. first..last \subseteq Paging!Index
    BY <2>2, IndexIs, Zenon
  <2>4. first \in Int /\ last \in Int /\ first <= last + 1 /\ (last + 1) - 1 = last
    BY <2>1, Sizes
  <2> QED BY <2>1, <2>3, <2>4, Zenon
<1>2. /\ n \in Memory
      /\ Paging!FreePd0(n, pgdir, i, lo, hi) =
           IF pd0 = 0 THEN n
           ELSE IF c[last + 1].free_pd0
                THEN [Paging!free_page(c[last + 1].m, pd0) EXCEPT !.ent[pgdir][i] = Paging!NoEntry]
                ELSE c[last + 1].m
  BY DEF Paging!FreePd0, Mem, At
<1> HIDE DEF first, last
<1>3. CASE pd0 = 0
  <2> DEFINE y == IF c[last + 1].free_pd0
                  THEN [Paging!free_page(c[last + 1].m, pd0) EXCEPT
                          !.ent[pgdir][i] = Paging!NoEntry]
                  ELSE c[last + 1].m
             e == Paging!FreePd0(n, pgdir, i, lo, hi)
  <2>1. e = IF pd0 = 0 THEN n ELSE y
    BY <1>2, Zenon
  <2> HIDE DEF pd0, y, e
  <2>2. e = n
    BY ONLY <1>3, <2>1
  <2> QED BY <2>2 DEF e
<1>4. CASE pd0 # 0
  <2>0. x0 \in S
    BY DEF Below
  <2>1. \A y \in S, j \in first..last : Paging!FreePt(y, pd0, j) \in S
    <3> SUFFICES ASSUME NEW y \in S, NEW j \in first..last
                 PROVE  Paging!FreePt(y, pd0, j) \in S
      OBVIOUS
    <3> HIDE DEF pd0
    <3> QED BY <1>1, <1>4, FreePtKeeps
  <2>2. W(c)
    <3>1. g \in [S \X (first..last) -> S]
      <4> HIDE DEF S
      <4> QED BY <2>1 DEF S
    <3>2. PICK h \in [first..(last + 1) -> S] :
            h[first] = x0 /\ \A a \in (first + 1)..(last + 1) : h[a] = g[<<h[a - 1], a - 1>>]
      <4> HIDE DEF S, g, x0
      <4>1. first \in Int /\ last + 1 \in Int /\ first <= last + 1
        BY <1>1
      <4>3. g \in [S \X (first..((last + 1) - 1)) -> S]
        BY <1>1, <3>1, Zenon
      <4>2. Histories(S, first, last + 1, x0, g) # {}
        <5> DEFINE end == last + 1
        <5>1. end \in Int /\ first <= end /\ g \in [S \X (first..(end - 1)) -> S]
          BY <4>1, <4>3
        <5> HIDE DEF end
        <5>2. Histories(S, first, end, x0, g) # {}
          BY <2>0, <4>1, <5>1, History
        <5> QED BY <5>2 DEF end
      <4> QED BY <4>2 DEF Histories
    <3>3. W(h)
      <4>1. ASSUME NEW a \in (first + 1)..(last + 1)
            PROVE  h[a] = Paging!FreePt(h[a - 1], pd0, a - 1)
        <5>1. a - 1 \in first..last /\ a - 1 \in first..(last + 1)
          BY <1>1
        <5> HIDE DEF S, x0
        <5> QED BY <3>2, <5>1
      <4> HIDE DEF S, x0
      <4> QED BY <1>1, <3>2, <4>1
    <3> HIDE DEF W
    <3> QED BY <3>3
  <2>3. c[last + 1] \in S
    <3> HIDE DEF c, S, x0
    <3>1. c[first] = x0
      BY <1>1, <2>2
    <3>2. \A a \in first..last : c[a + 1] = Paging!FreePt(c[a], pd0, a)
      BY <1>1, <2>2
    <3>3. \A a \in first..((last + 1) - 1) : c[a] \in S => c[a + 1] \in S
      BY <1>1, <2>1, <3>2
    <3>4. last + 1 \in Int
      BY <1>1
    <3> QED BY <1>1, <2>0, <3>1, <3>3, <3>4, Staying
  <2> DEFINE x == c[last + 1]
             d == Dropped(x.m, pgdir, i)
  <2>4. x.m \in Mem(R, {}) /\ At(x.m, pgdir, i) = pd0
    <3> HIDE DEF c, pd0
    <3> QED BY <2>3 DEF Below
  <2>5. d \in Mem(R, {})
    <3>1. PICK A, B : x.m \in Memory /\ Tables(x.m, R, A, B, {})
      BY <2>4 DEF Mem
    <3> HIDE DEF x, pd0
    <3>2. pgdir \in R \cup A \cup B
      OBVIOUS
    <3>3. DropDone(x.m, R, A, B, {}, pgdir, i, pd0, d)
      BY <1>1, <1>4, <2>4, <3>1, <3>2, Drop
    <3> HIDE DEF d
    <3> QED BY <3>3 DEF DropDone, Mem
  <2>6. d = [Paging!free_page(x.m, pd0) EXCEPT !.ent[pgdir][i] = Paging!NoEntry]
    <3> HIDE DEF x, pd0
    <3> QED BY <2>4 DEF Dropped
  <2> HIDE DEF pd0, d, c
  <2> QED BY <1>2, <1>4, <2>4, <2>5, <2>6
<1> QED BY <1>3, <1>4

(* exit_range.                                                             *)
LEMMA ExitRangeKeeps ==
  ASSUME NEW R, NEW n \in Mem(R, {}), NEW pgdir \in R, NEW lo \in Int, NEW hi \in Int,
         Paging!USER_ACCESS(lo, hi)
  PROVE  Paging!exit_range(n, pgdir, lo, hi) \in Mem(R, {})
<1> DEFINE S == Mem(R, {})
           first == Paging!PDX1(lo)
           last  == Paging!PDX1(hi - 1)
           W(h) == h = [i \in first..(last + 1) |->
                          IF i = first THEN n
                          ELSE Paging!FreePd0(h[i - 1], pgdir, i - 1, lo, hi)]
           c == CHOOSE h : W(h)
           g == [z \in S \X (first..last) |-> Paging!FreePd0(z[1], pgdir, z[2], lo, hi)]
<1>1. /\ first \in Int /\ last \in Int /\ first <= last + 1 /\ (last + 1) - 1 = last
  <2>1. lo \in Paging!Addr /\ hi - 1 \in Paging!Addr /\ lo \in Nat /\ hi - 1 \in Nat
        /\ lo <= hi - 1 /\ Size \in Nat \ {0}
    BY Sizes DEF Paging!USER_ACCESS, Paging!Addr
  <2>2. first \in Nat /\ last \in Nat /\ first = lo \div Size /\ last = (hi - 1) \div Size
    BY <2>1, Indices, Sizes DEF Paging!PDX1, Size
  <2>3. /\ lo % Size \in 0..(Size - 1) /\ lo = Size * (lo \div Size) + (lo % Size)
        /\ (hi - 1) % Size \in 0..(Size - 1)
        /\ hi - 1 = Size * ((hi - 1) \div Size) + ((hi - 1) % Size)
    BY <2>1, Division
  <2> DEFINE a == lo % Size
             b == (hi - 1) % Size
  <2>4. /\ a \in 0..(Size - 1) /\ lo = Size * first + a
        /\ b \in 0..(Size - 1) /\ hi - 1 = Size * last + b
    BY <2>2, <2>3, Zenon
  <2> HIDE DEF a, b, first, last
  <2>5. last + 1 <= first => Size * (last + 1) <= Size * first
    BY <2>1, <2>2, Products
  <2>6. Size * (last + 1) = Size * last + Size /\ Size * first \in Nat /\ Size * last \in Nat
    BY <2>1, <2>2
  <2> QED BY <2>1, <2>2, <2>4, <2>5, <2>6
<1>2. \A y \in S, i \in first..last : Paging!FreePd0(y, pgdir, i, lo, hi) \in S
  BY FreePd0Keeps
<1>5. Paging!exit_range(n, pgdir, lo, hi) = c[last + 1]
  BY DEF Paging!exit_range
<1> HIDE DEF first, last
<1>3. W(c)
  <2>1. g \in [S \X (first..last) -> S] /\ n \in S
    <3> HIDE DEF S
    <3> QED BY <1>2 DEF S
  <2>2. PICK h \in [first..(last + 1) -> S] :
          h[first] = n /\ \A a \in (first + 1)..(last + 1) : h[a] = g[<<h[a - 1], a - 1>>]
    <3> DEFINE end == last + 1
    <3>1. end \in Int /\ first <= end /\ g \in [S \X (first..(end - 1)) -> S]
      BY <1>1, <2>1
    <3> HIDE DEF end, S, g
    <3>2. Histories(S, first, end, n, g) # {}
      BY <1>1, <2>1, <3>1, History
    <3> QED BY <3>2 DEF end, Histories
  <2>3. W(h)
    <3>1. ASSUME NEW a \in (first + 1)..(last + 1)
          PROVE  h[a] = Paging!FreePd0(h[a - 1], pgdir, a - 1, lo, hi)
      <4>1. a - 1 \in first..last /\ a - 1 \in first..(last + 1)
        BY <1>1
      <4> HIDE DEF S
      <4> QED BY <2>2, <4>1
    <3> HIDE DEF S
    <3> QED BY <1>1, <2>2, <3>1
  <2> HIDE DEF W
  <2> QED BY <2>3
<1>4. c[last + 1] \in S
  <2> HIDE DEF c, S
  <2>1. c[first] = n
    BY <1>1, <1>3
  <2>2. \A a \in first..last : c[a + 1] = Paging!FreePd0(c[a], pgdir, a, lo, hi)
    BY <1>1, <1>3
  <2>3. \A a \in first..((last + 1) - 1) : c[a] \in S => c[a + 1] \in S
    BY <1>1, <1>2, <2>2
  <2>4. n \in S /\ last + 1 \in Int
    BY <1>1 DEF S
  <2> QED BY <1>1, <2>1, <2>3, <2>4, Staying
<1> QED BY <1>4, <1>5

-----------------------------------------------------------------------------
(* Address spaces: vmas are in the part of memory that is the user's.      *)

Vma == {v \in Int \X Int \X BOOLEAN : Paging!USER_ACCESS(v[1], v[2])}

(* exit_mmap gives back what a directory has, and the directory.           *)
LEMMA ExitMmapKeeps ==
  ASSUME NEW R, NEW q, q \notin R, NEW n \in Mem(R \cup {q}, {}), NEW x,
         x.pgdir = q, x.vmas \in Seq(Vma)
  PROVE  Paging!exit_mmap(n, x) \in Mem(R, {})
<1> DEFINE S == Mem(R \cup {q}, {})
           len == Len(x.vmas)
           WU(h) == h = [i \in 0..len |->
                           IF i = 0 THEN n
                           ELSE Paging!unmap_range(h[i - 1], x.pgdir, x.vmas[i][1], x.vmas[i][2])]
           u == CHOOSE h : WU(h)
           WE(h) == h = [i \in 0..len |->
                           IF i = 0 THEN u[len]
                           ELSE Paging!exit_range(h[i - 1], x.pgdir, x.vmas[i][1], x.vmas[i][2])]
           c == CHOOSE h : WE(h)
           gu == [z \in S \X (0..(len - 1)) |->
                    Paging!unmap_range(z[1], x.pgdir, x.vmas[z[2] + 1][1], x.vmas[z[2] + 1][2])]
           ge == [z \in S \X (0..(len - 1)) |->
                    Paging!exit_range(z[1], x.pgdir, x.vmas[z[2] + 1][1], x.vmas[z[2] + 1][2])]
<1>1. len \in Nat /\ 0 <= len /\ 0 \in Int /\ len \in Int
  BY LenProperties
<1>2. \A i \in 0..(len - 1) :
        /\ x.vmas[i + 1][1] \in Int /\ x.vmas[i + 1][2] \in Int
        /\ Paging!USER_ACCESS(x.vmas[i + 1][1], x.vmas[i + 1][2])
  <2>1. ASSUME NEW i \in 0..(len - 1) PROVE x.vmas[i + 1] \in Vma
    <3>1. i + 1 \in 1..len
      BY <1>1
    <3> QED BY <3>1, ElementOfSeq
  <2> QED BY <2>1 DEF Vma
<1> HIDE DEF len
<1>3. \A y \in S, i \in 0..(len - 1) :
        Paging!unmap_range(y, x.pgdir, x.vmas[i + 1][1], x.vmas[i + 1][2]) \in S
  <2>1. x.pgdir \in R \cup {q}
    OBVIOUS
  <2> QED BY <1>2, <2>1, UnmapRangeKeeps
<1>4. \A y \in S, i \in 0..(len - 1) :
        Paging!exit_range(y, x.pgdir, x.vmas[i + 1][1], x.vmas[i + 1][2]) \in S
  <2>1. x.pgdir \in R \cup {q}
    OBVIOUS
  <2> QED BY <1>2, <2>1, ExitRangeKeeps
<1> HIDE DEF S
<1>5. n \in S /\ gu \in [S \X (0..(len - 1)) -> S] /\ ge \in [S \X (0..(len - 1)) -> S]
  BY <1>3, <1>4 DEF S
<1>6. WU(u)
  <2>1. PICK h \in [0..len -> S] :
          h[0] = n /\ \A a \in (0 + 1)..len : h[a] = gu[<<h[a - 1], a - 1>>]
    <3> HIDE DEF gu
    <3>1. Histories(S, 0, len, n, gu) # {}
      BY <1>1, <1>5, History
    <3> QED BY <3>1 DEF Histories
  <2>2. WU(h)
    <3>1. ASSUME NEW a \in 1..len
          PROVE  h[a] = Paging!unmap_range(h[a - 1], x.pgdir, x.vmas[a][1], x.vmas[a][2])
      <4>1. a - 1 \in 0..(len - 1) /\ a - 1 \in 0..len /\ (a - 1) + 1 = a /\ a \in (0 + 1)..len
        BY <1>1
      <4> QED BY <2>1, <4>1
    <3> QED BY <1>1, <2>1, <3>1
  <2> HIDE DEF WU
  <2> QED BY <2>2
<1>7. u[len] \in S
  <2> HIDE DEF u
  <2>1. u[0] = n
    BY <1>1, <1>6
  <2>2. \A a \in 0..(len - 1) :
          u[a + 1] = Paging!unmap_range(u[a], x.pgdir, x.vmas[a + 1][1], x.vmas[a + 1][2])
    BY <1>1, <1>6
  <2>3. \A a \in 0..(len - 1) : u[a] \in S => u[a + 1] \in S
    BY <1>3, <2>2
  <2> QED BY <1>1, <1>5, <2>1, <2>3, Staying
<1>8. Paging!exit_mmap(n, x) = Paging!free_page(c[len], q)
  BY DEF Paging!exit_mmap, len
<1> HIDE DEF u
<1>9. WE(c)
  <2>1. PICK h \in [0..len -> S] :
          h[0] = u[len] /\ \A a \in (0 + 1)..len : h[a] = ge[<<h[a - 1], a - 1>>]
    <3> HIDE DEF ge
    <3>1. Histories(S, 0, len, u[len], ge) # {}
      BY <1>1, <1>5, <1>7, History
    <3> QED BY <3>1 DEF Histories
  <2>2. WE(h)
    <3>1. ASSUME NEW a \in 1..len
          PROVE  h[a] = Paging!exit_range(h[a - 1], x.pgdir, x.vmas[a][1], x.vmas[a][2])
      <4>1. a - 1 \in 0..(len - 1) /\ a - 1 \in 0..len /\ (a - 1) + 1 = a /\ a \in (0 + 1)..len
        BY <1>1
      <4> QED BY <2>1, <4>1
    <3> QED BY <1>1, <2>1, <3>1
  <2> HIDE DEF WE
  <2> QED BY <2>2
<1>10. c[len] \in S
  <2> HIDE DEF c
  <2>1. c[0] = u[len]
    BY <1>1, <1>9
  <2>2. \A a \in 0..(len - 1) :
          c[a + 1] = Paging!exit_range(c[a], x.pgdir, x.vmas[a + 1][1], x.vmas[a + 1][2])
    BY <1>1, <1>9
  <2>3. \A a \in 0..(len - 1) : c[a] \in S => c[a + 1] \in S
    BY <1>4, <2>2
  <2> QED BY <1>1, <1>7, <2>1, <2>3, Staying
<1> HIDE DEF c
<1>11. c[len] \in Mem(R, {q})
  <2>1. c[len] \in Mem(R, {} \cup {q})
    BY <1>10, Fewer DEF S
  <2>2. {} \cup {q} = {q}
    OBVIOUS
  <2> QED BY <2>1, <2>2
<1> QED BY <1>8, <1>11, FreeKeeps, Zenon

(* What get_page finds is an entry.                                        *)
LEMMA Get_pageType ==
  ASSUME NEW R, NEW n \in Mem(R, {}), NEW pgdir \in R, NEW la \in Paging!Addr
  PROVE  /\ Paging!get_page(n, pgdir, la) \in Entry
         /\ Paging!get_page(n, pgdir, la).page # 0 =>
              Paging!get_page(n, pgdir, la).page \in Paging!Page
<1> DEFINE pt == Paging!get_pte(n, pgdir, la, FALSE).at
           i  == Paging!PTX(la)
           e  == Paging!get_page(n, pgdir, la)
<1>1. n \in Memory /\ i \in Paging!Index
  BY Indices DEF Mem
<1>2. pt = 0 \/ pt \in Paging!Page
  <2>1. PteDone(n, R, {}, FALSE, Paging!get_pte(n, pgdir, la, FALSE))
    BY Get_pteKeeps, Zenon
  <2>2. PICK A, B : Tables(n, R, A, B, {}) /\ (pt = 0 \/ pt \in B)
    BY <2>1 DEF PteDone
  <2> HIDE DEF pt
  <2> QED BY <2>2 DEF Tables, Apart
<1>3. e = IF pt = 0 THEN Paging!NoEntry ELSE n.ent[pt][i]
  BY DEF Paging!get_page
<1>4. e \in Entry
  <2> HIDE DEF pt, i, e
  <2> QED BY <1>1, <1>2, <1>3, Blank, AtType
<1> HIDE DEF e
<1>5. e.page # 0 => e.page \in Paging!Page
  BY <1>4, Sizes DEF Entry, Paging!Page
<1> QED BY <1>4, <1>5 DEF e

(* copy_range at one page.                                                 *)
Copies(R) == [m : Mem(R, {}), ret : {"ok", "nomem", "panic", "inval"}]

LEMMA CopyPageKeeps ==
  ASSUME NEW R, NEW x \in Copies(R), NEW to \in R, NEW from \in R, NEW la \in Paging!Addr
  PROVE  Paging!CopyPage(x, to, from, la) \in Copies(R)
<1> DEFINE e == Paging!get_page(x.m, from, la)
           g == Paging!get_pte(x.m, to, la, TRUE)
           r == Paging!pgdir_alloc_page(g.m, to, la, e.write, g.m.word[e.page])
<1>1. x.m \in Mem(R, {}) /\ x.ret \in {"ok", "nomem", "panic", "inval"}
  BY DEF Copies
<1>2. e \in Entry /\ (e.page # 0 => e.page \in Paging!Page)
  BY <1>1, Get_pageType
<1>3. g.m \in Mem(R, {}) /\ g.m \in Memory
  <2>1. PteDone(x.m, R, {}, TRUE, Paging!get_pte(x.m, to, la, TRUE))
    BY <1>1, Get_pteKeeps
  <2> HIDE DEF e, r
  <2> QED BY <2>1 DEF PteDone, Mem
<1>4. e.page # 0 => r.m \in Mem(R, {})
  <2> SUFFICES ASSUME e.page # 0 PROVE r.m \in Mem(R, {})
    OBVIOUS
  <2> HIDE DEF e, g
  <2>1. e.write \in BOOLEAN /\ g.m.word[e.page] \in Word \cup {-1}
    BY <1>2, <1>3 DEF Entry, Memory
  <2> QED BY <1>3, <2>1, AllocKeeps
<1>5. Paging!CopyPage(x, to, from, la) =
        IF x.ret # "ok" \/ e.page = 0 THEN x
        ELSE IF g.at = 0 THEN [m |-> g.m, ret |-> "nomem"]
        ELSE IF Paging!None(g.m) THEN [m |-> g.m, ret |-> "panic"]
        ELSE [x EXCEPT !.m = r.m]
  BY DEF Paging!CopyPage
<1> HIDE DEF e, g, r
<1> QED BY <1>3, <1>4, <1>5 DEF Copies

LEMMA CopyRangeKeeps ==
  ASSUME NEW R, NEW x \in Copies(R), NEW to \in R, NEW from \in R,
         NEW lo \in Int, NEW hi \in Int, Paging!USER_ACCESS(lo, hi)
  PROVE  Paging!copy_range(x, to, from, lo, hi) \in Copies(R)
<1> DEFINE S == Copies(R)
           W(h) == h = [a \in lo..hi |-> IF a = lo THEN x
                                         ELSE Paging!CopyPage(h[a - 1], to, from, a - 1)]
           c == CHOOSE h : W(h)
           g == [z \in S \X (lo..(hi - 1)) |-> Paging!CopyPage(z[1], to, from, z[2])]
<1>1. lo <= hi /\ lo..(hi - 1) \subseteq Paging!Addr
  BY Sizes DEF Paging!USER_ACCESS, Paging!Addr
<1>2. \A y \in S, a \in lo..(hi - 1) : Paging!CopyPage(y, to, from, a) \in S
  BY <1>1, CopyPageKeeps
<1>5. Paging!copy_range(x, to, from, lo, hi) = c[hi]
  BY DEF Paging!copy_range
<1> HIDE DEF S
<1>6. g \in [S \X (lo..(hi - 1)) -> S] /\ x \in S
  BY <1>2 DEF S
<1>3. W(c)
  <2>2. PICK h \in [lo..hi -> S] :
          h[lo] = x /\ \A a \in (lo + 1)..hi : h[a] = g[<<h[a - 1], a - 1>>]
    <3> HIDE DEF g
    <3>1. Histories(S, lo, hi, x, g) # {}
      BY <1>1, <1>6, History
    <3> QED BY <3>1 DEF Histories
  <2>3. W(h)
    <3>1. ASSUME NEW a \in (lo + 1)..hi
          PROVE  h[a] = Paging!CopyPage(h[a - 1], to, from, a - 1)
      <4>1. a - 1 \in lo..(hi - 1) /\ a - 1 \in lo..hi
        OBVIOUS
      <4> QED BY <2>2, <4>1
    <3> QED BY <2>2, <3>1
  <2> HIDE DEF W
  <2> QED BY <2>3
<1>4. c[hi] \in S
  <2> HIDE DEF c
  <2>1. c[lo] = x
    BY <1>1, <1>3
  <2>2. \A a \in lo..(hi - 1) : c[a + 1] = Paging!CopyPage(c[a], to, from, a)
    BY <1>1, <1>3
  <2>3. \A a \in lo..(hi - 1) : c[a] \in S => c[a + 1] \in S
    BY <1>2, <2>2
  <2> QED BY <1>1, <1>6, <2>1, <2>3, Staying
<1> QED BY <1>4, <1>5 DEF S

-----------------------------------------------------------------------------
(* The vmas of an mm.                                                      *)
LEMMA PlaceFits ==
  ASSUME NEW vmas \in Seq(Vma), NEW v \in Vma
  PROVE  Paging!Place(vmas, v) \in 1..(Len(vmas) + 1)
<1> DEFINE T == {i \in DOMAIN vmas : vmas[i][1] <= v[1]}
           len == Len(vmas)
<1>1. len \in Nat /\ DOMAIN vmas = 1..len
  BY LenProperties
<1>2. IsFiniteSet(1..len) /\ Cardinality(1..len) = len
  <2> HIDE DEF len
  <2>1. IsFiniteSet(1..len) /\ Cardinality(1..len) = IF 1 > len THEN 0 ELSE len - 1 + 1
    <3>1. 1 \in Int /\ len \in Int
      BY <1>1
    <3> QED BY ONLY <3>1, FS_Interval
  <2> QED BY <1>1, <2>1
<1>3. T \subseteq 1..len
  BY <1>1
<1> HIDE DEF T, len
<1>4. Cardinality(T) <= len /\ Cardinality(T) \in Nat
  BY <1>2, <1>3, FS_Subset, FS_CardinalityType
<1>5. Paging!Place(vmas, v) = Cardinality(T) + 1
  <2>1. Paging!Cardinality(T) = Cardinality(T)
    BY DEF Paging!Cardinality, Cardinality
  <2>2. Paging!Place(vmas, v) = Paging!Cardinality(T) + 1
    BY DEF Paging!Place, T
  <2> QED BY <2>1, <2>2
<1> QED BY <1>1, <1>4, <1>5 DEF len

LEMMA InsertVmaKeeps ==
  ASSUME NEW vmas \in Seq(Vma), NEW v \in Vma
  PROVE  Paging!insert_vma_struct(vmas, v) \in Seq(Vma)
<1> DEFINE i   == Paging!Place(vmas, v)
           len == Len(vmas)
<1>1. len \in Nat /\ i \in 1..(len + 1)
  BY PlaceFits, LenProperties
<1>2. Paging!insert_vma_struct(vmas, v) =
        SubSeq(vmas, 1, i - 1) \o <<v>> \o SubSeq(vmas, i, len)
  BY DEF Paging!insert_vma_struct, Paging!InsertAt
<1> HIDE DEF i
<1>3. SubSeq(vmas, 1, i - 1) \in Seq(Vma)
  BY <1>1, SubSeqProperties
<1>4. SubSeq(vmas, i, len) \in Seq(Vma)
  BY <1>1, SubSeqProperties
<1>5. <<v>> \in Seq(Vma)
  OBVIOUS
<1>6. SubSeq(vmas, 1, i - 1) \o <<v>> \in Seq(Vma)
  BY <1>3, <1>5, ConcatProperties
<1> QED BY <1>2, <1>4, <1>6, ConcatProperties

-----------------------------------------------------------------------------
(* load_icode.                                                             *)
Loads(R) == [m : Mem(R, {}), vmas : Seq(Vma), ret : {"ok", "nomem", "panic", "inval"}]

LEMMA LoadPageKeeps ==
  ASSUME NEW R, NEW x \in Loads(R), NEW pgdir \in R, NEW la \in Paging!Addr,
         NEW write \in BOOLEAN
  PROVE  Paging!LoadPage(x, pgdir, la, write) \in Loads(R)
<1> DEFINE r == Paging!pgdir_alloc_page(x.m, pgdir, la, write, 0)
<1>1. x.m \in Mem(R, {})
  BY DEF Loads
<1>2. r.m \in Mem(R, {})
  <2>1. 0 \in Word \cup {-1}
    BY Sizes
  <2> QED BY <1>1, <2>1, AllocKeeps
<1>3. Paging!LoadPage(x, pgdir, la, write) =
        IF x.ret # "ok" THEN x
        ELSE [x EXCEPT !.m = r.m, !.ret = IF r.done THEN "ok" ELSE "nomem"]
  BY DEF Paging!LoadPage
<1> HIDE DEF r
<1> QED BY <1>2, <1>3 DEF Loads

LEMMA LoadVmaKeeps ==
  ASSUME NEW R, NEW x \in Loads(R), NEW pgdir \in R, NEW v \in Int \X Int \X BOOLEAN,
         NEW lo \in Int,
         Paging!USER_ACCESS(v[1], v[2]) => v[1] <= lo /\ lo <= v[2]
  PROVE  Paging!LoadVma(x, pgdir, v, lo) \in Loads(R)
<1> DEFINE S == Loads(R)
           hi == v[2]
           y == [x EXCEPT !.vmas = Paging!insert_vma_struct(@, v)]
           W(h) == h = [a \in lo..hi |-> IF a = lo THEN y
                                         ELSE Paging!LoadPage(h[a - 1], pgdir, a - 1, v[3])]
           c == CHOOSE h : W(h)
           g == [z \in S \X (lo..(hi - 1)) |-> Paging!LoadPage(z[1], pgdir, z[2], v[3])]
           map == Paging!mm_map(x.vmas, v)
<1>0. Paging!LoadVma(x, pgdir, v, lo) =
        IF x.ret # "ok" THEN x
        ELSE IF map # "ok" THEN [x EXCEPT !.ret = map]
        ELSE c[hi]
  BY DEF Paging!LoadVma
<1>1. map \in {"ok", "panic", "inval"}
      /\ (map = "ok" => v[1] \in Int /\ v[2] \in Int /\ Paging!USER_ACCESS(v[1], v[2]))
  BY DEF Paging!mm_map
<1>2. CASE map # "ok"
  <2> HIDE DEF c, map, hi
  <2> QED BY <1>0, <1>1, <1>2 DEF Loads
<1>3. CASE map = "ok"
  <2>1. /\ hi \in Int /\ lo <= hi /\ lo..(hi - 1) \subseteq Paging!Addr /\ v \in Vma
        /\ v[3] \in BOOLEAN
    <3>1. Paging!USER_ACCESS(v[1], v[2]) /\ v[1] \in Int /\ v[2] \in Int
      BY <1>1, <1>3
    <3>2. v \in Vma /\ v[3] \in BOOLEAN
      BY <3>1 DEF Vma
    <3>3. hi \in Int /\ lo <= hi
      BY <3>1
    <3>4. lo..(hi - 1) \subseteq Paging!Addr
      BY <3>1, Sizes DEF Paging!USER_ACCESS, Paging!Addr
    <3> QED BY <3>2, <3>3, <3>4
  <2> HIDE DEF hi
  <2>2. y \in S
    <3>1. Paging!insert_vma_struct(x.vmas, v) \in Seq(Vma)
      BY <2>1, InsertVmaKeeps DEF Loads
    <3> QED BY <3>1 DEF Loads
  <2> HIDE DEF y
  <2>3. \A z \in S, a \in lo..(hi - 1) : Paging!LoadPage(z, pgdir, a, v[3]) \in S
    BY <2>1, LoadPageKeeps
  <2> HIDE DEF S
  <2>4. g \in [S \X (lo..(hi - 1)) -> S]
    BY <2>3
  <2>5. W(c)
    <3>2. PICK h \in [lo..hi -> S] :
            h[lo] = y /\ \A a \in (lo + 1)..hi : h[a] = g[<<h[a - 1], a - 1>>]
      <4> HIDE DEF g
      <4>1. Histories(S, lo, hi, y, g) # {}
        BY <2>1, <2>2, <2>4, History
      <4> QED BY <4>1 DEF Histories
    <3>3. W(h)
      <4>1. ASSUME NEW a \in (lo + 1)..hi
            PROVE  h[a] = Paging!LoadPage(h[a - 1], pgdir, a - 1, v[3])
        <5>1. a - 1 \in lo..(hi - 1) /\ a - 1 \in lo..hi
          BY <2>1
        <5> QED BY <3>2, <5>1
      <4> QED BY <2>1, <3>2, <4>1
    <3> HIDE DEF W
    <3> QED BY <3>3
  <2>6. c[hi] \in S
    <3> HIDE DEF c
    <3>1. c[lo] = y
      BY <2>1, <2>5
    <3>2. \A a \in lo..(hi - 1) : c[a + 1] = Paging!LoadPage(c[a], pgdir, a, v[3])
      BY <2>1, <2>5
    <3>3. \A a \in lo..(hi - 1) : c[a] \in S => c[a + 1] \in S
      BY <2>3, <3>2
    <3> QED BY <2>1, <2>2, <3>1, <3>3, Staying
  <2> HIDE DEF c, map
  <2> QED BY <1>0, <1>3, <2>6 DEF S
<1> QED BY <1>2, <1>3

LEMMA LoadStackKeeps ==
  ASSUME NEW R, NEW x \in Loads(R), NEW pgdir \in R
  PROVE  Paging!LoadStack(x, pgdir) \in Loads(R)
<1> DEFINE v == <<UStack[1], UStack[2], TRUE>>
           y == Paging!LoadVma(x, pgdir, v, UStack[2] - 1)
<1>1. /\ UStack[1] \in Int /\ UStack[2] \in Int /\ v \in Int \X Int \X BOOLEAN
      /\ UStack[2] - 1 \in Int
  <2>1. Paging!USERTOP \in Int /\ StackPages \in Int
    BY Sizes
  <2>2. UStack[1] = Paging!USERTOP - StackPages /\ UStack[2] = Paging!USERTOP
    BY DEF UStack, Paging!USERTOP
  <2>3. UStack[1] \in Int /\ UStack[2] \in Int /\ UStack[2] - 1 \in Int
    BY <2>1, <2>2
  <2>4. TRUE \in BOOLEAN
    OBVIOUS
  <2>5. v \in Int \X Int \X BOOLEAN
    BY <2>3, <2>4, Zenon
  <2> QED BY <2>3, <2>5, Zenon
<1>2. Paging!USER_ACCESS(v[1], v[2]) => v[1] <= UStack[2] - 1 /\ UStack[2] - 1 <= v[2]
  BY <1>1 DEF Paging!USER_ACCESS
<1>3. y \in Loads(R)
  <2> HIDE DEF v
  <2> QED BY <1>1, <1>2, LoadVmaKeeps
<1>4. Paging!LoadStack(x, pgdir) =
        IF x.ret = "ok" /\ y.ret = "nomem" THEN [y EXCEPT !.ret = "panic"] ELSE y
  BY DEF Paging!LoadStack
<1> HIDE DEF y
<1> QED BY <1>3, <1>4 DEF Loads

LEMMA LoadIcodeKeeps ==
  ASSUME NEW R, NEW n \in Mem(R, {}), n.free # {}, NEW image \in Images
  PROVE  Paging!load_icode(n, image) \in Loads(R \cup {Paging!Next_page(n)})
<1> DEFINE q == Paging!Next_page(n)
           S == Loads(R \cup {q})
           len == Len(image)
           x0 == [m |-> Paging!setup_pgdir(n), vmas |-> <<>>, ret |-> "ok"]
           W(h) == h = [i \in 0..len |->
                          IF i = 0 THEN x0
                          ELSE Paging!LoadVma(h[i - 1], q, image[i], image[i][1])]
           c == CHOOSE h : W(h)
           g == [z \in S \X (0..(len - 1)) |->
                   Paging!LoadVma(z[1], q, image[z[2] + 1], image[z[2] + 1][1])]
<1>0. Paging!load_icode(n, image) = Paging!LoadStack(c[len], q)
  BY DEF Paging!load_icode
<1>1. image \in Seq(Int \X Int \X BOOLEAN) /\ len \in Nat /\ 0 <= len /\ 0 \in Int /\ len \in Int
  <2>1. image \in Seq(Int \X Int \X BOOLEAN)
    BY Sizes
  <2> QED BY <2>1, LenProperties
<1>2. \A i \in 0..(len - 1) :
        /\ image[i + 1] \in Int \X Int \X BOOLEAN /\ image[i + 1][1] \in Int
        /\ Paging!USER_ACCESS(image[i + 1][1], image[i + 1][2]) =>
             image[i + 1][1] <= image[i + 1][1] /\ image[i + 1][1] <= image[i + 1][2]
  <2>1. ASSUME NEW i \in 0..(len - 1) PROVE image[i + 1] \in Int \X Int \X BOOLEAN
    <3>1. i + 1 \in 1..len
      BY <1>1
    <3> QED BY <1>1, <3>1, ElementOfSeq
  <2> QED BY <2>1 DEF Paging!USER_ACCESS
<1>3. x0 \in S /\ q \in R \cup {q}
  <2>1. Paging!setup_pgdir(n) \in Mem(R \cup {q}, {})
    BY TakeKeeps
  <2>2. << >> \in Seq(Vma)
    OBVIOUS
  <2> HIDE DEF q
  <2> QED BY <2>1, <2>2 DEF Loads
<1> HIDE DEF q, x0, len
<1>4. \A y \in S, i \in 0..(len - 1) :
        Paging!LoadVma(y, q, image[i + 1], image[i + 1][1]) \in S
  BY <1>2, <1>3, LoadVmaKeeps
<1>5. g \in [S \X (0..(len - 1)) -> S]
  <2> HIDE DEF S
  <2> QED BY <1>4 DEF S
<1>6. W(c)
  <2>1. PICK h \in [0..len -> S] :
          h[0] = x0 /\ \A a \in (0 + 1)..len : h[a] = g[<<h[a - 1], a - 1>>]
    <3> HIDE DEF g, S
    <3>1. Histories(S, 0, len, x0, g) # {}
      BY <1>1, <1>3, <1>5, History
    <3> QED BY <3>1 DEF Histories
  <2> HIDE DEF S
  <2>2. W(h)
    <3>1. ASSUME NEW a \in 1..len
          PROVE  h[a] = Paging!LoadVma(h[a - 1], q, image[a], image[a][1])
      <4>1. a - 1 \in 0..(len - 1) /\ a - 1 \in 0..len /\ (a - 1) + 1 = a /\ a \in (0 + 1)..len
        BY <1>1
      <4> QED BY <2>1, <4>1
    <3> QED BY <1>1, <2>1, <3>1
  <2> HIDE DEF W
  <2> QED BY <2>2
<1>7. c[len] \in S
  <2> HIDE DEF c, S
  <2>1. c[0] = x0
    BY <1>1, <1>6
  <2>2. \A a \in 0..(len - 1) :
          c[a + 1] = Paging!LoadVma(c[a], q, image[a + 1], image[a + 1][1])
    BY <1>1, <1>6
  <2>3. \A a \in 0..(len - 1) : c[a] \in S => c[a + 1] \in S
    BY <1>4, <2>2
  <2> QED BY <1>1, <1>3, <2>1, <2>3, Staying
<1> HIDE DEF c
<1>8. Paging!LoadStack(c[len], q) \in Loads(R \cup {q})
  BY <1>3, <1>7, LoadStackKeeps
<1> QED BY <1>0, <1>8 DEF q

-----------------------------------------------------------------------------
(* dup_mmap.                                                               *)
LEMMA CopyVmaKeeps ==
  ASSUME NEW R, NEW x \in Loads(R), NEW to \in R, NEW from \in R, NEW v \in Vma
  PROVE  Paging!CopyVma(x, to, from, v) \in Loads(R)
<1> DEFINE x0 == [m |-> x.m, ret |-> x.ret]
           y  == Paging!copy_range(x0, to, from, v[1], v[2])
<1>1. x0 \in Copies(R)
  BY DEF Loads, Copies
<1>2. v[1] \in Int /\ v[2] \in Int /\ Paging!USER_ACCESS(v[1], v[2])
  BY DEF Vma
<1>3. y \in Copies(R)
  <2> HIDE DEF x0
  <2> QED BY <1>1, <1>2, CopyRangeKeeps
<1>4. Paging!insert_vma_struct(x.vmas, v) \in Seq(Vma)
  BY InsertVmaKeeps DEF Loads
<1>5. Paging!CopyVma(x, to, from, v) =
        IF x.ret # "ok" THEN x
        ELSE [m |-> y.m, vmas |-> Paging!insert_vma_struct(x.vmas, v), ret |-> y.ret]
  BY DEF Paging!CopyVma
<1> HIDE DEF y
<1> QED BY <1>3, <1>4, <1>5 DEF Loads, Copies

LEMMA DupMmapKeeps ==
  ASSUME NEW R, NEW n \in Mem(R, {}), NEW to \in R, NEW from, from.pgdir \in R,
         from.vmas \in Seq(Vma)
  PROVE  Paging!dup_mmap(n, to, from) \in Loads(R)
<1> DEFINE S == Loads(R)
           len == Len(from.vmas)
           x0 == [m |-> n, vmas |-> <<>>, ret |-> "ok"]
           W(h) == h = [i \in 0..len |->
                          IF i = 0 THEN x0
                          ELSE Paging!CopyVma(h[i - 1], to, from.pgdir, from.vmas[len - i + 1])]
           c == CHOOSE h : W(h)
           g == [z \in S \X (0..(len - 1)) |->
                   Paging!CopyVma(z[1], to, from.pgdir, from.vmas[len - (z[2] + 1) + 1])]
<1>0. Paging!dup_mmap(n, to, from) = c[len]
  BY DEF Paging!dup_mmap
<1>1. len \in Nat /\ 0 <= len /\ 0 \in Int /\ len \in Int
  BY LenProperties
<1>2. \A i \in 0..(len - 1) : from.vmas[len - (i + 1) + 1] \in Vma
  <2>1. ASSUME NEW i \in 0..(len - 1) PROVE from.vmas[len - (i + 1) + 1] \in Vma
    <3>1. len - (i + 1) + 1 \in 1..len
      BY <1>1
    <3> HIDE DEF x0
    <3> QED BY <3>1, ElementOfSeq
  <2> QED BY <2>1
<1>3. x0 \in S
  <2>1. << >> \in Seq(Vma)
    OBVIOUS
  <2> QED BY <2>1 DEF Loads
<1> HIDE DEF x0, len
<1>4. \A y \in S, i \in 0..(len - 1) :
        Paging!CopyVma(y, to, from.pgdir, from.vmas[len - (i + 1) + 1]) \in S
  BY <1>2, CopyVmaKeeps
<1>5. g \in [S \X (0..(len - 1)) -> S]
  <2> HIDE DEF S
  <2> QED BY <1>4 DEF S
<1>6. W(c)
  <2>1. PICK h \in [0..len -> S] :
          h[0] = x0 /\ \A a \in (0 + 1)..len : h[a] = g[<<h[a - 1], a - 1>>]
    <3> HIDE DEF g, S
    <3>1. Histories(S, 0, len, x0, g) # {}
      BY <1>1, <1>3, <1>5, History
    <3> QED BY <3>1 DEF Histories
  <2> HIDE DEF S
  <2>2. W(h)
    <3>1. ASSUME NEW a \in 1..len
          PROVE  h[a] = Paging!CopyVma(h[a - 1], to, from.pgdir, from.vmas[len - a + 1])
      <4>1. a - 1 \in 0..(len - 1) /\ a - 1 \in 0..len /\ (a - 1) + 1 = a /\ a \in (0 + 1)..len
        BY <1>1
      <4> QED BY <2>1, <4>1
    <3> QED BY <1>1, <2>1, <3>1
  <2> HIDE DEF W
  <2> QED BY <2>2
<1>7. c[len] \in S
  <2> HIDE DEF c, S
  <2>1. c[0] = x0
    BY <1>1, <1>6
  <2>2. \A a \in 0..(len - 1) :
          c[a + 1] = Paging!CopyVma(c[a], to, from.pgdir, from.vmas[len - (a + 1) + 1])
    <3>1. ASSUME NEW a \in 0..(len - 1)
          PROVE  a + 1 \in 0..len /\ a + 1 # 0 /\ (a + 1) - 1 = a
      BY <1>1
    <3> QED BY <1>6, <3>1
  <2>3. \A a \in 0..(len - 1) : c[a] \in S => c[a + 1] \in S
    BY <1>4, <2>2
  <2> QED BY <1>1, <1>3, <2>1, <2>3, Staying
<1> QED BY <1>0, <1>7

-----------------------------------------------------------------------------
(* Who has which directory.                                                *)

OneMm == [pgdir : Paging!Page, vmas : Seq(Vma)]

Roots(M) == {M[p].pgdir : p \in {o \in SpaceProc : M[o] # Paging!NoMm}}

Owners(M) ==
  /\ M \in [SpaceProc -> OneMm \cup {Paging!NoMm}]
  /\ \A p, o \in SpaceProc :
       M[p] # Paging!NoMm /\ M[o] # Paging!NoMm /\ M[p].pgdir = M[o].pgdir => p = o

Without(M, p) == [M EXCEPT ![p] = Paging!NoMm]

LEMMA IsOneMm ==
  ASSUME NEW x \in OneMm
  PROVE  x # Paging!NoMm
BY Sizes DEF OneMm, Paging!NoMm, Paging!Page

LEMMA WithoutKeeps ==
  ASSUME NEW M, Owners(M), NEW p \in SpaceProc
  PROVE  /\ Owners(Without(M, p))
         /\ Without(M, p)[p] = Paging!NoMm
         /\ \A o \in SpaceProc \ {p} : Without(M, p)[o] = M[o]
         /\ M[p] # Paging!NoMm =>
              M[p].pgdir \notin Roots(Without(M, p))
              /\ Roots(M) = Roots(Without(M, p)) \cup {M[p].pgdir}
         /\ M[p] = Paging!NoMm => Without(M, p) = M
<1> DEFINE W == Without(M, p)
<1>1. /\ W \in [SpaceProc -> OneMm \cup {Paging!NoMm}]
      /\ W[p] = Paging!NoMm /\ \A o \in SpaceProc \ {p} : W[o] = M[o]
      /\ M[p] = Paging!NoMm => W = M
  BY DEF Without, Owners
<1> HIDE DEF W
<1>2. Owners(W)
  BY <1>1 DEF Owners
<1>3. ASSUME M[p] # Paging!NoMm
      PROVE  M[p].pgdir \notin Roots(W) /\ Roots(M) = Roots(W) \cup {M[p].pgdir}
  <2>1. M[p].pgdir \notin Roots(W)
    <3> SUFFICES ASSUME NEW o \in SpaceProc, W[o] # Paging!NoMm, W[o].pgdir = M[p].pgdir
                 PROVE  FALSE
      BY DEF Roots
    <3>1. o # p /\ W[o] = M[o]
      BY <1>1
    <3> QED BY <1>3, <3>1 DEF Owners
  <2>2. Roots(M) \subseteq Roots(W) \cup {M[p].pgdir}
    <3> SUFFICES ASSUME NEW o \in SpaceProc, M[o] # Paging!NoMm, o # p
                 PROVE  M[o].pgdir \in Roots(W)
      BY DEF Roots
    <3>1. W[o] = M[o]
      BY <1>1
    <3> QED BY <3>1 DEF Roots
  <2>3. Roots(W) \cup {M[p].pgdir} \subseteq Roots(M)
    <3>1. M[p].pgdir \in Roots(M)
      BY <1>3 DEF Roots
    <3>2. ASSUME NEW o \in SpaceProc, W[o] # Paging!NoMm
          PROVE  W[o].pgdir \in Roots(M)
      <4>1. W[o] = M[o]
        BY <1>1, <3>2
      <4> QED BY <3>2, <4>1 DEF Roots
    <3> QED BY <3>1, <3>2 DEF Roots
  <2> QED BY <2>1, <2>2, <2>3
<1> QED BY <1>1, <1>2, <1>3 DEF W

(* In A, a process has x and the others have what they had without it.     *)
Gets(A, M, p, x) == Owners(A) /\ Roots(A) = Roots(Without(M, p)) \cup {x.pgdir}

LEMMA WithKeeps ==
  ASSUME NEW M, Owners(M), NEW p \in SpaceProc, NEW x \in OneMm,
         x.pgdir \notin Roots(Without(M, p))
  PROVE  Gets([M EXCEPT ![p] = x], M, p, x)
<1> DEFINE Y == [M EXCEPT ![p] = x]
           W == Without(M, p)
<1>1. /\ Y \in [SpaceProc -> OneMm \cup {Paging!NoMm}]
      /\ Y[p] = x /\ \A o \in SpaceProc \ {p} : Y[o] = M[o]
  BY DEF Owners
<1>2. /\ W[p] = Paging!NoMm /\ \A o \in SpaceProc \ {p} : W[o] = M[o]
  BY WithoutKeeps
<1>3. x # Paging!NoMm
  BY IsOneMm
<1> HIDE DEF Y, W
<1>4. ASSUME NEW o \in SpaceProc \ {p}, Y[o] # Paging!NoMm
      PROVE  Y[o] = W[o] /\ Y[o].pgdir \in Roots(W) /\ Y[o].pgdir # x.pgdir
  BY <1>1, <1>2, <1>4 DEF Roots, W
<1>5. Owners(Y)
  <2> SUFFICES ASSUME NEW a \in SpaceProc, NEW b \in SpaceProc,
                      Y[a] # Paging!NoMm, Y[b] # Paging!NoMm, Y[a].pgdir = Y[b].pgdir
               PROVE  a = b
    BY <1>1 DEF Owners
  <2>1. CASE a = p \/ b = p
    BY <1>1, <1>4, <2>1
  <2>2. CASE a # p /\ b # p
    <3>1. Y[a] = M[a] /\ Y[b] = M[b]
      BY <1>1, <2>2
    <3> QED BY <3>1 DEF Owners
  <2> QED BY <2>1, <2>2
<1>6. Roots(Y) \subseteq Roots(W) \cup {x.pgdir}
  BY <1>1, <1>4 DEF Roots
<1>7. Roots(W) \cup {x.pgdir} \subseteq Roots(Y)
  <2>1. x.pgdir \in Roots(Y)
    BY <1>1, <1>3 DEF Roots
  <2>2. ASSUME NEW o \in SpaceProc, W[o] # Paging!NoMm
        PROVE  W[o].pgdir \in Roots(Y)
    <3>1. Y[o] = W[o]
      BY <1>1, <1>2, <2>2
    <3> QED BY <2>2, <3>1 DEF Roots
  <2> QED BY <2>1, <2>2 DEF Roots
<1> QED BY <1>5, <1>6, <1>7 DEF Y, W, Gets

(* What a process stores is no entry of a table.                           *)
LEMMA WordsKeep ==
  ASSUME NEW R, NEW n \in Mem(R, {}), NEW wo \in [Paging!Page -> Word \cup {-1}]
  PROVE  [n EXCEPT !.word = wo] \in Mem(R, {})
<1> DEFINE x == [n EXCEPT !.word = wo]
<1>1. PICK A, B : n \in Memory /\ Tables(n, R, A, B, {})
  BY DEF Mem
<1>2. x \in Memory /\ x.free = n.free /\ x.ref = n.ref /\ x.ent = n.ent
  BY <1>1 DEF Memory
<1> HIDE DEF x
<1>3. Tables(x, R, A, B, {})
  BY <1>1, <1>2 DEF Tables, Apart, Levels, OneEach, At
<1> QED BY <1>2, <1>3 DEF Mem, x

-----------------------------------------------------------------------------
(* The inductive invariant of Paging: the directories of the processes,    *)
(* and the tables below them, are the only ones.                           *)
SpacesInv ==
  panic = "no" =>
    /\ Owners(mm) /\ m \in Mem(Roots(mm), {})
    /\ alive \subseteq SpaceProc
    /\ \A p \in SpaceProc : p \notin alive => mm[p] = Paging!NoMm

LEMMA SpacesInit == Paging!Init => SpacesInv
<1> SUFFICES ASSUME Paging!Init PROVE SpacesInv
  OBVIOUS
<1>1. /\ m = [free |-> Paging!Page, ref |-> [q \in Paging!Page |-> 0],
              ent |-> [q \in Paging!Page |-> Paging!Dirty], word |-> [q \in Paging!Page |-> -1]]
      /\ mm = [p \in SpaceProc |-> Paging!NoMm]
      /\ \E p \in SpaceProc : alive = {p}
  BY DEF Paging!Init
<1>2. Owners(mm) /\ Roots(mm) = {}
  BY <1>1 DEF Owners, Roots
<1>3. m \in Memory
  BY <1>1, Blank DEF Memory
<1>4. Tables(m, {}, {}, {}, {})
  BY DEF Tables, Apart, Levels, OneEach
<1>5. m \in Mem({}, {})
  BY <1>3, <1>4 DEF Mem
<1> QED BY <1>1, <1>2, <1>5 DEF SpacesInv

(* The memory of p is gone.                                                *)
LEMMA GoneKeeps ==
  ASSUME Owners(mm), m \in Mem(Roots(mm), {}), NEW p \in SpaceProc
  PROVE  Paging!Gone(m, p) \in Mem(Roots(Without(mm, p)), {})
<1>1. CASE mm[p] = Paging!NoMm
  <2>1. Without(mm, p) = mm
    BY <1>1, WithoutKeeps
  <2> QED BY <1>1, <2>1 DEF Paging!Gone
<1>2. CASE mm[p] # Paging!NoMm
  <2> DEFINE R == Roots(Without(mm, p))
             q == mm[p].pgdir
  <2>1. q \notin R /\ m \in Mem(R \cup {q}, {})
    BY <1>2, WithoutKeeps
  <2>2. mm[p].vmas \in Seq(Vma)
    BY <1>2 DEF Owners, OneMm
  <2> HIDE DEF R
  <2>3. Paging!exit_mmap(m, mm[p]) \in Mem(R, {})
    BY <2>1, <2>2, ExitMmapKeeps
  <2> QED BY <1>2, <2>3 DEF Paging!Gone, R
<1> QED BY <1>1, <1>2

(* An address space that was made, or was not.                             *)
LEMMA EndsKeeps ==
  ASSUME Owners(mm), NEW p \in SpaceProc, NEW q \in Paging!Page,
         q \notin Roots(Without(mm, p)),
         NEW x \in Loads(Roots(Without(mm, p)) \cup {q}), Paging!Ends(p, q, x),
         alive \subseteq SpaceProc,
         \A o \in SpaceProc : o \notin alive => mm[o] = Paging!NoMm
  PROVE  SpacesInv'
<1> DEFINE R   == Roots(Without(mm, p))
           new == [pgdir |-> q, vmas |-> x.vmas]
<1>1. /\ new \in OneMm /\ new.pgdir = q /\ new.vmas \in Seq(Vma)
      /\ x.m \in Mem(R \cup {q}, {}) /\ x.ret \in {"ok", "nomem", "panic", "inval"}
  BY DEF Loads, OneMm
<1>2. /\ x.ret = "panic" => panic' # "no"
      /\ m' = IF x.ret \in {"ok", "panic"} THEN x.m ELSE Paging!exit_mmap(x.m, new)
      /\ mm' = [mm EXCEPT ![p] = IF x.ret = "ok" THEN new ELSE Paging!NoMm]
      /\ alive' = IF x.ret = "nomem" \/ x.ret = "inval" THEN alive \ {p} ELSE alive \cup {p}
  BY DEF Paging!Ends
<1> HIDE DEF new
<1>3. CASE x.ret = "ok"
  <2>1. m' = x.m /\ mm' = [mm EXCEPT ![p] = new] /\ alive' = alive \cup {p}
    BY <1>2, <1>3
  <2>2. Owners(mm') /\ Roots(mm') = R \cup {q}
    <3>1. p \in SpaceProc /\ Owners(mm) /\ new \in OneMm /\ new.pgdir \notin Roots(Without(mm, p))
      BY <1>1
    <3>2. Gets([mm EXCEPT ![p] = new], mm, p, new)
      BY ONLY <3>1, WithKeeps, Zenon
    <3>3. Gets(mm', mm, p, new)
      BY ONLY <2>1, <3>2
    <3> QED BY ONLY <1>1, <3>3 DEF Gets
  <2>3. \A o \in SpaceProc : o \notin alive' => mm'[o] = Paging!NoMm
    BY <2>1 DEF Owners
  <2> QED BY <1>1, <2>1, <2>2, <2>3 DEF SpacesInv
<1>4. CASE x.ret \in {"nomem", "inval"}
  <2>1. m' = Paging!exit_mmap(x.m, new) /\ mm' = Without(mm, p) /\ alive' = alive \ {p}
    BY <1>2, <1>4 DEF Without
  <2>2. /\ Owners(mm') /\ mm'[p] = Paging!NoMm
        /\ \A o \in SpaceProc \ {p} : mm'[o] = mm[o]
    BY <2>1, WithoutKeeps
  <2>3. m' \in Mem(R, {})
    <3> HIDE DEF R
    <3> QED BY <1>1, <2>1, ExitMmapKeeps DEF R
  <2> QED BY <2>1, <2>2, <2>3 DEF SpacesInv
<1>5. CASE x.ret = "panic"
  BY <1>2, <1>5 DEF SpacesInv
<1> QED BY <1>1, <1>3, <1>4, <1>5

LEMMA NoPgdirKeeps ==
  ASSUME Owners(mm), NEW p \in SpaceProc, NEW n \in Mem(Roots(Without(mm, p)), {}),
         Paging!NoPgdir(p, n), alive \subseteq SpaceProc,
         \A o \in SpaceProc : o \notin alive => mm[o] = Paging!NoMm
  PROVE  SpacesInv'
<1>1. m' = n /\ mm' = Without(mm, p) /\ alive' = alive \ {p}
  BY DEF Paging!NoPgdir, Without
<1>2. /\ Owners(mm') /\ mm'[p] = Paging!NoMm
      /\ \A o \in SpaceProc \ {p} : mm'[o] = mm[o]
  BY <1>1, WithoutKeeps
<1> QED BY <1>1, <1>2 DEF SpacesInv

LEMMA SpacesStep == SpacesInv /\ [Paging!Next]_paging => SpacesInv'
<1> SUFFICES ASSUME SpacesInv, [Paging!Next]_paging PROVE SpacesInv'
  OBVIOUS
<1>1. CASE UNCHANGED paging
  BY <1>1 DEF SpacesInv, paging
<1>2. CASE Paging!Next
  <2>0. PICK p \in SpaceProc :
          \/ \E image \in Images : Paging!Exec(p, image)
          \/ \E o \in SpaceProc : Paging!Fork(p, o)
          \/ Paging!Exit(p)
          \/ \E la \in Paging!Addr, w \in Word : Paging!Store(p, la, w)
          \/ \E lo \in Paging!Addr, hi \in Int :
               \/ Paging!copy_from_user(p, lo, hi)
               \/ \E w \in Word : Paging!copy_to_user(p, lo, hi, w)
    <3>1. \A lo \in Paging!Addr :
            (lo + 1)..Paging!Min({lo + MaxCopy, Paging!USERTOP}) \subseteq Int
      BY DEF Paging!Addr
    <3> QED BY <1>2, <3>1 DEF Paging!Next
  <2>1. panic = "no"
    BY <2>0 DEF Paging!Exec, Paging!Fork, Paging!Exit, Paging!Store, Paging!Checked,
                Paging!copy_from_user, Paging!copy_to_user
  <2>2. /\ Owners(mm) /\ m \in Mem(Roots(mm), {}) /\ alive \subseteq SpaceProc
        /\ \A o \in SpaceProc : o \notin alive => mm[o] = Paging!NoMm
    BY <2>1 DEF SpacesInv
  <2>3. ASSUME NEW image \in Images, Paging!Exec(p, image) PROVE SpacesInv'
    <3> DEFINE n == Paging!Gone(m, p)
               R == Roots(Without(mm, p))
    <3>1. n \in Mem(R, {})
      BY <2>2, GoneKeeps
    <3>2. \/ n.free = {} /\ Paging!NoPgdir(p, n)
          \/ n.free # {} /\ Paging!Ends(p, Paging!Next_page(n), Paging!load_icode(n, image))
      BY <2>3 DEF Paging!Exec, Paging!None
    <3> HIDE DEF n
    <3>3. CASE n.free = {} /\ Paging!NoPgdir(p, n)
      BY <2>2, <3>1, <3>3, NoPgdirKeeps
    <3>4. CASE n.free # {} /\ Paging!Ends(p, Paging!Next_page(n), Paging!load_icode(n, image))
      <4> DEFINE q == Paging!Next_page(n)
                 x == Paging!load_icode(n, image)
      <4>1. q \in Paging!Page /\ q \notin R
        <5> HIDE DEF R
        <5> QED BY <3>1, <3>4, TakeKeeps
      <4>2. x \in Loads(R \cup {q})
        <5> HIDE DEF R
        <5> QED BY <3>1, <3>4, LoadIcodeKeeps
      <4>3. Paging!Ends(p, q, x)
        BY <3>4
      <4> HIDE DEF q, x
      <4> QED BY <2>2, <4>1, <4>2, <4>3, EndsKeeps
    <3> QED BY <3>2, <3>3, <3>4
  <2>4. ASSUME NEW o \in SpaceProc, Paging!Fork(p, o) PROVE SpacesInv'
    <3>1. p \in alive /\ o \notin alive /\ mm[o] = Paging!NoMm
      BY <2>2, <2>4 DEF Paging!Fork
    <3>2. Without(mm, o) = mm
      BY <2>2, <3>1, WithoutKeeps
    <3>3. CASE mm[p] = Paging!NoMm
      <4>1. alive' = alive \cup {o} /\ UNCHANGED <<m, mm, panic>>
        BY <2>4, <3>3 DEF Paging!Fork
      <4> QED BY <2>2, <4>1 DEF SpacesInv
    <3>4. CASE mm[p] # Paging!NoMm /\ m.free = {}
      <4>1. Paging!NoPgdir(o, m)
        BY <2>4, <3>4 DEF Paging!Fork, Paging!None
      <4> QED BY <2>2, <3>2, <4>1, NoPgdirKeeps
    <3>5. CASE mm[p] # Paging!NoMm /\ m.free # {}
      <4> DEFINE R == Roots(mm)
                 q == Paging!Next_page(m)
                 n == Paging!setup_pgdir(m)
                 x == Paging!dup_mmap(n, q, mm[p])
      <4>1. Paging!Ends(o, q, x)
        BY <2>4, <3>5 DEF Paging!Fork, Paging!None
      <4>2. q \in Paging!Page /\ q \notin R /\ n \in Mem(R \cup {q}, {})
        BY <2>2, <3>5, TakeKeeps
      <4>3. mm[p].pgdir \in R /\ mm[p].vmas \in Seq(Vma)
        BY <2>2, <3>5 DEF Owners, OneMm, Roots
      <4>4. x \in Loads(R \cup {q})
        <5>1. q \in R \cup {q} /\ mm[p].pgdir \in R \cup {q}
          BY <4>3
        <5> HIDE DEF R, q, n
        <5> QED BY <4>2, <4>3, <5>1, DupMmapKeeps
      <4> HIDE DEF q, x
      <4> QED BY <2>2, <3>2, <4>1, <4>2, <4>4, EndsKeeps
    <3> QED BY <3>3, <3>4, <3>5
  <2>5. ASSUME Paging!Exit(p) PROVE SpacesInv'
    <3>1. m' = Paging!Gone(m, p) /\ mm' = Without(mm, p) /\ alive' = alive \ {p}
      BY <2>5 DEF Paging!Exit, Without
    <3>2. /\ Owners(mm') /\ mm'[p] = Paging!NoMm
          /\ \A o \in SpaceProc \ {p} : mm'[o] = mm[o]
      BY <2>2, <3>1, WithoutKeeps
    <3>3. m' \in Mem(Roots(mm'), {})
      BY <2>2, <3>1, GoneKeeps
    <3> QED BY <2>2, <3>1, <3>2, <3>3 DEF SpacesInv
  <2>6. ASSUME NEW wo \in [Paging!Page -> Word \cup {-1}], m' = [m EXCEPT !.word = wo],
               UNCHANGED <<mm, alive>>
        PROVE  SpacesInv'
    <3>1. m' \in Mem(Roots(mm'), {})
      BY <2>2, <2>6, WordsKeep
    <3> QED BY <2>2, <2>6, <3>1 DEF SpacesInv
  <2>7. m.word \in [Paging!Page -> Word \cup {-1}] /\ m \in Memory
    BY <2>2 DEF Mem, Memory
  <2>8. ASSUME NEW la \in Paging!Addr, NEW w \in Word, Paging!Store(p, la, w)
        PROVE  SpacesInv'
    <3> DEFINE e  == Paging!get_page(m, mm[p].pgdir, la)
               wo == [m.word EXCEPT ![e.page] = w]
    <3>1. m' = [m EXCEPT !.word[e.page] = w] /\ UNCHANGED <<mm, alive>>
      BY <2>8 DEF Paging!Store
    <3> HIDE DEF e
    <3>2. wo \in [Paging!Page -> Word \cup {-1}] /\ m' = [m EXCEPT !.word = wo]
      BY <2>7, <3>1 DEF Memory
    <3> HIDE DEF wo
    <3> QED BY <2>6, <3>1, <3>2
  <2>9. ASSUME NEW lo \in Paging!Addr, NEW hi \in Int, Paging!copy_from_user(p, lo, hi)
        PROVE  SpacesInv'
    <3>1. UNCHANGED <<m, mm, alive>>
      BY <2>9 DEF Paging!copy_from_user, Paging!Checked
    <3> QED BY <2>2, <3>1 DEF SpacesInv
  <2>10. ASSUME NEW lo \in Paging!Addr, NEW hi \in Int, NEW w \in Word,
                Paging!copy_to_user(p, lo, hi, w)
         PROVE  SpacesInv'
    <3>1. PICK stored : m' = [m EXCEPT !.word =
                                [r \in Paging!Page |-> IF r \in stored THEN w ELSE @[r]]]
      BY <2>10 DEF Paging!copy_to_user
    <3> DEFINE wo == [r \in Paging!Page |-> IF r \in stored THEN w ELSE m.word[r]]
    <3>2. wo \in [Paging!Page -> Word \cup {-1}] /\ m' = [m EXCEPT !.word = wo]
      BY <2>7, <3>1 DEF Memory
    <3>3. UNCHANGED <<mm, alive>>
      BY <2>10 DEF Paging!copy_to_user, Paging!Checked
    <3> HIDE DEF wo
    <3> QED BY <2>6, <3>2, <3>3
  <2> QED BY <2>0, <2>3, <2>4, <2>5, <2>8, <2>9, <2>10
<1> QED BY <1>1, <1>2

(* What is below a directory is an entry of a table of one of three kinds, *)
(* each of which has the one entry above it.                               *)
LEMMA EntriesAre ==
  ASSUME NEW t, NEW e \in Paging!Entries(t)
  PROVE  /\ e = <<e[1], e[2], e[3]>> /\ e[1] = t /\ e[2] \in Paging!Index
         /\ e[3] = At(m, t, e[2]) /\ e[3] # 0
BY DEF Paging!Entries, At

LEMMA BelowAre ==
  ASSUME NEW T, NEW e \in Paging!Below(T)
  PROVE  \E f \in T : e \in Paging!Entries(f[3])
BY DEF Paging!Below

LEMMA EdgesAre ==
  ASSUME NEW A, NEW B, Owners(mm), Tables(m, Roots(mm), A, B, {}),
         NEW p \in SpaceProc, NEW e \in Paging!Edges(p)
  PROVE  /\ mm[p] # Paging!NoMm
         /\ e = <<e[1], e[2], e[3]>> /\ e[2] \in Paging!Index
         /\ e[3] = At(m, e[1], e[2]) /\ e[3] # 0
         /\ \/ e[1] = mm[p].pgdir /\ e[3] \in A
            \/ \E f : /\ f \in Paging!Edges(p) /\ f[1] = mm[p].pgdir /\ f[3] = e[1]
                      /\ e[1] \in A /\ e[3] \in B
            \/ \E f : /\ f \in Paging!Edges(p) /\ f[1] \in A /\ f[3] = e[1]
                      /\ e[1] \in B /\ e[3] \notin m.free \cup Roots(mm) \cup A \cup B
<1> DEFINE one   == Paging!Entries(mm[p].pgdir)
           two   == Paging!Below(one)
           three == Paging!Below(two)
           q     == mm[p].pgdir
<1>1. mm[p] # Paging!NoMm /\ Paging!Edges(p) = one \cup two \cup three
  BY DEF Paging!Edges
<1>2. q \in Roots(mm)
  BY <1>1 DEF Roots
<1>3. ASSUME NEW f \in one
      PROVE  /\ f = <<f[1], f[2], f[3]>> /\ f[2] \in Paging!Index
             /\ f[3] = At(m, f[1], f[2]) /\ f[3] # 0 /\ f[1] = q /\ f[3] \in A
  <2>1. /\ f = <<f[1], f[2], f[3]>> /\ f[1] = q /\ f[2] \in Paging!Index
        /\ f[3] = At(m, q, f[2]) /\ f[3] # 0
    BY EntriesAre
  <2> HIDE DEF q
  <2> QED BY <1>2, <2>1 DEF Tables, Levels
<1> HIDE DEF one
<1>4. ASSUME NEW f \in two
      PROVE  /\ f = <<f[1], f[2], f[3]>> /\ f[2] \in Paging!Index
             /\ f[3] = At(m, f[1], f[2]) /\ f[3] # 0 /\ f[1] \in A /\ f[3] \in B
             /\ \E h \in one : h[3] = f[1]
  <2>1. PICK h \in one : f \in Paging!Entries(h[3])
    BY BelowAre
  <2>2. /\ f = <<f[1], f[2], f[3]>> /\ f[1] = h[3] /\ f[2] \in Paging!Index
        /\ f[3] = At(m, h[3], f[2]) /\ f[3] # 0
    BY <2>1, EntriesAre
  <2> HIDE DEF q
  <2> QED BY <1>3, <2>2 DEF Tables, Levels
<1> HIDE DEF two
<1>5. ASSUME NEW f \in three
      PROVE  /\ f = <<f[1], f[2], f[3]>> /\ f[2] \in Paging!Index
             /\ f[3] = At(m, f[1], f[2]) /\ f[3] # 0 /\ f[1] \in B
             /\ f[3] \notin m.free \cup Roots(mm) \cup A \cup B
             /\ \E h \in two : h[3] = f[1]
  <2>1. PICK h \in two : f \in Paging!Entries(h[3])
    BY BelowAre
  <2>2. /\ f = <<f[1], f[2], f[3]>> /\ f[1] = h[3] /\ f[2] \in Paging!Index
        /\ f[3] = At(m, h[3], f[2]) /\ f[3] # 0
    BY <2>1, EntriesAre
  <2> HIDE DEF q
  <2> QED BY <1>4, <2>2 DEF Tables, Levels
<1> HIDE DEF three, q
<1>6. CASE e \in one
  BY <1>1, <1>3, <1>6 DEF q
<1>7. CASE e \in two
  <2>1. PICK h \in one : h[3] = e[1]
    BY <1>4, <1>7
  <2>2. h \in Paging!Edges(p) /\ h[1] = mm[p].pgdir
    BY <1>1, <1>3 DEF q
  <2> QED BY <1>1, <1>4, <1>7, <2>1, <2>2
<1>8. CASE e \in three
  <2>1. PICK h \in two : h[3] = e[1]
    BY <1>5, <1>8
  <2>2. h \in Paging!Edges(p) /\ h[1] \in A
    BY <1>1, <1>4
  <2> QED BY <1>1, <1>5, <1>8, <2>1, <2>2
<1> QED BY <1>1, <1>6, <1>7, <1>8

LEMMA SpacesOwned == SpacesInv => Paging!PagesOwned
<1> SUFFICES ASSUME SpacesInv, panic = "no" PROVE Paging!PagesOwned
  BY DEF Paging!PagesOwned
<1>1. Owners(mm) /\ m \in Mem(Roots(mm), {})
  BY DEF SpacesInv
<1>2. PICK A, B : Tables(m, Roots(mm), A, B, {})
  BY <1>1 DEF Mem
<1> DEFINE R == Roots(mm)
           T == R \cup A \cup B
<1>3. /\ R \cap m.free = {} /\ A \cap m.free = {} /\ B \cap m.free = {}
      /\ R \cap A = {} /\ R \cap B = {} /\ A \cap B = {}
  BY <1>2 DEF Tables, Apart
<1>4. \A p \in SpaceProc : mm[p] # Paging!NoMm => mm[p].pgdir \in R
  BY DEF Roots
(* The target of an edge is no directory, is not free, and is counted once. *)
<1>5. ASSUME NEW p \in SpaceProc, NEW e \in Paging!Edges(p)
      PROVE  /\ e[1] \in T /\ e[2] \in Paging!Index /\ e[3] = At(m, e[1], e[2]) /\ e[3] # 0
             /\ e[3] \notin m.free /\ e[3] \notin R /\ m.ref[e[3]] = 1
  <2>1. /\ mm[p] # Paging!NoMm /\ e[2] \in Paging!Index
        /\ e[3] = At(m, e[1], e[2]) /\ e[3] # 0
        /\ \/ e[1] = mm[p].pgdir /\ e[3] \in A
           \/ e[1] \in A /\ e[3] \in B
           \/ e[1] \in B /\ e[3] \notin m.free \cup R \cup A \cup B
    BY <1>1, <1>2, EdgesAre
  <2>2. e[1] \in T /\ e[3] \notin m.free /\ e[3] \notin R
    BY <1>3, <1>4, <2>1
  <2> HIDE DEF R
  <2>3. OneEach(m, T)
    BY <1>2 DEF Tables, R
  <2> HIDE DEF T
  <2> QED BY <2>1, <2>2, <2>3 DEF OneEach
(* An edge is known by its target, whoever has it.                         *)
<1>6. ASSUME NEW p \in SpaceProc, NEW o \in SpaceProc,
             NEW e \in Paging!Edges(p), NEW f \in Paging!Edges(o), e[3] = f[3]
      PROVE  e = f
  <2>1. e = <<e[1], e[2], e[3]>> /\ f = <<f[1], f[2], f[3]>>
    BY <1>1, <1>2, EdgesAre
  <2>2. /\ e[1] \in T /\ e[2] \in Paging!Index /\ e[3] = At(m, e[1], e[2]) /\ e[3] # 0
        /\ f[1] \in T /\ f[2] \in Paging!Index /\ f[3] = At(m, f[1], f[2])
    BY <1>5
  <2>3. OneEach(m, T)
    BY <1>2 DEF Tables
  <2> HIDE DEF T
  <2>4. e[1] = f[1] /\ e[2] = f[2]
    <3>1. At(m, f[1], f[2]) = At(m, e[1], e[2]) /\ At(m, e[1], e[2]) # 0
      BY <1>6, <2>2
    <3>2. e[1] \in T /\ f[1] \in T /\ e[2] \in Paging!Index /\ f[2] \in Paging!Index
      BY <2>2
    <3> DEFINE t == e[1]
               i == e[2]
               u == f[1]
               j == f[2]
    <3> HIDE DEF t, i, u, j
    <3>3. /\ t \in T /\ u \in T /\ i \in Paging!Index /\ j \in Paging!Index
          /\ At(m, u, j) = At(m, t, i) /\ At(m, t, i) # 0
      BY <3>1, <3>2 DEF t, i, u, j
    <3>4. u = t /\ j = i
      BY <2>3, <3>3 DEF OneEach
    <3> QED BY <3>4 DEF t, i, u, j
  <2> QED BY <1>6, <2>1, <2>4
(* Who has an edge is whose directory is above it.                         *)
<1>7. ASSUME NEW p \in SpaceProc, NEW o \in SpaceProc, NEW e,
             e \in Paging!Edges(p), e \in Paging!Edges(o)
      PROVE  p = o
  <2>1. ASSUME NEW a \in SpaceProc, NEW h \in Paging!Edges(a)
        PROVE  /\ mm[a] # Paging!NoMm
               /\ \/ h[1] = mm[a].pgdir
                  \/ \E f : f \in Paging!Edges(a) /\ f[1] = mm[a].pgdir /\ f[3] = h[1]
                            /\ h[1] \in A
                  \/ \E f : f \in Paging!Edges(a) /\ f[1] \in A /\ f[3] = h[1] /\ h[1] \in B
    BY <1>1, <1>2, EdgesAre
  <2>2. \A a \in SpaceProc, b \in SpaceProc :
          mm[a] # Paging!NoMm /\ mm[b] # Paging!NoMm /\ mm[a].pgdir = mm[b].pgdir => a = b
    BY <1>1 DEF Owners
  <2> HIDE DEF R, T
  <2>3. ASSUME NEW a \in SpaceProc, NEW b \in SpaceProc, NEW h,
               h \in Paging!Edges(a), h \in Paging!Edges(b), h[1] \in R
        PROVE  a = b
    BY <1>3, <2>1, <2>2, <2>3
  <2>4. ASSUME NEW a \in SpaceProc, NEW b \in SpaceProc, NEW h,
               h \in Paging!Edges(a), h \in Paging!Edges(b), h[1] \in A
        PROVE  a = b
    <3>1. h[1] # mm[a].pgdir /\ h[1] # mm[b].pgdir
      BY <1>3, <1>4, <2>1, <2>4
    <3>2. PICK f : f \in Paging!Edges(a) /\ f[1] = mm[a].pgdir /\ f[3] = h[1]
      BY <1>3, <2>1, <2>4, <3>1
    <3>3. PICK u : u \in Paging!Edges(b) /\ u[1] = mm[b].pgdir /\ u[3] = h[1]
      BY <1>3, <2>1, <2>4, <3>1
    <3>4. f = u
      BY <1>6, <3>2, <3>3
    <3>5. f[1] \in R
      BY <1>4, <2>1, <3>2
    <3> QED BY <2>3, <3>2, <3>3, <3>4, <3>5
  <2>5. ASSUME e[1] \in B PROVE p = o
    <3>1. e[1] # mm[p].pgdir /\ e[1] # mm[o].pgdir /\ e[1] \notin A
      BY <1>3, <1>4, <1>7, <2>1, <2>5
    <3>2. PICK f : f \in Paging!Edges(p) /\ f[1] \in A /\ f[3] = e[1]
      BY <1>7, <2>1, <3>1
    <3>3. PICK u : u \in Paging!Edges(o) /\ u[1] \in A /\ u[3] = e[1]
      BY <1>7, <2>1, <3>1
    <3>4. f = u
      BY <1>6, <3>2, <3>3
    <3> QED BY <2>4, <3>2, <3>3, <3>4
  <2>6. e[1] \in R \/ e[1] \in A \/ e[1] \in B
    BY <1>5, <1>7 DEF T
  <2> QED BY <1>7, <2>3, <2>4, <2>5, <2>6
<1>8. ASSUME NEW p \in SpaceProc, mm[p] # Paging!NoMm
      PROVE  Paging!Owned(p) = {mm[p].pgdir} \cup {e[3] : e \in Paging!Edges(p)}
  BY <1>8 DEF Paging!Owned
<1>9. \A p \in SpaceProc : mm[p] = Paging!NoMm => Paging!Owned(p) = {} /\ Paging!Edges(p) = {}
  BY DEF Paging!Owned, Paging!Edges
<1> HIDE DEF R, T
<1>10. ASSUME NEW p \in SpaceProc PROVE Paging!Owned(p) \cap m.free = {}
  <2>1. CASE mm[p] # Paging!NoMm
    BY <1>3, <1>4, <1>5, <1>8, <2>1
  <2> QED BY <1>9, <2>1
<1>11. ASSUME NEW p \in SpaceProc, NEW o \in SpaceProc \ {p}
       PROVE  Paging!Owned(p) \cap Paging!Owned(o) = {}
  <2>1. CASE mm[p] # Paging!NoMm /\ mm[o] # Paging!NoMm
    <3> SUFFICES ASSUME NEW q, q \in Paging!Owned(p), q \in Paging!Owned(o) PROVE FALSE
      OBVIOUS
    <3>1. q = mm[p].pgdir \/ \E e \in Paging!Edges(p) : e[3] = q
      BY <1>8, <2>1
    <3>2. q = mm[o].pgdir \/ \E e \in Paging!Edges(o) : e[3] = q
      BY <1>8, <2>1
    <3>3. mm[p].pgdir # mm[o].pgdir
      BY <1>1, <2>1 DEF Owners
    <3>4. mm[p].pgdir \in R /\ mm[o].pgdir \in R
      BY <1>4, <2>1
    <3>5. PICK e \in Paging!Edges(p) : e[3] = q
      BY <1>5, <3>1, <3>2, <3>3, <3>4
    <3>6. PICK f \in Paging!Edges(o) : f[3] = q
      BY <1>5, <3>1, <3>2, <3>3, <3>4
    <3>7. e = f
      BY <1>6, <3>5, <3>6
    <3> QED BY <1>7, <3>5, <3>6, <3>7
  <2>2. CASE mm[p] = Paging!NoMm \/ mm[o] = Paging!NoMm
    BY <1>9, <2>2
  <2> QED BY <2>1, <2>2
<1>12. ASSUME NEW p \in SpaceProc, NEW e \in Paging!Edges(p)
       PROVE  /\ m.ref[e[3]] = 1 /\ e[3] # mm[p].pgdir
              /\ \A f \in Paging!Edges(p) : f[3] = e[3] => f = e
  <2>1. mm[p].pgdir \in R
    BY <1>4, <1>9
  <2> QED BY <1>5, <1>6, <2>1
<1> QED BY <1>10, <1>11, <1>12 DEF Paging!PagesOwned

(* The invariant holds of all the systems together.                        *)
THEOREM SpacesInvHolds == AllSpec => []SpacesInv
<1>1. AllInit => SpacesInv
  BY SpacesInit DEF AllInit
<1>2. SpacesInv /\ [AllNext]_<<system, pmm, slob, slub, paging, vars>> => SpacesInv'
  <2> SUFFICES ASSUME SpacesInv, [AllNext]_<<system, pmm, slob, slub, paging, vars>>
               PROVE  SpacesInv'
    OBVIOUS
  <2>1. UNCHANGED paging \/ Paging!Next
    BY DEF AllNext
  <2> QED BY <2>1, SpacesStep
<1> QED BY <1>1, <1>2, PTL DEF AllSpec

(* PagesOwned (mm/pmm.c, mm/vmm.c, process/proc.c of lab8): a page that is *)
(* mapped is not free and belongs to one process, in one place, and its    *)
(* counter says so, whatever the sizes of tables and of memory, however    *)
(* many processes fork, exec and exit, and at whichever page they fail.    *)
THEOREM PagesOwnedHolds == AllSpec => []PagesOwned
<1>1. SpacesInv => PagesOwned
  BY SpacesOwned DEF PagesOwned
<1> QED BY <1>1, SpacesInvHolds, PTL
=============================================================================

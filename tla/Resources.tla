------------------------------ MODULE Resources ------------------------------
(***************************************************************************)
(* What a process of lab8 holds in memory, and what do_fork, do_execve     *)
(* with load_icode, do_exit and do_wait (process/proc.c) take and give     *)
(* back, when allocations fail and programs are missing or no ELF files.   *)
(*                                                                         *)
(* One step is one allocation or one label of the clean-up code.  The      *)
(* kernel does not preempt itself: the call of one process ends before     *)
(* another process makes one, so one child, one program and one pc serve   *)
(* all of them.  Whose child a process is makes no difference here: who is *)
(* a zombie will be waited for, by its parent or by init (module Process). *)
(***************************************************************************)
EXTENDS Naturals, FiniteSets

CONSTANTS
  Proc,      \* the slots for proc_structs
  InitProc,  \* initproc, a kernel thread: it has no mm
  FailAt,    \* the objects whose allocation may fail
  Programs,  \* what is executed: some of "missing", "good", and "bad": what
             \* load_icode may find fault with at any of its checks
  Headers,   \* bound of the model: the program headers of an ELF file
  MaxLeak    \* bound of the model: the objects that may be lost

(* An image stands for the vmas of an mm, their page tables and pages; ph  *)
(* for the program headers that load_icode reads.                          *)
Object == {"proc", "kstack", "mm", "pgdir", "image", "files", "ph"}
Space  == {"mm", "pgdir", "image"}

ASSUME ResourcesAssumption ==
  /\ IsFiniteSet(Proc) /\ InitProc \in Proc
  /\ FailAt \subseteq Object
  /\ Programs \subseteq {"missing", "bad", "good"}
  /\ Headers \in Nat \ {0} /\ MaxLeak \in Nat

VARIABLES
  state,    \* "none", "live", "zombie", or "freed": queued, but freed
  has,      \* the objects that each process has
  heap,     \* how many objects of each kind are allocated
  pc,       \* "user" outside the kernel, or what the call does next
  cur,      \* the process in the kernel
  child,    \* the process that do_fork makes
  prog,     \* the program that do_execve loads
  seg,      \* the program headers that load_icode has passed
  wild      \* history: the kinds of objects that were given back by a
            \* process that did not have one: freed twice, or never allocated

vars == <<state, has, heap, pc, cur, child, prog, seg, wild>>
call == <<cur, child, prog, seg>>

User == Proc \ {InitProc}
Running(p) == pc = "user" /\ state[p] = "live"

Init ==
  /\ state = [p \in Proc |-> IF p = InitProc THEN "live" ELSE "none"]
  /\ has = [p \in Proc |-> IF p = InitProc THEN {"proc", "kstack", "files"} ELSE {}]
  /\ heap = [o \in Object |-> IF o \in has[InitProc] THEN 1 ELSE 0]
  /\ pc = "user" /\ cur = InitProc /\ child = InitProc
  /\ prog = "good" /\ seg = 0 /\ wild = {}

-----------------------------------------------------------------------------
(* At label l, the allocation of o for p succeeds, to go on at next, or    *)
(* fails, to go on at bad.                                                 *)
Allocates(l, p, o, next, bad) ==
  /\ pc = l
  /\ \/ /\ heap' = [heap EXCEPT ![o] = @ + 1]
        /\ has' = [has EXCEPT ![p] = @ \cup {o}]
        /\ pc' = next
     \/ /\ o \in FailAt
        /\ pc' = bad
        /\ UNCHANGED <<heap, has>>

(* The objects os of p are given back, whether it has them or not.         *)
GivesBack(p, os) ==
  /\ heap' = [o \in Object |-> IF o \in os \cap has[p] THEN heap[o] - 1 ELSE heap[o]]
  /\ wild' = wild \cup (os \ has[p])

Frees(p, os) == GivesBack(p, os) /\ has' = [has EXCEPT ![p] = @ \ os]

-----------------------------------------------------------------------------
(* do_fork, by init or by a process that has executed a program.           *)
Fork(p, c) ==
  /\ Running(p) /\ (p = InitProc \/ "mm" \in has[p])
  /\ state[c] = "none" /\ heap["files"] < Cardinality(Proc) + MaxLeak
  /\ cur' = p /\ child' = c /\ pc' = "alloc_proc"
  /\ UNCHANGED <<state, has, heap, prog, seg, wild>>

ForkAllocates ==
  /\ \/ Allocates("alloc_proc", child, "proc", "setup_kstack", "user")
     \/ Allocates("setup_kstack", child, "kstack",
                  IF "mm" \in has[cur] THEN "copy_mm" ELSE "set_links",
                  "bad_fork_cleanup_proc")
     \/ Allocates("copy_mm", child, "mm", "copy_pgdir", "bad_fork_cleanup_kstack")
     \/ Allocates("copy_pgdir", child, "pgdir", "dup_mmap", "bad_fork_cleanup_mm")
     \/ Allocates("dup_mmap", child, "image", "set_links", "bad_dup_cleanup_mmap")
     \/ Allocates("copy_files", child, "files", "user", "bad_fork_cleanup_kstack")
  /\ UNCHANGED <<state, call, wild>>

(* The child gets its pid, its place in the lists and in the run queue.    *)
SetLinks ==
  /\ pc = "set_links"
  /\ state' = [state EXCEPT ![child] = "live"]
  /\ pc' = "copy_files"
  /\ UNCHANGED <<has, heap, call, wild>>

(* Mutant: the kernel stack is not given back.                             *)
ForkLabelsNoStack == {
  <<"bad_dup_cleanup_mmap",    "pgdir",  "bad_fork_cleanup_mm">>,
  <<"bad_fork_cleanup_mm",     "mm",     "bad_fork_cleanup_proc">>,
  <<"bad_fork_cleanup_kstack", "kstack", "bad_fork_cleanup_proc">>,
  <<"bad_fork_cleanup_proc",   "proc",   "user">>}

(* The labels at the ends of copy_mm and do_fork.                          *)
ForkLabels == {
  <<"bad_dup_cleanup_mmap",    "pgdir",  "bad_fork_cleanup_mm">>,
  <<"bad_fork_cleanup_mm",     "mm",     "bad_fork_cleanup_kstack">>,
  <<"bad_fork_cleanup_kstack", "kstack", "bad_fork_cleanup_proc">>,
  <<"bad_fork_cleanup_proc",   "proc",   "user">>}

ForkCleansUp ==
  /\ \E l \in ForkLabels : pc = l[1] /\ Frees(child, {l[2]}) /\ pc' = l[3]
  /\ state' = IF pc = "bad_fork_cleanup_proc" /\ state[child] = "live"
              THEN [state EXCEPT ![child] = "freed"] ELSE state
  /\ UNCHANGED call

-----------------------------------------------------------------------------
(* The address space of p, if it has one: a kernel thread has no mm.       *)
SpaceOf(p) == IF "mm" \in has[p] THEN Space ELSE {}

(* do_execve, up to the point where there is no way back.                  *)
(* Mutant: a program that is missing is noticed too late.                  *)
ExecLate(p, g) ==
  /\ Running(p) /\ p \in User
  /\ heap["ph"] < MaxLeak
  /\ Frees(p, SpaceOf(p))
  /\ cur' = p /\ prog' = g /\ seg' = 0
  /\ pc' = IF g = "missing" THEN "user" ELSE "mm_create"
  /\ UNCHANGED <<state, child>>

Exec(p, g) ==
  /\ Running(p) /\ p \in User
  /\ heap["ph"] < MaxLeak
  /\ IF g = "missing" THEN UNCHANGED <<heap, has, wild>> ELSE Frees(p, SpaceOf(p))
  /\ cur' = p /\ prog' = g /\ seg' = 0
  /\ pc' = IF g = "missing" THEN "execve_exit" ELSE "mm_create"
  /\ UNCHANGED <<state, child>>

LoadAllocates ==
  /\ \/ Allocates("mm_create", cur, "mm", "setup_pgdir", "execve_exit")
     \/ Allocates("setup_pgdir", cur, "pgdir", "read_elf", "bad_pgdir_cleanup_mm")
     \/ Allocates("alloc_ph", cur, "ph", "read_ph", "bad_elf_cleanup_pgdir")
  /\ UNCHANGED <<state, call, wild>>

(* Reading the file and looking at what was read.                          *)
LoadReads ==
  /\ \E l \in {<<"read_elf", "alloc_ph", "bad_elf_cleanup_pgdir">>,
               <<"read_ph", "segments", "bad_ph_cleanup">>} :
       /\ pc = l[1]
       /\ \/ pc' = l[2]
          \/ pc' = l[3] /\ prog = "bad"
  /\ UNCHANGED <<state, has, heap, call, wild>>

(* A program header, and after the last one the user stack: the vma, and   *)
(* the pages.                                                              *)
LoadSegment ==
  /\ pc \in {"segments", "mm_map_stack"}
  /\ \/ /\ pc' = CASE pc = "mm_map_stack"   -> "stack_pages"
                   [] seg + 1 < Headers     -> "segments"
                   [] OTHER                 -> "mm_map_stack"
        /\ seg' = IF pc = "segments" THEN seg + 1 ELSE seg
        /\ has' = [has EXCEPT ![cur] = @ \cup {"image"}]
        /\ heap' = IF "image" \in has[cur] THEN heap
                   ELSE [heap EXCEPT !["image"] = @ + 1]
     \/ /\ "image" \in FailAt \/ prog = "bad"
        /\ pc' = "bad_cleanup_mmap"
        /\ UNCHANGED <<has, heap, seg>>
  /\ UNCHANGED <<state, cur, child, prog, wild>>

(* The stack pages must be there, or the kernel panics; nobody frees ph.   *)
LoadDone ==
  /\ pc = "stack_pages"
  /\ \/ pc' = "user" /\ has' = [has EXCEPT ![cur] = @ \ {"ph"}]
     \/ pc' = "panic" /\ "image" \in FailAt /\ UNCHANGED has
  /\ UNCHANGED <<state, heap, call, wild>>

(* The labels at the end of load_icode.  exit_mmap frees the vmas that are *)
(* there, which may be none; ph has moved on with the headers, and kfree   *)
(* gets a pointer that kmalloc never returned.                             *)
LoadLabels == {
  <<"bad_cleanup_mmap",      "image", "bad_ph_cleanup">>,
  <<"bad_ph_cleanup",        "ph",    "bad_elf_cleanup_pgdir">>,
  <<"bad_elf_cleanup_pgdir", "pgdir", "bad_pgdir_cleanup_mm">>,
  <<"bad_pgdir_cleanup_mm",  "mm",    "execve_exit">>}

LoadCleansUp ==
  /\ \E l \in LoadLabels :
       /\ pc = l[1] /\ pc' = l[3]
       /\ IF l[2] = "ph" /\ seg > 0
          THEN /\ wild' = wild \cup {"ph"} /\ has' = [has EXCEPT ![cur] = @ \ {"ph"}]
               /\ UNCHANGED heap
          ELSE Frees(cur, IF l[2] = "image" THEN {"image"} \cap has[cur] ELSE {l[2]})
  /\ UNCHANGED <<state, call>>

-----------------------------------------------------------------------------
(* do_exit, by a process that has executed a program (the kernel thread    *)
(* that init makes panics if exec returns) or from a failed exec: the      *)
(* files are put only if there is an mm, and put_files looks first whether *)
(* there are any.                                                          *)
GivenUp(p) == SpaceOf(p) \cup (IF "mm" \in has[p] THEN {"files"} \cap has[p] ELSE {})

Exit(p) ==
  /\ \/ Running(p) /\ "mm" \in has[p]
     \/ pc = "execve_exit" /\ p = cur
  /\ Frees(p, GivenUp(p))
  /\ state' = [state EXCEPT ![p] = "zombie"]
  /\ pc' = "user"
  /\ UNCHANGED call

(* do_wait finds the zombie z.  With its proc_struct is lost whatever it   *)
(* still had.                                                              *)
Wait(z) ==
  /\ pc = "user" /\ state[z] = "zombie"
  /\ GivesBack(z, {"kstack", "proc"})
  /\ has' = [has EXCEPT ![z] = {}]
  /\ state' = [state EXCEPT ![z] = "none"]
  /\ UNCHANGED <<pc, call>>

Next ==
  \/ \E p, q \in Proc : Fork(p, q)
  \/ \E p \in Proc, g \in Programs : Exec(p, g)
  \/ \E p \in Proc : Exit(p) \/ Wait(p)
  \/ ForkAllocates \/ SetLinks \/ ForkCleansUp
  \/ LoadAllocates \/ LoadReads \/ LoadSegment \/ LoadDone \/ LoadCleansUp

Spec == Init /\ [][Next]_vars

-----------------------------------------------------------------------------
(* The processes that can give o back one day.                             *)
Count(o) == Cardinality({p \in Proc : state[p] \in {"live", "zombie"} /\ o \in has[p]})

(* Between the calls every proc_struct, kernel stack, mm, page table and   *)
(* image that is allocated belongs to one living process or zombie, and    *)
(* none was ever given back by who did not have it: the clean-up code of a *)
(* failed fork or exec, exit and wait lose none and free none twice.  (Of  *)
(* files and program headers see FilesFreed, HeadersFreed and NoWildFree.) *)
Conserved ==
  /\ wild \subseteq {"ph"}
  /\ pc = "user" => \A o \in Object \ {"ph", "files"} : heap[o] = Count(o)

(* Nobody ever runs user code without an address space: when exec returns  *)
(* there is a whole new one, the old one is kept, or the process has died. *)
ExecLabels ==
  {l[1] : l \in LoadLabels} \cup
  {"mm_create", "setup_pgdir", "read_elf", "alloc_ph", "read_ph", "segments",
   "mm_map_stack", "stack_pages", "execve_exit"}

NoReturnBare ==
  [][\A p \in Proc :
       /\ pc' = "user" /\ state[p] = "live"
       /\ IF pc \in ExecLabels THEN p = cur ELSE "mm" \in has[p]
       => Space \subseteq has'[p] \/ state'[p] = "zombie"]_vars

(* do_wait: "only after do_wait function, all resources of the child       *)
(* proces are free": a reaped process leaves no files_struct behind.       *)
FilesFreed == pc = "user" => heap["files"] = Count("files")

(* The same of the program headers that load_icode read.                   *)
HeadersFreed == pc = "user" => heap["ph"] = Count("ph")

(* "if up steps failed, you should cleanup the env": every kfree gets back *)
(* what kmalloc gave out.                                                  *)
NoWildFree == wild = {}

(* The asserts of load_icode: there are pages for the user stack.          *)
StackAsserts == pc # "panic"

(* A process that is linked and queued has a proc_struct.                  *)
NoFreedProc == \A p \in Proc : state[p] # "freed"
=============================================================================

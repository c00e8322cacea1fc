# A verification project for uCore (OSLabcode)

The repository holds successive copies (`lab1` ... `lab6`, `lab8`) of uCore, a small teaching kernel
for RISC-V. `lab8` is the last and most complete one and is the one modelled here, unless a module
says otherwise: the best-fit, buddy and SLUB allocators are from `lab2`, the walk over the process
list from `lab5` and the stride scheduler from `lab6`, where they were written and where they stayed.
Paths below are relative to `src/labcode/`.

The project is a set of TLA+ modules that translate the code, TLC runs that check them on small
instances, and TLAPS proofs for instances of every size. `PROJECT.json` has the table of components,
runs, mutants (one way to break the code for each property), hazards, and the source lines behind
every definition.

## 1. Inventory

| part of the system | state | operations | what makes it correct |
|---|---|---|---|
| scheduler, round robin (`schedule/sched.c`, `default_sched.c`) | `current`; `state`, `wait_state`, `time_slice`, `need_resched` of each process; `rq` | `wakeup_proc`, `schedule`, `RR_enqueue/dequeue/pick_next/proc_tick` | the run queue is the set of runnable processes, each once; nobody starves |
| stride scheduler (`lab6`) | skew heap, strides modulo 2^32, priorities | `stride_enqueue/dequeue/pick_next/proc_tick`, `lab6_set_priority` | the heap is a heap although strides wrap around; shares follow priorities |
| scheduler of `lab5` | `proc_list` | `schedule` as a walk, `do_fork`, `do_exit`, `do_wait`, `do_kill` | everybody gets a turn before anybody gets two |
| sleep timers (`sched.c`) | `timer_list`, whose entries hold differences | `add_timer`, `del_timer`, `run_timer_list` | a sleeper wakes at its tick; no timer outlives its sleeper |
| processes (`process/proc.c`) | `proc_list`, the hash list, `nr_process`, flags, family pointers | `do_fork`, `do_exit`, `do_wait`, `do_kill`, `do_yield`, `do_sleep`, `init_main`, `cpu_idle` | no wakeup lost between exit and wait; every process has a living parent and is freed once |
| pids and family (`proc.c`) | `last_pid`, `next_safe`; `parent`, `cptr`, `yptr`, `optr` | `get_pid`, `set_links`, `remove_links`, the loop of `do_exit` | pids are unique, sibling lists are whole |
| resources of a process (`proc.c`) | kernel stack, `mm`, page directory, image, files, buffers | the allocations of `do_fork` and `load_icode` and the labels that undo them | nothing lost or freed twice, whatever fails |
| traps and switches (`trap/trap.c`, `trapentry.S`, `switch.S`) | registers, `sscratch`, trap frames, contexts | `SAVE_ALL`, `RESTORE_ALL`, `switch_to`, `copy_thread`, `kernel_execve` | a thread finds its own registers, stack and address space again |
| semaphores, wait queues (`sync/sem.c`, `wait.c`) | value, wait queue | `up`, `down`, `try_down` | units are conserved and served in turn |
| monitor (`sync/monitor.c`, `check_sync.c`) | `mutex`, `next`, `next_count`, condition variables | `cond_wait`, `cond_signal` | one thread inside, signals handed over |
| keyboard and console (`fs/devs/dev_stdin.c`, `driver/console.c`) | two rings, a wait queue | `cons_intr`, `cons_getc`, `dev_stdin_write` (in the interrupt), `dev_stdin_read` | each character once and in order, no reader sleeps on a non-empty ring |
| physical pages (`mm/default_pmm.c`, `lab2/kern/mm/best_fit_pmm.c`, `buddy_system_pmm.c`) | free lists, page flags | `alloc_pages`, `free_pages` | a partition of the pages, no refusal without need |
| `kmalloc` (`mm/kmalloc.c`), SLUB (`lab2/kern/mm/slub_pmm.c`) | free blocks, big blocks; caches, slabs on three lists | `kmalloc`, `kfree`; `slub_alloc_objs`, `slub_free_objs` | no memory lost or given twice |
| page tables and address spaces (`mm/pmm.c`, `mm/vmm.c`) | three levels of tables, reference counts, vmas | `page_insert`, `copy_range`, `unmap_range`, `exit_range`, `dup_mmap`, `load_icode`, `user_mem_check`, copies from and to users | each process has a memory of its own; pages and tables come back |
| regular files of SFS (`fs/sfs/sfs_inode.c`, `fs/file.c`, `fs/sysfile.c`) | bitmap, inodes in memory and on disk, positions, buffers | open, close, read, write, seek, truncate | a block has one owner, a file keeps its contents, the bytes arrive |
| open files, inodes (`fs/file.c`, `fs/fs.c`, `fs/vfs`) | descriptors; reference, open and reclaim counts | `file_open`, `file_close`, `dup`, `dup_files`, `files_closeall`, lookup | counts are the numbers of those who refer to a node; processes notice nothing of inodes that go and come |
| volume, devices, paths (`fs/vfs`, `fs/sfs/sfs_fs.c`) | device list, superblock, bitmap, boot file system | mounting with its failures, `vfs_lookup`, `vfs_chdir`, `sfs_sync` | mounted whole or not at all; a path leads where it says |
| `mksfs` (`tools/mksfs.c`) | cache of blocks, inodes, bitmap | `open_img`, `add_dir`, `add_file`, `append_block`, `close_img` | the kernel reads in the image what was in each directory |
| libraries (`libs/string.c`, `libs/printfmt.c`), shell (`user/sh.c`) | memory, line buffer | string functions, formats, `strtol`; `gettoken`, `runcmd`, `readline` | what their comments promise, also where lengths are 0 or copies overlap; the commands of a line run up to the first mistake |
| drivers, boot, device tree, debugging, other user programs | - | - | not modelled (section 7) |

How the parts interact. There is one CPU and the kernel does not preempt itself: control passes from
one process to another only inside `schedule()`. A user process is interrupted in user code and
rescheduled at the end of `trap()`; inside a system call interrupts are off. Kernel threads (idle,
init, the philosophers) run with interrupts on, so that the timer interrupt comes between any two of
their steps - in particular between the assignment `state = PROC_SLEEPING` and the `schedule()` that
follows, where it may wake the process that is still running, and inside `RESTORE_ALL` when
`kernel_execve` jumps there. The interrupt calls `run_timer_list`, which wakes sleepers, counts the
time slice down, and may bring a character to the keyboard device, which wakes readers. `do_kill`
wakes whoever sleeps interruptibly. All of these go through `wakeup_proc`. File system calls never
block (the disk is memory), so that one ends before the next begins; only the console makes a reader
wait. Fork, exec and exit reach across: they allocate pages, copy page tables, count references to
inodes and link the process into the table, and each of these may fail after the others are done.

The behaviours that are hard to test: the window between marking oneself asleep and leaving the
CPU; the wakeup by a kill and by an event before the process runs again; a parent that exits while
its children exit; `last_pid` after a wrap-around; strides that overflow; an allocation that fails in
the middle of fork, exec, mount, a write or a truncation; blocks split and merged in every order;
an inode that is given up by one process and loaded by the next.

## 2. Modules

Every C function that changes state is either an action, or an operator on a record of the state
that the actions calling it are composed of. Names are those of the code.

    Timers --- Sched ---- Process --------------------- MCSchedulers, MCSync; SchedulersProofs
                 +------- KThreads --- Semaphore ==> AbsSemaphore ------- MCSync; SemaphoreProofs
                 |           +-------- CheckSync ------------------------ CheckSyncProofs
                 +------- SchedProofs
    TimerList ==> AbsTimers, Walk, Stride, Stdin ------- MCSchedulers; SchedulersProofs (the first two)
    ProcLinks ==> Family --- ProcTable ----------------- ProcTableProofs
    Resources; Paging ==> AbsSpaces -------------------- MCMemory; MemoryProofs
    PageList, Buddy ==> AbsPages; Slob, Slub ==> AbsHeap MCMemory
    Sfs, Transfer, Files ==> AbsFiles, Image, Volume --- MCFiles; SfsProofs
    Context -------------------------------------------- MCPrograms; ContextProofs
    Libs, Shell ---------------------------------------- MCPrograms

(`---` extends or instantiates, `==>` implements, checked by TLC as a property. SchedProofs has the
lemmas that SchedulersProofs, SemaphoreProofs and CheckSyncProofs share.)

Processes:

* **Timers** is the list of timers by ticks left. **Sched** has the functions of the scheduler as
  operators on a record `k`, where `k.ok` becomes false when one of their assertions fails, and the work of
  the timer interrupt: it wakes the sleepers that are due and ticks the slice.
* **Process** is the life of a process. `pc[p]` says between which two points of the kernel `p`
  stands; each action runs from one such point to the next, as the code does when interrupts are
  off. `do_exit` is one action with its wakeups, the hand-over of the children and its `schedule()`.
* **TimerList** is the list as the code stores it, with differences, against **AbsTimers**, which
  has only "wake p at tick t". It is what justifies the use of `Timers` elsewhere.
* **Stride** is the scheduler of lab6. The heap is its nodes, and `skew_heap_merge` its recursion.
  `total` is what a stride would be without wrap-around, `lab6_stride` is `total % Modulus`.
* **Walk** is processes and `schedule()` of lab5: `proc_list` is a sequence, `seen` the history of turns. A process
  waits for any child (`AnyChild`, the code's pid 0) or for one; `waitFor` is the argument, `WaitedFor` the children that `do_wait` looks at.
* **Stdin** is the keyboard device behind the ring of the console, with readers that may be killed.
* **KThreads** has `up`, `down` and `do_sleep` as steps of kernel threads, with the interrupt between
  any two. **Semaphore** gives the threads a program that uses one semaphore. **CheckSync** is
  `check_sync.c`: the philosophers with semaphores and then with the monitor, one half after the other, over the
  steps of a philosopher that both have in common.
* **ProcLinks** has the family pointers assignment by assignment, one step per round of `do_exit`'s loop. **ProcTable**
  walks `proc_list` entry by entry as `get_pid` does (`Spec`), and composes the two (`TableSpec`).
* **Context** is registers: `SAVE_ALL`, `RESTORE_ALL` in three steps between which an interrupt may
  come, `switch_to`, and the frames of new threads and programs. A register holds the name of whose value it is.

Memory:

* **PageList** is first fit and best fit with the links of `list.h`; **Buddy** the buddy allocator;
  both are checked against **AbsPages**.
* **Slob** is `kmalloc` with its circular list; **Slub** caches and slabs over Buddy; both are checked
  against **AbsHeap**, where what is given out is large enough and overlaps nothing. Sizes in Slob are bytes, as `find_order` takes
  them; of a size just above 2^k pages only 2^k pages are granted (`Granted`, section 6).
* **Paging** has the three levels of page tables in the pages that they map, vmas, and fork, exec and
  exit on them, each with allocations that fail; against **AbsSpaces**, where a memory is a function of one process.
* **Resources** counts what is allocated (`heap`) and who owns it (`has`), with one step per
  allocation of `do_fork`, `copy_mm` and `load_icode`, each of which may fail, and per label. What is given back without
  being held, because it was freed before or never allocated, goes into `wild`.

Files:

* **Sfs** is the block level of regular files with the calls that reach it, one step per block. The
  inode on disk is kept apart from the one in memory, for the last close throws the latter away.
* **Transfer** follows the bytes of a call from the program's buffer through `sysfile.c`,
  `sfs_io_nolock`, `sfs_io.c` and `dev_disk0.c`, with a buffer that ends too soon.
* **Files** is descriptors, working directories and the counters of inodes; **AbsFiles** has a table for
  each process and one size for each file, and no inodes. What is lost in the known ways (section 6)
  is recorded in `lost`, so that every other count is exact.
* **Image** is `mksfs` and how the kernel reads the image it makes: the entries of a directory, `sfs_lookup` of one name or of a path,
  which it takes for one name too, and `sfs_namefile`. Names are single values, of which those in `Long` are longer than 252 characters. **Volume** is devices, the mounting
  with every allocation failing, and paths as sequences of characters.

Programs: **Libs** runs each function of `string.c` loop by loop on a small memory, and
`vprintfmt` directive by directive, with the promises beside them; **Shell** cuts lines in place in a buffer as
`gettoken` does, and says of each line what it means: which tokens are mistakes (`Wrong`), and what runs before the first.

**MCSchedulers, MCMemory, MCFiles, MCSync and MCPrograms** each put several systems under one run. `system`
is chosen at the beginning and never changes; the others stay where they began. So the behaviours of the
sum are the behaviours of its parts, and what is said of a part is said of all of its behaviours. The
systems of one sum do not share state: where two of them really meet, they meet in a module of their own
(ProcTable, CheckSync, Slub with Buddy, Process with Timers), or the upper one has the abstract
specification of the lower in it (Paging and Slob take pages from a set, as AbsPages says).
MCSchedulers extends Process, MCSync Semaphore, MCMemory Resources, MCFiles Sfs and MCPrograms Context, so that what these runs check is
the very definition that the theorems of section 4 are about; the other systems are instances.

## 3. Runs

Twelve runs: seven pass, five show a violation (section 6). Deadlock is checked, except where the
kernel panics or halts, a program ends, or a bound stops the model: `memory`, `files`, `programs`,
`execve_scratch` and `tables_lost`.

| run | systems and their size | what it asks |
|---|---|---|
| `schedulers` (667,405 states) | idle, init and 3 user processes of lab8, slices of 1 tick, sleeps up to 2; 4 sleepers of up to 4 ticks; 3 processes with strides modulo 8; idle, init and 3 user processes of lab5; 3 readers, rings of 2 and 2, 3 characters | `TypeOK`; `RunQueue`: the run queue is exact; `SleepersFound`: who sleeps is found by what it waits for, and timers die with their sleepers; `NoneAbandoned`: living parents, init ends last, no exit lost; `ImplementsTimers`; `HeapOfReady`, `SharesKept`; `ListAndWaits`, `TurnsInOrder`; `KeysRead` |
| `sync` (17,018) | 3 threads, 1 unit; idle, init and 2 user processes, slices and sleeps of up to 2 | `WaitsInQueue`, `ImplementsSemaphore`, `WaiterEnters`; `NoStarvation`, `SleepersWake`, `OrphansReaped`, `KilledSleeperDies` |
| `dinner` (54,502) | 5 philosophers (N of the code), 2 meals each (TIMES is 4), twice | `ForksExclusive`, `OneInMonitor`, `AllQuit` |
| `proctable` | 6 pids, 5 processes | `Unique`; `PidsNameProcs`: pids are those of the living; `ImplementsFamily`: sibling pointers implement lists; `Returns`: `get_pid` ends |
| `memory` (413,602) | 6 pages in one list, 9 for the buddies; 3 pages of 6 units for `kmalloc`; SLUB over 2 pages; 3 address spaces in 18 pages; 4 processes with every allocation but that of the files failing | `PagesWhole`, `ImplementsPages`; `HeapsWhole`, `ImplementsHeaps`; `PagesOwned`, `ImplementsSpaces`; `Conserved`, `NoReturnBare` |
| `files` (747,889) | 2 files, 2 open files, 3 blocks of 2 words; bytes of a file of up to 3 blocks of 2; 3 processes with 2 descriptors; images of every directory of two names, one of them too long; a disk of 4 blocks, paths of up to 4 characters | `BlocksOwned`, `ContentsKept`; `Counted`, `CallsDoAsTold` (`Transferred` of Transfer, `ImplementsFiles` of Files); `ImageRight` |
| `programs` (1,751,970) | 2 threads and idle; a memory of 5 bytes; 4-bit `int` and 6-bit `long`; sessions of up to 6 keys, a rare one counting for two | `OwnContext`; `TextRight`; `LinesRun` |
| `pmm_twice` | 6 pages | violation: a page is handed out twice |
| `sfs_assert` | 2 files, 3 blocks | violation: an assertion of the file system fails |
| `stride_min` | 3 processes, priority 0 allowed | violation: not the lowest stride is picked |
| `tables_lost` | 2 address spaces, segments that share a directory | violation: a page table is lost |
| `execve_scratch` | 2 threads and idle | violation: a program begins with the registers of the kernel |

### Bounds, and why they are enough

* Three user processes are a parent, a child and a bystander, or a chain of three generations, in
  which the middle one exits first: the shortest situation for every hand-over. The slots are
  reused, so runs are unbounded in length. Slices of 1 and 2 ticks distinguish "used up" from "not".
* Four sleepers cover insertion in front of, between, behind and at the same tick as others.
* Strides modulo 8 with `BIG_STRIDE` 3 keep the proportion that the comment in the code derives (the
  spread of strides fits half of the modulus); `Span` lets each wrap around. Three nodes make heaps of every shape.
* One unit and three threads give a full semaphore with a line of two, one of whom is overtaken if
  a unit can be taken between `up` and the wakeup. More units and threads are the matter of SemaphoreProofs.
* Two meals let a philosopher be hungry while the neighbour is at the first meal, at the second and gone. With four meals, as in the code,
  the same run has 145,502 states and shows the same.
* Rings of two slots overflow with the third character; a reader may ask for both slots and be
  interrupted, killed and woken in between.
* Six pids with five processes leave one free pid besides idle's, so that `last_pid` wraps around and
  `get_pid` restarts its walk. The code demands `MAX_PID > MAX_PROCESS`, and no more than that.
* Six pages allow three blocks of which the middle is freed last; nine pages are one more
  than a power of two, which the buddy allocator drops. `TopUsed = FALSE` keeps the last page from
  being allocated in the one-list allocators: this is what avoids the fault of section 6 and lets the
  rest of the code be checked. It is a restriction of the environment, not of the code.
* Three pages for `kmalloc` let free blocks of two pages touch and a page become a big block and come
  back. Units have 2 bytes and pages 12; objects have 2 and 5 bytes (several in a page, half a page), 8 (just below a page: the assertion
  of `slob_alloc` fails), 13 (above one page: two are given) and 25 (above two pages: two are given, and the last byte is missing).
* Eighteen pages run out in a fork of three processes with tables of `NPDE * NPTE` entries, at each
  of the three levels. Words are bits, so that a store of another process shows.
* Three blocks with one direct slot make a file use the direct slot, the indirect block and an
  entry of it, and the disk run out at each of these points. `SYMMETRY` permutes files, open files and user
  processes; the runs that use it have no liveness property.
* Two descriptors of two processes reach every sharing of an inode; `MaxSize = 1` tells an empty file
  from one that is not, which is what an inode that is written back too late gets wrong.
* Directories of the names `x` and `y`, of which `y` is too long and is cut to `x`, so that the two collide, nested, with files of 0, 4 and 6 blocks, reach the direct,
  indirect and double indirect blocks of `mksfs`. Paths of four characters contain every combination of a device, a colon, a slash and a name; with `MaxName` 3 the longest is longer than a name may be.
* A memory of five bytes lets strings overlap in both directions and end at the end.
* `MaxLeak`, `MaxLost`, `MaxOpened`, `MaxCalls` and `MaxKeys` bound counters that would otherwise grow for ever; each
  stands in the guard of what it bounds.
* Targets of kill exclude init and idle (see section 6).

### Fairness

Of processes, `sync` assumes weak fairness of kernel code (once in the kernel, a process goes on when it
has the CPU) and of the idle loop, and strong fairness of the timer interrupt, because the interrupt
is latched while interrupts are off and taken as soon as they are on. Nothing is assumed of user
code: it may loop for ever, never exit and never wait. The threads of a semaphore (`sync`) and the philosophers (`dinner`) are
kernel threads whose program is fixed, so that each of their steps is weakly fair, and the interrupt
can come at any time, so that weak fairness is enough for it. `proctable` assumes only that a loop
with interrupts off goes on.

## 4. What is proved

Each theorem holds for every value of the constants that the named assumptions allow: any set of
processes, any time slice, any length of sleep; any number of threads and of units; any number of pids that is
greater than that of the processes; any failure of an allocation (of the files, in one theorem: none); any files, blocks and sizes of blocks.

* **SchedProofs** has what the next three share: what inserting, removing, appending and joining do to a sequence,
  element by element, and then, of each function of the scheduler and of the timer list, what it returns and keeps. The invariant of the
  scheduler is `Sane(k)`: it relates queue, states and wait states, and is kept by each function, however they are composed. `Ticked`
  needs one more fact: a timer interrupt wakes only owners of timers (`Spared`), each at most once.
* **SchedulersProofs** is about three of the systems of MCSchedulers. Of **Process**, with one lemma for each action:
  - `TypeCorrect`: `TypeOK`; in particular a time slice never leaves `0..max_time_slice`.
  - `RunQueueHolds`: `RunQueue` of the run `schedulers`. `RunQueue` is not inductive: that the queue is
    the set of runnable processes does not survive `schedule()` unless the process that leaves the CPU and the one
    that gets it are known to be in the right states. The inductive invariant `IInv` adds to `TypeOK` and `Sane(k)`
    `Places` and `OnCPU`, which tie the state of a process to the point of the kernel where it
    stands: it is only between falling asleep and `schedule()` that the process on the CPU is not runnable. `TimerOwners`
    says that timers belong to processes in `do_sleep`, one each: otherwise a tick could wake a zombie, or a process twice.
  - `SleepersFoundHolds`: `SleepersFound` of the same run: no wakeup is lost between `do_exit` and `do_wait`,
    and none between `do_sleep` and the tick. Here the invariant has to be strengthened by the family (`Kin`): a
    child of the process that exits may be handed over to an init that sleeps, and the proof that init is woken
    if it must be needs that nobody is its own parent and that init is nobody's child but idle's.
  - `ParentedHolds` and `NoneAbandonedHolds`: every process has a parent that is no zombie, and init ends last. For the
    second it is not enough that every user process has a living parent: a ring of processes would satisfy that, and init
    would never see them. The invariant `Rooted` says that every set of user processes has one whose parent is outside it. It is
    the induction along the family tree in one formula: fork adds a leaf, `do_exit` hangs the children of a process
    on init, and the set of all user processes gives a child of init. `NoneAbandonedHolds` assumes that no program kills
    init (`InitProc \notin Targets`); section 6 says what happens if one does.

  Of **TimerList**:
  - `TimersImplemented`: `ImplementsTimers` of the same run, for any sleepers and any length of sleep. The mapping gives each timer the sum of the
    differences up to it, by a recursive function. What that function computes is not read off its definition but off the recurrence: `Sums(l, d)` says
    that `d` begins with 0 and grows by the difference stored at each place; there is such a `d` (`SumsExist`) and the mapping is it (`DueRight`).
    From then on `d` is carried through the list operations: `add_timer` puts a place in `d` and gives what it takes to the next one (`AddSums`),
    `del_timer` takes a place out and leaves the others as they are (`DelSums`), and a tick takes one from each and removes those that have
    none left, which stand in front because sums do not fall (`SumsRise`, `RunSums`). The inductive invariant `TimerInv` needs only that
    the first timer has a tick left and that nobody has two.

  Of **Walk**, for any number of processes:
  - `ListAndWaitsHolds`: `ListAndWaits`. Its inductive invariant, `WalkInv`, says where processes may stand, and of each user process that its parent is alive and
    stands behind it in `proc_list`, and that init stands behind all (`Parents`); who sleeps in `do_wait` waits for a child that is
    there, the one it names or any (`WPlaces`), which the exits of other children do not change. That init is alone when it finds no child (`OnlyInit`) follows from the last
    but one of the list: its parent stands behind it, so that it is init. The same order shows that nobody is its own parent, which `do_exit` relies on
    when it wakes the parent of a process that it has just made a zombie.
  - `TurnsInOrderHolds`: the action property `TurnsInOrder`. The invariant is about positions: whom a waiting process `p` has seen get the CPU lies, going round the list from `p`,
    between `p` and the current process (`Turns`), so that the walk meets `p` before it comes to them again. `Round` says that without naming positions, for
    fork and reaping shift all of them: a new process stands at the head (`ForkedList`) and a freed one leaves the others in their order (`ReapedList`).

  They rest on `SchedAssumption` (idle is a process, slices are positive), `ProcessAssumption` (init is a process
  other than idle, idle is not killed) and, of TimerList, `TimerListAssumption` (`MaxTicks` is a natural number).
* **SemaphoreProofs** is about Semaphore: threads that take and give back a unit, try, sleep, and are interrupted between any two steps.
  - `WaitsInQueueHolds`: `WaitsInQueue` of the run `sync`. A thread sleeps in `down` exactly as long as it stands in the wait
    queue. A timer could break that by waking it, so the invariant `Waits` says that whoever has a timer sleeps in `do_sleep`.
  - `SemaphoreImplements`: every step of Semaphore is a step of AbsSemaphore or changes nothing there. That a
    unit is free only if nobody waits, and that free and held units add up to `Units`, is `Counted`; it is what makes
    the guard of `Take` true when `down` or `try_down` finds a positive value, and that of `Join` when it does not.

  They rest on `SemaphoreAssumption` (there are finitely many threads and at least one semaphore, `Units` is a natural
  number) and `SchedAssumption`.
* **CheckSyncProofs** is about CheckSync: any number of philosophers greater than one, any number of meals, any length of sleep and any time slice.
  - `ForksExclusiveHolds`: `ForksExclusive` of the run `dinner`, for both halves of `check_sync`. By itself it is not inductive: a philosopher
    is given its forks by a neighbour, who looks at `state[LEFT]` and `state[RIGHT]` and relies on nobody else changing them. So the
    invariant has to say who is alone (`One`): the mutex has the value 1 if nobody has it and 0 otherwise, and at most one thread
    has it, where a thread that has been handed it in `up` and does not run yet has it already (`Has`). And it has to say what
    the state of a philosopher is at every place of its program (`SemaAt`, `CondAt`), in particular that a philosopher whose forks were given by
    a neighbour finds its semaphore up, or has been woken from it, but not both.
  - `OneInMonitorHolds`: `OneInMonitor` of the same run. Three ways lead out of the monitor, and each hands it to one thread or sets it free: to one
    that sleeps on `next`, because `next_count` is the number of those who do (`Signallers`); to one in line at the mutex; and from the
    signaller to the one it wakes. That a signaller is in line at `next` whenever `next_count` says so needs `One` again:
    a signaller that was let go already would be a second one inside (`NextWaits`). What is proved is an equality, `OneHasMonitor`: the
    number of threads inside and the value of the mutex add up to one, so that the monitor is not lost either.

  The first half is what each operation of KThreads does to states, queues and timers, in a form that both halves use
  (`TakesUnit`, `Queues`, `Continues`, `Returns`, `Hands`, `FallsAsleep`, ...); it rests on `Base`, which ties places, wait queues and the scheduler together as
  `Waits` does for Semaphore. Between the halves, `NextInv` has one lemma for each action. They rest on `CheckSyncAssumption`: N is at least 2 (with one
  philosopher, `LEFT` and `RIGHT` are itself), TIMES and SLEEP_TIME are not 0; and on `SchedAssumption`.
* **ProcTableProofs** is about ProcTable.
  - `PidsUnique`, `GapHolds` and `TablePidsUnique`. `get_pid` returns `last_pid` without a walk as long as it is
    below `next_safe`; that this pid is free is the invariant `Gap` (no pid lies strictly between the two), which
    holds between two calls only, and which the removal of a process keeps. `IInv` is `TypeOK /\ Unique /\ Gap` with what the walk has seen
    so far. Every step of the whole table is a step of `get_pid` and `proc_list` or leaves them alone, so that the same holds of the composition.
  - `PidsNameProcsHolds`: `PidsNameProcs` of the run `proctable`. Its half about siblings (`DoublyLinked`) speaks of the moments outside the loop of
    `do_exit`; in the loop, the first child that is left has a `yptr` to the sibling that was just given to init. So `Shape` looks at
    `yptr` only of children that are not first (`Younger`). That a zombie outside the loop has no children, without which a slot
    would be used again as the parent of strangers, needs that a process whose `cptr` is null has none: this is `Lined`, no siblings stand in a
    ring, said as "of any set of processes one has no younger sibling in it". The half about pids (`Numbered`) then follows step by step from
    `Unique` and from `TableOK`: the slot that was free when `do_fork` began is free when `get_pid` has returned.
  - `TableHolds`: the inductive invariant of both.
  - `FamilyImplemented`: `ImplementsFamily` of the same run, that the pointers implement lists of children. The mapping reads a list off the pointers by
    `Chain`, a recursive function, so that the proof begins with what `Chain` computes: `ChainRight` says that it returns `s` if `cptr` and
    `optr` lead through `s` and nothing occurs in `s` twice (`Row`). The induction is one over the least number for which a statement fails
    (`LeastNumber`, from the well-foundedness of `<` on `Nat`): first that the recursion has a solution at all, then what it is.
    Then `FamilyIs(k)` says that `k` has the list of everyone, with each child in it, and each operation has one lemma about how `k` changes:
    an element in front (`FamilyForks`), a head that moves (`FamilyAdopts`), an element that goes from anywhere (`FamilyReaps`).

  They rest on `PidAssumption` (`MAX_PID > MAX_PROCESS`, which the code asserts) and, all but the first two, on `TableAssumption` (finitely many slots, of
  which idle and init have one each). For the provers, `Chain` is a function of a number whose values are functions of a process, and `Reap` of Family names
  the place in the list that it removes.
* **MemoryProofs** is about Resources, what processes hold, for any finite number of processes and any choice of the allocations that fail;
  and about Paging, for any number of processes, any sizes of memory, of page tables and of user stacks, and any programs.
  - `ConservedHolds`: `Conserved` of the run `memory`, under the assumption `"files" \notin FailAt`. Two things are said: nothing is given back by a
    process that does not have it (`wild`), and between two calls the count of each kind of object is the number of living processes and
    zombies that have one. It leaves out what is false of the code: program headers may be freed by a wrong pointer and are never freed on
    success, a `files_struct` survives a failed exec (section 6), and if `copy_files` fails, the `mm` of a child that is freed where it runs is lost, which
    is why that failure is excluded (here and in the run). The count holds between calls only: in the middle of a call
    things belong to a process that does not exist yet, or to one whose address space has just been given up. So the inductive
    invariant is about every label: `Balanced` says that the count of each kind of object is the number of those who have one, children in the making and
    freed ones included, `Forking` what the child of a fork has got so far at each label of `do_fork`, `Loading` what the caller of an exec
    has at each label of `load_icode`, `Resting` that everybody else has a whole address space or none, `Clean` that nothing but program headers
    was given back unowned, and `NoneFreed` that a child that runs is freed by no label, if files can be had. All but the last hold for every
    `FailAt` (`BalancedHolds`).
    The proof has to know what comes before each of the labels that undo: entering one from the wrong place frees what was never allocated.
  - `NoReturnBareHolds`: an action property, from the same invariant. The path from a failing `load_icode` leads to
    `do_exit`, never back to the program whose pages are gone.

  - `PagesOwnedHolds`: `PagesOwned` of the same run. It follows the entries down from the page directory of each process, three levels, in pages
    that are free at other times and then hold whatever their last user left. What is inductive (`SpacesInvHolds`) speaks of all of memory
    at once (`Tables`): there are sets of pages, the directories, the tables of level 0 and the page tables, without a page in two of them, such that each
    kind points to the next one only, no two entries have the same page, and what an entry points to is counted once and not free. The two lower sets are not
    state of the kernel; the proof carries them along (`\E A, B`), and each lemma says how they change: `Grow` adds a table, `Drop` takes
    one away, `Map` and `page_remove_pte` leave them as they are. In the middle of a call a page is taken and not yet mapped, or the last to
    know a directory is `exit_mmap`: this is the set `L` of `Mem(R, L)`, which is empty between the calls.
    Above these there is one lemma for each function of `mm/pmm.c`, `mm/vmm.c` and `load_icode`. A loop is a recursive function over the numbers
    it goes through; `History` shows, by induction over the least number for which it fails, that such a function exists, and `Staying`
    that it keeps what its body keeps. That `exit_range` looks only at entries that are there (`Looks`) is arithmetic: for symbolic sizes, the
    quotient of a quotient (`DivDiv`) and the order of the entries within one entry above (`InOrder`); it needs `USER_ACCESS`, which
    `mm_map` checks for each vma. From the invariant to `PagesOwned` (`SpacesOwned`) one goes up: an entry is known by the page it points
    to, and so is the entry above it, up to the directory and the process that has it.
    The proof changed the model: its folds became recursive functions, and `mm_map` got the check of `USER_ACCESS` that had been left out.
    The panics are outside: after one (`panic # "no"`) the kernel does nothing more. And it says nothing of what is lost
    (`NoTableLost`, section 6).

  They rest on `ResourcesAssumption` (there are finitely many processes, init is one; the bounds are natural numbers), and the
  last one on `MemoryAssumption`, which says of Paging that sizes are not 0 and that programs are sequences of segments, whatever these are.
* **ContextProofs** is about Context: registers and stacks, for any set of threads.
  - `OwnContextHolds`: `OwnContext` of the run `programs`, which speaks of a thread whose code is running. What lets it be true is
    all in what was saved while it was not: `Suspended(t)` says of each thread that is switched out which of three places its
    context leads to (the middle of a trap, the line after `schedule()`, `forkret`), and that the frame it will restore is complete and where the
    code will look for it; `Running` says the same of the current thread at each of the places where an interrupt may
    come. A timer interrupt nests at most once, and what it pushes lies above the frame of the program.
    The case with most to it is `RESTORE_ALL`, entered from `trap`, from `forkret` and by `kernel_execve`: in the last case with interrupts on.
  - `WholeHolds`: the invariant itself. It says nothing after an interrupt has come between the setting of `sscratch` and the
    clearing of SIE (`torn`), which is the fault of section 6; that is what the definition of `OwnContext` excludes as well.

  They rest on `ContextAssumption`: idle is a thread, and no thread has the name of one of the marks ("zero", "user",
  "boot_pgdir") that stand where an address belongs to no thread.

* **SfsProofs** is about Sfs: files, blocks and the calls in progress.
  - `BlocksOwnedHolds`: `BlocksOwned` of the run `files`, which counts the places that name a block. What is inductive is about the
    places (`Owned`): each direct slot, each entry of an indirect block and each `indirect` field; no two of them that are not 0 name the
    same block, and none names a free one. That an entry of an indirect block changes only when it is meant needs
    `Owned` itself, because the indirect block is a block like others: if data could be written to it, the data would be read as
    numbers of blocks. A new indirect block names nothing because `sfs_block_alloc` clears it: without this (the mutant of
    `ContentsKept`) the proof of `CreateIndirectGood` has no beginning. The last close of an inode that is not dirty loses what is in
    memory only; `Clean` says that its blocks are then the same on the disk. That `blocks` may differ (section 6) does no harm to it.
  - `SfsInvHolds`: the inductive invariant, with the types of inodes, blocks and calls. `SfsInv` was checked by TLC with
    the constants of the run and positions up to 4 (5,260,429 states) before it was proved.

  - `ContentsKeptHolds`: the action property `ContentsKept` of the same run. It is about words, so that each of the lemmas above also says
    what every place holds afterwards: the same (`Same`), the same but for one block that is gone (`Emptied`), or but for the block that is
    written. That a change of a free block, of an indirect block or of the block of one place is seen from no other place is one
    lemma, `HoldsKept`. The rest is arithmetic: `offset` of `sfs_io_nolock` is where the position will be as long as anything is left to
    do (`Aligned`; the last block of a call breaks it, section 6), and a number has one quotient and one rest (`DivUnique`), for a symbolic size of block.

  They rest on `SfsAssumption`: the numbers of blocks, of direct slots and of words in a block are natural numbers, the last one is not 0.
  The proof found two `CASE` expressions with arms that overlapped (`Bmap`, `Truncated`), of which TLC takes the first; they have disjoint arms now.

Out of the prover's reach, and left to TLC: everything under fairness (in `sync`, `dinner` and `proctable`), and what
RECURSIVE operators compute (of Libs and its like). Model-checked only, so far, and not out of reach: `Counted`, and the
refinements of pages, heaps, address spaces and files, for which `FamilyImplemented` and `TimersImplemented` show a way through recursive functions.
`HeapOfReady`, `SharesKept`, `KeysRead`, `PagesWhole`, `HeapsWhole`, `ImageRight`, `TextRight` and `LinesRun` are each about recursive data, about
the whole history of what was typed or run, or say what a program with loops has computed at its end.

## 5. What the properties rest on

Each property has a mutant in `PROJECT.json`: a plausible slip in one definition that makes TLC
find the property violated. Properties that hold whatever the code does were left out. A property of
a sum that has several parts (`TextRight`, `ImageRight`, `HeapsWhole`, ...) has the mutant of one of them there.

## 6. Known disagreements

Between the code and what it says of itself. Five of them have a run:

* **A page is allocated twice** (`pmm_twice`). `default_free_pages` and `best_fit_free_pages` go on
  with their loop after `list_add` has put the block at the end of the list; the next round visits the
  block itself and adds it after itself, so that its `prev` points to itself. It is then not unlinked when
  it is allocated, and not merged with the block before it. `basic_check` asserts
  `p0 != p1 && p0 != p2 && p1 != p2`.
* **The size of a file is overstated** (`sfs_assert`). `sfs_io_nolock` adds `alen` to an `offset` that
  has been advanced already. A later write at the overstated end fails
  `assert(index <= din->blocks)`. The same assertion fails at a position that another open file's truncation has left
  behind.
* **The lowest stride is not picked** (`stride_min`). `lab6_priority` is 0 until it is set; `BIG_STRIDE / 0`
  is 2^32-1 on RISC-V, which steps the stride back by one.
* **A page table is lost** (`tables_lost`). `exit_range` is called vma by vma and frees a directory by the entries
  that lie in that vma only; another vma's table in it is never freed.
* **A program begins with registers of the kernel** (`execve_scratch`). `kernel_execve` enters `RESTORE_ALL` with
  interrupts on; a timer interrupt after `sscratch` is set takes the frame of the new program for free stack.

Others were met while modelling. The first eight can be stated with definitions of the modules, and no
run is spent on them:

* `do_wait` sleeps without looking at `PF_EXITING`; a process flagged while it was runnable and about to return to
  user code may then sleep for ever (`KilledDies` in Process). `kill(1)` makes init exit, and the kernel panic.
* A reader of the keyboard that is killed and told of a character before it runs goes back to sleep
  (`KilledReaderDies` in Stdin).
* `do_fork` copies the files after the child is linked and runnable; on failure it frees a process that is in the
  run queue (`NoFreedProc` in Resources, with `"files"` in `FailAt`).
* `do_exit` puts the files only of a process with an `mm`; after a failed exec there is none
  (`FilesFreed`; `lost` in Files).
* `load_icode` frees `ph` after having moved it, and does not free it at all on success (`NoWildFree`,
  `HeadersFreed`); the pages of the user stack are asserted instead of checked (`StackAsserts`); it leaves the
  descriptor of the executable open.
* `kmalloc` of sizes just under a page fails an assertion, although its comment sends only objects of a page or larger
  to `__get_free_pages` (`NoAssertFails` in Slob). `find_order` drops the remainder when it halves a size: `kmalloc(8193)` gets two
  pages, and every size of 2^k pages and less than 2^k bytes more gets 2^k pages. `ImplementsHeaps` is about what is
  granted (`Granted`).
* A path with a slash is not found (`PathsFound` in Image, which TLC finds violated): `sfs_lookup` hands the whole of its path to
  `sfs_lookup_once`, which compares it with the names of entries; its comment says that it parses the path. What `mksfs` puts into
  nested directories can only be reached by a change of directory, for which the kernel has no system call.
* `strtol` takes the prefix `0x` only, although its comment says "0x" or "0X"; of `0X1f` it converts the 0 (`PrefixRead` in Libs, violated).
* `sfs_bmap_load_nolock` raises `din->blocks` without setting `dirty` if the block is entered in an indirect block
  that exists: the block may then survive `O_TRUNC` after a close and an open, although `unistd.h` says
  "truncate file upon open", and come back with its old words when the file grows.
* `vfs_open` keeps the reference taken by `vfs_lookup` when it returns `-E_EXISTS`, and looks the path up a second
  time for `O_CREAT` although `get_device` has already cut it at the colon.
* `__vop_op` asserts that an operation exists: reading or seeking in a directory, `getdirentry` of a file (`inode.h` says
  ENOTDIR), `fsync` of the console and opening a missing name with `O_CREAT` (so the shell's `> newfile`) panic.
* `sysfile_read` loses the chunk that it cannot copy to a bad buffer. `user_mem_check` looks at vmas, of which not all pages are
  mapped; the fault of the kernel is then taken and retried for ever.
* `mksfs` accepts names of up to 255 characters but writes 256 bytes of an entry that begins with a number of 4: names of 253 to 255 are
  cut to 252, and are not found; two of them, or one and a shorter name, may then be the same (`OnDisk` in Image). A NAME that is longer than 255 characters, a path of
  short names included, fails the assertion of `sfs_dirent_search_nolock` (`Fails` in Volume).
* `mksfs` accepts files that need a double indirect block, which the kernel cannot read, and symbolic links, which it does not look up.
  `sfs_namefile` refuses a buffer with exactly two bytes left.
* The shell opens the name of a redirection before `gettoken` has ended its word: the name goes on to the end of the line. So `<a;b`, `<a b` and
  even `<a` with a blank behind it look for a file that is not there and end the line, and `>a;b` makes the kernel panic, as `> newfile` does. A redirection
  works at the end of a line only, and never reaches a command behind a `;` (`Opens` in Shell). Quotation marks become blanks inside
  the word, `cd` has no effect, a pipe uses an uninitialised `p[]`; a fork that fails in `main` ends the shell by an assertion.
* A full ring of stdin overwrites its oldest slot with the newest character, which is then read first; a full ring of the console looks empty.
* Numbers are padded with `-` under the `-` flag; `%.0s` prints everything. `strcat` returns where `dst` ended before, not `dst`; its comment promises neither.

## 7. What is not modelled, and why

* Drivers, boot code, the device tree, interrupt controller, the monitor of the debugger and its symbol tables, and
  the test programs in `user/`: sequential code that sets hardware registers or keeps no state across calls.
* The earlier copies of the kernel, as far as a later copy has the same code. A source line is mapped in one copy
  only, the last one that has it. Of about 52,800 lines some 10,000 are seven copies of `riscv.h` (constants and macros of
  the instruction set) and most of the rest stand in two to seven directories word for word; this is why the share of
  lines behind the modules is low although nearly every function of lab8 that changes state is modelled.
* In Process: memory contents, process names, exit codes; CLONE_VM and CLONE_FS, which no system call passes.
* In Sfs: I/O errors (the ramdisk has none), `nlinks`. Sizes are in words and blocks are small, as the
  proportions do not matter to the loops. The locks of SFS, which nobody ever waits for (section 1).
* In Volume: `vfs_unmount`, `vfs_unmount_all`, `vfs_add_fs` and `sysfile_chdir`, which have no callers.
* In Transfer: the loop of `disk0_io` over several buffers, which cannot be reached from SFS.
* In Paging: the mapping of the kernel at boot and the TLB.
* In Resources, as checked: a failing `copy_files` (the model has it; section 6 says why the run and `ConservedHolds` leave it out).
* In Image: the contents of links, which the kernel does not look up.
* In Shell: pipes; what a program does with a descriptor, and its exit code.

## 8. Plan

Done, in this order: Sched, Timers, Process, their proofs (types, run queue, sleepers, parents, init); TimerList; the synchronisation modules with the
proof of Semaphore; ProcTable with the proof of get_pid, ProcLinks; Resources with its proof; the page allocators; Sfs; then Paging, Slob, Slub,
Stride, Walk, Files, Image, Volume, Transfer, Context with its proof, the libraries and the shell, under five sums;
the table of processes as a whole with its proof; the proof of Sfs; the proof of CheckSync; the refinements of the family and of the timers; the proof of Walk; the proof of Paging; waiting for one child in Walk, sizes in bytes in Slob, long names and paths in Image.

Next:

1. Proofs: `Counted` of Files (its counters are sums over a finite set, and
   need the theorems on cardinality), and the refinement of pages.
2. Stride with `BIG_STRIDE` and the modulus as in the code: the order of strides is proved for every modulus of which
   half is at least the spread.
3. Files over Sfs in one module, with the sizes that Sfs computes.

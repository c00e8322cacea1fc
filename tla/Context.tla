------------------------------ MODULE Context -------------------------------
(***************************************************************************)
(* Registers and stacks of threads in lab8: what trap/trapentry.S saves    *)
(* when a trap comes and restores after it, what process/switch.S saves    *)
(* and loads between two threads, the frames that copy_thread, load_icode  *)
(* and kernel_execve make for threads that have not run yet, and sscratch, *)
(* by which a trap knows which stack to use.                               *)
(*                                                                         *)
(* Traps are taken in user code, and in a kernel thread whenever its       *)
(* interrupts are on, between any two steps.  Which thread schedule()      *)
(* chooses is any of them: that is module Sched's.  A stack pointer is a   *)
(* thread's kernel stack with a number of frames on it, or a user stack;   *)
(* what C functions have on a stack is gone when they return, and is left  *)
(* out.  What nobody may look at again, a frame that has been unwound or   *)
(* the context of a thread that runs, is overwritten with nothing, so that *)
(* it would be noticed.  Places of cpu.pc:                                 *)
(*   "user"  "kcode"    code of a program, of a kernel thread              *)
(*   "trap"             in trap(), after SAVE_ALL                          *)
(*   "forkret"          the first place of a new thread                    *)
(*   "restore" 1, 2, 3  RESTORE_ALL: from __trapret on, after sscratch,    *)
(*                      after sstatus                                      *)
(*   "loading" "loaded" kernel_execve, before and after do_execve          *)
(***************************************************************************)
EXTENDS Integers, FiniteSets

CONSTANTS
  Thread,  \* the idle thread and slots for others
  Idle

VARIABLES
  cpu,      \* the registers, with the current thread as cur
  context,  \* proc->context, with what the stack says at that place
  tf,       \* proc->tf
  stack,    \* the frames on each kernel stack
  pgdir,    \* proc->pgdir: boot_pgdir, or that of a process
  live,     \* the threads that there are
  own,      \* what each thread's code has in its registers
  torn      \* a kernel thread was interrupted while sscratch was set

vars == <<cpu, context, tf, stack, pgdir, live, own, torn>>

(* The names that pointers and page tables have beside threads are not     *)
(* those of threads.                                                       *)
ASSUME ContextAssumption ==
  Idle \in Thread /\ Thread \cap {"zero", "user", "boot_pgdir"} = {}

Boot     == "boot_pgdir"
Zero     == [of |-> "zero", n |-> 0]   \* a pointer that is 0
UserSp   == [of |-> "user", n |-> 0]
Top(t)   == [of |-> t, n |-> 0]
First(t) == [of |-> t, n |-> 1]
(* A frame more, a frame less.                                             *)
(* Mutant: sscratch gets the stack pointer with the frame still on it.     *)
Pushed(sp)     == [sp EXCEPT !.n = @ + 1]
UnwoundNot(sp) == sp
Unwound(sp)    == [sp EXCEPT !.n = @ - 1]

(* Values of the registers a0, of those a call may change (t) and of those *)
(* it may not (s): a zero, what kernel code left, or what a thread put in. *)
Nought == <<"zero", 0>>
Junk   == <<"junk", 0>>

(* sstatus.SPP, sstatus.SPIE and sepc, where they matter.                  *)
NoCsr     == <<"none", FALSE, "none">>
Regs(v)   == [a0 |-> v, t |-> v, s |-> v, csr |-> NoCsr]
(* What a call leaves of them.                                             *)
Called(r) == [Regs(Junk) EXCEPT !.s = r.s]
FrameAt(sp) == stack[sp.of][sp.n]
NoFrame   == [sp |-> Zero, regs |-> Regs(Nought), spp |-> "S", spie |-> FALSE,
              epc |-> "none", otf |-> Zero, cause |-> "none"]

Empty     == [n \in 1..2 |-> NoFrame]
NoOwn     == [sp |-> Zero, regs |-> Regs(Nought)]
NoContext == [ra |-> "none", sp |-> Zero, s |-> Nought, flag |-> FALSE]

Put(sp, frame)  == [stack EXCEPT ![sp.of][sp.n] = frame]
At(pc)          == cpu.pc = pc

(* idt_init; kern_init goes on as the idle thread, with interrupts on.     *)
Init ==
  /\ cpu = [cur |-> Idle, pc |-> "kcode", mode |-> "S", sie |-> TRUE, csr |-> NoCsr,
            sscratch |-> Zero, satp |-> Boot, sp |-> Top(Idle), regs |-> Regs(Nought)]
  /\ context = [t \in Thread |-> NoContext]
  /\ tf      = [t \in Thread |-> Zero]
  /\ stack   = [t \in Thread |-> Empty]
  /\ pgdir   = [t \in Thread |-> Boot]
  /\ live    = {Idle}
  /\ own     = [t \in Thread |-> IF t = Idle THEN [NoOwn EXCEPT !.sp = Top(Idle)] ELSE NoOwn]
  /\ torn    = FALSE

-----------------------------------------------------------------------------
(* A trap: what the processor does, SAVE_ALL, and trap() up to the         *)
(* dispatch.  SAVE_ALL takes the stack in sscratch, if there is one.       *)
Trap(cause) ==
  LET base == IF cpu.sscratch # Zero THEN cpu.sscratch ELSE cpu.sp
      sp   == Pushed(base)
  IN
  /\ IF cause = "ecall" THEN At("user") ELSE cpu.mode = "U" \/ cpu.sie
  /\ stack' = Put(sp, [sp |-> cpu.sp, regs |-> cpu.regs, spp |-> cpu.mode, spie |-> cpu.sie,
                       epc |-> cpu.pc, otf |-> tf[cpu.cur], cause |-> cause])
  /\ cpu' = [cpu EXCEPT !.pc = "trap", !.mode = "S", !.sie = FALSE, !.csr = NoCsr,
                        !.sscratch = Zero, !.sp = sp, !.regs = Regs(Junk)]
  /\ tf' = [tf EXCEPT ![cpu.cur] = sp]
  /\ torn' = (torn \/ (cpu.mode = "S" /\ cpu.sscratch # Zero))
  /\ UNCHANGED <<context, pgdir, live, own>>

(* The end of trap(), after which __trapret follows.                       *)
TrapEnd ==
  /\ At("trap") /\ FrameAt(cpu.sp).cause # "ecall"
  /\ tf'  = [tf EXCEPT ![cpu.cur] = FrameAt(cpu.sp).otf]
  /\ cpu' = [cpu EXCEPT !.pc = "restore1"]
  /\ UNCHANGED <<context, stack, pgdir, live, own, torn>>

(* RESTORE_ALL.                                                            *)
Restore1 ==
  LET frame == FrameAt(cpu.sp) IN
  /\ At("restore1")
  /\ cpu' = [cpu EXCEPT !.pc = "restore2",
                        !.regs.csr = <<frame.spp, frame.spie, frame.epc>>,
                        !.sscratch = IF frame.spp = "U" THEN Unwound(cpu.sp) ELSE @]
  /\ UNCHANGED <<context, tf, stack, pgdir, live, own, torn>>

Restore2 ==
  /\ At("restore2")
  /\ cpu' = [cpu EXCEPT !.pc = "restore3", !.sie = FALSE, !.csr = cpu.regs.csr]
  /\ UNCHANGED <<context, tf, stack, pgdir, live, own, torn>>

(* The registers, and sret.                                                *)
Restore3 ==
  LET frame == FrameAt(cpu.sp) IN
  /\ At("restore3")
  /\ cpu' = [cpu EXCEPT !.pc = cpu.csr[3], !.mode = cpu.csr[1], !.sie = cpu.csr[2],
                        !.csr = NoCsr, !.sp = frame.sp, !.regs = frame.regs]
  /\ stack' = IF frame.sp = cpu.sp THEN stack ELSE Put(cpu.sp, NoFrame)
  /\ UNCHANGED <<context, tf, pgdir, live, own, torn>>

-----------------------------------------------------------------------------
(* schedule(), proc_run and switch_to: the current thread leaves behind    *)
(* what it needs, and the next one goes on.  The flag is the one that      *)
(* schedule() restores at its end.                                         *)
Saved(place) == [ra |-> place, sp |-> cpu.sp, s |-> cpu.regs.s, flag |-> cpu.sie]

Loaded(next) ==
  LET c == context[next] IN
  [cpu EXCEPT !.cur = next, !.pc = c.ra, !.sp = c.sp, !.sie = c.flag, !.satp = pgdir[next],
              !.regs = [Regs(Junk) EXCEPT !.s = c.s]]

Switch(next, left) ==
  /\ next \in live \ {cpu.cur}
  /\ context' = [context EXCEPT ![cpu.cur] = left, ![next] = NoContext]
  /\ cpu' = Loaded(next)

(* A thread that has been trapped in user mode blocks, or has to give way  *)
(* at the end of trap().                                                   *)
Block(next) ==
  /\ At("trap") /\ FrameAt(cpu.sp).spp = "U"
  /\ Switch(next, Saved("trap"))
  /\ UNCHANGED <<tf, stack, pgdir, live, own, torn>>

(* A kernel thread calls a function that blocks; what a call may change is *)
(* then lost.                                                              *)
Yield(next) ==
  /\ At("kcode")
  /\ Switch(next, Saved("kcode"))
  /\ own' = [own EXCEPT ![cpu.cur].regs = Called(@)]
  /\ UNCHANGED <<tf, stack, pgdir, live, torn>>

(* do_exit: never comes back, and leaves its slot for another.             *)
Exit(next) ==
  /\ \/ At("trap") /\ FrameAt(cpu.sp).spp = "U"
     \/ At("kcode") /\ cpu.cur # Idle
  /\ Switch(next, NoContext)
  /\ live'  = live \ {cpu.cur}
  /\ tf'    = [tf EXCEPT ![cpu.cur] = Zero]
  /\ stack' = [stack EXCEPT ![cpu.cur] = Empty]
  /\ pgdir' = [pgdir EXCEPT ![cpu.cur] = Boot]
  /\ own'   = [own EXCEPT ![cpu.cur] = NoOwn]
  /\ UNCHANGED torn

(* forkret and forkrets.                                                   *)
ForkRet ==
  /\ At("forkret")
  /\ cpu' = [cpu EXCEPT !.sp = tf[cpu.cur], !.pc = "restore1"]
  /\ UNCHANGED <<context, tf, stack, pgdir, live, own, torn>>

-----------------------------------------------------------------------------
(* copy_thread for the new thread c with a frame to start from; alloc_proc *)
(* gives it the page table of the kernel, copy_mm one of its own if the    *)
(* parent has one.                                                         *)
Copied(c, frame) ==
  /\ live' = live \cup {c}
  /\ tf'   = [tf EXCEPT ![c] = First(c)]
  /\ context' = [context EXCEPT ![c] = [ra |-> "forkret", sp |-> First(c), s |-> Nought,
                                        flag |-> FALSE]]
  /\ pgdir' = [pgdir EXCEPT ![c] = IF pgdir[cpu.cur] = Boot THEN Boot ELSE c]

(* The registers that a frame stands for.                                  *)
Meant(frame) == [sp |-> frame.sp, regs |-> frame.regs]

(* fork of a program: the child goes on like its parent, with another a0.  *)
Fork(c) ==
  LET here  == tf[cpu.cur]
      child == [FrameAt(here) EXCEPT !.regs.a0 = Nought]
      mine  == [FrameAt(here) EXCEPT !.regs.a0 = <<"pid", 0>>, !.cause = "done"]
  IN
  /\ At("trap") /\ FrameAt(here).cause = "ecall" /\ c \notin live
  /\ Copied(c, child)
  /\ stack' = [Put(here, mine) EXCEPT ![c][1] = [child EXCEPT !.otf = Zero, !.cause = "none"]]
  /\ own' = [own EXCEPT ![c] = [@ EXCEPT !.sp = own[cpu.cur].sp,
                                         !.regs = [own[cpu.cur].regs EXCEPT !.a0 = Nought]],
                        ![cpu.cur].regs.a0 = <<"pid", 0>>]
  /\ UNCHANGED <<cpu, torn>>

(* Any other system call: its result is in a0.                             *)
Syscall ==
  LET here == tf[cpu.cur] IN
  /\ At("trap") /\ FrameAt(here).cause = "ecall"
  /\ stack' = Put(here, [FrameAt(here) EXCEPT !.regs.a0 = <<"ret", 0>>, !.cause = "done"])
  /\ own' = [own EXCEPT ![cpu.cur].regs.a0 = <<"ret", 0>>]
  /\ UNCHANGED <<cpu, context, tf, pgdir, live, torn>>

(* kernel_thread: the frame of a thread that begins with a function.       *)
KernelThread(c) ==
  LET frame == [NoFrame EXCEPT !.sp = First(c), !.regs = [Regs(Nought) EXCEPT !.s = <<"fn", 0>>],
                               !.spp = "S", !.spie = TRUE, !.epc = "kcode"]
  IN
  /\ At("kcode") /\ c \notin live
  /\ Copied(c, frame)
  /\ stack' = [stack EXCEPT ![c][1] = frame]
  /\ own' = [own EXCEPT ![c] = Meant(frame),
                        ![cpu.cur].regs = Called(@)]
  /\ cpu' = [cpu EXCEPT !.regs = Called(@)]
  /\ UNCHANGED torn

-----------------------------------------------------------------------------
(* The frame that load_icode makes at current->tf, for a new program, and  *)
(* its page table.                                                         *)
Program == [NoFrame EXCEPT !.sp = UserSp, !.spp = "U", !.spie = TRUE, !.epc = "user"]

LoadIcode(frame) ==
  /\ stack' = Put(tf[cpu.cur], frame)
  /\ pgdir' = [pgdir EXCEPT ![cpu.cur] = cpu.cur]
  /\ own'   = [own EXCEPT ![cpu.cur] = Meant(Program)]

Exec ==
  LET here == FrameAt(tf[cpu.cur]) IN
  /\ At("trap") /\ here.cause = "ecall"
  /\ LoadIcode([Program EXCEPT !.otf = here.otf, !.cause = "done"])
  /\ cpu' = [cpu EXCEPT !.satp = cpu.cur]
  /\ UNCHANGED <<context, tf, live, torn>>

(* kernel_execve: the frame at the top of the stack, do_execve, and off to *)
(* __trapret, with interrupts on.                                          *)
Execve ==
  /\ At("kcode") /\ cpu.cur # Idle
  /\ stack' = Put(First(cpu.cur), FrameAt(tf[cpu.cur]))
  /\ tf'  = [tf EXCEPT ![cpu.cur] = First(cpu.cur)]
  /\ cpu' = [cpu EXCEPT !.pc = "loading", !.regs = Regs(Junk)]
  /\ UNCHANGED <<context, pgdir, live, own, torn>>

ExecveLoads ==
  /\ At("loading")
  /\ LoadIcode(Program)
  /\ cpu' = [cpu EXCEPT !.pc = "loaded", !.satp = cpu.cur]
  /\ UNCHANGED <<context, tf, live, torn>>

ExecveEnds ==
  /\ At("loaded")
  /\ cpu' = [cpu EXCEPT !.sp = First(cpu.cur), !.pc = "restore1"]
  /\ UNCHANGED <<context, tf, stack, pgdir, live, own, torn>>

(* A thread's own code, which uses all of its registers.                   *)
Step(v) ==
  /\ At("user") \/ At("kcode")
  /\ cpu' = [cpu EXCEPT !.regs = Regs(<<cpu.cur, v>>)]
  /\ own' = [own EXCEPT ![cpu.cur].regs = Regs(<<cpu.cur, v>>)]
  /\ UNCHANGED <<context, tf, stack, pgdir, live, torn>>

Next ==
  \/ \E cause \in {"timer", "ecall"} : Trap(cause)
  \/ TrapEnd \/ Restore1 \/ Restore2 \/ Restore3 \/ ForkRet
  \/ \E t \in Thread : Block(t) \/ Yield(t) \/ Exit(t)
  \/ \E c \in Thread : Fork(c) \/ KernelThread(c)
  \/ Syscall \/ Exec \/ Execve \/ ExecveLoads \/ ExecveEnds
  \/ \E v \in {0, 1} : Step(v)

Spec == Init /\ [][Next]_vars

-----------------------------------------------------------------------------
(* Whatever came between, a thread's code finds in its registers what it   *)
(* had there, or what fork and exec have promised it; on its own stack, in *)
(* its own address space, in its own mode, with interrupts on.  And then   *)
(* sscratch says where the next trap is to go: to the top of the kernel    *)
(* stack, which is empty, or nowhere else.                                 *)
Same(r, w) == r.s = w.s /\ (w.t # Junk => r.a0 = w.a0 /\ r.t = w.t)

RightContext ==
  At("user") \/ At("kcode") =>
    /\ cpu.sie /\ cpu.cur \in live
    /\ cpu.mode = IF At("user") THEN "U" ELSE "S"
    /\ cpu.sscratch = IF At("user") THEN Top(cpu.cur) ELSE Zero
    /\ cpu.satp = pgdir[cpu.cur]
    /\ cpu.sp = own[cpu.cur].sp /\ Same(cpu.regs, own[cpu.cur].regs)

(* So it is unless a kernel thread was interrupted within RESTORE_ALL: only *)
(* kernel_execve goes there with interrupts on.                            *)
OwnContext == ~torn => RightContext
=============================================================================

--------------------------- MODULE ContextProofs ----------------------------
(***************************************************************************)
(* Theorems about registers and stacks (module Context), for any set of    *)
(* threads.                                                                *)
(*                                                                         *)
(* OwnContext speaks of a thread while its own code runs.  Why it holds is *)
(* in what is kept in between: the frame or the context from which the     *)
(* thread goes on has its registers, its stack pointer and its mode, and   *)
(* is where the code looks for it (Running for the current thread,         *)
(* Suspended for the others), as long as no kernel thread was interrupted  *)
(* while sscratch was set.                                                 *)
(***************************************************************************)
EXTENDS Context, TLAPS

Place == {"user", "kcode", "trap", "forkret", "restore1", "restore2", "restore3",
          "loading", "loaded", "none"}
Pointer == [of : Thread \cup {"zero", "user"}, n : Int]
Value   == (Thread \cup {"zero", "junk", "fn", "pid", "ret"}) \X {0, 1}
Csr     == {"none", "S", "U"} \X BOOLEAN \X Place
RegFile == [a0 : Value, t : Value, s : Value, csr : Csr]
Frame   == [sp : Pointer, regs : RegFile, spp : {"S", "U"}, spie : BOOLEAN, epc : Place,
            otf : Pointer, cause : {"none", "timer", "ecall", "done"}]

TypeOK ==
  /\ cpu \in [cur : Thread, pc : Place, mode : {"none", "S", "U"}, sie : BOOLEAN, csr : Csr,
              sscratch : Pointer, satp : Thread \cup {Boot}, sp : Pointer, regs : RegFile]
  /\ context \in [Thread -> [ra : Place, sp : Pointer, s : Value, flag : BOOLEAN]]
  /\ tf \in [Thread -> Pointer]
  /\ stack \in [Thread -> [1..2 -> Frame]]
  /\ pgdir \in [Thread -> Thread \cup {Boot}]
  /\ live \subseteq Thread
  /\ own \in [Thread -> [sp : Pointer, regs : RegFile]]

(* Where the code of a kernel thread has its stack pointer: idle began at  *)
(* the top, the others below the frame that kernel_thread made.            *)
Ground(t) == IF t = Idle THEN Top(t) ELSE First(t)

(* The frame f takes t back to its program, or to its function.            *)
UserFrame(t, f) ==
  /\ t # Idle /\ f.epc = "user" /\ f.spp = "U" /\ f.spie
  /\ f.sp = own[t].sp /\ Same(f.regs, own[t].regs)

CodeFrame(t, f) ==
  /\ f.epc = "kcode" /\ own[t].sp = Ground(t) /\ Same(f.regs, own[t].regs)

(* t is a kernel thread that has its frame at the top of its stack.        *)
Framed(t) == t # Idle => tf[t] = First(t)

(* The frame f of a trap that has interrupted t in the kernel; where that  *)
(* was on the way to a new program, its frame is at the top of the stack.  *)
KernelFrame(t, f) ==
  /\ f.spp = "S" /\ f.spie /\ f.sp = Ground(t) /\ f.cause # "ecall"
  /\ \/ CodeFrame(t, f)
     \/ t # Idle /\ f.epc = "loading"
     \/ t # Idle /\ f.epc \in {"loaded", "restore1"} /\ UserFrame(t, stack[t][1])

(* The frame that kernel_thread has made for t.                            *)
FirstFrame(t) ==
  LET f == stack[t][1] IN
  /\ t # Idle /\ tf[t] = First(t)
  /\ f.spp = "S" /\ f.spie /\ f.sp = First(t) /\ CodeFrame(t, f)

(* What the current thread goes on from, at the frame that cpu.sp is at.   *)
InTrap(t) ==
  LET f == stack[t][cpu.sp.n] IN
  /\ tf[t] = cpu.sp
  /\ \/ cpu.sp = First(t) /\ UserFrame(t, f)
     \/ cpu.sp = Pushed(Ground(t)) /\ KernelFrame(t, f) /\ (t # Idle => f.otf = First(t))

Restores(t) ==
  LET f == stack[t][cpu.sp.n] IN
  \/ cpu.sp = First(t) /\ UserFrame(t, f) /\ (cpu.sie => t # Idle /\ tf[t] = First(t))
  \/ cpu.sp = Pushed(Ground(t)) /\ KernelFrame(t, f) /\ Framed(t) /\ ~cpu.sie
  \/ cpu.sp = First(t) /\ FirstFrame(t) /\ ~cpu.sie

Scratch(t) ==
  cpu.sscratch = IF stack[t][cpu.sp.n].spp = "U" THEN Top(t) ELSE Zero

FrameCsr(f) == <<f.spp, f.spie, f.epc>>

Running ==
  LET t == cpu.cur IN
  /\ t \in live /\ Idle \in live /\ cpu.satp = pgdir[t]
  /\ cpu.mode = IF At("user") THEN "U" ELSE "S"
  /\ cpu.pc # "none"
  /\ cpu.pc \in {"kcode", "trap", "forkret", "restore1", "loading", "loaded"}
       => cpu.sscratch = Zero
  /\ cpu.pc \in {"user", "kcode", "loading", "loaded"} => cpu.sie
  /\ cpu.pc \in {"trap", "forkret", "restore3"} => ~cpu.sie
  /\ At("user") =>
       /\ t # Idle /\ cpu.sscratch = Top(t)
       /\ cpu.sp = own[t].sp /\ Same(cpu.regs, own[t].regs)
  /\ At("kcode") =>
       /\ cpu.sp = Ground(t) /\ own[t].sp = Ground(t) /\ Same(cpu.regs, own[t].regs)
       /\ Framed(t)
  /\ At("trap") => InTrap(t)
  /\ At("forkret") =>
       tf[t] = First(t) /\ (UserFrame(t, stack[t][1]) \/ FirstFrame(t))
  /\ At("restore1") => Restores(t)
  /\ At("restore2") =>
       Restores(t) /\ Scratch(t) /\ cpu.regs.csr = FrameCsr(stack[t][cpu.sp.n])
  /\ At("restore3") =>
       Restores(t) /\ Scratch(t) /\ cpu.csr = FrameCsr(stack[t][cpu.sp.n])
  /\ cpu.pc \in {"loading", "loaded"} => t # Idle /\ cpu.sp = First(t) /\ tf[t] = First(t)
  /\ At("loaded") => UserFrame(t, stack[t][1])

(* What another thread goes on from when it is switched to.                *)
Suspended(t) ==
  LET c == context[t] IN
  \/ /\ c.ra = "trap" /\ ~c.flag /\ c.sp = First(t) /\ tf[t] = First(t)
     /\ UserFrame(t, stack[t][1])
  \/ /\ c.ra = "kcode" /\ c.flag /\ c.sp = Ground(t) /\ own[t].sp = Ground(t) /\ Framed(t)
     /\ own[t].regs.t = Junk /\ own[t].regs.s = c.s
  \/ /\ c.ra = "forkret" /\ ~c.flag /\ c.sp = First(t) /\ tf[t] = First(t)
     /\ UserFrame(t, stack[t][1]) \/ FirstFrame(t)

Whole == TypeOK /\ Running /\ \A t \in live \ {cpu.cur} : Suspended(t)

IInv == torn \in BOOLEAN /\ (~torn => Whole)

-----------------------------------------------------------------------------
(* Pointers to the stack of t: one frame more, one less; none is zero.     *)
LEMMA Pointers ==
  /\ Zero \in Pointer /\ UserSp \in Pointer
  /\ \A p \in Pointer : Pushed(p) \in Pointer /\ Unwound(p) \in Pointer
  /\ \A t \in Thread :
       /\ Top(t) \in Pointer /\ First(t) \in Pointer /\ Ground(t) \in Pointer
       /\ Top(t) # Zero /\ First(t) # Zero /\ Ground(t) # Zero
       /\ First(t).of = t /\ First(t).n = 1
       /\ Pushed(Top(t)) = First(t) /\ Unwound(First(t)) = Top(t)
       /\ Pushed(First(t)).of = t /\ Pushed(First(t)).n = 2
       /\ Pushed(Ground(t)) = IF t = Idle THEN First(t) ELSE Pushed(First(t))
       /\ Pushed(Ground(t)) # Ground(t) /\ Top(t) # First(t)
       /\ t # Idle => Pushed(Ground(t)) # First(t) /\ Ground(t) = First(t)
<1> USE ContextAssumption
<1>1. Zero \in Pointer /\ UserSp \in Pointer
  BY DEF Zero, UserSp, Pointer
<1>2. ASSUME NEW p \in Pointer
      PROVE  Pushed(p) \in Pointer /\ Unwound(p) \in Pointer
  BY DEF Pointer, Pushed, Unwound
<1>3. ASSUME NEW t \in Thread
      PROVE  /\ Top(t) \in Pointer /\ First(t) \in Pointer /\ Ground(t) \in Pointer
             /\ Top(t) # Zero /\ First(t) # Zero /\ Ground(t) # Zero
             /\ First(t).of = t /\ First(t).n = 1
             /\ Pushed(Top(t)) = First(t) /\ Unwound(First(t)) = Top(t)
             /\ Pushed(First(t)).of = t /\ Pushed(First(t)).n = 2
             /\ Top(t) # First(t) /\ Pushed(First(t)) # First(t)
  BY <1>3 DEF Pointer, Top, First, Ground, Zero, Pushed, Unwound
<1>4. ASSUME NEW t \in Thread
      PROVE  /\ Pushed(Ground(t)) = IF t = Idle THEN First(t) ELSE Pushed(First(t))
             /\ Pushed(Ground(t)) # Ground(t)
             /\ t # Idle => Pushed(Ground(t)) # First(t) /\ Ground(t) = First(t)
  BY <1>3 DEF Ground
<1> QED
  BY <1>1, <1>2, <1>3, <1>4

LEMMA Types ==
  /\ NoFrame \in Frame /\ Program \in Frame /\ Empty \in [1..2 -> Frame]
  /\ NoContext \in [ra : Place, sp : Pointer, s : Value, flag : BOOLEAN]
  /\ NoOwn \in [sp : Pointer, regs : RegFile]
  /\ NoCsr \in Csr /\ Nought \in Value /\ Junk \in Value
  /\ <<"fn", 0>> \in Value /\ <<"pid", 0>> \in Value /\ <<"ret", 0>> \in Value
  /\ \A t \in Thread, v \in {0, 1} : <<t, v>> \in Value
  /\ \A v \in Value : Regs(v) \in RegFile
  /\ \A r \in RegFile : Called(r) \in RegFile
<1>1. /\ NoCsr \in Csr /\ Nought \in Value /\ Junk \in Value
      /\ <<"fn", 0>> \in Value /\ <<"pid", 0>> \in Value /\ <<"ret", 0>> \in Value
      /\ \A t \in Thread, v \in {0, 1} : <<t, v>> \in Value
  BY DEF NoCsr, Csr, Place, Nought, Junk, Value
<1>2. \A v \in Value : Regs(v) \in RegFile
  BY <1>1 DEF Regs, RegFile
<1>3. \A r \in RegFile : Called(r) \in RegFile
  BY <1>1, <1>2 DEF Called, RegFile
<1>4. NoFrame \in Frame
  BY <1>1, <1>2, Pointers DEF NoFrame, Frame, Place
<1>5. Program \in Frame
  BY <1>4, Pointers DEF Program, Frame, Place
<1>6. Empty \in [1..2 -> Frame]
  BY <1>4 DEF Empty
<1>7. NoContext \in [ra : Place, sp : Pointer, s : Value, flag : BOOLEAN]
  BY <1>1, Pointers DEF NoContext, Place
<1>8. NoOwn \in [sp : Pointer, regs : RegFile]
  BY <1>1, <1>2, Pointers DEF NoOwn
<1> QED
  BY <1>1, <1>2, <1>3, <1>4, <1>5, <1>6, <1>7, <1>8

(* A thread that is not touched stays as it was.                           *)
LEMMA SuspendedStays ==
  ASSUME NEW t \in Thread, Suspended(t), context'[t] = context[t], tf'[t] = tf[t],
         stack'[t][1] = stack[t][1], own'[t] = own[t]
  PROVE  Suspended(t)'
  BY DEF Suspended, UserFrame, FirstFrame, CodeFrame, Framed

LEMMA InitHolds == ASSUME Init PROVE IInv
<1>1. TypeOK
  BY Types, Pointers, ContextAssumption DEF Init, TypeOK, Place
<1>2. Running
  <2>1. /\ cpu.cur = Idle /\ cpu.pc = "kcode" /\ cpu.mode = "S" /\ cpu.sie
        /\ cpu.sscratch = Zero /\ cpu.satp = Boot /\ cpu.sp = Top(Idle)
        /\ cpu.regs = Regs(Nought) /\ Idle \in live /\ pgdir[Idle] = Boot
        /\ own[Idle] = [NoOwn EXCEPT !.sp = Top(Idle)]
    BY ContextAssumption DEF Init
  <2>2. own[Idle].sp = Top(Idle) /\ own[Idle].regs = Regs(Nought)
    BY <2>1 DEF NoOwn
  <2> QED
    BY <2>1, <2>2 DEF Running, At, Ground, Framed, Same
<1>3. \A t \in live \ {cpu.cur} : Suspended(t)
  BY DEF Init
<1> QED
  BY <1>1, <1>2, <1>3 DEF IInv, Whole, Init

-----------------------------------------------------------------------------
(* The four kinds of places where a trap can come.                         *)
LEMMA TrapStep ==
  ASSUME Whole, NEW cause \in {"timer", "ecall"}, Trap(cause), ~torn, ~torn'
  PROVE  Whole'
<1> USE Pointers, Types DEF Whole
<1> PICK t \in Thread : t = cpu.cur
  BY DEF TypeOK
<1> DEFINE base == IF cpu.sscratch # Zero THEN cpu.sscratch ELSE cpu.sp
           sp == Pushed(base)
<1> PICK f : f = [sp |-> cpu.sp, regs |-> cpu.regs, spp |-> cpu.mode, spie |-> cpu.sie,
                  epc |-> cpu.pc, otf |-> tf[t], cause |-> cause]
  OBVIOUS
<1>1. t \in Thread /\ t \in live /\ cpu.pc \in Place /\ cpu.sp \in Pointer
  BY DEF TypeOK, Running
<1>2. /\ cpu.pc \in {"user", "kcode", "loading", "loaded", "restore1"} /\ cpu.sie
      /\ cpu.mode = IF At("user") THEN "U" ELSE "S"
      /\ cause = "ecall" => At("user")
      /\ base = IF At("user") THEN Top(t) ELSE cpu.sp
      /\ cpu.sp = IF At("user") THEN own[t].sp ELSE Ground(t)
      /\ sp = Pushed(IF At("user") THEN Top(t) ELSE Ground(t))
  <2>1. cpu.mode = IF At("user") THEN "U" ELSE "S"
    BY DEF Running
  <2>2. cause = "ecall" => At("user")
    BY DEF Trap
  <2>3. At("user") \/ cpu.sie
    BY <2>1, <2>2 DEF Trap
  <2>4. cpu.pc \in {"user", "kcode", "loading", "loaded", "restore1", "restore2"} /\ cpu.sie
    BY <1>1, <2>3 DEF Running, At, Place
  <2>5. cpu.pc # "restore2"
    <3> SUFFICES ASSUME cpu.pc = "restore2" PROVE FALSE
      OBVIOUS
    <3>1. cpu.sscratch = Top(t)
      BY <1>1, <2>4 DEF Running, At, Restores, Scratch, UserFrame
    <3> QED
      BY <1>1, <2>1, <3>1 DEF Trap, At
  <2>6. cpu.sscratch = IF At("user") THEN Top(t) ELSE Zero
    BY <2>4, <2>5 DEF Running, At
  <2>7. cpu.sp = IF At("user") THEN own[t].sp ELSE Ground(t)
    BY <1>1, <2>4, <2>5 DEF Running, At, Restores
  <2>8. base = IF At("user") THEN Top(t) ELSE cpu.sp
    BY <1>1, <2>6
  <2>9. sp = Pushed(IF At("user") THEN Top(t) ELSE Ground(t))
    BY <2>7, <2>8
  <2> HIDE DEF base, sp
  <2> QED
    BY <2>1, <2>2, <2>4, <2>5, <2>7, <2>8, <2>9
<1>3. sp.of = t /\ sp.n \in 1..2 /\ sp \in Pointer
  BY <1>1, <1>2
<1>4. f \in Frame
  BY <1>1, <1>2 DEF TypeOK, Frame
<1>5. stack' = [stack EXCEPT ![t][sp.n] = f]
  BY <1>3 DEF Trap, Put
<1>6. /\ stack' \in [Thread -> [1..2 -> Frame]] /\ stack'[t][sp.n] = f
      /\ \A u \in Thread : u # t => stack'[u] = stack[u]
      /\ sp.n = 2 => stack'[t][1] = stack[t][1]
  BY <1>1, <1>3, <1>4, <1>5 DEF TypeOK
<1>7. /\ cpu' = [cpu EXCEPT !.pc = "trap", !.mode = "S", !.sie = FALSE, !.csr = NoCsr,
                            !.sscratch = Zero, !.sp = sp, !.regs = Regs(Junk)]
      /\ tf' = [tf EXCEPT ![t] = sp]
      /\ UNCHANGED <<context, pgdir, live, own>>
  BY DEF Trap
<1>8. /\ cpu'.cur = t /\ cpu'.pc = "trap" /\ cpu'.mode = "S" /\ cpu'.sie = FALSE
      /\ cpu'.sscratch = Zero /\ cpu'.sp = sp /\ cpu'.satp = cpu.satp
      /\ tf'[t] = sp /\ \A u \in Thread : u # t => tf'[u] = tf[u]
  BY <1>1, <1>7 DEF TypeOK
<1>9. TypeOK'
  BY <1>3, <1>6, <1>7 DEF TypeOK, Place
<1>10. InTrap(t)'
  <2>1. stack'[t][cpu'.sp.n] = f /\ cpu'.sp = sp /\ tf'[t] = sp
    BY <1>6, <1>8
  <2>2. f.epc = cpu.pc /\ f.spp = cpu.mode /\ f.spie = cpu.sie /\ f.sp = cpu.sp
        /\ f.regs = cpu.regs /\ f.otf = tf[t] /\ f.cause = cause
    OBVIOUS
  <2> HIDE DEF sp, base
  <2>3. CASE At("user")
    <3>1. sp = First(t)
      BY <1>1, <1>2, <2>3
    <3>2. UserFrame(t, f)'
      BY <1>2, <1>7, <2>2, <2>3 DEF UserFrame, Running, At
    <3> QED
      BY <2>1, <3>1, <3>2 DEF InTrap, UserFrame
  <2>4. CASE ~At("user")
    <3>1. sp = Pushed(Ground(t)) /\ f.spp = "S" /\ f.spie /\ f.sp = Ground(t)
          /\ f.cause # "ecall"
      BY <1>2, <2>2, <2>4
    <3>2. CASE At("kcode")
      <4>1. CodeFrame(t, f)' /\ (t # Idle => f.otf = First(t))
        BY <1>7, <2>2, <3>2 DEF CodeFrame, Running, At, Framed
      <4> QED
        BY <2>1, <3>1, <4>1 DEF InTrap, KernelFrame, CodeFrame
    <3>3. CASE At("loading")
      <4>1. t # Idle /\ f.epc = "loading" /\ f.otf = First(t)
        BY <2>2, <3>3 DEF Running, At
      <4> QED
        BY <2>1, <3>1, <4>1 DEF InTrap, KernelFrame
    <3>4. CASE At("loaded") \/ At("restore1")
      <4>1. t # Idle /\ f.epc \in {"loaded", "restore1"} /\ f.otf = First(t)
            /\ UserFrame(t, stack[t][1])
        BY <1>1, <1>2, <2>2, <3>4 DEF Running, At, Restores
      <4>2. UserFrame(t, stack[t][1])'
        BY <1>1, <1>6, <1>7, <3>1, <4>1 DEF UserFrame
      <4> QED
        BY <2>1, <3>1, <4>1, <4>2 DEF InTrap, KernelFrame
    <3> QED
      BY <1>2, <2>4, <3>2, <3>3, <3>4 DEF At
  <2> QED
    BY <2>3, <2>4
<1>11. Running'
  BY <1>1, <1>7, <1>8, <1>10 DEF Running, At
<1>12. ASSUME NEW u \in live' \ {cpu'.cur}
       PROVE  Suspended(u)'
  BY <1>1, <1>6, <1>7, <1>8, SuspendedStays DEF TypeOK
<1> QED
  BY <1>9, <1>11, <1>12

(* TrapEnd and ForkRet change no stack.                                    *)
LEMMA TrapEndStep == ASSUME Whole, TrapEnd PROVE Whole'
<1> USE Pointers, Types DEF Whole
<1> PICK t \in Thread : t = cpu.cur
  BY DEF TypeOK
<1>1. /\ t \in Thread /\ t \in live /\ cpu.sp \in Pointer /\ InTrap(t)
      /\ cpu.mode = "S" /\ ~cpu.sie /\ cpu.sscratch = Zero /\ cpu.pc = "trap"
  BY DEF TypeOK, Running, At, TrapEnd
<1>2. cpu.sp.of = t /\ cpu.sp.n \in 1..2
  BY <1>1 DEF InTrap
<1>3. FrameAt(cpu.sp) = stack[t][cpu.sp.n] /\ FrameAt(cpu.sp) \in Frame
  BY <1>1, <1>2 DEF FrameAt, TypeOK
<1>4. /\ tf' = [tf EXCEPT ![t] = stack[t][cpu.sp.n].otf]
      /\ cpu' = [cpu EXCEPT !.pc = "restore1"]
      /\ UNCHANGED <<context, stack, pgdir, live, own>>
  BY <1>3 DEF TrapEnd
<1>5. /\ cpu'.cur = t /\ cpu'.pc = "restore1" /\ cpu'.mode = "S" /\ cpu'.sie = cpu.sie
      /\ cpu'.sscratch = Zero /\ cpu'.sp = cpu.sp /\ cpu'.satp = cpu.satp
      /\ tf'[t] = stack[t][cpu.sp.n].otf /\ \A u \in Thread : u # t => tf'[u] = tf[u]
  BY <1>1, <1>4 DEF TypeOK
<1>6. TypeOK'
  BY <1>3, <1>4 DEF TypeOK, Place, Frame
<1>7. Restores(t)'
  BY <1>1, <1>4, <1>5 DEF InTrap, Restores, UserFrame, CodeFrame, KernelFrame, Framed
<1>8. Running'
  BY <1>1, <1>4, <1>5, <1>7 DEF Running, At
<1>9. ASSUME NEW u \in live' \ {cpu'.cur}
      PROVE  Suspended(u)'
  BY <1>4, <1>5, SuspendedStays DEF TypeOK
<1> QED
  BY <1>6, <1>8, <1>9

LEMMA ForkRetStep == ASSUME Whole, ForkRet PROVE Whole'
<1> USE Pointers, Types DEF Whole
<1> PICK t \in Thread : t = cpu.cur
  BY DEF TypeOK
<1>1. /\ t \in Thread /\ t \in live /\ tf[t] = First(t) /\ cpu.pc = "forkret"
      /\ UserFrame(t, stack[t][1]) \/ FirstFrame(t)
      /\ cpu.mode = "S" /\ ~cpu.sie /\ cpu.sscratch = Zero
  BY DEF TypeOK, Running, At, ForkRet
<1>2. /\ cpu' = [cpu EXCEPT !.sp = First(t), !.pc = "restore1"]
      /\ UNCHANGED <<context, tf, stack, pgdir, live, own>>
  BY <1>1 DEF ForkRet
<1>3. /\ cpu'.cur = t /\ cpu'.pc = "restore1" /\ cpu'.mode = "S" /\ cpu'.sie = cpu.sie
      /\ cpu'.sscratch = Zero /\ cpu'.sp = First(t) /\ cpu'.satp = cpu.satp
  BY <1>1, <1>2 DEF TypeOK
<1>4. TypeOK'
  BY <1>1, <1>2 DEF TypeOK, Place
<1>5. Restores(t)'
  BY <1>1, <1>2, <1>3 DEF Restores, UserFrame, CodeFrame, FirstFrame
<1>6. Running'
  BY <1>1, <1>2, <1>3, <1>5 DEF Running, At
<1>7. ASSUME NEW u \in live' \ {cpu'.cur}
      PROVE  Suspended(u)'
  BY <1>2, <1>3, SuspendedStays DEF TypeOK
<1> QED
  BY <1>4, <1>6, <1>7

-----------------------------------------------------------------------------
(* RESTORE_ALL, in its three steps.                                        *)
LEMMA Restore1Step == ASSUME Whole, Restore1 PROVE Whole'
<1> USE Pointers, Types DEF Whole
<1> PICK t \in Thread : t = cpu.cur
  BY DEF TypeOK
<1> DEFINE f == stack[t][cpu.sp.n]
<1>1. /\ t \in Thread /\ t \in live /\ cpu.sp \in Pointer /\ Restores(t)
      /\ cpu.mode = "S" /\ cpu.sscratch = Zero /\ cpu.pc = "restore1"
  BY DEF TypeOK, Running, At, Restore1
<1>2. cpu.sp.of = t /\ cpu.sp.n \in 1..2 /\ (f.spp = "U" => Unwound(cpu.sp) = Top(t))
  BY <1>1 DEF Restores, KernelFrame, FirstFrame
<1>3. FrameAt(cpu.sp) = f /\ f \in Frame
  BY <1>1, <1>2 DEF FrameAt, TypeOK
<1>4. /\ cpu' = [cpu EXCEPT !.pc = "restore2", !.regs.csr = FrameCsr(f),
                            !.sscratch = IF f.spp = "U" THEN Unwound(cpu.sp) ELSE @]
      /\ UNCHANGED <<context, tf, stack, pgdir, live, own>>
  BY <1>3 DEF Restore1, FrameCsr
<1>5. FrameCsr(f) \in Csr
  BY <1>3 DEF FrameCsr, Csr, Frame
<1>6. /\ cpu'.cur = t /\ cpu'.pc = "restore2" /\ cpu'.mode = "S" /\ cpu'.sie = cpu.sie
      /\ cpu'.sp = cpu.sp /\ cpu'.satp = cpu.satp
      /\ cpu'.sscratch = IF f.spp = "U" THEN Top(t) ELSE Zero
      /\ cpu'.regs.csr = FrameCsr(f)
  BY <1>1, <1>2, <1>4 DEF TypeOK, RegFile
<1>7. TypeOK'
  BY <1>1, <1>2, <1>4, <1>5 DEF TypeOK, Place, RegFile
<1>8. Restores(t)' /\ Scratch(t)'
  BY <1>1, <1>4, <1>6
     DEF Restores, Scratch, UserFrame, CodeFrame, KernelFrame, FirstFrame, Framed
<1>9. Running'
  <2>1. cpu'.regs.csr = FrameCsr(stack'[t][cpu'.sp.n])
    BY <1>4, <1>6
  <2>2. cpu'.satp = pgdir'[t] /\ {t, Idle} \subseteq live'
    BY <1>1, <1>4, <1>6 DEF Running
  <2> QED
    BY <1>6, <1>8, <2>1, <2>2 DEF Running, At, FrameCsr
<1>10. ASSUME NEW u \in live' \ {cpu'.cur}
       PROVE  Suspended(u)'
  BY <1>4, <1>6, SuspendedStays DEF TypeOK
<1> QED
  BY <1>7, <1>9, <1>10

LEMMA Restore2Step == ASSUME Whole, Restore2 PROVE Whole'
<1> USE Pointers, Types DEF Whole
<1> PICK t \in Thread : t = cpu.cur
  BY DEF TypeOK
<1> DEFINE f == stack[t][cpu.sp.n]
<1>1. /\ t \in Thread /\ t \in live /\ Restores(t) /\ Scratch(t)
      /\ cpu.mode = "S" /\ cpu.pc = "restore2" /\ cpu.regs.csr = FrameCsr(f)
  BY DEF TypeOK, Running, At, Restore2
<1>2. /\ cpu' = [cpu EXCEPT !.pc = "restore3", !.sie = FALSE, !.csr = cpu.regs.csr]
      /\ UNCHANGED <<context, tf, stack, pgdir, live, own>>
  BY DEF Restore2
<1>3. /\ cpu'.cur = t /\ cpu'.pc = "restore3" /\ cpu'.mode = "S" /\ cpu'.sie = FALSE
      /\ cpu'.sp = cpu.sp /\ cpu'.satp = cpu.satp /\ cpu'.sscratch = cpu.sscratch
      /\ cpu'.csr = FrameCsr(f)
  BY <1>1, <1>2 DEF TypeOK
<1>4. TypeOK'
  BY <1>1, <1>2 DEF TypeOK, Place, RegFile
<1>5. Restores(t)' /\ Scratch(t)'
  BY <1>1, <1>2, <1>3
     DEF Restores, Scratch, UserFrame, CodeFrame, KernelFrame, FirstFrame, Framed
<1>6. Running'
  BY <1>1, <1>2, <1>3, <1>5 DEF Running, At, FrameCsr
<1>7. ASSUME NEW u \in live' \ {cpu'.cur}
      PROVE  Suspended(u)'
  BY <1>2, <1>3, SuspendedStays DEF TypeOK
<1> QED
  BY <1>4, <1>6, <1>7

LEMMA Restore3Step == ASSUME Whole, Restore3 PROVE Whole'
<1> USE Pointers, Types DEF Whole
<1> PICK t \in Thread : t = cpu.cur
  BY DEF TypeOK
<1> DEFINE f == stack[t][cpu.sp.n]
<1>1. /\ t \in Thread /\ t \in live /\ cpu.sp \in Pointer /\ Restores(t) /\ Scratch(t)
      /\ cpu.mode = "S" /\ cpu.pc = "restore3" /\ cpu.csr = FrameCsr(f) /\ ~cpu.sie
  BY DEF TypeOK, Running, At, Restore3
<1>2. cpu.sp.of = t /\ cpu.sp.n \in 1..2
  BY <1>1 DEF Restores
<1>3. FrameAt(cpu.sp) = f /\ f \in Frame
  BY <1>1, <1>2 DEF FrameAt, TypeOK
<1>4. /\ cpu' = [cpu EXCEPT !.pc = f.epc, !.mode = f.spp, !.sie = f.spie,
                            !.csr = NoCsr, !.sp = f.sp, !.regs = f.regs]
      /\ stack' = IF f.sp = cpu.sp THEN stack ELSE [stack EXCEPT ![t][cpu.sp.n] = NoFrame]
      /\ UNCHANGED <<context, tf, pgdir, live, own>>
  BY <1>1, <1>2, <1>3 DEF Restore3, FrameCsr, Put
<1>5. /\ cpu'.cur = t /\ cpu'.pc = f.epc /\ cpu'.mode = f.spp /\ cpu'.sie = f.spie
      /\ cpu'.sp = f.sp /\ cpu'.regs = f.regs /\ cpu'.satp = cpu.satp
      /\ cpu'.sscratch = IF f.spp = "U" THEN Top(t) ELSE Zero
  BY <1>1, <1>4 DEF TypeOK, Scratch
<1>6. /\ stack' \in [Thread -> [1..2 -> Frame]]
      /\ \A u \in Thread : u # t => stack'[u] = stack[u]
      /\ cpu.sp.n = 2 => stack'[t][1] = stack[t][1]
  BY <1>1, <1>2, <1>4 DEF TypeOK
<1>7. TypeOK'
  <2> DEFINE Cpu == [cur : Thread, pc : Place, mode : {"none", "S", "U"}, sie : BOOLEAN,
                     csr : Csr, sscratch : Pointer, satp : Thread \cup {Boot},
                     sp : Pointer, regs : RegFile]
  <2>1. /\ f.epc \in Place /\ f.spp \in {"none", "S", "U"} /\ f.spie \in BOOLEAN
        /\ f.sp \in Pointer /\ f.regs \in RegFile
    BY <1>3 DEF Frame
  <2>2. cpu \in Cpu /\ NoCsr \in Csr
    BY <1>1 DEF TypeOK
  <2>3. cpu' \in Cpu
    <3> HIDE DEF f
    <3> QED BY ONLY <1>4, <2>1, <2>2
  <2>4. /\ context' = context /\ tf' = tf /\ pgdir' = pgdir /\ live' = live /\ own' = own
    BY <1>4
  <2>5. TypeOK
    OBVIOUS
  <2> QED BY ONLY <1>6, <2>3, <2>4, <2>5 DEF TypeOK
<1>8. Running'
  <2>1. CASE cpu.sp = First(t) /\ UserFrame(t, f)
    BY <1>1, <1>4, <1>5, <2>1 DEF Running, At, UserFrame
  <2>2. CASE cpu.sp = Pushed(Ground(t)) /\ KernelFrame(t, f) /\ Framed(t)
    <3>1. /\ f.spp = "S" /\ f.spie /\ f.sp = Ground(t)
          /\ \/ CodeFrame(t, f)
             \/ t # Idle /\ f.epc = "loading"
             \/ t # Idle /\ f.epc \in {"loaded", "restore1"} /\ UserFrame(t, stack'[t][1])
      BY <1>1, <1>6, <2>2 DEF KernelFrame
    <3>2. CASE CodeFrame(t, f)
      BY <1>1, <1>4, <1>5, <2>2, <3>1, <3>2 DEF Running, At, CodeFrame, Framed
    <3>3. CASE t # Idle /\ f.epc = "loading"
      BY <1>1, <1>4, <1>5, <2>2, <3>1, <3>3 DEF Running, At, Framed
    <3>4. CASE t # Idle /\ f.epc \in {"loaded", "restore1"} /\ UserFrame(t, stack'[t][1])
      <4>1. /\ cpu'.sp = First(t) /\ tf'[t] = First(t) /\ UserFrame(t, stack[t][1])'
            /\ stack'[t][cpu'.sp.n] = stack'[t][1]
        BY <1>1, <1>4, <1>5, <2>2, <3>1, <3>4 DEF Framed, UserFrame
      <4>2. cpu'.cur = t /\ cpu'.mode = "S" /\ cpu'.sie /\ cpu'.sscratch = Zero
            /\ cpu'.satp = pgdir'[t] /\ {t, Idle} \subseteq live'
            /\ cpu'.pc \in {"loaded", "restore1"}
        BY <1>1, <1>4, <1>5, <3>1, <3>4 DEF Running
      <4> QED
        BY <3>4, <4>1, <4>2 DEF Running, At, Restores, UserFrame
    <3> QED
      BY <3>1, <3>2, <3>3, <3>4
  <2>3. CASE cpu.sp = First(t) /\ FirstFrame(t)
    <3>1. f = stack[t][1] /\ t # Idle /\ tf[t] = First(t) /\ Ground(t) = First(t)
      BY <1>1, <2>3 DEF FirstFrame
    <3>2. f.spp = "S" /\ f.spie /\ f.sp = First(t) /\ f.epc = "kcode"
          /\ own[t].sp = First(t) /\ Same(f.regs, own[t].regs)
      BY <2>3, <3>1 DEF FirstFrame, CodeFrame
    <3>3. cpu'.cur = t /\ cpu'.mode = "S" /\ cpu'.sie /\ cpu'.sscratch = Zero
          /\ cpu'.satp = pgdir'[t] /\ t \in live' /\ cpu'.pc = "kcode"
      BY <1>1, <1>4, <1>5, <3>2 DEF Running
    <3> QED
      BY <1>4, <1>5, <3>1, <3>2, <3>3 DEF Running, At, Framed
  <2> QED
    BY <1>1, <2>1, <2>2, <2>3 DEF Restores
<1>9. ASSUME NEW u \in live' \ {cpu'.cur}
      PROVE  Suspended(u)'
  BY <1>4, <1>5, <1>6, SuspendedStays DEF TypeOK
<1> QED
  BY <1>7, <1>8, <1>9

-----------------------------------------------------------------------------
(* switch_to: the next thread goes on as it was suspended.                 *)
LEMMA LoadedRuns ==
  ASSUME Whole, NEW next \in live \ {cpu.cur}, cpu' = Loaded(next),
         cpu.mode = "S", cpu.sscratch = Zero,
         {next, Idle} \subseteq live', pgdir'[next] = pgdir[next], tf'[next] = tf[next],
         stack'[next] = stack[next], own'[next] = own[next]
  PROVE  Running' /\ cpu'.cur = next
<1> USE Pointers, Types DEF Whole
<1> DEFINE c == context[next]
<1>1. next \in Thread /\ Suspended(next) /\ c.s \in Value
  BY DEF TypeOK
<1>2. /\ cpu'.cur = next /\ cpu'.pc = c.ra /\ cpu'.sp = c.sp /\ cpu'.sie = c.flag
      /\ cpu'.satp = pgdir[next] /\ cpu'.mode = "S" /\ cpu'.sscratch = Zero
      /\ cpu'.regs = [Regs(Junk) EXCEPT !.s = c.s]
  BY DEF Loaded, TypeOK
<1>3. cpu'.regs.s = c.s
  BY <1>1, <1>2 DEF Regs
<1>4. CASE c.ra = "trap"
  BY <1>1, <1>2, <1>4 DEF Running, At, Suspended, InTrap, UserFrame
<1>5. CASE c.ra = "kcode"
  BY <1>1, <1>2, <1>3, <1>5 DEF Running, At, Suspended, Framed, Same
<1>6. CASE c.ra = "forkret"
  BY <1>1, <1>2, <1>6 DEF Running, At, Suspended, UserFrame, FirstFrame, CodeFrame
<1> QED
  BY <1>1, <1>2, <1>4, <1>5, <1>6 DEF Suspended

LEMMA LoadedType ==
  ASSUME TypeOK, NEW next \in Thread, cpu' = Loaded(next)
  PROVE  cpu' \in [cur : Thread, pc : Place, mode : {"none", "S", "U"}, sie : BOOLEAN,
                   csr : Csr, sscratch : Pointer, satp : Thread \cup {Boot},
                   sp : Pointer, regs : RegFile]
<1>1. [Regs(Junk) EXCEPT !.s = context[next].s] \in RegFile
  BY Types DEF TypeOK, RegFile
<1>2. /\ context[next].ra \in Place /\ context[next].sp \in Pointer
      /\ context[next].flag \in BOOLEAN /\ pgdir[next] \in Thread \cup {Boot}
  BY DEF TypeOK
<1> QED
  BY <1>1, <1>2 DEF Loaded, TypeOK

LEMMA BlockStep == ASSUME Whole, NEW next \in Thread, Block(next) PROVE Whole'
<1> USE Pointers, Types DEF Whole
<1> PICK t \in Thread : t = cpu.cur
  BY DEF TypeOK
<1>1. /\ t \in Thread /\ t \in live /\ cpu.sp \in Pointer /\ InTrap(t) /\ cpu.pc = "trap"
      /\ cpu.mode = "S" /\ ~cpu.sie /\ cpu.sscratch = Zero /\ next \in live \ {t}
  BY DEF TypeOK, Running, At, Block, Switch
<1>2. cpu.sp.of = t /\ cpu.sp.n \in 1..2
  BY <1>1 DEF InTrap
<1>3. cpu.sp = First(t) /\ tf[t] = First(t) /\ UserFrame(t, stack[t][1])
  BY <1>1, <1>2 DEF InTrap, KernelFrame, Block, FrameAt
<1>4. /\ context' = [context EXCEPT ![t] = Saved("trap"), ![next] = NoContext]
      /\ cpu' = Loaded(next) /\ UNCHANGED <<tf, stack, pgdir, live, own>>
  BY DEF Block, Switch
<1>5. Saved("trap") \in [ra : Place, sp : Pointer, s : Value, flag : BOOLEAN]
  BY <1>1 DEF Saved, TypeOK, Place, RegFile
<1>6. TypeOK'
  BY <1>4, <1>5, LoadedType DEF TypeOK
<1>7. Running' /\ cpu'.cur = next
  <2>1. {next, Idle} \subseteq live'
    BY <1>1, <1>4 DEF Running
  <2> QED
    BY <1>1, <1>4, <2>1, LoadedRuns
<1>8. context'[t] = Saved("trap") /\ \A u \in Thread \ {t, next} : context'[u] = context[u]
  BY <1>1, <1>4 DEF TypeOK
<1>9. Suspended(t)'
  <2>1. /\ context'[t].ra = "trap" /\ context'[t].flag = FALSE
        /\ context'[t].sp = First(t)
    BY <1>1, <1>3, <1>8 DEF Saved
  <2> QED
    BY <1>3, <1>4, <2>1 DEF Suspended, UserFrame
<1>10. ASSUME NEW u \in live' \ {cpu'.cur}
       PROVE  Suspended(u)'
  <2>1. u \in Thread /\ u \in live \ {next}
    BY <1>4, <1>7 DEF TypeOK
  <2>2. CASE u # t
    BY <1>4, <1>8, <2>1, <2>2, SuspendedStays
  <2> QED
    BY <1>9, <2>2
<1> QED
  BY <1>6, <1>7, <1>10

LEMMA YieldStep == ASSUME Whole, NEW next \in Thread, Yield(next) PROVE Whole'
<1> USE Pointers, Types DEF Whole
<1> PICK t \in Thread : t = cpu.cur
  BY DEF TypeOK
<1>1. /\ t \in Thread /\ t \in live /\ cpu.pc = "kcode" /\ next \in live \ {t}
      /\ cpu.sp = Ground(t) /\ own[t].sp = Ground(t) /\ Same(cpu.regs, own[t].regs)
      /\ Framed(t) /\ cpu.sie /\ cpu.mode = "S" /\ cpu.sscratch = Zero
  BY DEF TypeOK, Running, At, Yield, Switch
<1>2. /\ context' = [context EXCEPT ![t] = Saved("kcode"), ![next] = NoContext]
      /\ cpu' = Loaded(next) /\ UNCHANGED <<tf, stack, pgdir, live>>
      /\ own' = [own EXCEPT ![t].regs = Called(@)]
  BY DEF Yield, Switch
<1>3. Saved("kcode") \in [ra : Place, sp : Pointer, s : Value, flag : BOOLEAN]
  BY <1>1 DEF Saved, TypeOK, Place, RegFile
<1>4. own' \in [Thread -> [sp : Pointer, regs : RegFile]]
  BY <1>1, <1>2 DEF TypeOK
<1>5. /\ own'[t].sp = own[t].sp /\ own'[t].regs = Called(own[t].regs)
      /\ \A u \in Thread : u # t => own'[u] = own[u]
  BY <1>1, <1>2 DEF TypeOK
<1>6. Called(own[t].regs).t = Junk /\ Called(own[t].regs).s = own[t].regs.s
  BY <1>1 DEF TypeOK, Called, Regs
<1>7. TypeOK'
  BY <1>2, <1>3, <1>4, LoadedType DEF TypeOK
<1>8. Running' /\ cpu'.cur = next
  <2>1. {next, Idle} \subseteq live'
    BY <1>1, <1>2 DEF Running
  <2> QED
    BY <1>1, <1>2, <1>5, <2>1, LoadedRuns
<1>9. context'[t] = Saved("kcode") /\ \A u \in Thread \ {t, next} : context'[u] = context[u]
  BY <1>1, <1>2 DEF TypeOK
<1>10. Suspended(t)'
  <2>1. /\ context'[t].ra = "kcode" /\ context'[t].flag /\ context'[t].sp = Ground(t)
        /\ context'[t].s = cpu.regs.s
    BY <1>1, <1>9 DEF Saved
  <2>2. own'[t].sp = Ground(t) /\ own'[t].regs.t = Junk /\ own'[t].regs.s = cpu.regs.s
    BY <1>1, <1>5, <1>6 DEF Same
  <2> QED
    BY <1>1, <1>2, <2>1, <2>2 DEF Suspended, Framed
<1>11. ASSUME NEW u \in live' \ {cpu'.cur}
       PROVE  Suspended(u)'
  <2>1. u \in Thread /\ u \in live \ {next}
    BY <1>2, <1>8 DEF TypeOK
  <2>2. CASE u # t
    BY <1>2, <1>5, <1>9, <2>1, <2>2, SuspendedStays
  <2> QED
    BY <1>10, <2>2
<1> QED
  BY <1>7, <1>8, <1>11

LEMMA ExitStep == ASSUME Whole, NEW next \in Thread, Exit(next) PROVE Whole'
<1> USE Pointers, Types DEF Whole
<1> PICK t \in Thread : t = cpu.cur
  BY DEF TypeOK
<1>1. /\ t \in Thread /\ t \in live /\ cpu.pc \in {"trap", "kcode"} /\ next \in live \ {t}
      /\ cpu.mode = "S" /\ cpu.sscratch = Zero
  BY DEF TypeOK, Running, At, Exit, Switch
<1>2. /\ context' = [context EXCEPT ![t] = NoContext, ![next] = NoContext]
      /\ cpu' = Loaded(next)
      /\ live' = live \ {t}
      /\ tf' = [tf EXCEPT ![t] = Zero] /\ stack' = [stack EXCEPT ![t] = Empty]
      /\ pgdir' = [pgdir EXCEPT ![t] = Boot] /\ own' = [own EXCEPT ![t] = NoOwn]
  BY DEF Exit, Switch
<1>3. TypeOK'
  BY <1>1, <1>2, LoadedType DEF TypeOK
<1>4. \A u \in Thread : u # t =>
        tf'[u] = tf[u] /\ stack'[u] = stack[u] /\ pgdir'[u] = pgdir[u] /\ own'[u] = own[u]
  BY <1>1, <1>2 DEF TypeOK
<1>5. Running' /\ cpu'.cur = next
  <2>1. t # Idle
    BY DEF Exit, Running, At, InTrap, FrameAt, KernelFrame, UserFrame
  <2>2. {next, Idle} \subseteq live'
    BY <1>1, <1>2, <2>1 DEF Running
  <2> QED
    BY <1>1, <1>2, <1>4, <2>2, LoadedRuns
<1>6. \A u \in Thread \ {t, next} : context'[u] = context[u]
  BY <1>1, <1>2 DEF TypeOK
<1>7. ASSUME NEW u \in live' \ {cpu'.cur}
      PROVE  Suspended(u)'
  BY <1>2, <1>4, <1>5, <1>6, SuspendedStays DEF TypeOK
<1> QED
  BY <1>3, <1>5, <1>7

-----------------------------------------------------------------------------
(* The same registers with the same result are the same.                   *)
LEMMA SameResult ==
  ASSUME NEW r, NEW w, NEW x, NEW y, Same(r, w),
         x.a0 = y.a0, x.t = r.t, x.s = r.s, y.t = w.t, y.s = w.s
  PROVE  Same(x, y)
  BY DEF Same

(* A system call finds the frame of its program.                           *)
LEMMA AtCall ==
  ASSUME Whole, At("trap"), FrameAt(tf[cpu.cur]).cause = "ecall"
  PROVE  /\ cpu.sp = First(cpu.cur) /\ tf[cpu.cur] = First(cpu.cur)
         /\ FrameAt(tf[cpu.cur]) = stack[cpu.cur][1] /\ stack[cpu.cur][1] \in Frame
         /\ UserFrame(cpu.cur, stack[cpu.cur][1]) /\ cpu.cur \in live
         /\ cpu.mode = "S" /\ ~cpu.sie /\ cpu.sscratch = Zero /\ cpu.satp = pgdir[cpu.cur]
<1> USE Pointers DEF Whole
<1> PICK t \in Thread : t = cpu.cur
  BY DEF TypeOK
<1>1. InTrap(t)
  BY DEF Running, At
<1>2. cpu.sp.of = t /\ cpu.sp.n \in 1..2 /\ tf[t] = cpu.sp
  BY <1>1 DEF InTrap
<1>3. FrameAt(tf[t]) = stack[t][cpu.sp.n]
  BY <1>2 DEF FrameAt
<1>4. cpu.sp = First(t) /\ UserFrame(t, stack[t][1])
  BY <1>1, <1>2, <1>3 DEF InTrap, KernelFrame
<1> QED
  BY <1>2, <1>3, <1>4 DEF Running, At, TypeOK

LEMMA SyscallStep == ASSUME Whole, Syscall PROVE Whole'
<1> USE DEF Whole
<1> PICK t \in Thread : t = cpu.cur
  BY DEF TypeOK
<1>1. /\ At("trap") /\ cpu.sp = First(t) /\ tf[t] = First(t) /\ t \in live
      /\ UserFrame(t, stack[t][1]) /\ FrameAt(tf[t]) = stack[t][1] /\ stack[t][1] \in Frame
      /\ cpu.mode = "S" /\ ~cpu.sie /\ cpu.sscratch = Zero /\ cpu.satp = pgdir[t]
  BY AtCall DEF Syscall
<1> PICK f : f = [stack[t][1] EXCEPT !.regs.a0 = <<"ret", 0>>, !.cause = "done"]
  OBVIOUS
<1>2. /\ stack' = [stack EXCEPT ![t][1] = f]
      /\ own' = [own EXCEPT ![t].regs.a0 = <<"ret", 0>>]
      /\ UNCHANGED <<cpu, context, tf, pgdir, live>>
  BY <1>1, Pointers DEF Syscall, Put
<1>3. /\ f \in Frame /\ f.epc = "user" /\ f.spp = "U" /\ f.spie /\ f.sp = own[t].sp
      /\ f.regs = [stack[t][1].regs EXCEPT !.a0 = <<"ret", 0>>]
  BY <1>1, Types DEF UserFrame, Frame, RegFile
<1>4. /\ own' \in [Thread -> [sp : Pointer, regs : RegFile]] /\ own'[t].sp = own[t].sp
      /\ own'[t].regs = [own[t].regs EXCEPT !.a0 = <<"ret", 0>>]
      /\ \A u \in Thread : u # t => own'[u] = own[u]
  <2> PICK o : o = [own[t].regs EXCEPT !.a0 = <<"ret", 0>>]
    OBVIOUS
  <2>1. own \in [Thread -> [sp : Pointer, regs : RegFile]] /\ o \in RegFile
    BY Types DEF TypeOK, RegFile
  <2>2. own' = [own EXCEPT ![t] = [own[t] EXCEPT !.regs = o]]
    BY <1>2, <2>1
  <2>3. own' \in [Thread -> [sp : Pointer, regs : RegFile]]
    BY <2>1, <2>2
  <2>4. own'[t] = [own[t] EXCEPT !.regs = o] /\ \A u \in Thread : u # t => own'[u] = own[u]
    BY <2>1, <2>2
  <2>5. own'[t].sp = own[t].sp /\ own'[t].regs = o
    BY <2>1, <2>4
  <2> QED
    BY <2>3, <2>4, <2>5
<1>5. Same(f.regs, own'[t].regs)
  <2>1. stack[t][1].regs \in RegFile /\ own[t].regs \in RegFile
    BY <1>1 DEF Frame, TypeOK
  <2>2. Same(stack[t][1].regs, own[t].regs)
    BY <1>1 DEF UserFrame
  <2>3. /\ f.regs.a0 = own'[t].regs.a0
        /\ f.regs.t = stack[t][1].regs.t /\ f.regs.s = stack[t][1].regs.s
        /\ own'[t].regs.t = own[t].regs.t /\ own'[t].regs.s = own[t].regs.s
    BY <1>3, <1>4, <2>1 DEF RegFile
  <2> QED
    BY <2>2, <2>3, SameResult
<1>6. /\ stack' \in [Thread -> [1..2 -> Frame]] /\ stack'[t][1] = f
      /\ \A u \in Thread : u # t => stack'[u] = stack[u]
  <2>1. stack \in [Thread -> [1..2 -> Frame]]
    BY DEF TypeOK
  <2>2. stack' \in [Thread -> [1..2 -> Frame]]
    BY <1>2, <1>3, <2>1
  <2>3. stack'[t][1] = f
    <3>1. stack'[t] = [stack[t] EXCEPT ![1] = f] /\ stack[t] \in [1..2 -> Frame]
      BY ONLY <1>2, <2>1, t \in Thread
    <3> QED
      BY ONLY <3>1
  <2>4. \A u \in Thread : u # t => stack'[u] = stack[u]
    BY <1>2, <2>1
  <2> QED
    BY <2>2, <2>3, <2>4
<1>7. TypeOK'
  BY <1>2, <1>4, <1>6 DEF TypeOK
<1>8. InTrap(t)'
  <2>1. UserFrame(t, f)'
    BY <1>1, <1>3, <1>4, <1>5 DEF UserFrame
  <2>2. stack'[t][cpu'.sp.n] = f /\ cpu'.sp = First(t) /\ tf'[t] = First(t)
    BY <1>1, <1>2, <1>6, Pointers
  <2> QED
    BY <2>1, <2>2 DEF InTrap, UserFrame
<1>9. Running'
  BY <1>1, <1>2, <1>8 DEF Running, At
<1>10. ASSUME NEW u \in live' \ {cpu'.cur}
       PROVE  Suspended(u)'
  BY <1>2, <1>4, <1>6, SuspendedStays DEF TypeOK
<1> QED
  BY <1>7, <1>9, <1>10

LEMMA ExecStep == ASSUME Whole, Exec PROVE Whole'
<1> USE DEF Whole
<1> PICK t \in Thread : t = cpu.cur
  BY DEF TypeOK
<1>1. /\ At("trap") /\ cpu.sp = First(t) /\ tf[t] = First(t) /\ t \in live
      /\ FrameAt(tf[t]) = stack[t][1] /\ stack[t][1] \in Frame
      /\ cpu.mode = "S" /\ ~cpu.sie /\ cpu.sscratch = Zero
  BY AtCall DEF Exec
<1> PICK f : f = [Program EXCEPT !.otf = stack[t][1].otf, !.cause = "done"]
  OBVIOUS
<1>2. /\ stack' = [stack EXCEPT ![t][1] = f]
      /\ pgdir' = [pgdir EXCEPT ![t] = t]
      /\ own' = [own EXCEPT ![t] = Meant(Program)]
      /\ cpu' = [cpu EXCEPT !.satp = t]
      /\ UNCHANGED <<context, tf, live>>
  BY <1>1, Pointers DEF Exec, LoadIcode, Put
<1>3. /\ f \in Frame /\ f.epc = "user" /\ f.spp = "U" /\ f.spie
      /\ f.sp = Program.sp /\ f.regs = Program.regs
  <2>1. /\ Program.epc = "user" /\ Program.spp = "U" /\ Program.spie
    BY DEF Program, NoFrame
  <2>2. stack[t][1].otf \in Pointer /\ Program \in Frame
    BY <1>1, Types DEF Frame
  <2> QED
    BY <2>1, <2>2 DEF Frame
<1>4. Meant(Program) \in [sp : Pointer, regs : RegFile]
  BY Types DEF Meant, Frame
<1>5. /\ own' \in [Thread -> [sp : Pointer, regs : RegFile]]
      /\ own'[t].sp = Program.sp /\ own'[t].regs = Program.regs
      /\ \A u \in Thread : u # t => own'[u] = own[u]
  BY <1>2, <1>4 DEF TypeOK, Meant
<1>6. /\ stack' \in [Thread -> [1..2 -> Frame]] /\ stack'[t][1] = f
      /\ \A u \in Thread : u # t => stack'[u] = stack[u]
  <2>1. stack \in [Thread -> [1..2 -> Frame]]
    BY DEF TypeOK
  <2>2. stack' \in [Thread -> [1..2 -> Frame]]
    BY <1>2, <1>3, <2>1
  <2>3. stack'[t][1] = f
    <3>1. stack'[t] = [stack[t] EXCEPT ![1] = f] /\ stack[t] \in [1..2 -> Frame]
      BY ONLY <1>2, <2>1, t \in Thread
    <3> QED
      BY ONLY <3>1
  <2>4. \A u \in Thread : u # t => stack'[u] = stack[u]
    BY <1>2, <2>1
  <2> QED
    BY <2>2, <2>3, <2>4
<1>7. /\ cpu'.cur = t /\ cpu'.pc = "trap" /\ cpu'.mode = "S" /\ cpu'.sie = cpu.sie
      /\ cpu'.sscratch = Zero /\ cpu'.sp = cpu.sp /\ cpu'.satp = t /\ pgdir'[t] = t
  BY <1>1, <1>2 DEF TypeOK, At
<1>8. TypeOK'
  <2>1. cpu.satp \in Thread \cup {Boot} /\ pgdir' \in [Thread -> Thread \cup {Boot}]
    BY <1>2 DEF TypeOK
  <2> QED
    BY <1>2, <1>5, <1>6, <2>1 DEF TypeOK
<1>9. InTrap(t)'
  <2>1. UserFrame(t, f)'
    <3>1. t # Idle
      BY <1>1, AtCall DEF Exec, UserFrame
    <3> QED
      BY <1>3, <1>5, <3>1 DEF UserFrame, Same
  <2>2. stack'[t][cpu'.sp.n] = f /\ cpu'.sp = First(t) /\ tf'[t] = First(t)
    BY <1>1, <1>2, <1>6, <1>7, Pointers
  <2> QED
    BY <2>1, <2>2 DEF InTrap, UserFrame
<1>10. Running'
  BY <1>1, <1>2, <1>7, <1>9 DEF Running, At
<1>11. ASSUME NEW u \in live' \ {cpu'.cur}
       PROVE  Suspended(u)'
  BY <1>2, <1>5, <1>6, <1>7, SuspendedStays DEF TypeOK
<1> QED
  BY <1>8, <1>10, <1>11

(* The child of a fork, and a new kernel thread, are suspended in forkret. *)
LEMMA ForkStep == ASSUME Whole, NEW c \in Thread, Fork(c) PROVE Whole'
<1> USE DEF Whole
<1> PICK t \in Thread : t = cpu.cur
  BY DEF TypeOK
<1>1. /\ At("trap") /\ cpu.sp = First(t) /\ tf[t] = First(t) /\ t \in live
      /\ UserFrame(t, stack[t][1]) /\ FrameAt(tf[t]) = stack[t][1] /\ stack[t][1] \in Frame
      /\ cpu.mode = "S" /\ ~cpu.sie /\ cpu.sscratch = Zero /\ cpu.satp = pgdir[t]
      /\ c \notin live /\ c # t
  BY AtCall DEF Fork
<1> PICK f : f = [stack[t][1] EXCEPT !.regs.a0 = <<"pid", 0>>, !.cause = "done"]
  OBVIOUS
<1> PICK g : g = [stack[t][1] EXCEPT !.regs.a0 = Nought, !.otf = Zero, !.cause = "none"]
  OBVIOUS
<1> PICK w : w = [own[c] EXCEPT !.sp = own[t].sp,
                              !.regs = [own[t].regs EXCEPT !.a0 = Nought]]
  OBVIOUS
<1>2. /\ stack' = [[stack EXCEPT ![t][1] = f] EXCEPT ![c][1] = g]
      /\ live' = live \cup {c} /\ tf' = [tf EXCEPT ![c] = First(c)]
      /\ context' = [context EXCEPT ![c] = [ra |-> "forkret", sp |-> First(c), s |-> Nought,
                                            flag |-> FALSE]]
      /\ pgdir' = [pgdir EXCEPT ![c] = IF pgdir[t] = Boot THEN Boot ELSE c]
      /\ own' = [[own EXCEPT ![c] = w] EXCEPT ![t].regs.a0 = <<"pid", 0>>]
      /\ cpu' = cpu
  <2>1. [[stack[t][1] EXCEPT !.regs.a0 = Nought] EXCEPT !.otf = Zero, !.cause = "none"] = g
    BY <1>1 DEF Frame
  <2>2. Put(tf[t], f) = [stack EXCEPT ![t][1] = f]
    <3>1. tf[t].of = t /\ tf[t].n = 1
      BY <1>1, Pointers
    <3> QED
      BY ONLY <3>1 DEF Put
  <2> QED
    BY <1>1, <2>1, <2>2 DEF Fork, Copied
<1>3. /\ f \in Frame /\ f.epc = "user" /\ f.spp = "U" /\ f.spie /\ f.sp = own[t].sp
      /\ f.regs = [stack[t][1].regs EXCEPT !.a0 = <<"pid", 0>>]
  BY <1>1, Types, Pointers DEF UserFrame, Frame, RegFile
<1>4. /\ g \in Frame /\ g.epc = "user" /\ g.spp = "U" /\ g.spie /\ g.sp = own[t].sp
      /\ g.regs = [stack[t][1].regs EXCEPT !.a0 = Nought]
  BY <1>1, Types, Pointers DEF UserFrame, Frame, RegFile
<1>5. /\ own' \in [Thread -> [sp : Pointer, regs : RegFile]]
      /\ own'[t].sp = own[t].sp
      /\ own'[t].regs = [own[t].regs EXCEPT !.a0 = <<"pid", 0>>]
      /\ own'[c].sp = own[t].sp /\ own'[c].regs = [own[t].regs EXCEPT !.a0 = Nought]
      /\ \A u \in Thread \ {t, c} : own'[u] = own[u]
  <2>1. own[t] \in [sp : Pointer, regs : RegFile]
    BY DEF TypeOK
  <2>2. w \in [sp : Pointer, regs : RegFile]
    <3>1. own[c] \in [sp : Pointer, regs : RegFile]
      BY DEF TypeOK
    <3>2. [own[t].regs EXCEPT !.a0 = Nought] \in RegFile
      BY <2>1, Types DEF RegFile
    <3> QED
      BY <2>1, <3>1, <3>2
  <2>3. /\ [own EXCEPT ![c] = w] \in [Thread -> [sp : Pointer, regs : RegFile]]
        /\ [own EXCEPT ![c] = w][t] = own[t] /\ [own EXCEPT ![c] = w][c] = w
        /\ \A u \in Thread : u # c => [own EXCEPT ![c] = w][u] = own[u]
    BY <1>1, <2>2 DEF TypeOK
  <2> DEFINE ow == [own EXCEPT ![c] = w]
  <2>4. /\ own' \in [Thread -> [sp : Pointer, regs : RegFile]]
        /\ own'[t].sp = ow[t].sp
        /\ own'[t].regs = [ow[t].regs EXCEPT !.a0 = <<"pid", 0>>]
        /\ \A u \in Thread : u # t => own'[u] = ow[u]
    <3> PICK o : o = [own[t].regs EXCEPT !.a0 = <<"pid", 0>>]
      OBVIOUS
    <3>1. ow \in [Thread -> [sp : Pointer, regs : RegFile]] /\ ow[t] = own[t]
      BY <2>3
    <3>2. own' = [ow EXCEPT ![t].regs.a0 = <<"pid", 0>>]
      BY <1>2
    <3> HIDE DEF ow
    <3>3. o \in RegFile
      BY <2>1, Types DEF RegFile
    <3>4. own' = [ow EXCEPT ![t] = [ow[t] EXCEPT !.regs = o]]
      BY <3>1, <3>2
    <3>5. own' \in [Thread -> [sp : Pointer, regs : RegFile]]
      BY <3>1, <3>3, <3>4
    <3>6. own'[t] = [ow[t] EXCEPT !.regs = o] /\ \A u \in Thread : u # t => own'[u] = ow[u]
      BY <3>1, <3>4
    <3>7. own'[t].sp = ow[t].sp /\ own'[t].regs = o
      BY <3>1, <3>6
    <3> QED
      BY <3>1, <3>5, <3>6, <3>7
  <2>5. w.sp = own[t].sp /\ w.regs = [own[t].regs EXCEPT !.a0 = Nought]
    <3>1. own[c] \in [sp : Pointer, regs : RegFile]
      BY DEF TypeOK
    <3> QED
      BY <3>1
  <2> QED
    BY <1>1, <2>3, <2>4, <2>5
<1>6. Same(f.regs, own'[t].regs) /\ Same(g.regs, own'[c].regs)
  <2>1. stack[t][1].regs \in RegFile /\ own[t].regs \in RegFile
    BY <1>1 DEF Frame, TypeOK
  <2>2. own'[c].regs = [own[t].regs EXCEPT !.a0 = Nought]
    BY <1>5
  <2>3. Same(stack[t][1].regs, own[t].regs)
    BY <1>1 DEF UserFrame
  <2>4. Same(f.regs, own'[t].regs)
    <3>1. /\ f.regs.a0 = own'[t].regs.a0
          /\ f.regs.t = stack[t][1].regs.t /\ f.regs.s = stack[t][1].regs.s
          /\ own'[t].regs.t = own[t].regs.t /\ own'[t].regs.s = own[t].regs.s
      BY <1>3, <1>5, <2>1 DEF RegFile
    <3> QED
      BY <2>3, <3>1, SameResult
  <2>5. Same(g.regs, own'[c].regs)
    <3>1. /\ g.regs.a0 = own'[c].regs.a0
          /\ g.regs.t = stack[t][1].regs.t /\ g.regs.s = stack[t][1].regs.s
          /\ own'[c].regs.t = own[t].regs.t /\ own'[c].regs.s = own[t].regs.s
      BY <1>4, <2>1, <2>2 DEF RegFile
    <3> QED
      BY <2>3, <3>1, SameResult
  <2> QED
    BY <2>4, <2>5
<1>7. /\ stack' \in [Thread -> [1..2 -> Frame]] /\ stack'[t][1] = f /\ stack'[c][1] = g
      /\ \A u \in Thread \ {t, c} : stack'[u] = stack[u]
  <2> PICK st : st = [stack EXCEPT ![t][1] = f]
    OBVIOUS
  <2>1. stack \in [Thread -> [1..2 -> Frame]]
    BY DEF TypeOK
  <2>2. st \in [Thread -> [1..2 -> Frame]]
    BY <1>3, <2>1
  <2>3. st[t][1] = f
    <3>1. st[t] = [stack[t] EXCEPT ![1] = f] /\ stack[t] \in [1..2 -> Frame]
      BY ONLY <2>1, st = [stack EXCEPT ![t][1] = f], t \in Thread
    <3> QED
      BY ONLY <3>1
  <2>4. \A u \in Thread : u # t => st[u] = stack[u]
    BY <2>1
  <2>5. stack' = [st EXCEPT ![c][1] = g]
    BY <1>2
  <2>6. stack' \in [Thread -> [1..2 -> Frame]]
    BY <1>4, <2>2, <2>5
  <2>7. stack'[c][1] = g
    <3>1. stack'[c] = [st[c] EXCEPT ![1] = g] /\ st[c] \in [1..2 -> Frame]
      BY ONLY <2>2, <2>5, c \in Thread
    <3> QED
      BY ONLY <3>1
  <2>8. \A u \in Thread : u # c => stack'[u] = st[u]
    BY <2>2, <2>5
  <2> QED
    BY <1>1, <2>3, <2>4, <2>6, <2>7, <2>8
<1>8. /\ context' \in [Thread -> [ra : Place, sp : Pointer, s : Value, flag : BOOLEAN]]
      /\ context'[c].ra = "forkret" /\ ~context'[c].flag /\ context'[c].sp = First(c)
      /\ \A u \in Thread : u # c => context'[u] = context[u]
      /\ tf'[c] = First(c) /\ \A u \in Thread : u # c => tf'[u] = tf[u]
  <2> DEFINE new == [ra |-> "forkret", sp |-> First(c), s |-> Nought, flag |-> FALSE]
  <2>1. /\ new \in [ra : Place, sp : Pointer, s : Value, flag : BOOLEAN]
        /\ new.ra = "forkret" /\ ~new.flag /\ new.sp = First(c)
    BY Types, Pointers DEF Place
  <2>2. context' = [context EXCEPT ![c] = new]
    BY <1>2
  <2> HIDE DEF new
  <2>3. /\ context' \in [Thread -> [ra : Place, sp : Pointer, s : Value, flag : BOOLEAN]]
        /\ context'[c] = new /\ \A u \in Thread : u # c => context'[u] = context[u]
    BY <2>1, <2>2 DEF TypeOK
  <2>4. tf'[c] = First(c) /\ \A u \in Thread : u # c => tf'[u] = tf[u]
    BY <1>2 DEF TypeOK
  <2> QED
    BY <2>1, <2>3, <2>4
<1>9. TypeOK'
  <2>1. tf' \in [Thread -> Pointer] /\ live' \subseteq Thread
    BY <1>2, Pointers DEF TypeOK
  <2>2. pgdir' \in [Thread -> Thread \cup {Boot}]
    BY <1>2 DEF TypeOK
  <2> QED
    BY <1>2, <1>5, <1>7, <1>8, <2>1, <2>2 DEF TypeOK
<1>10. InTrap(t)'
  <2>1. UserFrame(t, f)'
    BY <1>1, <1>3, <1>5, <1>6 DEF UserFrame
  <2>2. stack'[t][cpu'.sp.n] = f /\ cpu'.sp = First(t) /\ tf'[t] = First(t)
    BY <1>1, <1>2, <1>7, <1>8, Pointers
  <2> QED
    BY <2>1, <2>2 DEF InTrap, UserFrame
<1>11. Running'
  <2>1. pgdir'[t] = pgdir[t]
    BY <1>1, <1>2 DEF TypeOK
  <2> QED
    BY <1>1, <1>2, <1>10, <2>1 DEF Running, At
<1>12. Suspended(c)'
  <2>1. c # Idle /\ own'[c].sp = g.sp
    BY <1>1, <1>4, <1>5 DEF Running
  <2>2. UserFrame(c, g)'
    BY <1>4, <1>6, <2>1 DEF UserFrame
  <2> QED
    BY <1>7, <1>8, <2>2 DEF Suspended, UserFrame
<1>13. ASSUME NEW u \in live' \ {cpu'.cur}
       PROVE  Suspended(u)'
  <2>1. CASE u # c
    BY <1>1, <1>2, <1>5, <1>7, <1>8, <2>1, SuspendedStays DEF TypeOK
  <2> QED
    BY <1>12, <2>1
<1> QED
  BY <1>9, <1>11, <1>13

LEMMA KernelThreadStep == ASSUME Whole, NEW c \in Thread, KernelThread(c) PROVE Whole'
<1> USE DEF Whole
<1> PICK t \in Thread : t = cpu.cur
  BY DEF TypeOK
<1>1. /\ cpu.pc = "kcode" /\ t \in live /\ c \notin live /\ c # t /\ c # Idle
      /\ cpu.sp = Ground(t) /\ own[t].sp = Ground(t) /\ Same(cpu.regs, own[t].regs)
      /\ Framed(t) /\ cpu.mode = "S" /\ cpu.sie /\ cpu.sscratch = Zero
      /\ cpu.satp = pgdir[t]
  BY DEF KernelThread, Running, At
<1> PICK f : f = [NoFrame EXCEPT !.sp = First(c),
                                 !.regs = [Regs(Nought) EXCEPT !.s = <<"fn", 0>>],
                                 !.spp = "S", !.spie = TRUE, !.epc = "kcode"]
  OBVIOUS
<1>2. /\ stack' = [stack EXCEPT ![c][1] = f]
      /\ live' = live \cup {c} /\ tf' = [tf EXCEPT ![c] = First(c)]
      /\ context' = [context EXCEPT ![c] = [ra |-> "forkret", sp |-> First(c), s |-> Nought,
                                            flag |-> FALSE]]
      /\ pgdir' = [pgdir EXCEPT ![c] = IF pgdir[t] = Boot THEN Boot ELSE c]
      /\ own' = [own EXCEPT ![c] = Meant(f), ![t].regs = Called(@)]
      /\ cpu' = [cpu EXCEPT !.regs = Called(@)]
  BY <1>1 DEF KernelThread, Copied
<1>3. /\ f \in Frame /\ f.epc = "kcode" /\ f.spp = "S" /\ f.spie /\ f.sp = First(c)
  <2>1. [Regs(Nought) EXCEPT !.s = <<"fn", 0>>] \in RegFile
    BY Types DEF RegFile
  <2> PICK r \in RegFile : r = [Regs(Nought) EXCEPT !.s = <<"fn", 0>>]
    BY <2>1
  <2>2. NoFrame \in Frame /\ First(c) \in Pointer
    BY Types, Pointers
  <2>3. f = [NoFrame EXCEPT !.sp = First(c), !.regs = r, !.spp = "S", !.spie = TRUE,
                            !.epc = "kcode"]
    OBVIOUS
  <2> QED
    BY <2>2, <2>3 DEF Frame, Place
<1>4. Meant(f) \in [sp : Pointer, regs : RegFile] /\ Meant(f).sp = f.sp
      /\ Meant(f).regs = f.regs
  BY <1>3 DEF Meant, Frame
<1>5. /\ own' \in [Thread -> [sp : Pointer, regs : RegFile]]
      /\ own'[c] = Meant(f)
      /\ own'[t].sp = own[t].sp /\ own'[t].regs = Called(own[t].regs)
      /\ \A u \in Thread \ {t, c} : own'[u] = own[u]
  <2>1. own \in [Thread -> [sp : Pointer, regs : RegFile]]
    BY DEF TypeOK
  <2>2. Called(own[t].regs) \in RegFile
    BY <2>1, Types
  <2>3. [own[t] EXCEPT !.regs = Called(own[t].regs)] \in [sp : Pointer, regs : RegFile]
    BY <2>1, <2>2
  <2>4. own' = [own EXCEPT ![c] = Meant(f),
                           ![t] = [own[t] EXCEPT !.regs = Called(own[t].regs)]]
    BY <1>1, <1>2, <2>1
  <2>5. own' \in [Thread -> [sp : Pointer, regs : RegFile]]
    BY <1>4, <2>1, <2>3, <2>4
  <2>6. /\ own'[t] = [own[t] EXCEPT !.regs = Called(own[t].regs)] /\ own'[c] = Meant(f)
        /\ \A u \in Thread \ {t, c} : own'[u] = own[u]
    BY <1>1, <2>1, <2>4
  <2>7. own'[t].sp = own[t].sp /\ own'[t].regs = Called(own[t].regs)
    BY <2>1, <2>6
  <2> QED
    BY <2>5, <2>6, <2>7
<1>6. Same(Called(cpu.regs), Called(own[t].regs))
  BY <1>1 DEF Same, Called, Regs, TypeOK
<1>7. /\ stack' \in [Thread -> [1..2 -> Frame]] /\ stack'[c][1] = f
      /\ \A u \in Thread : u # c => stack'[u] = stack[u]
  <2>1. stack \in [Thread -> [1..2 -> Frame]]
    BY DEF TypeOK
  <2>2. stack' \in [Thread -> [1..2 -> Frame]]
    BY <1>2, <1>3, <2>1
  <2>3. stack'[c][1] = f
    <3>1. stack'[c] = [stack[c] EXCEPT ![1] = f] /\ stack[c] \in [1..2 -> Frame]
      BY ONLY <1>2, <2>1, c \in Thread
    <3> QED
      BY ONLY <3>1
  <2>4. \A u \in Thread : u # c => stack'[u] = stack[u]
    BY <1>2, <2>1
  <2> QED
    BY <2>2, <2>3, <2>4
<1>8. /\ context' \in [Thread -> [ra : Place, sp : Pointer, s : Value, flag : BOOLEAN]]
      /\ context'[c].ra = "forkret" /\ ~context'[c].flag /\ context'[c].sp = First(c)
      /\ \A u \in Thread : u # c => context'[u] = context[u]
      /\ tf'[c] = First(c) /\ \A u \in Thread : u # c => tf'[u] = tf[u]
  <2> DEFINE new == [ra |-> "forkret", sp |-> First(c), s |-> Nought, flag |-> FALSE]
  <2>1. /\ new \in [ra : Place, sp : Pointer, s : Value, flag : BOOLEAN]
        /\ new.ra = "forkret" /\ ~new.flag /\ new.sp = First(c)
    BY Types, Pointers DEF Place
  <2>2. context' = [context EXCEPT ![c] = new]
    BY <1>2
  <2> HIDE DEF new
  <2>3. /\ context' \in [Thread -> [ra : Place, sp : Pointer, s : Value, flag : BOOLEAN]]
        /\ context'[c] = new /\ \A u \in Thread : u # c => context'[u] = context[u]
    BY <2>1, <2>2 DEF TypeOK
  <2>4. tf'[c] = First(c) /\ \A u \in Thread : u # c => tf'[u] = tf[u]
    BY <1>2 DEF TypeOK
  <2> QED
    BY <2>1, <2>3, <2>4
<1>9. /\ cpu'.cur = t /\ cpu'.pc = "kcode" /\ cpu'.mode = "S" /\ cpu'.sie
      /\ cpu'.sscratch = Zero /\ cpu'.sp = cpu.sp /\ cpu'.satp = cpu.satp
      /\ cpu'.regs = Called(cpu.regs)
  BY <1>1, <1>2 DEF TypeOK
<1>10. TypeOK'
  <2>1. tf' \in [Thread -> Pointer] /\ live' \subseteq Thread
    BY <1>2, Pointers DEF TypeOK
  <2>2. pgdir' \in [Thread -> Thread \cup {Boot}]
    BY <1>2 DEF TypeOK
  <2>3. Called(cpu.regs) \in RegFile
    BY Types DEF TypeOK
  <2> QED
    BY <1>2, <1>5, <1>7, <1>8, <2>1, <2>2, <2>3 DEF TypeOK
<1>11. Running'
  <2>1. pgdir'[t] = pgdir[t] /\ {t, Idle} \subseteq live' /\ Framed(t)'
    BY <1>1, <1>2, <1>8 DEF TypeOK, Running, Framed
  <2>2. own'[t].sp = Ground(t) /\ Same(cpu'.regs, own'[t].regs)
    BY <1>1, <1>5, <1>6, <1>9
  <2> QED
    BY <1>1, <1>9, <2>1, <2>2 DEF Running, At
<1>12. Suspended(c)'
  <2>1. own'[c].sp = First(c) /\ Same(f.regs, own'[c].regs)
    BY <1>3, <1>4, <1>5 DEF Same
  <2>2. Ground(c) = First(c)
    BY <1>1, Pointers
  <2>3. FirstFrame(c)'
    BY <1>1, <1>3, <1>7, <1>8, <2>1, <2>2 DEF FirstFrame, CodeFrame
  <2> QED
    BY <1>8, <2>3 DEF Suspended
<1>13. ASSUME NEW u \in live' \ {cpu'.cur}
       PROVE  Suspended(u)'
  <2>1. CASE u # c
    BY <1>1, <1>2, <1>5, <1>7, <1>8, <1>9, <2>1, SuspendedStays DEF TypeOK
  <2> QED
    BY <1>12, <2>1
<1> QED
  BY <1>10, <1>11, <1>13

-----------------------------------------------------------------------------
(* kernel_execve, in its three steps.                                      *)
LEMMA ExecveStep == ASSUME Whole, Execve PROVE Whole'
<1> USE DEF Whole
<1> PICK t \in Thread : t = cpu.cur
  BY DEF TypeOK
<1>1. /\ cpu.pc = "kcode" /\ t # Idle /\ cpu.sp = First(t) /\ tf[t] = First(t)
      /\ cpu.mode = "S" /\ cpu.sie /\ cpu.sscratch = Zero /\ cpu.satp = pgdir[t]
      /\ {t, Idle} \subseteq live
  BY Pointers DEF Execve, Running, At, Framed
<1>2. First(t).of = t /\ First(t).n = 1
  BY Pointers
<1>3. FrameAt(tf[t]) = stack[t][1] /\ stack \in [Thread -> [1..2 -> Frame]]
  BY <1>1, <1>2 DEF FrameAt, TypeOK
<1>4. stack' = [stack EXCEPT ![t][1] = stack[t][1]]
  BY <1>2, <1>3 DEF Execve, Put
<1>5. stack' = stack
  BY <1>3, <1>4
<1>6. tf' = tf
  BY <1>1 DEF Execve, TypeOK
<1>7. /\ cpu' = [cpu EXCEPT !.pc = "loading", !.regs = Regs(Junk)]
      /\ UNCHANGED <<context, pgdir, live, own>>
  BY DEF Execve
<1>8. /\ cpu'.cur = t /\ cpu'.pc = "loading" /\ cpu'.mode = "S" /\ cpu'.sie
      /\ cpu'.sscratch = Zero /\ cpu'.sp = First(t) /\ cpu'.satp = cpu.satp
  BY <1>1, <1>7 DEF TypeOK
<1>9. TypeOK'
  BY <1>5, <1>6, <1>7, Types DEF TypeOK, Place
<1>10. Running'
  BY <1>1, <1>6, <1>7, <1>8 DEF Running, At
<1>11. ASSUME NEW u \in live' \ {cpu'.cur}
       PROVE  Suspended(u)'
  BY <1>5, <1>6, <1>7, <1>8, SuspendedStays DEF TypeOK
<1> QED
  BY <1>9, <1>10, <1>11

LEMMA ExecveLoadsStep == ASSUME Whole, ExecveLoads PROVE Whole'
<1> USE DEF Whole
<1> PICK t \in Thread : t = cpu.cur
  BY DEF TypeOK
<1>1. /\ cpu.pc = "loading" /\ t # Idle /\ cpu.sp = First(t) /\ tf[t] = First(t)
      /\ cpu.mode = "S" /\ cpu.sie /\ cpu.sscratch = Zero /\ {t, Idle} \subseteq live
  BY DEF ExecveLoads, Running, At
<1>2. First(t).of = t /\ First(t).n = 1
  BY Pointers
<1>3. /\ stack' = [stack EXCEPT ![t][1] = Program]
      /\ pgdir' = [pgdir EXCEPT ![t] = t]
      /\ own' = [own EXCEPT ![t] = Meant(Program)]
      /\ cpu' = [cpu EXCEPT !.pc = "loaded", !.satp = t]
      /\ UNCHANGED <<context, tf, live>>
  BY <1>1, <1>2 DEF ExecveLoads, LoadIcode, Put
<1>4. Program.epc = "user" /\ Program.spp = "U" /\ Program.spie
  BY DEF Program, NoFrame
<1>5. Meant(Program) \in [sp : Pointer, regs : RegFile]
  BY Types DEF Meant, Frame
<1>6. /\ own' \in [Thread -> [sp : Pointer, regs : RegFile]]
      /\ own'[t].sp = Program.sp /\ own'[t].regs = Program.regs
      /\ \A u \in Thread : u # t => own'[u] = own[u]
  BY <1>3, <1>5 DEF TypeOK, Meant
<1>7. /\ stack' \in [Thread -> [1..2 -> Frame]] /\ stack'[t][1] = Program
      /\ \A u \in Thread : u # t => stack'[u] = stack[u]
  <2>1. stack \in [Thread -> [1..2 -> Frame]]
    BY DEF TypeOK
  <2>2. stack' \in [Thread -> [1..2 -> Frame]]
    BY <1>3, <2>1, Types
  <2>3. stack'[t][1] = Program
    <3>1. stack'[t] = [stack[t] EXCEPT ![1] = Program] /\ stack[t] \in [1..2 -> Frame]
      BY ONLY <1>3, <2>1, t \in Thread
    <3> QED
      BY ONLY <3>1
  <2>4. \A u \in Thread : u # t => stack'[u] = stack[u]
    BY <1>3, <2>1
  <2> QED
    BY <2>2, <2>3, <2>4
<1>8. /\ cpu'.cur = t /\ cpu'.pc = "loaded" /\ cpu'.mode = "S" /\ cpu'.sie
      /\ cpu'.sscratch = Zero /\ cpu'.sp = First(t) /\ cpu'.satp = t /\ pgdir'[t] = t
  BY <1>1, <1>3 DEF TypeOK
<1>9. TypeOK'
  <2>1. pgdir' \in [Thread -> Thread \cup {Boot}]
    BY <1>3 DEF TypeOK
  <2> QED
    BY <1>3, <1>6, <1>7, <2>1 DEF TypeOK, Place
<1>10. UserFrame(t, stack[t][1])'
  BY <1>1, <1>4, <1>6, <1>7 DEF UserFrame, Same
<1>11. Running'
  BY <1>1, <1>3, <1>8, <1>10 DEF Running, At
<1>12. ASSUME NEW u \in live' \ {cpu'.cur}
       PROVE  Suspended(u)'
  BY <1>3, <1>6, <1>7, <1>8, SuspendedStays DEF TypeOK
<1> QED
  BY <1>9, <1>11, <1>12

LEMMA ExecveEndsStep == ASSUME Whole, ExecveEnds PROVE Whole'
<1> USE DEF Whole
<1> PICK t \in Thread : t = cpu.cur
  BY DEF TypeOK
<1>1. /\ cpu.pc = "loaded" /\ t # Idle /\ cpu.sp = First(t) /\ tf[t] = First(t)
      /\ cpu.mode = "S" /\ cpu.sie /\ cpu.sscratch = Zero /\ {t, Idle} \subseteq live
      /\ cpu.satp = pgdir[t] /\ UserFrame(t, stack[t][1])
  BY DEF ExecveEnds, Running, At
<1>2. /\ cpu' = [cpu EXCEPT !.sp = First(t), !.pc = "restore1"]
      /\ UNCHANGED <<context, tf, stack, pgdir, live, own>>
  BY <1>1 DEF ExecveEnds
<1>3. /\ cpu'.cur = t /\ cpu'.pc = "restore1" /\ cpu'.mode = "S" /\ cpu'.sie
      /\ cpu'.sscratch = Zero /\ cpu'.sp = First(t) /\ cpu'.satp = cpu.satp
  BY <1>1, <1>2 DEF TypeOK
<1>4. TypeOK'
  BY <1>2, Pointers DEF TypeOK, Place
<1>5. Restores(t)'
  <2>1. UserFrame(t, stack[t][1])' /\ stack'[t][cpu'.sp.n] = stack'[t][1]
    BY <1>1, <1>2, <1>3, Pointers DEF UserFrame
  <2> QED
    BY <1>1, <1>2, <1>3, <2>1 DEF Restores, UserFrame
<1>6. Running'
  BY <1>1, <1>2, <1>3, <1>5 DEF Running, At
<1>7. ASSUME NEW u \in live' \ {cpu'.cur}
      PROVE  Suspended(u)'
  BY <1>2, <1>3, SuspendedStays DEF TypeOK
<1> QED
  BY <1>4, <1>6, <1>7

(* A thread's own code.                                                    *)
LEMMA CodeStep == ASSUME Whole, NEW v \in {0, 1}, Step(v) PROVE Whole'
<1> USE DEF Whole
<1> PICK t \in Thread : t = cpu.cur
  BY DEF TypeOK
<1> PICK r \in RegFile : r = Regs(<<t, v>>)
  BY Types
<1>1. /\ cpu' = [cpu EXCEPT !.regs = r] /\ own' = [own EXCEPT ![t].regs = r]
      /\ UNCHANGED <<context, tf, stack, pgdir, live>> /\ cpu.pc \in {"user", "kcode"}
  BY DEF Step, At
<1>2. /\ own' \in [Thread -> [sp : Pointer, regs : RegFile]]
      /\ own'[t].sp = own[t].sp /\ own'[t].regs = r
      /\ \A u \in Thread : u # t => own'[u] = own[u]
  BY <1>1 DEF TypeOK
<1>3. /\ cpu'.cur = t /\ cpu'.pc = cpu.pc /\ cpu'.mode = cpu.mode /\ cpu'.sie = cpu.sie
      /\ cpu'.sscratch = cpu.sscratch /\ cpu'.sp = cpu.sp /\ cpu'.satp = cpu.satp
      /\ cpu'.regs = r
  BY <1>1 DEF TypeOK
<1>4. TypeOK'
  BY <1>1, <1>2 DEF TypeOK
<1>5. Running'
  BY <1>1, <1>2, <1>3 DEF Running, At, Same, Framed
<1>6. ASSUME NEW u \in live' \ {cpu'.cur}
      PROVE  Suspended(u)'
  BY <1>1, <1>2, <1>3, SuspendedStays DEF TypeOK
<1> QED
  BY <1>4, <1>5, <1>6

-----------------------------------------------------------------------------
(* torn is never reset; until it is set, every step keeps the threads      *)
(* whole.                                                                  *)
LEMMA StepKeeps == ASSUME IInv, [Next]_vars PROVE IInv'
<1>1. torn' \in BOOLEAN /\ (torn => torn')
  BY DEF IInv, Next, vars, Trap, TrapEnd, Restore1, Restore2, Restore3, ForkRet, Block,
         Yield, Exit, Fork, KernelThread, Syscall, Exec, Execve, ExecveLoads, ExecveEnds,
         Step
<1>2. ASSUME ~torn, ~torn', Next
      PROVE  Whole'
  <2>1. Whole
    BY <1>2 DEF IInv
  <2>2. CASE \E cause \in {"timer", "ecall"} : Trap(cause)
    BY <1>2, <2>1, <2>2, TrapStep
  <2>3. CASE TrapEnd \/ Restore1 \/ Restore2 \/ Restore3 \/ ForkRet
    BY <2>1, <2>3, TrapEndStep, Restore1Step, Restore2Step, Restore3Step, ForkRetStep
  <2>4. CASE \E t \in Thread : Block(t) \/ Yield(t) \/ Exit(t)
    BY <2>1, <2>4, BlockStep, YieldStep, ExitStep
  <2>5. CASE \E c \in Thread : Fork(c) \/ KernelThread(c)
    BY <2>1, <2>5, ForkStep, KernelThreadStep
  <2>6. CASE Syscall \/ Exec \/ Execve \/ ExecveLoads \/ ExecveEnds
    BY <2>1, <2>6, SyscallStep, ExecStep, ExecveStep, ExecveLoadsStep, ExecveEndsStep
  <2>7. CASE \E v \in {0, 1} : Step(v)
    BY <2>1, <2>7, CodeStep
  <2> QED
    BY <1>2, <2>2, <2>3, <2>4, <2>5, <2>6, <2>7 DEF Next
<1>3. ASSUME ~torn, UNCHANGED vars
      PROVE  Whole'
  <2>1. Whole
    BY <1>3 DEF IInv
  <2>2. TypeOK'
    BY <1>3, <2>1 DEF Whole, TypeOK, vars
  <2>3. Running'
    BY <1>3, <2>1 DEF Whole, Running, At, InTrap, Restores, Scratch, UserFrame, CodeFrame,
                      KernelFrame, FirstFrame, Framed, vars
  <2>4. \A t \in live' \ {cpu'.cur} : Suspended(t)'
    BY <1>3, <2>1, SuspendedStays DEF Whole, TypeOK, vars
  <2> QED
    BY <2>2, <2>3, <2>4 DEF Whole
<1> QED
  BY <1>1, <1>2, <1>3 DEF IInv

(* The inductive invariant holds.                                          *)
THEOREM WholeHolds == Spec => []IInv
<1>1. Init => IInv
  BY InitHolds
<1>2. IInv /\ [Next]_vars => IInv'
  BY StepKeeps
<1> QED
  BY <1>1, <1>2, PTL DEF Spec

(* A thread's code finds its own registers, stack pointer, address space   *)
(* and mode, whatever came between, as long as no kernel thread was        *)
(* interrupted while sscratch was set.                                     *)
THEOREM OwnContextHolds == Spec => []OwnContext
<1>1. IInv => OwnContext
  BY DEF IInv, Whole, Running, OwnContext, RightContext, At
<1> QED
  BY <1>1, WholeHolds, PTL
=============================================================================

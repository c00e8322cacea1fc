--------------------------- MODULE SemaphoreProofs ---------------------------
(***************************************************************************)
(* Proofs about module Semaphore, for any number of kernel threads, any    *)
(* number of units, any time slice and any length of sleep: who is in the  *)
(* wait queue, and that the semaphore implements AbsSemaphore.             *)
(*                                                                         *)
(* The scheduler's part is in the lemmas of SchedProofs.  Here are what    *)
(* the place of a thread says of its state, its wait state and its timer,  *)
(* and the count of the units.                                             *)
(***************************************************************************)
EXTENDS Semaphore, SchedProofs

line == sem[s].queue
held == {p \in Thread : Holds(p)}

Place == {"out", "want", "in", "leave"}
Phase == {"runs", "sleeps", "woken"}

TypeOK ==
  /\ k \in SchedRecord
  /\ timers \in Seq(Timer(Proc))
  /\ sem \in [Sem -> [value : Nat, queue : Seq(Thread)]]
  /\ at \in [Thread -> Place] /\ phase \in [Thread -> Phase]

(* Threads do not end.  A thread that marked itself as sleeping has the    *)
(* CPU until it calls schedule(); one that is back from it runs.           *)
Placed ==
  \A p \in Thread :
    /\ k.state[p] \in {"RUNNABLE", "SLEEPING"}
    /\ phase[p] = "runs" => k.state[p] = "RUNNABLE"
    /\ phase[p] = "sleeps" => k.current = p
    /\ phase[p] = "woken" /\ k.current = p => k.state[p] = "RUNNABLE"

(* What a sleeper waits for goes with its place in the program.            *)
Waits ==
  /\ OneTimer(timers) /\ Distinct(line)
  /\ \A p \in Thread :
       /\ k.wait[p] = "WT_KSEM" <=> p \in Elements(line)
       /\ p \in Elements(line) => at[p] = "want"
  /\ \A p \in Owners(timers) :
       p \in Thread /\ at[p] \in {"out", "in"} /\ phase[p] # "runs"

(* Every unit is free or held, and none is free while someone waits.       *)
Counted ==
  /\ Cardinality(held) + sem[s].value = Units
  /\ sem[s].value > 0 => line = <<>>

IInv == TypeOK /\ Sane(k) /\ Placed /\ Waits /\ Counted

-----------------------------------------------------------------------------
LEMMA Types ==
  ASSUME SemaphoreAssumption, IInv
  PROVE  /\ s \in Sem /\ Thread \subseteq Proc /\ Idle \notin Thread
         /\ k \in SchedRecord /\ Sane(k) /\ k.current \in Proc
         /\ k.state \in [Proc -> State] /\ k.wait \in [Proc -> WaitState]
         /\ timers \in Seq(Timer(Proc)) /\ sem[s].value \in Nat /\ line \in Seq(Thread)
         /\ sem[s] \in [value : Nat, queue : Seq(Thread)]
         /\ Elements(line) \subseteq Thread
         /\ at \in [Thread -> Place] /\ phase \in [Thread -> Phase]
<1>1. s \in Sem
  BY DEF SemaphoreAssumption, s
<1>2. sem[s] \in [value : Nat, queue : Seq(Thread)]
  BY <1>1 DEF IInv, TypeOK
<1>3. line \in Seq(Thread) /\ sem[s].value \in Nat
  BY <1>2 DEF line
<1>4. Elements(line) \subseteq Thread
  <2> HIDE DEF line
  <2> QED BY <1>3 DEF Elements
<1>5. k \in SchedRecord /\ Sane(k)
  BY DEF IInv, TypeOK
<1> QED BY <1>1, <1>2, <1>3, <1>4, <1>5, Fields DEF IInv, TypeOK, SemaphoreAssumption

(* The holders, by place and line.                                         *)
LEMMA HeldIs ==
  ASSUME NEW p \in Thread
  PROVE  p \in held <=> \/ at[p] \in {"in", "leave"}
                        \/ at[p] = "want" /\ phase[p] # "runs" /\ p \notin Elements(line)
BY DEF held, Holds, line, Elements

LEMMA HeldIsNext ==
  ASSUME NEW p \in Thread
  PROVE  p \in held' <=> \/ at'[p] \in {"in", "leave"}
                         \/ at'[p] = "want" /\ phase'[p] # "runs" /\ p \notin Elements(line')
BY DEF held, Holds, line, Elements

LEMMA HeldFinite ==
  ASSUME SemaphoreAssumption
  PROVE  held \subseteq Thread /\ IsFiniteSet(held) /\ Cardinality(held) \in Nat
<1>1. held \subseteq Proc /\ held \subseteq Thread
  <2>1. held \subseteq Thread
    BY DEF held
  <2> QED BY <2>1 DEF SemaphoreAssumption
<1>2. IsFiniteSet(held)
  BY <1>1, FS_Subset DEF SemaphoreAssumption
<1> QED BY <1>1, <1>2, FS_CardinalityType

(* The current thread, unless it is on its way into schedule().            *)
LEMMA Current ==
  ASSUME SemaphoreAssumption, IInv, NEW p \in Thread, k.current = p, phase[p] # "sleeps"
  PROVE  /\ k.state[p] = "RUNNABLE" /\ k.wait[p] = "none" /\ p \notin Elements(line)
         /\ phase[p] = "runs" => p \notin Owners(timers)
<1>1. phase[p] \in Phase /\ p \in Proc /\ Sane(k)
  BY Types
<1>2. k.state[p] = "RUNNABLE"
  BY <1>1 DEF IInv, Placed, Phase
<1>3. k.wait[p] = "none"
  BY <1>1, <1>2 DEF Sane
<1> QED BY <1>1, <1>2, <1>3 DEF IInv, Waits

(* AbsSemaphore counts with the operator of its own FiniteSets.            *)
LEMMA SameCount ==
  Abs!Cardinality(held) = Cardinality(held)
BY DEF Abs!Cardinality, Cardinality

(* A step that leaves the holders and the line as they are.                *)
LEMMA Stutters ==
  ASSUME SemaphoreAssumption, IInv, TypeOK', Sane(k'), Placed', Waits',
         sem'[s].value = sem[s].value, line' = line,
         \A p \in Thread : p \in held' <=> p \in held
  PROVE  IInv' /\ held' = held
<1>1. held' = held
  BY DEF held
<1> QED BY <1>1 DEF IInv, Counted

-----------------------------------------------------------------------------
(* down, or try_down, takes a free unit.                                   *)
LEMMA Takes ==
  ASSUME SemaphoreAssumption, IInv, NEW p \in Thread, at[p] = "want", Runs(p),
         sem[s].value > 0, sem' = [sem EXCEPT ![s].value = @ - 1],
         at' = [at EXCEPT ![p] = "in"], UNCHANGED <<k, timers, phase>>
  PROVE  IInv' /\ Abs!Take(p)
<1>1. /\ s \in Sem /\ sem[s].value \in Nat /\ at \in [Thread -> Place]
      /\ sem[s] \in [value : Nat, queue : Seq(Thread)] /\ Sane(k)
  BY Types
<1>2. /\ p = k.current /\ phase[p] = "runs" /\ p \notin Elements(line)
      /\ p \notin Owners(timers)
  BY Current DEF Runs
<1>3. /\ sem'[s] = [sem[s] EXCEPT !.value = @ - 1]
      /\ sem'[s].value = sem[s].value - 1 /\ sem'[s].queue = sem[s].queue
  BY <1>1 DEF IInv, TypeOK
<1>4. TypeOK'
  <2>1. sem'[s] \in [value : Nat, queue : Seq(Thread)]
    BY <1>1, <1>3
  <2> QED BY <1>1, <2>1 DEF IInv, TypeOK, Place
<1>5. line' = line /\ line = <<>>
  BY <1>3 DEF line, IInv, Counted
<1>6. Placed' /\ Waits'
  BY <1>1, <1>2, <1>5 DEF IInv, Placed, Waits, OneTimer, Owners, Distinct, Elements
<1>7. held' = held \cup {p} /\ p \notin held
  <2>1. \A q \in Thread : q \in held' <=> q \in held \/ q = p
    BY <1>1, <1>2, <1>5, HeldIs, HeldIsNext
  <2>2. p \notin held
    BY <1>2, HeldIs
  <2> QED BY <2>1, <2>2 DEF held
<1>8. Cardinality(held') = Cardinality(held) + 1 /\ Cardinality(held) \in Nat
  BY <1>7, HeldFinite, FS_AddElement
<1>9. Counted' /\ Cardinality(held) < Units
  BY <1>1, <1>3, <1>5, <1>8 DEF IInv, Counted, line, SemaphoreAssumption
<1>10. Abs!Take(p)
  BY <1>5, <1>7, <1>9, SameCount DEF Abs!Take, held, line
<1> QED BY <1>1, <1>4, <1>6, <1>9, <1>10 DEF IInv

(* try_down finds no unit.                                                 *)
LEMMA Fails ==
  ASSUME SemaphoreAssumption, IInv, NEW p \in Thread, at[p] = "want", Runs(p),
         at' = [at EXCEPT ![p] = "out"], UNCHANGED <<k, timers, sem, phase>>
  PROVE  IInv' /\ UNCHANGED <<held, line>>
<1>1. at \in [Thread -> Place] /\ Sane(k)
  BY Types
<1>2. /\ phase[p] = "runs" /\ p \notin Elements(line) /\ p \notin Owners(timers)
  BY Current DEF Runs
<1>3. line' = line
  BY DEF line
<1>4. TypeOK' /\ Placed' /\ Waits'
  BY <1>1, <1>2, <1>3 DEF IInv, TypeOK, Place, Placed, Waits, OneTimer, Owners, Distinct, Elements
<1>5. \A q \in Thread : q \in held' <=> q \in held
  BY <1>1, <1>2, <1>3, HeldIs, HeldIsNext
<1> QED BY <1>1, <1>3, <1>4, <1>5, Stutters

(* down finds no unit.                                                     *)
LEMMA Joins ==
  ASSUME SemaphoreAssumption, IInv, NEW p \in Thread, at[p] = "want", DownSleeps(p, s)
  PROVE  IInv' /\ Abs!Join(p)
<1>1. /\ s \in Sem /\ sem[s].value \in Nat /\ at \in [Thread -> Place]
      /\ sem[s] \in [value : Nat, queue : Seq(Thread)] /\ Sane(k)
      /\ line \in Seq(Thread) /\ k \in SchedRecord /\ p \in Proc /\ p # Idle
      /\ k.state \in [Proc -> State] /\ k.wait \in [Proc -> WaitState]
      /\ phase \in [Thread -> Phase] /\ Thread \subseteq Proc
  BY Types
<1>2. /\ p = k.current /\ phase[p] = "runs" /\ p \notin Elements(line)
      /\ k.state[p] = "RUNNABLE" /\ p \notin Owners(timers)
  BY Current DEF DownSleeps, Runs
<1>3. /\ k' = Sleeping(k, "WT_KSEM") /\ sem[s].value = 0
      /\ sem' = [sem EXCEPT ![s].queue = Append(@, p)]
      /\ phase' = [phase EXCEPT ![p] = "sleeps"] /\ timers' = timers /\ at' = at
  BY <1>1 DEF DownSleeps
<1>4. /\ Sane(k') /\ k'.current = p /\ k' \in SchedRecord
      /\ k'.state = [k.state EXCEPT ![p] = "SLEEPING"]
      /\ k'.wait = [k.wait EXCEPT ![p] = "WT_KSEM"]
  <2>1. "WT_KSEM" \in WaitState /\ "WT_KSEM" # "none"
    BY DEF WaitState
  <2> QED BY <1>1, <1>2, <1>3, <2>1, SleepingSane, SleepingType
<1>5. line' = Append(line, p) /\ sem'[s].value = sem[s].value
  BY <1>1, <1>3 DEF line, IInv, TypeOK
<1>6. /\ Append(line, p) \in Seq(Thread) /\ Distinct(line')
      /\ Elements(line') = Elements(line) \cup {p}
  <2>1. Distinct(line)
    BY DEF IInv, Waits
  <2> HIDE DEF line
  <2> QED BY <1>1, <1>2, <1>5, <2>1, AppendElements
<1>7. TypeOK'
  <2>1. sem' \in [Sem -> [value : Nat, queue : Seq(Thread)]]
    <3>1. [sem[s] EXCEPT !.queue = Append(line, p)] \in [value : Nat, queue : Seq(Thread)]
      BY <1>1, <1>6
    <3>2. sem' = [sem EXCEPT ![s] = [sem[s] EXCEPT !.queue = Append(line, p)]]
      BY <1>1, <1>3 DEF line, IInv, TypeOK
    <3> QED BY <3>1, <3>2 DEF IInv, TypeOK
  <2>2. phase' \in [Thread -> Phase]
    BY <1>1, <1>3 DEF Phase
  <2> QED BY <1>3, <1>4, <2>1, <2>2 DEF IInv, TypeOK
<1>8. Placed'
  BY <1>1, <1>2, <1>3, <1>4 DEF IInv, Placed
<1>9. Waits'
  <2>1. OneTimer(timers) /\ \A q \in Owners(timers) :
          q \in Thread /\ at[q] \in {"out", "in"} /\ phase[q] # "runs"
    BY DEF IInv, Waits
  <2>2. \A q \in Thread : /\ k.wait[q] = "WT_KSEM" <=> q \in Elements(line)
                          /\ q \in Elements(line) => at[q] = "want"
    BY DEF IInv, Waits
  <2>3. \A q \in Thread : /\ k'.wait[q] = "WT_KSEM" <=> q \in Elements(line')
                          /\ q \in Elements(line') => at'[q] = "want"
    BY <1>1, <1>3, <1>4, <1>6, <2>2
  <2>4. OneTimer(timers') /\ \A q \in Owners(timers') :
          q \in Thread /\ at'[q] \in {"out", "in"} /\ phase'[q] # "runs"
    BY <1>1, <1>3, <2>1
  <2> QED BY <1>6, <2>3, <2>4 DEF Waits
<1>10. \A q \in Thread : q \in held' <=> q \in held
  BY <1>1, <1>2, <1>3, <1>6, HeldIs, HeldIsNext
<1>11. held' = held /\ p \notin held
  BY <1>2, <1>10, HeldIs DEF held
<1>12. Counted' /\ Cardinality(held) = Units
  BY <1>1, <1>3, <1>5, <1>11, HeldFinite DEF IInv, Counted, SemaphoreAssumption
<1>13. Abs!Join(p)
  <2>1. ~\E i \in DOMAIN line : line[i] = p
    BY <1>2 DEF Elements
  <2> QED BY <1>5, <1>11, <1>12, <2>1, SameCount DEF Abs!Join, Abs!InLine, held, line
<1> QED BY <1>4, <1>7, <1>8, <1>9, <1>12, <1>13 DEF IInv

(* down goes on after schedule(): its unit has been handed over.           *)
LEMMA Continues ==
  ASSUME SemaphoreAssumption, IInv, NEW p \in Thread, at[p] = "want", DownWoken(p, s, "in")
  PROVE  IInv' /\ UNCHANGED <<held, line>>
<1>1. /\ s \in Sem /\ at \in [Thread -> Place] /\ Sane(k) /\ k \in SchedRecord
      /\ phase \in [Thread -> Phase] /\ sem[s] \in [value : Nat, queue : Seq(Thread)]
  BY Types
<1>2. /\ p = k.current /\ phase[p] = "woken" /\ p \notin Elements(line)
      /\ k.state[p] = "RUNNABLE"
  BY Current DEF DownWoken
<1>3. \A i \in DOMAIN sem[s].queue : sem[s].queue[i] # p
  BY <1>2 DEF line, Elements
<1>4. WaitDel(sem[s].queue, p) = sem[s].queue
  BY <1>3 DEF WaitDel
<1>5. sem' = sem
  <2>1. sem' = [sem EXCEPT ![s].queue = sem[s].queue]
    BY <1>4 DEF DownWoken
  <2> QED BY <1>1, <2>1 DEF IInv, TypeOK
<1>6. k' = k
  <2>1. k' = [k EXCEPT !.ok = TRUE]
    BY <1>1, <1>3 DEF DownWoken, Sane
  <2> QED BY <1>1, <2>1 DEF Sane, SchedRecord
<1>7. /\ phase' = [phase EXCEPT ![p] = "runs"] /\ at' = [at EXCEPT ![p] = "in"]
      /\ timers' = timers
  BY DEF DownWoken, GoesTo
<1>8. line' = line
  BY <1>5 DEF line
<1>9. p \notin Owners(timers)
  BY DEF IInv, Waits
<1>10. TypeOK' /\ Placed' /\ Waits'
  BY <1>1, <1>2, <1>5, <1>6, <1>7, <1>8, <1>9
     DEF IInv, TypeOK, Place, Phase, Placed, Waits, OneTimer, Owners, Distinct, Elements
<1>11. \A q \in Thread : q \in held' <=> q \in held
  BY <1>1, <1>2, <1>7, <1>8, HeldIs, HeldIsNext
<1> QED BY <1>1, <1>5, <1>6, <1>8, <1>10, <1>11, Stutters

-----------------------------------------------------------------------------
(* add_timer puts the timer of the sleeper among those of the list.        *)
LEMMA Added ==
  ASSUME NEW ts \in Seq(Timer(Proc)), NEW p \in Proc, NEW n \in Nat
  PROVE  Owners(AddTimer(ts, p, n)) = Owners(ts) \cup {p}
BY AddTimerType

(* do_sleep, up to its schedule() and after it.                            *)
LEMMA FallsAsleep ==
  ASSUME SemaphoreAssumption, IInv, NEW p \in Thread, at[p] \in {"out", "in"},
         Runs(p), NEW n \in 1..MaxSleep, k' = Sleeping(k, "WT_TIMER"),
         timers' = AddTimer(timers, p, n), phase' = [phase EXCEPT ![p] = "sleeps"],
         UNCHANGED <<sem, at>>
  PROVE  IInv' /\ UNCHANGED <<held, line>>
<1>1. /\ Sane(k) /\ k \in SchedRecord /\ p \in Proc /\ p # Idle
      /\ k.state \in [Proc -> State] /\ k.wait \in [Proc -> WaitState]
      /\ phase \in [Thread -> Phase] /\ Thread \subseteq Proc
      /\ timers \in Seq(Timer(Proc)) /\ n \in Nat
  BY Types DEF SemaphoreAssumption
<1>2. /\ p = k.current /\ phase[p] = "runs" /\ p \notin Elements(line)
      /\ k.state[p] = "RUNNABLE" /\ p \notin Owners(timers)
  BY Current DEF Runs
<1>3. /\ Sane(k') /\ k'.current = p /\ k' \in SchedRecord
      /\ k'.state = [k.state EXCEPT ![p] = "SLEEPING"]
      /\ k'.wait = [k.wait EXCEPT ![p] = "WT_TIMER"]
  <2>1. "WT_TIMER" \in WaitState /\ "WT_TIMER" # "none"
    BY DEF WaitState, Interruptible
  <2> QED BY <1>1, <1>2, <2>1, SleepingSane, SleepingType
<1>4. timers' \in Seq(Timer(Proc)) /\ Owners(timers') = Owners(timers) \cup {p}
  <2>1. timers \in Seq(Timer(Proc)) /\ p \in Proc /\ n \in Nat
    BY <1>1
  <2>2. AddTimer(timers, p, n) \in Seq(Timer(Proc))
    BY <2>1, AddTimerType
  <2>3. Owners(AddTimer(timers, p, n)) = Owners(timers) \cup {p}
    BY <2>1, Added
  <2> QED BY <2>2, <2>3
<1>5. OneTimer(timers')
  <2>1. OneTimer(timers)
    BY DEF IInv, Waits
  <2> QED BY <1>1, <1>2, <2>1, AddTimerOne
<1>6. TypeOK'
  <2>1. phase' \in [Thread -> Phase]
    BY <1>1 DEF Phase
  <2> QED BY <1>3, <1>4, <2>1 DEF IInv, TypeOK
<1>7. Placed'
  BY <1>1, <1>2, <1>3 DEF IInv, Placed
<1>8. line' = line
  BY DEF line
<1>9. Waits'
  <2>1. /\ Distinct(line)
        /\ \A q \in Owners(timers) :
             q \in Thread /\ at[q] \in {"out", "in"} /\ phase[q] # "runs"
        /\ \A q \in Thread : /\ k.wait[q] = "WT_KSEM" <=> q \in Elements(line)
                             /\ q \in Elements(line) => at[q] = "want"
    BY DEF IInv, Waits
  <2>2. \A q \in Thread : /\ k'.wait[q] = "WT_KSEM" <=> q \in Elements(line')
                          /\ q \in Elements(line') => at'[q] = "want"
    BY <1>1, <1>2, <1>3, <1>8, <2>1
  <2>3. \A q \in Owners(timers') :
          q \in Thread /\ at'[q] \in {"out", "in"} /\ phase'[q] # "runs"
    BY <1>1, <1>4, <2>1
  <2> QED BY <1>5, <1>8, <2>1, <2>2, <2>3 DEF Waits, Distinct
<1>10. \A q \in Thread : q \in held' <=> q \in held
  BY <1>1, <1>2, <1>8, HeldIs, HeldIsNext
<1> QED BY <1>3, <1>6, <1>7, <1>8, <1>9, <1>10, Stutters

LEMMA WakesUp ==
  ASSUME SemaphoreAssumption, IInv, NEW p \in Thread, NEW l,
         (at[p] = "out" /\ l = "want") \/ (at[p] = "in" /\ l = "leave"),
         k.current = p, phase[p] = "woken", timers' = DelTimer(timers, p),
         phase' = [phase EXCEPT ![p] = "runs"], at' = [at EXCEPT ![p] = l],
         UNCHANGED <<k, sem>>
  PROVE  IInv' /\ UNCHANGED <<held, line>>
<1>1. /\ Sane(k) /\ p \in Proc /\ at \in [Thread -> Place] /\ l \in Place
      /\ phase \in [Thread -> Phase] /\ timers \in Seq(Timer(Proc))
  BY Types DEF Place
<1>2. k.state[p] = "RUNNABLE" /\ p \notin Elements(line)
  BY Current
<1>3. OneTimer(timers)
  BY DEF IInv, Waits
<1>4. /\ timers' \in Seq(Timer(Proc)) /\ Owners(timers') \subseteq Owners(timers)
      /\ OneTimer(timers') /\ p \notin Owners(timers')
  BY <1>1, <1>3, DelTimerType, DelTimerOne
<1>5. TypeOK'
  <2>1. phase' \in [Thread -> Phase] /\ at' \in [Thread -> Place]
    BY <1>1 DEF Phase
  <2> QED BY <1>4, <2>1 DEF IInv, TypeOK
<1>6. Placed'
  BY <1>1, <1>2 DEF IInv, Placed
<1>7. line' = line
  BY DEF line
<1>8. Waits'
  <2>1. /\ Distinct(line)
        /\ \A q \in Owners(timers) :
             q \in Thread /\ at[q] \in {"out", "in"} /\ phase[q] # "runs"
        /\ \A q \in Thread : /\ k.wait[q] = "WT_KSEM" <=> q \in Elements(line)
                             /\ q \in Elements(line) => at[q] = "want"
    BY DEF IInv, Waits
  <2>2. \A q \in Thread : /\ k'.wait[q] = "WT_KSEM" <=> q \in Elements(line')
                          /\ q \in Elements(line') => at'[q] = "want"
    BY <1>1, <1>2, <1>7, <2>1
  <2>3. \A q \in Owners(timers') :
          q \in Thread /\ at'[q] \in {"out", "in"} /\ phase'[q] # "runs"
    BY <1>1, <1>4, <2>1
  <2> QED BY <1>4, <1>7, <2>1, <2>2, <2>3 DEF Waits, Distinct
<1>9. \A q \in Thread : q \in held' <=> q \in held
  BY <1>1, <1>2, <1>7, HeldIs, HeldIsNext
<1> QED BY <1>1, <1>5, <1>6, <1>7, <1>8, <1>9, Stutters

LEMMA Sleeps ==
  ASSUME SemaphoreAssumption, IInv, NEW p \in Thread, NEW n \in 1..MaxSleep, NEW l,
         (at[p] = "out" /\ l = "want") \/ (at[p] = "in" /\ l = "leave"), Sleep(p, n, l)
  PROVE  IInv' /\ UNCHANGED <<held, line>>
BY FallsAsleep, WakesUp DEF Sleep, GoesTo

-----------------------------------------------------------------------------
(* up with nobody in the line.                                             *)
LEMMA Returns ==
  ASSUME SemaphoreAssumption, IInv, NEW p \in Thread, at[p] = "leave",
         Up(p, s, "out"), line = <<>>
  PROVE  IInv' /\ Abs!Release(p)
<1>1. /\ s \in Sem /\ sem[s].value \in Nat /\ at \in [Thread -> Place] /\ Sane(k)
      /\ sem[s] \in [value : Nat, queue : Seq(Thread)]
  BY Types
<1>2. phase[p] = "runs" /\ p \notin Elements(line) /\ p \notin Owners(timers)
  BY Current DEF Up, Runs
<1>3. /\ k' = k /\ timers' = timers /\ phase' = phase /\ at' = [at EXCEPT ![p] = "out"]
      /\ sem' = [sem EXCEPT ![s].value = @ + 1]
  BY DEF Up, Signalled, Given, GoesTo, line
<1>4. /\ sem'[s] = [sem[s] EXCEPT !.value = @ + 1]
      /\ sem'[s].value = sem[s].value + 1 /\ sem'[s].queue = sem[s].queue
  BY <1>1, <1>3 DEF IInv, TypeOK
<1>5. TypeOK'
  <2>1. sem'[s] \in [value : Nat, queue : Seq(Thread)]
    BY <1>1, <1>4
  <2> QED BY <1>1, <1>3, <2>1 DEF IInv, TypeOK, Place
<1>6. line' = line
  BY <1>4 DEF line
<1>7. Placed' /\ Waits'
  BY <1>1, <1>2, <1>3, <1>6
     DEF IInv, Placed, Waits, OneTimer, Owners, Distinct, Elements
<1>8. held' = held \ {p} /\ p \in held
  <2>1. \A q \in Thread : q \in held' <=> q \in held /\ q # p
    BY <1>1, <1>2, <1>3, <1>6, HeldIs, HeldIsNext
  <2>2. p \in held
    BY HeldIs
  <2> QED BY <2>1, <2>2 DEF held
<1>9. Cardinality(held') = Cardinality(held) - 1 /\ Cardinality(held) \in Nat
  BY <1>8, HeldFinite, FS_RemoveElement
<1>10. Counted'
  BY <1>1, <1>4, <1>6, <1>9 DEF IInv, Counted, SemaphoreAssumption
<1>11. Abs!Release(p)
  BY <1>6, <1>8 DEF Abs!Release, held, line
<1> QED BY <1>1, <1>3, <1>5, <1>7, <1>10, <1>11 DEF IInv

(* up hands the unit to the first of the line.                             *)
LEMMA Hands ==
  ASSUME SemaphoreAssumption, IInv, NEW p \in Thread, at[p] = "leave",
         Up(p, s, "out"), line # <<>>
  PROVE  IInv' /\ Abs!Release(p)
<1> DEFINE w == Head(line)
           t == Tail(line)
<1>1. /\ s \in Sem /\ sem[s].value \in Nat /\ at \in [Thread -> Place] /\ Sane(k)
      /\ sem[s] \in [value : Nat, queue : Seq(Thread)] /\ k \in SchedRecord
      /\ line \in Seq(Thread) /\ Elements(line) \subseteq Thread /\ Thread \subseteq Proc
      /\ k.state \in [Proc -> State] /\ k.wait \in [Proc -> WaitState]
      /\ phase \in [Thread -> Phase]
  BY Types
<1>2. /\ k.current = p /\ phase[p] = "runs" /\ p \notin Elements(line)
      /\ p \notin Owners(timers)
  BY Current DEF Up, Runs
<1>3. /\ Distinct(line)
      /\ \A q \in Owners(timers) :
           q \in Thread /\ at[q] \in {"out", "in"} /\ phase[q] # "runs"
      /\ \A q \in Thread : /\ k.wait[q] = "WT_KSEM" <=> q \in Elements(line)
                           /\ q \in Elements(line) => at[q] = "want"
  BY DEF IInv, Waits
<1>4. /\ t \in Seq(Thread) /\ Elements(t) = Elements(line) \ {w}
      /\ w \in Elements(line) /\ Distinct(t)
  <2> HIDE DEF line
  <2> QED BY <1>1, <1>3, TailElements
<1>5. k' = WakeupProc([k EXCEPT !.ok = @ /\ k.wait[w] = "WT_KSEM"], w)
  BY DEF Up, Signalled, line
<1>6. /\ timers' = timers /\ phase' = phase /\ at' = [at EXCEPT ![p] = "out"]
      /\ sem' = [sem EXCEPT ![s].queue = t]
  BY DEF Up, Given, GoesTo, line
<1> HIDE DEF w, t
<1>7. /\ w \in Thread /\ w \in Proc /\ w # p /\ k.wait[w] = "WT_KSEM" /\ at[w] = "want"
      /\ k.state[w] = "SLEEPING"
  BY <1>1, <1>2, <1>3, <1>4 DEF Sane
<1>8. /\ Sane(k') /\ k'.current = k.current /\ k' \in SchedRecord
      /\ k'.state = [k.state EXCEPT ![w] = "RUNNABLE"]
      /\ k'.wait = [k.wait EXCEPT ![w] = "none"]
  <2>1. [k EXCEPT !.ok = @ /\ k.wait[w] = "WT_KSEM"] = k
    <3>1. [k EXCEPT !.ok = @ /\ k.wait[w] = "WT_KSEM"] = [k EXCEPT !.ok = TRUE]
      BY <1>1, <1>7 DEF Sane
    <3> QED BY <1>1, <3>1 DEF Sane, SchedRecord
  <2>2. k' = WakeupProc(k, w)
    BY <1>5, <2>1
  <2>3. k.state[w] # "ZOMBIE"
    BY <1>7
  <2>4. WakeupProc(k, w) \in SchedRecord
    BY <1>1, <1>7, WakeupType
  <2> QED BY <1>1, <1>7, <2>2, <2>3, <2>4, WakeupSane
<1>9. line' = t /\ sem'[s].value = sem[s].value
  BY <1>1, <1>6 DEF line, IInv, TypeOK
<1>10. TypeOK'
  <2>1. [sem[s] EXCEPT !.queue = t] \in [value : Nat, queue : Seq(Thread)]
    BY <1>1, <1>4
  <2>2. sem' = [sem EXCEPT ![s] = [sem[s] EXCEPT !.queue = t]]
    BY <1>1, <1>6 DEF IInv, TypeOK
  <2> QED BY <1>1, <1>6, <1>8, <2>1, <2>2 DEF IInv, TypeOK, Place
<1>11. Placed'
  BY <1>1, <1>6, <1>7, <1>8 DEF IInv, Placed
<1>12. Waits'
  <2>1. \A q \in Thread : /\ k'.wait[q] = "WT_KSEM" <=> q \in Elements(t)
                          /\ q \in Elements(t) => at'[q] = "want"
    BY <1>1, <1>2, <1>3, <1>4, <1>6, <1>7, <1>8
  <2>2. \A q \in Owners(timers') :
          q \in Thread /\ at'[q] \in {"out", "in"} /\ phase'[q] # "runs"
    BY <1>1, <1>2, <1>3, <1>6
  <2>3. OneTimer(timers')
    BY <1>6 DEF IInv, Waits
  <2> QED BY <1>4, <1>9, <2>1, <2>2, <2>3 DEF Waits
<1>13. held' = (held \ {p}) \cup {w} /\ p \in held /\ w \notin held
  <2>1. p \in held /\ w \notin held
    BY <1>4, <1>7, HeldIs
  <2>2. phase[w] # "runs"
    BY <1>7 DEF IInv, Placed
  <2>3. \A q \in Thread : q \in held' <=> (q \in held /\ q # p) \/ q = w
    BY <1>1, <1>2, <1>4, <1>6, <1>7, <1>9, <2>2, HeldIs, HeldIsNext
  <2> QED BY <1>7, <2>1, <2>3 DEF held
<1>14. Cardinality(held') = Cardinality(held)
  <2>1. IsFiniteSet(held \ {p}) /\ Cardinality(held \ {p}) = Cardinality(held) - 1
    BY <1>13, HeldFinite, FS_RemoveElement
  <2>2. Cardinality((held \ {p}) \cup {w}) = Cardinality(held \ {p}) + 1
    BY <1>13, <2>1, FS_AddElement
  <2> QED BY <1>13, <2>1, <2>2, HeldFinite
<1>15. Counted'
  <2>1. ~(sem[s].value > 0)
    BY DEF IInv, Counted
  <2> QED BY <1>9, <1>14, <2>1 DEF IInv, Counted
<1>16. Abs!Release(p)
  BY <1>9, <1>13 DEF Abs!Release, held, line, w, t
<1> QED BY <1>8, <1>10, <1>11, <1>12, <1>15, <1>16 DEF IInv

-----------------------------------------------------------------------------
(* schedule(), called by a thread that has gone to sleep or by idle.       *)
LEMMA Schedules ==
  ASSUME SemaphoreAssumption, IInv, k' = Schedule(k), UNCHANGED <<timers, sem, at>>,
         \/ \E p \in Thread : /\ k.current = p /\ phase[p] = "sleeps"
                              /\ phase' = [phase EXCEPT ![p] = "woken"]
         \/ k.current = Idle /\ phase' = phase
  PROVE  IInv' /\ UNCHANGED <<held, line>>
<1>1. /\ Sane(k) /\ k \in SchedRecord /\ phase \in [Thread -> Phase] /\ Idle \notin Thread
  BY Types
<1>2. /\ Sane(k') /\ k' \in SchedRecord /\ k'.state = k.state /\ k'.wait = k.wait
      /\ k.state[k'.current] = "RUNNABLE"
  BY <1>1, ScheduleSane, ScheduleType
<1>3. /\ phase' \in [Thread -> Phase]
      /\ \A q \in Thread : phase'[q] # "sleeps" /\ (phase'[q] = "runs" <=> phase[q] = "runs")
  BY <1>1 DEF Phase, IInv, Placed
<1>4. TypeOK' /\ Placed'
  BY <1>2, <1>3 DEF IInv, TypeOK, Placed
<1>5. line' = line
  BY DEF line
<1>6. Waits'
  BY <1>2, <1>3, <1>5 DEF IInv, Waits, OneTimer, Owners, Distinct, Elements
<1>7. \A q \in Thread : q \in held' <=> q \in held
  BY <1>3, <1>5, HeldIs, HeldIsNext
<1> QED BY <1>2, <1>4, <1>5, <1>6, <1>7, Stutters

(* A tick wakes sleepers whose timers expire, and nobody in the line.      *)
LEMMA Ticks ==
  ASSUME SemaphoreAssumption, IInv, Tick
  PROVE  IInv' /\ UNCHANGED <<held, line>>
<1>1. /\ k' \in Ticked(k, timers) /\ timers' = RunTimers(timers)
      /\ sem' = sem /\ at' = at /\ phase' = phase
  BY DEF Tick
<1>2. /\ Sane(k) /\ k \in SchedRecord /\ timers \in Seq(Timer(Proc)) /\ Thread \subseteq Proc
      /\ OneTimer(timers)
  BY Types DEF IInv, Waits
<1>3. \A q \in Owners(timers) : /\ q \in Thread /\ at[q] \in {"out", "in"}
                                /\ phase[q] # "runs"
  BY DEF IInv, Waits
<1>4. \A q \in Thread : /\ k.wait[q] = "WT_KSEM" <=> q \in Elements(line)
                        /\ q \in Elements(line) => at[q] = "want"
  BY DEF IInv, Waits
<1>5. \A q \in Owners(timers) : /\ k.state[q] \in {"RUNNABLE", "SLEEPING"}
                                /\ k.wait[q] # "WT_KSEM"
  BY <1>3, <1>4 DEF IInv, Placed
<1>6. /\ Sane(k') /\ k'.current = k.current /\ Woken(k, k')
      /\ Spared(k, k', Elements(Expired(timers)))
  BY <1>1, <1>2, <1>5, TickedSane
<1>7. k' \in SchedRecord
  BY <1>1, <1>2, TickedType
<1>8. /\ timers' \in Seq(Timer(Proc)) /\ OneTimer(timers')
      /\ Owners(timers') \subseteq Owners(timers)
      /\ Elements(Expired(timers)) \subseteq Owners(timers)
  BY <1>1, <1>2, RunTimersType, RunTimersOne
<1>9. TypeOK'
  BY <1>1, <1>7, <1>8 DEF IInv, TypeOK
<1>10. Placed'
  BY <1>1, <1>2, <1>6 DEF IInv, Placed, Woken
<1>11. line' = line
  BY <1>1 DEF line
<1>12. \A q \in Thread : k'.wait[q] = "WT_KSEM" <=> k.wait[q] = "WT_KSEM"
  <2>1. \A q \in Thread : k'.wait[q] = "WT_KSEM" => k.wait[q] = "WT_KSEM"
    BY <1>2, <1>6 DEF Woken
  <2>2. \A q \in Thread : q \notin Owners(timers) => k'.wait[q] = k.wait[q]
    BY <1>2, <1>6, <1>8 DEF Spared
  <2> QED BY <1>5, <2>1, <2>2
<1>13. Waits'
  <2>1. \A q \in Thread : /\ k'.wait[q] = "WT_KSEM" <=> q \in Elements(line')
                          /\ q \in Elements(line') => at'[q] = "want"
    BY <1>1, <1>4, <1>11, <1>12
  <2>2. \A q \in Owners(timers') :
          q \in Thread /\ at'[q] \in {"out", "in"} /\ phase'[q] # "runs"
    BY <1>1, <1>3, <1>8
  <2>3. Distinct(line')
    BY <1>11 DEF IInv, Waits, Distinct
  <2> QED BY <1>8, <2>1, <2>2, <2>3 DEF Waits
<1>14. \A q \in Thread : q \in held' <=> q \in held
  BY <1>1, <1>11, HeldIs, HeldIsNext
<1> QED BY <1>1, <1>6, <1>9, <1>10, <1>11, <1>13, <1>14, Stutters

-----------------------------------------------------------------------------
LEMMA NextInv ==
  ASSUME SemaphoreAssumption, IInv, [Next]_kvars
  PROVE  /\ IInv'
         /\ (\E p \in Thread : Abs!Take(p) \/ Abs!Join(p) \/ Abs!Release(p))
              \/ UNCHANGED <<held, line>>
<1>1. CASE UNCHANGED kvars
  <2>1. k' = k /\ timers' = timers /\ sem' = sem /\ at' = at /\ phase' = phase
    BY <1>1 DEF kvars
  <2>2. line' = line /\ Sane(k')
    BY <2>1, Types DEF line
  <2>3. TypeOK' /\ Placed' /\ Waits'
    BY <2>1, <2>2 DEF IInv, TypeOK, Placed, Waits, OneTimer, Owners, Distinct, Elements
  <2>4. \A q \in Thread : q \in held' <=> q \in held
    BY <2>1, <2>2, HeldIs, HeldIsNext
  <2> QED BY <2>1, <2>2, <2>3, <2>4, Stutters
<1>2. ASSUME NEW p \in Thread, Rest(p) \/ Use(p)
      PROVE  IInv' /\ UNCHANGED <<held, line>>
  BY <1>2, Sleeps DEF Rest, Use
<1>3. ASSUME NEW p \in Thread, Enter(p)
      PROVE  IInv' /\ (Abs!Take(p) \/ Abs!Join(p) \/ UNCHANGED <<held, line>>)
  <2>1. at[p] = "want"
    BY <1>3 DEF Enter
  <2>2. CASE DownTakes(p, s, "in")
    BY <2>1, <2>2, Takes DEF DownTakes, GoesTo
  <2>3. CASE DownSleeps(p, s)
    BY <2>1, <2>3, Joins
  <2>4. CASE DownWoken(p, s, "in")
    BY <2>1, <2>4, Continues
  <2> QED BY <1>3, <2>2, <2>3, <2>4 DEF Enter, Down
<1>4. ASSUME NEW p \in Thread, TryDown(p)
      PROVE  IInv' /\ (Abs!Take(p) \/ UNCHANGED <<held, line>>)
  <2>1. CASE sem[s].value > 0
    BY <1>4, <2>1, Takes DEF TryDown, GoesTo
  <2>2. CASE ~(sem[s].value > 0)
    BY <1>4, <2>2, Fails DEF TryDown, GoesTo
  <2> QED BY <2>1, <2>2
<1>5. ASSUME NEW p \in Thread, Leave(p) PROVE IInv' /\ Abs!Release(p)
  BY <1>5, Returns, Hands DEF Leave
<1>6. ASSUME (\E p \in Thread : Block(p)) \/ IdleLoop
      PROVE  IInv' /\ UNCHANGED <<held, line>>
  BY <1>6, Schedules DEF Block, IdleLoop
<1> QED BY <1>1, <1>2, <1>3, <1>4, <1>5, <1>6, Ticks DEF Next

LEMMA InitInv ==
  ASSUME SemaphoreAssumption, Init
  PROVE  IInv /\ Abs!Init
<1>1. PICK born \in Bijection(1..Cardinality(Thread), Thread) :
        StartUp(born, [m \in Sem |-> Units], "out")
  BY DEF Init, Orders
<1>2. /\ k = Started(born) /\ timers = <<>> /\ sem = [m \in Sem |-> [value |-> Units, queue |-> <<>>]]
      /\ at = [p \in Thread |-> "out"] /\ phase = [p \in Thread |-> "runs"]
  BY <1>1 DEF StartUp, Semaphores
<1>3. s \in Sem /\ Units \in Nat /\ Idle \in Proc
  BY SchedAssumption DEF SemaphoreAssumption, s
<1>4. Cardinality(Thread) \in Nat
  BY FS_Subset, FS_CardinalityType DEF SemaphoreAssumption
<1>5. born \in Seq(Thread) /\ Distinct(born) /\ Elements(born) = Thread
  BY <1>1, <1>4 DEF Bijection, Injection, Surjection, IsInjective, Distinct, Elements
<1>6. /\ k.current = Idle /\ k.runq = born /\ k.ok = TRUE
      /\ k.state = [p \in Proc |-> "RUNNABLE"] /\ k.wait = [p \in Proc |-> "none"]
      /\ k.resched = [p \in Proc |-> p = Idle]
      /\ k.slice = [p \in Proc |-> IF p = Idle THEN 0 ELSE MaxSlice]
  BY <1>2 DEF Started
<1>7. k \in SchedRecord
  <2>1. born \in Seq(Proc)
    BY <1>5 DEF SemaphoreAssumption
  <2>2. /\ [p \in Proc |-> "RUNNABLE"] \in [Proc -> State]
        /\ [p \in Proc |-> "none"] \in [Proc -> WaitState]
        /\ [p \in Proc |-> p = Idle] \in [Proc -> BOOLEAN]
        /\ [p \in Proc |-> IF p = Idle THEN 0 ELSE MaxSlice] \in [Proc -> 0..MaxSlice]
    BY SchedAssumption DEF State, WaitState
  <2> QED BY <1>2, <1>3, <2>1, <2>2 DEF Started, SchedRecord
<1>8. Sane(k)
  <2>1. Queued(k) = Thread
    BY <1>5, <1>6 DEF Queued, Elements
  <2>2. {p \in Proc : k.state[p] = "RUNNABLE"} \ {k.current, Idle} = Thread
    BY <1>6 DEF SemaphoreAssumption
  <2> QED BY <1>3, <1>5, <1>6, <2>1, <2>2 DEF Sane
<1>9. sem[s].value = Units /\ line = <<>>
  BY <1>2, <1>3 DEF line
<1>10. TypeOK
  BY <1>2, <1>3, <1>7 DEF TypeOK, Place, Phase
<1>11. Placed
  BY <1>2, <1>6 DEF Placed, SemaphoreAssumption
<1>12. Waits
  BY <1>2, <1>6, <1>9 DEF Waits, OneTimer, Owners, Distinct, Elements, SemaphoreAssumption
<1>13. held = {}
  <2>1. \A p \in Thread : p \notin held
    BY <1>2, HeldIs
  <2> QED BY <2>1 DEF held
<1>14. Counted
  BY <1>3, <1>9, <1>13, FS_EmptySet DEF Counted
<1> QED BY <1>8, <1>9, <1>10, <1>11, <1>12, <1>13, <1>14 DEF IInv, Abs!Init, held, line

(* Whoever sleeps in down() is in the wait queue and is there exactly as   *)
(* long: up() wakes the one that it takes off the queue, and nothing else  *)
(* wakes it, the timer interrupt between marking the thread as sleeping    *)
(* and schedule() included.                                                *)
THEOREM WaitsInQueueHolds ==
  ASSUME SemaphoreAssumption
  PROVE  Spec => []WaitsInQueue
<1>1. Init => IInv
  BY InitInv
<1>2. IInv /\ [Next]_kvars => IInv'
  BY NextInv
<1>3. IInv => WaitsInQueue
  BY DEF IInv, Sane, Waits, WaitsInQueue, AssertsHold, Elements, line
<1> QED BY <1>1, <1>2, <1>3, PTL DEF Spec

(* The semaphore hands out its units, and serves those who wait in turn:   *)
(* no try_down and no down() that comes later overtakes them.              *)
THEOREM SemaphoreImplements ==
  ASSUME SemaphoreAssumption
  PROVE  Spec => ImplementsSemaphore
<1>1. Init => IInv /\ Abs!Init
  BY InitInv
<1>2. IInv /\ [Next]_kvars => IInv' /\ [Abs!Next]_<<held, line>>
  BY NextInv DEF Abs!Next
<1>3. Spec => Abs!Init /\ [][Abs!Next]_<<held, line>>
  BY <1>1, <1>2, PTL DEF Spec
<1> QED BY <1>3, PTL DEF ImplementsSemaphore, Abs!Spec, held, line
=============================================================================

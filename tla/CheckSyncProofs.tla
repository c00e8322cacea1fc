--------------------------- MODULE CheckSyncProofs ---------------------------
(***************************************************************************)
(* Proofs about module CheckSync, for any number of philosophers, meals,   *)
(* ticks of sleep and any time slice: no two neighbours eat together, and  *)
(* the monitor is with one thread or free.                                 *)
(*                                                                         *)
(* First what each operation of KThreads does to threads and semaphores,   *)
(* with the scheduler's part in the lemmas of SchedProofs.  Then who has   *)
(* the mutex, and what the place of a philosopher says of its state, with  *)
(* semaphores and with the monitor.                                        *)
(***************************************************************************)
EXTENDS CheckSync, SchedProofs

Phase == {"runs", "sleeps", "woken"}
Mood  == {"THINKING", "HUNGRY", "EATING"}
Both  == {"think", "lock", "hungry", "eat", "back", "full", "left", "right", "done",
          "quit", "over"}
SemaPlace    == Both \cup {"test", "unlock", "get"}
MonitorPlace == Both \cup {"self", "tested", "wait", "asleep", "awake", "signal",
                           "signalled", "exit"}
Place == SemaPlace \cup MonitorPlace

(* Where a thread may be found in a down.                                  *)
Downs == {"lock", "back", "get", "asleep", "signal"}

Typed ==
  /\ k \in SchedRecord
  /\ timers \in Seq(Timer(Proc))
  /\ sem \in [Sem -> [value : Nat, queue : Seq(Thread)]]
  /\ at \in [Thread -> Place] /\ phase \in [Thread -> Phase]

(* A thread that runs has the CPU, unless it has just been created or has  *)
(* ended: nobody is preempted.  One that marked itself as sleeping has it  *)
(* until it calls schedule().                                              *)
Placed ==
  \A p \in Thread :
    /\ phase[p] = "runs" =>
         \/ k.state[p] = "RUNNABLE" /\ (k.current = p \/ at[p] = "think")
         \/ k.state[p] = "ZOMBIE" /\ at[p] = "over"
    /\ phase[p] # "runs" =>
         k.state[p] \in {"RUNNABLE", "SLEEPING"} /\ at[p] \in Downs \cup {"think", "eat"}
    /\ phase[p] = "sleeps" => k.current = p
    /\ phase[p] = "woken" /\ k.current = p => k.state[p] = "RUNNABLE"

(* The semaphore that a thread waits for goes with its place.              *)
DownOf(p) ==
  IF at[p] \in {"lock", "back"} THEN mutex ELSE IF at[p] = "signal" THEN next ELSE p

InLine(p, m) == p \in Elements(sem[m].queue)
Waiting(p)   == k.wait[p] = "WT_KSEM"

Waits ==
  /\ OneTimer(timers)
  /\ \A p \in Owners(timers) : p \in Thread /\ at[p] \in {"think", "eat"} /\ phase[p] # "runs"
  /\ \A m \in Sem : Distinct(sem[m].queue) /\ (sem[m].value > 0 => sem[m].queue = <<>>)
  /\ \A p \in Thread, m \in Sem : InLine(p, m) <=> Waiting(p) /\ m = DownOf(p)
  /\ \A p \in Thread : Waiting(p) => phase[p] # "runs" /\ at[p] \in Downs

Base == Typed /\ Sane(k) /\ Placed /\ Waits

(* A thread in a down that has been handed what it waits for.              *)
Served(p) == phase[p] # "runs" /\ ~Waiting(p)

-----------------------------------------------------------------------------
LEMMA Consts ==
  /\ N \in Nat /\ N > 1 /\ Times \in Nat /\ SleepTime \in Nat \ {0}
  /\ Thread = 1..N /\ Thread \subseteq Proc /\ Idle \notin Thread /\ Idle \in Proc
  /\ Proc = Thread \cup {Idle}
  /\ mutex \in Sem /\ next \in Sem /\ mutex # next /\ Thread \subseteq Sem
  /\ mutex \notin Thread /\ next \notin Thread
  /\ Sem = Thread \cup {mutex, next}
BY CheckSyncAssumption DEF mutex, next

LEMMA Types ==
  ASSUME Base
  PROVE  /\ k \in SchedRecord /\ Sane(k) /\ k.current \in Proc
         /\ k.state \in [Proc -> State] /\ k.wait \in [Proc -> WaitState]
         /\ timers \in Seq(Timer(Proc)) /\ OneTimer(timers)
         /\ sem \in [Sem -> [value : Nat, queue : Seq(Thread)]]
         /\ \A m \in Sem : /\ sem[m] \in [value : Nat, queue : Seq(Thread)]
                           /\ sem[m].value \in Nat /\ sem[m].queue \in Seq(Thread)
                           /\ Distinct(sem[m].queue)
         /\ at \in [Thread -> Place] /\ phase \in [Thread -> Phase]
<1>1. k \in SchedRecord /\ Sane(k)
  BY DEF Base, Typed
<1>2. \A m \in Sem : sem[m] \in [value : Nat, queue : Seq(Thread)]
  BY DEF Base, Typed
<1>3. \A m \in Sem : sem[m].value \in Nat /\ sem[m].queue \in Seq(Thread)
  BY <1>2
<1> QED BY <1>1, <1>2, <1>3, Fields DEF Base, Typed, Waits

(* The thread that executes its program.                                   *)
LEMMA Current ==
  ASSUME Base, NEW p \in Thread, Runs(p), at[p] # "over"
  PROVE  /\ k.current = p /\ k.state[p] = "RUNNABLE" /\ ~Waiting(p) /\ phase[p] = "runs"
         /\ k.wait[p] = "none"
         /\ p \notin Owners(timers)
         /\ \A m \in Sem : ~InLine(p, m)
         /\ \A q \in Thread \ {p} : phase[q] = "runs" => at[q] \in {"think", "over"}
<1>1. p \in Proc /\ Sane(k)
  BY Consts, Types
<1>2. k.current = p /\ phase[p] = "runs"
  BY DEF Runs
<1>3. k.state[p] = "RUNNABLE"
  BY <1>2 DEF Base, Placed
<1>4. k.wait[p] = "none"
  BY <1>1, <1>3 DEF Sane
<1>5. \A q \in Thread \ {p} : phase[q] = "runs" => at[q] \in {"think", "over"}
  BY <1>2 DEF Base, Placed
<1> QED BY <1>2, <1>3, <1>4, <1>5 DEF Base, Waits, Waiting

(* A step in which nobody queues up, is woken from a down or gets a timer. *)
LEMMA WaitsStay ==
  ASSUME Base, OneTimer(timers'), Owners(timers') \subseteq Owners(timers),
         \A m \in Sem : /\ sem'[m].queue = sem[m].queue
                        /\ sem'[m].value > 0 => sem[m].queue = <<>>,
         \A q \in Thread : Waiting(q)' <=> Waiting(q),
         \A q \in Thread : Waiting(q) \/ q \in Owners(timers') =>
                             at'[q] = at[q] /\ phase'[q] # "runs"
  PROVE  Waits'
<1>1. \A p \in Owners(timers') : p \in Thread /\ at'[p] \in {"think", "eat"} /\ phase'[p] # "runs"
  BY DEF Base, Waits
<1>2. \A m \in Sem : Distinct(sem'[m].queue) /\ (sem'[m].value > 0 => sem'[m].queue = <<>>)
  BY DEF Base, Waits
<1>3. \A p \in Thread : Waiting(p)' => phase'[p] # "runs" /\ at'[p] \in Downs
  BY DEF Base, Waits
<1>4. ASSUME NEW p \in Thread, NEW m \in Sem
      PROVE  InLine(p, m)' <=> Waiting(p)' /\ m = DownOf(p)'
  <2>1. InLine(p, m)' <=> InLine(p, m)
    BY DEF InLine, Elements
  <2>2. InLine(p, m) <=> Waiting(p) /\ m = DownOf(p)
    BY DEF Base, Waits
  <2>3. Waiting(p) => DownOf(p)' = DownOf(p)
    BY DEF DownOf
  <2>4. Waiting(p)' <=> Waiting(p)
    OBVIOUS
  <2> QED BY <2>1, <2>2, <2>3, <2>4
<1> QED BY <1>1, <1>2, <1>3, <1>4 DEF Waits

LEMMA ServedStays ==
  ASSUME phase' = phase, \A q \in Thread : Waiting(q)' <=> Waiting(q)
  PROVE  \A q \in Thread : Served(q)' <=> Served(q)
BY DEF Served

-----------------------------------------------------------------------------
(* A step of the program that calls nothing.                               *)
LEMMA Moves ==
  ASSUME Base, NEW p \in Thread, Runs(p), at[p] # "over", NEW l \in Place \ {"over"},
         GoesTo(p, l), UNCHANGED <<k, timers, sem, phase>>
  PROVE  /\ Base' /\ at' = [at EXCEPT ![p] = l]
         /\ \A q \in Thread : Served(q)' <=> Served(q)
<1>1. /\ at' = [at EXCEPT ![p] = l] /\ k' = k /\ timers' = timers /\ sem' = sem
      /\ phase' = phase
  BY DEF GoesTo
<1>2. at \in [Thread -> Place] /\ Sane(k) /\ OneTimer(timers)
  BY Types
<1>3. Typed'
  BY <1>1, <1>2 DEF Base, Typed
<1>4. Placed'
  BY <1>1, <1>2, Current DEF Base, Placed
<1>5. \A q \in Thread : Waiting(q)' <=> Waiting(q)
  BY <1>1 DEF Waiting
<1>6. \A q \in Thread : Waiting(q) \/ q \in Owners(timers) => at'[q] = at[q] /\ phase[q] # "runs"
  BY <1>1, <1>2, Current DEF Base, Waits
<1>7. Waits'
  <2>1. \A m \in Sem : sem[m].value > 0 => sem[m].queue = <<>>
    BY DEF Base, Waits
  <2> QED BY <1>1, <1>2, <1>5, <1>6, <2>1, WaitsStay
<1>8. Base'
  BY <1>1, <1>2, <1>3, <1>4, <1>7 DEF Base
<1> QED BY <1>1, <1>5, <1>8, ServedStays

(* down takes a unit.                                                      *)
LEMMA TakesUnit ==
  ASSUME Base, NEW p \in Thread, NEW m \in Sem, at[p] # "over", NEW l \in Place \ {"over"},
         DownTakes(p, m, l)
  PROVE  /\ Base' /\ at' = [at EXCEPT ![p] = l] /\ phase' = phase /\ Runs(p)
         /\ \A q \in Thread : Served(q)' <=> Served(q)
         /\ sem[m].value \in Nat /\ sem[m].value > 0 /\ sem'[m].value = sem[m].value - 1
         /\ \A n \in Sem \ {m} : sem'[n].value = sem[n].value
<1>1. /\ at' = [at EXCEPT ![p] = l] /\ k' = k /\ timers' = timers /\ phase' = phase
      /\ sem' = [sem EXCEPT ![m].value = @ - 1] /\ sem[m].value > 0 /\ Runs(p)
  BY DEF DownTakes, GoesTo
<1>2. /\ at \in [Thread -> Place] /\ sem[m].value \in Nat /\ Sane(k) /\ OneTimer(timers)
      /\ sem[m] \in [value : Nat, queue : Seq(Thread)]
      /\ sem \in [Sem -> [value : Nat, queue : Seq(Thread)]]
  BY Types
<1>3. /\ sem' = [sem EXCEPT ![m] = [sem[m] EXCEPT !.value = sem[m].value - 1]]
      /\ sem[m].value - 1 \in Nat
  BY <1>1, <1>2
<1>4. [sem[m] EXCEPT !.value = sem[m].value - 1] \in [value : Nat, queue : Seq(Thread)]
  BY <1>2, <1>3
<1>5. /\ sem' \in [Sem -> [value : Nat, queue : Seq(Thread)]]
      /\ sem'[m].value = sem[m].value - 1
      /\ \A n \in Sem \ {m} : sem'[n] = sem[n]
      /\ \A n \in Sem : sem'[n].queue = sem[n].queue
  BY <1>2, <1>3, <1>4
<1>6. Typed'
  BY <1>1, <1>2, <1>5 DEF Base, Typed
<1>7. Placed'
  BY <1>1, <1>2, Current DEF Base, Placed
<1>8. \A q \in Thread : Waiting(q)' <=> Waiting(q)
  BY <1>1 DEF Waiting
<1>9. \A q \in Thread : Waiting(q) \/ q \in Owners(timers) => at'[q] = at[q] /\ phase[q] # "runs"
  BY <1>1, <1>2, Current DEF Base, Waits
<1>10. \A n \in Sem : sem'[n].value > 0 => sem[n].queue = <<>>
  BY <1>1, <1>5 DEF Base, Waits
<1>11. Waits'
  BY <1>1, <1>2, <1>5, <1>8, <1>9, <1>10, WaitsStay
<1>12. Base'
  BY <1>1, <1>2, <1>6, <1>7, <1>11 DEF Base
<1> QED BY <1>1, <1>2, <1>5, <1>8, <1>12, ServedStays

(* down finds no unit.                                                     *)
LEMMA Queues ==
  ASSUME Base, NEW p \in Thread, NEW m \in Sem, at[p] \in Downs, m = DownOf(p),
         DownSleeps(p, m)
  PROVE  /\ Base' /\ at' = at /\ Runs(p) /\ sem[m].value = 0
         /\ \A n \in Sem : sem'[n].value = sem[n].value
         /\ phase' = [phase EXCEPT ![p] = "sleeps"] /\ ~Served(p)'
         /\ \A q \in Thread \ {p} : Served(q)' <=> Served(q)
<1>1. /\ sem[m].value \in Nat /\ sem[m] \in [value : Nat, queue : Seq(Thread)]
      /\ sem \in [Sem -> [value : Nat, queue : Seq(Thread)]]
      /\ at \in [Thread -> Place] /\ phase \in [Thread -> Phase]
      /\ Sane(k) /\ k \in SchedRecord /\ k.state \in [Proc -> State]
      /\ k.wait \in [Proc -> WaitState] /\ sem[m].queue \in Seq(Thread)
      /\ Distinct(sem[m].queue)
  BY Types
<1>0. p \in Proc /\ p # Idle
  BY Consts
<1>2. at[p] # "over" /\ Runs(p)
  BY DEF DownSleeps, Downs
<1>3. /\ k.current = p /\ phase[p] = "runs" /\ k.state[p] = "RUNNABLE"
      /\ p \notin Owners(timers) /\ \A n \in Sem : ~InLine(p, n)
  BY <1>2, Current
<1>4. /\ k' = Sleeping(k, "WT_KSEM") /\ sem[m].value = 0
      /\ sem' = [sem EXCEPT ![m].queue = Append(@, p)]
      /\ phase' = [phase EXCEPT ![p] = "sleeps"] /\ timers' = timers /\ at' = at
  BY <1>1 DEF DownSleeps
<1>5. /\ Sane(k') /\ k'.current = p /\ k' \in SchedRecord
      /\ k'.state = [k.state EXCEPT ![p] = "SLEEPING"]
      /\ k'.wait = [k.wait EXCEPT ![p] = "WT_KSEM"]
  <2>1. "WT_KSEM" \in WaitState /\ "WT_KSEM" # "none"
    BY DEF WaitState
  <2> QED BY <1>0, <1>1, <1>3, <1>4, <2>1, SleepingSane, SleepingType
<1> DEFINE q2 == Append(sem[m].queue, p)
<1>6. /\ q2 \in Seq(Thread) /\ Distinct(q2)
      /\ Elements(q2) = Elements(sem[m].queue) \cup {p}
  <2>1. p \notin Elements(sem[m].queue)
    BY <1>3 DEF InLine
  <2> QED BY <1>1, <2>1, AppendElements
<1>7. /\ sem' = [sem EXCEPT ![m] = [sem[m] EXCEPT !.queue = q2]]
      /\ [sem[m] EXCEPT !.queue = q2] \in [value : Nat, queue : Seq(Thread)]
  BY <1>1, <1>4, <1>6
<1> HIDE DEF q2
<1>8. /\ sem' \in [Sem -> [value : Nat, queue : Seq(Thread)]]
      /\ sem'[m].queue = q2 /\ \A n \in Sem \ {m} : sem'[n].queue = sem[n].queue
      /\ \A n \in Sem : sem'[n].value = sem[n].value
  BY <1>1, <1>7
<1>9. Typed'
  <2>1. phase' \in [Thread -> Phase]
    BY <1>1, <1>4 DEF Phase
  <2> QED BY <1>1, <1>4, <1>5, <1>8, <2>1 DEF Base, Typed
<1>10. Placed'
  BY <1>1, <1>3, <1>4, <1>5, Consts DEF Base, Placed
<1>11. Waiting(p)' /\ \A q \in Thread \ {p} : Waiting(q)' <=> Waiting(q)
  BY <1>0, <1>1, <1>5, Consts DEF Waiting
<1>12. \A q \in Thread : DownOf(q)' = DownOf(q)
  BY <1>4 DEF DownOf
<1>13. \A q \in Thread, n \in Sem : InLine(q, n)' <=> Waiting(q)' /\ n = DownOf(q)'
  <2>1. \A q \in Thread, n \in Sem : InLine(q, n) <=> Waiting(q) /\ n = DownOf(q)
    BY DEF Base, Waits
  <2>2. \A q \in Thread, n \in Sem : InLine(q, n)' <=> InLine(q, n) \/ (q = p /\ n = m)
    BY <1>6, <1>8 DEF InLine
  <2>3. ~InLine(p, m)
    BY <1>3
  <2> QED BY <1>11, <1>12, <2>1, <2>2, <2>3
<1>14. Waits'
  <2>1. \A n \in Sem : Distinct(sem'[n].queue) /\ (sem'[n].value > 0 => sem'[n].queue = <<>>)
    <3>1. \A n \in Sem : Distinct(sem[n].queue) /\ (sem[n].value > 0 => sem[n].queue = <<>>)
      BY DEF Base, Waits
    <3>2. sem'[m].value = 0
      BY <1>4, <1>8
    <3> QED BY <1>6, <1>8, <3>1, <3>2
  <2>2. /\ OneTimer(timers')
        /\ \A q \in Owners(timers') : q \in Thread /\ at'[q] \in {"think", "eat"} /\ phase'[q] # "runs"
    BY <1>1, <1>4 DEF Base, Waits
  <2>3. \A q \in Thread : Waiting(q)' => phase'[q] # "runs" /\ at'[q] \in Downs
    BY <1>1, <1>4, <1>11 DEF Base, Waits
  <2> QED BY <1>13, <2>1, <2>2, <2>3 DEF Waits
<1>15. \A q \in Thread \ {p} : Served(q)' <=> Served(q)
  BY <1>1, <1>4, <1>11 DEF Served
<1> QED BY <1>2, <1>4, <1>5, <1>8, <1>9, <1>10, <1>11, <1>14, <1>15 DEF Base, Served

(* down goes on after schedule(): what it waited for has been handed over. *)
LEMMA Continues ==
  ASSUME Base, NEW p \in Thread, NEW m \in Sem, at[p] \in Downs, m = DownOf(p),
         NEW l \in Place \ {"over"}, DownWoken(p, m, l)
  PROVE  /\ Base' /\ Served(p) /\ at' = [at EXCEPT ![p] = l] /\ sem' = sem
         /\ phase' = [phase EXCEPT ![p] = "runs"]
         /\ \A q \in Thread \ {p} : Served(q)' <=> Served(q)
<1>1. /\ at \in [Thread -> Place] /\ Sane(k) /\ k \in SchedRecord
      /\ phase \in [Thread -> Phase] /\ sem[m] \in [value : Nat, queue : Seq(Thread)]
      /\ sem \in [Sem -> [value : Nat, queue : Seq(Thread)]] /\ p \in Proc
      /\ OneTimer(timers)
  BY Types, Consts
<1>2. k.current = p /\ phase[p] = "woken"
  BY DEF DownWoken
<1>3. k.state[p] = "RUNNABLE" /\ k.wait[p] = "none" /\ ~Waiting(p)
  <2>1. k.state[p] = "RUNNABLE"
    BY <1>2 DEF Base, Placed
  <2> QED BY <1>1, <2>1 DEF Sane, Waiting
<1>4. \A n \in Sem : ~InLine(p, n)
  BY <1>3 DEF Base, Waits
<1>5. \A i \in DOMAIN sem[m].queue : sem[m].queue[i] # p
  BY <1>4 DEF InLine, Elements
<1>6. sem' = sem
  <2>1. WaitDel(sem[m].queue, p) = sem[m].queue
    BY <1>5 DEF WaitDel
  <2>2. sem' = [sem EXCEPT ![m].queue = sem[m].queue]
    BY <2>1 DEF DownWoken
  <2> QED BY <1>1, <2>2
<1>7. k' = k
  <2>1. k' = [k EXCEPT !.ok = TRUE]
    BY <1>1, <1>5 DEF DownWoken, Sane
  <2>2. k.ok = TRUE /\ k \in SchedRecord
    BY <1>1 DEF Sane
  <2> QED BY <2>1, <2>2 DEF SchedRecord
<1>8. /\ phase' = [phase EXCEPT ![p] = "runs"] /\ at' = [at EXCEPT ![p] = l]
      /\ timers' = timers
  BY DEF DownWoken, GoesTo
<1>9. Typed'
  <2>1. phase' \in [Thread -> Phase] /\ at' \in [Thread -> Place]
    BY <1>1, <1>8 DEF Phase
  <2> QED BY <1>6, <1>7, <1>8, <2>1 DEF Base, Typed
<1>10. Placed'
  BY <1>1, <1>2, <1>3, <1>7, <1>8 DEF Base, Placed
<1>11. \A q \in Thread : Waiting(q)' <=> Waiting(q)
  BY <1>7 DEF Waiting
<1>12. p \notin Owners(timers)
  BY DEF Base, Waits, Downs
<1>13. \A q \in Thread : Waiting(q) \/ q \in Owners(timers) => at'[q] = at[q] /\ phase'[q] # "runs"
  BY <1>1, <1>3, <1>8, <1>12 DEF Base, Waits
<1>14. Waits'
  <2>1. \A n \in Sem : sem[n].value > 0 => sem[n].queue = <<>>
    BY DEF Base, Waits
  <2> QED BY <1>1, <1>6, <1>8, <1>11, <1>13, <2>1, WaitsStay
<1>15. Base'
  BY <1>1, <1>7, <1>9, <1>10, <1>14 DEF Base
<1>16. \A q \in Thread \ {p} : Served(q)' <=> Served(q)
  BY <1>1, <1>8, <1>11 DEF Served
<1> QED BY <1>2, <1>3, <1>6, <1>8, <1>15, <1>16 DEF Served

-----------------------------------------------------------------------------
(* up with nobody in the line.                                             *)
LEMMA Returns ==
  ASSUME Base, NEW p \in Thread, NEW m \in Sem, at[p] # "over", NEW l \in Place \ {"over"},
         Up(p, m, l), sem[m].queue = <<>>
  PROVE  /\ Base' /\ at' = [at EXCEPT ![p] = l] /\ phase' = phase
         /\ \A q \in Thread : Served(q)' <=> Served(q)
         /\ sem'[m].value = sem[m].value + 1
         /\ \A n \in Sem \ {m} : sem'[n].value = sem[n].value
<1>1. /\ at' = [at EXCEPT ![p] = l] /\ k' = k /\ timers' = timers /\ phase' = phase
      /\ sem' = [sem EXCEPT ![m].value = @ + 1] /\ Runs(p)
  BY DEF Up, Signalled, Given, GoesTo
<1>2. /\ at \in [Thread -> Place] /\ sem[m].value \in Nat /\ Sane(k) /\ OneTimer(timers)
      /\ sem[m] \in [value : Nat, queue : Seq(Thread)]
      /\ sem \in [Sem -> [value : Nat, queue : Seq(Thread)]]
  BY Types
<1>3. /\ sem' = [sem EXCEPT ![m] = [sem[m] EXCEPT !.value = sem[m].value + 1]]
      /\ sem[m].value + 1 \in Nat
  BY <1>1, <1>2
<1>4. [sem[m] EXCEPT !.value = sem[m].value + 1] \in [value : Nat, queue : Seq(Thread)]
  BY <1>2, <1>3
<1>5. /\ sem' \in [Sem -> [value : Nat, queue : Seq(Thread)]]
      /\ sem'[m].value = sem[m].value + 1
      /\ \A n \in Sem \ {m} : sem'[n] = sem[n]
      /\ \A n \in Sem : sem'[n].queue = sem[n].queue
  BY <1>2, <1>3, <1>4
<1>6. Typed'
  BY <1>1, <1>2, <1>5 DEF Base, Typed
<1>7. Placed'
  BY <1>1, <1>2, Current DEF Base, Placed
<1>8. \A q \in Thread : Waiting(q)' <=> Waiting(q)
  BY <1>1 DEF Waiting
<1>9. \A q \in Thread : Waiting(q) \/ q \in Owners(timers) => at'[q] = at[q] /\ phase[q] # "runs"
  BY <1>1, <1>2, Current DEF Base, Waits
<1>10. \A n \in Sem : sem'[n].value > 0 => sem[n].queue = <<>>
  BY <1>5 DEF Base, Waits
<1>11. Waits'
  BY <1>1, <1>2, <1>5, <1>8, <1>9, <1>10, WaitsStay
<1>12. Base'
  BY <1>1, <1>2, <1>6, <1>7, <1>11 DEF Base
<1> QED BY <1>1, <1>5, <1>8, <1>12, ServedStays

(* up hands the unit to the first of the line.                             *)
LEMMA Hands ==
  ASSUME Base, NEW p \in Thread, NEW m \in Sem, at[p] # "over", NEW l \in Place \ {"over"},
         Up(p, m, l), sem[m].queue # <<>>
  PROVE  /\ Base' /\ at' = [at EXCEPT ![p] = l] /\ phase' = phase
         /\ \A n \in Sem : sem'[n].value = sem[n].value
         /\ \E w \in Thread \ {p} :
              /\ InLine(w, m) /\ Waiting(w) /\ Served(w)'
              /\ \A q \in Thread \ {w} : Served(q)' <=> Served(q)
<1>1. /\ at \in [Thread -> Place] /\ Sane(k) /\ k \in SchedRecord
      /\ sem[m] \in [value : Nat, queue : Seq(Thread)] /\ sem[m].queue \in Seq(Thread)
      /\ sem \in [Sem -> [value : Nat, queue : Seq(Thread)]]
      /\ k.state \in [Proc -> State] /\ k.wait \in [Proc -> WaitState]
      /\ phase \in [Thread -> Phase] /\ Distinct(sem[m].queue)
  BY Types
<1>2. Runs(p)
  BY DEF Up
<1>3. /\ k.current = p /\ phase[p] = "runs" /\ k.state[p] = "RUNNABLE" /\ ~Waiting(p)
      /\ p \notin Owners(timers) /\ \A n \in Sem : ~InLine(p, n)
  BY <1>2, Current
<1>4. \A q \in Thread, n \in Sem : InLine(q, n) <=> Waiting(q) /\ n = DownOf(q)
  BY DEF Base, Waits
<1>5. PICK w \in Thread, t \in Seq(Thread) :
        /\ w = Head(sem[m].queue) /\ t = Tail(sem[m].queue) /\ Distinct(t)
        /\ Elements(t) = Elements(sem[m].queue) \ {w} /\ w \in Elements(sem[m].queue)
  <2>1. Head(sem[m].queue) \in Thread /\ Tail(sem[m].queue) \in Seq(Thread)
    BY <1>1
  <2> QED BY <1>1, <2>1, TailElements
<1>6. k' = WakeupProc([k EXCEPT !.ok = @ /\ k.wait[w] = "WT_KSEM"], w)
  BY <1>5 DEF Up, Signalled
<1>7. /\ timers' = timers /\ phase' = phase /\ at' = [at EXCEPT ![p] = l]
      /\ sem' = [sem EXCEPT ![m].queue = t]
  BY <1>5 DEF Up, Given, GoesTo
<1>8. /\ w \in Proc /\ w # p /\ InLine(w, m) /\ Waiting(w) /\ m = DownOf(w)
      /\ k.wait[w] = "WT_KSEM" /\ k.state[w] = "SLEEPING"
  <2>1. w \in Proc
    BY <1>5, Consts
  <2>2. InLine(w, m)
    BY <1>5 DEF InLine
  <2>3. w # p /\ Waiting(w) /\ m = DownOf(w)
    BY <1>3, <1>4, <1>5, <2>2
  <2>4. k.wait[w] = "WT_KSEM"
    BY <2>3 DEF Waiting
  <2>5. k.state[w] = "SLEEPING"
    BY <1>1, <2>1, <2>4 DEF Sane
  <2> QED BY <2>1, <2>2, <2>3, <2>4, <2>5
<1>9. /\ Sane(k') /\ k'.current = k.current /\ k' \in SchedRecord
      /\ k'.state = [k.state EXCEPT ![w] = "RUNNABLE"]
      /\ k'.wait = [k.wait EXCEPT ![w] = "none"]
  <2>1. [k EXCEPT !.ok = @ /\ k.wait[w] = "WT_KSEM"] = k
    <3>1. [k EXCEPT !.ok = @ /\ k.wait[w] = "WT_KSEM"] = [k EXCEPT !.ok = TRUE]
      BY <1>1, <1>8 DEF Sane
    <3>2. k.ok = TRUE /\ k \in SchedRecord
      BY <1>1 DEF Sane
    <3> QED BY <3>1, <3>2 DEF SchedRecord
  <2>2. k' = WakeupProc(k, w)
    BY <1>6, <2>1
  <2>3. k.state[w] # "ZOMBIE"
    BY <1>8
  <2>4. WakeupProc(k, w) \in SchedRecord
    BY <1>1, <1>8, WakeupType
  <2> QED BY <1>1, <1>8, <2>2, <2>3, <2>4, WakeupSane
<1>10. /\ sem' = [sem EXCEPT ![m] = [sem[m] EXCEPT !.queue = t]]
       /\ [sem[m] EXCEPT !.queue = t] \in [value : Nat, queue : Seq(Thread)]
  BY <1>1, <1>5, <1>7
<1>11. /\ sem' \in [Sem -> [value : Nat, queue : Seq(Thread)]]
       /\ sem'[m].queue = t /\ \A n \in Sem \ {m} : sem'[n].queue = sem[n].queue
       /\ \A n \in Sem : sem'[n].value = sem[n].value
  BY <1>1, <1>10
<1>12. Typed'
  BY <1>1, <1>7, <1>9, <1>11 DEF Base, Typed
<1>13. /\ ~Waiting(w)' /\ \A q \in Thread \ {w} : Waiting(q)' <=> Waiting(q)
  BY <1>1, <1>8, <1>9, Consts DEF Waiting
<1>14. phase[w] # "runs" /\ at[w] \in Downs
  BY <1>5, <1>8 DEF Base, Waits
<1>15. Placed'
  <2>1. k'.state[w] = "RUNNABLE" /\ \A q \in Thread \ {w} : k'.state[q] = k.state[q]
    BY <1>1, <1>8, <1>9, Consts
  <2>2. k'.current = p /\ k'.state[p] = "RUNNABLE"
    BY <1>3, <1>8, <1>9, <2>1
  <2>3. /\ phase'[p] = "runs" /\ phase'[w] # "runs" /\ at'[w] = at[w]
        /\ \A q \in Thread \ {p} : at'[q] = at[q]
    BY <1>1, <1>3, <1>7, <1>8, <1>14
  <2> QED BY <1>3, <1>7, <1>8, <1>14, <2>1, <2>2, <2>3 DEF Base, Placed
<1>16. \A q \in Thread \ {p} : DownOf(q)' = DownOf(q)
  BY <1>1, <1>7 DEF DownOf
<1>17. \A q \in Thread, n \in Sem : InLine(q, n)' <=> Waiting(q)' /\ n = DownOf(q)'
  <2>1. \A q \in Thread, n \in Sem : InLine(q, n)' <=> InLine(q, n) /\ ~(q = w /\ n = m)
    BY <1>5, <1>11 DEF InLine
  <2>2. ~Waiting(p)' /\ \A n \in Sem : ~InLine(p, n)'
    BY <1>3, <1>8, <1>13, <2>1
  <2>3. ASSUME NEW q \in Thread \ {p, w}, NEW n \in Sem
        PROVE  InLine(q, n)' <=> Waiting(q)' /\ n = DownOf(q)'
    <3>1. InLine(q, n)' <=> InLine(q, n)
      BY <2>1
    <3>2. (Waiting(q)' <=> Waiting(q)) /\ DownOf(q)' = DownOf(q)
      BY <1>13, <1>16
    <3>3. InLine(q, n) <=> Waiting(q) /\ n = DownOf(q)
      BY <1>4
    <3> QED BY <3>1, <3>2, <3>3
  <2>4. \A n \in Sem : ~InLine(w, n)'
    BY <1>4, <1>5, <1>8, <2>1
  <2> QED BY <1>13, <2>2, <2>3, <2>4
<1>18. Waits'
  <2>1. \A n \in Sem : Distinct(sem'[n].queue) /\ (sem'[n].value > 0 => sem'[n].queue = <<>>)
    <3>1. \A n \in Sem : Distinct(sem[n].queue) /\ (sem[n].value > 0 => sem[n].queue = <<>>)
      BY DEF Base, Waits
    <3>2. ~(sem'[m].value > 0)
      BY <1>11, <3>1
    <3> QED BY <1>5, <1>11, <3>1, <3>2
  <2>2. /\ OneTimer(timers')
        /\ \A q \in Owners(timers') : q \in Thread /\ at'[q] \in {"think", "eat"} /\ phase'[q] # "runs"
    BY <1>1, <1>3, <1>7 DEF Base, Waits
  <2>3. \A q \in Thread : Waiting(q)' => phase'[q] # "runs" /\ at'[q] \in Downs
    BY <1>1, <1>3, <1>7, <1>13 DEF Base, Waits
  <2> QED BY <1>17, <2>1, <2>2, <2>3 DEF Waits
<1>19. Served(w)' /\ \A q \in Thread \ {w} : Served(q)' <=> Served(q)
  BY <1>7, <1>13, <1>14 DEF Served
<1> QED BY <1>5, <1>7, <1>8, <1>9, <1>11, <1>12, <1>15, <1>18, <1>19 DEF Base

-----------------------------------------------------------------------------
(* add_timer puts the timer of the sleeper among those of the list.        *)
LEMMA Added ==
  ASSUME NEW ts \in Seq(Timer(Proc)), NEW p \in Proc, NEW n \in Nat
  PROVE  Owners(AddTimer(ts, p, n)) = Owners(ts) \cup {p}
BY AddTimerType

(* do_sleep, up to its schedule() and after it.                            *)
LEMMA FallsAsleep ==
  ASSUME Base, NEW p \in Thread, at[p] \in {"think", "eat"}, Runs(p),
         NEW n \in Nat, k' = Sleeping(k, "WT_TIMER"), timers' = AddTimer(timers, p, n),
         phase' = [phase EXCEPT ![p] = "sleeps"], UNCHANGED <<sem, at>>
  PROVE  Base' /\ \A q \in Thread \ {p} : Served(q)' <=> Served(q)
<1>1. /\ Sane(k) /\ k \in SchedRecord /\ k.state \in [Proc -> State]
      /\ k.wait \in [Proc -> WaitState] /\ phase \in [Thread -> Phase]
      /\ timers \in Seq(Timer(Proc)) /\ OneTimer(timers)
  BY Types
<1>2. p \in Proc /\ p # Idle /\ Thread \subseteq Proc
  BY Consts
<1>3. /\ k.current = p /\ phase[p] = "runs" /\ k.state[p] = "RUNNABLE" /\ ~Waiting(p)
      /\ p \notin Owners(timers)
  BY Current
<1>4. /\ Sane(k') /\ k'.current = p /\ k' \in SchedRecord
      /\ k'.state = [k.state EXCEPT ![p] = "SLEEPING"]
      /\ k'.wait = [k.wait EXCEPT ![p] = "WT_TIMER"]
  <2>1. "WT_TIMER" \in WaitState /\ "WT_TIMER" # "none"
    BY DEF WaitState, Interruptible
  <2> QED BY <1>1, <1>2, <1>3, <2>1, SleepingSane, SleepingType
<1>5. timers' \in Seq(Timer(Proc)) /\ Owners(timers') = Owners(timers) \cup {p}
  <2>1. AddTimer(timers, p, n) \in Seq(Timer(Proc))
    BY <1>1, <1>2, AddTimerType
  <2>2. Owners(AddTimer(timers, p, n)) = Owners(timers) \cup {p}
    BY <1>1, <1>2, Added
  <2> QED BY <2>1, <2>2
<1>6. OneTimer(timers')
  BY <1>1, <1>2, <1>3, AddTimerOne
<1>7. Typed'
  <2>1. phase' \in [Thread -> Phase]
    BY <1>1 DEF Phase
  <2> QED BY <1>4, <1>5, <2>1 DEF Base, Typed
<1>8. Placed'
  BY <1>1, <1>2, <1>3, <1>4 DEF Base, Placed
<1>9. \A q \in Thread : Waiting(q)' <=> Waiting(q)
  BY <1>1, <1>2, <1>3, <1>4 DEF Waiting
<1>10. Waits'
  <2>1. \A q \in Owners(timers') : q \in Thread /\ at'[q] \in {"think", "eat"} /\ phase'[q] # "runs"
    BY <1>1, <1>5 DEF Base, Waits
  <2>2. \A m \in Sem : Distinct(sem'[m].queue) /\ (sem'[m].value > 0 => sem'[m].queue = <<>>)
    BY DEF Base, Waits
  <2>3. \A q \in Thread, m \in Sem : InLine(q, m)' <=> Waiting(q)' /\ m = DownOf(q)'
    <3>1. \A q \in Thread, m \in Sem : InLine(q, m) <=> Waiting(q) /\ m = DownOf(q)
      BY DEF Base, Waits
    <3>2. \A q \in Thread : DownOf(q)' = DownOf(q)
      BY DEF DownOf
    <3>3. \A q \in Thread, m \in Sem : InLine(q, m)' <=> InLine(q, m)
      BY DEF InLine, Elements
    <3> QED BY <1>9, <3>1, <3>2, <3>3
  <2>4. \A q \in Thread : Waiting(q)' => phase'[q] # "runs" /\ at'[q] \in Downs
    BY <1>1, <1>3, <1>9 DEF Base, Waits
  <2> QED BY <1>6, <2>1, <2>2, <2>3, <2>4 DEF Waits
<1>11. \A q \in Thread \ {p} : Served(q)' <=> Served(q)
  BY <1>1, <1>9 DEF Served
<1> QED BY <1>4, <1>7, <1>8, <1>10, <1>11 DEF Base

LEMMA WakesUp ==
  ASSUME Base, NEW p \in Thread, at[p] \in {"think", "eat"}, NEW l \in Place \ {"over"},
         k.current = p, phase[p] = "woken", timers' = DelTimer(timers, p),
         phase' = [phase EXCEPT ![p] = "runs"], at' = [at EXCEPT ![p] = l],
         UNCHANGED <<k, sem>>
  PROVE  Base' /\ \A q \in Thread \ {p} : Served(q)' <=> Served(q)
<1>1. /\ Sane(k) /\ at \in [Thread -> Place] /\ k \in SchedRecord
      /\ phase \in [Thread -> Phase] /\ timers \in Seq(Timer(Proc)) /\ OneTimer(timers)
  BY Types
<1>2. p \in Proc
  BY Consts
<1>3. k.state[p] = "RUNNABLE"
  BY DEF Base, Placed
<1>4. ~Waiting(p)
  BY <1>1, <1>2, <1>3 DEF Sane, Waiting
<1>5. /\ timers' \in Seq(Timer(Proc)) /\ Owners(timers') \subseteq Owners(timers)
      /\ OneTimer(timers') /\ p \notin Owners(timers')
  BY <1>1, <1>2, DelTimerType, DelTimerOne
<1>6. Typed'
  <2>1. phase' \in [Thread -> Phase] /\ at' \in [Thread -> Place]
    BY <1>1 DEF Phase
  <2> QED BY <1>5, <2>1 DEF Base, Typed
<1>7. Placed'
  BY <1>1, <1>3 DEF Base, Placed
<1>8. \A q \in Thread : Waiting(q)' <=> Waiting(q)
  BY DEF Waiting
<1>9. \A q \in Thread : Waiting(q) \/ q \in Owners(timers') => at'[q] = at[q] /\ phase'[q] # "runs"
  BY <1>1, <1>4, <1>5 DEF Base, Waits
<1>10. Waits'
  <2>1. \A m \in Sem : sem[m].value > 0 => sem[m].queue = <<>>
    BY DEF Base, Waits
  <2> QED BY <1>5, <1>8, <1>9, <2>1, WaitsStay
<1>11. \A q \in Thread \ {p} : Served(q)' <=> Served(q)
  BY <1>1, <1>8 DEF Served
<1> QED BY <1>1, <1>6, <1>7, <1>10, <1>11 DEF Base

-----------------------------------------------------------------------------
(* schedule(), called by a thread that has gone to sleep or by idle.       *)
LEMMA Switches ==
  ASSUME Base, k' = Schedule(k), UNCHANGED <<timers, sem, at>>,
         \/ \E p \in Thread : /\ k.current = p /\ phase[p] = "sleeps"
                              /\ phase' = [phase EXCEPT ![p] = "woken"]
         \/ k.current = Idle /\ phase' = phase
  PROVE  /\ Base'
         /\ \A q \in Thread : /\ phase'[q] = "runs" <=> phase[q] = "runs"
                              /\ Served(q)' <=> Served(q)
<1>1. Sane(k) /\ k \in SchedRecord /\ phase \in [Thread -> Phase] /\ OneTimer(timers)
  BY Types
<1>2. /\ Sane(k') /\ k' \in SchedRecord /\ k'.state = k.state /\ k'.wait = k.wait
      /\ k.state[k'.current] = "RUNNABLE"
  BY <1>1, ScheduleSane, ScheduleType
<1>3. /\ phase' \in [Thread -> Phase]
      /\ \A q \in Thread : phase'[q] # "sleeps" /\ (phase'[q] = "runs" <=> phase[q] = "runs")
  BY <1>1, Consts DEF Phase, Base, Placed
<1>4. Typed'
  BY <1>2, <1>3 DEF Base, Typed
<1>5. \A q \in Thread : phase[q] = "runs" => \/ k.state[q] = "RUNNABLE" /\ at[q] = "think"
                                             \/ k.state[q] = "ZOMBIE" /\ at[q] = "over"
  <2>1. \A q \in Thread : k.current = q => phase[q] # "runs"
    BY Consts
  <2> QED BY <2>1 DEF Base, Placed
<1>6. Placed'
  <2>1. \A q \in Thread : phase[q] # "runs" =>
          k.state[q] \in {"RUNNABLE", "SLEEPING"} /\ at[q] \in Downs \cup {"think", "eat"}
    BY DEF Base, Placed
  <2>2. at' = at /\ \A q \in Thread : k'.current = q => k.state[q] = "RUNNABLE"
    BY <1>2
  <2> QED BY <1>2, <1>3, <1>5, <2>1, <2>2 DEF Placed
<1>7. \A q \in Thread : Waiting(q)' <=> Waiting(q)
  BY <1>2 DEF Waiting
<1>8. Waits'
  <2>1. \A m \in Sem : sem[m].value > 0 => sem[m].queue = <<>>
    BY DEF Base, Waits
  <2>2. \A q \in Thread : Waiting(q) \/ q \in Owners(timers) => phase'[q] # "runs"
    BY <1>3 DEF Base, Waits
  <2> QED BY <1>1, <1>7, <2>1, <2>2, WaitsStay
<1>9. \A q \in Thread : Served(q)' <=> Served(q)
  BY <1>3, <1>7 DEF Served
<1> QED BY <1>2, <1>3, <1>4, <1>6, <1>8, <1>9 DEF Base

(* A tick wakes sleepers whose timers expire, and nobody in a down.        *)
LEMMA Ticked1 ==
  ASSUME Base, Tick
  PROVE  /\ Base' /\ UNCHANGED <<sem, at, phase>>
         /\ \A q \in Thread : Served(q)' <=> Served(q)
<1>1. /\ k' \in Ticked(k, timers) /\ timers' = RunTimers(timers)
      /\ sem' = sem /\ at' = at /\ phase' = phase
  BY DEF Tick
<1>2. /\ Sane(k) /\ k \in SchedRecord /\ timers \in Seq(Timer(Proc)) /\ OneTimer(timers)
      /\ Thread \subseteq Proc
  BY Types, Consts
<1>3. \A q \in Owners(timers) : q \in Thread /\ at[q] \in {"think", "eat"} /\ phase[q] # "runs"
  BY DEF Base, Waits
<1>4. \A q \in Thread : Waiting(q) => at[q] \in Downs /\ phase[q] # "runs"
  BY DEF Base, Waits
<1>5. \A q \in Owners(timers) : k.state[q] \in {"RUNNABLE", "SLEEPING"} /\ k.wait[q] # "WT_KSEM"
  <2>1. \A q \in Owners(timers) : k.state[q] \in {"RUNNABLE", "SLEEPING"}
    BY <1>3 DEF Base, Placed
  <2>2. \A q \in Owners(timers) : k.wait[q] # "WT_KSEM"
    BY <1>3, <1>4 DEF Waiting, Downs
  <2> QED BY <2>1, <2>2
<1>6. /\ Sane(k') /\ k'.current = k.current /\ Woken(k, k')
      /\ Spared(k, k', Elements(Expired(timers)))
  BY <1>1, <1>2, <1>5, TickedSane
<1>7. k' \in SchedRecord
  BY <1>1, <1>2, TickedType
<1>8. /\ timers' \in Seq(Timer(Proc)) /\ OneTimer(timers')
      /\ Owners(timers') \subseteq Owners(timers)
      /\ Elements(Expired(timers)) \subseteq Owners(timers)
  BY <1>1, <1>2, RunTimersType, RunTimersOne
<1>9. Typed'
  BY <1>1, <1>7, <1>8 DEF Base, Typed
<1>10. Placed'
  BY <1>1, <1>2, <1>6 DEF Base, Placed, Woken
<1>11. \A q \in Thread : Waiting(q)' <=> Waiting(q)
  <2>1. \A q \in Thread : k'.wait[q] = "WT_KSEM" => k.wait[q] = "WT_KSEM"
    BY <1>2, <1>6 DEF Woken
  <2>2. \A q \in Thread : q \notin Owners(timers) => k'.wait[q] = k.wait[q]
    BY <1>2, <1>6, <1>8 DEF Spared
  <2> QED BY <1>5, <2>1, <2>2 DEF Waiting
<1>12. Waits'
  <2>1. \A m \in Sem : sem[m].value > 0 => sem[m].queue = <<>>
    BY DEF Base, Waits
  <2>2. \A q \in Thread : Waiting(q) \/ q \in Owners(timers') => phase[q] # "runs"
    BY <1>3, <1>4, <1>8
  <2> QED BY <1>1, <1>8, <1>11, <2>1, <2>2, WaitsStay
<1> QED BY <1>1, <1>6, <1>9, <1>10, <1>11, <1>12, ServedStays DEF Base

(* do_exit makes the thread a zombie and gives up the CPU.                 *)
LEMMA Ends ==
  ASSUME Base, NEW p \in Thread, at[p] = "quit", Quit(p, "over")
  PROVE  /\ Base' /\ at' = [at EXCEPT ![p] = "over"] /\ UNCHANGED <<sem, phase>>
         /\ \A q \in Thread : Served(q)' <=> Served(q)
<1> DEFINE z == [k EXCEPT !.state[p] = "ZOMBIE"]
<1>1. /\ Sane(k) /\ k \in SchedRecord /\ k.state \in [Proc -> State]
      /\ k.wait \in [Proc -> WaitState] /\ at \in [Thread -> Place]
      /\ phase \in [Thread -> Phase] /\ OneTimer(timers)
  BY Types
<1>2. p \in Proc /\ p # Idle /\ Thread \subseteq Proc
  BY Consts
<1>3. k' = Schedule(z)
  BY DEF Quit
<1>4. /\ timers' = timers /\ sem' = sem /\ phase' = phase /\ Runs(p)
      /\ at' = [at EXCEPT ![p] = "over"]
  BY DEF Quit, GoesTo
<1>5. /\ k.current = p /\ phase[p] = "runs" /\ k.state[p] = "RUNNABLE" /\ ~Waiting(p)
      /\ p \notin Owners(timers) /\ k.wait[p] = "none"
      /\ \A q \in Thread \ {p} : phase[q] = "runs" => at[q] \in {"think", "over"}
  BY <1>4, Current
<1>6. /\ z \in SchedRecord /\ z.state = [k.state EXCEPT ![p] = "ZOMBIE"] /\ z.wait = k.wait
      /\ z.current = p /\ z.ok = k.ok /\ z.runq = k.runq
  BY <1>1, <1>2, <1>5 DEF SchedRecord, State
<1> HIDE DEF z
<1>7. Sane(z)
  <2>1. Queued(z) = Queued(k)
    BY <1>6 DEF Queued
  <2>2. {q \in Proc : z.state[q] = "RUNNABLE"} \ {p, Idle}
          = {q \in Proc : k.state[q] = "RUNNABLE"} \ {p, Idle}
    BY <1>1, <1>2, <1>6
  <2>3. \A q \in Proc : z.wait[q] # "none" <=> z.state[q] = "SLEEPING"
    BY <1>1, <1>2, <1>5, <1>6 DEF Sane
  <2>4. z.state[Idle] = "RUNNABLE"
    BY <1>1, <1>2, <1>6, Consts DEF Sane
  <2>5. /\ k.ok = TRUE /\ Distinct(k.runq)
        /\ Queued(k) = {q \in Proc : k.state[q] = "RUNNABLE"} \ {p, Idle}
    BY <1>1, <1>5 DEF Sane
  <2> QED BY <1>6, <2>1, <2>2, <2>3, <2>4, <2>5 DEF Sane
<1>8. /\ Sane(k') /\ k' \in SchedRecord /\ k'.state = z.state /\ k'.wait = k.wait
      /\ z.state[k'.current] = "RUNNABLE"
  BY <1>3, <1>6, <1>7, ScheduleSane, ScheduleType
<1>9. Typed'
  <2>1. "over" \in Place
    BY DEF Place, SemaPlace, Both
  <2> QED BY <1>1, <1>4, <1>8, <2>1 DEF Base, Typed
<1>10. Placed'
  <2>1. /\ k'.state[p] = "ZOMBIE" /\ at'[p] = "over" /\ phase'[p] = "runs"
        /\ \A q \in Thread \ {p} : /\ k'.state[q] = k.state[q] /\ at'[q] = at[q]
                                   /\ phase'[q] = phase[q]
    BY <1>1, <1>2, <1>4, <1>5, <1>6, <1>8
  <2>2. \A q \in Thread \ {p} : k'.current = q => k.state[q] = "RUNNABLE"
    BY <1>2, <1>6, <1>8, <2>1
  <2> QED BY <1>5, <2>1, <2>2 DEF Base, Placed
<1>11. \A q \in Thread : Waiting(q)' <=> Waiting(q)
  BY <1>8 DEF Waiting
<1>12. Waits'
  <2>1. \A m \in Sem : sem[m].value > 0 => sem[m].queue = <<>>
    BY DEF Base, Waits
  <2>2. \A q \in Thread : Waiting(q) \/ q \in Owners(timers) => at'[q] = at[q] /\ phase[q] # "runs"
    BY <1>1, <1>4, <1>5 DEF Base, Waits
  <2> QED BY <1>1, <1>4, <1>11, <2>1, <2>2, WaitsStay
<1> QED BY <1>4, <1>8, <1>9, <1>10, <1>11, <1>12, ServedStays DEF Base

-----------------------------------------------------------------------------
(* Who has the mutex, or has been handed it: with the monitor, who is in   *)
(* it.                                                                     *)
Has(p) ==
  \/ at[p] \in {"hungry", "test", "unlock", "self", "tested", "wait", "awake", "signalled",
                "exit", "full", "left", "right", "done"}
  \/ at[p] \in {"lock", "back", "asleep", "signal"} /\ Served(p)

One ==
  /\ \A p, q \in Thread : Has(p) /\ Has(q) => p = q
  /\ sem[mutex].value \in {0, 1}
  /\ sem[mutex].value = 1 <=> \A p \in Thread : ~Has(p)

Neighbours(state) == \A p \in Thread : state[p] = "EATING" => state[RIGHT(p)] # "EATING"

(* Outside, and on the way to the tests, a philosopher does not eat.       *)
Plain == {"think", "lock", "hungry", "left", "right", "done", "quit", "over"}

(* With semaphores: the state goes with the place, and s[p] is up from the *)
(* test in which p gets the forks to p's own down, unless p waits already. *)
SemaAt(p) ==
  /\ at[p] \in SemaPlace
  /\ at[p] \in Plain => state_sema[p] = "THINKING"
  /\ at[p] = "test" => state_sema[p] = "HUNGRY"
  /\ at[p] \in {"unlock", "get"} => state_sema[p] # "THINKING"
  /\ at[p] \in {"eat", "back", "full"} => state_sema[p] = "EATING"
  /\ at[p] = "get" /\ phase[p] # "runs" => (state_sema[p] = "EATING" <=> Served(p))
  /\ sem[p].value = IF /\ at[p] \in {"unlock", "get"} /\ phase[p] = "runs"
                       /\ state_sema[p] = "EATING"
                    THEN 1 ELSE 0

(* With the monitor: no signal is saved, those who are counted are those   *)
(* who wait, and a waiter that has been woken eats.                        *)
CondAt(p) ==
  /\ at[p] \in MonitorPlace
  /\ sem[p].value = 0
  /\ count[p] = IF at[p] \in {"asleep", "awake"} THEN 1 ELSE 0
  /\ at[p] \in {"signal", "signalled"} => caller[p] \in {"right", "done"}
  /\ at[p] \in Plain \cup {"signal", "signalled"} => state_condvar[p] = "THINKING"
  /\ at[p] \in {"self", "wait"} => state_condvar[p] = "HUNGRY"
  /\ at[p] = "tested" => state_condvar[p] # "THINKING"
  /\ at[p] \in {"awake", "exit", "eat", "back", "full"} => state_condvar[p] = "EATING"
  /\ at[p] = "asleep" => state_condvar[p] = IF Served(p) THEN "EATING" ELSE "HUNGRY"

PhiAt(p) == IF half = "sema" THEN SemaAt(p) ELSE CondAt(p)

Signallers == {p \in Thread : at[p] \in {"signal", "signalled"}}

Local ==
  /\ half \in {"sema", "condvar"}
  /\ state_sema \in [Thread -> Mood] /\ state_condvar \in [Thread -> Mood]
  /\ next_count \in Nat /\ count \in [Thread -> Nat]
  /\ caller \in [Thread -> {"self", "right", "done"}]
  /\ iter \in [Thread -> Nat]

Table ==
  /\ sem[next].value = 0
  /\ Neighbours(state_sema) /\ Neighbours(state_condvar)
  /\ half = "sema" => MonitorInit
  /\ half = "condvar" => next_count = Cardinality(Signallers)
  /\ \A p \in Thread : PhiAt(p)

IInv == Base /\ One /\ Local /\ Table

-----------------------------------------------------------------------------
LEMMA Ring ==
  \A i \in Thread : /\ LEFT(i) \in Thread /\ RIGHT(i) \in Thread
                    /\ LEFT(i) # i /\ RIGHT(i) # i
                    /\ RIGHT(LEFT(i)) = i /\ LEFT(RIGHT(i)) = i
BY Consts DEF LEFT, RIGHT

LEMMA Lays ==
  ASSUME NEW state \in [Thread -> Mood], Neighbours(state), NEW j \in Thread,
         state[LEFT(j)] # "EATING", state[RIGHT(j)] # "EATING"
  PROVE  Neighbours([state EXCEPT ![j] = "EATING"])
<1> DEFINE new == [state EXCEPT ![j] = "EATING"]
<1> SUFFICES ASSUME NEW p \in Thread, new[p] = "EATING"
             PROVE  new[RIGHT(p)] # "EATING"
  BY DEF Neighbours
<1>1. RIGHT(p) \in Thread /\ RIGHT(p) # p /\ LEFT(RIGHT(p)) = p
  BY Ring
<1>2. CASE p = j
  BY <1>1, <1>2
<1>3. CASE p # j
  <2>1. state[p] = "EATING"
    BY <1>3
  <2>2. RIGHT(p) # j
    BY <1>1, <2>1
  <2> QED BY <1>1, <2>1, <2>2 DEF Neighbours
<1> QED BY <1>2, <1>3

LEMMA LaysNot ==
  ASSUME NEW state \in [Thread -> Mood], Neighbours(state), NEW j \in Thread,
         NEW m \in Mood \ {"EATING"}
  PROVE  Neighbours([state EXCEPT ![j] = m])
BY Ring DEF Neighbours

LEMMA HasStays ==
  ASSUME NEW q \in Thread, at'[q] = at[q], Served(q)' <=> Served(q)
  PROVE  Has(q)' <=> Has(q)
BY DEF Has

LEMMA PhiStays ==
  ASSUME NEW q \in Thread, PhiAt(q), half' = half, at'[q] = at[q], sem'[q].value = sem[q].value,
         at[q] \in {"unlock", "get"} => (phase'[q] = "runs" <=> phase[q] = "runs"),
         at[q] \in {"get", "asleep"} => (Served(q)' <=> Served(q)),
         state_sema'[q] = state_sema[q], state_condvar'[q] = state_condvar[q],
         count'[q] = count[q], caller'[q] = caller[q]
  PROVE  PhiAt(q)'
<1>1. CASE half = "sema"
  BY <1>1 DEF PhiAt, SemaAt
<1>2. CASE half # "sema"
  BY <1>2 DEF PhiAt, CondAt
<1> QED BY <1>1, <1>2

(* Who is in line for a semaphore.                                         *)
LEMMA Line ==
  ASSUME Base, NEW w \in Thread, NEW m \in Sem, InLine(w, m)
  PROVE  /\ m \in Thread => m = w
         /\ m = mutex => at[w] \in {"lock", "back"}
         /\ m = next => at[w] = "signal"
         /\ sem[m].queue # <<>>
<1>1. m = DownOf(w)
  BY DEF Base, Waits
<1>2. sem[m].queue # <<>>
  BY DEF InLine, Elements
<1> QED BY <1>1, <1>2, Consts DEF DownOf

LEMMA NoLine ==
  ASSUME Base, NEW m \in Sem, \A w \in Thread : ~InLine(w, m)
  PROVE  sem[m].queue = <<>>
<1>1. sem[m].queue \in Seq(Thread)
  BY Types
<1>2. CASE sem[m].queue # <<>>
  <2>1. 1 \in DOMAIN sem[m].queue /\ sem[m].queue[1] \in Thread
    BY <1>1, <1>2
  <2> QED BY <2>1 DEF InLine, Elements
<1> QED BY <1>2

LEMMA OwnLine ==
  ASSUME Base, NEW p \in Thread, Runs(p), at[p] # "over"
  PROVE  sem[p].queue = <<>>
<1>1. p \in Sem
  BY Consts
<1>2. \A w \in Thread : InLine(w, p) => w = p
  BY <1>1, Line
<1>3. ~InLine(p, p)
  BY <1>1, Current
<1> QED BY <1>1, <1>2, <1>3, NoLine

(* Who waits in a down while another thread executes.                      *)
LEMMA Stands ==
  ASSUME Base, NEW p \in Thread, Runs(p), at[p] # "over", NEW j \in Thread \ {p},
         at[j] \in Downs, ~Served(j)
  PROVE  InLine(j, DownOf(j)) /\ phase[j] # "runs"
<1>1. phase[j] # "runs"
  BY Current DEF Downs
<1>2. Waiting(j)
  BY <1>1 DEF Served
<1>3. DownOf(j) \in Sem
  BY Consts DEF DownOf
<1> QED BY <1>1, <1>2, <1>3 DEF Base, Waits

-----------------------------------------------------------------------------
(* The mutex stays with who has it, or with nobody; goes from one thread   *)
(* to another; is given back; is taken.                                    *)
LEMMA OneSame ==
  ASSUME One, sem'[mutex].value = sem[mutex].value, \A q \in Thread : Has(q)' <=> Has(q)
  PROVE  One'
BY DEF One

LEMMA OneMoves ==
  ASSUME One, sem'[mutex].value = sem[mutex].value,
         NEW p \in Thread, Has(p), NEW w \in Thread, Has(w)', w # p => ~Has(p)',
         \A q \in Thread \ {p, w} : Has(q)' <=> Has(q)
  PROVE  One'
<1>1. \A q \in Thread : Has(q)' <=> q = w
  BY DEF One
<1> QED BY <1>1 DEF One

LEMMA OneGiven ==
  ASSUME One, sem'[mutex].value = sem[mutex].value + 1, NEW p \in Thread, Has(p), ~Has(p)',
         \A q \in Thread \ {p} : Has(q)' <=> Has(q)
  PROVE  One'
<1>1. sem[mutex].value = 0 /\ \A q \in Thread : ~Has(q)'
  BY DEF One
<1> QED BY <1>1 DEF One

LEMMA OneTaken ==
  ASSUME One, sem[mutex].value > 0, sem'[mutex].value = sem[mutex].value - 1,
         NEW p \in Thread, Has(p)', \A q \in Thread \ {p} : Has(q)' <=> Has(q)
  PROVE  One'
<1>1. sem'[mutex].value = 0 /\ \A q \in Thread : Has(q)' <=> q = p
  BY DEF One
<1> QED BY <1>1 DEF One

-----------------------------------------------------------------------------
(* A step that changes nothing but what p does, outside of the tests.      *)
LEMMA Kept ==
  ASSUME IInv, Base', One', UNCHANGED locals, NEW p \in Thread, PhiAt(p)',
         at'[p] \in {"signal", "signalled"} <=> at[p] \in {"signal", "signalled"},
         \A n \in Sem \ {mutex, p} : sem'[n].value = sem[n].value,
         \A q \in Thread \ {p} :
           /\ at'[q] = at[q] /\ (phase'[q] = "runs" <=> phase[q] = "runs")
           /\ at[q] \in {"get", "asleep"} => (Served(q)' <=> Served(q))
  PROVE  IInv'
<1>1. /\ half' = half /\ state_sema' = state_sema /\ state_condvar' = state_condvar
      /\ next_count' = next_count /\ count' = count /\ caller' = caller /\ iter' = iter
  BY DEF locals, others, monitor
<1>2. Local'
  BY <1>1 DEF IInv, Local
<1>3. \A q \in Thread \ {p} : PhiAt(q)'
  BY <1>1, PhiStays, Consts DEF IInv, Table
<1>4. Signallers' = Signallers
  BY DEF Signallers
<1>5. sem'[next].value = 0
  BY Consts DEF IInv, Table
<1>6. Neighbours(state_sema)' /\ Neighbours(state_condvar)'
  BY <1>1 DEF IInv, Table, Neighbours
<1>7. half' = "sema" => MonitorInit'
  BY <1>1 DEF IInv, Table, MonitorInit
<1>8. half' = "condvar" => next_count' = Cardinality(Signallers')
  BY <1>1, <1>4 DEF IInv, Table
<1>9. Table'
  BY <1>3, <1>5, <1>6, <1>7, <1>8 DEF Table
<1> QED BY <1>2, <1>9 DEF IInv

(* Somebody waits on next as long as next_count says so.                   *)
LEMMA NextWaits ==
  ASSUME IInv, half = "condvar", next_count > 0, NEW p \in Thread, Runs(p), Has(p),
         at[p] \notin {"over", "signalled"}
  PROVE  \E w \in Thread : InLine(w, next)
<1>1. Cardinality(Signallers) # 0
  BY DEF IInv, Table, Local
<1>2. PICK w \in Thread : at[w] \in {"signal", "signalled"}
  BY <1>1, FS_EmptySet DEF Signallers
<1>3. ~Served(p)
  BY DEF Served, Runs
<1>4. w # p
  BY <1>2, <1>3 DEF Has
<1>5. ~Has(w)
  BY <1>4 DEF IInv, One
<1>6. at[w] = "signal" /\ ~Served(w)
  BY <1>2, <1>5 DEF Has
<1>7. InLine(w, DownOf(w))
  BY <1>4, <1>6, Stands DEF IInv, Downs
<1> QED BY <1>6, <1>7 DEF DownOf

(* p leaves the mutex or the monitor: somebody in line has it then, or it  *)
(* is free.                                                                *)
LEMMA Leaves ==
  ASSUME IInv, NEW p \in Thread, Has(p), at[p] \notin {"over", "signalled"},
         NEW m \in {mutex, next}, m = next => half = "condvar" /\ next_count > 0,
         NEW l \in {"get", "think", "quit", "asleep", "eat"}, Up(p, m, l)
  PROVE  /\ Base' /\ One' /\ at' = [at EXCEPT ![p] = l] /\ phase' = phase
         /\ phase[p] = "runs" /\ ~Served(p)'
         /\ \A n \in Sem \ {mutex} : sem'[n].value = sem[n].value
         /\ \A q \in Thread \ {p} : at[q] \in {"get", "asleep"} => (Served(q)' <=> Served(q))
<1>1. Base /\ One /\ at \in [Thread -> Place] /\ m \in Sem /\ l \in Place \ {"over"}
  BY Types, Consts DEF IInv, Place, SemaPlace, MonitorPlace, Both
<1>2. Runs(p) /\ phase[p] = "runs" /\ ~Served(p)
  BY DEF Up, Runs, Served
<1>3. CASE sem[m].queue = <<>>
  <2>1. m = mutex
    <3>1. m = next => \E w \in Thread : InLine(w, next)
      BY <1>2, NextWaits
    <3> QED BY <1>1, <1>3, <3>1, Line
  <2>2. /\ Base' /\ at' = [at EXCEPT ![p] = l] /\ phase' = phase
        /\ \A q \in Thread : Served(q)' <=> Served(q)
        /\ sem'[mutex].value = sem[mutex].value + 1
        /\ \A n \in Sem \ {mutex} : sem'[n].value = sem[n].value
    BY <1>1, <1>3, <2>1, Returns
  <2>3. at'[p] = l /\ \A q \in Thread \ {p} : at'[q] = at[q]
    BY <1>1, <2>2
  <2>4. ~Has(p)' /\ \A q \in Thread \ {p} : Has(q)' <=> Has(q)
    <3>1. ~Has(p)'
      BY <1>2, <2>2, <2>3 DEF Has
    <3> QED BY <2>2, <2>3, <3>1, HasStays
  <2>5. One'
    BY <1>1, <2>2, <2>4, OneGiven
  <2> QED BY <1>2, <2>2, <2>5
<1>4. CASE sem[m].queue # <<>>
  <2>1. /\ Base' /\ at' = [at EXCEPT ![p] = l] /\ phase' = phase
        /\ \A n \in Sem : sem'[n].value = sem[n].value
    BY <1>1, <1>4, Hands
  <2>2. PICK w \in Thread \ {p} :
          /\ InLine(w, m) /\ Served(w)'
          /\ \A q \in Thread \ {w} : Served(q)' <=> Served(q)
    BY <1>1, <1>4, Hands
  <2>3. at'[p] = l /\ \A q \in Thread \ {p} : at'[q] = at[q]
    BY <1>1, <2>1
  <2>4. at[w] \in {"lock", "back", "signal"}
    BY <1>1, <2>2, Line
  <2>5. Has(w)' /\ ~Has(p)' /\ \A q \in Thread \ {p, w} : Has(q)' <=> Has(q)
    <3>1. Has(w)'
      BY <2>2, <2>3, <2>4 DEF Has
    <3>2. ~Served(p)'
      BY <1>2, <2>2
    <3>3. ~Has(p)'
      BY <2>3, <3>2 DEF Has
    <3> QED BY <2>2, <2>3, <3>1, <3>3, HasStays
  <2>6. One'
    BY <1>1, <2>1, <2>5, Consts, OneMoves
  <2> QED BY <1>2, <2>1, <2>2, <2>4, <2>6
<1> QED BY <1>3, <1>4

-----------------------------------------------------------------------------
(* The steps that both kinds of philosophers take.  Those that sleep have  *)
(* the mutex as little as before.                                          *)
LEMMA Dozes ==
  ASSUME IInv, NEW p \in Thread, NEW l, UNCHANGED locals, Sleep(p, SleepTime, l),
         (at[p] = "think" /\ l = "lock") \/ (at[p] = "eat" /\ l = "back")
  PROVE  IInv'
<1>1. /\ Base /\ One /\ at \in [Thread -> Place] /\ phase \in [Thread -> Phase]
      /\ l \in Place \ {"over"} /\ SleepTime \in Nat /\ PhiAt(p) /\ mutex \in Sem
      /\ at[p] \in {"think", "eat"}
  BY Types, Consts DEF IInv, Table, Place, SemaPlace, MonitorPlace, Both
<1>2. /\ half' = half /\ state_sema' = state_sema /\ state_condvar' = state_condvar
      /\ count' = count /\ caller' = caller
  BY DEF locals, others, monitor
<1>3. /\ Base' /\ sem' = sem /\ (\A q \in Thread \ {p} : Served(q)' <=> Served(q))
      /\ \/ at' = at /\ phase' = [phase EXCEPT ![p] = "sleeps"]
         \/ at' = [at EXCEPT ![p] = l] /\ phase' = [phase EXCEPT ![p] = "runs"]
  <2>1. CASE /\ Runs(p)
             /\ k' = Sleeping(k, "WT_TIMER")
             /\ timers' = AddTimer(timers, p, SleepTime)
             /\ phase' = [phase EXCEPT ![p] = "sleeps"]
             /\ UNCHANGED <<sem, at>>
    BY <1>1, <2>1, FallsAsleep
  <2>2. CASE /\ k.current = p /\ phase[p] = "woken"
             /\ timers' = DelTimer(timers, p)
             /\ phase' = [phase EXCEPT ![p] = "runs"]
             /\ GoesTo(p, l)
             /\ UNCHANGED <<k, sem>>
    BY <1>1, <2>2, WakesUp DEF GoesTo
  <2> QED BY <2>1, <2>2 DEF Sleep
<1>4. /\ at'[p] \in {at[p], l} /\ (at'[p] = l => phase'[p] = "runs")
      /\ \A q \in Thread \ {p} : at'[q] = at[q] /\ phase'[q] = phase[q]
  BY <1>1, <1>3
<1>5. at'[p] \in {"think", "eat"} \/ (at'[p] \in {"lock", "back"} /\ ~Served(p)')
  <2>1. phase'[p] = "runs" => ~Served(p)'
    BY DEF Served
  <2> QED BY <1>1, <1>4, <2>1
<1>6. \A q \in Thread : Has(q)' <=> Has(q)
  <2>1. ~Has(p)' /\ ~Has(p)
    BY <1>1, <1>5 DEF Has
  <2> QED BY <1>3, <1>4, <2>1, HasStays
<1>7. One'
  BY <1>1, <1>3, <1>6, OneSame
<1>8. PhiAt(p)'
  <2>1. CASE half = "sema"
    BY <1>1, <1>2, <1>3, <1>4, <2>1 DEF PhiAt, SemaAt, Plain, SemaPlace, Both
  <2>2. CASE half # "sema"
    BY <1>1, <1>2, <1>3, <1>4, <2>2 DEF PhiAt, CondAt, Plain, MonitorPlace, Both
  <2> QED BY <2>1, <2>2
<1> QED BY <1>1, <1>3, <1>4, <1>7, <1>8, Kept

(* A down of the mutex.                                                    *)
LEMMA Asks ==
  ASSUME IInv, NEW p \in Thread, NEW l, UNCHANGED locals, Down(p, mutex, l),
         (at[p] = "lock" /\ l = "hungry") \/ (at[p] = "back" /\ l = "full")
  PROVE  IInv'
<1>1. /\ Base /\ One /\ at \in [Thread -> Place] /\ phase \in [Thread -> Phase]
      /\ l \in Place \ {"over"} /\ PhiAt(p) /\ mutex \in Sem /\ p # mutex /\ p \in Sem
      /\ at[p] \in Downs /\ at[p] # "over" /\ mutex = DownOf(p) /\ at[p] \in {"lock", "back"}
  BY Types, Consts DEF IInv, Table, Place, SemaPlace, MonitorPlace, Both, Downs, DownOf
<1>2. /\ half' = half /\ state_sema' = state_sema /\ state_condvar' = state_condvar
      /\ count' = count /\ caller' = caller
  BY DEF locals, others, monitor
<1>3. ASSUME at'[p] \in {at[p], l}, sem'[p].value = sem[p].value
      PROVE  PhiAt(p)'
  <2>1. CASE half = "sema"
    BY <1>1, <1>2, <1>3, <2>1 DEF PhiAt, SemaAt, Plain, SemaPlace, Both
  <2>2. CASE half # "sema"
    BY <1>1, <1>2, <1>3, <2>2 DEF PhiAt, CondAt, Plain, MonitorPlace, Both
  <2> QED BY <2>1, <2>2
<1>4. CASE DownTakes(p, mutex, l)
  <2>1. /\ Base' /\ at' = [at EXCEPT ![p] = l] /\ phase' = phase
        /\ \A q \in Thread : Served(q)' <=> Served(q)
        /\ sem[mutex].value > 0 /\ sem'[mutex].value = sem[mutex].value - 1
        /\ \A n \in Sem \ {mutex} : sem'[n].value = sem[n].value
    BY <1>1, <1>4, TakesUnit
  <2>2. at'[p] = l /\ \A q \in Thread \ {p} : at'[q] = at[q]
    BY <1>1, <2>1
  <2>3. Has(p)'
    BY <2>2 DEF Has
  <2>4. One'
    BY <1>1, <2>1, <2>2, <2>3, HasStays, OneTaken
  <2> QED BY <1>1, <1>3, <2>1, <2>2, <2>4, Kept
<1>5. CASE DownSleeps(p, mutex)
  <2>1. /\ Base' /\ at' = at /\ Runs(p) /\ phase' = [phase EXCEPT ![p] = "sleeps"]
        /\ \A n \in Sem : sem'[n].value = sem[n].value
        /\ ~Served(p)' /\ \A q \in Thread \ {p} : Served(q)' <=> Served(q)
    BY <1>1, <1>5, Queues
  <2>2. ~Served(p)
    BY <2>1 DEF Served, Runs
  <2>3. One'
    BY <1>1, <2>1, <2>2, HasStays, OneSame
  <2>4. \A q \in Thread \ {p} : at'[q] = at[q] /\ phase'[q] = phase[q]
    BY <1>1, <2>1
  <2> QED BY <1>1, <1>3, <2>1, <2>3, <2>4, Kept
<1>6. CASE DownWoken(p, mutex, l)
  <2>1. /\ Base' /\ Served(p) /\ at' = [at EXCEPT ![p] = l] /\ sem' = sem
        /\ phase' = [phase EXCEPT ![p] = "runs"]
        /\ \A q \in Thread \ {p} : Served(q)' <=> Served(q)
    BY <1>1, <1>6, Continues
  <2>2. at'[p] = l /\ \A q \in Thread \ {p} : at'[q] = at[q] /\ phase'[q] = phase[q]
    BY <1>1, <2>1
  <2>3. Has(p) /\ Has(p)'
    BY <1>1, <2>1, <2>2 DEF Has
  <2>4. One'
    BY <1>1, <2>1, <2>2, <2>3, HasStays, OneSame
  <2> QED BY <1>1, <1>3, <2>1, <2>2, <2>4, Kept
<1> QED BY <1>4, <1>5, <1>6 DEF Down

(* schedule() and the timer interrupt.                                     *)
LEMMA Rests ==
  ASSUME IInv, UNCHANGED locals, (\E p \in Thread : Block(p)) \/ IdleLoop \/ Tick
  PROVE  IInv'
<1>1. Base /\ One
  BY DEF IInv
<1>2. /\ Base' /\ at' = at /\ sem' = sem
      /\ \A q \in Thread : /\ phase'[q] = "runs" <=> phase[q] = "runs"
                           /\ Served(q)' <=> Served(q)
  <2>1. CASE Tick
    BY <1>1, <2>1, Ticked1
  <2>2. CASE (\E p \in Thread : Block(p)) \/ IdleLoop
    BY <1>1, <2>2, Switches DEF Block, IdleLoop
  <2> QED BY <2>1, <2>2
<1>3. One'
  BY <1>1, <1>2, HasStays, OneSame
<1>4. PICK p \in Thread : TRUE
  BY Consts
<1>5. /\ half' = half /\ state_sema' = state_sema /\ state_condvar' = state_condvar
      /\ count' = count /\ caller' = caller
  BY DEF locals, others, monitor
<1>6. PhiAt(p)'
  BY <1>2, <1>5, PhiStays DEF IInv, Table
<1> QED BY <1>2, <1>3, <1>6, Kept

LEMMA Quits ==
  ASSUME IInv, UNCHANGED locals, NEW p \in Thread, at[p] = "quit", Quit(p, "over")
  PROVE  IInv'
<1>1. Base /\ One /\ PhiAt(p) /\ at \in [Thread -> Place]
  BY Types DEF IInv, Table
<1>2. /\ Base' /\ at' = [at EXCEPT ![p] = "over"] /\ sem' = sem /\ phase' = phase
      /\ \A q \in Thread : Served(q)' <=> Served(q)
  BY <1>1, Ends
<1>3. at'[p] = "over" /\ \A q \in Thread \ {p} : at'[q] = at[q]
  BY <1>1, <1>2
<1>4. One'
  <2>1. ~Has(p) /\ ~Has(p)'
    BY <1>3 DEF Has
  <2> QED BY <1>1, <1>2, <1>3, <2>1, HasStays, OneSame
<1>5. /\ half' = half /\ state_sema' = state_sema /\ state_condvar' = state_condvar
      /\ count' = count /\ caller' = caller
  BY DEF locals, others, monitor
<1>6. PhiAt(p)'
  <2>1. CASE half = "sema"
    BY <1>1, <1>2, <1>3, <1>5, <2>1 DEF PhiAt, SemaAt, Plain, SemaPlace, Both
  <2>2. CASE half # "sema"
    BY <1>1, <1>2, <1>3, <1>5, <2>2 DEF PhiAt, CondAt, Plain, MonitorPlace, Both
  <2> QED BY <2>1, <2>2
<1> QED BY <1>2, <1>3, <1>4, <1>6, Kept

(* A step in which some philosophers change and the others do not.         *)
LEMMA Framed ==
  ASSUME IInv, Base', One', Local', half' = half,
         NEW S \in SUBSET Thread, \A q \in S : PhiAt(q)',
         \A q \in Thread \ S :
           /\ at'[q] = at[q] /\ (phase'[q] = "runs" <=> phase[q] = "runs")
           /\ sem'[q].value = sem[q].value
           /\ at[q] \in {"get", "asleep"} => (Served(q)' <=> Served(q))
           /\ state_sema'[q] = state_sema[q] /\ state_condvar'[q] = state_condvar[q]
           /\ count'[q] = count[q] /\ caller'[q] = caller[q],
         sem'[next].value = sem[next].value,
         Neighbours(state_sema'), Neighbours(state_condvar'),
         half = "sema" => UNCHANGED monitor,
         half = "condvar" => next_count' = Cardinality(Signallers')
  PROVE  IInv'
<1>1. \A q \in Thread \ S : PhiAt(q)'
  BY PhiStays DEF IInv, Table
<1>2. half' = "sema" => MonitorInit'
  BY DEF IInv, Table, MonitorInit, monitor
<1>3. sem'[next].value = 0 /\ Neighbours(state_sema)' /\ Neighbours(state_condvar)'
  BY DEF IInv, Table, Neighbours
<1>4. Table'
  BY <1>1, <1>2, <1>3 DEF Table
<1> QED BY <1>4 DEF IInv

-----------------------------------------------------------------------------
(* The philosophers with semaphores.                                       *)
LEMMA SemaFacts ==
  ASSUME IInv, half = "sema", NEW p \in Thread
  PROVE  /\ Base /\ One /\ SemaAt(p) /\ PhiAt(p) /\ Local /\ p \in Sem /\ p # mutex
         /\ at \in [Thread -> Place] /\ phase \in [Thread -> Phase]
         /\ state_sema \in [Thread -> Mood]
         /\ Neighbours(state_sema) /\ Neighbours(state_condvar)
BY Types, Consts DEF IInv, Table, PhiAt, Local

LEMMA BecomesSemaKeeps ==
  ASSUME IInv, half = "sema", NEW p \in Thread, NEW s, NEW l, BecomesSema(p, s, l),
         \/ at[p] = "hungry" /\ s = "HUNGRY" /\ l = "test"
         \/ at[p] = "full" /\ s = "THINKING" /\ l = "left"
  PROVE  IInv'
<1>1. /\ Base /\ One /\ SemaAt(p) /\ Local /\ Runs(p) /\ phase[p] = "runs" /\ at[p] # "over"
      /\ at \in [Thread -> Place] /\ state_sema \in [Thread -> Mood]
      /\ l \in Place \ {"over"} /\ s \in Mood \ {"EATING"}
      /\ Neighbours(state_sema) /\ Neighbours(state_condvar)
  BY SemaFacts DEF BecomesSema, Runs, Mood, Place, SemaPlace, Both
<1>2. /\ state_sema' = [state_sema EXCEPT ![p] = s] /\ half' = half /\ sem' = sem
      /\ phase' = phase /\ UNCHANGED monitor /\ iter' = iter /\ GoesTo(p, l)
      /\ UNCHANGED <<k, timers, sem, phase>>
  BY DEF BecomesSema
<1>3. /\ Base' /\ at' = [at EXCEPT ![p] = l] /\ \A q \in Thread : Served(q)' <=> Served(q)
  BY <1>1, <1>2, Moves
<1>4. at'[p] = l /\ \A q \in Thread \ {p} : at'[q] = at[q]
  BY <1>1, <1>3
<1>5. One'
  <2>1. Has(p) /\ Has(p)'
    BY <1>4 DEF Has
  <2> QED BY <1>1, <1>2, <1>3, <1>4, <2>1, HasStays, OneSame
<1>6. /\ state_sema'[p] = s /\ \A q \in Thread \ {p} : state_sema'[q] = state_sema[q]
      /\ state_sema' \in [Thread -> Mood] /\ Neighbours(state_sema')
  BY <1>1, <1>2, LaysNot
<1>7. /\ state_condvar' = state_condvar /\ count' = count /\ caller' = caller
      /\ next_count' = next_count
  BY <1>2 DEF monitor
<1>8. Local'
  BY <1>1, <1>2, <1>6, <1>7 DEF Local
<1>9. PhiAt(p)'
  BY <1>1, <1>2, <1>4, <1>6 DEF PhiAt, SemaAt, Plain, SemaPlace, Both
<1>10. {p} \in SUBSET Thread /\ \A q \in {p} : PhiAt(q)'
  BY <1>9
<1>11. \A q \in Thread \ {p} : q \in Thread /\ q # p
  OBVIOUS
<1> QED BY <1>1, <1>2, <1>3, <1>4, <1>5, <1>6, <1>7, <1>8, <1>10, <1>11, Framed

(* A hungry neighbour that may eat waits for its semaphore, and is handed  *)
(* its forks; only one that tests for itself finds nobody in the line.     *)
LEMMA TestSemaKeeps ==
  ASSUME IInv, half = "sema", NEW p \in Thread, NEW j \in Thread, NEW l, TestSema(p, j, l),
         \/ at[p] = "test" /\ j = p /\ l = "unlock"
         \/ at[p] = "left" /\ j # p /\ l = "right"
         \/ at[p] = "right" /\ j # p /\ l = "done"
  PROVE  IInv'
<1>1. /\ Base /\ One /\ SemaAt(p) /\ Local /\ Runs(p) /\ phase[p] = "runs" /\ at[p] # "over"
      /\ at \in [Thread -> Place] /\ phase \in [Thread -> Phase]
      /\ state_sema \in [Thread -> Mood] /\ p \in Sem /\ p # mutex
      /\ l \in Place \ {"over"} /\ Neighbours(state_sema) /\ Neighbours(state_condvar)
      /\ SemaAt(j) /\ j \in Sem /\ j # mutex /\ j # next /\ mutex \in Sem /\ next \in Sem
  BY SemaFacts, Consts DEF TestSema, Up, Runs, Place, SemaPlace, Both
<1>2. half' = half /\ UNCHANGED monitor /\ iter' = iter
  BY DEF TestSema
<1>3. /\ state_condvar' = state_condvar /\ count' = count /\ caller' = caller
      /\ next_count' = next_count
  BY <1>2 DEF monitor
<1>4. Has(p) /\ ~Served(p)
  BY <1>1 DEF Has, Served
<1>5. CASE ~MayEatSema(j)
  <2>1. /\ GoesTo(p, l) /\ state_sema' = state_sema /\ UNCHANGED <<k, timers, sem, phase>>
    BY <1>5 DEF TestSema
  <2>2. /\ Base' /\ at' = [at EXCEPT ![p] = l] /\ \A q \in Thread : Served(q)' <=> Served(q)
    BY <1>1, <2>1, Moves
  <2>3. /\ at'[p] = l /\ sem' = sem /\ phase' = phase
        /\ \A q \in Thread \ {p} : at'[q] = at[q]
    BY <1>1, <2>1, <2>2
  <2>4. One'
    <3>1. Has(p)'
      BY <2>3 DEF Has
    <3> QED BY <1>1, <1>4, <2>2, <2>3, <3>1, HasStays, OneSame
  <2>5. Local'
    BY <1>1, <1>2, <1>3, <2>1 DEF Local
  <2>6. SemaAt(p)'
    BY <1>1, <2>1, <2>3 DEF SemaAt, Plain, SemaPlace, Both
  <2>7. PhiAt(p)'
    BY <1>2, <2>6 DEF PhiAt
  <2>8. {p} \in SUBSET Thread /\ \A q \in {p} : PhiAt(q)'
    BY <2>7
  <2> QED BY <1>1, <1>2, <1>3, <2>1, <2>2, <2>3, <2>4, <2>5, <2>8, Framed
<1>6. CASE MayEatSema(j)
  <2>1. /\ state_sema' = [state_sema EXCEPT ![j] = "EATING"] /\ Up(p, j, l)
        /\ state_sema[j] = "HUNGRY"
        /\ state_sema[LEFT(j)] # "EATING" /\ state_sema[RIGHT(j)] # "EATING"
    BY <1>6 DEF TestSema, MayEatSema
  <2>2. /\ state_sema'[j] = "EATING" /\ \A q \in Thread \ {j} : state_sema'[q] = state_sema[q]
        /\ state_sema' \in [Thread -> Mood] /\ Neighbours(state_sema')
    BY <1>1, <2>1, Lays DEF Mood
  <2>3. Local'
    BY <1>1, <1>2, <1>3, <2>2 DEF Local
  <2>4. CASE j = p
    <3>1. sem[j].queue = <<>>
      BY <1>1, <2>4, OwnLine
    <3>2. at[p] = "test" /\ l = "unlock"
      BY <2>4
    <3>3. /\ Base' /\ at' = [at EXCEPT ![p] = l] /\ phase' = phase
          /\ \A q \in Thread : Served(q)' <=> Served(q)
          /\ sem'[j].value = sem[j].value + 1
          /\ \A n \in Sem \ {j} : sem'[n].value = sem[n].value
      BY <1>1, <2>1, <3>1, Returns
    <3>4. at'[p] = "unlock" /\ \A q \in Thread \ {p} : at'[q] = at[q]
      BY <1>1, <3>2, <3>3
    <3>5. One'
      <4>1. Has(p)'
        BY <3>4 DEF Has
      <4> QED BY <1>1, <1>4, <3>3, <3>4, <4>1, HasStays, OneSame
    <3>6. SemaAt(p)'
      BY <1>1, <2>2, <2>4, <3>2, <3>3, <3>4 DEF SemaAt, Plain, SemaPlace, Both
    <3>7. PhiAt(p)'
      BY <1>2, <3>6 DEF PhiAt
    <3>8. \A q \in Thread \ {p} : sem'[q].value = sem[q].value
      BY <2>4, <3>3, Consts
    <3>9. {p} \in SUBSET Thread /\ \A q \in {p} : PhiAt(q)'
      BY <3>7
    <3> QED BY <1>1, <1>2, <1>3, <2>2, <2>3, <2>4, <3>3, <3>4, <3>5, <3>8, <3>9, Framed
  <2>5. CASE j # p
    <3>1. at[p] \in {"left", "right"} /\ l \in {"right", "done"}
      BY <2>5
    <3>2. ~Has(j)
      BY <1>1, <1>4, <2>5 DEF One
    <3>3. at[j] \in {"test", "unlock", "get"}
      BY <1>1, <2>1 DEF SemaAt, Plain, SemaPlace, Both
    <3>4. at[j] = "get"
      BY <3>2, <3>3 DEF Has
    <3>5. phase[j] # "runs"
      BY <1>1, <2>5, <3>4, Current
    <3>6. ~Served(j)
      BY <1>1, <2>1, <3>4, <3>5 DEF SemaAt
    <3>7. InLine(j, j)
      <4>1. InLine(j, DownOf(j))
        BY <1>1, <2>5, <3>4, <3>6, Stands DEF Downs
      <4> QED BY <3>4, <4>1 DEF DownOf
    <3>8. sem[j].queue # <<>>
      BY <1>1, <3>7, Line
    <3>9. /\ Base' /\ at' = [at EXCEPT ![p] = l] /\ phase' = phase
          /\ \A n \in Sem : sem'[n].value = sem[n].value
      BY <1>1, <2>1, <3>8, Hands
    <3>10. PICK w \in Thread \ {p} :
             /\ InLine(w, j) /\ Served(w)'
             /\ \A q \in Thread \ {w} : Served(q)' <=> Served(q)
      BY <1>1, <2>1, <3>8, Hands
    <3>11. w = j
      BY <1>1, <3>10, Line
    <3>12. at'[p] = l /\ at'[j] = "get" /\ \A q \in Thread \ {p} : at'[q] = at[q]
      BY <1>1, <2>5, <3>4, <3>9
    <3>13. One'
      <4>1. Has(p)' /\ ~Has(j)'
        BY <3>1, <3>12 DEF Has
      <4>2. \A q \in Thread : Has(q)' <=> Has(q)
        BY <1>4, <3>2, <3>10, <3>11, <3>12, <4>1, HasStays
      <4> QED BY <1>1, <3>9, <4>2, OneSame
    <3>14. SemaAt(p)'
      BY <1>1, <2>2, <2>5, <3>1, <3>9, <3>12 DEF SemaAt, Plain, SemaPlace, Both
    <3>15. SemaAt(j)'
      BY <1>1, <2>2, <3>4, <3>5, <3>9, <3>10, <3>11, <3>12 DEF SemaAt, Plain, SemaPlace, Both
    <3>16. PhiAt(p)' /\ PhiAt(j)'
      BY <1>2, <3>14, <3>15 DEF PhiAt
    <3>17. \A q \in Thread \ {p, j} : Served(q)' <=> Served(q)
      BY <3>10, <3>11
    <3>18. \A q \in Thread : sem'[q].value = sem[q].value
      BY <3>9, Consts
    <3>19. {p, j} \in SUBSET Thread /\ \A q \in {p, j} : PhiAt(q)'
      BY <3>16
    <3> QED BY <1>1, <1>2, <1>3, <2>2, <2>3, <3>9, <3>12, <3>13, <3>17, <3>18, <3>19, Framed
  <2> QED BY <2>4, <2>5
<1> QED BY <1>5, <1>6

LEMMA UnlockSemaKeeps ==
  ASSUME IInv, half = "sema", NEW p \in Thread, UnlockSema(p)
  PROVE  IInv'
<1>1. /\ at[p] = "unlock" /\ Up(p, mutex, "get") /\ UNCHANGED locals /\ SemaAt(p)
      /\ p \in Sem /\ p # mutex /\ at \in [Thread -> Place]
  BY SemaFacts DEF UnlockSema
<1>2. /\ half' = half /\ state_sema' = state_sema
  BY <1>1 DEF locals, others
<1>3. Has(p)
  BY <1>1 DEF Has
<1>4. /\ Base' /\ One' /\ at' = [at EXCEPT ![p] = "get"] /\ phase' = phase
      /\ phase[p] = "runs" /\ \A n \in Sem \ {mutex} : sem'[n].value = sem[n].value
      /\ \A q \in Thread \ {p} : at[q] \in {"get", "asleep"} => (Served(q)' <=> Served(q))
  BY <1>1, <1>3, Consts, Leaves
<1>5. at'[p] = "get" /\ \A q \in Thread \ {p} : at'[q] = at[q]
  BY <1>1, <1>4
<1>6. sem'[p].value = sem[p].value
  BY <1>1, <1>4
<1>7. SemaAt(p)'
  BY <1>1, <1>2, <1>4, <1>5, <1>6 DEF SemaAt, Plain, SemaPlace, Both
<1>8. PhiAt(p)'
  BY <1>2, <1>7 DEF PhiAt
<1> QED BY <1>1, <1>4, <1>5, <1>8, Kept

LEMMA DoneSemaKeeps ==
  ASSUME IInv, half = "sema", NEW p \in Thread, DoneSema(p)
  PROVE  IInv'
<1> DEFINE l == IF iter[p] < Times THEN "think" ELSE "quit"
<1>1. /\ at[p] = "done" /\ Up(p, mutex, l) /\ iter' = [iter EXCEPT ![p] = @ + 1]
      /\ half' = half /\ state_sema' = state_sema /\ UNCHANGED monitor
      /\ SemaAt(p) /\ p \in Sem /\ p # mutex /\ next # mutex /\ next \in Sem
      /\ at \in [Thread -> Place] /\ Local
      /\ Neighbours(state_sema) /\ Neighbours(state_condvar)
  BY SemaFacts, Consts DEF DoneSema, Dined
<1>2. /\ state_condvar' = state_condvar /\ count' = count /\ caller' = caller
      /\ next_count' = next_count
  BY <1>1 DEF monitor
<1>3. Has(p) /\ l \in {"think", "quit"}
  BY <1>1 DEF Has
<1> HIDE DEF l
<1>4. /\ Base' /\ One' /\ at' = [at EXCEPT ![p] = l] /\ phase' = phase
      /\ phase[p] = "runs" /\ \A n \in Sem \ {mutex} : sem'[n].value = sem[n].value
      /\ \A q \in Thread \ {p} : at[q] \in {"get", "asleep"} => (Served(q)' <=> Served(q))
  BY <1>1, <1>3, Consts, Leaves
<1>5. /\ at'[p] = l /\ \A q \in Thread \ {p} : at'[q] = at[q]
      /\ \A q \in Thread : sem'[q].value = sem[q].value
  BY <1>1, <1>4, Consts
<1>6. Local'
  <2>1. iter' \in [Thread -> Nat]
    BY <1>1 DEF Local
  <2> QED BY <1>1, <1>2, <2>1 DEF Local
<1>7. at'[p] \in {"think", "quit"}
  BY <1>3, <1>5
<1>8. SemaAt(p)'
  BY <1>1, <1>4, <1>5, <1>7 DEF SemaAt, Plain, SemaPlace, Both
<1>9. {p} \in SUBSET Thread /\ \A q \in {p} : PhiAt(q)'
  BY <1>1, <1>8 DEF PhiAt
<1> QED BY <1>1, <1>2, <1>4, <1>5, <1>6, <1>9, Framed

(* down of the philosopher's own semaphore: it has its forks, or waits.    *)
LEMMA GetSemaKeeps ==
  ASSUME IInv, half = "sema", NEW p \in Thread, GetSema(p)
  PROVE  IInv'
<1>1. /\ at[p] = "get" /\ Down(p, p, "eat") /\ UNCHANGED locals /\ Base /\ One /\ SemaAt(p)
      /\ p \in Sem /\ p # mutex /\ mutex \in Sem /\ at \in [Thread -> Place]
      /\ phase \in [Thread -> Phase] /\ state_sema[p] \in Mood
      /\ "eat" \in Place \ {"over"} /\ at[p] \in Downs /\ at[p] # "over" /\ p = DownOf(p)
  BY SemaFacts, Consts DEF GetSema, Downs, DownOf, Place, SemaPlace, Both
<1>2. /\ half' = half /\ state_sema' = state_sema
  BY <1>1 DEF locals, others
<1>3. ~Has(p)
  BY <1>1 DEF Has
<1>4. CASE DownTakes(p, p, "eat")
  <2>1. /\ Base' /\ at' = [at EXCEPT ![p] = "eat"] /\ phase' = phase
        /\ \A q \in Thread : Served(q)' <=> Served(q)
        /\ sem[p].value > 0 /\ sem'[p].value = sem[p].value - 1
        /\ \A n \in Sem \ {p} : sem'[n].value = sem[n].value
    BY <1>1, <1>4, TakesUnit
  <2>2. at'[p] = "eat" /\ \A q \in Thread \ {p} : at'[q] = at[q]
    BY <1>1, <2>1
  <2>3. ~Has(p)'
    BY <2>2 DEF Has
  <2>4. One'
    BY <1>1, <1>3, <2>1, <2>2, <2>3, HasStays, OneSame
  <2>5. sem[p].value = 1 /\ state_sema[p] = "EATING" /\ sem'[p].value = 0
    BY <1>1, <2>1 DEF SemaAt
  <2>6. SemaAt(p)'
    BY <1>2, <2>2, <2>5 DEF SemaAt, Plain, SemaPlace, Both
  <2>7. PhiAt(p)'
    BY <1>2, <2>6 DEF PhiAt
  <2> QED BY <1>1, <2>1, <2>2, <2>4, <2>7, Kept
<1>5. CASE DownSleeps(p, p)
  <2>1. /\ Base' /\ at' = at /\ Runs(p) /\ phase' = [phase EXCEPT ![p] = "sleeps"]
        /\ sem[p].value = 0 /\ \A n \in Sem : sem'[n].value = sem[n].value
        /\ ~Served(p)' /\ \A q \in Thread \ {p} : Served(q)' <=> Served(q)
    BY <1>1, <1>5, Queues
  <2>2. /\ phase[p] = "runs" /\ phase'[p] = "sleeps"
        /\ \A q \in Thread \ {p} : phase'[q] = phase[q]
    BY <1>1, <2>1 DEF Runs
  <2>3. ~Has(p)'
    BY <1>1, <2>1 DEF Has
  <2>4. One'
    BY <1>1, <1>3, <2>1, <2>3, HasStays, OneSame
  <2>5. state_sema[p] = "HUNGRY"
    BY <1>1, <2>1, <2>2 DEF SemaAt, Mood
  <2>6. SemaAt(p)'
    BY <1>1, <1>2, <2>1, <2>2, <2>5 DEF SemaAt, Plain, SemaPlace, Both
  <2>7. PhiAt(p)'
    BY <1>2, <2>6 DEF PhiAt
  <2> QED BY <1>1, <2>1, <2>2, <2>4, <2>7, Kept
<1>6. CASE DownWoken(p, p, "eat")
  <2>1. /\ Base' /\ Served(p) /\ at' = [at EXCEPT ![p] = "eat"] /\ sem' = sem
        /\ phase' = [phase EXCEPT ![p] = "runs"]
        /\ \A q \in Thread \ {p} : Served(q)' <=> Served(q)
    BY <1>1, <1>6, Continues
  <2>2. /\ at'[p] = "eat" /\ \A q \in Thread \ {p} : at'[q] = at[q] /\ phase'[q] = phase[q]
    BY <1>1, <2>1
  <2>3. ~Has(p)'
    BY <2>2 DEF Has
  <2>4. One'
    BY <1>1, <1>3, <2>1, <2>2, <2>3, HasStays, OneSame
  <2>5. state_sema[p] = "EATING" /\ sem[p].value = 0
    BY <1>1, <2>1 DEF SemaAt, Served
  <2>6. SemaAt(p)'
    BY <1>2, <2>1, <2>2, <2>5 DEF SemaAt, Plain, SemaPlace, Both
  <2>7. PhiAt(p)'
    BY <1>2, <2>6 DEF PhiAt
  <2> QED BY <1>1, <2>1, <2>2, <2>4, <2>7, Kept
<1> QED BY <1>1, <1>4, <1>5, <1>6 DEF Down

-----------------------------------------------------------------------------
(* The philosophers with the monitor.                                      *)
LEMMA CondFacts ==
  ASSUME IInv, half = "condvar", NEW p \in Thread
  PROVE  /\ Base /\ One /\ CondAt(p) /\ PhiAt(p) /\ Local /\ p \in Sem /\ p # mutex /\ p # next
         /\ mutex \in Sem /\ next \in Sem /\ next # mutex /\ sem[next].value = 0
         /\ at \in [Thread -> Place] /\ phase \in [Thread -> Phase]
         /\ state_condvar \in [Thread -> Mood]
         /\ count \in [Thread -> Nat] /\ next_count \in Nat
         /\ Neighbours(state_sema) /\ Neighbours(state_condvar)
         /\ next_count = Cardinality(Signallers)
BY Types, Consts DEF IInv, Table, PhiAt, Local

(* The count of those on next.                                             *)
LEMMA SignallersFinite ==
  IsFiniteSet(Signallers) /\ Cardinality(Signallers) \in Nat
<1>1. IsFiniteSet(Thread)
  BY Consts, FS_Interval
<1>2. IsFiniteSet(Signallers)
  BY <1>1, FS_Subset DEF Signallers
<1> QED BY <1>2, FS_CardinalityType

(* A step of the program outside of the semaphore operations.              *)
LEMMA CondMoves ==
  ASSUME IInv, half = "condvar", NEW p \in Thread, Runs(p), Has(p),
         NEW l \in MonitorPlace \ {"over"}, GoesTo(p, l), UNCHANGED <<k, timers, sem, phase>>,
         l \in {"self", "tested", "wait", "exit", "left", "right", "done"}, at[p] # "over"
  PROVE  /\ Base' /\ One' /\ at'[p] = l /\ \A q \in Thread \ {p} : at'[q] = at[q]
         /\ \A q \in Thread : Served(q)' <=> Served(q)
         /\ sem' = sem /\ phase' = phase
<1>1. Base /\ One /\ at \in [Thread -> Place] /\ l \in Place \ {"over"}
  BY CondFacts DEF Place
<1>2. /\ Base' /\ at' = [at EXCEPT ![p] = l] /\ \A q \in Thread : Served(q)' <=> Served(q)
  BY <1>1, Moves
<1>3. at'[p] = l /\ \A q \in Thread \ {p} : at'[q] = at[q]
  BY <1>1, <1>2
<1>4. Has(p)'
  BY <1>3 DEF Has
<1>5. One'
  BY <1>1, <1>2, <1>3, <1>4, HasStays, OneSame
<1> QED BY <1>2, <1>3, <1>5

LEMMA BecomesKeeps ==
  ASSUME IInv, half = "condvar", NEW p \in Thread, NEW s, NEW l, Becomes(p, s, l),
         \/ at[p] = "hungry" /\ s = "HUNGRY" /\ l = "self"
         \/ at[p] = "full" /\ s = "THINKING" /\ l = "left"
  PROVE  IInv'
<1>1. /\ CondAt(p) /\ Local /\ Runs(p) /\ Has(p) /\ at[p] # "over"
      /\ state_condvar \in [Thread -> Mood] /\ Neighbours(state_sema)
      /\ Neighbours(state_condvar) /\ s \in Mood \ {"EATING"} /\ l \in MonitorPlace \ {"over"}
      /\ next_count = Cardinality(Signallers)
  BY CondFacts DEF Becomes, Has, Mood, MonitorPlace, Both
<1>2. /\ GoesTo(p, l) /\ UNCHANGED <<k, timers, sem, phase>>
      /\ state_condvar' = [state_condvar EXCEPT ![p] = s]
      /\ half' = half /\ state_sema' = state_sema /\ next_count' = next_count
      /\ count' = count /\ caller' = caller /\ iter' = iter
  BY DEF Becomes, others
<1>3. /\ Base' /\ One' /\ at'[p] = l /\ (\A q \in Thread \ {p} : at'[q] = at[q])
      /\ (\A q \in Thread : Served(q)' <=> Served(q)) /\ sem' = sem /\ phase' = phase
  BY <1>1, <1>2, CondMoves
<1>4. /\ state_condvar'[p] = s /\ \A q \in Thread \ {p} : state_condvar'[q] = state_condvar[q]
      /\ state_condvar' \in [Thread -> Mood] /\ Neighbours(state_condvar')
  BY <1>1, <1>2, LaysNot
<1>5. Local'
  BY <1>1, <1>2, <1>4 DEF Local
<1>6. Signallers' = Signallers
  BY <1>3 DEF Signallers
<1>7. CondAt(p)'
  BY <1>1, <1>2, <1>3, <1>4 DEF CondAt, Plain, MonitorPlace, Both
<1>8. {p} \in SUBSET Thread /\ \A q \in {p} : PhiAt(q)'
  BY <1>2, <1>7 DEF PhiAt
<1> QED BY <1>1, <1>2, <1>3, <1>4, <1>5, <1>6, <1>8, Framed

LEMMA TestedKeeps ==
  ASSUME IInv, half = "condvar", NEW p \in Thread, Tested(p)
  PROVE  IInv'
<1> DEFINE l == IF state_condvar[p] = "HUNGRY" THEN "wait" ELSE "exit"
<1>1. /\ CondAt(p) /\ Runs(p) /\ Has(p) /\ at[p] = "tested"
      /\ state_condvar[p] \in Mood /\ l \in {"wait", "exit"}
      /\ GoesTo(p, l) /\ UNCHANGED <<k, timers, sem, phase>> /\ UNCHANGED locals
  BY CondFacts DEF Tested, Has
<1>2. /\ half' = half /\ state_condvar' = state_condvar /\ count' = count
  BY <1>1 DEF locals, others, monitor
<1>3. l = "wait" => state_condvar[p] = "HUNGRY"
  OBVIOUS
<1>4. l = "exit" => state_condvar[p] = "EATING"
  BY <1>1 DEF CondAt, Mood
<1> HIDE DEF l
<1>5. /\ Base' /\ One' /\ at'[p] = l /\ (\A q \in Thread \ {p} : at'[q] = at[q])
      /\ (\A q \in Thread : Served(q)' <=> Served(q)) /\ sem' = sem /\ phase' = phase
  <2>1. l \in MonitorPlace \ {"over"}
    BY <1>1 DEF MonitorPlace
  <2> QED BY <1>1, <2>1, CondMoves
<1>6. CondAt(p)'
  BY <1>1, <1>2, <1>3, <1>4, <1>5 DEF CondAt, Plain, MonitorPlace, Both
<1>7. PhiAt(p)'
  BY <1>2, <1>6 DEF PhiAt
<1> QED BY <1>1, <1>5, <1>7, Kept

LEMMA WaitEndsKeeps ==
  ASSUME IInv, half = "condvar", NEW p \in Thread, WaitEnds(p)
  PROVE  IInv'
<1>1. /\ CondAt(p) /\ Local /\ Runs(p) /\ Has(p) /\ at[p] = "awake"
      /\ GoesTo(p, "exit") /\ UNCHANGED <<k, timers, sem, phase>>
      /\ count \in [Thread -> Nat] /\ count' = [count EXCEPT ![p] = @ - 1]
      /\ half' = half /\ state_sema' = state_sema /\ next_count' = next_count
      /\ state_condvar' = state_condvar /\ caller' = caller /\ iter' = iter
      /\ Neighbours(state_sema) /\ Neighbours(state_condvar)
      /\ next_count = Cardinality(Signallers)
  BY CondFacts DEF WaitEnds, Uncount, Has, others
<1>2. /\ Base' /\ One' /\ at'[p] = "exit" /\ (\A q \in Thread \ {p} : at'[q] = at[q])
      /\ (\A q \in Thread : Served(q)' <=> Served(q)) /\ sem' = sem /\ phase' = phase
  <2>1. "exit" \in MonitorPlace \ {"over"}
    BY DEF MonitorPlace
  <2> QED BY <1>1, <2>1, CondMoves
<1>3. /\ count[p] = 1 /\ count'[p] = 0 /\ count' \in [Thread -> Nat]
      /\ \A q \in Thread \ {p} : count'[q] = count[q]
  BY <1>1 DEF CondAt
<1>4. Local'
  BY <1>1, <1>3 DEF Local
<1>5. Signallers' = Signallers
  BY <1>1, <1>2 DEF Signallers
<1>6. CondAt(p)'
  BY <1>1, <1>2, <1>3 DEF CondAt, Plain, MonitorPlace, Both
<1>7. {p} \in SUBSET Thread /\ \A q \in {p} : PhiAt(q)'
  BY <1>1, <1>6 DEF PhiAt
<1> QED BY <1>1, <1>2, <1>3, <1>4, <1>5, <1>7, Framed

LEMMA SignalEndsKeeps ==
  ASSUME IInv, half = "condvar", NEW p \in Thread, SignalEnds(p)
  PROVE  IInv'
<1> DEFINE l == caller[p]
<1>1. /\ CondAt(p) /\ Local /\ Runs(p) /\ Has(p) /\ at[p] = "signalled"
      /\ GoesTo(p, l) /\ UNCHANGED <<k, timers, sem, phase>>
      /\ next_count' = next_count - 1 /\ l \in {"right", "done"}
      /\ half' = half /\ state_sema' = state_sema /\ count' = count
      /\ state_condvar' = state_condvar /\ caller' = caller /\ iter' = iter
      /\ Neighbours(state_sema) /\ Neighbours(state_condvar)
      /\ next_count = Cardinality(Signallers)
  BY CondFacts DEF SignalEnds, Has, others, CondAt
<1> HIDE DEF l
<1>2. /\ Base' /\ One' /\ at'[p] = l /\ (\A q \in Thread \ {p} : at'[q] = at[q])
      /\ (\A q \in Thread : Served(q)' <=> Served(q)) /\ sem' = sem /\ phase' = phase
  <2>1. l \in MonitorPlace \ {"over"}
    BY <1>1 DEF MonitorPlace, Both
  <2> QED BY <1>1, <2>1, CondMoves
<1>3. Signallers' = Signallers \ {p} /\ p \in Signallers
  BY <1>1, <1>2 DEF Signallers
<1>4. next_count' = Cardinality(Signallers') /\ next_count' \in Nat
  <2>1. Cardinality(Signallers') = Cardinality(Signallers) - 1
    BY <1>3, SignallersFinite, FS_RemoveElement
  <2>2. IsFiniteSet(Signallers') /\ Cardinality(Signallers') \in Nat
    BY <1>3, SignallersFinite, FS_RemoveElement, FS_CardinalityType
  <2> QED BY <1>1, <2>1, <2>2
<1>5. Local'
  BY <1>1, <1>4 DEF Local
<1>6. CondAt(p)'
  BY <1>1, <1>2 DEF CondAt, Plain, MonitorPlace, Both
<1>7. {p} \in SUBSET Thread /\ \A q \in {p} : PhiAt(q)'
  BY <1>1, <1>6 DEF PhiAt
<1> QED BY <1>1, <1>2, <1>4, <1>5, <1>7, Framed

(* The downs of cond_wait and cond_signal: nothing is saved in their       *)
(* semaphores, so that they wait until the monitor is handed to them.      *)
LEMMA DownKeeps ==
  ASSUME IInv, half = "condvar", NEW p \in Thread, NEW m \in {p, next}, NEW l,
         Down(p, m, l), UNCHANGED locals,
         \/ at[p] = "asleep" /\ m = p /\ l = "awake"
         \/ at[p] = "signal" /\ m = next /\ l = "signalled"
  PROVE  IInv'
<1>1. /\ Base /\ One /\ CondAt(p) /\ m \in Sem /\ sem[m].value = 0 /\ mutex \in Sem
      /\ at \in [Thread -> Place] /\ phase \in [Thread -> Phase]
      /\ at[p] \in Downs /\ at[p] # "over" /\ m = DownOf(p) /\ p \in Sem
      /\ l \in Place \ {"over"} /\ at[p] \in {"asleep", "signal"}
  BY CondFacts DEF CondAt, Downs, DownOf, Place, MonitorPlace
<1>2. /\ half' = half /\ state_condvar' = state_condvar /\ count' = count /\ caller' = caller
  BY DEF locals, others, monitor
<1>3. CASE DownTakes(p, m, l)
  BY <1>1, <1>3, TakesUnit
<1>4. CASE DownSleeps(p, m)
  <2>1. /\ Base' /\ at' = at /\ Runs(p) /\ phase' = [phase EXCEPT ![p] = "sleeps"]
        /\ \A n \in Sem : sem'[n].value = sem[n].value
        /\ ~Served(p)' /\ \A q \in Thread \ {p} : Served(q)' <=> Served(q)
    BY <1>1, <1>4, Queues
  <2>2. ~Served(p) /\ \A q \in Thread \ {p} : phase'[q] = phase[q]
    BY <1>1, <2>1 DEF Served, Runs
  <2>3. One'
    BY <1>1, <2>1, <2>2, HasStays, OneSame
  <2>4. CondAt(p)'
    BY <1>1, <1>2, <2>1, <2>2 DEF CondAt
  <2>5. PhiAt(p)'
    BY <1>2, <2>4 DEF PhiAt
  <2> QED BY <1>1, <2>1, <2>2, <2>3, <2>5, Kept
<1>5. CASE DownWoken(p, m, l)
  <2>1. /\ Base' /\ Served(p) /\ at' = [at EXCEPT ![p] = l] /\ sem' = sem
        /\ phase' = [phase EXCEPT ![p] = "runs"]
        /\ \A q \in Thread \ {p} : Served(q)' <=> Served(q)
    BY <1>1, <1>5, Continues
  <2>2. /\ at'[p] = l /\ \A q \in Thread \ {p} : at'[q] = at[q] /\ phase'[q] = phase[q]
    BY <1>1, <2>1
  <2>3. Has(p) /\ Has(p)'
    BY <1>1, <2>1, <2>2 DEF Has
  <2>4. One'
    BY <1>1, <2>1, <2>2, <2>3, HasStays, OneSame
  <2>5. CondAt(p)'
    BY <1>1, <1>2, <2>1, <2>2 DEF CondAt, Plain, MonitorPlace, Both
  <2>6. PhiAt(p)'
    BY <1>2, <2>5 DEF PhiAt
  <2> QED BY <1>1, <2>1, <2>2, <2>4, <2>6, Kept
<1> QED BY <1>3, <1>4, <1>5 DEF Down

(* The ups with which p leaves the monitor.                                *)
LEMMA ExitLeaves ==
  ASSUME IInv, half = "condvar", NEW p \in Thread, at[p] \in {"wait", "exit", "done"},
         NEW l \in {"think", "quit", "asleep", "eat"}, Up(p, Exit, l)
  PROVE  /\ Base' /\ One' /\ at'[p] = l /\ phase' = phase /\ phase[p] = "runs" /\ ~Served(p)'
         /\ sem'[next].value = sem[next].value
         /\ \A q \in Thread : sem'[q].value = sem[q].value
         /\ \A q \in Thread \ {p} :
              at'[q] = at[q] /\ (at[q] \in {"get", "asleep"} => (Served(q)' <=> Served(q)))
<1>1. Has(p) /\ at[p] \notin {"over", "signalled"} /\ at \in [Thread -> Place]
  BY CondFacts DEF Has
<1>2. Exit \in {mutex, next} /\ (Exit = next => half = "condvar" /\ next_count > 0)
  BY Consts DEF Exit
<1>3. /\ Base' /\ One' /\ at' = [at EXCEPT ![p] = l] /\ phase' = phase
      /\ phase[p] = "runs" /\ ~Served(p)'
      /\ \A n \in Sem \ {mutex} : sem'[n].value = sem[n].value
      /\ \A q \in Thread \ {p} : at[q] \in {"get", "asleep"} => (Served(q)' <=> Served(q))
  BY <1>1, <1>2, Leaves
<1>4. /\ sem'[next].value = sem[next].value
      /\ \A q \in Thread : sem'[q].value = sem[q].value
  BY <1>3, Consts
<1> QED BY <1>1, <1>3, <1>4

LEMMA WaitLeavesKeeps ==
  ASSUME IInv, half = "condvar", NEW p \in Thread, WaitLeaves(p)
  PROVE  IInv'
<1>1. /\ CondAt(p) /\ Local /\ at[p] = "wait" /\ Up(p, Exit, "asleep")
      /\ count \in [Thread -> Nat] /\ count' = [count EXCEPT ![p] = @ + 1]
      /\ half' = half /\ state_sema' = state_sema /\ next_count' = next_count
      /\ state_condvar' = state_condvar /\ caller' = caller /\ iter' = iter
      /\ Neighbours(state_sema) /\ Neighbours(state_condvar)
      /\ next_count = Cardinality(Signallers)
  BY CondFacts DEF WaitLeaves, others
<1>2. /\ Base' /\ One' /\ at'[p] = "asleep" /\ phase' = phase /\ ~Served(p)'
      /\ sem'[next].value = sem[next].value
      /\ \A q \in Thread : sem'[q].value = sem[q].value
      /\ \A q \in Thread \ {p} :
           at'[q] = at[q] /\ (at[q] \in {"get", "asleep"} => (Served(q)' <=> Served(q)))
  BY <1>1, ExitLeaves
<1>3. /\ count[p] = 0 /\ count'[p] = 1 /\ count' \in [Thread -> Nat]
      /\ \A q \in Thread \ {p} : count'[q] = count[q]
  BY <1>1 DEF CondAt
<1>4. Local'
  BY <1>1, <1>3 DEF Local
<1>5. Signallers' = Signallers
  BY <1>1, <1>2 DEF Signallers
<1>6. CondAt(p)'
  BY <1>1, <1>2, <1>3 DEF CondAt, Plain, MonitorPlace, Both
<1>7. {p} \in SUBSET Thread /\ \A q \in {p} : PhiAt(q)'
  BY <1>1, <1>6 DEF PhiAt
<1> QED BY <1>1, <1>2, <1>3, <1>4, <1>5, <1>7, Framed

LEMMA TakenKeeps ==
  ASSUME IInv, half = "condvar", NEW p \in Thread, Taken(p)
  PROVE  IInv'
<1>1. /\ CondAt(p) /\ at[p] = "exit" /\ Up(p, Exit, "eat") /\ UNCHANGED locals
  BY CondFacts DEF Taken
<1>2. /\ half' = half /\ state_condvar' = state_condvar /\ count' = count
  BY <1>1 DEF locals, others, monitor
<1>3. /\ Base' /\ One' /\ at'[p] = "eat" /\ phase' = phase
      /\ sem'[next].value = sem[next].value
      /\ \A q \in Thread : sem'[q].value = sem[q].value
      /\ \A q \in Thread \ {p} :
           at'[q] = at[q] /\ (at[q] \in {"get", "asleep"} => (Served(q)' <=> Served(q)))
  BY <1>1, ExitLeaves
<1>4. CondAt(p)'
  BY <1>1, <1>2, <1>3 DEF CondAt, Plain, MonitorPlace, Both
<1>5. PhiAt(p)'
  BY <1>2, <1>4 DEF PhiAt
<1>6. \A n \in Sem \ {mutex, p} : sem'[n].value = sem[n].value
  BY <1>3, Consts
<1> QED BY <1>1, <1>3, <1>5, <1>6, Kept

LEMMA DoneKeeps ==
  ASSUME IInv, half = "condvar", NEW p \in Thread, Done(p)
  PROVE  IInv'
<1> DEFINE l == IF iter[p] < Times THEN "think" ELSE "quit"
<1>1. /\ CondAt(p) /\ Local /\ at[p] = "done" /\ Up(p, Exit, l) /\ l \in {"think", "quit"}
      /\ iter' = [iter EXCEPT ![p] = @ + 1] /\ half' = half /\ state_sema' = state_sema
      /\ UNCHANGED monitor /\ Neighbours(state_sema) /\ Neighbours(state_condvar)
      /\ next_count = Cardinality(Signallers)
  BY CondFacts DEF Done, Dined, others
<1> HIDE DEF l
<1>2. /\ state_condvar' = state_condvar /\ count' = count /\ caller' = caller
      /\ next_count' = next_count
  BY <1>1 DEF monitor
<1>3. /\ Base' /\ One' /\ at'[p] = l /\ phase' = phase
      /\ sem'[next].value = sem[next].value
      /\ \A q \in Thread : sem'[q].value = sem[q].value
      /\ \A q \in Thread \ {p} :
           at'[q] = at[q] /\ (at[q] \in {"get", "asleep"} => (Served(q)' <=> Served(q)))
  BY <1>1, ExitLeaves
<1>4. Local'
  <2>1. iter' \in [Thread -> Nat]
    BY <1>1 DEF Local
  <2> QED BY <1>1, <1>2, <2>1 DEF Local
<1>5. Signallers' = Signallers
  BY <1>1, <1>3 DEF Signallers
<1>6. CondAt(p)'
  BY <1>1, <1>2, <1>3 DEF CondAt, Plain, MonitorPlace, Both
<1>7. {p} \in SUBSET Thread /\ \A q \in {p} : PhiAt(q)'
  BY <1>1, <1>6 DEF PhiAt
<1> QED BY <1>1, <1>2, <1>3, <1>4, <1>5, <1>7, Framed

(* phi_test_condvar: a neighbour that may eat waits on its condition       *)
(* variable, and is handed the monitor.                                    *)
LEMMA TestKeeps ==
  ASSUME IInv, half = "condvar", NEW p \in Thread, NEW j \in Thread, NEW l, Test(p, j, l),
         \/ at[p] = "self" /\ j = p /\ l = "tested"
         \/ at[p] = "left" /\ j # p /\ l = "right"
         \/ at[p] = "right" /\ j # p /\ l = "done"
  PROVE  IInv'
<1>1. /\ Base /\ One /\ CondAt(p) /\ CondAt(j) /\ Local /\ Runs(p) /\ phase[p] = "runs"
      /\ at[p] # "over" /\ Has(p) /\ ~Served(p)
      /\ at \in [Thread -> Place] /\ phase \in [Thread -> Phase]
      /\ state_condvar \in [Thread -> Mood] /\ l \in {"tested", "right", "done"}
      /\ Neighbours(state_sema) /\ Neighbours(state_condvar)
      /\ next_count = Cardinality(Signallers)
  BY CondFacts DEF Test, Up, Runs, Has, Served
<1>2. half' = half /\ state_sema' = state_sema /\ count' = count /\ iter' = iter
  BY DEF Test, others
<1>3. /\ state_condvar' \in [Thread -> Mood] /\ Neighbours(state_condvar')
      /\ \A q \in Thread \ {j} : state_condvar'[q] = state_condvar[q]
      /\ state_condvar'[j] = IF MayEat(j) THEN "EATING" ELSE state_condvar[j]
  <2>1. CASE MayEat(j)
    <3>1. state_condvar' = [state_condvar EXCEPT ![j] = "EATING"]
      BY <2>1 DEF Test
    <3>2. state_condvar[LEFT(j)] # "EATING" /\ state_condvar[RIGHT(j)] # "EATING"
      BY <2>1 DEF MayEat
    <3> QED BY <1>1, <2>1, <3>1, <3>2, Lays DEF Mood
  <2>2. CASE ~MayEat(j)
    BY <1>1, <2>2 DEF Test
  <2> QED BY <2>1, <2>2
<1>4. CASE MayEat(j) /\ Signals(j)
  <2>1. /\ next_count' = next_count + 1 /\ caller' = [caller EXCEPT ![p] = l]
        /\ Up(p, j, "signal")
    BY <1>4 DEF Test
  <2>2. at[j] \in {"asleep", "awake"} /\ state_condvar[j] = "HUNGRY"
    BY <1>1, <1>4 DEF CondAt, MayEat, Signals
  <2>3. j # p /\ l \in {"right", "done"} /\ at[p] \in {"left", "right"}
    BY <2>2
  <2>4. ~Has(j)
    BY <1>1, <2>3 DEF One
  <2>5. at[j] = "asleep" /\ ~Served(j)
    BY <2>2, <2>4 DEF Has
  <2>6. InLine(j, j) /\ phase[j] # "runs"
    <3>1. InLine(j, DownOf(j)) /\ phase[j] # "runs"
      BY <1>1, <2>3, <2>5, Stands DEF Downs
    <3> QED BY <2>5, <3>1 DEF DownOf
  <2>7. j \in Sem /\ sem[j].queue # <<>> /\ "signal" \in Place \ {"over"}
    <3>1. j \in Sem
      BY Consts
    <3> QED BY <1>1, <2>6, <3>1, Line DEF Place, MonitorPlace
  <2>8. /\ Base' /\ at' = [at EXCEPT ![p] = "signal"] /\ phase' = phase
        /\ \A n \in Sem : sem'[n].value = sem[n].value
    BY <1>1, <2>1, <2>7, Hands
  <2>9. PICK w \in Thread \ {p} :
           /\ InLine(w, j) /\ Served(w)'
           /\ \A q \in Thread \ {w} : Served(q)' <=> Served(q)
    BY <1>1, <2>1, <2>7, Hands
  <2>10. w = j
    BY <1>1, <2>7, <2>9, Line
  <2>11. at'[p] = "signal" /\ at'[j] = "asleep" /\ \A q \in Thread \ {p} : at'[q] = at[q]
    BY <1>1, <2>3, <2>5, <2>8
  <2>12. Served(j)' /\ ~Served(p)' /\ \A q \in Thread \ {j} : Served(q)' <=> Served(q)
    BY <1>1, <2>3, <2>9, <2>10
  <2>13. One'
    <3>1. Has(j)' /\ ~Has(p)'
      BY <2>11, <2>12 DEF Has
    <3>2. \A q \in Thread \ {p, j} : Has(q)' <=> Has(q)
      BY <2>11, <2>12, HasStays
    <3>3. sem'[mutex].value = sem[mutex].value
      BY <2>8, Consts
    <3> QED BY <1>1, <3>1, <3>2, <3>3, OneMoves
  <2>14. next_count' = Cardinality(Signallers') /\ next_count' \in Nat
    <3>1. Signallers' = Signallers \cup {p} /\ p \notin Signallers
      BY <2>3, <2>11 DEF Signallers
    <3>2. Cardinality(Signallers') = Cardinality(Signallers) + 1
      BY <3>1, SignallersFinite, FS_AddElement
    <3> QED BY <1>1, <2>1, <3>2, SignallersFinite
  <2>15. /\ caller' \in [Thread -> {"self", "right", "done"}] /\ caller'[p] = l
         /\ \A q \in Thread \ {p} : caller'[q] = caller[q]
    BY <1>1, <2>1, <2>3 DEF Local
  <2>16. Local'
    BY <1>1, <1>2, <1>3, <2>14, <2>15 DEF Local
  <2>17. \A q \in Thread : sem'[q].value = sem[q].value
    BY <2>8, Consts
  <2>18. CondAt(p)'
    BY <1>1, <1>2, <1>3, <2>3, <2>11, <2>15, <2>17 DEF CondAt, Plain, MonitorPlace, Both
  <2>19. CondAt(j)'
    BY <1>1, <1>2, <1>3, <1>4, <2>3, <2>5, <2>11, <2>12, <2>17
       DEF CondAt, Plain, MonitorPlace, Both
  <2>20. {p, j} \in SUBSET Thread /\ \A q \in {p, j} : PhiAt(q)'
    BY <1>2, <2>18, <2>19 DEF PhiAt
  <2>21. sem'[next].value = sem[next].value
    BY <2>8, Consts
  <2> QED BY <1>1, <1>2, <1>3, <2>8, <2>11, <2>12, <2>13, <2>14, <2>15, <2>16, <2>17,
             <2>20, <2>21, Framed
<1>5. CASE ~(MayEat(j) /\ Signals(j))
  <2>1. /\ GoesTo(p, l) /\ UNCHANGED <<k, timers, sem, phase>>
        /\ next_count' = next_count /\ caller' = caller
    BY <1>5 DEF Test
  <2>2. /\ Base' /\ One' /\ at'[p] = l /\ (\A q \in Thread \ {p} : at'[q] = at[q])
        /\ (\A q \in Thread : Served(q)' <=> Served(q)) /\ sem' = sem /\ phase' = phase
    <3>1. l \in MonitorPlace \ {"over"}
      BY <1>1 DEF MonitorPlace, Both
    <3> QED BY <1>1, <2>1, <3>1, CondMoves
  <2>3. MayEat(j) => j = p
    <3>1. ASSUME MayEat(j), j # p PROVE FALSE
      <4>1. count[j] = 0 /\ state_condvar[j] = "HUNGRY"
        BY <1>1, <1>5, <3>1 DEF CondAt, Signals, MayEat
      <4>2. at[j] \in {"self", "tested", "wait"}
        BY <1>1, <4>1 DEF CondAt, Plain, MonitorPlace, Both
      <4> QED BY <1>1, <3>1, <4>2 DEF One, Has
    <3> QED BY <3>1
  <2>4. Local'
    BY <1>1, <1>2, <1>3, <2>1 DEF Local
  <2>5. Signallers' = Signallers
    BY <1>1, <2>2 DEF Signallers
  <2>6. CondAt(p)'
    <3>1. at[p] = "self" => j = p /\ l = "tested" /\ state_condvar'[p] # "THINKING"
      BY <1>1, <1>3 DEF CondAt
    <3>2. at[p] # "self" => at[p] \in {"left", "right"} /\ l \in {"right", "done"} /\ j # p
      OBVIOUS
    <3>3. at[p] # "self" => state_condvar'[p] = "THINKING"
      BY <1>1, <1>3, <3>2 DEF CondAt, Plain
    <3> QED BY <1>1, <1>2, <2>1, <2>2, <3>1, <3>2, <3>3 DEF CondAt, Plain, MonitorPlace, Both
  <2>7. \A q \in Thread \ {p} : state_condvar'[q] = state_condvar[q]
    BY <1>3, <2>3
  <2>8. {p} \in SUBSET Thread /\ \A q \in {p} : PhiAt(q)'
    BY <1>2, <2>6 DEF PhiAt
  <2> QED BY <1>1, <1>2, <1>3, <2>1, <2>2, <2>4, <2>5, <2>7, <2>8, Framed
<1> QED BY <1>4, <1>5

-----------------------------------------------------------------------------
(* The threads of one half have been created.                              *)
Begun == StartUp([i \in 1..N |-> i], Unlocked, "think")

(* What the invariant says of them.                                        *)
Fresh ==
  /\ Base /\ One /\ sem[next].value = 0
  /\ \A p \in Thread : at[p] = "think" /\ phase[p] = "runs" /\ sem[p].value = 0

LEMMA Starts ==
  Begun => Fresh
<1> SUFFICES ASSUME Begun PROVE Fresh
  OBVIOUS
<1> DEFINE born == [i \in 1..N |-> i]
<1>1. /\ k = Started(born) /\ timers = <<>>
      /\ sem = [m \in Sem |-> [value |-> IF m = mutex THEN 1 ELSE 0, queue |-> <<>>]]
      /\ at = [p \in Thread |-> "think"] /\ phase = [p \in Thread |-> "runs"]
  BY DEF Begun, StartUp, Semaphores, Unlocked
<1>2. born \in Seq(Thread) /\ Distinct(born) /\ Elements(born) = Thread
  BY Consts DEF Distinct, Elements
<1> HIDE DEF born
<1>3. /\ k.current = Idle /\ k.runq = born /\ k.ok = TRUE
      /\ k.state = [p \in Proc |-> "RUNNABLE"] /\ k.wait = [p \in Proc |-> "none"]
      /\ k.resched = [p \in Proc |-> p = Idle]
      /\ k.slice = [p \in Proc |-> IF p = Idle THEN 0 ELSE MaxSlice]
  BY <1>1 DEF Started
<1>4. k \in SchedRecord
  <2>1. born \in Seq(Proc)
    BY <1>2, Consts
  <2>2. /\ [p \in Proc |-> "RUNNABLE"] \in [Proc -> State]
        /\ [p \in Proc |-> "none"] \in [Proc -> WaitState]
        /\ [p \in Proc |-> p = Idle] \in [Proc -> BOOLEAN]
        /\ [p \in Proc |-> IF p = Idle THEN 0 ELSE MaxSlice] \in [Proc -> 0..MaxSlice]
    BY SchedAssumption DEF State, WaitState
  <2> QED BY <1>1, <2>1, <2>2, Consts DEF Started, SchedRecord
<1>5. Sane(k)
  <2>1. Queued(k) = Thread
    BY <1>2, <1>3 DEF Queued, Elements
  <2>2. {p \in Proc : k.state[p] = "RUNNABLE"} \ {k.current, Idle} = Thread
    BY <1>3, Consts
  <2> QED BY <1>2, <1>3, <2>1, <2>2, Consts DEF Sane
<1>6. Typed
  <2>1. "think" \in Place
    BY DEF Place, SemaPlace, Both
  <2>2. <<>> \in Seq(Thread) /\ <<>> \in Seq(Timer(Proc))
    OBVIOUS
  <2> QED BY <1>1, <1>4, <2>1, <2>2 DEF Typed, Phase
<1>7. Placed
  BY <1>1, <1>3, Consts DEF Placed
<1>8. \A m \in Sem : sem[m].queue = <<>> /\ sem[m].value = IF m = mutex THEN 1 ELSE 0
  BY <1>1
<1>9. Waits
  <2>1. OneTimer(timers) /\ Owners(timers) = {}
    BY <1>1 DEF OneTimer, Owners
  <2>2. \A p \in Thread : ~Waiting(p)
    BY <1>3, Consts DEF Waiting
  <2>3. \A p \in Thread, m \in Sem : ~InLine(p, m)
    BY <1>8 DEF InLine, Elements
  <2>4. \A m \in Sem : Distinct(sem[m].queue)
    BY <1>8 DEF Distinct
  <2> QED BY <1>8, <2>1, <2>2, <2>3, <2>4 DEF Waits
<1>10. Base
  BY <1>5, <1>6, <1>7, <1>9 DEF Base
<1>11. \A p \in Thread : ~Has(p)
  BY <1>1 DEF Has
<1>12. /\ sem[mutex].value = 1 /\ sem[next].value = 0
       /\ \A p \in Thread : sem[p].value = 0
  BY <1>8, Consts
<1>13. One
  BY <1>11, <1>12 DEF One
<1> QED BY <1>1, <1>10, <1>12, <1>13 DEF Fresh

LEMMA StartsNext ==
  Begun' => Fresh'
<1>1. Begun => Fresh
  BY Starts
<1> QED BY <1>1, PTL

(* With nobody in the monitor the invariant holds of new threads.          *)
LEMMA InitInv ==
  ASSUME Init
  PROVE  IInv
<1>1. /\ Fresh /\ half = "sema" /\ state_sema = [i \in Thread |-> "THINKING"]
      /\ iter = [i \in Thread |-> 1] /\ MonitorInit
  BY Starts DEF Init, Begun
<1>2. /\ next_count = 0 /\ count = [i \in Thread |-> 0] /\ caller = [i \in Thread |-> "self"]
      /\ state_condvar = [i \in Thread |-> "THINKING"]
  BY <1>1 DEF MonitorInit
<1>3. Local
  BY <1>1, <1>2 DEF Local, Mood
<1>4. Neighbours(state_sema) /\ Neighbours(state_condvar)
  BY <1>1, <1>2 DEF Neighbours
<1>5. \A p \in Thread : SemaAt(p)
  BY <1>1 DEF Fresh, SemaAt, Plain, SemaPlace, Both
<1>6. Table
  BY <1>1, <1>4, <1>5 DEF Table, PhiAt, Fresh
<1> QED BY <1>1, <1>3, <1>6 DEF IInv, Fresh

LEMMA CheckSyncKeeps ==
  ASSUME IInv, check_sync
  PROVE  IInv'
<1>1. /\ Begun' /\ half = "sema" /\ half' = "condvar" /\ iter' = [p \in Thread |-> 1]
      /\ state_sema' = state_sema /\ UNCHANGED monitor
  BY DEF check_sync, Begun, StartUp
<1>2. Fresh'
  BY <1>1, StartsNext
<1>3. /\ next_count' = 0 /\ count' = [i \in Thread |-> 0]
      /\ caller' = [i \in Thread |-> "self"]
      /\ state_condvar' = [i \in Thread |-> "THINKING"]
  BY <1>1 DEF IInv, Table, MonitorInit, monitor
<1>4. Local'
  BY <1>1, <1>3 DEF IInv, Local, Mood
<1>5. Neighbours(state_sema)' /\ Neighbours(state_condvar)'
  BY <1>1, <1>3 DEF IInv, Table, Neighbours
<1>6. \A p \in Thread : at'[p] = "think" /\ phase'[p] = "runs" /\ sem'[p].value = 0
  BY <1>2 DEF Fresh
<1>7. \A p \in Thread : PhiAt(p)'
  <2>1. \A p \in Thread : CondAt(p)'
    BY <1>3, <1>6 DEF CondAt, Plain, MonitorPlace, Both
  <2> QED BY <1>1, <2>1 DEF PhiAt
<1>8. next_count' = Cardinality(Signallers')
  <2>1. Signallers' = {}
    BY <1>6 DEF Signallers
  <2> QED BY <1>3, <2>1, FS_EmptySet
<1>9. Table'
  BY <1>1, <1>2, <1>5, <1>7, <1>8 DEF Table, Fresh
<1> QED BY <1>2, <1>4, <1>9 DEF IInv, Fresh

LEMMA NextInv ==
  ASSUME IInv, [Next]_vars
  PROVE  IInv'
<1>1. CASE UNCHANGED vars
  <2>1. UNCHANGED kvars /\ UNCHANGED locals
    BY <1>1 DEF vars
  <2>2. k' = k /\ timers' = timers /\ sem' = sem /\ at' = at /\ phase' = phase
    BY <2>1 DEF kvars
  <2>3. /\ half' = half /\ state_sema' = state_sema /\ state_condvar' = state_condvar
        /\ next_count' = next_count /\ count' = count /\ caller' = caller /\ iter' = iter
    BY <2>1 DEF locals, others, monitor
  <2>4. \A q \in Thread : Served(q)' <=> Served(q)
    BY <2>2 DEF Served, Waiting
  <2>5. Base'
    <3>1. Typed' /\ Sane(k') /\ Placed'
      BY <2>2 DEF IInv, Base, Typed, Placed
    <3>2. Waits'
      BY <2>2, Types, WaitsStay DEF IInv, Base, Waits, Waiting
    <3> QED BY <3>1, <3>2 DEF Base
  <2>6. One'
    BY <2>2, <2>4, HasStays, OneSame DEF IInv
  <2>7. PICK p \in Thread : TRUE
    BY Consts
  <2>8. PhiAt(p)'
    BY <2>2, <2>3, <2>4, PhiStays DEF IInv, Table
  <2> QED BY <2>1, <2>2, <2>4, <2>5, <2>6, <2>8, Kept
<1>2. ASSUME NEW p \in Thread, Common(p)
      PROVE  IInv'
  <2>1. CASE Think(p) \/ Eat(p)
    BY <2>1, Dozes DEF Think, Eat
  <2>2. CASE Lock(p) \/ Back(p)
    BY <2>2, Asks DEF Lock, Back
  <2>3. CASE Leave(p)
    BY <2>3, Quits DEF Leave
  <2>4. CASE Block(p) /\ UNCHANGED locals
    BY <2>4, Rests
  <2> QED BY <1>2, <2>1, <2>2, <2>3, <2>4 DEF Common
<1>3. ASSUME NEW p \in Thread, half = "sema", SemaStep(p)
      PROVE  IInv'
  <2>1. CASE HungrySema(p) \/ FullSema(p)
    BY <1>3, <2>1, BecomesSemaKeeps DEF HungrySema, FullSema
  <2>2. CASE TestSelfSema(p) \/ TestLeftSema(p) \/ TestRightSema(p)
    BY <1>3, <2>2, TestSemaKeeps, Ring DEF TestSelfSema, TestLeftSema, TestRightSema
  <2>3. CASE UnlockSema(p)
    BY <1>3, <2>3, UnlockSemaKeeps
  <2>4. CASE GetSema(p)
    BY <1>3, <2>4, GetSemaKeeps
  <2>5. CASE DoneSema(p)
    BY <1>3, <2>5, DoneSemaKeeps
  <2> QED BY <1>3, <2>1, <2>2, <2>3, <2>4, <2>5 DEF SemaStep
<1>4. ASSUME NEW p \in Thread, half = "condvar", CondvarStep(p)
      PROVE  IInv'
  <2>1. CASE Hungry(p) \/ Full(p)
    BY <1>4, <2>1, BecomesKeeps DEF Hungry, Full
  <2>2. CASE TestSelf(p) \/ TestLeft(p) \/ TestRight(p)
    BY <1>4, <2>2, TestKeeps, Ring DEF TestSelf, TestLeft, TestRight
  <2>3. CASE Tested(p) \/ WaitEnds(p) \/ SignalEnds(p)
    BY <1>4, <2>3, TestedKeeps, WaitEndsKeeps, SignalEndsKeeps
  <2>4. CASE Taken(p) \/ WaitLeaves(p) \/ Done(p)
    BY <1>4, <2>4, TakenKeeps, WaitLeavesKeeps, DoneKeeps
  <2>5. CASE WaitSleeps(p) \/ SignalSleeps(p)
    BY <1>4, <2>5, DownKeeps DEF WaitSleeps, SignalSleeps
  <2> QED BY <1>4, <2>1, <2>2, <2>3, <2>4, <2>5 DEF CondvarStep
<1>5. CASE check_sync
  BY <1>5, CheckSyncKeeps
<1>6. CASE Idles \/ Ticks
  BY <1>6, Rests DEF Idles, Ticks
<1> QED BY <1>1, <1>2, <1>3, <1>4, <1>5, <1>6 DEF Next, Step

LEMMA Invariant ==
  Spec => []IInv
<1>1. Init => IInv
  BY InitInv
<1>2. IInv /\ [Next]_vars => IInv'
  BY NextInv
<1> QED BY <1>1, <1>2, PTL DEF Spec

(* Two neighbours never eat together, however the philosophers and the     *)
(* timer interrupt are interleaved: phi_test_sema and phi_test_condvar     *)
(* look at states that only the owner of the mutex or of the monitor       *)
(* changes.  And the up of a philosopher's semaphore is not repeated.      *)
THEOREM ForksExclusiveHolds ==
  Spec => []ForksExclusive
<1>1. IInv => ForksExclusive
  <2> SUFFICES ASSUME IInv PROVE ForksExclusive
    OBVIOUS
  <2>1. /\ half \in {"sema", "condvar"} /\ Neighbours(state_sema)
        /\ Neighbours(state_condvar) /\ \A p \in Thread : PhiAt(p)
    BY DEF IInv, Local, Table
  <2>2. CASE half = "sema"
    <3>1. \A p \in Thread : SemaAt(p)
      BY <2>1, <2>2 DEF PhiAt
    <3>2. \A p \in Thread : at[p] \in {"eat", "back", "full"} => state_sema[p] = "EATING"
      BY <3>1 DEF SemaAt
    <3>3. ToldOnce
      BY <3>1 DEF SemaAt, ToldOnce
    <3> QED BY <2>1, <2>2, <3>2, <3>3 DEF ForksExclusive, Neighbours
  <2>3. CASE half = "condvar"
    <3>1. \A p \in Thread : CondAt(p)
      BY <2>1, <2>3 DEF PhiAt
    <3>2. \A p \in Thread : at[p] \in {"eat", "back", "full"} => state_condvar[p] = "EATING"
      BY <3>1 DEF CondAt
    <3> QED BY <2>1, <2>3, <3>2 DEF ForksExclusive, Neighbours
  <2> QED BY <2>1, <2>2, <2>3
<1> QED BY <1>1, Invariant, PTL

(* The monitor is never lost and never shared: cond_signal, cond_wait and  *)
(* the exits hand it to exactly one thread, which need not run yet, or set *)
(* it free; no signal is saved, and next_count and the counts of the       *)
(* condition variables are those of the threads that wait.                 *)
THEOREM OneInMonitorHolds ==
  Spec => []OneInMonitor
<1>1. IInv => OneInMonitor
  <2> SUFFICES ASSUME IInv, half = "condvar" PROVE OneHasMonitor /\ SignalsNotSaved
    BY DEF OneInMonitor
  <2>1. /\ One /\ sem[next].value = 0 /\ next_count = Cardinality(Signallers)
        /\ \A p \in Thread : CondAt(p)
        /\ \A p \in Thread, m \in Sem : InLine(p, m) <=> Waiting(p) /\ m = DownOf(p)
    BY DEF IInv, Table, PhiAt, Base, Waits
  <2>2. \A p \in Thread : Active(p) <=> Has(p)
    <3> SUFFICES ASSUME NEW p \in Thread PROVE Active(p) <=> Has(p)
      OBVIOUS
    <3>1. p \in Sem /\ mutex \in Sem /\ next \in Sem
      BY Consts
    <3>2. \A m \in Sem : InQueue(p, m) <=> InLine(p, m)
      BY DEF InQueue, InLine, Elements
    <3>3. at[p] = "asleep" => (InQueue(p, p) <=> Waiting(p))
      BY <2>1, <3>1, <3>2 DEF DownOf
    <3>4. at[p] = "signal" => (InQueue(p, next) <=> Waiting(p))
      BY <2>1, <3>1, <3>2 DEF DownOf
    <3>5. at[p] \in {"lock", "back"} => (InQueue(p, mutex) <=> Waiting(p))
      BY <2>1, <3>1, <3>2 DEF DownOf
    <3>6. at[p] \in MonitorPlace
      BY <2>1 DEF CondAt
    <3> QED BY <3>3, <3>4, <3>5, <3>6 DEF Active, Has, Served, Inside, MonitorPlace, Both
  <2>3. {p \in Thread : Active(p)} = {p \in Thread : Has(p)}
    BY <2>2
  <2>4. OneHasMonitor
    <3>1. CASE sem[mutex].value = 1
      <4>1. {p \in Thread : Has(p)} = {}
        BY <2>1, <3>1 DEF One
      <4> QED BY <2>3, <3>1, <4>1, FS_EmptySet DEF OneHasMonitor
    <3>2. CASE sem[mutex].value # 1
      <4>1. sem[mutex].value = 0
        BY <2>1, <3>2 DEF One
      <4>2. PICK p \in Thread : Has(p)
        BY <2>1, <3>2 DEF One
      <4>3. {q \in Thread : Has(q)} = {p}
        BY <2>1, <4>2 DEF One
      <4>4. Cardinality({p}) = 1
        BY FS_Singleton
      <4> QED BY <2>3, <4>1, <4>3, <4>4 DEF OneHasMonitor
    <3> QED BY <3>1, <3>2
  <2>5. SignalsNotSaved
    BY <2>1 DEF SignalsNotSaved, CondAt, Signallers
  <2> QED BY <2>4, <2>5
<1> QED BY <1>1, Invariant, PTL
=============================================================================

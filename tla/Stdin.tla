-------------------------------- MODULE Stdin --------------------------------
(***************************************************************************)
(* The keyboard device stdin: (fs/devs/dev_stdin.c): a ring of characters  *)
(* that the timer interrupt fills, one at a time, from the ring of the     *)
(* console (driver/console.c), and that user processes read, blocking on a *)
(* wait queue.  A read is a system call, so interrupts are off while it    *)
(* runs; several processes may be in it at once, and any of them may be    *)
(* killed.                                                                 *)
(*                                                                         *)
(* The characters typed are numbered 1, 2, ...  A reader stands at         *)
(*   "run"      user code                 "trapret"  at the end of trap()  *)
(*   "read"     dev_stdin_read, in its loop                                *)
(*   "wait"     asleep, about to call schedule()                           *)
(*   "waited"   behind that schedule()    "end"      a zombie              *)
(***************************************************************************)
EXTENDS Sched, SequencesExt

CONSTANTS
  BufSize,   \* STDIN_BUFSIZE
  CONSBUFSIZE, \* the slots of the ring of the console
  MaxTyped   \* bound of the model: the characters that are typed

StdinAssumption == {BufSize, CONSBUFSIZE} \subseteq Nat \ {0} /\ MaxTyped \in Nat

Reader == Proc \ {Idle}

VARIABLES
  k,         \* the scheduler record
  exiting,   \* proc->flags & PF_EXITING
  pc,        \* where each reader stands
  want,      \* the length a reader has asked for
  got,       \* the characters it has got so far
  buffer,    \* stdin_buffer
  rpos,      \* p_rpos
  wpos,      \* p_wpos
  queue,     \* wait_queue
  cons,      \* the characters in cons.buf from cons.rpos to cons.wpos
  typed,     \* history: the characters typed
  dropped,   \* history: a ring was full when a character came
  taken      \* history: the characters taken out of the ring, in order

vars == <<k, exiting, pc, want, got, buffer, rpos, wpos, queue, cons, typed,
          dropped, taken>>
ring == <<buffer, rpos, wpos, cons, typed, dropped, taken>>

Init ==
  /\ \E born \in SetToSeqs(Reader) :
       k = [current |-> Idle,
            state   |-> [p \in Proc |-> "RUNNABLE"],
            wait    |-> [p \in Proc |-> "none"],
            resched |-> [p \in Proc |-> p = Idle],
            slice   |-> [p \in Proc |-> IF p = Idle THEN 0 ELSE MaxSlice],
            runq    |-> born,
            ok      |-> TRUE]
  /\ exiting = [p \in Reader |-> FALSE]
  /\ pc      = [p \in Reader |-> "run"]
  /\ want    = [p \in Reader |-> 0]
  /\ got     = [p \in Reader |-> <<>>]
  /\ buffer  = [i \in 0..(BufSize - 1) |-> 0]
  /\ rpos = 0 /\ wpos = 0 /\ queue = <<>> /\ cons = <<>>
  /\ typed = 0 /\ dropped = FALSE /\ taken = <<>>

At(p, l)   == k.current = p /\ pc[p] = l
GoesTo(p, l) == pc' = [pc EXCEPT ![p] = l]

-----------------------------------------------------------------------------
(* The read system call, for n characters.                                 *)
Read(p, n) ==
  /\ At(p, "run")
  /\ want' = [want EXCEPT ![p] = n]
  /\ got'  = [got EXCEPT ![p] = <<>>]
  /\ GoesTo(p, "read")
  /\ UNCHANGED <<k, exiting, queue>> /\ UNCHANGED ring

(* The loop of dev_stdin_read: p takes characters while it wants some and  *)
(* the ring has some, and ends or goes to sleep.                           *)
Take(p) ==
  /\ At(p, "read")
  /\ LET there   == IF wpos > rpos THEN wpos - rpos ELSE 0
         missing == want[p] - Len(got[p])
         n       == IF there < missing THEN there ELSE missing
         chars   == [i \in 1..n |-> buffer[(rpos + i - 1) % BufSize]]
     IN  /\ rpos'  = rpos + n
         /\ got'   = [got EXCEPT ![p] = @ \o chars]
         /\ taken' = taken \o chars
         /\ IF n = missing
            THEN GoesTo(p, "trapret") /\ UNCHANGED <<k, queue>>
            ELSE /\ k' = Sleeping(k, "WT_KBD")
                 /\ queue' = Append(queue, p)
                 /\ GoesTo(p, "wait")
  /\ UNCHANGED <<exiting, want, buffer, wpos, cons, typed, dropped>>

Block(p) ==
  /\ At(p, "wait")
  /\ k' = Schedule(k)
  /\ GoesTo(p, "waited")
  /\ UNCHANGED <<exiting, want, got, queue>> /\ UNCHANGED ring

Unqueued(p) == SelectSeq(queue, LAMBDA q : q # p)

(* Mutant: it goes on with the next round of the loop, past the character  *)
(* that has come.                                                          *)
AwakeContinues(p) ==
  /\ At(p, "waited")
  /\ GoesTo(p, IF Contains(queue, p) THEN "trapret" ELSE "read")
  /\ queue' = Unqueued(p)
  /\ rpos' = IF Contains(queue, p) THEN rpos ELSE rpos + 1
  /\ UNCHANGED <<k, exiting, want, got, buffer, wpos, cons, typed, dropped, taken>>

(* Awake again: p goes on if a character woke it, which has taken it off   *)
(* the queue, and ends the read with what it has got if a kill did.        *)
Awake(p) ==
  /\ At(p, "waited")
  /\ GoesTo(p, IF Contains(queue, p) THEN "trapret" ELSE "read")
  /\ queue' = Unqueued(p)
  /\ UNCHANGED <<k, exiting, want, got>> /\ UNCHANGED ring

-----------------------------------------------------------------------------
(* do_kill by another reader.                                              *)
Kill(p, t) ==
  /\ At(p, "run") /\ pc[t] # "end"
  /\ exiting' = [exiting EXCEPT ![t] = TRUE]
  /\ k' = IF ~exiting[t] /\ k.wait[t] \in Interruptible
          THEN WakeupProc(k, t) ELSE k
  /\ GoesTo(p, "trapret")
  /\ UNCHANGED <<want, got, queue>> /\ UNCHANGED ring

(* The end of trap().                                                      *)
Exit(p) ==
  /\ At(p, "trapret") /\ exiting[p]
  /\ k' = Schedule([k EXCEPT !.state[p] = "ZOMBIE"])
  /\ GoesTo(p, "end")
  /\ UNCHANGED <<exiting, want, got, queue>> /\ UNCHANGED ring

Return(p) ==
  /\ At(p, "trapret") /\ ~exiting[p]
  /\ k' = IF k.resched[p] THEN Schedule(k) ELSE k
  /\ GoesTo(p, "run")
  /\ UNCHANGED <<exiting, want, got, queue>> /\ UNCHANGED ring

IdleLoop ==
  /\ k.current = Idle /\ k.resched[Idle]
  /\ k' = Schedule(k)
  /\ UNCHANGED <<exiting, pc, want, got, queue>> /\ UNCHANGED ring

-----------------------------------------------------------------------------
(* wakeup_queue: all that wait are woken, but for those that a kill has    *)
(* made runnable already; these are told that a character came, too.       *)
Woken(s) ==
  LET asleep(q) == s.state[q] # "RUNNABLE"
  IN  WakeAll(s, {q \in Reader : Contains(queue, q) /\ asleep(q)},
              SelectSeq(queue, asleep))

(* dev_stdin_write: a full ring loses its oldest slot to the new character *)
(* and stays full.                                                         *)
Advanced == IF wpos - rpos < BufSize THEN wpos + 1 ELSE wpos

(* cons_intr, with all that has come since: a ring that is full looks      *)
(* empty.                                                                  *)
Fed(n) ==
  LET all == cons \o [i \in 1..n |-> typed + i]
  IN SubSeq(all, Len(all) - (Len(all) % CONSBUFSIZE) + 1, Len(all))

(* The timer interrupt: cons_getc reads the n characters that have been    *)
(* typed and gives one to dev_stdin_write, if there is one.  A reader is   *)
(* interrupted in user code only.                                          *)
Tick(n) ==
  /\ k.current # Idle => pc[k.current] = "run"
  /\ typed + n <= MaxTyped
  /\ pc' = [p \in Reader |-> IF p = k.current THEN "trapret" ELSE pc[p]]
  /\ typed' = typed + n
  /\ IF Fed(n) = <<>>
     THEN /\ k' = ProcTick(k)
          /\ cons' = <<>>
          /\ dropped' = (dropped \/ n > 0)
          /\ UNCHANGED <<queue, buffer, wpos>>
     ELSE /\ k' = Woken(ProcTick(k))
          /\ cons' = Tail(Fed(n))
          /\ buffer' = [buffer EXCEPT ![wpos % BufSize] = Head(Fed(n))]
          /\ wpos' = Advanced
          /\ dropped' = (dropped \/ Len(cons) + n >= CONSBUFSIZE \/ wpos - rpos >= BufSize)
          /\ queue' = <<>>
  /\ UNCHANGED <<exiting, want, got, rpos, taken>>

Next ==
  \/ \E p \in Reader, n \in 1..BufSize : Read(p, n)
  \/ \E p \in Reader : Take(p) \/ Block(p) \/ Awake(p) \/ Exit(p) \/ Return(p)
  \/ \E p, t \in Reader : Kill(p, t)
  \/ IdleLoop
  \/ \E n \in 0..CONSBUFSIZE : Tick(n)

Spec == Init /\ [][Next]_vars

-----------------------------------------------------------------------------
(* No wakeup is lost: who sleeps in a read is in the queue, once, and      *)
(* there is nothing to read; and nobody who has left the read is in it     *)
(* (the wait_t lives on the stack of the read).                            *)
SleepersQueued ==
  /\ \A p \in Reader : k.wait[p] = "WT_KBD" => Contains(queue, p) /\ rpos = wpos
  /\ \A i, j \in DOMAIN queue : queue[i] = queue[j] => i = j
  /\ \A i \in DOMAIN queue : pc[queue[i]] \in {"wait", "waited"}

(* The readers together get each character at most once, whoever they are *)
(* and whoever dies; and all of them, in the order typed, as long as no    *)
(* ring was full when a character came.                                    *)
EachCharOnce ==
  /\ \A i, j \in DOMAIN taken : taken[i] = taken[j] => i = j
  /\ ~dropped => /\ taken = [i \in 1..rpos |-> i] /\ wpos + Len(cons) = typed
                 /\ \A i \in DOMAIN cons : cons[i] = wpos + i

(* A read comes back short only to a process that has been killed.         *)
ShortOnlyIfKilled ==
  [][\A p \in Reader :
       pc[p] \in {"read", "waited"} /\ pc'[p] = "trapret" =>
         exiting[p] \/ Len(got'[p]) = want[p]]_vars

Fairness ==
  /\ \A p \in Reader :
       /\ WF_vars(Take(p)) /\ WF_vars(Block(p)) /\ WF_vars(Awake(p))
       /\ WF_vars(Exit(p)) /\ WF_vars(Return(p))
  /\ WF_vars(IdleLoop)
  /\ SF_vars(Tick(0))

FairSpec == Spec /\ Fairness

(* "do_kill - kill process with pid by set this process's flags with       *)
(* PF_EXITING": a process that is killed in a read dies.                   *)
KilledReaderDies ==
  \A p \in Reader :
    exiting[p] /\ pc[p] = "waited" /\ k.state[p] = "RUNNABLE" ~> pc[p] = "end"
=============================================================================

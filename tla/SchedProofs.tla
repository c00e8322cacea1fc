----------------------------- MODULE SchedProofs -----------------------------
(***************************************************************************)
(* Lemmas about the operators of modules Sched and Timers, which the       *)
(* proofs about processes and about kernel threads share.                  *)
(*                                                                         *)
(* First sequences: inserting, removing, appending and joining, element by *)
(* element.  Then each function of the scheduler and of the timer list     *)
(* maps its record or list to one of the same type; and what it keeps of   *)
(* a sane record and of a list with one timer for each owner.              *)
(***************************************************************************)
EXTENDS Sched, FiniteSetTheorems, SequenceTheorems, TLAPS

(* Counting positions of a list gives a position, or zero.                 *)
LEMMA CountPositions ==
  ASSUME NEW n \in Nat, NEW S \in SUBSET (1..n)
  PROVE  Cardinality(S) \in 0..n
<1>1. IsFiniteSet(1..n) /\ Cardinality(1..n) = n
  BY FS_Interval
<1>2. Cardinality(S) <= n /\ IsFiniteSet(S)
  BY <1>1, FS_Subset
<1> QED BY <1>2, FS_CardinalityType

(* Inserting into and removing from a sequence, element by element.        *)
LEMMA Inserted ==
  ASSUME NEW S, NEW s \in Seq(S), NEW i \in 1..(Len(s) + 1), NEW e \in S
  PROVE  /\ InsertAt(s, i, e) \in Seq(S)
         /\ Len(InsertAt(s, i, e)) = Len(s) + 1
         /\ \A j \in 1..(Len(s) + 1) :
              InsertAt(s, i, e)[j] = IF j < i THEN s[j]
                                     ELSE IF j = i THEN e ELSE s[j - 1]
<1> DEFINE a == SubSeq(s, 1, i - 1)
           b == SubSeq(s, i, Len(s))
           m == <<e>>
<1>1. /\ a \in Seq(S) /\ Len(a) = i - 1
      /\ \A j \in 1..(i - 1) : a[j] = s[j]
  BY SubSeqProperties
<1>2. /\ b \in Seq(S) /\ Len(b) = Len(s) - i + 1
      /\ \A j \in 1..(Len(s) - i + 1) : b[j] = s[i + j - 1]
  BY SubSeqProperties
<1>3. m \in Seq(S) /\ Len(m) = 1 /\ m[1] = e
  OBVIOUS
<1> HIDE DEF a, b, m
<1> DEFINE am == a \o m
<1>4. /\ am \in Seq(S) /\ Len(am) = i
      /\ \A j \in 1..i : am[j] = IF j < i THEN s[j] ELSE e
  <2>1. /\ am \in Seq(S) /\ Len(am) = Len(a) + Len(m)
        /\ \A j \in 1..(Len(a) + Len(m)) :
             am[j] = IF j <= Len(a) THEN a[j] ELSE m[j - Len(a)]
    BY <1>1, <1>3, ConcatProperties
  <2> HIDE DEF am
  <2>2. Len(a) + Len(m) = i /\ Len(a) = i - 1
    BY <1>1, <1>3
  <2>3. ASSUME NEW j \in 1..i PROVE am[j] = IF j < i THEN s[j] ELSE e
    <3>1. CASE j < i
      <4>1. j \in 1..(i - 1) /\ j \in 1..(Len(a) + Len(m)) /\ j <= Len(a)
        BY <2>2, <3>1
      <4>2. am[j] = a[j]
        BY <2>1, <4>1
      <4>3. a[j] = s[j]
        BY <1>1, <4>1
      <4> QED BY <3>1, <4>2, <4>3
    <3>2. CASE ~(j < i)
      <4>1. j = i /\ j - Len(a) = 1
        BY <2>2, <3>2
      <4> QED BY <1>3, <2>1, <2>2, <4>1
    <3> QED BY <3>1, <3>2
  <2> QED BY <2>1, <2>2, <2>3
<1> HIDE DEF am
<1>5. /\ am \o b \in Seq(S) /\ Len(am \o b) = Len(s) + 1
      /\ \A j \in 1..(Len(s) + 1) :
           (am \o b)[j] = IF j <= i THEN am[j] ELSE b[j - i]
  <2>1. /\ am \o b \in Seq(S) /\ Len(am \o b) = Len(am) + Len(b)
        /\ \A j \in 1..(Len(am) + Len(b)) :
             (am \o b)[j] = IF j <= Len(am) THEN am[j] ELSE b[j - Len(am)]
    BY <1>2, <1>4, ConcatProperties
  <2>2. Len(am) = i /\ Len(am) + Len(b) = Len(s) + 1
    BY <1>2, <1>4
  <2> QED BY <2>1, <2>2
<1>6. InsertAt(s, i, e) = am \o b
  BY DEF InsertAt, a, b, m, am
<1>7. ASSUME NEW j \in 1..(Len(s) + 1)
      PROVE  (am \o b)[j] = IF j < i THEN s[j]
                            ELSE IF j = i THEN e ELSE s[j - 1]
  <2>1. CASE j <= i
    BY <1>4, <1>5, <2>1 DEF am
  <2>2. CASE ~(j <= i)
    <3>1. j - i \in 1..(Len(s) - i + 1) /\ i + (j - i) - 1 = j - 1
      BY <2>2
    <3> QED BY <1>2, <1>5, <2>2, <3>1
  <2> QED BY <2>1, <2>2
<1> QED BY <1>5, <1>6, <1>7

LEMMA Removed ==
  ASSUME NEW S, NEW s \in Seq(S), NEW i \in 1..Len(s)
  PROVE  /\ RemoveAt(s, i) \in Seq(S)
         /\ Len(RemoveAt(s, i)) = Len(s) - 1
         /\ \A j \in 1..(Len(s) - 1) :
              RemoveAt(s, i)[j] = IF j < i THEN s[j] ELSE s[j + 1]
<1> DEFINE a == SubSeq(s, 1, i - 1)
           b == SubSeq(s, i + 1, Len(s))
<1>1. /\ a \in Seq(S) /\ Len(a) = i - 1
      /\ \A j \in 1..(i - 1) : a[j] = s[j]
  BY SubSeqProperties
<1>2. /\ b \in Seq(S) /\ Len(b) = Len(s) - i
      /\ \A j \in 1..(Len(s) - i) : b[j] = s[i + 1 + j - 1]
  BY SubSeqProperties
<1> HIDE DEF a, b
<1>3. /\ a \o b \in Seq(S) /\ Len(a \o b) = Len(s) - 1
      /\ \A j \in 1..(Len(s) - 1) :
           (a \o b)[j] = IF j <= i - 1 THEN a[j] ELSE b[j - (i - 1)]
  <2>1. /\ a \o b \in Seq(S) /\ Len(a \o b) = Len(a) + Len(b)
        /\ \A j \in 1..(Len(a) + Len(b)) :
             (a \o b)[j] = IF j <= Len(a) THEN a[j] ELSE b[j - Len(a)]
    BY <1>1, <1>2, ConcatProperties
  <2>2. Len(a) + Len(b) = Len(s) - 1
    BY <1>1, <1>2
  <2> QED BY <1>1, <2>1, <2>2
<1>4. ASSUME NEW j \in 1..(Len(s) - 1)
      PROVE  (a \o b)[j] = IF j < i THEN s[j] ELSE s[j + 1]
  <2>1. CASE j < i
    BY <1>1, <1>3, <2>1
  <2>2. CASE ~(j < i)
    <3> DEFINE d == j - (i - 1)
    <3>1. d \in 1..(Len(s) - i) /\ i + 1 + d - 1 = j + 1 /\ ~(j <= i - 1)
      BY <2>2
    <3>2. (a \o b)[j] = b[d]
      BY <1>3, <3>1
    <3>3. b[d] = s[i + 1 + d - 1]
      <4> HIDE DEF d
      <4> QED BY <1>2, <3>1
    <3> HIDE DEF d
    <3> QED BY <2>2, <3>1, <3>2, <3>3
  <2> QED BY <2>1, <2>2
<1>5. RemoveAt(s, i) = a \o b
  BY DEF RemoveAt, a, b
<1> QED BY <1>3, <1>4, <1>5

(* The elements of a sequence, and that it has each of them once.          *)
Elements(q) == {q[i] : i \in DOMAIN q}
Distinct(q) == \A i, j \in DOMAIN q : q[i] = q[j] => i = j

(* What appending, taking the head off and joining do to the elements.     *)
LEMMA AppendElements ==
  ASSUME NEW S, NEW q \in Seq(S), NEW e \in S
  PROVE  /\ Elements(Append(q, e)) = Elements(q) \cup {e}
         /\ Distinct(q) /\ e \notin Elements(q) => Distinct(Append(q, e))
<1> DEFINE r == Append(q, e)
<1>1. /\ Len(q) \in Nat /\ DOMAIN q = 1..Len(q) /\ DOMAIN r = 1..(Len(q) + 1)
      /\ r[Len(q) + 1] = e /\ \A i \in 1..Len(q) : r[i] = q[i]
  OBVIOUS
<1> HIDE DEF r
<1>2. \A i \in 1..(Len(q) + 1) : i \in 1..Len(q) \/ i = Len(q) + 1
  BY <1>1
<1>3. Elements(r) = Elements(q) \cup {e}
  BY <1>1, <1>2 DEF Elements
<1>4. ASSUME Distinct(q), e \notin Elements(q) PROVE Distinct(r)
  <2> SUFFICES ASSUME NEW i \in 1..(Len(q) + 1), NEW j \in 1..(Len(q) + 1), r[i] = r[j]
               PROVE  i = j
    BY <1>1 DEF Distinct
  <2>1. \A n \in 1..Len(q) : q[n] # e
    BY <1>1, <1>4 DEF Elements
  <2> QED BY <1>1, <1>2, <1>4, <2>1 DEF Distinct
<1> QED BY <1>3, <1>4 DEF r

LEMMA TailElements ==
  ASSUME NEW S, NEW q \in Seq(S), q # <<>>, Distinct(q)
  PROVE  /\ Elements(Tail(q)) = Elements(q) \ {Head(q)}
         /\ Head(q) \in Elements(q) /\ Distinct(Tail(q))
<1> DEFINE r == Tail(q)
           h == Head(q)
<1>1. /\ Len(q) \in Nat \ {0} /\ DOMAIN q = 1..Len(q) /\ DOMAIN r = 1..(Len(q) - 1)
      /\ h = q[1] /\ \A i \in 1..(Len(q) - 1) : r[i] = q[i + 1]
  OBVIOUS
<1> HIDE DEF r, h
<1>2. 1 \in 1..Len(q) /\ \A i \in 1..(Len(q) - 1) : i + 1 \in 1..Len(q) /\ i + 1 # 1
  BY <1>1
<1>3. h \in Elements(q)
  BY <1>1, <1>2 DEF Elements
<1>4. Distinct(r)
  BY <1>1, <1>2 DEF Distinct
<1>5. Elements(r) \subseteq Elements(q) \ {h}
  <2> SUFFICES ASSUME NEW i \in 1..(Len(q) - 1) PROVE r[i] \in Elements(q) /\ r[i] # h
    BY <1>1 DEF Elements
  <2> QED BY <1>1, <1>2 DEF Elements, Distinct
<1>6. Elements(q) \ {h} \subseteq Elements(r)
  <2> SUFFICES ASSUME NEW i \in 1..Len(q), q[i] # h PROVE q[i] \in Elements(r)
    BY <1>1 DEF Elements
  <2>1. i - 1 \in 1..(Len(q) - 1) /\ r[i - 1] = q[i]
    BY <1>1
  <2> QED BY <1>1, <2>1 DEF Elements
<1> QED BY <1>3, <1>4, <1>5, <1>6 DEF r, h

LEMMA JoinElements ==
  ASSUME NEW S, NEW q \in Seq(S), NEW v \in Seq(S)
  PROVE  /\ Elements(q \o v) = Elements(q) \cup Elements(v)
         /\ Distinct(q) /\ Distinct(v) /\ Elements(q) \cap Elements(v) = {} => Distinct(q \o v)
<1> DEFINE r == q \o v
           m == Len(q)
           n == Len(v)
<1>1. /\ m \in Nat /\ n \in Nat /\ DOMAIN q = 1..m /\ DOMAIN v = 1..n /\ DOMAIN r = 1..(m + n)
      /\ \A i \in 1..(m + n) : r[i] = IF i <= m THEN q[i] ELSE v[i - m]
  OBVIOUS
<1> HIDE DEF r, m, n
<1>2. ASSUME NEW i \in 1..(m + n)
      PROVE  \/ i \in 1..m /\ r[i] = q[i]
             \/ i - m \in 1..n /\ r[i] = v[i - m]
  BY <1>1
<1>3. Elements(r) \subseteq Elements(q) \cup Elements(v)
  BY <1>1, <1>2 DEF Elements
<1>4. Elements(q) \subseteq Elements(r)
  <2> SUFFICES ASSUME NEW i \in 1..m PROVE q[i] \in Elements(r)
    BY <1>1 DEF Elements
  <2>1. i \in 1..(m + n) /\ r[i] = q[i]
    BY <1>1
  <2> QED BY <1>1, <2>1 DEF Elements
<1>5. Elements(v) \subseteq Elements(r)
  <2> SUFFICES ASSUME NEW i \in 1..n PROVE v[i] \in Elements(r)
    BY <1>1 DEF Elements
  <2>1. i + m \in 1..(m + n) /\ r[i + m] = v[i]
    BY <1>1
  <2> QED BY <1>1, <2>1 DEF Elements
<1>6. ASSUME Distinct(q), Distinct(v), Elements(q) \cap Elements(v) = {} PROVE Distinct(r)
  <2> SUFFICES ASSUME NEW i \in 1..(m + n), NEW j \in 1..(m + n), r[i] = r[j] PROVE i = j
    BY <1>1 DEF Distinct
  <2>1. \A a \in 1..m, b \in 1..n : q[a] # v[b]
    BY <1>1, <1>6 DEF Elements
  <2>2. CASE i \in 1..m /\ j \in 1..m
    BY <1>1, <1>6, <2>2 DEF Distinct
  <2>3. CASE i - m \in 1..n /\ j - m \in 1..n
    <3>1. r[i] = v[i - m] /\ r[j] = v[j - m]
      BY <1>1, <2>3
    <3>2. i - m = j - m
      BY <1>1, <1>6, <2>3, <3>1 DEF Distinct
    <3> QED BY <1>1, <3>2
  <2>4. CASE i \in 1..m /\ j - m \in 1..n
    <3>1. r[i] = q[i] /\ r[j] = v[j - m]
      BY <1>1, <2>4
    <3> QED BY <2>1, <2>4, <3>1
  <2>5. CASE i - m \in 1..n /\ j \in 1..m
    <3>1. r[i] = v[i - m] /\ r[j] = q[j]
      BY <1>1, <2>5
    <3> QED BY <2>1, <2>5, <3>1
  <2> QED BY <1>2, <2>2, <2>3, <2>4, <2>5
<1> QED BY <1>3, <1>4, <1>5, <1>6 DEF r

-----------------------------------------------------------------------------
(* The records and lists that the functions return.                        *)
LEMMA Fields ==
  ASSUME NEW s \in SchedRecord
  PROVE  /\ s.current \in Proc
         /\ s.state \in [Proc -> State] /\ s.wait \in [Proc -> WaitState]
         /\ s.resched \in [Proc -> BOOLEAN]
         /\ s.slice \in [Proc -> 0..MaxSlice]
         /\ s.runq \in Seq(Proc) /\ s.ok \in BOOLEAN
  BY DEF SchedRecord

LEMMA EnqueueType ==
  ASSUME NEW s \in SchedRecord, NEW p \in Proc
  PROVE  Enqueue(s, p) \in SchedRecord
<1> DEFINE free == s.ok /\ p \notin Queued(s)
           q    == Append(s.runq, p)
           n    == IF s.slice[p] = 0 \/ s.slice[p] > MaxSlice THEN MaxSlice
                   ELSE s.slice[p]
<1>1. free \in BOOLEAN /\ q \in Seq(Proc) /\ n \in 0..MaxSlice
  BY Fields, SchedAssumption
<1>2. Enqueue(s, p) = IF p = Idle THEN s
                      ELSE [s EXCEPT !.ok = free, !.runq = q, !.slice[p] = n]
  BY DEF Enqueue
<1> HIDE DEF free, q, n
<1>3. [s EXCEPT !.ok = free, !.runq = q, !.slice[p] = n] \in SchedRecord
  BY <1>1 DEF SchedRecord
<1> QED BY <1>2, <1>3

LEMMA WakeupType ==
  ASSUME NEW s \in SchedRecord, NEW p \in Proc
  PROVE  WakeupProc(s, p) \in SchedRecord
<1> DEFINE live == s.ok /\ s.state[p] # "ZOMBIE"
           a == [s EXCEPT !.ok = live]
           r == [a EXCEPT !.state[p] = "RUNNABLE", !.wait[p] = "none"]
<1>1. live \in BOOLEAN
  BY Fields
<1>2. a \in SchedRecord
  <2> HIDE DEF live
  <2> QED BY <1>1 DEF SchedRecord
<1>3. r \in SchedRecord
  <2> HIDE DEF a
  <2> QED BY <1>2 DEF SchedRecord, State, WaitState
<1>4. Enqueue(r, p) \in SchedRecord
  BY <1>3, EnqueueType
<1> QED BY <1>2, <1>3, <1>4 DEF WakeupProc

LEMMA ScheduleType ==
  ASSUME NEW s \in SchedRecord
  PROVE  Schedule(s) \in SchedRecord
<1> DEFINE a == [s EXCEPT !.resched[s.current] = FALSE]
           b == IF a.state[a.current] = "RUNNABLE" THEN Enqueue(a, a.current)
                ELSE a
<1>1. a \in SchedRecord
  BY DEF SchedRecord
<1>2. b \in SchedRecord
  <2> HIDE DEF a
  <2> QED BY <1>1, EnqueueType, Fields
<1> HIDE DEF b
<1>3. [b EXCEPT !.current = Idle] \in SchedRecord
  BY <1>2, SchedAssumption DEF SchedRecord
<1>4. ASSUME b.runq # <<>>
      PROVE  [b EXCEPT !.current = Head(b.runq), !.runq = Tail(b.runq)]
               \in SchedRecord
  <2> DEFINE h == Head(b.runq)
             t == Tail(b.runq)
  <2>1. h \in Proc /\ t \in Seq(Proc)
    BY <1>2, <1>4, Fields
  <2> HIDE DEF h, t
  <2>2. [b EXCEPT !.current = h, !.runq = t] \in SchedRecord
    BY <1>2, <2>1 DEF SchedRecord
  <2> QED BY <2>2 DEF h, t
<1> QED BY <1>3, <1>4 DEF Schedule, b

LEMMA ProcTickType ==
  ASSUME NEW s \in SchedRecord
  PROVE  ProcTick(s) \in SchedRecord
<1> DEFINE p    == s.current
           left == IF s.slice[p] > 0 THEN s.slice[p] - 1 ELSE 0
           flag == s.resched[p] \/ left = 0
<1>1. p \in Proc /\ left \in 0..MaxSlice /\ flag \in BOOLEAN
  BY Fields, SchedAssumption
<1>2. ProcTick(s) = IF p = Idle THEN [s EXCEPT !.resched[p] = TRUE]
                    ELSE [s EXCEPT !.slice[p] = left, !.resched[p] = flag]
  BY DEF ProcTick
<1> HIDE DEF p, left, flag
<1>3. [s EXCEPT !.resched[p] = TRUE] \in SchedRecord
  BY <1>1 DEF SchedRecord
<1>4. [s EXCEPT !.slice[p] = left, !.resched[p] = flag] \in SchedRecord
  BY <1>1 DEF SchedRecord
<1> QED BY <1>2, <1>3, <1>4

LEMMA SleepingType ==
  ASSUME NEW s \in SchedRecord, NEW w \in WaitState
  PROVE  Sleeping(s, w) \in SchedRecord
  BY DEF SchedRecord, Sleeping, State

LEMMA InOrderType ==
  ASSUME NEW S, NEW w, Len(w) \in Nat, NEW v \in InOrder(S, w)
  PROVE  v \in Seq(S)
  BY DEF InOrder

LEMMA WakeAllType ==
  ASSUME NEW s \in SchedRecord, NEW W \in SUBSET Proc, NEW v \in Seq(Proc)
  PROVE  WakeAll(s, W, v) \in SchedRecord
<1> DEFINE o  == s.ok /\ \A p \in W : s.state[p] # "ZOMBIE" /\ p \notin Queued(s)
           st == [p \in Proc |-> IF p \in W THEN "RUNNABLE" ELSE s.state[p]]
           wt == [p \in Proc |-> IF p \in W THEN "none" ELSE s.wait[p]]
           sl == [p \in Proc |-> IF p \in W \ {s.current} /\ s.slice[p] = 0
                                 THEN MaxSlice ELSE s.slice[p]]
           q  == s.runq \o v
<1>1. o \in BOOLEAN /\ q \in Seq(Proc)
  BY Fields
<1>2. st \in [Proc -> State] /\ wt \in [Proc -> WaitState]
  BY Fields DEF State, WaitState
<1>3. sl \in [Proc -> 0..MaxSlice]
  BY Fields, SchedAssumption
<1>4. WakeAll(s, W, v) = [s EXCEPT !.ok = o, !.state = st, !.wait = wt,
                                   !.slice = sl, !.runq = q]
  BY DEF WakeAll
<1> HIDE DEF o, st, wt, sl, q
<1> QED BY <1>1, <1>2, <1>3, <1>4 DEF SchedRecord

-----------------------------------------------------------------------------
LEMMA AddTimerType ==
  ASSUME NEW P, NEW ts \in Seq(Timer(P)), NEW p \in P, NEW n \in Nat
  PROVE  /\ AddTimer(ts, p, n) \in Seq(Timer(P))
         /\ Owners(AddTimer(ts, p, n)) = Owners(ts) \cup {p}
<1> DEFINE before == {j \in DOMAIN ts : ts[j].left <= n}
           i   == Cardinality(before) + 1
           new == [proc |-> p, left |-> n]
           r   == InsertAt(ts, i, new)
<1>1. i \in 1..(Len(ts) + 1)
  <2>1. before \in SUBSET (1..Len(ts)) /\ Len(ts) \in Nat
    OBVIOUS
  <2> QED BY <2>1, CountPositions
<1>2. new \in Timer(P) /\ new.proc = p
  BY DEF Timer
<1> HIDE DEF i, new
<1>3. /\ r \in Seq(Timer(P))
      /\ Len(r) = Len(ts) + 1
      /\ \A j \in 1..(Len(ts) + 1) :
           r[j] = IF j < i THEN ts[j] ELSE IF j = i THEN new ELSE ts[j - 1]
  <2> DEFINE T == Timer(P)
  <2>1. ts \in Seq(T) /\ new \in T
    BY <1>2
  <2> HIDE DEF T
  <2>2. InsertAt(ts, i, new) \in Seq(T)
    BY <1>1, <2>1, Inserted
  <2>3. Len(InsertAt(ts, i, new)) = Len(ts) + 1
    BY <1>1, <2>1, Inserted
  <2>4. \A j \in 1..(Len(ts) + 1) :
          InsertAt(ts, i, new)[j] = IF j < i THEN ts[j]
                                    ELSE IF j = i THEN new ELSE ts[j - 1]
    BY <1>1, <2>1, Inserted
  <2> QED BY <2>2, <2>3, <2>4 DEF T
<1> HIDE DEF r
<1>4. ASSUME NEW j \in 1..(Len(ts) + 1) PROVE r[j].proc \in Owners(ts) \cup {p}
  <2>1. j < i => j \in 1..Len(ts)
    BY <1>1
  <2>2. j > i => j - 1 \in 1..Len(ts)
    BY <1>1
  <2> QED BY <1>1, <1>2, <1>3, <2>1, <2>2 DEF Owners
<1>5. ASSUME NEW j \in 1..Len(ts) PROVE ts[j].proc \in Owners(r)
  <2>1. CASE j < i
    BY <1>3, <2>1 DEF Owners
  <2>2. CASE j >= i
    <3>1. j + 1 \in 1..(Len(ts) + 1) /\ r[j + 1] = ts[j]
      BY <1>1, <1>3, <2>2
    <3> QED BY <1>3, <3>1 DEF Owners
  <2> QED BY <2>1, <2>2, <1>1
<1>6. p \in Owners(r)
  <2>1. i \in DOMAIN r /\ r[i].proc = p
    BY <1>1, <1>2, <1>3
  <2> QED BY <2>1 DEF Owners
<1>7. Owners(r) = Owners(ts) \cup {p}
  <2>1. Owners(r) \subseteq Owners(ts) \cup {p}
    BY <1>3, <1>4 DEF Owners
  <2>2. Owners(ts) \subseteq Owners(r)
    BY <1>5 DEF Owners
  <2> QED BY <2>1, <2>2, <1>6
<1>8. AddTimer(ts, p, n) = r
  BY DEF AddTimer, r, i, new
<1> QED BY <1>3, <1>7, <1>8

LEMMA DelTimerType ==
  ASSUME NEW P, NEW ts \in Seq(Timer(P)), NEW p \in P
  PROVE  /\ DelTimer(ts, p) \in Seq(Timer(P))
         /\ Owners(ts) \ {p} \subseteq Owners(DelTimer(ts, p))
         /\ Owners(DelTimer(ts, p)) \subseteq Owners(ts)
<1>1. CASE p \notin Owners(ts)
  BY <1>1 DEF DelTimer
<1>2. CASE p \in Owners(ts)
  <2> DEFINE i == CHOOSE j \in DOMAIN ts : ts[j].proc = p
             r == RemoveAt(ts, i)
  <2>1. i \in 1..Len(ts) /\ ts[i].proc = p
    BY <1>2 DEF Owners
  <2> HIDE DEF i
  <2>2. /\ r \in Seq(Timer(P))
        /\ Len(r) = Len(ts) - 1
        /\ \A j \in 1..(Len(ts) - 1) : r[j] = IF j < i THEN ts[j] ELSE ts[j + 1]
    BY <2>1, Removed
  <2> HIDE DEF r
  <2>3. Owners(r) \subseteq Owners(ts)
    <3>1. ASSUME NEW j \in 1..(Len(ts) - 1) PROVE r[j].proc \in Owners(ts)
      <4>1. j \in DOMAIN ts /\ j + 1 \in DOMAIN ts
        OBVIOUS
      <4> QED BY <2>2, <4>1 DEF Owners
    <3> QED BY <2>2, <3>1 DEF Owners
  <2>4. ASSUME NEW j \in 1..Len(ts), ts[j].proc # p
        PROVE  ts[j].proc \in Owners(r)
    <3>1. CASE j < i
      <4>1. j \in DOMAIN r /\ r[j] = ts[j]
        BY <2>1, <2>2, <3>1
      <4> QED BY <4>1 DEF Owners
    <3>2. CASE j > i
      <4>1. j - 1 \in DOMAIN r /\ r[j - 1] = ts[j]
        BY <2>1, <2>2, <3>2
      <4> QED BY <4>1 DEF Owners
    <3> QED BY <3>1, <3>2, <2>1, <2>4
  <2>5. Owners(ts) \ {p} \subseteq Owners(r)
    BY <2>4 DEF Owners
  <2>6. DelTimer(ts, p) = r
    BY <1>2 DEF DelTimer, i, r
  <2> QED BY <2>2, <2>3, <2>5, <2>6
<1> QED BY <1>1, <1>2

LEMMA RunTimersType ==
  ASSUME NEW P, NEW ts \in Seq(Timer(P))
  PROVE  /\ RunTimers(ts) \in Seq(Timer(P))
         /\ Expiring(ts) \in 0..Len(ts)
         /\ Len(RunTimers(ts)) = Len(ts) - Expiring(ts)
         /\ \A i \in 1..(Len(ts) - Expiring(ts)) :
              /\ RunTimers(ts)[i].proc = ts[Expiring(ts) + i].proc
              /\ RunTimers(ts)[i].left = ts[Expiring(ts) + i].left - 1
<1> DEFINE n == Expiring(ts)
           m == Len(ts) - n
<1>1. n \in 0..Len(ts)
  <2>1. {i \in DOMAIN ts : ts[i].left = 1} \in SUBSET (1..Len(ts)) /\ Len(ts) \in Nat
    OBVIOUS
  <2> QED BY <2>1, CountPositions DEF Expiring
<1> HIDE DEF n
<1>2. m \in Nat
  BY <1>1
<1>3. ASSUME NEW i \in 1..m
      PROVE  /\ ts[n + i] \in Timer(P)
             /\ [ts[n + i] EXCEPT !.left = @ - 1] \in Timer(P)
  <2>1. ts[n + i] \in Timer(P)
    BY <1>1
  <2> QED BY <2>1 DEF Timer
<1>4. RunTimers(ts) = [i \in 1..m |-> [ts[n + i] EXCEPT !.left = @ - 1]]
  BY DEF RunTimers, n
<1>5. RunTimers(ts) \in Seq(Timer(P)) /\ Len(RunTimers(ts)) = m
  BY <1>2, <1>3, <1>4
<1>6. ASSUME NEW i \in 1..m
      PROVE  /\ RunTimers(ts)[i].proc = ts[n + i].proc
             /\ RunTimers(ts)[i].left = ts[n + i].left - 1
  BY <1>3, <1>4 DEF Timer
<1> QED BY <1>1, <1>5, <1>6 DEF n

(* The timer interrupt.                                                    *)
LEMMA TickedType ==
  ASSUME NEW r \in SchedRecord, NEW ts \in Seq(Timer(Proc)), NEW r2 \in Ticked(r, ts)
  PROVE  r2 \in SchedRecord
<1> DEFINE owner == Expired(ts)
           due   == {owner[i] : i \in DOMAIN owner}
           woken == {q \in due : r.state[q] # "RUNNABLE"}
           sane  == \A q \in due : r.wait[q] \in Interruptible \cup {"none"}
           o     == r.ok /\ sane
           s     == [r EXCEPT !.ok = @ /\ sane]
<1>1. Expiring(ts) \in 0..Len(ts)
  BY RunTimersType
<1>2. owner \in Seq(Proc)
  <2>1. ASSUME NEW i \in 1..Expiring(ts) PROVE ts[i].proc \in Proc
    <3>1. ts[i] \in Timer(Proc)
      BY <1>1
    <3> QED BY <3>1 DEF Timer
  <2> QED BY <1>1, <2>1 DEF Expired
<1>3. due \in SUBSET Proc /\ Len(owner) \in Nat
  <2> HIDE DEF owner
  <2> QED BY <1>2
<1>4. PICK v \in InOrder(woken \ {r.current}, owner) : r2 = ProcTick(WakeAll(s, woken, v))
  BY DEF Ticked
<1>5. s \in SchedRecord
  <2>1. o \in BOOLEAN
    <3> HIDE DEF sane
    <3> QED BY Fields
  <2>2. s = [r EXCEPT !.ok = o]
    <3> HIDE DEF sane
    <3> QED BY DEF SchedRecord
  <2> HIDE DEF s, o
  <2> QED BY <2>1, <2>2 DEF SchedRecord
<1>6. woken \in SUBSET Proc
  BY <1>3
<1>7. v \in Seq(Proc)
  <2>1. v \in Seq(woken \ {r.current})
    <3> HIDE DEF owner, woken
    <3> QED BY <1>3, <1>4, InOrderType
  <2> QED BY <1>6, <2>1
<1> HIDE DEF s, woken
<1>8. WakeAll(s, woken, v) \in SchedRecord
  BY <1>5, <1>6, <1>7, WakeAllType
<1> QED BY <1>4, <1>8, ProcTickType

-----------------------------------------------------------------------------
(* What the functions of the scheduler keep: no assertion has failed, the  *)
(* run queue has each runnable process once, except for the current one    *)
(* and idle, and who has a wait state sleeps.                              *)
Sane(s) ==
  /\ s.ok = TRUE
  /\ Distinct(s.runq)
  /\ Queued(s) = {p \in Proc : s.state[p] = "RUNNABLE"} \ {s.current, Idle}
  /\ \A p \in Proc : s.wait[p] # "none" <=> s.state[p] = "SLEEPING"
  /\ s.state[Idle] = "RUNNABLE"

LEMMA EnqueueSane ==
  ASSUME NEW s \in SchedRecord, NEW p \in Proc \ {Idle},
         s.ok = TRUE, Distinct(s.runq), p \notin Queued(s)
  PROVE  LET r == Enqueue(s, p)
         IN  /\ r.ok = TRUE /\ Distinct(r.runq) /\ Queued(r) = Queued(s) \cup {p}
             /\ r.current = s.current /\ r.state = s.state /\ r.wait = s.wait
<1> DEFINE r == Enqueue(s, p)
           free == s.ok /\ p \notin Queued(s)
           q    == Append(s.runq, p)
           n    == IF s.slice[p] = 0 \/ s.slice[p] > MaxSlice THEN MaxSlice
                   ELSE s.slice[p]
<1>1. r = [s EXCEPT !.ok = free, !.runq = q, !.slice[p] = n]
  BY DEF Enqueue
<1>2. free = TRUE
  OBVIOUS
<1>3. Distinct(q) /\ Elements(q) = Queued(s) \cup {p}
  <2>1. s.runq \in Seq(Proc) /\ Elements(s.runq) = Queued(s)
    BY Fields DEF Queued, Elements
  <2> QED BY <2>1, AppendElements
<1> HIDE DEF q, n, free
<1>4. /\ r.ok = free /\ r.runq = q /\ r.current = s.current /\ r.state = s.state
      /\ r.wait = s.wait
  BY <1>1 DEF SchedRecord
<1> HIDE DEF r
<1>5. Queued(r) = Elements(q)
  BY <1>4 DEF Queued, Elements
<1> QED BY <1>2, <1>3, <1>4, <1>5 DEF r

LEMMA WakeupSane ==
  ASSUME NEW s \in SchedRecord, Sane(s), NEW p \in Proc, s.state[p] # "ZOMBIE"
  PROVE  LET r == WakeupProc(s, p)
         IN  /\ Sane(r) /\ r.current = s.current
             /\ r.state = [s.state EXCEPT ![p] = "RUNNABLE"]
             /\ r.wait = [s.wait EXCEPT ![p] = "none"]
<1> DEFINE live == s.ok /\ s.state[p] # "ZOMBIE"
           a == [s EXCEPT !.ok = live]
           r == [a EXCEPT !.state[p] = "RUNNABLE", !.wait[p] = "none"]
<1>1. live = TRUE
  BY DEF Sane
<1>2. a = s
  <2> HIDE DEF live
  <2> QED BY <1>1 DEF Sane, SchedRecord
<1>3. CASE s.state[p] = "RUNNABLE"
  <2>1. WakeupProc(s, p) = s
    BY <1>2, <1>3 DEF WakeupProc
  <2>2. /\ s.state = [s.state EXCEPT ![p] = "RUNNABLE"]
        /\ s.wait = [s.wait EXCEPT ![p] = "none"]
    BY <1>3, Fields DEF Sane
  <2> QED BY <2>1, <2>2
<1>4. CASE s.state[p] # "RUNNABLE"
  <2>1. /\ r.ok = TRUE /\ r.runq = s.runq /\ r.current = s.current
        /\ r.state = [s.state EXCEPT ![p] = "RUNNABLE"]
        /\ r.wait = [s.wait EXCEPT ![p] = "none"] /\ r \in SchedRecord
    <3> HIDE DEF a
    <3> QED BY <1>2 DEF Sane, SchedRecord, State, WaitState
  <2> HIDE DEF r
  <2>2. /\ \A q \in Proc : r.wait[q] # "none" <=> r.state[q] = "SLEEPING"
        /\ r.state[Idle] = "RUNNABLE" /\ p # Idle
    BY <1>4, <2>1, Fields, SchedAssumption DEF Sane
  <2>3. Queued(r) = {q \in Proc : s.state[q] = "RUNNABLE"} \ {s.current, Idle}
    BY <2>1 DEF Queued, Sane
  <2>4. {q \in Proc : r.state[q] = "RUNNABLE"} = {q \in Proc : s.state[q] = "RUNNABLE"} \cup {p}
    BY <2>1, Fields
  <2>5. CASE p = s.current
    <3>1. WakeupProc(s, p) = r
      BY <1>4, <2>5 DEF WakeupProc, r
    <3>2. Sane(r)
      BY <2>1, <2>2, <2>3, <2>4, <2>5 DEF Sane
    <3> QED BY <2>1, <3>1, <3>2
  <2>6. CASE p # s.current
    <3>1. WakeupProc(s, p) = Enqueue(r, p)
      BY <1>4, <2>6 DEF WakeupProc, r
    <3>2. p \notin Queued(r)
      BY <1>4, <2>3
    <3> DEFINE e == Enqueue(r, p)
    <3>3. /\ e.ok = TRUE /\ Distinct(e.runq) /\ Queued(e) = Queued(r) \cup {p}
          /\ e.current = r.current /\ e.state = r.state /\ e.wait = r.wait
      <4>1. p \in Proc \ {Idle} /\ r \in SchedRecord /\ r.ok = TRUE /\ Distinct(r.runq)
        BY <2>1, <2>2 DEF Sane
      <4> QED BY <3>2, <4>1, EnqueueSane
    <3> HIDE DEF e
    <3>4. Sane(e)
      BY <2>1, <2>2, <2>3, <2>4, <2>6, <3>3 DEF Sane
    <3> QED BY <2>1, <3>1, <3>3, <3>4 DEF e
  <2> QED BY <2>5, <2>6
<1> QED BY <1>3, <1>4

(* Whatever state the current process is in when it calls schedule().      *)
LEMMA ScheduleSane ==
  ASSUME NEW s \in SchedRecord, Sane(s)
  PROVE  LET r == Schedule(s)
         IN  /\ Sane(r) /\ r.state = s.state /\ r.wait = s.wait
             /\ s.state[r.current] = "RUNNABLE"
<1> DEFINE a == [s EXCEPT !.resched[s.current] = FALSE]
           b == IF a.state[a.current] = "RUNNABLE" THEN Enqueue(a, a.current)
                ELSE a
           ready == {p \in Proc : s.state[p] = "RUNNABLE"}
<1>1. /\ a \in SchedRecord /\ a.ok = TRUE /\ a.runq = s.runq /\ a.current = s.current
      /\ a.state = s.state /\ a.wait = s.wait
  BY DEF SchedRecord, Sane
<1>2. Queued(a) = ready \ {s.current, Idle}
  BY <1>1 DEF Queued, Sane
<1> HIDE DEF a
<1>3. /\ b \in SchedRecord /\ b.ok = TRUE /\ Distinct(b.runq) /\ Queued(b) = ready \ {Idle}
      /\ b.state = s.state /\ b.wait = s.wait
  <2>1. CASE s.state[s.current] # "RUNNABLE"
    <3>1. b = a
      BY <1>1, <2>1
    <3>2. ready \ {s.current, Idle} = ready \ {Idle}
      BY <2>1
    <3> QED BY <1>1, <1>2, <3>1, <3>2 DEF Sane
  <2>2. CASE s.state[s.current] = "RUNNABLE" /\ s.current = Idle
    <3>1. b = a
      BY <1>1, <2>2 DEF Enqueue
    <3> QED BY <1>1, <1>2, <2>2, <3>1 DEF Sane
  <2>3. CASE s.state[s.current] = "RUNNABLE" /\ s.current # Idle
    <3>1. b = Enqueue(a, s.current) /\ s.current \in Proc \ {Idle} /\ s.current \in ready
      BY <1>1, <2>3, Fields
    <3>2. s.current \notin Queued(a) /\ Distinct(a.runq)
      BY <1>1, <1>2 DEF Sane
    <3> HIDE DEF b
    <3>3. /\ b.ok = TRUE /\ Distinct(b.runq) /\ Queued(b) = Queued(a) \cup {s.current}
          /\ b.state = s.state /\ b.wait = s.wait
      BY <1>1, <3>1, <3>2, EnqueueSane
    <3>4. b \in SchedRecord
      BY <1>1, <3>1, EnqueueType
    <3>5. Queued(b) = ready \ {Idle}
      BY <1>2, <3>1, <3>3
    <3> QED BY <3>3, <3>4, <3>5
  <2> QED BY <2>1, <2>2, <2>3
<1>4. Schedule(s) = IF b.runq = <<>> THEN [b EXCEPT !.current = Idle]
                    ELSE [b EXCEPT !.current = Head(b.runq), !.runq = Tail(b.runq)]
  BY DEF Schedule, a
<1> HIDE DEF b
<1> DEFINE r == Schedule(s)
<1>5. CASE b.runq = <<>>
  <2>1. r.current = Idle /\ r.runq = b.runq /\ r.ok = b.ok /\ r.state = b.state /\ r.wait = b.wait
    BY <1>3, <1>4, <1>5 DEF SchedRecord
  <2> HIDE DEF r
  <2>2. Queued(r) = ready \ {r.current, Idle}
    BY <1>3, <2>1 DEF Queued
  <2>3. Sane(r)
    BY <1>3, <2>1, <2>2 DEF Sane
  <2> QED BY <1>3, <2>1, <2>3 DEF r, Sane
<1>6. CASE b.runq # <<>>
  <2> DEFINE h == Head(b.runq)
             t == Tail(b.runq)
  <2>1. Elements(t) = Queued(b) \ {h} /\ h \in Queued(b) /\ Distinct(t)
    <3>1. b.runq \in Seq(Proc) /\ Elements(b.runq) = Queued(b)
      BY <1>3, Fields DEF Queued, Elements
    <3> QED BY <1>3, <1>6, <3>1, TailElements
  <2> HIDE DEF h, t
  <2>2. r.current = h /\ r.runq = t /\ r.ok = b.ok /\ r.state = b.state /\ r.wait = b.wait
    <3>1. r = [b EXCEPT !.current = h, !.runq = t]
      BY <1>4, <1>6 DEF h, t
    <3> HIDE DEF r
    <3> QED BY <1>3, <3>1 DEF SchedRecord
  <2> HIDE DEF r
  <2>3. Queued(r) = ready \ {r.current, Idle}
    BY <1>3, <2>1, <2>2 DEF Queued, Elements
  <2>4. Sane(r) /\ s.state[h] = "RUNNABLE"
    BY <1>3, <2>1, <2>2, <2>3 DEF Sane
  <2> QED BY <1>3, <2>2, <2>4 DEF r
<1> QED BY <1>5, <1>6

LEMMA SleepingSane ==
  ASSUME NEW s \in SchedRecord, Sane(s), s.current # Idle, NEW w, w # "none"
  PROVE  LET r == Sleeping(s, w)
         IN  /\ Sane(r) /\ r.current = s.current
             /\ r.state = [s.state EXCEPT ![s.current] = "SLEEPING"]
             /\ r.wait = [s.wait EXCEPT ![s.current] = w]
<1> DEFINE r == Sleeping(s, w)
<1>1. /\ r.ok = s.ok /\ r.runq = s.runq /\ r.current = s.current
      /\ r.state = [s.state EXCEPT ![s.current] = "SLEEPING"]
      /\ r.wait = [s.wait EXCEPT ![s.current] = w]
  BY DEF Sleeping, SchedRecord
<1> HIDE DEF r
<1>3. Queued(r) = {p \in Proc : r.state[p] = "RUNNABLE"} \ {r.current, Idle}
  BY <1>1, Fields DEF Queued, Sane
<1>4. Sane(r)
  BY <1>1, <1>3, Fields, SchedAssumption DEF Sane
<1> QED BY <1>1, <1>4 DEF r

(* In a tick and in RR_proc_tick only slices and flags change.             *)
LEMMA ProcTickSane ==
  ASSUME NEW s \in SchedRecord, Sane(s)
  PROVE  LET r == ProcTick(s)
         IN  /\ Sane(r) /\ r.current = s.current /\ r.state = s.state
             /\ r.wait = s.wait
<1> DEFINE r == ProcTick(s)
<1>1. /\ r.ok = s.ok /\ r.runq = s.runq /\ r.current = s.current
      /\ r.state = s.state /\ r.wait = s.wait
  BY DEF ProcTick, SchedRecord
<1> HIDE DEF r
<1>2. Queued(r) = Queued(s)
  BY <1>1 DEF Queued
<1> QED BY <1>1, <1>2 DEF Sane, r

(* From s to r some sleepers are woken, and nothing else happens to states *)
(* and wait states.                                                        *)
Woken(s, r) ==
  \A q \in Proc :
    \/ r.state[q] = s.state[q] /\ r.wait[q] = s.wait[q]
    \/ s.state[q] = "SLEEPING" /\ r.state[q] = "RUNNABLE" /\ r.wait[q] = "none"

(* Nobody outside the set W is woken.                                      *)
Spared(s, r, W) ==
  \A q \in Proc \ W : r.state[q] = s.state[q] /\ r.wait[q] = s.wait[q]

(* run_timer_list wakes the processes in W, those of v by their turns.     *)
LEMMA WakeAllSane ==
  ASSUME NEW s \in SchedRecord, Sane(s), NEW W \in SUBSET Proc,
         \A p \in W : s.state[p] = "SLEEPING",
         NEW v \in Seq(Proc), Distinct(v), Elements(v) = W \ {s.current}
  PROVE  LET r == WakeAll(s, W, v)
         IN  /\ Sane(r) /\ r.current = s.current /\ Woken(s, r)
             /\ \A p \in W : r.wait[p] = "none"
             /\ Spared(s, r, W)
<1> DEFINE r  == WakeAll(s, W, v)
           o  == s.ok /\ \A p \in W : s.state[p] # "ZOMBIE" /\ p \notin Queued(s)
           st == [p \in Proc |-> IF p \in W THEN "RUNNABLE" ELSE s.state[p]]
           wt == [p \in Proc |-> IF p \in W THEN "none" ELSE s.wait[p]]
           sl == [p \in Proc |-> IF p \in W \ {s.current} /\ s.slice[p] = 0
                                 THEN MaxSlice ELSE s.slice[p]]
           q  == s.runq \o v
<1>1. r = [s EXCEPT !.ok = o, !.state = st, !.wait = wt, !.slice = sl, !.runq = q]
  BY DEF WakeAll
<1>2. W \cap Queued(s) = {}
  BY DEF Sane
<1>3. o = TRUE
  BY <1>2 DEF Sane
<1>4. Distinct(q) /\ Elements(q) = Queued(s) \cup (W \ {s.current})
  <2>1. Elements(s.runq) = Queued(s)
    BY DEF Queued, Elements
  <2>2. s.runq \in Seq(Proc) /\ Distinct(s.runq)
    BY Fields DEF Sane
  <2> QED BY <1>2, <2>1, <2>2, JoinElements
<1>5. /\ \A p \in Proc : wt[p] # "none" <=> st[p] = "SLEEPING"
      /\ st[Idle] = "RUNNABLE" /\ Idle \notin W
  BY SchedAssumption DEF Sane
<1>6. {p \in Proc : st[p] = "RUNNABLE"} = {p \in Proc : s.state[p] = "RUNNABLE"} \cup W
  <2>1. \A p \in Proc : st[p] = "RUNNABLE" <=> p \in W \/ s.state[p] = "RUNNABLE"
    OBVIOUS
  <2> HIDE DEF st
  <2> QED BY <2>1
<1>11. \A p \in Proc :
         \/ st[p] = s.state[p] /\ wt[p] = s.wait[p]
         \/ s.state[p] = "SLEEPING" /\ st[p] = "RUNNABLE" /\ wt[p] = "none"
  OBVIOUS
<1> HIDE DEF o, st, wt, sl, q
<1>7. r.ok = o /\ r.state = st /\ r.wait = wt /\ r.runq = q /\ r.current = s.current
  BY <1>1 DEF SchedRecord
<1> HIDE DEF r
<1>8. Queued(r) = Queued(s) \cup (W \ {s.current})
  BY <1>4, <1>7 DEF Queued, Elements
<1>9. Queued(r) = {p \in Proc : r.state[p] = "RUNNABLE"} \ {r.current, Idle}
  BY <1>5, <1>6, <1>7, <1>8 DEF Sane
<1>10. Sane(r)
  BY <1>3, <1>4, <1>5, <1>7, <1>9 DEF Sane
<1>12. Woken(s, r)
  BY <1>7, <1>11 DEF Woken
<1>13. /\ \A p \in W : r.wait[p] = "none"
       /\ Spared(s, r, W)
  BY <1>7 DEF st, wt, Spared
<1> QED BY <1>7, <1>10, <1>12, <1>13 DEF r

LEMMA InOrderLists ==
  ASSUME NEW S, NEW w, Len(w) \in Nat, DOMAIN w \in SUBSET Nat, Distinct(w),
         NEW v \in InOrder(S, w)
  PROVE  v \in Seq(S) /\ Elements(v) = S /\ Distinct(v)
<1>1. v \in Seq(S)
  BY InOrderType
<1>2. Elements(v) = S
  BY DEF InOrder, Elements
<1>3. ASSUME NEW i \in DOMAIN v, NEW j \in DOMAIN v, v[i] = v[j], i < j
      PROVE  FALSE
  <2>1. PICK a, b \in DOMAIN w : a < b /\ w[a] = v[i] /\ w[b] = v[j]
    BY <1>3 DEF InOrder
  <2>2. a = b /\ a \in Nat
    BY <1>3, <2>1 DEF Distinct
  <2> QED BY <2>1, <2>2
<1>4. \A i, j \in DOMAIN v : i < j \/ i = j \/ j < i
  BY <1>1
<1> QED BY <1>1, <1>2, <1>3, <1>4 DEF Distinct

-----------------------------------------------------------------------------
(* A process has at most one timer in the list.                            *)
OneTimer(ts) == \A i, j \in DOMAIN ts : ts[i].proc = ts[j].proc => i = j

LEMMA AddTimerOne ==
  ASSUME NEW P, NEW ts \in Seq(Timer(P)), NEW p \in P, NEW n \in Nat,
         OneTimer(ts), p \notin Owners(ts)
  PROVE  OneTimer(AddTimer(ts, p, n))
<1> DEFINE before == {j \in DOMAIN ts : ts[j].left <= n}
           i   == Cardinality(before) + 1
           new == [proc |-> p, left |-> n]
           r   == InsertAt(ts, i, new)
<1>1. i \in 1..(Len(ts) + 1)
  <2>1. before \in SUBSET (1..Len(ts)) /\ Len(ts) \in Nat
    OBVIOUS
  <2> QED BY <2>1, CountPositions
<1>2. new \in Timer(P) /\ new.proc = p
  BY DEF Timer
<1>3. AddTimer(ts, p, n) = r
  BY DEF AddTimer
<1> HIDE DEF i, new
<1>4. /\ Len(r) = Len(ts) + 1 /\ r \in Seq(Timer(P))
      /\ \A j \in 1..(Len(ts) + 1) :
           r[j] = IF j < i THEN ts[j] ELSE IF j = i THEN new ELSE ts[j - 1]
  BY <1>1, <1>2, Inserted
<1> HIDE DEF r
<1> DEFINE at(j) == IF j < i THEN j ELSE j - 1
<1>5. ASSUME NEW j \in 1..(Len(ts) + 1), j # i
      PROVE  at(j) \in 1..Len(ts) /\ r[j] = ts[at(j)] /\ r[j].proc # p
  <2>1. at(j) \in 1..Len(ts) /\ r[j] = ts[at(j)]
    BY <1>1, <1>4, <1>5
  <2> QED BY <2>1 DEF Owners
<1>6. ASSUME NEW j \in 1..(Len(ts) + 1), NEW l \in 1..(Len(ts) + 1), r[j].proc = r[l].proc
      PROVE  j = l
  <2>1. CASE j = i \/ l = i
    <3>1. r[i].proc = p
      BY <1>1, <1>2, <1>4
    <3> QED BY <1>5, <1>6, <2>1, <3>1
  <2>2. CASE j # i /\ l # i
    <3>1. at(j) = at(l)
      BY <1>5, <1>6, <2>2 DEF OneTimer
    <3> QED BY <1>1, <2>2, <3>1
  <2> QED BY <2>1, <2>2
<1> QED BY <1>3, <1>4, <1>6 DEF OneTimer

LEMMA DelTimerOne ==
  ASSUME NEW P, NEW ts \in Seq(Timer(P)), NEW p \in P, OneTimer(ts)
  PROVE  OneTimer(DelTimer(ts, p)) /\ p \notin Owners(DelTimer(ts, p))
<1>1. CASE p \notin Owners(ts)
  BY <1>1 DEF DelTimer
<1>2. CASE p \in Owners(ts)
  <2> DEFINE i == CHOOSE j \in DOMAIN ts : ts[j].proc = p
             r == RemoveAt(ts, i)
  <2>1. i \in 1..Len(ts) /\ ts[i].proc = p
    BY <1>2 DEF Owners
  <2>2. DelTimer(ts, p) = r
    BY <1>2 DEF DelTimer
  <2> HIDE DEF i
  <2>3. /\ r \in Seq(Timer(P)) /\ Len(r) = Len(ts) - 1
        /\ \A j \in 1..(Len(ts) - 1) : r[j] = IF j < i THEN ts[j] ELSE ts[j + 1]
    BY <2>1, Removed
  <2> HIDE DEF r
  <2> DEFINE at(j) == IF j < i THEN j ELSE j + 1
  <2>4. ASSUME NEW j \in 1..(Len(ts) - 1)
        PROVE  at(j) \in 1..Len(ts) /\ at(j) # i /\ r[j] = ts[at(j)] /\ r[j].proc # p
    <3>1. at(j) \in 1..Len(ts) /\ at(j) # i /\ r[j] = ts[at(j)]
      BY <2>1, <2>3
    <3> QED BY <2>1, <3>1 DEF OneTimer
  <2>5. p \notin Owners(r)
    BY <2>3, <2>4 DEF Owners
  <2>6. ASSUME NEW j \in 1..(Len(ts) - 1), NEW l \in 1..(Len(ts) - 1), r[j].proc = r[l].proc
        PROVE  j = l
    <3>1. at(j) = at(l)
      BY <2>4, <2>6 DEF OneTimer
    <3> QED BY <2>1, <3>1
  <2>7. OneTimer(r)
    BY <2>3, <2>6 DEF OneTimer
  <2> QED BY <2>2, <2>5, <2>7
<1> QED BY <1>1, <1>2

LEMMA RunTimersOne ==
  ASSUME NEW ts \in Seq(Timer(Proc)), OneTimer(ts)
  PROVE  /\ OneTimer(RunTimers(ts)) /\ Owners(RunTimers(ts)) \subseteq Owners(ts)
         /\ Owners(ts) \ Elements(Expired(ts)) \subseteq Owners(RunTimers(ts))
         /\ Distinct(Expired(ts)) /\ Elements(Expired(ts)) \subseteq Owners(ts)
         /\ Expired(ts) \in Seq(Proc)
<1> DEFINE n == Expiring(ts)
           m == Len(ts) - n
           r == RunTimers(ts)
           e == Expired(ts)
<1>1. /\ n \in 0..Len(ts) /\ r \in Seq(Timer(Proc)) /\ Len(r) = m
      /\ \A i \in 1..m : r[i].proc = ts[n + i].proc
  BY RunTimersType
<1>2. e = [i \in 1..n |-> ts[i].proc]
  BY DEF Expired
<1> HIDE DEF n, r, e
<1>3. \A i \in 1..m : n + i \in DOMAIN ts
  BY <1>1
<1>4. \A i \in 1..n : i \in DOMAIN ts
  BY <1>1
<1>5. DOMAIN r = 1..m
  BY <1>1
<1>6. OneTimer(r)
  <2> SUFFICES ASSUME NEW i \in 1..m, NEW j \in 1..m, r[i].proc = r[j].proc PROVE i = j
    BY <1>5 DEF OneTimer
  <2>1. n + i \in DOMAIN ts /\ n + j \in DOMAIN ts /\ ts[n + i].proc = ts[n + j].proc
    BY <1>1, <1>3
  <2>2. n + i = n + j
    BY <2>1 DEF OneTimer
  <2> QED BY <1>1, <2>2
<1>7. Owners(r) \subseteq Owners(ts)
  BY <1>1, <1>3, <1>5 DEF Owners
<1>8. Distinct(e) /\ Elements(e) \subseteq Owners(ts)
  BY <1>2, <1>4 DEF Distinct, Elements, OneTimer, Owners
<1>9. e \in Seq(Proc)
  <2>1. ASSUME NEW i \in 1..n PROVE ts[i].proc \in Proc
    <3>1. ts[i] \in Timer(Proc)
      BY <1>4
    <3> QED BY <3>1 DEF Timer
  <2> QED BY <1>1, <1>2, <2>1
<1>10. ASSUME NEW i \in DOMAIN ts, ts[i].proc \notin Elements(e)
       PROVE  ts[i].proc \in Owners(r)
  <2>1. i \notin 1..n
    BY <1>2, <1>10 DEF Elements
  <2>2. i - n \in 1..m /\ n + (i - n) = i
    BY <1>1, <2>1
  <2>3. r[i - n].proc = ts[i].proc
    BY <1>1, <2>2
  <2> QED BY <1>5, <2>2, <2>3 DEF Owners
<1>11. Owners(ts) \ Elements(e) \subseteq Owners(r)
  BY <1>10 DEF Owners
<1> QED BY <1>6, <1>7, <1>8, <1>9, <1>11 DEF r, e

(* A tick when the owners of timers sleep or are runnable again.           *)
LEMMA TickedSane ==
  ASSUME NEW r \in SchedRecord, Sane(r), NEW ts \in Seq(Timer(Proc)), OneTimer(ts),
         \A q \in Owners(ts) : /\ r.state[q] \in {"RUNNABLE", "SLEEPING"}
                                /\ r.wait[q] # "WT_KSEM",
         NEW r2 \in Ticked(r, ts)
  PROVE  /\ Sane(r2) /\ r2.current = r.current /\ Woken(r, r2)
         /\ \A q \in Elements(Expired(ts)) : r2.wait[q] = "none"
         /\ Spared(r, r2, Elements(Expired(ts)))
<1> DEFINE owner == Expired(ts)
           due   == {owner[i] : i \in DOMAIN owner}
           woken == {q \in due : r.state[q] # "RUNNABLE"}
           sane  == \A q \in due : r.wait[q] \in Interruptible \cup {"none"}
           s     == [r EXCEPT !.ok = @ /\ sane]
<1>1. /\ owner \in Seq(Proc) /\ Distinct(owner) /\ due \subseteq Owners(ts)
      /\ due \subseteq Proc
  <2>1. owner \in Seq(Proc) /\ Distinct(owner) /\ Elements(owner) \subseteq Owners(ts)
    BY RunTimersOne
  <2> HIDE DEF owner
  <2> QED BY <2>1 DEF Elements
<1>2. PICK v \in InOrder(woken \ {r.current}, owner) : r2 = ProcTick(WakeAll(s, woken, v))
  BY DEF Ticked
<1>3. s = r
  <2>1. sane = TRUE
    <3> HIDE DEF due
    <3>1. \A q \in due : r.wait[q] \in WaitState /\ r.wait[q] # "WT_KSEM"
      BY <1>1, Fields
    <3> QED BY <3>1 DEF WaitState
  <2> HIDE DEF sane
  <2> QED BY <2>1 DEF Sane, SchedRecord
<1>4. woken \in SUBSET Proc /\ \A q \in woken : r.state[q] = "SLEEPING"
  <2> HIDE DEF due
  <2> QED BY <1>1
<1> HIDE DEF s, woken, owner
<1>5. v \in Seq(woken \ {r.current}) /\ Elements(v) = woken \ {r.current} /\ Distinct(v)
  <2>1. Len(owner) \in Nat /\ DOMAIN owner \in SUBSET Nat
    BY <1>1
  <2> QED BY <1>1, <1>2, <2>1, InOrderLists
<1>6. v \in Seq(Proc)
  BY <1>4, <1>5
<1> DEFINE w == WakeAll(r, woken, v)
<1>7. /\ Sane(w) /\ w.current = r.current /\ Woken(r, w)
      /\ \A q \in woken : w.wait[q] = "none"
      /\ Spared(r, w, woken)
  <2> HIDE DEF w
  <2> QED BY <1>4, <1>5, <1>6, WakeAllSane DEF w
<1>8. w \in SchedRecord
  BY <1>4, <1>6, WakeAllType
<1> HIDE DEF w
<1>9. /\ Sane(ProcTick(w)) /\ ProcTick(w).current = r.current
      /\ ProcTick(w).state = w.state /\ ProcTick(w).wait = w.wait
  BY <1>7, <1>8, ProcTickSane
<1>10. r2 = ProcTick(w)
  BY <1>2, <1>3 DEF w
<1>11. Woken(r, r2)
  BY <1>7, <1>9, <1>10 DEF Woken
<1>12. \A q \in due : r2.wait[q] = "none"
  <2> SUFFICES ASSUME NEW q \in due PROVE r2.wait[q] = "none"
    OBVIOUS
  <2> HIDE DEF due
  <2>1. q \in Proc /\ (q \in woken \/ r.state[q] = "RUNNABLE")
    BY <1>1 DEF woken
  <2>2. CASE q \in woken
    BY <1>7, <1>9, <1>10, <2>2
  <2>3. CASE r.state[q] = "RUNNABLE"
    BY <1>9, <1>10, <1>11, <2>1, <2>3 DEF Woken, Sane
  <2> QED BY <2>1, <2>2, <2>3
<1>13. Spared(r, r2, due)
  <2>1. woken \subseteq due
    BY DEF woken
  <2> HIDE DEF due
  <2> QED BY <1>7, <1>9, <1>10, <2>1 DEF Spared
<1> QED BY <1>9, <1>10, <1>11, <1>12, <1>13 DEF Elements, owner
=============================================================================

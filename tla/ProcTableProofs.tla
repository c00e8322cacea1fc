-------------------------- MODULE ProcTableProofs ---------------------------
(***************************************************************************)
(* Theorems about the table of processes (module ProcTable), for every     *)
(* MAX_PID and MAX_PROCESS, any finite number of processes and every       *)
(* history of forks, exits and waits.                                      *)
(*                                                                         *)
(* First get_pid: no two processes have the same pid.  The inductive       *)
(* invariant is Gap, which says what the two numbers that get_pid keeps    *)
(* between calls mean, and which a process that goes away cannot disturb.  *)
(* Then the family: the sibling lists are whole (Shape).  Then the two     *)
(* together: proc_list has the pids of the processes that there are, each  *)
(* once (TableInv).  Last the refinement: the sibling pointers implement   *)
(* the lists of children of module Family, step by step.                   *)
(***************************************************************************)
EXTENDS ProcTable, SequenceTheorems, FiniteSetTheorems, WellFoundedInduction, TLAPS

(* Removing an element of a sequence, element by element.                  *)
LEMMA Removed ==
  ASSUME NEW S, NEW s \in Seq(S), NEW i \in 1..Len(s)
  PROVE  /\ RemoveAt(s, i) \in Seq(S)
         /\ Len(RemoveAt(s, i)) = Len(s) - 1
         /\ \A j \in 1..(Len(s) - 1) :
              RemoveAt(s, i)[j] = IF j < i THEN s[j] ELSE s[j + 1]
<1> DEFINE a == SubSeq(s, 1, i - 1)
           b == SubSeq(s, i + 1, Len(s))
<1>1. /\ a \in Seq(S) /\ Len(a) = i - 1
      /\ \A j \in 1..(i - 1) : a[j] = s[j]
  BY SubSeqProperties
<1>2. /\ b \in Seq(S) /\ Len(b) = Len(s) - i
      /\ \A j \in 1..(Len(s) - i) : b[j] = s[i + 1 + j - 1]
  BY SubSeqProperties
<1> HIDE DEF a, b
<1>3. /\ a \o b \in Seq(S) /\ Len(a \o b) = Len(s) - 1
      /\ \A j \in 1..(Len(s) - 1) :
           (a \o b)[j] = IF j <= i - 1 THEN a[j] ELSE b[j - (i - 1)]
  <2>1. /\ a \o b \in Seq(S) /\ Len(a \o b) = Len(a) + Len(b)
        /\ \A j \in 1..(Len(a) + Len(b)) :
             (a \o b)[j] = IF j <= Len(a) THEN a[j] ELSE b[j - Len(a)]
    BY <1>1, <1>2, ConcatProperties
  <2>2. Len(a) + Len(b) = Len(s) - 1
    BY <1>1, <1>2
  <2> QED BY <1>1, <2>1, <2>2
<1>4. ASSUME NEW j \in 1..(Len(s) - 1)
      PROVE  (a \o b)[j] = IF j < i THEN s[j] ELSE s[j + 1]
  <2>1. CASE j < i
    BY <1>1, <1>3, <2>1
  <2>2. CASE ~(j < i)
    <3> DEFINE d == j - (i - 1)
    <3>1. d \in 1..(Len(s) - i) /\ i + 1 + d - 1 = j + 1 /\ ~(j <= i - 1)
      BY <2>2
    <3>2. (a \o b)[j] = b[d]
      BY <1>3, <3>1
    <3>3. b[d] = s[i + 1 + d - 1]
      <4> HIDE DEF d
      <4> QED BY <1>2, <3>1
    <3> HIDE DEF d
    <3> QED BY <2>2, <3>1, <3>2, <3>3
  <2> QED BY <2>1, <2>2
<1>5. RemoveAt(s, i) = a \o b
  BY DEF RemoveAt, a, b
<1> QED BY <1>3, <1>4, <1>5

(* Putting an element in front of a sequence.                              *)
LEMMA Prepended ==
  ASSUME NEW S, NEW s \in Seq(S), NEW e \in S
  PROVE  /\ <<e>> \o s \in Seq(S) /\ Len(<<e>> \o s) = Len(s) + 1
         /\ \A i \in 1..Len(<<e>> \o s) :
              (<<e>> \o s)[i] = IF i = 1 THEN e ELSE s[i - 1]
<1> DEFINE m == <<e>>
<1>1. m \in Seq(S) /\ Len(m) = 1 /\ m[1] = e
  OBVIOUS
<1> HIDE DEF m
<1>2. /\ m \o s \in Seq(S) /\ Len(m \o s) = Len(m) + Len(s)
      /\ \A i \in 1..(Len(m) + Len(s)) :
           (m \o s)[i] = IF i <= Len(m) THEN m[i] ELSE s[i - Len(m)]
  BY <1>1, ConcatProperties
<1>3. Len(s) \in Nat
  OBVIOUS
<1>4. /\ m \o s \in Seq(S) /\ Len(m \o s) = Len(s) + 1
      /\ \A i \in 1..Len(m \o s) : (m \o s)[i] = IF i = 1 THEN e ELSE s[i - 1]
  BY <1>1, <1>2, <1>3
<1> QED
  BY <1>4 DEF m

IInv == TypeOK /\ Unique /\ Gap

LEMMA InitInv == Init => IInv
  BY PidAssumption DEF Init, IInv, TypeOK, Unique, Gap, Between, Pid

LEMMA PidsAreNat ==
  ASSUME IInv, NEW i \in 1..Len(list)
  PROVE  list[i] \in 1..(MaxPid - 1) /\ list[i] \in Nat
<1>1. list \in Seq(Pid)
  BY DEF IInv, TypeOK
<1>2. list[i] \in Pid
  BY <1>1
<1> QED BY <1>2, PidAssumption DEF Pid

(* The loop begins: nothing has been passed yet.                           *)
LEMMA StartsOverInv ==
  ASSUME IInv, NEW first \in 1..(MaxPid - 1), StartsOver(first), UNCHANGED list
  PROVE  IInv'
  BY PidAssumption DEF IInv, TypeOK, Unique, Gap, Between, StartsOver

LEMMA CallInv == IInv /\ Call => IInv'
<1> SUFFICES ASSUME IInv, Call PROVE IInv'
  OBVIOUS
<1>1. UNCHANGED list /\ pc = "idle" /\ last_pid \in Nat /\ next_safe \in 1..MaxPid
  BY DEF Call, IInv, TypeOK
<1>2. CASE last_pid + 1 >= MaxPid /\ StartsOver(1)
  BY <1>1, <1>2, StartsOverInv, PidAssumption
<1>3. CASE /\ last_pid + 1 < MaxPid /\ last_pid + 1 >= next_safe
           /\ StartsOver(last_pid + 1)
  <2>1. last_pid + 1 \in 1..(MaxPid - 1)
    BY <1>1, <1>3, PidAssumption
  <2> QED BY <1>1, <1>3, <2>1, StartsOverInv
<1>4. CASE /\ last_pid + 1 < next_safe
           /\ last_pid' = last_pid + 1 /\ pc' = "found"
           /\ UNCHANGED <<next_safe, le>>
  <2>1. ASSUME NEW i \in 1..Len(list)
        PROVE  list[i] # last_pid + 1 /\ ~(last_pid + 1 < list[i] /\ list[i] < next_safe)
    <3>1. list[i] \in Nat
      BY PidsAreNat
    <3>2. ~(last_pid < list[i] /\ list[i] < next_safe)
      BY <1>1 DEF IInv, Gap, Between
    <3> QED BY <1>1, <1>4, <3>1, <3>2
  <2> QED BY <1>1, <1>4, <2>1, PidAssumption DEF IInv, TypeOK, Unique, Gap, Between
<1> QED BY <1>2, <1>3, <1>4 DEF Call

LEMMA TakenInv == IInv /\ Taken => IInv'
<1> SUFFICES ASSUME IInv, Taken PROVE IInv'
  OBVIOUS
<1>1. /\ UNCHANGED list /\ pc = "scan" /\ le \in 1..Len(list) /\ list[le] = last_pid
      /\ last_pid \in 1..(MaxPid - 1) /\ next_safe \in 1..MaxPid
  BY PidAssumption DEF Taken, IInv, TypeOK, Gap
<1>2. CASE last_pid + 1 >= next_safe
  <2>1. PICK first \in 1..(MaxPid - 1) : StartsOver(first)
    BY <1>1, <1>2, PidAssumption DEF Taken
  <2> QED BY <1>1, <2>1, StartsOverInv
<1>3. CASE last_pid + 1 < next_safe
  <2>1. last_pid' = last_pid + 1 /\ le' = le + 1 /\ UNCHANGED <<next_safe, pc>>
    BY <1>1, <1>3 DEF Taken
  <2>2. ASSUME NEW i \in 1..Len(list), i < le + 1
        PROVE  list[i] # last_pid + 1 /\ ~(last_pid + 1 < list[i] /\ list[i] < next_safe)
    <3>1. list[i] \in Nat
      BY PidsAreNat
    <3>2. i = le \/ ~(last_pid < list[i] /\ list[i] < next_safe)
      BY <1>1, <2>2 DEF IInv, TypeOK, Gap, Between
    <3> QED BY <1>1, <1>3, <3>1, <3>2
  <2> QED BY <1>1, <1>3, <2>1, <2>2, PidAssumption
             DEF IInv, TypeOK, Unique, Gap, Between
<1> QED BY <1>1, <1>2, <1>3

LEMMA FreeInv == IInv /\ Free => IInv'
<1> SUFFICES ASSUME IInv, Free PROVE IInv'
  OBVIOUS
<1>1. /\ UNCHANGED <<list, last_pid, pc>> /\ pc = "scan" /\ le \in 1..Len(list)
      /\ list[le] # last_pid /\ le' = le + 1
      /\ last_pid \in 1..MaxPid /\ next_safe \in 1..MaxPid
  BY DEF Free, IInv, TypeOK
<1>2. list[le] \in 1..(MaxPid - 1)
  BY <1>1, PidsAreNat
<1>3. /\ next_safe' \in 1..MaxPid /\ next_safe' <= next_safe
      /\ ~(last_pid < list[le] /\ list[le] < next_safe')
  BY <1>1, <1>2, PidAssumption DEF Free
<1>4. ASSUME NEW i \in 1..Len(list), i < le + 1
      PROVE  list[i] # last_pid /\ ~(last_pid < list[i] /\ list[i] < next_safe')
  <2>1. list[i] \in Nat
    BY PidsAreNat
  <2>2. i = le \/ (list[i] # last_pid /\ ~(last_pid < list[i] /\ list[i] < next_safe))
    BY <1>1, <1>4 DEF IInv, TypeOK, Gap, Between
  <2> QED BY <1>1, <1>3, <2>1, <2>2
<1> QED BY <1>1, <1>3, <1>4 DEF IInv, TypeOK, Unique, Gap, Between

LEMMA FoundInv == IInv /\ Found => IInv'
<1> SUFFICES ASSUME IInv, Found PROVE IInv'
  OBVIOUS
<1>1. \A i \in 1..Len(list) : i < le
  BY DEF Found, IInv, TypeOK
<1> QED BY <1>1 DEF Found, IInv, TypeOK, Unique, Gap, Between

LEMMA LinkInv == IInv /\ Link => IInv'
<1> SUFFICES ASSUME IInv, Link PROVE IInv'
  OBVIOUS
<1>1. /\ list \in Seq(Pid) /\ last_pid \in Pid
      /\ list' = <<last_pid>> \o list /\ pc = "found" /\ pc' = "idle"
      /\ UNCHANGED <<last_pid, next_safe, le>>
  BY PidAssumption DEF Link, IInv, TypeOK, Gap, Pid
<1>2. /\ list' \in Seq(Pid) /\ Len(list') = Len(list) + 1
      /\ \A i \in 1..Len(list') : list'[i] = IF i = 1 THEN last_pid ELSE list[i - 1]
  BY <1>1, Prepended
<1>3. \A i \in 1..Len(list) : list[i] # last_pid /\ ~(last_pid < list[i] /\ list[i] < next_safe)
  BY <1>1 DEF IInv, Unique, Gap, Between
<1>4. \A i, j \in 1..Len(list) : list[i] = list[j] => i = j
  BY DEF IInv, Unique
<1>5. ASSUME NEW i \in 1..Len(list'), NEW j \in 1..Len(list'), list'[i] = list'[j]
      PROVE  i = j
  <2>1. Len(list) \in Nat
    BY <1>1
  <2>2. i # 1 => i - 1 \in 1..Len(list)
    BY <1>2, <2>1
  <2>3. j # 1 => j - 1 \in 1..Len(list)
    BY <1>2, <2>1
  <2> QED BY <1>2, <1>3, <1>4, <1>5, <2>2, <2>3
<1>6. ASSUME NEW i \in 1..Len(list')
      PROVE  ~(last_pid < list'[i] /\ list'[i] < next_safe)
  <2>1. i # 1 => i - 1 \in 1..Len(list)
    BY <1>1, <1>2
  <2>2. last_pid \in Nat
    BY <1>1 DEF Pid
  <2> QED BY <1>2, <1>3, <2>1, <2>2
<1> QED BY <1>1, <1>2, <1>5, <1>6 DEF IInv, TypeOK, Unique, Gap, Between

LEMMA UnlinkInv == IInv /\ Unlink => IInv'
<1> SUFFICES ASSUME IInv, Unlink PROVE IInv'
  OBVIOUS
<1>1. /\ list \in Seq(Pid) /\ pc = "idle"
      /\ UNCHANGED <<last_pid, next_safe, pc, le>>
  BY DEF Unlink, IInv, TypeOK
<1>2. PICK n \in 1..Len(list) : list' = RemoveAt(list, n)
  BY DEF Unlink
<1>3. /\ list' \in Seq(Pid) /\ Len(list') = Len(list) - 1
      /\ \A i \in 1..(Len(list) - 1) : list'[i] = IF i < n THEN list[i] ELSE list[i + 1]
  BY <1>1, <1>2, Removed
<1>4. ASSUME NEW i \in 1..Len(list'), NEW j \in 1..Len(list'), list'[i] = list'[j]
      PROVE  i = j
  <2>1. /\ i \in 1..Len(list) /\ i + 1 \in 1..Len(list)
        /\ j \in 1..Len(list) /\ j + 1 \in 1..Len(list)
    BY <1>1, <1>3
  <2>2. \A a, b \in 1..Len(list) : list[a] = list[b] => a = b
    BY DEF IInv, Unique
  <2> QED BY <1>3, <1>4, <2>1, <2>2
<1>5. ASSUME NEW i \in 1..Len(list') PROVE ~(last_pid < list'[i] /\ list'[i] < next_safe)
  <2>1. i \in 1..Len(list) /\ i + 1 \in 1..Len(list)
    BY <1>1, <1>3
  <2>2. \A a \in 1..Len(list) : ~(last_pid < list[a] /\ list[a] < next_safe)
    BY <1>1 DEF IInv, Gap, Between
  <2> QED BY <1>3, <2>1, <2>2
<1> QED BY <1>1, <1>3, <1>4, <1>5 DEF IInv, TypeOK, Unique, Gap, Between

LEMMA PidStep == IInv /\ [Next]_vars => IInv'
<1> SUFFICES ASSUME IInv, [Next]_vars PROVE IInv'
  OBVIOUS
<1>1. CASE UNCHANGED vars
  BY <1>1 DEF vars, IInv, TypeOK, Unique, Gap, Between
<1> QED BY <1>1, CallInv, TakenInv, FreeInv, FoundInv, LinkInv, UnlinkInv DEF Next

LEMMA PidInv == Spec => []IInv
  BY InitInv, PidStep, PTL DEF Spec

(* "get_pid - alloc a unique pid for process": it does.                    *)
THEOREM PidsUnique == Spec => []Unique
<1>1. IInv => Unique
  BY DEF IInv
<1> QED BY <1>1, PidInv, PTL

(* What the two numbers kept between calls mean.                           *)
THEOREM GapHolds == Spec => []Gap
<1>1. IInv => Gap
  BY DEF IInv
<1> QED BY <1>1, PidInv, PTL

-----------------------------------------------------------------------------
(* The table of processes keeps what get_pid needs: fork and wait change   *)
(* proc_list as get_pid's loop lets them, and exit not at all, so that pids *)
(* are unique whatever the family of a process does.                       *)
(* proc_init leaves init with pid 1, which last_pid says.                  *)
LEMMA TableInitInv == TableInit => IInv
<1> SUFFICES ASSUME TableInit PROVE IInv
  OBVIOUS
<1>1. /\ list = <<1>> /\ last_pid = 1 /\ next_safe = MaxPid /\ pc = "idle" /\ le = 1
  BY DEF TableInit
<1>2. 1 \in Pid /\ MaxPid \in Nat
  BY PidAssumption DEF Pid
<1>3. list \in Seq(Pid) /\ Len(list) = 1
  BY <1>1, <1>2
<1>4. \A i \in 1..Len(list) : list[i] = 1
  BY <1>1, <1>3
<1> QED BY <1>1, <1>2, <1>3, <1>4, PidAssumption DEF IInv, TypeOK, Unique, Gap, Between

(* Every step of the table is a step of get_pid and of proc_list, or none. *)
LEMMA TableStep == [TableNext]_tvars => [Next]_vars
<1> SUFFICES ASSUME [TableNext]_tvars PROVE [Next]_vars
  OBVIOUS
<1>1. CASE \E p \in Proc : BeginFork(p)
  BY <1>1 DEF BeginFork, Next
<1>2. CASE \E p \in Proc : Exit(p)
  BY <1>2 DEF Exit, pids, vars
<1>3. CASE EndFork
  BY <1>3 DEF EndFork, Next
<1>4. CASE Scan
  BY <1>4 DEF Scan, Next
<1>5. CASE Adopts
  BY <1>5 DEF Adopts, pids, vars
<1>6. CASE \E p, z \in Proc : Reap(p, z)
  BY <1>6 DEF Reap, Next
<1>7. CASE UNCHANGED tvars
  BY <1>7 DEF tvars, pids, vars
<1> QED BY <1>1, <1>2, <1>3, <1>4, <1>5, <1>6, <1>7 DEF TableNext

(* In the table as a whole, with processes that exit and are adopted in    *)
(* between, no two processes have the same pid.                            *)
THEOREM TablePidsUnique == TableSpec => []Unique
<1>1. IInv /\ [TableNext]_tvars => IInv'
  BY TableStep, PidStep
<1>2. IInv => Unique
  BY DEF IInv
<1> QED BY <1>1, <1>2, TableInitInv, PTL DEF TableSpec

-----------------------------------------------------------------------------
(* The family.  Outside the loop of do_exit, every sibling list is linked  *)
(* both ways (DoublyLinked).  In the loop the first child that is left to  *)
(* the leaving process still points to the sibling that has just been      *)
(* given away, so the invariant looks at yptr only where the code does:    *)
(* Younger(c) is the sibling before c, unless c is the one in cptr.        *)
Slots == Proc \cup {Null}

Pointers == [parent : [Proc -> Slots], cptr : [Proc -> Slots],
             yptr : [Proc -> Slots], optr : [Proc -> Slots]]

LinksOK ==
  /\ f \in Pointers
  /\ state \in [Proc -> {"none", "live", "zombie"}]
  /\ leaving \in Slots
  /\ state[Idle] = "live" /\ state[InitProc] = "live"
  /\ leaving # Null => state[leaving] = "zombie"

(* Only the process that is leaving has children although it is a zombie.  *)
Parents ==
  \A c \in Named :
    /\ f.parent[c] \in Proc /\ Links!Exists(f.parent[c])
    /\ state[f.parent[c]] = "zombie" => f.parent[c] = leaving

Youngest(c) == f.cptr[f.parent[c]] = c

Siblings ==
  \A c \in Named :
    /\ ~Youngest(c) =>
         /\ f.yptr[c] \in Named /\ f.optr[f.yptr[c]] = c
         /\ f.parent[f.yptr[c]] = f.parent[c]
    /\ f.optr[c] # Null =>
         /\ f.optr[c] \in Named /\ f.yptr[f.optr[c]] = c
         /\ f.parent[f.optr[c]] = f.parent[c] /\ ~Youngest(f.optr[c])

Heads ==
  \A p \in Proc : Links!Exists(p) /\ f.cptr[p] # Null =>
    /\ f.cptr[p] \in Named /\ f.parent[f.cptr[p]] = p
    /\ p # leaving => f.yptr[f.cptr[p]] = Null

(* No siblings stand in a ring: of any processes, one has no younger       *)
(* sibling among them.  With that, a process without cptr has no children. *)
Younger(c) == IF Youngest(c) THEN Null ELSE f.yptr[c]

Lined == \A S \in SUBSET Named : S # {} => \E c \in S : Younger(c) \notin S

Shape == LinksOK /\ Parents /\ Siblings /\ Heads /\ Lined

(* set_links and the assignment to cptr before it, pointer by pointer.     *)
Relinked(x, v, p, c) == Links!Linked([f EXCEPT !.cptr[x] = v], p, c)

LEMMA LinkedPointers ==
  ASSUME NEW x \in Proc, NEW v \in Slots, NEW p \in Proc, NEW c \in Proc, p # x,
         f \in Pointers, f' = Relinked(x, v, p, c)
  PROVE  /\ f' \in Pointers
         /\ \A q \in Proc :
              /\ f'.parent[q] = IF q = c THEN p ELSE f.parent[q]
              /\ f'.optr[q] = IF q = c THEN f.cptr[p] ELSE f.optr[q]
              /\ f'.yptr[q] = IF q = c THEN Null ELSE IF q = f.cptr[p] THEN c ELSE f.yptr[q]
              /\ f'.cptr[q] = IF q = p THEN c ELSE IF q = x THEN v ELSE f.cptr[q]
<1> DEFINE g == [f EXCEPT !.cptr[x] = v]
<1>1. /\ g \in Pointers /\ g.parent = f.parent /\ g.optr = f.optr /\ g.yptr = f.yptr
      /\ g.cptr = [f.cptr EXCEPT ![x] = v]
  BY DEF Pointers
<1> HIDE DEF g
<1>2. /\ f'.parent = [g.parent EXCEPT ![c] = p]
      /\ f'.optr = [g.optr EXCEPT ![c] = g.cptr[p]]
      /\ f'.yptr = [q \in Proc |-> IF q = c THEN Null
                                   ELSE IF q = g.cptr[p] THEN c ELSE g.yptr[q]]
      /\ f'.cptr = [g.cptr EXCEPT ![p] = c]
      /\ f' = [parent |-> f'.parent, optr |-> f'.optr, yptr |-> f'.yptr, cptr |-> f'.cptr]
  BY DEF g, Relinked, Links!Linked
<1>3. /\ f.parent \in [Proc -> Slots] /\ f.optr \in [Proc -> Slots]
      /\ f.yptr \in [Proc -> Slots] /\ f.cptr \in [Proc -> Slots]
  BY DEF Pointers
<1>4. g.cptr \in [Proc -> Slots] /\ g.cptr[p] = f.cptr[p]
  BY <1>1, <1>3
<1>5. /\ f'.parent \in [Proc -> Slots] /\ f'.optr \in [Proc -> Slots]
      /\ f'.yptr \in [Proc -> Slots] /\ f'.cptr \in [Proc -> Slots]
  <2>1. p \in Slots /\ c \in Slots /\ Null \in Slots /\ f.cptr[p] \in Slots
    BY <1>3 DEF Slots
  <2>2. f'.parent \in [Proc -> Slots]
    BY <1>1, <1>2, <1>3, <2>1
  <2>3. f'.optr \in [Proc -> Slots]
    BY <1>1, <1>2, <1>3, <1>4, <2>1
  <2>4. f'.yptr \in [Proc -> Slots]
    BY <1>1, <1>2, <1>3, <2>1
  <2>5. f'.cptr \in [Proc -> Slots]
    BY <1>2, <1>4, <2>1
  <2> QED
    BY <2>2, <2>3, <2>4, <2>5
<1>6. f' \in Pointers
  BY <1>2, <1>5 DEF Pointers
<1> QED
  BY <1>1, <1>2, <1>3, <1>4, <1>6

(* remove_links, pointer by pointer.                                       *)
LEMMA UnlinkedPointers ==
  ASSUME NEW z \in Proc, f \in Pointers, f' = Links!Unlinked(f, z)
  PROVE  /\ f' \in Pointers
         /\ \A q \in Proc :
              /\ f'.parent[q] = f.parent[q]
              /\ f'.optr[q] = IF q = f.yptr[z] THEN f.optr[z] ELSE f.optr[q]
              /\ f'.yptr[q] = IF q = f.optr[z] THEN f.yptr[z] ELSE f.yptr[q]
              /\ f'.cptr[q] = IF f.yptr[z] = Null /\ q = f.parent[z] THEN f.optr[z]
                              ELSE f.cptr[q]
<1>1. /\ f.parent \in [Proc -> Slots] /\ f.optr \in [Proc -> Slots]
      /\ f.yptr \in [Proc -> Slots] /\ f.cptr \in [Proc -> Slots]
  BY DEF Pointers
<1>2. /\ f'.parent = f.parent
      /\ f'.optr = [q \in Proc |-> IF q = f.yptr[z] THEN f.optr[z] ELSE f.optr[q]]
      /\ f'.yptr = [q \in Proc |-> IF q = f.optr[z] THEN f.yptr[z] ELSE f.yptr[q]]
      /\ f'.cptr = [q \in Proc |-> IF f.yptr[z] = Null /\ q = f.parent[z] THEN f.optr[z]
                                   ELSE f.cptr[q]]
  BY DEF Links!Unlinked, Pointers
<1>3. f' \in Pointers
  <2>1. /\ f'.parent \in [Proc -> Slots] /\ f'.optr \in [Proc -> Slots]
        /\ f'.yptr \in [Proc -> Slots] /\ f'.cptr \in [Proc -> Slots]
    BY <1>1, <1>2
  <2>2. f' = [parent |-> f'.parent, cptr |-> f'.cptr, yptr |-> f'.yptr, optr |-> f'.optr]
    BY DEF Links!Unlinked, Pointers
  <2> QED
    BY <2>1, <2>2 DEF Pointers
<1> QED
  BY <1>1, <1>2, <1>3

(* A process that has no youngest child has none.                          *)
LEMMA Childless ==
  ASSUME Shape, NEW p \in Proc, f.cptr[p] = Null
  PROVE  \A c \in Named : f.parent[c] # p
<1> DEFINE S == {c \in Named : f.parent[c] = p}
<1> SUFFICES ASSUME S # {} PROVE FALSE
  OBVIOUS
<1>1. PICK c \in S : Younger(c) \notin S
  BY DEF Shape, Lined
<1>2. c \in Named /\ f.parent[c] = p /\ c # Null
  BY TableAssumption DEF Named
<1>3. ~Youngest(c)
  BY <1>2 DEF Youngest
<1>4. f.yptr[c] \in Named /\ f.parent[f.yptr[c]] = p
  BY <1>2, <1>3 DEF Shape, Siblings
<1> QED
  BY <1>1, <1>3, <1>4 DEF Younger

LEMMA FamilyInit == ASSUME TableInit PROVE Shape
<1> USE TableAssumption
<1>1. /\ f = [parent |-> [p \in Proc |-> IF p = InitProc THEN Idle ELSE Null],
              cptr   |-> [p \in Proc |-> IF p = Idle THEN InitProc ELSE Null],
              yptr   |-> [p \in Proc |-> Null],
              optr   |-> [p \in Proc |-> Null]]
      /\ state = [p \in Proc |-> IF p \in {Idle, InitProc} THEN "live" ELSE "none"]
      /\ leaving = Null
  BY DEF TableInit, Links!Init
<1>2. Named = {InitProc}
  BY <1>1 DEF Named, Links!Exists
<1>3. f.parent[InitProc] = Idle /\ f.cptr[Idle] = InitProc /\ Youngest(InitProc)
  BY <1>1 DEF Youngest
<1>4. LinksOK
  <2>1. f \in Pointers
    BY <1>1 DEF Pointers, Slots
  <2> QED
    BY <1>1, <2>1 DEF LinksOK, Slots
<1>5. Parents
  BY <1>1, <1>2, <1>3 DEF Parents, Links!Exists
<1>6. Siblings
  BY <1>1, <1>2, <1>3 DEF Siblings
<1>7. Heads
  BY <1>1, <1>2, <1>3 DEF Heads
<1>8. Lined
  BY <1>2, <1>3 DEF Lined, Younger
<1> QED
  BY <1>4, <1>5, <1>6, <1>7, <1>8 DEF Shape

(* A new child: nobody is a sibling of a free slot or has it as parent.    *)
LEMMA FamilyFork ==
  ASSUME Shape, NEW p \in Proc, NEW c \in Proc, Links!Fork(p, c)
  PROVE  Shape'
<1> USE TableAssumption
<1> DEFINE h == f.cptr[p]
<1>1. /\ leaving = Null /\ leaving' = Null /\ state[p] = "live" /\ p # Idle /\ p # c
      /\ state[c] = "none" /\ state' = [state EXCEPT ![c] = "live"]
      /\ c # Idle /\ c # InitProc /\ c # Null /\ c \notin Named
      /\ f' = Relinked(c, Null, p, c)
  BY DEF Links!Fork, Links!May, Links!Exists, Shape, LinksOK, Named, Relinked
<1>2. /\ f' \in Pointers
      /\ \A q \in Proc :
           /\ f'.parent[q] = IF q = c THEN p ELSE f.parent[q]
           /\ f'.optr[q] = IF q = c THEN h ELSE f.optr[q]
           /\ f'.yptr[q] = IF q = c THEN Null ELSE IF q = h THEN c ELSE f.yptr[q]
           /\ f'.cptr[q] = IF q = p THEN c ELSE IF q = c THEN Null ELSE f.cptr[q]
  BY <1>1, LinkedPointers DEF Shape, LinksOK, Slots
<1>3. /\ Named' = Named \cup {c} /\ p \in Named /\ p \in Proc /\ Named \subseteq Proc
      /\ \A q \in Proc : state'[q] = IF q = c THEN "live" ELSE state[q]
  BY <1>1 DEF Named, Links!Exists, Shape, LinksOK
<1>4. \A q \in Named : f.parent[q] \in Proc /\ f.parent[q] # c
  BY <1>1 DEF Shape, Parents, Links!Exists
<1>5. h # Null => h \in Named /\ f.parent[h] = p /\ f.yptr[h] = Null /\ h # c
  BY <1>1 DEF Shape, Heads, Links!Exists, Named
<1>6. /\ Youngest(c)'
      /\ \A q \in Named : Youngest(q)' <=> Youngest(q) /\ q # h
  BY <1>1, <1>2, <1>3, <1>4, <1>5 DEF Youngest
<1>7. LinksOK'
  BY <1>1, <1>2, <1>3 DEF Shape, LinksOK
<1>8. Parents'
  BY <1>1, <1>2, <1>3 DEF Shape, Parents, Links!Exists
<1>9. Siblings'
  <2> SUFFICES ASSUME NEW q \in Named'
               PROVE  /\ ~Youngest(q)' =>
                           /\ f'.yptr[q] \in Named' /\ f'.optr[f'.yptr[q]] = q
                           /\ f'.parent[f'.yptr[q]] = f'.parent[q]
                      /\ f'.optr[q] # Null =>
                           /\ f'.optr[q] \in Named' /\ f'.yptr[f'.optr[q]] = q
                           /\ f'.parent[f'.optr[q]] = f'.parent[q]
                           /\ f'.cptr[f'.parent[f'.optr[q]]] # f'.optr[q]
    BY DEF Siblings, Youngest
  <2>1. CASE q = c
    BY <1>1, <1>2, <1>3, <1>5, <1>6, <2>1
  <2>2. CASE q \in Named /\ q = h
    <3>1. f'.yptr[q] = c /\ f'.optr[c] = q /\ f'.parent[c] = f'.parent[q]
      BY <1>1, <1>2, <1>3, <1>5, <2>2
    <3>2. Youngest(q)
      BY <1>3, <1>5, <2>2 DEF Youngest
    <3>3. f.optr[q] # Null => f.optr[q] # c /\ f.optr[q] # h
      BY <1>1, <2>2, <3>2 DEF Shape, Siblings
    <3> QED
      BY <1>2, <1>3, <1>6, <2>2, <3>1, <3>3 DEF Shape, Siblings
  <2>3. CASE q \in Named /\ q # h
    <3>1. q # c /\ q \in Proc
      BY <1>1, <1>3, <2>3
    <3>2. ~Youngest(q) => f.yptr[q] # c
      BY <1>1, <2>3 DEF Shape, Siblings
    <3>3. f.optr[q] # Null => f.optr[q] # c /\ f.optr[q] # h
      BY <1>1, <1>5, <2>3 DEF Shape, Siblings, Youngest
    <3>4. ASSUME ~Youngest(q)'
          PROVE  /\ f'.yptr[q] \in Named' /\ f'.optr[f'.yptr[q]] = q
                 /\ f'.parent[f'.yptr[q]] = f'.parent[q]
      BY <1>1, <1>2, <1>3, <1>6, <2>3, <3>1, <3>2, <3>4 DEF Shape, Siblings
    <3>5. ASSUME f'.optr[q] # Null
          PROVE  /\ f'.optr[q] \in Named' /\ f'.yptr[f'.optr[q]] = q
                 /\ f'.parent[f'.optr[q]] = f'.parent[q]
                 /\ f'.cptr[f'.parent[f'.optr[q]]] # f'.optr[q]
      <4>1. PICK o \in Named : o = f.optr[q] /\ o = f'.optr[q]
        BY <1>2, <2>3, <3>1, <3>5 DEF Shape, Siblings
      <4>2. f.yptr[o] = q /\ f.parent[o] = f.parent[q] /\ ~Youngest(o) /\ o # c /\ o # h
        BY <2>3, <3>3, <3>5, <4>1, TableAssumption DEF Shape, Siblings, Named
      <4>3. ~Youngest(o)'
        BY <1>6, <4>2
      <4> QED
        BY <1>2, <1>3, <3>1, <4>1, <4>2, <4>3 DEF Youngest
    <3> QED
      BY <3>4, <3>5
  <2> QED
    BY <1>3, <2>1, <2>2, <2>3
<1>10. Heads'
  <2> SUFFICES ASSUME NEW q \in Proc, state'[q] # "none", f'.cptr[q] # Null
               PROVE  /\ f'.cptr[q] \in Named' /\ f'.parent[f'.cptr[q]] = q
                      /\ f'.yptr[f'.cptr[q]] = Null
    BY DEF Heads, Links!Exists
  <2>1. CASE q = p
    BY <1>1, <1>2, <1>3, <2>1
  <2>2. CASE q # p
    <3>1. q # c /\ f'.cptr[q] = f.cptr[q] /\ state[q] # "none"
      BY <1>1, <1>2, <1>3, <2>2
    <3>2. f.cptr[q] \in Named /\ f.parent[f.cptr[q]] = q /\ f.yptr[f.cptr[q]] = Null
      BY <1>1, <3>1 DEF Shape, Heads, Links!Exists
    <3> QED
      BY <1>1, <1>2, <1>3, <1>5, <2>2, <3>1, <3>2
  <2> QED
    BY <2>1, <2>2
<1>11. Lined'
  <2> SUFFICES ASSUME NEW S \in SUBSET Named', S # {}
               PROVE  \E q \in S : Younger(q)' \notin S
    BY DEF Lined
  <2>1. Null \notin S
    BY <1>1, <1>3
  <2>2. CASE c \in S
    BY <1>6, <2>1, <2>2 DEF Younger
  <2>3. CASE c \notin S
    <3>1. S \in SUBSET Named
      BY <1>3, <2>3
    <3>2. PICK q \in S : Younger(q) \notin S
      BY <3>1 DEF Shape, Lined
    <3>3. CASE q = h
      BY <1>2, <1>3, <1>5, <2>1, <2>3, <3>1, <3>3 DEF Younger
    <3>4. CASE q # h
      BY <1>1, <1>2, <1>3, <1>6, <3>1, <3>2, <3>4 DEF Younger
    <3> QED
      BY <3>3, <3>4
  <2> QED
    BY <2>2, <2>3
<1> QED
  BY <1>7, <1>8, <1>9, <1>10, <1>11 DEF Shape

(* do_exit begins: p is a zombie, but still in its loop.                   *)
LEMMA FamilyExit ==
  ASSUME Shape, NEW p \in Proc, Links!Exit(p)
  PROVE  Shape'
<1>1. /\ leaving = Null /\ leaving' = p /\ f' = f /\ p # Idle /\ p # InitProc
      /\ state[p] = "live" /\ state' = [state EXCEPT ![p] = "zombie"]
  BY DEF Links!Exit, Links!May
<1>2. \A q \in Proc : state'[q] = IF q = p THEN "zombie" ELSE state[q]
  BY <1>1 DEF Shape, LinksOK
<1>3. Named' = Named
  BY <1>1, <1>2 DEF Named, Links!Exists
<1>4. LinksOK'
  BY <1>1, <1>2, TableAssumption DEF Shape, LinksOK, Slots
<1>5. Parents'
  BY <1>1, <1>2, <1>3, TableAssumption DEF Shape, Parents, Links!Exists
<1>6. Siblings'
  BY <1>1, <1>3 DEF Shape, Siblings, Youngest
<1>7. Heads'
  BY <1>1, <1>2, <1>3, TableAssumption DEF Shape, Heads, Links!Exists
<1>8. Lined'
  BY <1>1, <1>3 DEF Shape, Lined, Younger, Youngest
<1> QED
  BY <1>4, <1>5, <1>6, <1>7, <1>8 DEF Shape

(* The loop is over: no children are left.                                 *)
LEMMA FamilyExited ==
  ASSUME Shape, Links!Exited
  PROVE  Shape'
<1>1. leaving # Null /\ leaving \in Proc /\ f.cptr[leaving] = Null
      /\ leaving' = Null /\ f' = f /\ state' = state
  BY DEF Links!Exited, Shape, LinksOK, Slots
<1>2. \A c \in Named : f.parent[c] # leaving
  BY <1>1, Childless
<1>3. Named' = Named
  BY <1>1 DEF Named, Links!Exists
<1>4. LinksOK'
  BY <1>1 DEF Shape, LinksOK, Slots
<1>5. Parents'
  BY <1>1, <1>2, <1>3 DEF Shape, Parents, Links!Exists
<1>6. Siblings'
  BY <1>1, <1>3 DEF Shape, Siblings, Youngest
<1>7. Heads'
  BY <1>1, <1>3 DEF Shape, Heads, Links!Exists
<1>8. Lined'
  BY <1>1, <1>3 DEF Shape, Lined, Younger, Youngest
<1> QED
  BY <1>4, <1>5, <1>6, <1>7, <1>8 DEF Shape

(* The youngest child c of the leaving process becomes that of init; its   *)
(* older sibling d is the youngest now, whatever its yptr says.            *)
LEMMA FamilyAdopt ==
  ASSUME Shape, Links!Adopt
  PROVE  Shape'
<1> USE TableAssumption
<1>1. PICK l \in Proc : l = leaving /\ l # Null /\ f.cptr[l] # Null
  BY DEF Links!Adopt, Shape, LinksOK, Slots
<1>2. /\ leaving' = l /\ state' = state /\ state[l] = "zombie" /\ l # InitProc /\ l # Idle
      /\ f' = Relinked(l, f.optr[f.cptr[l]], InitProc, f.cptr[l])
  BY <1>1 DEF Links!Adopt, Shape, LinksOK, Relinked
<1>3. PICK c \in Named : c = f.cptr[l] /\ f.parent[c] = l
  BY <1>1, <1>2 DEF Shape, Heads, Links!Exists
<1>4. PICK d \in Slots : d = f.optr[c]
  BY <1>3 DEF Shape, LinksOK, Pointers, Named
<1>5. PICK h \in Slots : h = f.cptr[InitProc]
  BY DEF Shape, LinksOK, Pointers
<1>6. /\ f' \in Pointers
      /\ \A q \in Proc :
           /\ f'.parent[q] = IF q = c THEN InitProc ELSE f.parent[q]
           /\ f'.optr[q] = IF q = c THEN h ELSE f.optr[q]
           /\ f'.yptr[q] = IF q = c THEN Null ELSE IF q = h THEN c ELSE f.yptr[q]
           /\ f'.cptr[q] = IF q = InitProc THEN c ELSE IF q = l THEN d ELSE f.cptr[q]
  <2>1. f' = Relinked(l, d, InitProc, c) /\ InitProc # l /\ c \in Proc /\ f \in Pointers
    BY <1>2, <1>3, <1>4 DEF Named, Shape, LinksOK
  <2> QED
    BY <1>5, <2>1, LinkedPointers
<1>7. /\ Named' = Named /\ Named \subseteq Proc /\ c \in Proc /\ c # Null /\ Youngest(c)
      /\ l \in Named /\ InitProc \in Named
  BY <1>1, <1>2, <1>3 DEF Named, Links!Exists, Youngest, Shape, LinksOK
<1>8. h # Null => h \in Named /\ f.parent[h] = InitProc /\ f.yptr[h] = Null /\ h # c
  BY <1>1, <1>2, <1>3, <1>5 DEF Shape, Heads, Links!Exists, LinksOK
<1>9. d # Null => /\ d \in Named /\ f.yptr[d] = c /\ f.parent[d] = l
                  /\ ~Youngest(d) /\ d # c /\ d # h
  BY <1>2, <1>3, <1>4, <1>7, <1>8 DEF Shape, Siblings
<1>10. \A q \in Named : f.parent[q] \in Proc
  BY DEF Shape, Parents
<1>11. /\ Youngest(c)' /\ (h # Null => Youngest(h) /\ ~Youngest(h)')
       /\ (d # Null => Youngest(d)')
       /\ \A q \in Named : q # c /\ q # d /\ q # h => (Youngest(q)' <=> Youngest(q))
  <2>1. Youngest(c)'
    BY <1>6, <1>7 DEF Youngest
  <2>2. h # Null => Youngest(h) /\ ~Youngest(h)'
    BY <1>5, <1>6, <1>7, <1>8 DEF Youngest
  <2>3. d # Null => Youngest(d)'
    BY <1>2, <1>6, <1>7, <1>9 DEF Youngest
  <2>4. ASSUME NEW q \in Named, q # c, q # d, q # h
        PROVE  Youngest(q)' <=> Youngest(q)
    <3>1. f'.parent[q] = f.parent[q] /\ f.parent[q] \in Proc
      BY <1>6, <1>7, <1>10, <2>4
    <3> QED
      BY <1>2, <1>3, <1>5, <1>6, <2>4, <3>1 DEF Youngest
  <2> QED
    BY <2>1, <2>2, <2>3, <2>4
<1>12. LinksOK'
  BY <1>1, <1>2, <1>6 DEF Shape, LinksOK
<1>13. Parents'
  BY <1>1, <1>2, <1>6, <1>7 DEF Shape, Parents, Links!Exists, LinksOK
<1>14. Siblings'
  <2> SUFFICES ASSUME NEW q \in Named
               PROVE  /\ ~Youngest(q)' =>
                           /\ f'.yptr[q] \in Named /\ f'.optr[f'.yptr[q]] = q
                           /\ f'.parent[f'.yptr[q]] = f'.parent[q]
                      /\ f'.optr[q] # Null =>
                           /\ f'.optr[q] \in Named /\ f'.yptr[f'.optr[q]] = q
                           /\ f'.parent[f'.optr[q]] = f'.parent[q]
                           /\ f'.cptr[f'.parent[f'.optr[q]]] # f'.optr[q]
    BY <1>7 DEF Siblings, Youngest
  <2>1. q \in Proc
    BY <1>7
  <2>2. ASSUME ~Youngest(q)'
        PROVE  /\ f'.yptr[q] \in Named /\ f'.optr[f'.yptr[q]] = q
               /\ f'.parent[f'.yptr[q]] = f'.parent[q]
    <3>1. q # c /\ q # d
      BY <1>7, <1>11, <2>1, <2>2
    <3>2. CASE q = h
      BY <1>5, <1>6, <1>7, <1>8, <2>1, <3>1, <3>2
    <3>3. CASE q # h
      <4>1. ~Youngest(q)
        BY <1>11, <2>2, <3>1, <3>3
      <4>2. PICK y \in Named : y = f.yptr[q] /\ f.optr[y] = q /\ f.parent[y] = f.parent[q]
        BY <4>1 DEF Shape, Siblings
      <4>3. y # c
        BY <1>4, <3>1, <4>2
      <4> QED
        BY <1>6, <1>7, <2>1, <3>1, <3>3, <4>2, <4>3
    <3> QED
      BY <3>2, <3>3
  <2>3. ASSUME f'.optr[q] # Null
        PROVE  /\ f'.optr[q] \in Named /\ f'.yptr[f'.optr[q]] = q
               /\ f'.parent[f'.optr[q]] = f'.parent[q]
               /\ f'.cptr[f'.parent[f'.optr[q]]] # f'.optr[q]
    <3>1. CASE q = c
      <4>1. f'.optr[q] = h /\ h # Null /\ h \in Named /\ h \in Proc
        BY <1>6, <1>7, <1>8, <2>3, <3>1
      <4> QED
        BY <1>6, <1>7, <1>8, <3>1, <4>1
    <3>2. CASE q # c
      <4>1. PICK o \in Named : /\ o = f.optr[q] /\ o = f'.optr[q] /\ f.yptr[o] = q
                               /\ f.parent[o] = f.parent[q] /\ ~Youngest(o)
        BY <1>6, <2>1, <2>3, <3>2 DEF Shape, Siblings
      <4>2. o # c /\ o # h /\ o # d
        BY <1>7, <1>9, <1>11, <3>2, <4>1
      <4>3. ~Youngest(o)'
        BY <1>11, <4>1, <4>2
      <4> QED
        BY <1>6, <1>7, <2>1, <3>2, <4>1, <4>2, <4>3 DEF Youngest
    <3> QED
      BY <3>1, <3>2
  <2> QED
    BY <2>2, <2>3
<1>15. Heads'
  <2> SUFFICES ASSUME NEW q \in Proc, state[q] # "none", f'.cptr[q] # Null
               PROVE  /\ f'.cptr[q] \in Named /\ f'.parent[f'.cptr[q]] = q
                      /\ q # l => f'.yptr[f'.cptr[q]] = Null
    BY <1>2, <1>7 DEF Heads, Links!Exists
  <2>1. CASE q = InitProc
    BY <1>6, <1>7, <2>1
  <2>2. CASE q = l
    BY <1>2, <1>6, <1>7, <1>9, <2>2
  <2>3. CASE q # InitProc /\ q # l
    <3>1. PICK e \in Named : /\ e = f.cptr[q] /\ e = f'.cptr[q] /\ f.parent[e] = q
                             /\ f.yptr[e] = Null
      BY <1>1, <1>6, <2>3 DEF Shape, Heads, Links!Exists
    <3>2. e # c /\ e # h
      BY <1>3, <1>7, <1>8, <2>3, <3>1
    <3> QED
      BY <1>6, <1>7, <3>1, <3>2
  <2> QED
    BY <2>1, <2>2, <2>3
<1>16. Lined'
  <2> SUFFICES ASSUME NEW S \in SUBSET Named, S # {}
               PROVE  \E q \in S : Younger(q)' \notin S
    BY <1>7 DEF Lined
  <2>1. Null \notin S
    BY <1>7
  <2>2. CASE c \in S
    BY <1>11, <2>1, <2>2 DEF Younger
  <2>3. CASE c \notin S
    <3>1. PICK q \in S : Younger(q) \notin S
      BY DEF Shape, Lined
    <3>2. q \in Named /\ q \in Proc /\ q # c /\ q # Null
      BY <1>7, <2>1, <2>3
    <3>3. CASE q = h
      <4>1. Younger(q)' = c
        BY <1>6, <1>11, <3>2, <3>3 DEF Younger
      <4> QED
        BY <2>3, <4>1
    <3>4. CASE q = d
      BY <1>11, <2>1, <3>2, <3>4 DEF Younger
    <3>5. CASE q # h /\ q # d
      <4>1. Younger(q)' = Younger(q)
        BY <1>6, <1>11, <3>2, <3>5 DEF Younger
      <4> QED
        BY <3>1, <4>1
    <3> QED
      BY <3>3, <3>4, <3>5
  <2> QED
    BY <2>2, <2>3
<1> QED
  BY <1>12, <1>13, <1>14, <1>15, <1>16 DEF Shape

(* do_wait takes z out: its siblings close ranks, and nobody is its child. *)
LEMMA FamilyWait ==
  ASSUME Shape, NEW p \in Proc, NEW z \in Proc, Links!Wait(p, z)
  PROVE  Shape'
<1> USE TableAssumption
<1>1. /\ leaving = Null /\ leaving' = Null /\ state[z] = "zombie" /\ z # Idle /\ z # InitProc
      /\ state' = [state EXCEPT ![z] = "none"] /\ f' = Links!Unlinked(f, z)
  BY DEF Links!Wait, Links!May, Shape, LinksOK
<1>2. PICK y \in Slots : y = f.yptr[z]
  BY DEF Shape, LinksOK, Pointers
<1>3. PICK o \in Slots : o = f.optr[z]
  BY DEF Shape, LinksOK, Pointers
<1>4. PICK r \in Proc : r = f.parent[z] /\ state[r] = "live" /\ r # z
  BY <1>1 DEF Shape, Parents, Named, Links!Exists, LinksOK
<1>5. /\ f' \in Pointers
      /\ \A q \in Proc :
           /\ f'.parent[q] = f.parent[q]
           /\ f'.optr[q] = IF q = y THEN o ELSE f.optr[q]
           /\ f'.yptr[q] = IF q = o THEN y ELSE f.yptr[q]
           /\ f'.cptr[q] = IF y = Null /\ q = r THEN o ELSE f.cptr[q]
  <2>1. f \in Pointers
    BY DEF Shape, LinksOK
  <2> QED
    BY <1>1, <1>2, <1>3, <1>4, <2>1, UnlinkedPointers
<1>6. /\ Named' = Named \ {z} /\ z \in Named /\ Named \subseteq Proc
      /\ \A q \in Proc : state'[q] = IF q = z THEN "none" ELSE state[q]
  BY <1>1 DEF Named, Links!Exists, Shape, LinksOK
<1>7. \A q \in Named : f.parent[q] \in Proc /\ f.parent[q] # z /\ q # Null
  BY <1>1, <1>6 DEF Shape, Parents
<1>8. IF y = Null THEN f.cptr[r] = z
      ELSE /\ y \in Named /\ f.optr[y] = z /\ f.parent[y] = r /\ f.cptr[r] # z /\ y # z
  <2>1. CASE Youngest(z)
    <3>1. f.cptr[r] = z /\ y = Null
      BY <1>1, <1>2, <1>4, <1>6, <1>7, <2>1 DEF Youngest, Shape, Heads, Links!Exists
    <3> QED
      BY <3>1
  <2>2. CASE ~Youngest(z)
    <3>1. y \in Named /\ f.optr[y] = z /\ f.parent[y] = r /\ f.cptr[r] # z
      BY <1>2, <1>4, <1>6, <2>2 DEF Youngest, Shape, Siblings
    <3>2. y # z
      <4>1. Lined /\ {z} \in SUBSET Named /\ {z} # {}
        BY <1>6 DEF Shape
      <4>2. \E c \in {z} : Younger(c) \notin {z}
        BY <4>1 DEF Lined
      <4>3. Younger(z) # z
        BY <4>2
      <4> QED
        BY <1>2, <2>2, <4>3 DEF Younger
    <3> QED
      BY <1>7, <3>1, <3>2
  <2> QED
    BY <2>1, <2>2
<1>9. o # Null => /\ o \in Named /\ f.yptr[o] = z /\ f.parent[o] = r /\ ~Youngest(o)
                  /\ o # z /\ o # y
  <2> SUFFICES ASSUME o # Null
               PROVE  /\ o \in Named /\ f.yptr[o] = z /\ f.parent[o] = r /\ ~Youngest(o)
                      /\ o # z /\ o # y
    OBVIOUS
  <2>1. o \in Named /\ f.yptr[o] = z /\ f.parent[o] = r /\ ~Youngest(o)
    BY <1>3, <1>4, <1>6 DEF Shape, Siblings
  <2>2. Younger(o) = z
    BY <2>1 DEF Younger
  <2>3. o # z
    <3>1. Lined /\ {z} \in SUBSET Named /\ {z} # {}
      BY <1>6 DEF Shape
    <3>2. \E c \in {z} : Younger(c) \notin {z}
      BY <3>1 DEF Lined
    <3> QED
      BY <2>2, <3>2
  <2>4. o # y
    <3> SUFFICES ASSUME o = y PROVE FALSE
      OBVIOUS
    <3>1. ~Youngest(z) /\ Younger(z) = o
      BY <1>2, <1>4, <1>7, <1>8, <2>1 DEF Youngest, Younger
    <3>2. Lined /\ {z, o} \in SUBSET Named /\ {z, o} # {}
      BY <1>6, <2>1 DEF Shape
    <3>3. \E c \in {z, o} : Younger(c) \notin {z, o}
      BY <3>2 DEF Lined
    <3> QED
      BY <2>2, <3>1, <3>3
  <2> QED
    BY <2>1, <2>3, <2>4
<1>10. /\ (o # Null => (Youngest(o)' <=> y = Null))
       /\ \A q \in Named : q # z /\ q # o => (Youngest(q)' <=> Youngest(q))
  <2>1. ASSUME o # Null PROVE Youngest(o)' <=> y = Null
    <3>1. o \in Proc /\ f'.parent[o] = r /\ f.cptr[r] # o
      BY <1>5, <1>6, <1>9, <2>1 DEF Youngest
    <3> QED
      BY <1>5, <3>1 DEF Youngest
  <2>2. ASSUME NEW q \in Named, q # z, q # o PROVE Youngest(q)' <=> Youngest(q)
    <3>1. f'.parent[q] = f.parent[q] /\ f.parent[q] \in Proc
      BY <1>5, <1>6, <1>7
    <3> QED
      BY <1>5, <1>8, <2>2, <3>1 DEF Youngest
  <2> QED
    BY <2>1, <2>2
<1>11. LinksOK'
  BY <1>1, <1>5, <1>6 DEF Shape, LinksOK
<1>12. Parents'
  BY <1>1, <1>5, <1>6, <1>7 DEF Shape, Parents, Links!Exists
<1>13. Siblings'
  <2> SUFFICES ASSUME NEW q \in Named, q # z
               PROVE  /\ ~Youngest(q)' =>
                           /\ f'.yptr[q] \in Named \ {z} /\ f'.optr[f'.yptr[q]] = q
                           /\ f'.parent[f'.yptr[q]] = f'.parent[q]
                      /\ f'.optr[q] # Null =>
                           /\ f'.optr[q] \in Named \ {z} /\ f'.yptr[f'.optr[q]] = q
                           /\ f'.parent[f'.optr[q]] = f'.parent[q]
                           /\ f'.cptr[f'.parent[f'.optr[q]]] # f'.optr[q]
    BY <1>6 DEF Siblings, Youngest
  <2>1. q \in Proc
    BY <1>6
  <2>2. ASSUME ~Youngest(q)'
        PROVE  /\ f'.yptr[q] \in Named \ {z} /\ f'.optr[f'.yptr[q]] = q
               /\ f'.parent[f'.yptr[q]] = f'.parent[q]
    <3>1. CASE q = o
      <4>1. y # Null /\ f'.yptr[q] = y /\ y \in Named /\ y \in Proc /\ y # z
        BY <1>5, <1>6, <1>7, <1>8, <1>10, <2>1, <2>2, <3>1
      <4> QED
        BY <1>5, <1>7, <1>8, <1>9, <2>1, <3>1, <4>1
    <3>2. CASE q # o
      <4>1. PICK e \in Named : e = f.yptr[q] /\ f.optr[e] = q /\ f.parent[e] = f.parent[q]
        BY <1>10, <2>2, <3>2 DEF Shape, Siblings
      <4>2. e # z /\ e # y
        BY <1>3, <1>7, <1>8, <3>2, <4>1
      <4> QED
        BY <1>5, <1>6, <2>1, <3>2, <4>1, <4>2
    <3> QED
      BY <3>1, <3>2
  <2>3. ASSUME f'.optr[q] # Null
        PROVE  /\ f'.optr[q] \in Named \ {z} /\ f'.yptr[f'.optr[q]] = q
               /\ f'.parent[f'.optr[q]] = f'.parent[q]
               /\ f'.cptr[f'.parent[f'.optr[q]]] # f'.optr[q]
    <3>1. CASE q = y
      <4>1. f'.optr[q] = o /\ o # Null /\ o \in Named /\ o \in Proc /\ o # z
        BY <1>5, <1>6, <1>9, <2>1, <2>3, <3>1
      <4>2. ~Youngest(o)' /\ y # Null
        BY <1>7, <1>10, <3>1, <4>1
      <4> QED
        BY <1>5, <1>8, <1>9, <2>1, <3>1, <4>1, <4>2 DEF Youngest
    <3>2. CASE q # y
      <4>1. PICK e \in Named : /\ e = f.optr[q] /\ e = f'.optr[q] /\ f.yptr[e] = q
                               /\ f.parent[e] = f.parent[q] /\ ~Youngest(e)
        BY <1>5, <2>1, <2>3, <3>2 DEF Shape, Siblings
      <4>2. e # z /\ e # o
        BY <1>2, <1>7, <1>9, <3>2, <4>1
      <4>3. ~Youngest(e)'
        BY <1>10, <4>1, <4>2
      <4> QED
        BY <1>5, <1>6, <2>1, <4>1, <4>2, <4>3 DEF Youngest
    <3> QED
      BY <3>1, <3>2
  <2> QED
    BY <2>2, <2>3
<1>14. Heads'
  <2> SUFFICES ASSUME NEW q \in Proc, q # z, state[q] # "none", f'.cptr[q] # Null
               PROVE  /\ f'.cptr[q] \in Named \ {z} /\ f'.parent[f'.cptr[q]] = q
                      /\ f'.yptr[f'.cptr[q]] = Null
    BY <1>6 DEF Heads, Links!Exists
  <2>1. CASE y = Null /\ q = r
    <3>1. f'.cptr[q] = o /\ o # Null /\ o \in Named /\ o \in Proc
      BY <1>5, <1>6, <1>9, <2>1
    <3> QED
      BY <1>5, <1>9, <2>1, <3>1
  <2>2. CASE ~(y = Null /\ q = r)
    <3>1. PICK e \in Named : /\ e = f.cptr[q] /\ e = f'.cptr[q] /\ f.parent[e] = q
                             /\ f.yptr[e] = Null
      BY <1>1, <1>5, <2>2 DEF Shape, Heads, Links!Exists
    <3>2. e # z /\ e # o
      BY <1>2, <1>4, <1>7, <1>9, <2>2, <3>1
    <3> QED
      BY <1>5, <1>6, <3>1, <3>2
  <2> QED
    BY <2>1, <2>2
<1>15. Lined'
  <2> SUFFICES ASSUME NEW S \in SUBSET (Named \ {z}), S # {}
               PROVE  \E q \in S : Younger(q)' \notin S
    BY <1>6 DEF Lined
  <2>1. \A q \in S : q \in Named /\ q \in Proc /\ q # z /\ q # Null
    BY <1>6, <1>7
  <2>2. \A q \in S : q # o => Younger(q)' = Younger(q)
    BY <1>5, <1>10, <2>1 DEF Younger
  <2>3. CASE o \notin S
    <3>1. PICK q \in S : Younger(q) \notin S
      BY DEF Shape, Lined
    <3> QED
      BY <2>2, <2>3, <3>1
  <2>4. CASE o \in S
    <3>1. Younger(o)' = y /\ Younger(o) = z
      <4>1. o # Null /\ o \in Proc /\ f'.yptr[o] = y
        BY <1>5, <2>1, <2>4
      <4> QED
        BY <1>9, <1>10, <4>1 DEF Younger
    <3>2. Younger(z) = y
      BY <1>2, <1>4, <1>7, <1>8 DEF Younger, Youngest
    <3>3. S \cup {z} \in SUBSET Named
      BY <1>6, <2>1
    <3>4. PICK q \in S \cup {z} : Younger(q) \notin S \cup {z}
      BY <3>3 DEF Shape, Lined
    <3>5. CASE q = z
      BY <2>4, <3>1, <3>2, <3>4, <3>5
    <3>6. CASE q # z
      <4>1. q \in S /\ q # o
        BY <3>1, <3>4, <3>6
      <4> QED
        BY <2>2, <3>4, <4>1
    <3> QED
      BY <3>5, <3>6
  <2> QED
    BY <2>3, <2>4
<1> QED
  BY <1>11, <1>12, <1>13, <1>14, <1>15 DEF Shape

(* Outside the loop yptr means what it says.                               *)
LEMMA FamilyLinked == ASSUME Shape PROVE Links!DoublyLinked
<1> USE TableAssumption
<1> SUFFICES ASSUME leaving = Null, NEW c \in Proc \ {Idle}, state[c] # "none"
             PROVE  /\ IF f.yptr[c] = Null THEN f.cptr[f.parent[c]] = c
                       ELSE f.optr[f.yptr[c]] = c /\ f.parent[f.yptr[c]] = f.parent[c]
                    /\ f.optr[c] # Null => f.yptr[f.optr[c]] = c
  BY DEF Links!DoublyLinked, Links!Exists
<1>1. c \in Named /\ \A q \in Named : q \in Proc
  BY DEF Named, Links!Exists
<1>2. CASE Youngest(c)
  <2>1. f.yptr[c] = Null
    <3>1. PICK r \in Proc : r = f.parent[c] /\ Links!Exists(r) /\ f.cptr[r] = c
      BY <1>1, <1>2 DEF Shape, Parents, Youngest
    <3> QED
      BY <1>1, <3>1 DEF Shape, Heads
  <2> QED
    BY <1>1, <1>2, <2>1 DEF Shape, Siblings, Youngest
<1>3. CASE ~Youngest(c)
  BY <1>1, <1>3 DEF Shape, Siblings
<1> QED
  BY <1>2, <1>3

-----------------------------------------------------------------------------
(* The whole table: between the two halves of a do_fork nothing else       *)
(* happens, so that the slot that was free still is.                       *)
TableOK ==
  /\ pid \in [Proc -> Nat]
  /\ forking \in Slots
  /\ leaving # Null => forking = Null
  /\ forking = Null => pc = "idle"
  /\ forking # Null => Links!May(forking) /\ \E q \in Proc : ~Links!Exists(q)

Listed == {list[i] : i \in 1..Len(list)}

Numbered ==
  /\ Listed = {pid[p] : p \in Named}
  /\ Len(list) = Cardinality(Named)
  /\ \A p, q \in Named : pid[p] = pid[q] => p = q

TableInv == IInv /\ Shape /\ TableOK /\ Numbered

LEMMA NamedFinite == IsFiniteSet(Named)
<1>1. Named \subseteq Proc
  BY DEF Named
<1> QED
  BY <1>1, FS_Subset, TableAssumption

(* As long as no process comes or goes, the numbers stay right.            *)
LEMMA NumbersStay ==
  ASSUME TableInv, UNCHANGED <<list, pid>>, Named' = Named
  PROVE  Numbered'
  BY DEF TableInv, Numbered, Listed

LEMMA TableInitHolds == ASSUME TableInit PROVE TableInv
<1>1. IInv /\ Shape
  BY TableInitInv, FamilyInit
<1>2. /\ list = <<1>> /\ pc = "idle" /\ forking = Null /\ leaving = Null
      /\ pid = [p \in Proc |-> IF p = InitProc THEN 1 ELSE 0]
      /\ state = [p \in Proc |-> IF p \in {Idle, InitProc} THEN "live" ELSE "none"]
  BY DEF TableInit, Links!Init
<1>3. Named = {InitProc} /\ pid[InitProc] = 1 /\ Cardinality({InitProc}) = 1
  BY <1>2, FS_Singleton, TableAssumption DEF Named, Links!Exists
<1>4. Len(list) = 1 /\ list[1] = 1
  BY <1>2
<1>5. Listed = {1}
  BY <1>4 DEF Listed
<1>6. Numbered
  BY <1>3, <1>4, <1>5 DEF Numbered
<1>7. TableOK
  BY <1>2 DEF TableOK, Slots
<1> QED
  BY <1>1, <1>6, <1>7 DEF TableInv

LEMMA BeginForkStep ==
  ASSUME TableInv, NEW p \in Proc, BeginFork(p), IInv'
  PROVE  TableInv'
<1>1. /\ UNCHANGED <<f, state, leaving, pid, list>> /\ forking' = p /\ pc' # "idle"
      /\ Links!May(p) /\ \E c \in Proc : ~Links!Exists(c)
  BY DEF BeginFork, links, Call, StartsOver
<1>2. Named' = Named
  BY <1>1 DEF Named, Links!Exists
<1>3. Shape'
  BY <1>1, <1>2 DEF TableInv, Shape, LinksOK, Parents, Siblings, Heads, Lined, Younger, Youngest,
                    Links!Exists
<1>4. TableOK'
  BY <1>1, TableAssumption DEF TableInv, TableOK, Slots, Links!May, Links!Exists
<1>5. Numbered'
  BY <1>1, <1>2, NumbersStay
<1> QED
  BY <1>3, <1>4, <1>5 DEF TableInv

LEMMA ScanStep ==
  ASSUME TableInv, Scan, IInv'
  PROVE  TableInv'
<1>1. UNCHANGED <<f, state, leaving, pid, list, forking>> /\ pc = "scan"
  BY DEF Scan, links, Taken, Free, Found
<1>2. Named' = Named
  BY <1>1 DEF Named, Links!Exists
<1>3. Shape'
  BY <1>1, <1>2 DEF TableInv, Shape, LinksOK, Parents, Siblings, Heads, Lined, Younger, Youngest,
                    Links!Exists
<1>4. TableOK'
  BY <1>1 DEF TableInv, TableOK, Links!May, Links!Exists
<1>5. Numbered'
  BY <1>1, <1>2, NumbersStay
<1> QED
  BY <1>3, <1>4, <1>5 DEF TableInv

LEMMA ExitStep ==
  ASSUME TableInv, NEW p \in Proc, Exit(p), IInv'
  PROVE  TableInv'
<1>1. /\ UNCHANGED <<pid, list, forking, pc>> /\ forking = Null /\ Links!Exit(p)
  BY DEF Exit, pids
<1>2. Shape'
  BY <1>1, FamilyExit DEF TableInv
<1>3. Named' = Named
  <2>1. state' = [state EXCEPT ![p] = "zombie"] /\ state[p] = "live"
    BY <1>1 DEF Links!Exit, Links!May
  <2> QED
    BY <2>1 DEF TableInv, Shape, LinksOK, Named, Links!Exists
<1>4. TableOK'
  BY <1>1 DEF TableInv, TableOK
<1>5. Numbered'
  BY <1>1, <1>3, NumbersStay
<1> QED
  BY <1>2, <1>4, <1>5 DEF TableInv

LEMMA AdoptsStep ==
  ASSUME TableInv, Adopts, IInv'
  PROVE  TableInv'
<1>1. /\ UNCHANGED <<pid, list, forking, pc>> /\ (Links!Adopt \/ Links!Exited)
  BY DEF Adopts, pids
<1>2. state' = state /\ leaving # Null /\ forking = Null
  BY <1>1 DEF Links!Adopt, Links!Exited, TableInv, TableOK
<1>3. Shape'
  BY <1>1, FamilyAdopt, FamilyExited DEF TableInv
<1>4. Named' = Named
  BY <1>2 DEF Named, Links!Exists
<1>5. TableOK'
  BY <1>1, <1>2 DEF TableInv, TableOK
<1>6. Numbered'
  BY <1>1, <1>4, NumbersStay
<1> QED
  BY <1>3, <1>5, <1>6 DEF TableInv

(* The new process has the pid that get_pid has found, and it is first in  *)
(* the list.                                                               *)
LEMMA EndForkStep ==
  ASSUME TableInv, EndFork, IInv'
  PROVE  TableInv'
<1> DEFINE d == CHOOSE q \in Proc : ~Links!Exists(q)
<1>1. PICK c \in Proc : c = d /\ ~Links!Exists(c)
  BY DEF EndFork, TableInv, TableOK
<1>2. /\ forking \in Proc /\ Links!Fork(forking, c) /\ pid' = [pid EXCEPT ![c] = last_pid]
      /\ forking' = Null /\ pc = "found" /\ pc' = "idle" /\ list' = <<last_pid>> \o list
  BY <1>1 DEF EndFork, Link, TableInv, TableOK, Slots
<1>3. Shape'
  BY <1>2, FamilyFork DEF TableInv
<1>4. Named' = Named \cup {c} /\ c \notin Named
  <2>1. state' = [state EXCEPT ![c] = "live"] /\ state[c] = "none" /\ state[Idle] = "live"
    BY <1>1, <1>2 DEF Links!Fork, Links!Exists, TableInv, Shape, LinksOK
  <2> QED
    BY <2>1 DEF TableInv, Shape, LinksOK, Named, Links!Exists
<1>5. /\ list \in Seq(Pid) /\ last_pid \in Pid
      /\ \A i \in 1..Len(list) : list[i] # last_pid
  BY <1>2, PidAssumption DEF TableInv, IInv, TypeOK, Unique, Gap, Pid
<1>6. Len(list') = Len(list) + 1 /\ Listed' = Listed \cup {last_pid}
  <2>1. /\ Len(list') = Len(list) + 1
        /\ \A i \in 1..Len(list') : list'[i] = IF i = 1 THEN last_pid ELSE list[i - 1]
    BY <1>2, <1>5, Prepended
  <2>2. Len(list) \in Nat
    BY <1>5
  <2>3. Listed' \subseteq Listed \cup {last_pid}
    <3> SUFFICES ASSUME NEW i \in 1..Len(list') PROVE list'[i] \in Listed \cup {last_pid}
      BY DEF Listed
    <3>1. i # 1 => i - 1 \in 1..Len(list)
      BY <2>1, <2>2
    <3> QED
      BY <2>1, <3>1 DEF Listed
  <2>4. last_pid \in Listed'
    BY <2>1, <2>2 DEF Listed
  <2>5. Listed \subseteq Listed'
    <3> SUFFICES ASSUME NEW i \in 1..Len(list) PROVE list[i] \in Listed'
      BY DEF Listed
    <3>1. i + 1 \in 1..Len(list') /\ i + 1 # 1 /\ (i + 1) - 1 = i
      BY <2>1, <2>2
    <3>2. list'[i + 1] = list[i]
      BY <2>1, <3>1
    <3> QED
      BY <3>1, <3>2 DEF Listed
  <2> QED
    BY <2>1, <2>3, <2>4, <2>5
<1>7. TableOK'
  BY <1>2, <1>5 DEF TableInv, TableOK, Slots, Pid
<1>8. Numbered'
  <2>1. \A q \in Proc : pid'[q] = IF q = c THEN last_pid ELSE pid[q]
    BY <1>2 DEF TableInv, TableOK
  <2>2. Named \subseteq Proc /\ \A q \in Named : pid[q] \in Listed
    BY DEF Named, TableInv, Numbered
  <2>3. \A q \in Named : pid[q] # last_pid
    BY <1>5, <2>2 DEF Listed
  <2>4. Listed' = {pid'[q] : q \in Named'}
    BY <1>4, <1>6, <2>1, <2>2 DEF TableInv, Numbered
  <2>5. Cardinality(Named') = Cardinality(Named) + 1
    BY <1>4, NamedFinite, FS_AddElement
  <2>6. \A q, r \in Named' : pid'[q] = pid'[r] => q = r
    BY <1>4, <2>1, <2>2, <2>3 DEF TableInv, Numbered
  <2>7. Len(list') = Cardinality(Named')
    BY <1>6, <2>5 DEF TableInv, Numbered
  <2> QED
    BY <2>4, <2>6, <2>7 DEF Numbered
<1> QED
  BY <1>3, <1>7, <1>8 DEF TableInv

(* The pid of the zombie is in the list once, and nobody else has it.      *)
LEMMA ReapStep ==
  ASSUME TableInv, NEW p \in Proc, NEW z \in Proc, Reap(p, z), IInv'
  PROVE  TableInv'
<1>1. /\ forking = Null /\ forking' = Null /\ pid' = pid /\ Links!Wait(p, z)
      /\ UNCHANGED <<pc, leaving>>
  BY DEF Reap, Unlink, Links!Wait
<1>2. PICK n \in 1..Len(list) : list[n] = pid[z] /\ list' = RemoveAt(list, n)
  BY DEF Reap
<1>3. Shape'
  BY <1>1, FamilyWait DEF TableInv
<1>4. Named' = Named \ {z} /\ z \in Named /\ Named \subseteq Proc
  <2>1. state' = [state EXCEPT ![z] = "none"] /\ state[z] = "zombie" /\ state[Idle] = "live"
    BY <1>1 DEF Links!Wait, TableInv, Shape, LinksOK
  <2> QED
    BY <2>1 DEF TableInv, Shape, LinksOK, Named, Links!Exists
<1>5. list \in Seq(Pid) /\ \A i, j \in 1..Len(list) : list[i] = list[j] => i = j
  BY DEF TableInv, IInv, TypeOK, Unique
<1>6. /\ Len(list') = Len(list) - 1 /\ Len(list) \in Nat
      /\ \A i \in 1..(Len(list) - 1) : list'[i] = IF i < n THEN list[i] ELSE list[i + 1]
  <2>1. list \in Seq(Pid) /\ Len(list) \in Nat
    BY <1>5
  <2>2. /\ Len(list') = Len(list) - 1
        /\ \A i \in 1..(Len(list) - 1) : list'[i] = IF i < n THEN list[i] ELSE list[i + 1]
    BY <1>2, <2>1, Removed
  <2> QED
    BY <2>1, <2>2
<1>7. Listed' = Listed \ {pid[z]}
  <2>1. ASSUME NEW i \in 1..Len(list') PROVE list'[i] \in Listed \ {pid[z]}
    <3>1. i \in 1..Len(list) /\ i + 1 \in 1..Len(list)
      BY <1>6
    <3>2. PICK j \in 1..Len(list) : j # n /\ list'[i] = list[j]
      BY <1>2, <1>6, <3>1
    <3> QED
      BY <1>2, <1>5, <3>2 DEF Listed
  <2>2. ASSUME NEW i \in 1..Len(list), list[i] # pid[z] PROVE list[i] \in Listed'
    <3>1. CASE i < n
      <4>1. i \in 1..(Len(list) - 1) /\ list'[i] = list[i]
        BY <1>6, <3>1
      <4> QED
        BY <1>6, <4>1 DEF Listed
    <3>2. CASE i > n
      <4>1. i - 1 \in 1..(Len(list) - 1) /\ ~(i - 1 < n) /\ (i - 1) + 1 = i
        BY <1>6, <3>2
      <4>2. list'[i - 1] = list[i]
        BY <1>6, <4>1
      <4> QED
        BY <1>6, <4>1, <4>2 DEF Listed
    <3> QED
      BY <1>2, <2>2, <3>1, <3>2
  <2>3. \A v \in Listed' : v \in Listed \ {pid[z]}
    BY <2>1 DEF Listed
  <2>4. \A v \in Listed \ {pid[z]} : v \in Listed'
    BY <2>2 DEF Listed
  <2> QED
    BY <2>3, <2>4
<1>8. TableOK'
  BY <1>1 DEF TableInv, TableOK
<1>9. Numbered'
  <2>1. Listed' = {pid'[q] : q \in Named'}
    BY <1>1, <1>4, <1>7 DEF TableInv, Numbered
  <2>2. Cardinality(Named') = Cardinality(Named) - 1
    BY <1>4, NamedFinite, FS_RemoveElement
  <2>3. \A q, r \in Named' : pid'[q] = pid'[r] => q = r
    BY <1>1, <1>4 DEF TableInv, Numbered
  <2>4. Len(list') = Cardinality(Named')
    BY <1>6, <2>2 DEF TableInv, Numbered
  <2> QED
    BY <2>1, <2>3, <2>4 DEF Numbered
<1> QED
  BY <1>3, <1>8, <1>9 DEF TableInv

LEMMA TableKeeps == ASSUME TableInv, [TableNext]_tvars PROVE TableInv'
<1>1. IInv'
  BY TableStep, PidStep DEF TableInv
<1>2. CASE UNCHANGED tvars
  <2>1. UNCHANGED <<f, state, leaving, list, pc, pid, forking>>
    BY <1>2 DEF tvars, links, pids
  <2>2. Named' = Named
    BY <2>1 DEF Named, Links!Exists
  <2>3. Shape'
    BY <2>1, <2>2 DEF TableInv, Shape, LinksOK, Parents, Siblings, Heads, Lined, Younger,
                      Youngest, Links!Exists
  <2>4. TableOK'
    BY <2>1 DEF TableInv, TableOK, Links!May, Links!Exists
  <2>5. Numbered'
    BY <2>1, <2>2, NumbersStay
  <2> QED
    BY <1>1, <2>3, <2>4, <2>5 DEF TableInv
<1>3. CASE \E p \in Proc : BeginFork(p) \/ Exit(p)
  BY <1>1, <1>3, BeginForkStep, ExitStep
<1>4. CASE EndFork \/ Scan \/ Adopts
  BY <1>1, <1>4, EndForkStep, ScanStep, AdoptsStep
<1>5. CASE \E p, z \in Proc : Reap(p, z)
  BY <1>1, <1>5, ReapStep
<1> QED
  BY <1>2, <1>3, <1>4, <1>5 DEF TableNext

(* The invariant of the table.                                             *)
THEOREM TableHolds == TableSpec => []TableInv
<1>1. TableInit => TableInv
  BY TableInitHolds
<1>2. TableInv /\ [TableNext]_tvars => TableInv'
  BY TableKeeps
<1> QED
  BY <1>1, <1>2, PTL DEF TableSpec

(* find_proc finds a process if and only if there is one, and the sibling  *)
(* pointers lead back to where one came from.                              *)
THEOREM PidsNameProcsHolds == TableSpec => []PidsNameProcs
<1>1. TableInv => PidsNameProcs
  <2> SUFFICES ASSUME TableInv PROVE PidsNameProcs
    OBVIOUS
  <2>1. Links!DoublyLinked
    BY FamilyLinked DEF TableInv
  <2> QED
    BY <2>1 DEF PidsNameProcs, TableInv, Numbered, Listed
<1> QED
  BY <1>1, TableHolds, PTL

-----------------------------------------------------------------------------
(* What a chain of sibling pointers comes to.  Chain is a recursive        *)
(* function, so what it computes takes an induction, which is one over the *)
(* least number for which a statement fails.                               *)
(* Induction: a set of numbers that is not empty has a least one.          *)
LEMMA LeastNumber ==
  ASSUME NEW T, T \subseteq Nat, T # {}
  PROVE  \E x \in T : \A y \in T : x <= y
<1> DEFINE R == {ss \in Nat \X Nat : ss[1] < ss[2]}
<1>1. IsWellFoundedOn(R, Nat)
  BY NatLessThanWellFounded DEF OpToRel
<1> HIDE DEF R
<1>2. PICK x \in T : \A y \in T : ~ (<<y, x>> \in R)
  BY <1>1, WFMin
<1>3. \A y \in T : ~(y < x)
  BY <1>2 DEF R
<1> QED BY <1>3

(* What Chain computes for all lengths and beginnings, as a definition     *)
(* says that there is such a function only if there is.                    *)
Round(h, i) ==
  [q \in Proc \cup {Null} |->
     IF i = 0 \/ q = Null THEN <<>> ELSE <<q>> \o h[i - 1][f.optr[q]]]

Walks(h, n) == h = [i \in 0..n |-> Round(h, i)]

(* There is such a function: otherwise take the least n without one.       *)
LEMMA WalkExists == ASSUME NEW n \in Nat PROVE \E h : Walks(h, n)
<1> DEFINE T == {m \in Nat : ~\E h : Walks(h, m)}
<1> SUFFICES ASSUME T # {} PROVE FALSE
  OBVIOUS
<1>1. PICK m \in T : \A y \in T : m <= y
  BY LeastNumber
<1>2. m \in Nat /\ ~\E h : Walks(h, m)
  OBVIOUS
<1>3. CASE m = 0
  <2> DEFINE g == [i \in 0..0 |-> [q \in Proc \cup {Null} |-> <<>>]]
  <2>1. \A i \in 0..0 : Round(g, i) = [q \in Proc \cup {Null} |-> <<>>]
    BY DEF Round
  <2>2. Walks(g, 0)
    BY <2>1 DEF Walks
  <2> QED BY <1>2, <1>3, <2>2
<1>4. CASE m # 0
  <2>1. m - 1 \in Nat /\ m - 1 \notin T
    BY <1>1, <1>2, <1>4
  <2>2. PICK g : Walks(g, m - 1)
    BY <2>1
  <2> DEFINE h == [i \in 0..m |-> IF i = m THEN Round(g, m) ELSE g[i]]
  <2>3. \A i \in 0..(m - 1) : h[i] = g[i] /\ g[i] = Round(g, i)
    BY <1>2, <2>2 DEF Walks
  <2>4. \A i \in 0..m : Round(h, i) = Round(g, i)
    <3> SUFFICES ASSUME NEW i \in 0..m PROVE Round(h, i) = Round(g, i)
      OBVIOUS
    <3>1. i # 0 => i - 1 \in 0..(m - 1)
      BY <1>2
    <3>2. i # 0 => h[i - 1] = g[i - 1]
      BY <2>3, <3>1
    <3> HIDE DEF h
    <3> QED BY <3>2 DEF Round
  <2>5. \A i \in 0..m : h[i] = Round(h, i)
    <3>1. \A i \in 0..m : i = m \/ i \in 0..(m - 1)
      BY <1>2
    <3>2. h[m] = Round(g, m)
      BY <1>2
    <3> HIDE DEF h
    <3> QED BY <2>3, <2>4, <3>1, <3>2
  <2>6. Walks(h, m)
    <3>1. h = [i \in 0..m |-> h[i]]
      OBVIOUS
    <3> HIDE DEF h
    <3> QED BY <2>5, <3>1 DEF Walks
  <2> QED BY <1>2, <2>6
<1> QED BY <1>3, <1>4

(* So the CHOOSE that a recursive definition is has something to choose.   *)
LEMMA ChainWalks ==
  ASSUME NEW n \in Nat, NEW p
  PROVE  \E h : Walks(h, n) /\ Links!Chain(n, p) = h[n][p]
<1> DEFINE W(h) == Walks(h, n)
<1>1. \E h : W(h)
  BY WalkExists
<1>2. Links!Chain(n, p) = (CHOOSE h : W(h))[n][p]
  BY DEF Links!Chain, Walks, Round
<1> HIDE DEF W
<1>3. W(CHOOSE h : W(h))
  BY <1>1
<1>4. Walks(CHOOSE h : W(h), n)
  BY <1>3 DEF W
<1> QED BY <1>2, <1>4

-----------------------------------------------------------------------------
(* The children of p are s, from the youngest to the oldest: that is how   *)
(* cptr and optr lead through them, no one twice.                          *)
Follows(s, i) == IF i < Len(s) THEN s[i + 1] ELSE Null

Row(p, s) ==
  /\ s \in Seq(Proc)
  /\ f.cptr[p] = Follows(s, 0)
  /\ \A i \in 1..Len(s) : f.optr[s[i]] = Follows(s, i)
  /\ \A i, j \in 1..Len(s) : s[i] = s[j] => i = j

(* The row without its first i elements.                                   *)
Rest(s, i) == [j \in 1..(Len(s) - i) |-> s[j + i]]

(* It is made like a chain, one element and what follows.                  *)
LEMMA RestSteps ==
  ASSUME NEW s \in Seq(Proc), NEW i \in 0..Len(s)
  PROVE  /\ Rest(s, i) \in Seq(Proc) /\ Rest(s, 0) = s
         /\ i = Len(s) => Rest(s, i) = <<>>
         /\ i < Len(s) => Rest(s, i) = <<s[i + 1]>> \o Rest(s, i + 1)
<1>1. Len(s) \in Nat /\ \A j \in 1..Len(s) : s[j] \in Proc
  BY ElementOfSeq, LenProperties
<1>2. \A m \in 0..Len(s) : Rest(s, m) \in Seq(Proc) /\ Len(Rest(s, m)) = Len(s) - m
  <2> SUFFICES ASSUME NEW m \in 0..Len(s)
               PROVE  Rest(s, m) \in Seq(Proc) /\ Len(Rest(s, m)) = Len(s) - m
    OBVIOUS
  <2>1. Len(s) - m \in Nat /\ \A j \in 1..(Len(s) - m) : j + m \in 1..Len(s)
    BY <1>1
  <2>2. Rest(s, m) \in [1..(Len(s) - m) -> Proc]
    BY <1>1, <2>1 DEF Rest
  <2>3. Rest(s, m) \in Seq(Proc)
    BY <2>1, <2>2, IsASeq DEF Rest
  <2>4. DOMAIN Rest(s, m) = 1..(Len(s) - m)
    BY DEF Rest
  <2> QED BY <2>1, <2>3, <2>4, LenProperties
<1>3. Rest(s, 0) = s
  <2>1. Len(Rest(s, 0)) = Len(s) /\ \A j \in 1..Len(s) : Rest(s, 0)[j] = s[j]
    BY <1>1, <1>2 DEF Rest
  <2> QED BY <1>1, <1>2, <2>1, SeqEqual
<1>4. ASSUME i = Len(s) PROVE Rest(s, i) = <<>>
  BY <1>1, <1>2, <1>4, EmptySeq
<1>5. ASSUME i < Len(s) PROVE Rest(s, i) = <<s[i + 1]>> \o Rest(s, i + 1)
  <2> DEFINE t == <<s[i + 1]>> \o Rest(s, i + 1)
  <2>1. i \in Nat /\ i + 1 \in 1..Len(s) /\ s[i + 1] \in Proc
    BY <1>1, <1>5
  <2>2. /\ t \in Seq(Proc) /\ Len(t) = Len(s) - i
        /\ \A j \in 1..Len(t) : t[j] = IF j = 1 THEN s[i + 1] ELSE Rest(s, i + 1)[j - 1]
    BY <1>1, <1>2, <2>1, ConcatProperties
  <2>3. \A j \in 1..(Len(s) - i) : Rest(s, i)[j] = t[j]
    BY <1>1, <2>1, <2>2 DEF Rest
  <2> HIDE DEF t
  <2>4. Rest(s, i) = t
    BY <1>1, <1>2, <2>1, <2>2, <2>3, SeqEqual
  <2> QED BY <2>4 DEF t
<1> QED BY <1>2, <1>3, <1>4, <1>5

(* Nobody occurs twice, so a row is not longer than there are processes.   *)
LEMMA RowShort ==
  ASSUME NEW s \in Seq(Proc), \A i, j \in 1..Len(s) : s[i] = s[j] => i = j
  PROVE  Len(s) <= Cardinality(Proc) /\ Cardinality(Proc) \in Nat
<1>1. Len(s) \in Nat /\ \A j \in 1..Len(s) : s[j] \in Proc
  BY ElementOfSeq, LenProperties
<1> DEFINE g == [i \in 1..Len(s) |-> s[i]]
<1>2. g \in Injection(1..Len(s), Proc)
  BY <1>1 DEF Injection, IsInjective
<1>3. IsFiniteSet(1..Len(s)) /\ Cardinality(1..Len(s)) = Len(s)
  <2>1. /\ IsFiniteSet(1..Len(s))
        /\ Cardinality(1..Len(s)) = IF 1 > Len(s) THEN 0 ELSE Len(s) - 1 + 1
    BY <1>1, FS_Interval
  <2> QED BY <1>1, <2>1
<1>4. Cardinality(1..Len(s)) <= Cardinality(Proc)
  BY <1>2, <1>3, FS_Injection, TableAssumption
<1>5. Cardinality(Proc) \in Nat
  BY FS_CardinalityType, TableAssumption
<1> QED BY <1>3, <1>4, <1>5

(* The chain of a row from its i-th element on is the rest of the row, if  *)
(* it may be so long: by induction over the length of that rest.           *)
LEMMA ChainRests ==
  ASSUME NEW p \in Proc, NEW s \in Seq(Proc), Row(p, s),
         NEW n \in Nat, NEW h, Walks(h, n)
  PROVE  \A d \in 0..Len(s) : \A i \in 0..n :
           i >= d => h[i][Follows(s, Len(s) - d)] = Rest(s, Len(s) - d)
<1> DEFINE G(d) == \A i \in 0..n :
                     i >= d => h[i][Follows(s, Len(s) - d)] = Rest(s, Len(s) - d)
           T == {d \in 0..Len(s) : ~G(d)}
<1> SUFFICES ASSUME T # {} PROVE FALSE
  OBVIOUS
<1>1. Len(s) \in Nat /\ \A j \in 1..Len(s) : s[j] \in Proc /\ s[j] # Null
  BY ElementOfSeq, LenProperties, TableAssumption
<1>2. PICK d \in T : \A y \in T : d <= y
  <2>1. T \subseteq Nat
    OBVIOUS
  <2> HIDE DEF T
  <2> QED BY <2>1, LeastNumber
<1>3. d \in 0..Len(s) /\ ~G(d)
  OBVIOUS
<1> DEFINE k == Len(s) - d
           x == Follows(s, k)
<1>4. k \in 0..Len(s) /\ x \in Proc \cup {Null}
  BY <1>1, <1>3 DEF Follows
<1>5. PICK i \in 0..n : i >= d /\ h[i][x] # Rest(s, k)
  BY <1>3
<1>6. h[i][x] = IF i = 0 \/ x = Null THEN <<>> ELSE <<x>> \o h[i - 1][f.optr[x]]
  <2>1. h[i] = Round(h, i)
    BY DEF Walks
  <2> HIDE DEF x
  <2> QED BY <1>4, <2>1 DEF Round
<1>7. CASE d = 0
  <2>1. k = Len(s) /\ x = Null
    BY <1>1, <1>7 DEF Follows
  <2>2. Rest(s, k) = <<>>
    BY <1>4, <2>1, RestSteps
  <2> QED BY <1>5, <1>6, <2>1, <2>2
<1>8. CASE d # 0
  <2>1. /\ d - 1 \in 0..Len(s) /\ i # 0 /\ i - 1 \in 0..n /\ i - 1 >= d - 1
        /\ k < Len(s) /\ k + 1 \in 1..Len(s) /\ Len(s) - (d - 1) = k + 1
    BY <1>1, <1>3, <1>5, <1>8
  <2>2. x = s[k + 1] /\ x # Null /\ f.optr[x] = Follows(s, k + 1)
    BY <1>1, <2>1 DEF Follows, Row
  <2>3. G(d - 1)
    <3>1. d \in Int /\ ~(d <= d - 1)
      BY <1>1, <1>3
    <3>2. d - 1 \notin T
      <4> HIDE DEF T
      <4> QED BY <1>2, <3>1
    <3> QED BY <2>1, <3>2
  <2>4. h[i - 1][f.optr[x]] = Rest(s, k + 1)
    BY <2>1, <2>2, <2>3
  <2>5. Rest(s, k) = <<x>> \o Rest(s, k + 1)
    BY <1>4, <2>1, <2>2, RestSteps
  <2> QED BY <1>5, <1>6, <2>1, <2>2, <2>4, <2>5
<1> QED BY <1>7, <1>8

(* The chain of the children of p is its row.                              *)
LEMMA ChainRight ==
  ASSUME NEW p \in Proc, NEW s \in Seq(Proc), Row(p, s)
  PROVE  Links!ChildChain(p) = s
<1> DEFINE n == Cardinality(Proc) + 1
<1>1. Len(s) \in Nat /\ n \in Nat /\ n >= Len(s)
  BY RowShort, LenProperties DEF Row
<1>2. Links!ChildChain(p) = Links!Chain(n, f.cptr[p])
  BY DEF Links!ChildChain, Links!Cardinality, Cardinality
<1> HIDE DEF n
<1>3. PICK h : Walks(h, n) /\ Links!Chain(n, f.cptr[p]) = h[n][f.cptr[p]]
  BY <1>1, ChainWalks
<1>4. h[n][Follows(s, Len(s) - Len(s))] = Rest(s, Len(s) - Len(s))
  BY <1>1, <1>3, ChainRests
<1>5. Len(s) - Len(s) = 0 /\ 0 \in 0..Len(s)
  BY <1>1
<1>6. Rest(s, 0) = s
  BY <1>5, RestSteps
<1> QED BY <1>2, <1>3, <1>4, <1>5, <1>6 DEF Row

(* The list of children grows in front, at fork and adoption.              *)
LEMMA FollowsPrepended ==
  ASSUME NEW s \in Seq(Proc), NEW c \in Proc
  PROVE  /\ Follows(<<c>> \o s, 0) = c
         /\ \A i \in 0..Len(s) : Follows(<<c>> \o s, i + 1) = Follows(s, i)
<1> DEFINE t == <<c>> \o s
<1>1. /\ Len(s) \in Nat /\ Len(t) = Len(s) + 1
      /\ \A i \in 1..Len(t) : t[i] = IF i = 1 THEN c ELSE s[i - 1]
  BY Prepended, LenProperties
<1> HIDE DEF t
<1>2. Follows(t, 0) = c /\ \A i \in 0..Len(s) : Follows(t, i + 1) = Follows(s, i)
  BY <1>1 DEF Follows
<1> QED BY <1>2 DEF t

(* The first one leaves, when it is adopted.                               *)
LEMMA FollowsTail ==
  ASSUME NEW s \in Seq(Proc), s # <<>>
  PROVE  \A i \in 0..(Len(s) - 1) : Follows(Tail(s), i) = Follows(s, i + 1)
<1>1. /\ Len(s) \in Nat /\ Len(Tail(s)) = Len(s) - 1
      /\ \A i \in 1..Len(Tail(s)) : Tail(s)[i] = s[i + 1]
  BY HeadTailProperties, LenProperties
<1> QED BY <1>1 DEF Follows

(* Any one leaves, when it is reaped.                                      *)
LEMMA FollowsRemoved ==
  ASSUME NEW s \in Seq(Proc), NEW n \in 1..Len(s)
  PROVE  \A i \in 0..(Len(s) - 1) :
           Follows(RemoveAt(s, n), i) = IF i < n - 1 THEN Follows(s, i) ELSE Follows(s, i + 1)
<1>1. Len(s) \in Nat
  BY LenProperties
<1>2. /\ Len(RemoveAt(s, n)) = Len(s) - 1
      /\ \A j \in 1..(Len(s) - 1) :
           RemoveAt(s, n)[j] = IF j < n THEN s[j] ELSE s[j + 1]
  BY Removed
<1> QED BY <1>1, <1>2 DEF Follows

-----------------------------------------------------------------------------
(* s is the list of the children of p; and k has these lists of everyone.  *)
Children(p, s) ==
  /\ Row(p, s)
  /\ \A i \in 1..Len(s) : s[i] \in Named /\ f.parent[s[i]] = p
  /\ \A c \in Named : f.parent[c] = p => \E i \in 1..Len(s) : s[i] = c

FamilyIs(k) ==
  /\ k \in [Proc -> Seq(Proc)]
  /\ \A q \in Proc : IF Links!Exists(q) THEN Children(q, k[q]) ELSE k[q] = <<>>

(* What the refinement mapping of ProcLinks says.                          *)
Kids    == [p \in Proc |-> IF Links!Exists(p) THEN Links!ChildChain(p) ELSE <<>>]
Zombies == {p \in Proc : state[p] = "zombie"}

(* Lists that are the family are the ones that the chains are, and there   *)
(* are no others.                                                          *)
LEMMA KidsRight == \A k : FamilyIs(k) => Kids = k
<1> SUFFICES ASSUME NEW k, FamilyIs(k) PROVE Kids = k
  OBVIOUS
<1>1. ASSUME NEW p \in Proc, Links!Exists(p) PROVE Links!ChildChain(p) = k[p]
  BY <1>1, ChainRight DEF FamilyIs, Children
<1> QED BY <1>1 DEF FamilyIs, Kids

LEMMA KidsRightNext == (\A k : FamilyIs(k) => Kids = k)'
BY KidsRight, PTL

(* Whom a family names exists, and the other way round.                    *)
LEMMA BornExist ==
  ASSUME Shape, NEW k, FamilyIs(k)
  PROVE  Links!Lists!Born = {p \in Proc : Links!Exists(p)}
<1>1. Links!Lists!Born = {Idle, InitProc} \cup UNION {ToSet(Kids[p]) : p \in Proc}
  BY DEF Links!Lists!Born, Kids, Links!Lists!ToSet, ToSet
<1>2. Kids = k
  BY KidsRight
<1>3. \A p \in Proc : /\ k[p] \in Seq(Proc) /\ DOMAIN k[p] = 1..Len(k[p])
                      /\ \A i \in 1..Len(k[p]) : k[p][i] \in Named
  <2> SUFFICES ASSUME NEW p \in Proc
               PROVE  /\ k[p] \in Seq(Proc) /\ DOMAIN k[p] = 1..Len(k[p])
                      /\ \A i \in 1..Len(k[p]) : k[p][i] \in Named
    OBVIOUS
  <2>1. k[p] \in Seq(Proc) /\ DOMAIN k[p] = 1..Len(k[p])
    BY LenProperties DEF FamilyIs
  <2>2. CASE Links!Exists(p)
    BY <2>1, <2>2 DEF FamilyIs, Children
  <2>3. CASE ~Links!Exists(p)
    <3>1. k[p] = <<>> /\ Len(k[p]) = 0
      BY <2>3 DEF FamilyIs
    <3> QED BY <2>1, <3>1
  <2> QED BY <2>2, <2>3
<1>4. ASSUME NEW c \in Links!Lists!Born PROVE c \in Proc /\ Links!Exists(c)
  <2>1. CASE c \in {Idle, InitProc}
    BY <2>1, TableAssumption DEF Shape, LinksOK, Links!Exists
  <2>2. CASE c \notin {Idle, InitProc}
    <3>1. PICK p \in Proc : c \in ToSet(k[p])
      BY <1>1, <1>2, <1>4, <2>2
    <3> QED BY <1>3, <3>1 DEF ToSet, Named
  <2> QED BY <2>1, <2>2
<1>5. ASSUME NEW c \in Proc, Links!Exists(c) PROVE c \in Links!Lists!Born
  <2>1. CASE c = Idle
    BY <1>1, <2>1
  <2>2. CASE c # Idle
    <3>1. c \in Named
      BY <1>5, <2>2 DEF Named
    <3>2. PICK p \in Proc : p = f.parent[c] /\ Links!Exists(p)
      BY <3>1 DEF Shape, Parents
    <3>3. PICK i \in 1..Len(k[p]) : k[p][i] = c
      BY <3>1, <3>2 DEF FamilyIs, Children
    <3>4. c \in ToSet(k[p])
      BY <1>3, <3>3 DEF ToSet
    <3> QED BY <1>1, <1>2, <3>4
  <2> QED BY <2>1, <2>2
<1> QED BY <1>4, <1>5

-----------------------------------------------------------------------------
(* The list of a process stays right if none of its pointers changes.      *)
LEMMA ChildrenStay ==
  ASSUME NEW q \in Proc, NEW s \in Seq(Proc), Children(q, s),
         f'.cptr[q] = f.cptr[q],
         \A i \in 1..Len(s) : /\ f'.optr[s[i]] = f.optr[s[i]] /\ s[i] \in Named'
                              /\ f'.parent[s[i]] = f.parent[s[i]],
         \A c \in Named' : f'.parent[c] = q => c \in Named /\ f.parent[c] = q
  PROVE  Children(q, s)'
<1>1. Row(q, s)'
  BY DEF Children, Row, Follows
<1> QED BY <1>1 DEF Children

(* c is in front of the children of p, as in do_fork and in do_exit's loop. *)
LEMMA ChildrenPrepended ==
  ASSUME NEW p \in Proc, NEW c \in Proc, NEW s \in Seq(Proc), Children(p, s),
         c \in Named', f'.cptr[p] = c, f'.parent[c] = p, f'.optr[c] = f.cptr[p],
         \A i \in 1..Len(s) : /\ s[i] # c /\ f'.optr[s[i]] = f.optr[s[i]]
                              /\ s[i] \in Named' /\ f'.parent[s[i]] = f.parent[s[i]],
         \A x \in Named' : x # c /\ f'.parent[x] = p => x \in Named /\ f.parent[x] = p
  PROVE  Children(p, <<c>> \o s)'
<1> DEFINE t == <<c>> \o s
<1>1. /\ Len(s) \in Nat /\ t \in Seq(Proc) /\ Len(t) = Len(s) + 1
      /\ \A i \in 1..Len(t) : t[i] = IF i = 1 THEN c ELSE s[i - 1]
  BY Prepended, LenProperties
<1>2. Follows(t, 0) = c /\ \A i \in 0..Len(s) : Follows(t, i + 1) = Follows(s, i)
  BY FollowsPrepended
<1> HIDE DEF t
<1>3. Row(p, t)'
  <2>1. f'.cptr[p] = Follows(t, 0)
    BY <1>2
  <2>2. ASSUME NEW i \in 1..Len(t) PROVE f'.optr[t[i]] = Follows(t, i)
    <3>1. CASE i = 1
      <4>1. t[i] = c /\ Follows(t, 0 + 1) = Follows(s, 0)
        BY <1>1, <1>2, <3>1
      <4> QED BY <3>1, <4>1 DEF Children, Row
    <3>2. CASE i # 1
      <4>1. i - 1 \in 1..Len(s) /\ t[i] = s[i - 1]
        BY <1>1, <3>2
      <4>2. Follows(t, (i - 1) + 1) = Follows(s, i - 1) /\ (i - 1) + 1 = i
        BY <1>1, <1>2, <4>1
      <4> QED BY <4>1, <4>2 DEF Children, Row
    <3> QED BY <3>1, <3>2
  <2>3. ASSUME NEW i \in 1..Len(t), NEW j \in 1..Len(t), t[i] = t[j] PROVE i = j
    <3>1. i # 1 => i - 1 \in 1..Len(s)
      BY <1>1
    <3>2. j # 1 => j - 1 \in 1..Len(s)
      BY <1>1
    <3>3. i # 1 /\ j # 1 => i - 1 = j - 1
      BY <1>1, <2>3, <3>1, <3>2 DEF Children, Row
    <3>4. (i # 1 => t[i] # c) /\ (j # 1 => t[j] # c)
      BY <1>1, <3>1, <3>2
    <3>5. t[1] = c /\ i \in Int /\ j \in Int
      BY <1>1
    <3> QED BY <2>3, <3>3, <3>4, <3>5
  <2>4. Follows(t, 0)' = Follows(t, 0) /\ \A i \in 1..Len(t) : Follows(t, i)' = Follows(t, i)
    BY DEF Follows
  <2> QED BY <1>1, <2>1, <2>2, <2>3, <2>4 DEF Row
<1>4. \A i \in 1..Len(t) : t[i] \in Named' /\ f'.parent[t[i]] = p
  <2> SUFFICES ASSUME NEW i \in 1..Len(t) PROVE t[i] \in Named' /\ f'.parent[t[i]] = p
    OBVIOUS
  <2>1. i # 1 => i - 1 \in 1..Len(s)
    BY <1>1
  <2> QED BY <1>1, <2>1 DEF Children
<1>5. ASSUME NEW x \in Named', f'.parent[x] = p PROVE \E i \in 1..Len(t) : t[i] = x
  <2>1. CASE x = c
    BY <1>1, <2>1
  <2>2. CASE x # c
    <3>1. PICK i \in 1..Len(s) : s[i] = x
      BY <1>5, <2>2 DEF Children
    <3>2. i + 1 \in 1..Len(t) /\ i + 1 # 1 /\ (i + 1) - 1 = i
      BY <1>1
    <3>3. t[i + 1] = x
      BY <1>1, <3>1, <3>2
    <3> QED BY <3>2, <3>3
  <2> QED BY <2>1, <2>2
<1>6. Children(p, t)'
  BY <1>3, <1>4, <1>5 DEF Children
<1> QED BY <1>6 DEF t

(* The youngest child c of l, the one in cptr, goes.                       *)
LEMMA ChildrenTail ==
  ASSUME NEW l \in Proc, NEW s \in Seq(Proc), s # <<>>, Children(l, s),
         f'.cptr[l] = f.optr[s[1]], f'.parent[s[1]] # l,
         \A x \in Named : x # s[1] => /\ f'.optr[x] = f.optr[x]
                                      /\ f'.parent[x] = f.parent[x],
         Named' = Named
  PROVE  Children(l, Tail(s))'
<1> DEFINE t == Tail(s)
<1>1. /\ Len(s) \in Nat /\ t \in Seq(Proc) /\ Len(t) = Len(s) - 1
      /\ \A i \in 1..Len(t) : t[i] = s[i + 1]
  BY HeadTailProperties, LenProperties
<1>2. \A i \in 0..(Len(s) - 1) : Follows(t, i) = Follows(s, i + 1)
  BY FollowsTail
<1>3. Len(s) # 0 /\ 1 \in 1..Len(s)
  BY <1>1, EmptySeq
<1> HIDE DEF t
<1>4. ASSUME NEW i \in 1..Len(t)
      PROVE  /\ i + 1 \in 1..Len(s) /\ t[i] = s[i + 1] /\ t[i] # s[1] /\ t[i] \in Named
             /\ i \in 0..(Len(s) - 1)
  BY <1>1, <1>3 DEF Children, Row
<1>5. Row(l, t)'
  <2>1. f'.cptr[l] = Follows(t, 0)
    <3>1. Follows(t, 0) = Follows(s, 0 + 1)
      BY <1>1, <1>2, <1>3
    <3> QED BY <1>3, <3>1 DEF Children, Row
  <2>2. ASSUME NEW i \in 1..Len(t) PROVE f'.optr[t[i]] = Follows(t, i)
    <3>1. f'.optr[t[i]] = f.optr[s[i + 1]]
      BY <1>4
    <3>2. f.optr[s[i + 1]] = Follows(s, i + 1)
      BY <1>4 DEF Children, Row
    <3>3. Follows(t, i) = Follows(s, i + 1)
      BY <1>2, <1>4
    <3> QED BY <3>1, <3>2, <3>3
  <2>3. ASSUME NEW i \in 1..Len(t), NEW j \in 1..Len(t), t[i] = t[j] PROVE i = j
    <3>1. i + 1 = j + 1
      BY <1>4, <2>3 DEF Children, Row
    <3> QED BY <3>1
  <2>4. Follows(t, 0)' = Follows(t, 0) /\ \A i \in 1..Len(t) : Follows(t, i)' = Follows(t, i)
    BY DEF Follows
  <2> QED BY <1>1, <2>1, <2>2, <2>3, <2>4 DEF Row
<1>6. \A i \in 1..Len(t) : t[i] \in Named' /\ f'.parent[t[i]] = l
  BY <1>4 DEF Children
<1>7. ASSUME NEW x \in Named', f'.parent[x] = l PROVE \E i \in 1..Len(t) : t[i] = x
  <2>1. x # s[1] /\ f.parent[x] = l
    BY <1>7
  <2>2. PICK i \in 1..Len(s) : s[i] = x
    BY <1>7, <2>1 DEF Children
  <2>3. i - 1 \in 1..Len(t) /\ (i - 1) + 1 = i
    BY <1>1, <2>1, <2>2
  <2>4. t[i - 1] = x
    BY <1>1, <2>2, <2>3
  <2> QED BY <2>3, <2>4
<1>8. Children(l, t)'
  BY <1>5, <1>6, <1>7 DEF Children
<1> QED BY <1>8 DEF t

(* The n-th child goes, and its siblings close ranks.                      *)
LEMMA ChildrenRemoved ==
  ASSUME NEW r \in Proc, NEW s \in Seq(Proc), NEW n \in 1..Len(s), Children(r, s),
         f'.cptr[r] = IF n = 1 THEN f.optr[s[n]] ELSE f.cptr[r],
         \A x \in Named \ {s[n]} :
           /\ f'.parent[x] = f.parent[x]
           /\ f'.optr[x] = IF n # 1 /\ x = s[n - 1] THEN f.optr[s[n]] ELSE f.optr[x],
         Named' = Named \ {s[n]}
  PROVE  Children(r, RemoveAt(s, n))'
<1> DEFINE t == RemoveAt(s, n)
<1>1. /\ Len(s) \in Nat /\ t \in Seq(Proc) /\ Len(t) = Len(s) - 1
      /\ \A i \in 1..Len(t) : t[i] = IF i < n THEN s[i] ELSE s[i + 1]
  BY Removed, LenProperties
<1>2. \A i \in 0..(Len(s) - 1) :
        Follows(t, i) = IF i < n - 1 THEN Follows(s, i) ELSE Follows(s, i + 1)
  BY FollowsRemoved
<1> HIDE DEF t
<1>3. /\ f.cptr[r] = Follows(s, 0) /\ \A i \in 1..Len(s) : f.optr[s[i]] = Follows(s, i)
      /\ \A i, j \in 1..Len(s) : s[i] = s[j] => i = j
      /\ \A i \in 1..Len(s) : s[i] \in Named /\ f.parent[s[i]] = r
  BY DEF Children, Row
<1>4. ASSUME NEW i \in 1..Len(t)
      PROVE  /\ i \in 0..(Len(s) - 1) /\ i \in 1..Len(s) /\ i + 1 \in 1..Len(s)
             /\ t[i] \in Named \ {s[n]} /\ f.parent[t[i]] = r
  <2>1. i \in 0..(Len(s) - 1) /\ i \in 1..Len(s) /\ i + 1 \in 1..Len(s)
    BY <1>1
  <2>2. CASE i < n
    <3>1. t[i] = s[i] /\ i # n
      BY <1>1, <2>2
    <3> QED BY <1>3, <2>1, <3>1
  <2>3. CASE ~(i < n)
    <3>1. t[i] = s[i + 1] /\ i + 1 # n
      BY <1>1, <2>3
    <3> QED BY <1>3, <2>1, <3>1
  <2> QED BY <2>2, <2>3
<1>5. f'.cptr[r] = Follows(t, 0)
  <2>1. Follows(t, 0) = IF 0 < n - 1 THEN Follows(s, 0) ELSE Follows(s, 0 + 1)
    BY <1>1, <1>2
  <2>2. (0 < n - 1) <=> n # 1
    OBVIOUS
  <2>3. f.optr[s[n]] = Follows(s, n)
    BY <1>3
  <2> QED BY <1>3, <2>1, <2>2, <2>3
<1>6. ASSUME NEW i \in 1..Len(t) PROVE f'.optr[t[i]] = Follows(t, i)
  <2>1. CASE i = n - 1
    <3>1. t[i] = s[n - 1] /\ n # 1
      BY <1>1, <2>1
    <3>2. f'.optr[t[i]] = Follows(s, n)
      BY <1>3, <1>4, <3>1
    <3>3. Follows(t, i) = Follows(s, i + 1) /\ i + 1 = n
      BY <1>2, <1>4, <2>1
    <3> QED BY <3>2, <3>3
  <2>2. CASE i < n - 1
    <3>1. t[i] = s[i]
      BY <1>1, <2>2
    <3>2. n # 1 /\ n - 1 \in 1..Len(s) /\ i # n - 1
      BY <1>1, <2>2
    <3>3. t[i] # s[n - 1]
      BY <1>3, <1>4, <3>1, <3>2
    <3>4. f'.optr[t[i]] = Follows(s, i)
      BY <1>3, <1>4, <3>1, <3>3
    <3>5. Follows(t, i) = Follows(s, i)
      BY <1>2, <1>4, <2>2
    <3> QED BY <3>4, <3>5
  <2>3. CASE i > n - 1
    <3>1. t[i] = s[i + 1]
      BY <1>1, <2>3
    <3>2. n # 1 => n - 1 \in 1..Len(s) /\ i + 1 # n - 1
      BY <1>1, <2>3
    <3>3. n # 1 => t[i] # s[n - 1]
      BY <1>3, <1>4, <3>1, <3>2
    <3>4. f'.optr[t[i]] = f.optr[t[i]]
      BY <1>4, <3>3
    <3>5. f.optr[t[i]] = Follows(s, i + 1)
      BY <1>3, <1>4, <3>1
    <3>6. Follows(t, i) = Follows(s, i + 1)
      BY <1>2, <1>4, <2>3
    <3> QED BY <3>4, <3>5, <3>6
  <2>4. i \in Int /\ n \in Int
    BY <1>1
  <2> QED BY <2>1, <2>2, <2>3, <2>4
<1>7. ASSUME NEW i \in 1..Len(t), NEW j \in 1..Len(t), t[i] = t[j] PROVE i = j
  <2>1. PICK a \in 1..Len(s) : t[i] = s[a] /\ a = IF i < n THEN i ELSE i + 1
    BY <1>1, <1>4
  <2>2. PICK b \in 1..Len(s) : t[j] = s[b] /\ b = IF j < n THEN j ELSE j + 1
    BY <1>1, <1>4
  <2>3. a = b
    <3>1. s[a] = s[b] /\ \A x, y \in 1..Len(s) : s[x] = s[y] => x = y
      BY <1>3, <1>7, <2>1, <2>2
    <3> QED BY <3>1
  <2>4. i \in Int /\ j \in Int /\ n \in Int
    BY <1>1
  <2> QED BY <2>1, <2>2, <2>3, <2>4
<1>8. Row(r, t)'
  <2>1. Follows(t, 0)' = Follows(t, 0) /\ \A i \in 1..Len(t) : Follows(t, i)' = Follows(t, i)
    BY DEF Follows
  <2> QED BY <1>1, <1>5, <1>6, <1>7, <2>1 DEF Row
<1>9. \A i \in 1..Len(t) : t[i] \in Named' /\ f'.parent[t[i]] = r
  BY <1>4
<1>10. ASSUME NEW x \in Named', f'.parent[x] = r PROVE \E i \in 1..Len(t) : t[i] = x
  <2>1. x # s[n] /\ f.parent[x] = r
    BY <1>10
  <2>2. PICK i \in 1..Len(s) : s[i] = x
    BY <1>10, <2>1 DEF Children
  <2>3. CASE i < n
    <3>1. i \in 1..Len(t) /\ t[i] = s[i]
      BY <1>1, <2>3
    <3> QED BY <2>2, <3>1
  <2>4. CASE i > n
    <3>1. i - 1 \in 1..Len(t) /\ ~(i - 1 < n) /\ (i - 1) + 1 = i
      BY <1>1, <2>4
    <3>2. t[i - 1] = s[i]
      BY <1>1, <3>1
    <3> QED BY <2>2, <3>1, <3>2
  <2> QED BY <2>1, <2>2, <2>3, <2>4
<1>11. Children(r, t)'
  BY <1>8, <1>9, <1>10 DEF Children
<1> QED BY <1>11 DEF t

(* No list changes when no pointer does.                                   *)
LEMMA FamilyStays ==
  ASSUME NEW k, FamilyIs(k), f' = f, Named' = Named,
         \A q \in Proc : Links!Exists(q)' <=> Links!Exists(q)
  PROVE  FamilyIs(k)'
BY DEF FamilyIs, Children, Row, Follows

(* proc_init: idle has one child.                                          *)
LEMMA FamilyBegins ==
  ASSUME TableInit
  PROVE  FamilyIs([p \in Proc |-> IF p = Idle THEN <<InitProc>> ELSE <<>>])
<1> USE TableAssumption
<1> DEFINE k == [p \in Proc |-> IF p = Idle THEN <<InitProc>> ELSE <<>>]
<1>1. /\ \A p \in Proc : /\ f.parent[p] = IF p = InitProc THEN Idle ELSE Null
                         /\ f.cptr[p] = IF p = Idle THEN InitProc ELSE Null
                         /\ f.optr[p] = Null
      /\ \A p \in Proc : Links!Exists(p) <=> p \in {Idle, InitProc}
      /\ Named = {InitProc}
  BY DEF TableInit, Links!Init, Links!Exists, Named
<1>2. k \in [Proc -> Seq(Proc)]
  OBVIOUS
<1>3. Children(Idle, <<InitProc>>)
  <2>1. Len(<<InitProc>>) = 1 /\ <<InitProc>>[1] = InitProc /\ <<InitProc>> \in Seq(Proc)
    OBVIOUS
  <2> QED BY <1>1, <2>1 DEF Children, Row, Follows
<1>4. Children(InitProc, <<>>)
  <2>1. Len(<<>>) = 0 /\ <<>> \in Seq(Proc)
    OBVIOUS
  <2> QED BY <1>1, <2>1 DEF Children, Row, Follows
<1> QED BY <1>1, <1>2, <1>3, <1>4 DEF FamilyIs

(* do_fork: c is in front of the list of p; it has no children.            *)
LEMMA FamilyForks ==
  ASSUME Shape, NEW k, FamilyIs(k), NEW p \in Proc, NEW c \in Proc, Links!Fork(p, c)
  PROVE  FamilyIs([k EXCEPT ![p] = <<c>> \o @])'
<1> USE TableAssumption
<1>1. /\ leaving = Null /\ state[p] = "live" /\ p # Idle /\ p # c
      /\ state[c] = "none" /\ state' = [state EXCEPT ![c] = "live"]
      /\ c # Idle /\ c # Null /\ c \notin Named
      /\ f' = Relinked(c, Null, p, c)
  BY DEF Links!Fork, Links!May, Links!Exists, Shape, LinksOK, Named, Relinked
<1>2. \A q \in Proc :
        /\ f'.parent[q] = IF q = c THEN p ELSE f.parent[q]
        /\ f'.optr[q] = IF q = c THEN f.cptr[p] ELSE f.optr[q]
        /\ f'.cptr[q] = IF q = p THEN c ELSE IF q = c THEN Null ELSE f.cptr[q]
  BY <1>1, LinkedPointers DEF Shape, LinksOK, Slots
<1>3. /\ Named' = Named \cup {c} /\ Named \subseteq Proc
      /\ \A q \in Proc : Links!Exists(q)' <=> Links!Exists(q) \/ q = c
      /\ Links!Exists(p) /\ ~Links!Exists(c)
  BY <1>1 DEF Named, Links!Exists, Shape, LinksOK
<1>4. \A x \in Named : f.parent[x] \in Proc /\ f.parent[x] # c
  BY <1>3 DEF Shape, Parents
<1>5. /\ k \in [Proc -> Seq(Proc)] /\ k[c] = <<>>
      /\ \A q \in Proc : Links!Exists(q) => Children(q, k[q])
  BY <1>3 DEF FamilyIs
<1>6. \A q \in Proc : Links!Exists(q) => \A i \in 1..Len(k[q]) : k[q][i] \in Named
  BY <1>5 DEF Children
<1>7. Children(p, <<c>> \o k[p])'
  <2>1. \A i \in 1..Len(k[p]) : k[p][i] # c /\ k[p][i] \in Named /\ k[p][i] \in Proc
    BY <1>1, <1>3, <1>6
  <2> QED BY <1>1, <1>2, <1>3, <1>5, <2>1, ChildrenPrepended
<1>8. Children(c, <<>>)'
  <2>1. Len(<<>>) = 0 /\ <<>> \in Seq(Proc)
    OBVIOUS
  <2>2. f'.cptr[c] = Null /\ \A x \in Named' : f'.parent[x] # c
    BY <1>1, <1>2, <1>3, <1>4
  <2> QED BY <2>1, <2>2 DEF Children, Row, Follows
<1>9. ASSUME NEW q \in Proc, q # p, q # c, Links!Exists(q) PROVE Children(q, k[q])'
  <2>1. \A i \in 1..Len(k[q]) : k[q][i] # c /\ k[q][i] \in Named /\ k[q][i] \in Proc
    BY <1>1, <1>3, <1>6, <1>9
  <2>2. \A x \in Named' : f'.parent[x] = q => x \in Named /\ f.parent[x] = q
    BY <1>2, <1>3, <1>9
  <2>3. f'.cptr[q] = f.cptr[q] /\ k[q] \in Seq(Proc) /\ Children(q, k[q])
    BY <1>2, <1>5, <1>9
  <2>4. \A i \in 1..Len(k[q]) : /\ f'.optr[k[q][i]] = f.optr[k[q][i]] /\ k[q][i] \in Named'
                                /\ f'.parent[k[q][i]] = f.parent[k[q][i]]
    BY <1>2, <1>3, <2>1
  <2> QED BY <2>2, <2>3, <2>4, ChildrenStay
<1> DEFINE m == [k EXCEPT ![p] = <<c>> \o @]
<1>10. /\ m \in [Proc -> Seq(Proc)]
       /\ \A q \in Proc : m[q] = IF q = p THEN <<c>> \o k[p] ELSE k[q]
  <2>1. <<c>> \o k[p] \in Seq(Proc)
    BY <1>5
  <2> QED BY <1>5, <2>1
<1> HIDE DEF m
<1>11. FamilyIs(m)'
  <2> SUFFICES ASSUME NEW q \in Proc
               PROVE  IF Links!Exists(q)' THEN Children(q, m[q])' ELSE m[q] = <<>>
    BY <1>10 DEF FamilyIs
  <2>1. CASE q = p
    BY <1>3, <1>7, <1>10, <2>1
  <2>2. CASE q = c
    BY <1>1, <1>3, <1>5, <1>8, <1>10, <2>2
  <2>3. CASE q # p /\ q # c
    <3>1. m[q] = k[q] /\ (Links!Exists(q)' <=> Links!Exists(q))
      BY <1>3, <1>10, <2>3
    <3>2. ~Links!Exists(q) => k[q] = <<>>
      BY DEF FamilyIs
    <3> QED BY <1>9, <2>3, <3>1, <3>2
  <2> QED BY <2>1, <2>2, <2>3
<1> QED BY <1>11 DEF m

(* do_exit, one round: the head of the list of l goes to that of init.     *)
LEMMA FamilyAdopts ==
  ASSUME Shape, NEW k, FamilyIs(k), NEW l \in Proc, l = leaving, Links!Adopt
  PROVE  /\ k[l] # <<>>
         /\ FamilyIs([k EXCEPT ![l] = Tail(@), ![InitProc] = <<Head(k[l])>> \o @])'
<1> USE TableAssumption
<1>1. /\ state' = state /\ state[l] = "zombie" /\ l # InitProc /\ f.cptr[l] # Null
      /\ f' = Relinked(l, f.optr[f.cptr[l]], InitProc, f.cptr[l])
  BY DEF Links!Adopt, Shape, LinksOK, Relinked
<1>2. /\ Named' = Named /\ Named \subseteq Proc
      /\ \A q \in Proc : Links!Exists(q)' <=> Links!Exists(q)
      /\ Links!Exists(l) /\ Links!Exists(InitProc)
  BY <1>1 DEF Named, Links!Exists, Shape, LinksOK
<1>3. k \in [Proc -> Seq(Proc)] /\ \A q \in Proc : Links!Exists(q) => Children(q, k[q])
  BY DEF FamilyIs
<1>4. PICK c \in Named : c = f.cptr[l] /\ f.parent[c] = l
  BY <1>1, <1>2 DEF Shape, Heads
<1>5. Children(l, k[l]) /\ k[l] \in Seq(Proc) /\ Len(k[l]) \in Nat
  BY <1>2, <1>3, LenProperties
<1>6. k[l] # <<>> /\ k[l][1] = c /\ Head(k[l]) = c
  <2>1. 0 < Len(k[l]) /\ k[l][0 + 1] = c
    BY <1>1, <1>4, <1>5 DEF Children, Row, Follows
  <2>2. k[l] # <<>>
    BY <2>1
  <2> QED BY <1>5, <2>1, <2>2
<1>7. \A q \in Proc :
        /\ f'.parent[q] = IF q = c THEN InitProc ELSE f.parent[q]
        /\ f'.optr[q] = IF q = c THEN f.cptr[InitProc] ELSE f.optr[q]
        /\ f'.cptr[q] = IF q = InitProc THEN c ELSE IF q = l THEN f.optr[c] ELSE f.cptr[q]
  <2>1. f' = Relinked(l, f.optr[c], InitProc, c) /\ c \in Proc /\ f.optr[c] \in Slots
    BY <1>1, <1>2, <1>4 DEF Shape, LinksOK, Pointers
  <2> QED BY <1>1, <2>1, LinkedPointers DEF Shape, LinksOK
<1>8. c \in Proc /\ \A q \in Proc : Links!Exists(q) =>
        /\ \A i \in 1..Len(k[q]) : k[q][i] \in Named /\ k[q][i] \in Proc
        /\ q # l => \A i \in 1..Len(k[q]) : k[q][i] # c
  <2>1. c \in Named /\ c \in Proc /\ f.parent[c] = l /\ Named \subseteq Proc
    BY <1>2, <1>4
  <2>2. ASSUME NEW q \in Proc, Links!Exists(q), NEW i \in 1..Len(k[q])
        PROVE  k[q][i] \in Named /\ k[q][i] \in Proc /\ (q # l => k[q][i] # c)
    <3>1. k[q][i] \in Named /\ f.parent[k[q][i]] = q
      BY <1>3, <2>2, Zenon DEF Children
    <3> QED BY <2>1, <3>1, Zenon
  <2> QED BY <2>1, <2>2, Zenon
<1>9. Children(l, Tail(k[l]))'
  <2>1. f'.cptr[l] = f.optr[k[l][1]] /\ f'.parent[k[l][1]] # l
    BY <1>1, <1>6, <1>7, <1>8
  <2>2. \A x \in Named : x # k[l][1] => /\ f'.optr[x] = f.optr[x]
                                        /\ f'.parent[x] = f.parent[x]
    BY <1>2, <1>6, <1>7
  <2> QED BY <1>2, <1>5, <1>6, <2>1, <2>2, ChildrenTail
<1>10. Children(InitProc, <<c>> \o k[InitProc])'
  <2>1. /\ k[InitProc] \in Seq(Proc) /\ Children(InitProc, k[InitProc])
        /\ c \in Named' /\ f'.cptr[InitProc] = c /\ f'.parent[c] = InitProc
        /\ f'.optr[c] = f.cptr[InitProc]
    BY <1>2, <1>3, <1>7, <1>8
  <2>2. \A i \in 1..Len(k[InitProc]) :
          /\ k[InitProc][i] # c /\ f'.optr[k[InitProc][i]] = f.optr[k[InitProc][i]]
          /\ k[InitProc][i] \in Named'
          /\ f'.parent[k[InitProc][i]] = f.parent[k[InitProc][i]]
    BY <1>1, <1>2, <1>7, <1>8
  <2>3. \A x \in Named' : x # c /\ f'.parent[x] = InitProc =>
          x \in Named /\ f.parent[x] = InitProc
    BY <1>2, <1>7
  <2> QED BY <1>8, <2>1, <2>2, <2>3, ChildrenPrepended
<1>11. ASSUME NEW q \in Proc, q # l, q # InitProc, Links!Exists(q) PROVE Children(q, k[q])'
  <2>1. f'.cptr[q] = f.cptr[q] /\ k[q] \in Seq(Proc) /\ Children(q, k[q])
    BY <1>3, <1>7, <1>11
  <2>2. \A i \in 1..Len(k[q]) : /\ f'.optr[k[q][i]] = f.optr[k[q][i]] /\ k[q][i] \in Named'
                                /\ f'.parent[k[q][i]] = f.parent[k[q][i]]
    BY <1>2, <1>7, <1>8, <1>11
  <2>3. \A x \in Named' : f'.parent[x] = q => x \in Named /\ f.parent[x] = q
    BY <1>2, <1>7, <1>11
  <2> QED BY <2>1, <2>2, <2>3, ChildrenStay
<1> DEFINE m == [k EXCEPT ![l] = Tail(@), ![InitProc] = <<Head(k[l])>> \o @]
<1>12. /\ m \in [Proc -> Seq(Proc)]
       /\ \A q \in Proc : m[q] = IF q = l THEN Tail(k[l])
                                 ELSE IF q = InitProc THEN <<c>> \o k[q] ELSE k[q]
  <2>1. <<c>> \o k[InitProc] \in Seq(Proc) /\ Tail(k[l]) \in Seq(Proc)
    BY <1>3, <1>5, <1>6, <1>8, HeadTailProperties
  <2> QED BY <1>1, <1>3, <1>6, <2>1
<1> HIDE DEF m
<1>13. FamilyIs(m)'
  <2> SUFFICES ASSUME NEW q \in Proc
               PROVE  IF Links!Exists(q)' THEN Children(q, m[q])' ELSE m[q] = <<>>
    BY <1>12 DEF FamilyIs
  <2>1. CASE q = l
    BY <1>2, <1>9, <1>12, <2>1
  <2>2. CASE q = InitProc
    BY <1>1, <1>2, <1>10, <1>12, <2>2
  <2>3. CASE q # l /\ q # InitProc
    <3>1. m[q] = k[q] /\ (Links!Exists(q)' <=> Links!Exists(q))
      BY <1>2, <1>12, <2>3
    <3>2. ~Links!Exists(q) => k[q] = <<>>
      BY DEF FamilyIs
    <3> QED BY <1>11, <2>3, <3>1, <3>2
  <2> QED BY <2>1, <2>2, <2>3
<1> QED BY <1>6, <1>13 DEF m

(* do_wait: z has no children, and goes from the list it is in.            *)
LEMMA FamilyReaps ==
  ASSUME Shape, NEW k, FamilyIs(k), NEW p \in Proc, NEW z \in Proc, Links!Wait(p, z)
  PROVE  /\ k[z] = <<>>
         /\ \E m : /\ FamilyIs(m)'
                   /\ \E r \in Proc : \E n \in DOMAIN k[r] :
                        k[r][n] = z /\ m = [k EXCEPT ![r] = RemoveAt(@, n)]
<1> USE TableAssumption
<1>1. /\ leaving = Null /\ state[z] = "zombie" /\ z # Idle
      /\ state' = [state EXCEPT ![z] = "none"] /\ f' = Links!Unlinked(f, z)
  BY DEF Links!Wait, Links!May, Shape, LinksOK
<1>2. /\ Named' = Named \ {z} /\ z \in Named /\ Named \subseteq Proc
      /\ \A q \in Proc : Links!Exists(q)' <=> Links!Exists(q) /\ q # z
      /\ Links!Exists(z)
  BY <1>1 DEF Named, Links!Exists, Shape, LinksOK
<1>3. PICK r \in Proc : r = f.parent[z] /\ Links!Exists(r) /\ r # z
  BY <1>1, <1>2 DEF Shape, Parents
<1>4. k \in [Proc -> Seq(Proc)] /\ \A q \in Proc : Links!Exists(q) => Children(q, k[q])
  BY DEF FamilyIs
<1>5. \A q \in Proc : Links!Exists(q) =>
        \A i \in 1..Len(k[q]) : /\ k[q][i] \in Named /\ k[q][i] \in Proc
                                /\ f.parent[k[q][i]] = q
  BY <1>2, <1>4 DEF Children
<1>6. k[z] = <<>>
  <2>1. Len(k[z]) \in Nat /\ k[z] \in Seq(Proc)
    BY <1>4, LenProperties
  <2>2. \A x \in Named : f.parent[x] # z
    BY <1>1 DEF Shape, Parents
  <2>3. Len(k[z]) = 0
    BY <1>2, <1>5, <2>1, <2>2
  <2> QED BY <2>1, <2>3, EmptySeq
<1>7. PICK n \in 1..Len(k[r]) : k[r][n] = z
  BY <1>2, <1>3, <1>4 DEF Children
<1>8. DOMAIN k[r] = 1..Len(k[r]) /\ k[r] \in Seq(Proc) /\ Len(k[r]) \in Nat
  BY <1>4, LenProperties
<1>9. /\ f.cptr[r] = Follows(k[r], 0)
      /\ \A i \in 1..Len(k[r]) : f.optr[k[r][i]] = Follows(k[r], i)
  BY <1>3, <1>4 DEF Children, Row
<1>10. f.yptr[z] = IF n = 1 THEN Null ELSE k[r][n - 1]
  <2>1. CASE n = 1
    <3>1. f.cptr[r] = z
      BY <1>7, <1>8, <1>9, <2>1 DEF Follows
    <3> QED BY <1>1, <1>2, <1>3, <2>1, <3>1 DEF Shape, Heads
  <2>2. CASE n # 1
    <3>1. n - 1 \in 1..Len(k[r]) /\ n - 1 < Len(k[r]) /\ (n - 1) + 1 = n
      BY <1>8, <2>2
    <3>2. f.optr[k[r][n - 1]] = z
      BY <1>7, <1>9, <3>1 DEF Follows
    <3>3. k[r][n - 1] \in Named /\ z # Null
      BY <1>3, <1>5, <3>1
    <3> QED BY <2>2, <3>2, <3>3 DEF Shape, Siblings
  <2> QED BY <2>1, <2>2
<1>11. n # 1 => n - 1 \in 1..Len(k[r]) /\ k[r][n - 1] \in Proc
  <2>1. n # 1 => n - 1 \in 1..Len(k[r])
    BY <1>8
  <2> QED BY <1>3, <1>5, <2>1
<1>12. \A q \in Proc :
         /\ f'.parent[q] = f.parent[q]
         /\ f'.optr[q] = IF n # 1 /\ q = k[r][n - 1] THEN f.optr[z] ELSE f.optr[q]
         /\ f'.cptr[q] = IF n = 1 /\ q = r THEN f.optr[z] ELSE f.cptr[q]
  <2>1. \A q \in Proc :
          /\ f'.parent[q] = f.parent[q]
          /\ f'.optr[q] = IF q = f.yptr[z] THEN f.optr[z] ELSE f.optr[q]
          /\ f'.cptr[q] = IF f.yptr[z] = Null /\ q = f.parent[z] THEN f.optr[z]
                          ELSE f.cptr[q]
    BY <1>1, UnlinkedPointers DEF Shape, LinksOK
  <2>2. \A q \in Proc : q = f.yptr[z] <=> n # 1 /\ q = k[r][n - 1]
    BY <1>10, <1>11
  <2>3. f.yptr[z] = Null <=> n = 1
    BY <1>10, <1>11
  <2> QED BY <1>3, <2>1, <2>2, <2>3
<1>13. Children(r, RemoveAt(k[r], n))'
  <2>1. Children(r, k[r])
    BY <1>3, <1>4
  <2>2. f'.cptr[r] = IF n = 1 THEN f.optr[k[r][n]] ELSE f.cptr[r]
    BY <1>7, <1>12
  <2>3. \A x \in Named \ {k[r][n]} :
          /\ f'.parent[x] = f.parent[x]
          /\ f'.optr[x] = IF n # 1 /\ x = k[r][n - 1] THEN f.optr[k[r][n]] ELSE f.optr[x]
    BY <1>2, <1>7, <1>12
  <2>4. Named' = Named \ {k[r][n]}
    BY <1>2, <1>7
  <2> QED BY <1>8, <2>1, <2>2, <2>3, <2>4, ChildrenRemoved
<1>14. ASSUME NEW q \in Proc, q # r, q # z, Links!Exists(q) PROVE Children(q, k[q])'
  <2>1. f'.cptr[q] = f.cptr[q] /\ k[q] \in Seq(Proc) /\ Children(q, k[q])
    BY <1>4, <1>12, <1>14
  <2>2. n # 1 => f.parent[k[r][n - 1]] = r
    BY <1>3, <1>5, <1>11
  <2>3. ASSUME NEW i \in 1..Len(k[q])
        PROVE  /\ f'.optr[k[q][i]] = f.optr[k[q][i]] /\ k[q][i] \in Named'
               /\ f'.parent[k[q][i]] = f.parent[k[q][i]]
    <3>1. k[q][i] \in Named /\ k[q][i] \in Proc /\ f.parent[k[q][i]] = q
      BY <1>5, <1>14
    <3>2. k[q][i] # z /\ (n # 1 => k[q][i] # k[r][n - 1])
      BY <1>3, <1>14, <2>2, <3>1
    <3> QED BY <1>2, <1>12, <3>1, <3>2
  <2>4. \A x \in Named' : f'.parent[x] = q => x \in Named /\ f.parent[x] = q
    BY <1>2, <1>12
  <2> QED BY <2>1, <2>3, <2>4, ChildrenStay
<1> DEFINE m == [k EXCEPT ![r] = RemoveAt(@, n)]
<1>15. /\ m \in [Proc -> Seq(Proc)]
       /\ \A q \in Proc : m[q] = IF q = r THEN RemoveAt(k[r], n) ELSE k[q]
  <2>1. RemoveAt(k[r], n) \in Seq(Proc)
    BY <1>8, Removed
  <2> QED BY <1>4, <2>1
<1> HIDE DEF m
<1>16. FamilyIs(m)'
  <2> SUFFICES ASSUME NEW q \in Proc
               PROVE  IF Links!Exists(q)' THEN Children(q, m[q])' ELSE m[q] = <<>>
    BY <1>15 DEF FamilyIs
  <2>1. CASE q = r
    BY <1>2, <1>3, <1>13, <1>15, <2>1
  <2>2. CASE q = z
    BY <1>2, <1>3, <1>6, <1>15, <2>2
  <2>3. CASE q # r /\ q # z
    <3>1. m[q] = k[q] /\ (Links!Exists(q)' <=> Links!Exists(q))
      BY <1>2, <1>15, <2>3
    <3>2. ~Links!Exists(q) => k[q] = <<>>
      BY DEF FamilyIs
    <3> QED BY <1>14, <2>3, <3>1, <3>2
  <2> QED BY <2>1, <2>2, <2>3
<1>17. m = [k EXCEPT ![r] = RemoveAt(@, n)]
  BY DEF m
<1> QED BY <1>6, <1>7, <1>8, <1>16, <1>17

-----------------------------------------------------------------------------
(* The actions of Family on the lists that the pointers make.              *)
LEMMA IsFork ==
  ASSUME NEW p \in Proc, NEW c \in Proc,
         p \in Links!Lists!Born \ Zombies, c \notin Links!Lists!Born,
         Kids' = [Kids EXCEPT ![p] = <<c>> \o @], Zombies' = Zombies
  PROVE  Links!Lists!Fork(p, c)
BY DEF Links!Lists!Fork, Kids, Zombies

LEMMA IsDie ==
  ASSUME NEW p \in Links!Lists!Born \ (Zombies \cup {Idle, InitProc}),
         Zombies' = Zombies \cup {p}, Kids' = Kids
  PROVE  Links!Lists!Die(p)
BY DEF Links!Lists!Die, Kids, Zombies

LEMMA IsAdopt ==
  ASSUME NEW p \in Zombies, Kids[p] # <<>>, Zombies' = Zombies,
         Kids' = [Kids EXCEPT ![p] = Tail(@), ![InitProc] = <<Head(Kids[p])>> \o @]
  PROVE  Links!Lists!Adopt(p)
BY DEF Links!Lists!Adopt, Kids, Zombies

LEMMA IsReap ==
  ASSUME NEW p \in Proc, NEW z \in Zombies, Kids[z] = <<>>, Zombies' = Zombies \ {z},
         \E n \in DOMAIN Kids[p] :
           Kids[p][n] = z /\ Kids' = [Kids EXCEPT ![p] = RemoveAt(@, n)]
  PROVE  Links!Lists!Reap(p, z)
BY DEF Links!Lists!Reap, Links!Lists!RemoveAt, RemoveAt, Kids, Zombies

(* Some lists are the families at every moment; every step of the table is *)
(* one of Family, or leaves the lists and the dead as they are.            *)
Rows == \E k : FamilyIs(k)

Simulated == Rows' /\ (Links!Lists!Next \/ UNCHANGED <<Kids, Zombies>>)

(* Steps that change neither the pointers nor who is alive.                *)
LEMMA SameStep ==
  ASSUME TableInv, Rows, UNCHANGED <<f, state>>
  PROVE  Simulated
<1>1. PICK k : FamilyIs(k)
  BY DEF Rows
<1>2. FamilyIs(k)'
  BY <1>1, FamilyStays DEF Named, Links!Exists
<1>3. Kids = k /\ Kids' = k /\ Zombies' = Zombies
  BY <1>1, <1>2, KidsRight, KidsRightNext DEF Zombies
<1> QED BY <1>2, <1>3 DEF Simulated, Rows

(* do_exit begins: Die.                                                    *)
LEMMA ExitSimulated ==
  ASSUME TableInv, Rows, NEW p \in Proc, Links!Exit(p)
  PROVE  Simulated
<1>1. PICK k : FamilyIs(k)
  BY DEF Rows
<1>2. /\ f' = f /\ state' = [state EXCEPT ![p] = "zombie"] /\ state[p] = "live"
      /\ p # Idle /\ p # InitProc /\ state \in [Proc -> {"none", "live", "zombie"}]
  BY DEF Links!Exit, Links!May, TableInv, Shape, LinksOK
<1>3. FamilyIs(k)'
  <2>1. \A q \in Proc : Links!Exists(q)' <=> Links!Exists(q)
    BY <1>2 DEF Links!Exists
  <2>2. Named' = Named
    BY <2>1 DEF Named
  <2> QED BY <1>1, <1>2, <2>1, <2>2, FamilyStays
<1>4. Kids = k /\ Kids' = k
  BY <1>1, <1>3, KidsRight, KidsRightNext
<1>5. Zombies' = Zombies \cup {p} /\ p \notin Zombies
  BY <1>2 DEF Zombies
<1>6. p \in Links!Lists!Born
  BY <1>1, <1>2, BornExist DEF TableInv, Links!Exists
<1>7. Links!Lists!Die(p)
  BY <1>2, <1>4, <1>5, <1>6, IsDie
<1>8. Links!Lists!Next
  BY <1>5, <1>6, <1>7 DEF Links!Lists!Next, Zombies
<1> QED BY <1>3, <1>8 DEF Simulated, Rows

(* do_fork: Fork.                                                          *)
LEMMA ForkSimulated ==
  ASSUME TableInv, Rows, NEW p \in Proc, NEW c \in Proc, Links!Fork(p, c)
  PROVE  Simulated
<1>1. PICK k : FamilyIs(k)
  BY DEF Rows
<1> DEFINE m == [k EXCEPT ![p] = <<c>> \o @]
<1>2. FamilyIs(m)'
  BY <1>1, FamilyForks DEF TableInv
<1>3. Kids = k /\ Kids' = m
  <2> HIDE DEF m
  <2> QED BY <1>1, <1>2, KidsRight, KidsRightNext
<1>4. state[p] = "live" /\ state[c] = "none" /\ state' = [state EXCEPT ![c] = "live"]
  BY DEF Links!Fork, Links!May, Links!Exists
<1>5. Zombies' = Zombies /\ p \notin Zombies
  BY <1>4 DEF Zombies, TableInv, Shape, LinksOK
<1>6. p \in Links!Lists!Born /\ c \notin Links!Lists!Born
  BY <1>1, <1>4, BornExist DEF TableInv, Links!Exists
<1>7. Links!Lists!Fork(p, c)
  <2>1. Kids' = [Kids EXCEPT ![p] = <<c>> \o @]
    BY <1>3
  <2> QED BY <1>5, <1>6, <2>1, IsFork
<1>8. Links!Lists!Next
  BY <1>5, <1>6, <1>7 DEF Links!Lists!Next, Zombies
<1>9. Rows'
  <2> HIDE DEF m
  <2> QED BY <1>2 DEF Rows
<1> QED BY <1>8, <1>9 DEF Simulated

(* A round of do_exit's loop: Adopt.                                       *)
LEMMA AdoptSimulated ==
  ASSUME TableInv, Rows, Links!Adopt
  PROVE  Simulated
<1>1. PICK k : FamilyIs(k)
  BY DEF Rows
<1>2. PICK l \in Proc : l = leaving /\ state[l] = "zombie" /\ state' = state
  BY DEF Links!Adopt, TableInv, Shape, LinksOK, Slots
<1> DEFINE m == [k EXCEPT ![l] = Tail(@), ![InitProc] = <<Head(k[l])>> \o @]
<1>3. k[l] # <<>> /\ FamilyIs(m)'
  BY <1>1, <1>2, FamilyAdopts DEF TableInv
<1>4. Kids = k /\ Kids' = m
  <2> HIDE DEF m
  <2> QED BY <1>1, <1>3, KidsRight, KidsRightNext
<1>5. Zombies' = Zombies /\ l \in Zombies
  BY <1>2 DEF Zombies
<1>6. Links!Lists!Adopt(l)
  <2>1. Kids' = [Kids EXCEPT ![l] = Tail(@), ![InitProc] = <<Head(Kids[l])>> \o @]
    BY <1>4
  <2> QED BY <1>3, <1>4, <1>5, <2>1, IsAdopt
<1>7. Links!Lists!Next
  BY <1>5, <1>6 DEF Links!Lists!Next, Zombies
<1>8. Rows'
  <2> HIDE DEF m
  <2> QED BY <1>3 DEF Rows
<1> QED BY <1>7, <1>8 DEF Simulated

(* do_wait: Reap.                                                          *)
LEMMA WaitSimulated ==
  ASSUME TableInv, Rows, NEW p \in Proc, NEW z \in Proc, Links!Wait(p, z)
  PROVE  Simulated
<1>1. PICK k : FamilyIs(k)
  BY DEF Rows
<1>2. k[z] = <<>>
  BY <1>1, FamilyReaps DEF TableInv
<1>3. PICK m : /\ FamilyIs(m)'
               /\ \E r \in Proc : \E n \in DOMAIN k[r] :
                    k[r][n] = z /\ m = [k EXCEPT ![r] = RemoveAt(@, n)]
  BY <1>1, FamilyReaps DEF TableInv
<1>4. PICK r \in Proc : \E n \in DOMAIN k[r] :
        k[r][n] = z /\ m = [k EXCEPT ![r] = RemoveAt(@, n)]
  BY <1>3
<1>5. Kids = k /\ Kids' = m
  BY <1>1, <1>3, KidsRight, KidsRightNext
<1>6. Zombies' = Zombies \ {z} /\ z \in Zombies
  <2>1. state[z] = "zombie" /\ state' = [state EXCEPT ![z] = "none"]
    BY DEF Links!Wait
  <2> QED BY <2>1 DEF Zombies, TableInv, Shape, LinksOK
<1>7. Links!Lists!Reap(r, z)
  BY <1>2, <1>4, <1>5, <1>6, IsReap
<1>8. Links!Lists!Next
  BY <1>6, <1>7 DEF Links!Lists!Next, Zombies
<1> QED BY <1>3, <1>8 DEF Simulated, Rows

(* All steps of the table.                                                 *)
LEMMA StepSimulated ==
  ASSUME TableInv, Rows, [TableNext]_tvars
  PROVE  Simulated
<1>1. CASE UNCHANGED tvars
  BY <1>1, SameStep DEF tvars, links
<1>2. ASSUME NEW p \in Proc, BeginFork(p) PROVE Simulated
  BY <1>2, SameStep DEF BeginFork, links
<1>3. ASSUME NEW p \in Proc, Exit(p) PROVE Simulated
  BY <1>3, ExitSimulated DEF Exit
<1>4. CASE EndFork
  <2>1. PICK c \in Proc : c = CHOOSE q \in Proc : ~Links!Exists(q)
    BY <1>4 DEF EndFork, TableInv, TableOK
  <2>2. forking \in Proc /\ Links!Fork(forking, c)
    BY <1>4, <2>1 DEF EndFork, TableInv, TableOK, Slots
  <2> QED BY <2>2, ForkSimulated
<1>5. CASE Scan
  BY <1>5, SameStep DEF Scan, links
<1>6. CASE Adopts
  BY <1>6, AdoptSimulated, SameStep DEF Adopts, Links!Exited
<1>7. ASSUME NEW p \in Proc, NEW z \in Proc, Reap(p, z) PROVE Simulated
  BY <1>7, WaitSimulated DEF Reap
<1> QED BY <1>1, <1>2, <1>3, <1>4, <1>5, <1>6, <1>7 DEF TableNext

(* And its beginning.                                                      *)
LEMMA FamilyStarts == ASSUME TableInit PROVE Rows /\ Links!Lists!Init
<1> DEFINE k == [p \in Proc |-> IF p = Idle THEN <<InitProc>> ELSE <<>>]
<1>1. FamilyIs(k)
  BY FamilyBegins
<1>2. Kids = k
  <2> HIDE DEF k
  <2> QED BY <1>1, KidsRight
<1>3. Zombies = {}
  BY DEF TableInit, Links!Init, Zombies
<1>4. Links!Lists!Init <=> Kids = k /\ Zombies = {}
  BY DEF Links!Lists!Init, Kids, Zombies
<1>5. Rows
  <2> HIDE DEF k
  <2> QED BY <1>1 DEF Rows
<1> QED BY <1>2, <1>3, <1>4, <1>5

(* cptr, yptr and optr, as set_links, remove_links and do_exit change them, *)
(* are a list of children for every process, the youngest first, from which *)
(* fork, exit and wait take and to which they add what they should.        *)
THEOREM FamilyImplemented == TableSpec => ImplementsFamily
<1>1. TableInit => TableInv /\ Rows /\ Links!Lists!Init
  BY TableInitHolds, FamilyStarts
<1>2. TableInv /\ Rows /\ [TableNext]_tvars =>
        TableInv' /\ Rows' /\ [Links!Lists!Next]_<<Kids, Zombies>>
  BY TableKeeps, StepSimulated DEF Simulated
<1>3. Links!Lists!Init /\ [][Links!Lists!Next]_<<Kids, Zombies>> => ImplementsFamily
  BY DEF ImplementsFamily, Links!ImplementsFamily, Links!Lists!Spec, Kids, Zombies
<1> QED BY <1>1, <1>2, <1>3, PTL DEF TableSpec
=============================================================================

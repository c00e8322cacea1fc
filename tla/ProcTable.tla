------------------------------- MODULE ProcTable -------------------------------
(***************************************************************************)
(* The table of processes of lab8/kern/process/proc.c.                     *)
(*                                                                         *)
(* First get_pid, with set_links and remove_links as far as they change    *)
(* proc_list (Spec).  It keeps two numbers between calls: the pid given    *)
(* out last and next_safe, and gives out pids below next_safe without      *)
(* looking at the processes.  One step is one round of its loop.           *)
(*                                                                         *)
(* Then the table as a whole (TableSpec): do_fork takes a pid and links    *)
(* the new process into proc_list and the family (module ProcLinks),       *)
(* do_wait takes a zombie out of both, do_exit hands its children on.  All *)
(* of it runs with interrupts off, so that the rounds of one loop follow   *)
(* each other.                                                             *)
(***************************************************************************)
EXTENDS Integers, Sequences, SequencesExt, FiniteSets

CONSTANTS
  MaxPid,     \* MAX_PID
  MaxProcess  \* MAX_PROCESS

(* static_assert(MAX_PID > MAX_PROCESS)                                    *)
ASSUME PidAssumption ==
  /\ MaxPid \in Nat /\ MaxProcess \in Nat
  /\ MaxProcess > 1 /\ MaxPid > MaxProcess

VARIABLES
  list,       \* the pids of proc_list, head first; idle (pid 0) is not in it
  last_pid,
  next_safe,
  pc,         \* "idle", "scan" in the loop, "found" when get_pid returns
  le          \* the position of the loop in the list

vars == <<list, last_pid, next_safe, pc, le>>

Pid == 1..(MaxPid - 1)

Init ==
  /\ list = <<>>
  /\ last_pid = MaxPid /\ next_safe = MaxPid
  /\ pc = "idle" /\ le = 1

-----------------------------------------------------------------------------
(* The loop begins, at the head of the list, with nothing known.           *)
StartsOver(pid) ==
  /\ last_pid' = pid
  /\ next_safe' = MaxPid
  /\ le' = 1
  /\ pc' = "scan"

(* Mutant: the pid next_safe itself is taken for safe.                     *)
CallBeyond ==
  /\ pc = "idle" /\ Len(list) + 1 < MaxProcess
  /\ \/ last_pid + 1 >= MaxPid /\ StartsOver(1)
     \/ last_pid + 1 < MaxPid /\ last_pid + 1 > next_safe /\ StartsOver(last_pid + 1)
     \/ /\ last_pid + 1 < MaxPid /\ last_pid + 1 <= next_safe
        /\ last_pid' = last_pid + 1 /\ pc' = "found"
        /\ UNCHANGED <<next_safe, le>>
  /\ UNCHANGED list

(* do_fork calls get_pid, unless nr_process, which counts idle as well,    *)
(* has reached the limit.                                                  *)
Call ==
  /\ pc = "idle" /\ Len(list) + 1 < MaxProcess
  /\ \/ last_pid + 1 >= MaxPid /\ StartsOver(1)
     \/ last_pid + 1 < MaxPid /\ last_pid + 1 >= next_safe /\ StartsOver(last_pid + 1)
     \/ /\ last_pid + 1 < next_safe
        /\ last_pid' = last_pid + 1 /\ pc' = "found"
        /\ UNCHANGED <<next_safe, le>>
  /\ UNCHANGED list

(* The process at le has last_pid: try the next one, from the head of the  *)
(* list if it may be taken as well.                                        *)
(* Mutant: it begins again with the first pid.                             *)
TakenFromOne ==
  /\ pc = "scan" /\ le <= Len(list) /\ list[le] = last_pid
  /\ \/ last_pid + 1 >= next_safe /\ StartsOver(1)
     \/ /\ last_pid + 1 < next_safe
        /\ last_pid' = last_pid + 1 /\ le' = le + 1
        /\ UNCHANGED <<next_safe, pc>>
  /\ UNCHANGED list

Taken ==
  /\ pc = "scan" /\ le <= Len(list) /\ list[le] = last_pid
  /\ \/ /\ last_pid + 1 >= next_safe
        /\ StartsOver(IF last_pid + 1 >= MaxPid THEN 1 ELSE last_pid + 1)
     \/ /\ last_pid + 1 < next_safe
        /\ last_pid' = last_pid + 1 /\ le' = le + 1
        /\ UNCHANGED <<next_safe, pc>>
  /\ UNCHANGED list

(* It has another pid, which may bound what is safe.                       *)
Free ==
  /\ pc = "scan" /\ le <= Len(list) /\ list[le] # last_pid
  /\ next_safe' = IF list[le] > last_pid /\ next_safe > list[le] THEN list[le]
                  ELSE next_safe
  /\ le' = le + 1
  /\ UNCHANGED <<list, last_pid, pc>>

Found ==
  /\ pc = "scan" /\ le > Len(list)
  /\ pc' = "found"
  /\ UNCHANGED <<list, last_pid, next_safe, le>>

(* set_links puts the new process at the head of the list.                 *)
Link ==
  /\ pc = "found"
  /\ list' = <<last_pid>> \o list
  /\ pc' = "idle"
  /\ UNCHANGED <<last_pid, next_safe, le>>

(* remove_links takes a reaped one out.                                    *)
Unlink ==
  /\ pc = "idle"
  /\ \E i \in 1..Len(list) : list' = RemoveAt(list, i)
  /\ UNCHANGED <<last_pid, next_safe, pc, le>>

Next == Call \/ Taken \/ Free \/ Found \/ Link \/ Unlink

Spec == Init /\ [][Next]_vars

-----------------------------------------------------------------------------
TypeOK ==
  /\ list \in Seq(Pid)
  /\ last_pid \in 1..MaxPid
  /\ next_safe \in 1..MaxPid
  /\ pc \in {"idle", "scan", "found"}
  /\ le \in Nat \ {0}

(* "get_pid - alloc a unique pid for process": no two processes ever have  *)
(* the same pid, whatever was forked and reaped before.                    *)
Unique ==
  /\ \A i, j \in 1..Len(list) : list[i] = list[j] => i = j
  /\ pc = "found" => \A i \in 1..Len(list) : list[i] # last_pid

(* Why: no process has a pid between last_pid and next_safe; and the loop, *)
(* on its way, has found that of the processes that it has passed, none of *)
(* which has last_pid either.                                              *)
Between(pid) == last_pid < pid /\ pid < next_safe

Gap ==
  /\ pc # "scan" => \A i \in 1..Len(list) : ~Between(list[i])
  /\ pc = "scan" =>
       \A i \in 1..Len(list) : i < le => ~Between(list[i]) /\ list[i] # last_pid
  /\ pc # "idle" => last_pid < MaxPid

(* get_pid returns: there are fewer processes than pids.                   *)
Returns == pc = "scan" ~> pc = "found"

-----------------------------------------------------------------------------
(* The whole table.                                                        *)
CONSTANTS Proc, Idle, InitProc, Null

ASSUME TableAssumption ==
  /\ IsFiniteSet(Proc) /\ Null \notin Proc
  /\ Idle \in Proc /\ InitProc \in Proc \ {Idle}

VARIABLES
  f, state, leaving,   \* as in ProcLinks
  pid,                 \* proc->pid
  forking              \* the process in do_fork, or Null

Links == INSTANCE ProcLinks

links == <<f, state, leaving>>
pids  == <<list, last_pid, next_safe, pc, le>>
tvars == <<links, pids, pid, forking>>

(* proc_init has forked init, with the first pid there is.                 *)
TableInit ==
  /\ Links!Init
  /\ list = <<1>> /\ last_pid = 1 /\ next_safe = MaxPid
  /\ pc = "idle" /\ le = 1
  /\ pid = [p \in Proc |-> IF p = InitProc THEN 1 ELSE 0]
  /\ forking = Null

-----------------------------------------------------------------------------
(* do_fork of p: alloc_proc finds a free slot, and get_pid is called; the  *)
(* rounds of get_pid; and the rest.                                        *)
BeginFork(p) ==
  /\ Links!May(p) /\ forking = Null
  /\ \E c \in Proc : ~Links!Exists(c)
  /\ Call
  /\ forking' = p
  /\ UNCHANGED <<links, pid>>

Scan == (Taken \/ Free \/ Found) /\ UNCHANGED <<links, pid, forking>>

(* Which free slot alloc_proc hands out makes no difference but in names,  *)
(* so the model takes one.                                                 *)
EndFork ==
  /\ forking # Null
  /\ Link
  /\ LET c == CHOOSE q \in Proc : ~Links!Exists(q)
     IN  /\ Links!Fork(forking, c)
         /\ pid' = [pid EXCEPT ![c] = last_pid]
  /\ forking' = Null

(* do_exit.                                                                *)
Exit(p) == forking = Null /\ Links!Exit(p) /\ UNCHANGED <<pids, pid, forking>>

Adopts == (Links!Adopt \/ Links!Exited) /\ UNCHANGED <<pids, pid, forking>>

(* do_wait frees a zombie: unhash_proc, remove_links.                      *)
(* Mutant: it stays in proc_list.                                          *)
ReapListed(p, z) ==
  /\ forking = Null
  /\ Links!Wait(p, z)
  /\ UNCHANGED <<pids, pid, forking>>

Reap(p, z) ==
  /\ forking = Null
  /\ Links!Wait(p, z)
  /\ Unlink
  /\ \E i \in 1..Len(list) : list[i] = pid[z] /\ list' = RemoveAt(list, i)
  /\ UNCHANGED <<pid, forking>>

TableNext ==
  \/ \E p \in Proc : BeginFork(p) \/ Exit(p)
  \/ EndFork
  \/ Scan
  \/ Adopts
  \/ \E p, z \in Proc : Reap(p, z)

TableSpec == TableInit /\ [][TableNext]_tvars

(* A loop that runs with interrupts off runs on.                           *)
FairTable == TableSpec /\ WF_tvars(Scan)

-----------------------------------------------------------------------------
(* find_proc finds a process if and only if there is one: proc_list holds  *)
(* the pid of every process but idle, and of no process that was freed.    *)
(* And the sibling pointers lead back to where one came from.              *)
Named == {p \in Proc \ {Idle} : Links!Exists(p)}

PidsNameProcs ==
  /\ Links!DoublyLinked
  /\ pc = "idle" =>
       /\ {list[i] : i \in 1..Len(list)} = {pid[p] : p \in Named}
       /\ Len(list) = Cardinality(Named)
       /\ \A p, q \in Named : pid[p] = pid[q] => p = q

(* The pointers of ProcLinks do not care in which order processes came and *)
(* went.                                                                   *)
ImplementsFamily == Links!ImplementsFamily
=============================================================================

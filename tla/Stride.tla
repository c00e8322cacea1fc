-------------------------------- MODULE Stride --------------------------------
(***************************************************************************)
(* The stride scheduler of lab6 (schedule/default_sched_stride.c) under    *)
(* schedule() and wakeup_proc() of schedule/sched.c: a skew heap            *)
(* (libs/skew_heap.h) of the processes that are ready, ordered by strides  *)
(* of 32 bits that overflow.                                               *)
(*                                                                         *)
(* total is what a stride would be if it did not, counted up to Span: the  *)
(* field lab6_stride is total % Modulus.  All of it runs with interrupts   *)
(* off.                                                                    *)
(***************************************************************************)
EXTENDS Integers, FiniteSets

CONSTANTS
  Proc, Idle,
  NULL,
  Modulus,          \* 2^32
  BIG_STRIDE,       \* 2^31 - 1
  Priorities,       \* what lab6_set_priority is called with
  MAX_TIME_SLICE,
  Span              \* bound of the model: totals are counted modulo this

StrideAssumption ==
  /\ Idle \notin Proc /\ NULL \notin Proc
  /\ Modulus \in Nat /\ BIG_STRIDE = Modulus \div 2 - 1
  /\ Priorities \subseteq 0..BIG_STRIDE /\ MAX_TIME_SLICE \in Nat \ {0}
  /\ Span % Modulus = 0 /\ Span > 0

VARIABLES
  state,      \* "none", "runnable" or "sleeping"
  current,
  slice,      \* time_slice of the current process; enqueue sets it
  proc,       \* of every process: total, lab6_priority, and parent, left and
              \* right of its node in the heap
  pool,       \* lab6_run_pool: the root of the heap
  near        \* history: since there was nothing to order, the strides of
              \* those that are ready have been within BIG_STRIDE

vars == <<state, current, slice, proc, pool, near>>

-----------------------------------------------------------------------------
(* Mutant: the strides are compared, and not their difference.             *)
CompareValues(h, p, q) ==
  IF h.total[p] % Modulus < h.total[q] % Modulus THEN -1 ELSE 1

proc_stride_comp_f(h, p, q) ==
  LET c == (h.total[p] - h.total[q]) % Modulus IN
  CASE c = 0 -> 0 [] c \in 1..(Modulus \div 2 - 1) -> 1 [] OTHER -> -1

(* Mutant: the left child is not kept.                                     *)
BelowOnly(h, top, m, left) ==
  [h EXCEPT !.left[top] = m, !.parent[m] = top]
(* The merged subtree m becomes the left child of top, and what was the    *)
(* left child the right one.                                               *)
Below(h, top, m, left) ==
  [h EXCEPT !.left[top] = m, !.right[top] = left, !.parent[m] = top]

(* Two heaps with as many nodes as there are processes at most.            *)
skew_heap_merge(h, a, b) ==
  LET merge[n \in 0..Cardinality(Proc)] ==
        [x, y \in Proc \cup {NULL} |->
           IF n = 0 \/ x = NULL \/ y = NULL
           THEN [h |-> h, root |-> IF x = NULL THEN y ELSE x]
           ELSE IF proc_stride_comp_f(h, x, y) = -1
           THEN LET m == merge[n - 1][h.right[x], y] IN
                [h |-> Below(m.h, x, m.root, h.left[x]), root |-> x]
           ELSE LET m == merge[n - 1][x, h.right[y]] IN
                [h |-> Below(m.h, y, m.root, h.left[y]), root |-> y]]
  IN  merge[Cardinality(Proc)][a, b]

skew_heap_insert(h, a, b) ==
  skew_heap_merge([h EXCEPT !.left[b] = NULL, !.right[b] = NULL,
                            !.parent[b] = NULL], a, b)

skew_heap_remove(h, a, b) ==
  LET p == h.parent[b]
      m == skew_heap_merge(h, h.left[b], h.right[b])
      g == IF m.root = NULL THEN m.h ELSE [m.h EXCEPT !.parent[m.root] = p]
  IN IF p = NULL THEN [h |-> g, root |-> m.root]
     ELSE IF g.left[p] = b THEN [h |-> [g EXCEPT !.left[p] = m.root], root |-> a]
     ELSE [h |-> [g EXCEPT !.right[p] = m.root], root |-> a]

-----------------------------------------------------------------------------
(* The links of a node that is not in the heap are never read.             *)
Unlinked(h, p) ==
  [h EXCEPT !.left[p] = NULL, !.right[p] = NULL, !.parent[p] = NULL]
(* alloc_proc                                                              *)
New(h, p) == [Unlinked(h, p) EXCEPT !.total[p] = 0, !.priority[p] = 0]

Init ==
  /\ \E p \in Proc :
       /\ state = [q \in Proc |-> IF q = p THEN "runnable" ELSE "none"]
       /\ pool = p
  /\ current = Idle /\ slice = 0
  /\ proc = [total |-> [p \in Proc |-> 0], priority |-> [p \in Proc |-> 0],
             left |-> [p \in Proc |-> NULL], right |-> [p \in Proc |-> NULL],
             parent |-> [p \in Proc |-> NULL]]
  /\ near = TRUE

(* The stride of p is at or after that of q, as far as 32 bits can tell.   *)
After(h, p, q) == (h.total[p] - h.total[q]) % Modulus <= BIG_STRIDE
Close(h, ps)   == ps = {} \/ \E q \in ps : \A p \in ps : After(h, p, q)
Ready(s)     == {p \in Proc : s[p] = "runnable"}
Watched ==
  near' = /\ near \/ Cardinality(Ready(state')) <= 1
          /\ Close(proc', Ready(state'))

(* Division by 0 gives all ones on RISC-V.                                 *)
Step(prio) == IF prio = 0 THEN Modulus - 1 ELSE BIG_STRIDE \div prio

(* stride_pick_next and stride_dequeue, when the heap is q.                *)
Pick(q) ==
  LET r == q.root
      h == [q.h EXCEPT !.total[r] = (@ + Step(q.h.priority[r])) % Span]
      d == skew_heap_remove(h, r, r)
  IN IF r = NULL
     THEN current' = Idle /\ pool' = NULL /\ proc' = q.h /\ UNCHANGED slice
     ELSE /\ current' = r /\ slice' = MAX_TIME_SLICE
          /\ pool' = d.root /\ proc' = Unlinked(d.h, r)

(* schedule() of a process that is ready, which is put back before, and of *)
(* one that is not.                                                        *)
Preempted == Pick(skew_heap_insert(proc, pool, current))
Left(h)   == Pick([h |-> h, root |-> pool])

(* A tick in user mode; schedule() follows the last one.                   *)
Tick ==
  /\ current # Idle /\ slice > 1
  /\ slice' = slice - 1
  /\ UNCHANGED <<state, current, proc, pool, near>>

LastTick ==
  /\ current # Idle /\ slice <= 1
  /\ Preempted /\ UNCHANGED state /\ Watched

do_yield == current # Idle /\ Preempted /\ UNCHANGED state /\ Watched

cpu_idle == current = Idle /\ Left(proc) /\ UNCHANGED state /\ Watched

(* The current process waits.                                              *)
Sleep ==
  /\ current # Idle
  /\ state' = [state EXCEPT ![current] = "sleeping"]
  /\ Left(proc) /\ Watched

(* It ends; its proc_struct will be a new process.                         *)
Exit ==
  /\ current # Idle
  /\ state' = [state EXCEPT ![current] = "none"]
  /\ Left(New(proc, current)) /\ Watched

(* wakeup_proc: p, with the fields in h, is ready.                         *)
wakeup_proc(h, p) ==
  LET q == skew_heap_insert(h, pool, p) IN
  /\ state' = [state EXCEPT ![p] = "runnable"]
  /\ pool' = q.root /\ proc' = q.h
  /\ UNCHANGED <<current, slice>> /\ Watched

Wake(p)    == current # Idle /\ state[p] = "sleeping" /\ wakeup_proc(proc, p)
do_fork(p) == current # Idle /\ state[p] = "none" /\ wakeup_proc(New(proc, p), p)

lab6_set_priority(n) ==
  /\ current # Idle
  /\ proc' = [proc EXCEPT !.priority[current] = IF n = 0 THEN 1 ELSE n]
  /\ UNCHANGED <<state, current, slice, pool, near>>

Next ==
  \/ Tick \/ LastTick \/ do_yield \/ cpu_idle
  \/ Sleep \/ Exit
  \/ \E p \in Proc : Wake(p) \/ do_fork(p)
  \/ \E n \in Priorities : lab6_set_priority(n)

Spec == Init /\ [][Next]_vars

-----------------------------------------------------------------------------
Children(p) == {proc.left[p], proc.right[p]} \ {NULL}
Tree ==   \* what is reached from the root
  LET at[n \in 0..Cardinality(Proc)] ==
        IF n = 0 THEN {pool} \ {NULL} ELSE UNION {Children(p) : p \in at[n - 1]}
  IN UNION {at[n] : n \in DOMAIN at}

Queued == Ready(state) \ {current}

(* The heap is a tree of the processes that are ready, whose parents,      *)
(* which skew_heap_remove trusts, are those of the children: however       *)
(* strides overflow, nobody drops out of it.                               *)
HeapOfReady ==
  /\ Tree = Queued
  /\ \A p \in Tree : proc.left[p] # NULL => proc.left[p] # proc.right[p]
  /\ \A p, q \in Tree : q \in Children(p) <=> proc.parent[q] = p
  /\ pool # NULL => proc.parent[pool] = NULL

(* Strides that overflow order the processes rightly as long as they are   *)
(* near: none that waits has a lower one than the root.                    *)
RootIsLowest ==
  near => \A p \in Queued : After(proc, p, pool)

(* "bigger value will get more CPU time": the processes stay near, that is *)
(* within BIG_STRIDE, by themselves, so that each gets its share, picks in *)
(* proportion to its priority.  Only a wakeup brings in a process that is  *)
(* far behind, or the default priority 0 takes one far ahead.              *)
SharesKept ==
  [][near /\ ~near' =>
       \/ \E p \in Proc : state[p] # "runnable" /\ state'[p] = "runnable"
       \/ proc.priority[current'] = 0]_vars

(* stride_pick_next: "pick the element from the run-queue, with the        *)
(* minimum value of stride".                                               *)
PicksMinimum ==
  [][current' # Idle /\ proc'.total # proc.total =>
       \A p \in Ready(state') : proc.total[current'] <= proc.total[p]]_vars
=============================================================================

------------------------------ MODULE AbsPages ------------------------------
(***************************************************************************)
(* What the physical page allocators promise: there is a set of free       *)
(* pages, and who asks for n of them gets n in a row, if there are: the    *)
(* lowest with first fit, the lowest of a shortest run with best fit.  The *)
(* buddy allocator rounds n up to a power of two and promises some such    *)
(* block at a multiple of its size.                                        *)
(***************************************************************************)
EXTENDS Integers

CONSTANTS Total   \* the number of pages that each manager manages

VARIABLES
  manager,
  free,      \* the free pages
  used       \* the blocks that are allocated: pairs of first page and length

Size(n) ==
  IF manager # "buddy_system" THEN n
  ELSE 2^(CHOOSE k \in 0..n : 2^k >= n /\ \A i \in 0..(k - 1) : 2^i < n)

Block(b, n) == b..(b + Size(n) - 1)

Fits(b, n) ==
  /\ Block(b, n) \subseteq free
  /\ manager = "buddy_system" => b % Size(n) = 0

(* The length of the run of free pages from b on, 0 if b is inside one.    *)
Run(b) ==
  IF b - 1 \in free THEN 0
  ELSE CHOOSE l \in 0..Total[manager] : b..(b + l - 1) \subseteq free /\ b + l \notin free

Preferred(b, n) ==
  CASE manager = "default"  -> \A c \in free : Fits(c, n) => b <= c
    [] manager = "best_fit" -> /\ Run(b) >= n
                               /\ \A c \in free : Run(c) >= n =>
                                    Run(b) < Run(c) \/ (Run(b) = Run(c) /\ b <= c)
    [] OTHER                -> TRUE

Init ==
  /\ manager \in DOMAIN Total
  /\ free = 0..(Total[manager] - 1) /\ used = {}

Alloc(n) ==
  \E b \in free :
    /\ used' = used \cup {<<b, n>>}
    /\ Fits(b, n) /\ Preferred(b, n)
    /\ free' = free \ Block(b, n)
    /\ UNCHANGED manager

Free(u) ==
  /\ u \in used
  /\ used' = used \ {u}
  /\ free' = free \cup Block(u[1], u[2])
  /\ UNCHANGED manager

(* NULL is the answer only if there is no such block.                      *)
None(n) == UNCHANGED <<manager, used, free>> /\ \A b \in free : ~Fits(b, n)

Next == \/ \E n \in 1..Total[manager] : Alloc(n) \/ None(n)
        \/ \E u \in used : Free(u)

vars == <<manager, free, used>>

Spec == Init /\ [][Next]_vars
=============================================================================

------------------------------ MODULE SfsProofs ------------------------------
(***************************************************************************)
(* Theorems about the regular files of SFS (module Sfs), for any files and *)
(* open files, any number of blocks, block size and number of direct       *)
(* slots.                                                                  *)
(*                                                                         *)
(* BlocksOwned counts the places that name a block.  The proof looks at    *)
(* the places themselves: two that are not 0 never name the same block,    *)
(* and no place names a free one (Owned).  Three things keep that true: a  *)
(* new indirect block has been cleared, so that its entries name nothing;  *)
(* a block is freed only with the place that names it put to 0; and an     *)
(* inode read back from the disk has the blocks it had in memory, for      *)
(* whatever changes them marks it dirty (Clean).                           *)
(*                                                                         *)
(* ContentsKept follows place by place: what a step does to a free block,  *)
(* to an indirect block or to the block of one place cannot be seen from   *)
(* any other place (HoldsKept).                                            *)
(***************************************************************************)
EXTENDS Sfs, FiniteSetTheorems, WellFoundedInduction, TLAPS

(* An inode, its blocks counted and named within the volume.               *)
Inode ==
  [size : Nat, blocks : 0..(NDIRECT + BLKSIZE),
   direct : [0..(NDIRECT - 1) -> 0..Blocks], indirect : 0..Blocks]

(* What the types of the fields of the file system are.                    *)
Disk == [Block -> [Word -> File \cup Int]]

Maps   == SUBSET Block
Inodes == [File -> Inode]
Stores == [File -> Inode \cup {Dirty}]

State ==
  [freemap : Maps, unused : Int, disk : Disk, din : Inodes, stored : Stores]

(* An inode changed in memory; and a block written.                        *)
Marked(s, f, d) == [s EXCEPT !.din[f] = d, !.stored[f] = Dirty]

Put(s, b, v) == [s EXCEPT !.disk[b] = v]

(* A place names no free block, two places never the same one, and a block *)
(* that is not free has a place.                                           *)
Owned(s) ==
  /\ \A f \in File, i \in Place : Slot(s, f, i) \in 0..Blocks
  /\ \A f \in File, i \in Place : Slot(s, f, i) \notin s.freemap
  /\ \A f, g \in File, i, j \in Place :
       Slot(s, f, i) = Slot(s, g, j) /\ Slot(s, f, i) # 0 => f = g /\ i = j
  /\ \A b \in Block \ s.freemap : \E f \in File, i \in Place : Slot(s, f, i) = b

(* An inode that is not dirty is on the disk with the blocks it has in     *)
(* memory.                                                                 *)
Clean(s) ==
  \A f \in File : s.stored[f] # Dirty =>
    s.stored[f].direct = s.din[f].direct /\ s.stored[f].indirect = s.din[f].indirect

(* The inductive invariant, as far as it is about the file system.         *)
Good(s) ==
  /\ s \in State
  /\ Owned(s)
  /\ Clean(s)
  /\ s.unused = Cardinality(s.freemap)

(* A word of file f, in its block i, or 0; and that no word changes.        *)
Holds(s, f, i, w) == IF Slot(s, f, i) = 0 THEN 0 ELSE s.disk[Slot(s, f, i)][w]

Same(s, t) ==
  \A f \in File, i \in Index, w \in Word : Holds(t, f, i, w) = Holds(s, f, i, w)

-----------------------------------------------------------------------------
(* The lowest of some blocks is one of them.                               *)
LEMMA MinIn ==
  ASSUME NEW S \in SUBSET Block, S # {}
  PROVE  Min(S) \in S
<1> DEFINE R == {p \in Nat \X Nat : p[1] < p[2]}
<1>1. IsWellFoundedOn(R, Nat)
  BY NatLessThanWellFounded DEF OpToRel
<1>2. S \subseteq Nat
  BY SfsAssumption DEF Block
<1>3. \E x \in S : \A y \in S : ~ (<<y, x>> \in R)
  <2> HIDE DEF R
  <2> QED BY <1>1, <1>2, WFMin, Zenon
<1>4. \A x, y \in Nat : x < y => <<x, y>> \in R
  OBVIOUS
<1>5. \E x \in S : \A y \in S : x =< y
  <2> HIDE DEF R
  <2>1. PICK x \in S : \A y \in S : ~ (<<y, x>> \in R)
    BY <1>3, Zenon
  <2>2. ASSUME NEW y \in S PROVE x =< y
    <3>1. x \in Nat /\ y \in Nat /\ ~(y < x)
      BY <2>1, <1>2, <1>4
    <3> QED BY <3>1
  <2> QED BY <2>2
<1> QED BY <1>5, Zenon DEF Min

(* A place that was 0 gets a free block.                                   *)
LEMMA Gained ==
  ASSUME NEW s, NEW t, Owned(s), NEW g \in File, NEW j \in Place,
         s.freemap \in SUBSET Block,
         NEW b \in s.freemap, t.freemap = s.freemap \ {b},
         Slot(s, g, j) = 0, Slot(t, g, j) = b,
         \A f \in File, i \in Place : <<f, i>> # <<g, j>> => Slot(t, f, i) = Slot(s, f, i)
  PROVE  Owned(t)
<1>0. /\ b \in 1..Blocks /\ b \in 0..Blocks
      /\ \A f \in File, i \in Place : f # g \/ i # j => Slot(t, f, i) = Slot(s, f, i)
  BY SfsAssumption DEF Block
<1>1. \A f \in File, i \in Place : Slot(t, f, i) \in 0..Blocks
  BY <1>0 DEF Owned
<1>2. \A f \in File, i \in Place : Slot(t, f, i) \notin t.freemap
  BY <1>0 DEF Owned
<1>3. ASSUME NEW f \in File, NEW h \in File, NEW i \in Place, NEW k \in Place,
             Slot(t, f, i) = Slot(t, h, k), Slot(t, f, i) # 0
      PROVE  f = h /\ i = k
  BY <1>0, <1>3 DEF Owned
<1>4. ASSUME NEW c \in Block \ t.freemap
      PROVE  \E f \in File, i \in Place : Slot(t, f, i) = c
  <2>1. CASE c = b
    <3>1. Slot(t, g, j) = c
      BY <2>1
    <3> QED BY <3>1
  <2>2. CASE c # b
    <3>1. PICK f \in File, i \in Place : Slot(s, f, i) = c
      BY <2>2, <1>4 DEF Owned
    <3>2. f # g \/ i # j
      BY <3>1, <1>4, SfsAssumption DEF Block
    <3> QED BY <3>1, <3>2, <1>0
  <2> QED BY <2>1, <2>2
<1> QED BY <1>1, <1>2, <1>3, <1>4 DEF Owned

(* A place gives up its block, which becomes free.                         *)
LEMMA Lost ==
  ASSUME NEW s, NEW t, Owned(s), NEW g \in File, NEW j \in Place,
         s.freemap \in SUBSET Block, Slot(s, g, j) # 0,
         t.freemap = s.freemap \cup {Slot(s, g, j)}, Slot(t, g, j) = 0,
         \A f \in File, i \in Place : <<f, i>> # <<g, j>> => Slot(t, f, i) = Slot(s, f, i)
  PROVE  Owned(t)
<1>0. /\ Slot(s, g, j) \in 1..Blocks /\ Blocks \in Nat
      /\ \A f \in File, i \in Place : f # g \/ i # j => Slot(t, f, i) = Slot(s, f, i)
      /\ 0 \notin t.freemap
  BY SfsAssumption DEF Block, Owned
<1>1. \A f \in File, i \in Place : Slot(t, f, i) \in 0..Blocks
  BY <1>0 DEF Owned
<1>2. \A f \in File, i \in Place : Slot(t, f, i) \notin t.freemap
  BY <1>0 DEF Owned
<1>3. ASSUME NEW f \in File, NEW h \in File, NEW i \in Place, NEW k \in Place,
             Slot(t, f, i) = Slot(t, h, k), Slot(t, f, i) # 0
      PROVE  f = h /\ i = k
  BY <1>0, <1>3 DEF Owned
<1>4. ASSUME NEW c \in Block \ t.freemap
      PROVE  \E f \in File, i \in Place : Slot(t, f, i) = c
  <2>1. PICK f \in File, i \in Place : Slot(s, f, i) = c
    BY <1>4 DEF Owned
  <2>2. f # g \/ i # j
    BY <2>1, <1>4
  <2> QED BY <2>1, <2>2, <1>0
<1> QED BY <1>1, <1>2, <1>3, <1>4 DEF Owned

(* Nothing changes hands.                                                  *)
LEMMA OwnedOnce ==
  ASSUME NEW s, Owned(s), NEW f \in File, NEW g \in File, NEW i \in Place, NEW j \in Place,
         Slot(s, f, i) = Slot(s, g, j), Slot(s, f, i) # 0
  PROVE  f = g /\ i = j
BY DEF Owned

LEMMA Unmoved ==
  ASSUME NEW s, NEW t, Owned(s), t.freemap = s.freemap,
         \A f \in File, i \in Place : Slot(t, f, i) = Slot(s, f, i)
  PROVE  Owned(t)
BY DEF Owned

-----------------------------------------------------------------------------
(* Direct places are the slots of the inode, the others words of a block.  *)
LEMMA Places ==
  /\ NDIRECT \in Nat /\ BLKSIZE \in Nat \ {0} /\ Blocks \in Nat
  /\ Index \subseteq Nat /\ -1 \notin Index /\ Block = 1..Blocks
  /\ \A i \in Index : i < NDIRECT => i \in 0..(NDIRECT - 1)
  /\ \A i \in Index : i >= NDIRECT => i - NDIRECT \in Word
  /\ \A i \in 0..(NDIRECT - 1) : i \in Index
<1>1. /\ NDIRECT \in Nat /\ BLKSIZE \in Nat \ {0} /\ Blocks \in Nat
      /\ Index = 0..(NDIRECT + BLKSIZE - 1) /\ Word = 0..(BLKSIZE - 1)
      /\ Block = 1..Blocks
  BY SfsAssumption DEF Index, Block, Word
<1>2. Index \subseteq Nat /\ -1 \notin Index
  BY <1>1
<1>3. \A i \in Index : i < NDIRECT => i \in 0..(NDIRECT - 1)
  BY <1>1
<1>4. \A i \in Index : i >= NDIRECT => i - NDIRECT \in Word
  BY <1>1
<1>5. \A i \in 0..(NDIRECT - 1) : i \in Index
  BY <1>1
<1> QED BY <1>1, <1>2, <1>3, <1>4, <1>5

(* What a place holds, case by case.                                       *)
LEMMA SlotIs ==
  ASSUME NEW s, NEW f \in File
  PROVE  /\ Slot(s, f, -1) = s.din[f].indirect
         /\ \A i \in Index : i < NDIRECT => Slot(s, f, i) = s.din[f].direct[i]
         /\ \A i \in Index : i >= NDIRECT /\ s.din[f].indirect = 0 => Slot(s, f, i) = 0
         /\ \A i \in Index : i >= NDIRECT /\ s.din[f].indirect # 0 =>
              Slot(s, f, i) = s.disk[s.din[f].indirect][i - NDIRECT]
         /\ \A i \in Index : Slot(s, f, i) = Bmap(s, f, i)
<1>1. \A i \in Index : i # -1 /\ i \in Nat /\ NDIRECT \in Nat
  BY Places
<1>2. \A i \in Index : Slot(s, f, i) = Bmap(s, f, i)
  BY <1>1 DEF Slot
<1>3. ASSUME NEW i \in Index, i < NDIRECT
      PROVE  Bmap(s, f, i) = s.din[f].direct[i]
  BY <1>1, <1>3 DEF Bmap
<1>4. ASSUME NEW i \in Index, i >= NDIRECT, s.din[f].indirect = 0
      PROVE  Bmap(s, f, i) = 0
  BY <1>1, <1>4 DEF Bmap
<1>5. ASSUME NEW i \in Index, i >= NDIRECT, s.din[f].indirect # 0
      PROVE  Bmap(s, f, i) = s.disk[s.din[f].indirect][i - NDIRECT]
  BY <1>1, <1>5 DEF Bmap
<1> QED BY <1>2, <1>3, <1>4, <1>5 DEF Slot

(* One field of the file system is replaced by a value of its type.        *)
LEMMA FieldSet ==
  ASSUME NEW s \in State
  PROVE  /\ \A v \in Maps : [s EXCEPT !.freemap = v] \in State
         /\ \A v \in Int : [s EXCEPT !.unused = v] \in State
         /\ \A v \in Disk : [s EXCEPT !.disk = v] \in State
         /\ \A v \in Inodes : [s EXCEPT !.din = v] \in State
         /\ \A v \in Stores : [s EXCEPT !.stored = v] \in State
BY DEF State

(* sfs_block_alloc, field by field: one block less is free, and it is      *)
(* cleared.                                                                *)
LEMMA AllocIs ==
  ASSUME NEW s \in State, s.freemap # {}
  PROVE  /\ BlockAlloc(s) \in State
         /\ BlockAlloc(s).freemap = s.freemap \ {Min(s.freemap)}
         /\ BlockAlloc(s).unused = s.unused - 1
         /\ BlockAlloc(s).disk = [s.disk EXCEPT ![Min(s.freemap)] = Zero]
         /\ BlockAlloc(s).din = s.din
         /\ BlockAlloc(s).stored = s.stored
         /\ Min(s.freemap) \in s.freemap /\ Min(s.freemap) \in Block
<1>1. Min(s.freemap) \in s.freemap /\ s.freemap \in SUBSET Block
  BY MinIn DEF State, Maps
<1>2. Zero \in [Word -> File \cup Int]
  BY DEF Zero
<1>3. [s.disk EXCEPT ![Min(s.freemap)] = Zero] \in Disk
  BY <1>1, <1>2 DEF State, Disk
<1>4. s.freemap \ {Min(s.freemap)} \in Maps
  BY <1>1 DEF Maps
<1>5. BlockAlloc(s) \in State
  <2> DEFINE u == [s EXCEPT !.freemap = @ \ {Min(@)}]
             v == [u EXCEPT !.unused = @ - 1]
  <2>1. u \in State /\ u.unused = s.unused /\ u.disk = s.disk
    BY <1>4, FieldSet DEF State
  <2>2. v \in State /\ v.disk = s.disk
    <3> HIDE DEF u
    <3> QED BY <2>1, FieldSet DEF State
  <2>3. [v EXCEPT !.disk = [s.disk EXCEPT ![Min(s.freemap)] = Zero]] \in State
    <3> HIDE DEF v
    <3> QED BY <2>2, <1>3, FieldSet
  <2>4. BlockAlloc(s) = [v EXCEPT !.disk = [v.disk EXCEPT ![Min(s.freemap)] = Zero]]
    BY DEF BlockAlloc
  <2> QED BY <2>2, <2>3, <2>4
<1>6. BlockAlloc(s).freemap = s.freemap \ {Min(s.freemap)}
  BY DEF BlockAlloc, State
<1>7. BlockAlloc(s).unused = s.unused - 1
  BY DEF BlockAlloc, State
<1>8. BlockAlloc(s).disk = [s.disk EXCEPT ![Min(s.freemap)] = Zero]
  BY DEF BlockAlloc, State
<1>9. BlockAlloc(s).din = s.din /\ BlockAlloc(s).stored = s.stored
  BY DEF BlockAlloc, State
<1> QED BY <1>1, <1>5, <1>6, <1>7, <1>8, <1>9

(* sfs_block_free, field by field.                                         *)
LEMMA FreeIs ==
  ASSUME NEW s \in State, NEW b \in Block
  PROVE  /\ BlockFree(s, b) \in State
         /\ BlockFree(s, b).freemap = s.freemap \cup {b}
         /\ BlockFree(s, b).unused = s.unused + 1
         /\ BlockFree(s, b).disk = [s.disk EXCEPT ![b] = Junk]
         /\ BlockFree(s, b).din = s.din
         /\ BlockFree(s, b).stored = s.stored
<1>2. Junk \in [Word -> File \cup Int]
  BY DEF Junk
<1>3. [s.disk EXCEPT ![b] = Junk] \in Disk
  BY <1>2 DEF State, Disk
<1>4. s.freemap \cup {b} \in Maps
  BY DEF Maps, State
<1>5. BlockFree(s, b) \in State
  <2> DEFINE u == [s EXCEPT !.freemap = @ \cup {b}]
             v == [u EXCEPT !.unused = @ + 1]
  <2>1. u \in State /\ u.unused = s.unused /\ u.disk = s.disk
    BY <1>4, FieldSet DEF State
  <2>2. v \in State /\ v.disk = s.disk
    <3> HIDE DEF u
    <3> QED BY <2>1, FieldSet DEF State
  <2>3. [v EXCEPT !.disk = [s.disk EXCEPT ![b] = Junk]] \in State
    <3> HIDE DEF v
    <3> QED BY <2>2, <1>3, FieldSet
  <2>4. BlockFree(s, b) = [v EXCEPT !.disk = [v.disk EXCEPT ![b] = Junk]]
    BY DEF BlockFree
  <2> QED BY <2>2, <2>3, <2>4
<1>6. BlockFree(s, b).freemap = s.freemap \cup {b}
  BY DEF BlockFree, State
<1>7. BlockFree(s, b).unused = s.unused + 1
  BY DEF BlockFree, State
<1>8. BlockFree(s, b).disk = [s.disk EXCEPT ![b] = Junk]
  BY DEF BlockFree, State
<1>9. BlockFree(s, b).din = s.din /\ BlockFree(s, b).stored = s.stored
  BY DEF BlockFree, State
<1> QED BY <1>5, <1>6, <1>7, <1>8, <1>9

(* Blocks can be counted.                                                  *)
LEMMA Count ==
  ASSUME NEW S \in SUBSET Block
  PROVE  IsFiniteSet(S) /\ Cardinality(S) \in Nat /\ (S = {} <=> Cardinality(S) = 0)
<1>1. IsFiniteSet(S)
  <2>1. IsFiniteSet(Block)
    BY FS_Interval, SfsAssumption DEF Block
  <2> QED BY <2>1, FS_Subset
<1> QED BY <1>1, FS_CardinalityType, FS_EmptySet

(* The count when a block is taken or given back.                          *)
LEMMA Counting ==
  ASSUME NEW S \in SUBSET Block, NEW b \in Block
  PROVE  /\ Cardinality(S) \in Nat
         /\ b \in S => Cardinality(S \ {b}) = Cardinality(S) - 1
         /\ b \notin S => Cardinality(S \cup {b}) = Cardinality(S) + 1
BY Count, FS_AddElement, FS_RemoveElement

(* A changed inode, field by field.                                        *)
LEMMA MarkedIs ==
  ASSUME NEW s \in State, NEW f \in File, NEW d \in Inode
  PROVE  /\ Marked(s, f, d) \in State
         /\ Marked(s, f, d).freemap = s.freemap
         /\ Marked(s, f, d).unused = s.unused
         /\ Marked(s, f, d).disk = s.disk
         /\ Marked(s, f, d).din = [s.din EXCEPT ![f] = d]
         /\ Marked(s, f, d).stored = [s.stored EXCEPT ![f] = Dirty]
<1>1. [s.din EXCEPT ![f] = d] \in Inodes
  BY DEF State, Inodes
<1>2. [s.stored EXCEPT ![f] = Dirty] \in Stores
  BY DEF State, Stores
<1> DEFINE u == [s EXCEPT !.din = [s.din EXCEPT ![f] = d]]
<1>3. /\ u \in State /\ u.freemap = s.freemap /\ u.unused = s.unused
      /\ u.disk = s.disk /\ u.din = [s.din EXCEPT ![f] = d] /\ u.stored = s.stored
  BY <1>1, FieldSet DEF State
<1>4. Marked(s, f, d) = [u EXCEPT !.stored = [u.stored EXCEPT ![f] = Dirty]]
  BY DEF Marked
<1> HIDE DEF u
<1> QED BY <1>2, <1>3, <1>4, FieldSet DEF State

(* The fields of an inode.                                                 *)
LEMMA InodeIs ==
  ASSUME NEW s \in State, NEW f \in File
  PROVE  /\ s.din[f] \in Inode
         /\ s.din[f].indirect \in 0..Blocks
         /\ s.din[f].blocks \in 0..(NDIRECT + BLKSIZE)
         /\ s.din[f].size \in Nat
         /\ s.freemap \subseteq Block
BY DEF State, Inodes, Inode, Maps

(* One field of an inode is replaced; the others stay.                     *)
LEMMA InodeSet ==
  ASSUME NEW d \in Inode
  PROVE  /\ \A i \in 0..(NDIRECT - 1), b \in 0..Blocks :
              /\ [d EXCEPT !.direct[i] = b] \in Inode
              /\ [d EXCEPT !.direct[i] = b].indirect = d.indirect
              /\ [d EXCEPT !.direct[i] = b].direct[i] = b
              /\ \A k \in 0..(NDIRECT - 1) \ {i} :
                   [d EXCEPT !.direct[i] = b].direct[k] = d.direct[k]
         /\ \A b \in 0..Blocks : 
              /\ [d EXCEPT !.indirect = b] \in Inode
              /\ [d EXCEPT !.indirect = b].indirect = b
              /\ [d EXCEPT !.indirect = b].direct = d.direct
         /\ \A n \in 0..(NDIRECT + BLKSIZE) :
              /\ [d EXCEPT !.blocks = n] \in Inode
              /\ [d EXCEPT !.blocks = n].indirect = d.indirect
              /\ [d EXCEPT !.blocks = n].direct = d.direct
         /\ \A n \in Nat :
              /\ [d EXCEPT !.size = n] \in Inode
              /\ [d EXCEPT !.size = n].indirect = d.indirect
              /\ [d EXCEPT !.size = n].direct = d.direct
<1>1. ASSUME NEW i \in 0..(NDIRECT - 1), NEW b \in 0..Blocks
      PROVE  /\ [d EXCEPT !.direct[i] = b] \in Inode
             /\ [d EXCEPT !.direct[i] = b].indirect = d.indirect
             /\ [d EXCEPT !.direct[i] = b].direct[i] = b
             /\ \A k \in 0..(NDIRECT - 1) \ {i} :
                  [d EXCEPT !.direct[i] = b].direct[k] = d.direct[k]
  <2>1. [d.direct EXCEPT ![i] = b] \in [0..(NDIRECT - 1) -> 0..Blocks]
    BY DEF Inode
  <2>2. [d EXCEPT !.direct[i] = b] \in Inode
    BY <2>1 DEF Inode
  <2> QED BY <2>2 DEF Inode
<1>2. ASSUME NEW b \in 0..Blocks
      PROVE  /\ [d EXCEPT !.indirect = b] \in Inode
             /\ [d EXCEPT !.indirect = b].indirect = b
             /\ [d EXCEPT !.indirect = b].direct = d.direct
  BY DEF Inode
<1>3. ASSUME NEW n \in 0..(NDIRECT + BLKSIZE)
      PROVE  /\ [d EXCEPT !.blocks = n] \in Inode
             /\ [d EXCEPT !.blocks = n].indirect = d.indirect
             /\ [d EXCEPT !.blocks = n].direct = d.direct
  BY DEF Inode
<1>4. ASSUME NEW n \in Nat
      PROVE  /\ [d EXCEPT !.size = n] \in Inode
             /\ [d EXCEPT !.size = n].indirect = d.indirect
             /\ [d EXCEPT !.size = n].direct = d.direct
  BY DEF Inode
<1> QED BY <1>1, <1>2, <1>3, <1>4

(* A place depends on the inode and on its own entry only.                 *)
LEMMA SlotFrame ==
  ASSUME NEW s, NEW t, NEW g \in File, NEW k \in Place,
         t.din[g].indirect = s.din[g].indirect,
         k \in Index /\ k < NDIRECT => t.din[g].direct[k] = s.din[g].direct[k],
         k \in Index /\ k >= NDIRECT /\ s.din[g].indirect # 0 =>
           t.disk[s.din[g].indirect][k - NDIRECT] = s.disk[s.din[g].indirect][k - NDIRECT]
  PROVE  Slot(t, g, k) = Slot(s, g, k)
<1>1. CASE k = -1
  BY <1>1, SlotIs
<1>2. CASE k \in Index /\ k < NDIRECT
  BY <1>2, SlotIs
<1>3. CASE k \in Index /\ k >= NDIRECT
  BY <1>3, SlotIs
<1>4. k = -1 \/ k \in Index
  BY DEF Place
<1>5. k \in Index => k < NDIRECT \/ k >= NDIRECT
  BY Places
<1> QED BY <1>1, <1>2, <1>3, <1>4, <1>5

(* The indirect block of a file is a block that is not free.               *)
LEMMA IndirectIs ==
  ASSUME NEW s \in State, Owned(s), NEW g \in File
  PROVE  /\ s.din[g].indirect \notin s.freemap
         /\ s.din[g].indirect # 0 => s.din[g].indirect \in Block
         /\ Slot(s, g, -1) = s.din[g].indirect
         /\ -1 \in Place /\ Index \subseteq Place
<1>1. -1 \in Place /\ Index \subseteq Place
  BY DEF Place
<1>2. Slot(s, g, -1) = s.din[g].indirect
  BY SlotIs
<1>3. s.din[g].indirect \notin s.freemap
  BY <1>1, <1>2 DEF Owned
<1> QED BY <1>1, <1>2, <1>3, InodeIs, Places

(* A changed inode is dirty, so that its copy on the disk does not matter. *)
LEMMA MarkClean ==
  ASSUME NEW s \in State, NEW t \in State, NEW f \in File, Clean(s),
         t.stored = [s.stored EXCEPT ![f] = Dirty],
         \A g \in File \ {f} : t.din[g] = s.din[g]
  PROVE  Clean(t)
BY DEF Clean, State, Stores

(* From s to t nothing changes but one place, the block of that place, the *)
(* indirect block of f, and free blocks.                                   *)
OnlyHere(s, t, g, j, f) ==
  /\ \A h \in File, k \in Place : <<h, k>> # <<g, j>> => Slot(t, h, k) = Slot(s, h, k)
  /\ \A x \in Block \ s.freemap :
       x # Slot(s, g, j) /\ x # s.din[f].indirect => t.disk[x] = s.disk[x]

HeldElsewhere(s, t, g, j) ==
  \A h \in File, k \in Index, w \in Word :
    <<h, k>> # <<g, j>> => Holds(t, h, k, w) = Holds(s, h, k, w)

(* What a file contains depends on its own blocks: it does not notice a    *)
(* change of free blocks, of the block of another place, or of an indirect *)
(* block.                                                                  *)
LEMMA HoldsKept ==
  ASSUME NEW s \in State, Owned(s), NEW t, NEW f \in File, NEW g \in File, NEW j \in Place,
         OnlyHere(s, t, g, j, f)
  PROVE  HeldElsewhere(s, t, g, j)
<1> SUFFICES ASSUME NEW h \in File, NEW k \in Index, NEW w \in Word, <<h, k>> # <<g, j>>
             PROVE  Holds(t, h, k, w) = Holds(s, h, k, w)
  BY DEF HeldElsewhere
<1>1. k \in Place /\ -1 \in Place /\ k # -1
  BY Places DEF Place
<1>2. Slot(t, h, k) = Slot(s, h, k)
  BY <1>1 DEF OnlyHere
<1>3. CASE Slot(s, h, k) = 0
  BY <1>2, <1>3 DEF Holds
<1>4. CASE Slot(s, h, k) # 0
  <2>1. Slot(s, h, k) \in Block \ s.freemap
    BY <1>1, <1>4, Places DEF Owned
  <2>2. Slot(s, h, k) # Slot(s, g, j)
    BY <1>1, <1>4 DEF Owned
  <2>3. Slot(s, f, -1) = s.din[f].indirect
    BY SlotIs
  <2>4. Slot(s, h, k) # s.din[f].indirect
    BY <2>3, <1>1, <1>4 DEF Owned
  <2>5. t.disk[Slot(s, h, k)] = s.disk[Slot(s, h, k)]
    BY <2>1, <2>2, <2>4 DEF OnlyHere
  <2> QED BY <2>5, <1>2 DEF Holds
<1> QED BY <1>3, <1>4

(* If nothing else changes either, nothing changes.                        *)
LEMMA AllKept ==
  ASSUME NEW s \in State, Owned(s), NEW t,
         \A h \in File, k \in Index : Slot(t, h, k) = Slot(s, h, k),
         \A x \in Block \ s.freemap : t.disk[x] = s.disk[x]
  PROVE  Same(s, t)
<1> SUFFICES ASSUME NEW h \in File, NEW k \in Index, NEW w \in Word
             PROVE  Holds(t, h, k, w) = Holds(s, h, k, w)
  BY DEF Same
<1>1. k \in Place
  BY DEF Place
<1>2. Slot(s, h, k) # 0 => Slot(s, h, k) \in Block \ s.freemap
  BY <1>1, Places DEF Owned
<1> QED BY <1>2 DEF Holds

(* A place that was 0 gets a block that is cleared.                        *)
LEMMA ClearKept ==
  ASSUME NEW s, NEW t, NEW f \in File, NEW i \in Index,
         HeldElsewhere(s, t, f, i), Slot(s, f, i) = 0, t.disk[Slot(t, f, i)] = Zero
  PROVE  Same(s, t)
<1>1. ASSUME NEW w \in Word PROVE Holds(t, f, i, w) = 0 /\ Holds(s, f, i, w) = 0
  BY DEF Holds, Zero
<1> QED BY <1>1 DEF Same, HeldElsewhere

-----------------------------------------------------------------------------
(* Creating a block in a direct slot.                                      *)
LEMMA CreateDirectGood ==
  ASSUME NEW s, Good(s), s.freemap # {}, NEW f \in File, NEW i \in Index, i < NDIRECT,
         Slot(s, f, i) = 0
  PROVE  /\ Good(CreateDirect(s, f, i))
         /\ Slot(CreateDirect(s, f, i), f, i) \in Block
         /\ CreateDirect(s, f, i).din[f].blocks = s.din[f].blocks
         /\ Same(s, CreateDirect(s, f, i))
<1> DEFINE a == BlockAlloc(s)
           m == Min(s.freemap)
           d == [s.din[f] EXCEPT !.direct[i] = m]
           t == Marked(a, f, d)
<1>0. s \in State /\ Owned(s) /\ Clean(s) /\ s.unused = Cardinality(s.freemap)
  BY DEF Good
<1>1. /\ a \in State /\ a.freemap = s.freemap \ {m} /\ a.unused = s.unused - 1
      /\ a.disk = [s.disk EXCEPT ![m] = Zero] /\ a.din = s.din /\ a.stored = s.stored
      /\ m \in s.freemap /\ m \in Block
  BY <1>0, AllocIs
<1>2. CreateDirect(s, f, i) = t
  BY <1>1 DEF CreateDirect, Marked
<1>3. i \in 0..(NDIRECT - 1) /\ m \in 0..Blocks /\ i \in Place
  BY <1>1, Places DEF Place
<1>4. /\ d \in Inode /\ d.indirect = s.din[f].indirect /\ d.direct[i] = m
      /\ \A k \in 0..(NDIRECT - 1) \ {i} : d.direct[k] = s.din[f].direct[k]
  BY <1>0, <1>3, InodeIs, InodeSet
<1>b. d.blocks = s.din[f].blocks
  BY <1>0, InodeIs DEF Inode
<1> HIDE DEF a, m, d
<1>5. /\ t \in State /\ t.freemap = s.freemap \ {m} /\ t.unused = s.unused - 1
      /\ t.disk = [s.disk EXCEPT ![m] = Zero] /\ t.din = [s.din EXCEPT ![f] = d]
      /\ t.stored = [s.stored EXCEPT ![f] = Dirty]
  BY <1>1, <1>4, MarkedIs
<1> HIDE DEF t
<1>6. Slot(t, f, i) = m
  <2>1. t.din[f] = d
    BY <1>0, <1>5 DEF State, Inodes
  <2> QED BY <2>1, <1>4, SlotIs
<1>7. ASSUME NEW g \in File, NEW k \in Place, <<g, k>> # <<f, i>>
      PROVE  Slot(t, g, k) = Slot(s, g, k)
  <2>1. t.din[g].indirect = s.din[g].indirect
    BY <1>0, <1>4, <1>5 DEF State, Inodes
  <2>2. k \in Index /\ k < NDIRECT => t.din[g].direct[k] = s.din[g].direct[k]
    BY <1>0, <1>4, <1>5, <1>7, Places DEF State, Inodes
  <2>3. s.din[g].indirect # m
    BY <1>0, <1>1, IndirectIs
  <2>4. t.disk[s.din[g].indirect] = s.disk[s.din[g].indirect]
    BY <2>3, <1>0, <1>5 DEF State, Disk
  <2> QED BY <2>1, <2>2, <2>4, SlotFrame
<1>8. Owned(t)
  BY <1>0, <1>1, <1>3, <1>5, <1>6, <1>7, Gained DEF State, Maps
<1>9. Clean(t)
  BY <1>0, <1>5, MarkClean DEF State, Inodes
<1>10. t.unused = Cardinality(t.freemap)
  BY <1>0, <1>1, <1>5, Counting DEF State, Maps
<1>11. t.din[f].blocks = s.din[f].blocks
  BY <1>0, <1>5, <1>b DEF State, Inodes
<1>12. Same(s, t)
  <2>1. t.disk[m] = Zero /\ \A x \in Block \ s.freemap : t.disk[x] = s.disk[x]
    BY <1>0, <1>1, <1>5 DEF State, Disk
  <2>2. OnlyHere(s, t, f, i, f)
    BY <2>1, <1>7 DEF OnlyHere
  <2>3. HeldElsewhere(s, t, f, i)
    BY <2>2, <1>0, <1>3, HoldsKept
  <2> QED BY <2>1, <2>3, <1>6, ClearKept
<1> QED BY <1>1, <1>2, <1>5, <1>6, <1>8, <1>9, <1>10, <1>11, <1>12 DEF Good

(* Creating the indirect block: it is cleared, and none of its entries     *)
(* names a block.                                                          *)
LEMMA CreateIndirectGood ==
  ASSUME NEW s, Good(s), s.freemap # {}, NEW f \in File, s.din[f].indirect = 0
  PROVE  /\ Good(CreateIndirect(s, f))
         /\ CreateIndirect(s, f).freemap = s.freemap \ {Min(s.freemap)}
         /\ CreateIndirect(s, f).din[f].indirect # 0
         /\ \A i \in Index : i >= NDIRECT => Slot(CreateIndirect(s, f), f, i) = 0
         /\ CreateIndirect(s, f).din[f].blocks = s.din[f].blocks
         /\ Same(s, CreateIndirect(s, f))
<1> DEFINE a == BlockAlloc(s)
           m == Min(s.freemap)
           d == [s.din[f] EXCEPT !.indirect = m]
           t == Marked(a, f, d)
<1>0. s \in State /\ Owned(s) /\ Clean(s) /\ s.unused = Cardinality(s.freemap)
  BY DEF Good
<1>1. /\ a \in State /\ a.freemap = s.freemap \ {m} /\ a.unused = s.unused - 1
      /\ a.disk = [s.disk EXCEPT ![m] = Zero] /\ a.din = s.din /\ a.stored = s.stored
      /\ m \in s.freemap /\ m \in Block
  BY <1>0, AllocIs
<1>2. CreateIndirect(s, f) = t
  BY <1>1 DEF CreateIndirect, Marked
<1>3. m \in 0..Blocks /\ -1 \in Place /\ m # 0
  BY <1>1, Places DEF Place
<1>4. /\ d \in Inode /\ d.indirect = m /\ d.direct = s.din[f].direct
  BY <1>0, <1>3, InodeIs, InodeSet
<1>b. d.blocks = s.din[f].blocks
  BY <1>0, InodeIs DEF Inode
<1> HIDE DEF a, m, d
<1>5. /\ t \in State /\ t.freemap = s.freemap \ {m} /\ t.unused = s.unused - 1
      /\ t.disk = [s.disk EXCEPT ![m] = Zero] /\ t.din = [s.din EXCEPT ![f] = d]
      /\ t.stored = [s.stored EXCEPT ![f] = Dirty]
  BY <1>1, <1>4, MarkedIs
<1> HIDE DEF t
<1>6. t.din[f] = d /\ Slot(t, f, -1) = m /\ Slot(s, f, -1) = 0
  <2>1. t.din[f] = d
    BY <1>0, <1>5 DEF State, Inodes
  <2> QED BY <2>1, <1>4, SlotIs
<1>e. ASSUME NEW k \in Index, k >= NDIRECT
      PROVE  Slot(t, f, k) = 0 /\ Slot(s, f, k) = 0
  <2>1. Slot(s, f, k) = 0
    BY <1>e, SlotIs
  <2>2. k - NDIRECT \in Word
    BY <1>e, Places
  <2>3. t.disk[m] = Zero
    BY <1>0, <1>1, <1>5 DEF State, Disk
  <2>4. Slot(t, f, k) = t.disk[m][k - NDIRECT]
    BY <1>e, <1>3, <1>4, <1>6, SlotIs
  <2> QED BY <2>1, <2>2, <2>3, <2>4 DEF Zero
<1>7. ASSUME NEW g \in File, NEW k \in Place, <<g, k>> # <<f, -1>>
      PROVE  Slot(t, g, k) = Slot(s, g, k)
  <2>1. CASE g # f
    <3>1. t.din[g] = s.din[g]
      BY <2>1, <1>0, <1>5 DEF State, Inodes
    <3>2. s.din[g].indirect # m
      BY <1>0, <1>1, IndirectIs
    <3>3. t.disk[s.din[g].indirect] = s.disk[s.din[g].indirect]
      BY <3>2, <1>0, <1>5 DEF State, Disk
    <3> QED BY <3>1, <3>3, SlotFrame
  <2>2. CASE g = f
    <3>1. k \in Index
      BY <2>2, <1>7 DEF Place
    <3>2. CASE k < NDIRECT
      BY <3>1, <3>2, <2>2, <1>4, <1>6, SlotIs
    <3>3. CASE k >= NDIRECT
      BY <3>1, <3>3, <2>2, <1>e
    <3> QED BY <3>1, <3>2, <3>3, Places
  <2> QED BY <2>1, <2>2
<1>8. Owned(t)
  BY <1>0, <1>1, <1>3, <1>5, <1>6, <1>7, Gained DEF State, Maps
<1>9. Clean(t)
  BY <1>0, <1>5, MarkClean DEF State, Inodes
<1>10. t.unused = Cardinality(t.freemap)
  BY <1>0, <1>1, <1>5, Counting DEF State, Maps
<1>11. t.din[f].blocks = s.din[f].blocks
  BY <1>6, <1>b
<1>12. t.freemap = s.freemap \ {Min(s.freemap)}
  BY <1>5 DEF m
<1>13. Same(s, t)
  <2>1. \A x \in Block \ s.freemap : t.disk[x] = s.disk[x]
    BY <1>0, <1>1, <1>5 DEF State, Disk
  <2>2. \A h \in File, k \in Index : Slot(t, h, k) = Slot(s, h, k)
    BY <1>7, Places DEF Place
  <2> QED BY <2>1, <2>2, <1>0, AllKept
<1>14. Good(t)
  BY <1>5, <1>8, <1>9, <1>10 DEF Good
<1> QED BY <1>2, <1>3, <1>4, <1>6, <1>e, <1>11, <1>12, <1>13, <1>14

(* A written block, field by field.                                        *)
LEMMA PutIs ==
  ASSUME NEW s \in State, NEW b \in Block, NEW v \in [Word -> File \cup Int]
  PROVE  /\ Put(s, b, v) \in State
         /\ Put(s, b, v).freemap = s.freemap
         /\ Put(s, b, v).unused = s.unused
         /\ Put(s, b, v).disk = [s.disk EXCEPT ![b] = v]
         /\ Put(s, b, v).din = s.din
         /\ Put(s, b, v).stored = s.stored
<1>1. [s.disk EXCEPT ![b] = v] \in Disk
  BY DEF State, Disk
<1>2. Put(s, b, v) = [s EXCEPT !.disk = [s.disk EXCEPT ![b] = v]]
  BY DEF Put
<1> QED BY <1>1, <1>2, FieldSet DEF State

(* Creating a block in the indirect block that is there.                   *)
LEMMA CreateEntryGood ==
  ASSUME NEW s, Good(s), s.freemap # {}, NEW f \in File, s.din[f].indirect # 0,
         NEW i \in Index, i >= NDIRECT, Slot(s, f, i) = 0
  PROVE  /\ Good(CreateEntry(s, f, i))
         /\ Slot(CreateEntry(s, f, i), f, i) \in Block
         /\ CreateEntry(s, f, i).din[f].blocks = s.din[f].blocks
         /\ Same(s, CreateEntry(s, f, i))
<1> DEFINE a == BlockAlloc(s)
           m == Min(s.freemap)
           b == s.din[f].indirect
           e == i - NDIRECT
           t == Put(a, b, [a.disk[b] EXCEPT ![e] = m])
<1>0. s \in State /\ Owned(s) /\ Clean(s) /\ s.unused = Cardinality(s.freemap)
  BY DEF Good
<1>1. /\ a \in State /\ a.freemap = s.freemap \ {m} /\ a.unused = s.unused - 1
      /\ a.disk = [s.disk EXCEPT ![m] = Zero] /\ a.din = s.din /\ a.stored = s.stored
      /\ m \in s.freemap /\ m \in Block
  BY <1>0, AllocIs
<1>2. CreateEntry(s, f, i) = t
  BY <1>1 DEF CreateEntry, Put
<1>3. /\ m \in 0..Blocks /\ i \in Place /\ m # 0 /\ m \in Int /\ e \in Word
      /\ b \in Block /\ b \notin s.freemap /\ b # m
  BY <1>0, <1>1, Places, IndirectIs DEF Place
<1>d. b = s.din[f].indirect
  OBVIOUS
<1> HIDE DEF a, m, b
<1>4. a.disk[b] = s.disk[b] /\ s.disk[b] \in [Word -> File \cup Int]
  BY <1>0, <1>1, <1>3 DEF State, Disk
<1>b. [a.disk[b] EXCEPT ![e] = m] \in [Word -> File \cup Int]
  BY <1>3, <1>4
<1>5. /\ t \in State /\ t.freemap = s.freemap \ {m} /\ t.unused = s.unused - 1
      /\ t.disk = [a.disk EXCEPT ![b] = [a.disk[b] EXCEPT ![e] = m]]
      /\ t.din = s.din /\ t.stored = s.stored
  <2> DEFINE y == [a.disk[b] EXCEPT ![e] = m]
  <2>1. y \in [Word -> File \cup Int] /\ a \in State /\ b \in Block
    BY <1>1, <1>3, <1>b
  <2> HIDE DEF y
  <2>2. /\ Put(a, b, y) \in State /\ Put(a, b, y).freemap = a.freemap
        /\ Put(a, b, y).unused = a.unused /\ Put(a, b, y).disk = [a.disk EXCEPT ![b] = y]
        /\ Put(a, b, y).din = a.din /\ Put(a, b, y).stored = a.stored
    BY <2>1, PutIs
  <2>3. t = Put(a, b, y)
    BY DEF y
  <2> HIDE DEF t
  <2> QED BY <2>2, <2>3, <1>1 DEF y
<1> HIDE DEF t
<1>6. t.disk[b] = [s.disk[b] EXCEPT ![e] = m]
  BY <1>1, <1>3, <1>4, <1>5 DEF State, Disk
<1>c. Slot(t, f, i) = m
  <2>1. Slot(t, f, i) = t.disk[b][e]
    <3>1. t.din[f].indirect = b /\ t.din[f].indirect # 0
      BY <1>5, <1>d
    <3> QED BY <3>1, SlotIs
  <2> QED BY <2>1, <1>3, <1>4, <1>6
<1>7. ASSUME NEW g \in File, NEW k \in Place, <<g, k>> # <<f, i>>
      PROVE  Slot(t, g, k) = Slot(s, g, k)
  <2>1. s.din[g].indirect # m
    BY <1>0, <1>1, IndirectIs
  <2>2. CASE g # f
    <3>1. s.din[g].indirect # b
      <4>1. Slot(s, f, -1) = b /\ Slot(s, g, -1) = s.din[g].indirect /\ -1 \in Place
        BY <1>0, <1>d, IndirectIs
      <4>2. b # 0 /\ Owned(s)
        BY <1>0, <1>3, Places
      <4>3. ~(Slot(s, f, -1) = Slot(s, g, -1) /\ Slot(s, f, -1) # 0)
        BY <2>2, <4>1, <4>2, OwnedOnce, Zenon
      <4> QED BY <4>1, <4>2, <4>3, Zenon
    <3>2. ASSUME s.din[g].indirect # 0
          PROVE  t.disk[s.din[g].indirect] = s.disk[s.din[g].indirect]
      <4>1. s.din[g].indirect \in Block
        BY <3>2, <1>0, IndirectIs
      <4>2. a.disk[s.din[g].indirect] = s.disk[s.din[g].indirect]
        BY <4>1, <2>1, <1>0, <1>1 DEF State, Disk
      <4>3. a.disk \in [Block -> [Word -> File \cup Int]]
        BY <1>1 DEF State, Disk
      <4>4. \A v : [a.disk EXCEPT ![b] = v][s.din[g].indirect] = a.disk[s.din[g].indirect]
        BY <4>1, <4>3, <3>1
      <4> QED BY <4>2, <4>4, <1>5
    <3>3. t.din[g] = s.din[g]
      BY <1>5
    <3>4. s.din[g].indirect # 0 =>
            \A n : t.disk[s.din[g].indirect][n] = s.disk[s.din[g].indirect][n]
      BY <3>2
    <3> QED BY <3>3, <3>4, SlotFrame
  <2>3. CASE g = f
    <3>1. ASSUME k \in Index, k >= NDIRECT
          PROVE  t.disk[b][k - NDIRECT] = s.disk[b][k - NDIRECT]
      <4>1. k # i /\ k - NDIRECT # e /\ k - NDIRECT \in Word
        <5>1. k # i
          BY <2>3, <1>7
        <5>2. k \in Int /\ i \in Int /\ NDIRECT \in Int /\ k - NDIRECT \in Word
          BY <3>1, Places
        <5> QED BY <5>1, <5>2
      <4> HIDE DEF e
      <4> QED BY <4>1, <1>3, <1>4, <1>6
    <3>2. /\ t.din[g] = s.din[g] /\ s.din[g].indirect = b
          /\ \A n : t.disk[s.din[g].indirect][n] = t.disk[b][n]
      BY <2>3, <1>5, <1>d
    <3> HIDE DEF t
    <3> QED BY <3>1, <3>2, SlotFrame
  <2> QED BY <2>2, <2>3
<1>8. Owned(t)
  BY <1>0, <1>1, <1>3, <1>5, <1>c, <1>7, Gained DEF State, Maps
<1>9. Clean(t)
  BY <1>0, <1>5 DEF Clean
<1>10. t.unused = Cardinality(t.freemap)
  BY <1>0, <1>1, <1>5, Counting DEF State, Maps
<1>11. Same(s, t)
  <2>1. t.disk[m] = Zero
    <3>1. a.disk[m] = Zero
      BY <1>0, <1>1 DEF State, Disk
    <3>2. \A y : [a.disk EXCEPT ![b] = y][m] = a.disk[m]
      BY <1>1, <1>3 DEF State, Disk
    <3> QED BY <3>1, <3>2, <1>5
  <2>2. ASSUME NEW x \in Block \ s.freemap, x # b PROVE t.disk[x] = s.disk[x]
    <3>1. a.disk[x] = s.disk[x]
      BY <1>0, <1>1 DEF State, Disk
    <3>2. \A y : [a.disk EXCEPT ![b] = y][x] = a.disk[x]
      BY <1>1, <2>2 DEF State, Disk
    <3> QED BY <3>1, <3>2, <1>5
  <2>3. OnlyHere(s, t, f, i, f)
    BY <2>2, <1>7, <1>d DEF OnlyHere
  <2>4. HeldElsewhere(s, t, f, i)
    BY <2>3, <1>0, <1>3, HoldsKept
  <2> QED BY <2>1, <2>4, <1>c, ClearKept
<1> QED BY <1>1, <1>2, <1>5, <1>c, <1>8, <1>9, <1>10, <1>11 DEF Good

(* sfs_bmap_get_nolock with create: the file gets a block at that place.   *)
LEMMA CreateGood ==
  ASSUME NEW s, Good(s), NEW f \in File, NEW i \in Index,
         Slot(s, f, i) = 0, ~NoMem(s, f, i)
  PROVE  /\ Good(Create(s, f, i))
         /\ Slot(Create(s, f, i), f, i) \in Block
         /\ Create(s, f, i).din[f].blocks = s.din[f].blocks
         /\ Same(s, Create(s, f, i))
<1>0. s.freemap \in SUBSET Block
  BY DEF Good, State, Maps
<1>1. Cardinality(s.freemap) \in Nat /\ (s.freemap = {} => Cardinality(s.freemap) = 0)
  BY <1>0, Count
<1>2. s.freemap # {}
  BY <1>1 DEF NoMem
<1>3. i \in Nat /\ NDIRECT \in Nat
  BY Places
<1>4. CASE i < NDIRECT
  <2>1. Create(s, f, i) = CreateDirect(s, f, i)
    BY <1>3, <1>4 DEF Create, NeedsIndirect
  <2> QED BY <2>1, <1>2, <1>4, CreateDirectGood
<1>5. CASE i >= NDIRECT /\ s.din[f].indirect # 0
  <2>1. Create(s, f, i) = CreateEntry(s, f, i)
    BY <1>3, <1>5 DEF Create, NeedsIndirect
  <2> QED BY <2>1, <1>2, <1>5, CreateEntryGood
<1>6. CASE i >= NDIRECT /\ s.din[f].indirect = 0
  <2> DEFINE t == CreateIndirect(s, f)
  <2>1. Create(s, f, i) = CreateEntry(t, f, i)
    BY <1>3, <1>6 DEF Create, NeedsIndirect
  <2>2. /\ Good(t) /\ t.freemap = s.freemap \ {Min(s.freemap)} /\ t.din[f].indirect # 0
        /\ Slot(t, f, i) = 0 /\ t.din[f].blocks = s.din[f].blocks /\ Same(s, t)
    BY <1>2, <1>6, CreateIndirectGood
  <2>3. Cardinality(s.freemap) >= 2
    BY <1>1, <1>3, <1>6 DEF NoMem, NeedsIndirect
  <2>4. Min(s.freemap) \in s.freemap
    BY <1>0, <1>2, MinIn
  <2>5. Cardinality(t.freemap) = Cardinality(s.freemap) - 1
    BY <2>2, <2>4, <1>0, Counting
  <2>6. t.freemap # {}
    <3>1. t.freemap \in SUBSET Block
      BY <2>2, <1>0
    <3> HIDE DEF t
    <3> QED BY <3>1, <2>3, <2>5, <1>1, Count
  <2> HIDE DEF t
  <2>7. /\ Good(CreateEntry(t, f, i)) /\ Slot(CreateEntry(t, f, i), f, i) \in Block
        /\ CreateEntry(t, f, i).din[f].blocks = t.din[f].blocks
        /\ Same(t, CreateEntry(t, f, i))
    BY <2>2, <2>6, <1>6, CreateEntryGood
  <2>8. Same(s, CreateEntry(t, f, i))
    BY <2>2, <2>7 DEF Same
  <2> QED BY <2>1, <2>2, <2>7, <2>8
<1> QED BY <1>3, <1>4, <1>5, <1>6

(* Changing an inode but for the blocks it names.                          *)
LEMMA InodeKept ==
  ASSUME NEW s, Good(s), NEW f \in File, NEW d \in Inode,
         d.direct = s.din[f].direct, d.indirect = s.din[f].indirect
  PROVE  /\ Good([s EXCEPT !.din[f] = d])
         /\ Good(Marked(s, f, d))
         /\ \A g \in File, i \in Place : Slot([s EXCEPT !.din[f] = d], g, i) = Slot(s, g, i)
         /\ Same(s, [s EXCEPT !.din[f] = d])
         /\ Same(s, Marked(s, f, d))
<1> DEFINE t == [s EXCEPT !.din[f] = d]
           u == Marked(s, f, d)
<1>0. s \in State /\ Owned(s) /\ Clean(s) /\ s.unused = Cardinality(s.freemap)
  BY DEF Good
<1>1. /\ t \in State /\ t.freemap = s.freemap /\ t.unused = s.unused
      /\ t.disk = s.disk /\ t.stored = s.stored /\ t.din = [s.din EXCEPT ![f] = d]
  <2>1. [s.din EXCEPT ![f] = d] \in Inodes
    BY <1>0 DEF State, Inodes
  <2> QED BY <2>1, <1>0, FieldSet DEF State
<1>2. /\ u \in State /\ u.freemap = s.freemap /\ u.unused = s.unused
      /\ u.disk = s.disk /\ u.din = [s.din EXCEPT ![f] = d]
      /\ u.stored = [s.stored EXCEPT ![f] = Dirty]
  BY <1>0, MarkedIs
<1> HIDE DEF t, u
<1>3. ASSUME NEW g \in File
      PROVE  [s.din EXCEPT ![f] = d][g].direct = s.din[g].direct
             /\ [s.din EXCEPT ![f] = d][g].indirect = s.din[g].indirect
  BY <1>0 DEF State, Inodes
<1>4. ASSUME NEW g \in File, NEW i \in Place
      PROVE  Slot(t, g, i) = Slot(s, g, i)
  <2>1. /\ t.din[g].direct = s.din[g].direct /\ t.din[g].indirect = s.din[g].indirect
        /\ \A b, n : t.disk[b][n] = s.disk[b][n]
    BY <1>1, <1>3
  <2> QED BY <2>1, SlotFrame
<1>5. ASSUME NEW g \in File, NEW i \in Place
      PROVE  Slot(u, g, i) = Slot(s, g, i)
  <2>1. /\ u.din[g].direct = s.din[g].direct /\ u.din[g].indirect = s.din[g].indirect
        /\ \A b, n : u.disk[b][n] = s.disk[b][n]
    BY <1>2, <1>3
  <2> QED BY <2>1, SlotFrame
<1>6. Owned(t) /\ Owned(u)
  BY <1>0, <1>1, <1>2, <1>4, <1>5, Unmoved
<1>7. Clean(t)
  BY <1>0, <1>1, <1>3 DEF Clean
<1>8. Clean(u)
  BY <1>0, <1>2, MarkClean DEF State, Inodes
<1>9. Good(t) /\ Good(u)
  BY <1>0, <1>1, <1>2, <1>6, <1>7, <1>8 DEF Good
<1>10. Same(s, t) /\ Same(s, u)
  <2>1. \A g \in File, i \in Index : Slot(t, g, i) = Slot(s, g, i) /\ Slot(u, g, i) = Slot(s, g, i)
    BY <1>4, <1>5 DEF Place
  <2> QED BY <2>1, <1>0, <1>1, <1>2, AllKept
<1> QED BY <1>4, <1>9, <1>10 DEF t, u

(* sfs_bmap_load_nolock, when it neither fails nor panics.                 *)
LEMMA LoadedGood ==
  ASSUME NEW s, Good(s), NEW f \in File, NEW i \in Nat,
         LoadAsserts(s, f, i), ~LoadFails(s, f, i)
  PROVE  /\ Good(Loaded(s, f, i))
         /\ i \in Index
         /\ Slot(Loaded(s, f, i), f, i) \in Block
         /\ Same(s, Loaded(s, f, i))
<1>0. s \in State /\ Owned(s)
  BY DEF Good
<1>1. i \in Index /\ i \in Place /\ i + 1 \in 0..(NDIRECT + BLKSIZE)
  BY SfsAssumption DEF LoadAsserts, Index, Place
<1>2. Slot(s, f, i) = Bmap(s, f, i)
  BY <1>1, SlotIs
<1> DEFINE t == IF Creates(s, f, i) THEN Create(s, f, i) ELSE s
<1>3. Good(t) /\ Slot(t, f, i) \in Block /\ t.din[f].blocks = s.din[f].blocks /\ Same(s, t)
  <2>1. CASE Creates(s, f, i)
    <3>1. ~NoMem(s, f, i) /\ Slot(s, f, i) = 0
      BY <2>1, <1>2 DEF LoadFails, Creates
    <3> QED BY <3>1, <2>1, <1>1, CreateGood
  <2>2. CASE ~Creates(s, f, i)
    <3>1. Slot(s, f, i) # 0
      BY <2>2, <1>2 DEF LoadAsserts, InUse
    <3>2. Slot(s, f, i) \in Block
      BY <3>1, <1>0, <1>1, Places DEF Owned
    <3> QED BY <3>2, <2>2 DEF Same
  <2> QED BY <2>1, <2>2
<1>4. Loaded(s, f, i) = IF i = s.din[f].blocks THEN [t EXCEPT !.din[f].blocks = @ + 1] ELSE t
  BY DEF Loaded
<1> HIDE DEF t
<1>5. CASE i = s.din[f].blocks
  <2> DEFINE d == [t.din[f] EXCEPT !.blocks = i + 1]
  <2>1. t \in State /\ t.din[f] \in Inode
    BY <1>3, InodeIs DEF Good
  <2>2. d \in Inode /\ d.direct = t.din[f].direct /\ d.indirect = t.din[f].indirect
    BY <2>1, <1>1, InodeSet
  <2>3. Loaded(s, f, i) = [t EXCEPT !.din[f] = d]
    BY <1>3, <1>4, <1>5
  <2> HIDE DEF d
  <2>4. Good([t EXCEPT !.din[f] = d])
    BY <2>2, <1>3, InodeKept
  <2>5. Slot([t EXCEPT !.din[f] = d], f, i) = Slot(t, f, i)
    BY <2>2, <1>1, <1>3, InodeKept
  <2>6. Same(t, [t EXCEPT !.din[f] = d])
    BY <2>2, <1>3, InodeKept
  <2>7. Same(s, Loaded(s, f, i))
    BY <2>3, <2>6, <1>3 DEF Same
  <2> QED BY <2>3, <2>4, <2>5, <2>7, <1>1, <1>3
<1>6. CASE i # s.din[f].blocks
  BY <1>1, <1>3, <1>4, <1>6
<1> QED BY <1>5, <1>6

(* A call that runs out of blocks gives back the indirect block it took.   *)
LEMMA CleanedUpGood ==
  ASSUME NEW s, Good(s), NEW f \in File, NEW i
  PROVE  Good(CleanedUp(s, f, i)) /\ Same(s, CleanedUp(s, f, i))
<1>0. s \in State /\ Owned(s) /\ Clean(s) /\ s.unused = Cardinality(s.freemap)
  BY DEF Good
<1>1. CASE s.freemap = {}
  BY <1>1 DEF CleanedUp, Same
<1>2. CASE s.freemap # {}
  <2> DEFINE a == BlockAlloc(s)
             m == Min(s.freemap)
             t == BlockFree(a, m)
  <2>1. /\ a \in State /\ a.freemap = s.freemap \ {m} /\ a.unused = s.unused - 1
        /\ a.disk = [s.disk EXCEPT ![m] = Zero] /\ a.din = s.din /\ a.stored = s.stored
        /\ m \in s.freemap /\ m \in Block
    BY <1>0, <1>2, AllocIs
  <2>2. CleanedUp(s, f, i) = t
    BY <1>2 DEF CleanedUp
  <2> HIDE DEF a, m
  <2>3. /\ t \in State /\ t.freemap = a.freemap \cup {m} /\ t.unused = a.unused + 1
        /\ t.disk = [a.disk EXCEPT ![m] = Junk] /\ t.din = a.din /\ t.stored = a.stored
    BY <2>1, FreeIs
  <2> HIDE DEF t
  <2>4. t.freemap = s.freemap /\ t.unused = s.unused
    BY <1>0, <2>1, <2>3 DEF State
  <2>5. ASSUME NEW g \in File, NEW k \in Place
        PROVE  Slot(t, g, k) = Slot(s, g, k)
    <3>1. s.din[g].indirect # m
      BY <1>0, <2>1, IndirectIs
    <3>2. ASSUME s.din[g].indirect # 0
          PROVE  t.disk[s.din[g].indirect] = s.disk[s.din[g].indirect]
      <4>1. s.din[g].indirect \in Block
        BY <3>2, <1>0, IndirectIs
      <4>2. a.disk[s.din[g].indirect] = s.disk[s.din[g].indirect]
        BY <4>1, <3>1, <1>0, <2>1 DEF State, Disk
      <4>3. t.disk[s.din[g].indirect] = a.disk[s.din[g].indirect]
        BY <4>1, <3>1, <2>1, <2>3 DEF State, Disk
      <4> QED BY <4>2, <4>3
    <3>3. t.din[g] = s.din[g]
      BY <2>1, <2>3
    <3>4. s.din[g].indirect # 0 =>
            \A n : t.disk[s.din[g].indirect][n] = s.disk[s.din[g].indirect][n]
      BY <3>2
    <3> QED BY <3>3, <3>4, SlotFrame
  <2>6. Owned(t)
    BY <1>0, <2>4, <2>5, Unmoved
  <2>7. Clean(t)
    BY <1>0, <2>1, <2>3 DEF Clean
  <2>8. \A x \in Block \ s.freemap : t.disk[x] = s.disk[x]
    <3> SUFFICES ASSUME NEW x \in Block \ s.freemap PROVE t.disk[x] = s.disk[x]
      OBVIOUS
    <3>1. a.disk[x] = s.disk[x]
      BY <1>0, <2>1 DEF State, Disk
    <3>2. t.disk[x] = a.disk[x]
      BY <2>1, <2>3 DEF State, Disk
    <3> QED BY <3>1, <3>2
  <2>9. Same(s, t)
    BY <2>5, <2>8, <1>0, AllKept DEF Place
  <2> QED BY <1>0, <2>2, <2>3, <2>4, <2>6, <2>7, <2>9 DEF Good
<1> QED BY <1>1, <1>2

(* An inode changed and not marked, field by field.                        *)
LEMMA DinIs ==
  ASSUME NEW s \in State, NEW f \in File, NEW d \in Inode
  PROVE  /\ [s EXCEPT !.din[f] = d] \in State
         /\ [s EXCEPT !.din[f] = d].freemap = s.freemap
         /\ [s EXCEPT !.din[f] = d].unused = s.unused
         /\ [s EXCEPT !.din[f] = d].disk = s.disk
         /\ [s EXCEPT !.din[f] = d].din = [s.din EXCEPT ![f] = d]
         /\ [s EXCEPT !.din[f] = d].stored = s.stored
<1>1. [s.din EXCEPT ![f] = d] \in Inodes
  BY DEF State, Inodes
<1> QED BY <1>1, FieldSet DEF State

(* Block i of a file goes, and nothing else.                               *)
Emptied(s, t, f, i) ==
  \A g \in File, k \in Index, w \in Word :
    Holds(t, g, k, w) = IF <<g, k>> = <<f, i>> THEN 0 ELSE Holds(s, g, k, w)

(* The last block goes and was in a direct slot.                           *)
LEMMA TruncatedDirect ==
  ASSUME NEW s, Good(s), NEW f \in File, NEW i \in Index, i < NDIRECT,
         i = s.din[f].blocks - 1, Slot(s, f, i) # 0
  PROVE  Good(Truncated(s, f)) /\ Emptied(s, Truncated(s, f), f, i)
<1> DEFINE b == Slot(s, f, i)
           t == BlockFree(s, b)
           d == [s.din[f] EXCEPT !.direct[i] = 0]
           u == [t EXCEPT !.din[f] = d]
           e == [d EXCEPT !.blocks = i]
           v == Marked(u, f, e)
<1>0. s \in State /\ Owned(s) /\ Clean(s) /\ s.unused = Cardinality(s.freemap)
  BY DEF Good
<1>1. i \in Place /\ i \in 0..(NDIRECT - 1) /\ 0 \in 0..Blocks /\ i \in 0..(NDIRECT + BLKSIZE)
  BY Places DEF Place
<1>2. b = Bmap(s, f, i) /\ b \in Block /\ b \notin s.freemap
  <2>1. b = Bmap(s, f, i)
    BY SlotIs
  <2>2. b \in 0..Blocks /\ b # 0 /\ b \notin s.freemap
    BY <1>0, <1>1 DEF Owned
  <2> QED BY <2>1, <2>2, Places
<1>3. /\ t \in State /\ t.freemap = s.freemap \cup {b} /\ t.unused = s.unused + 1
      /\ t.disk = [s.disk EXCEPT ![b] = Junk] /\ t.din = s.din /\ t.stored = s.stored
  BY <1>0, <1>2, FreeIs
<1>4. /\ d \in Inode /\ d.indirect = s.din[f].indirect /\ d.direct[i] = 0
      /\ \A k \in 0..(NDIRECT - 1) \ {i} : d.direct[k] = s.din[f].direct[k]
  BY <1>0, <1>1, InodeIs, InodeSet
<1>5. e \in Inode /\ e.indirect = d.indirect /\ e.direct = d.direct
  <2> HIDE DEF d
  <2> QED BY <1>1, <1>4, InodeSet
<1>6. Truncated(s, f) = v
  <2>1. b # 0
    BY <1>2, Places
  <2>2. Truncated(s, f) = [[t EXCEPT !.din[f].direct[i] = 0] EXCEPT !.din[f].blocks = i, !.stored[f] = Dirty]
    BY <1>2, <2>1 DEF Truncated
  <2>3. [t EXCEPT !.din[f].direct[i] = 0] = u
    BY <1>3
  <2>4. u.din[f] = d
    <3> HIDE DEF t, d
    <3>1. t.din[f] = s.din[f] /\ u.din = [t.din EXCEPT ![f] = d]
      BY <1>3, <1>4, DinIs
    <3> QED BY <3>1, <1>0, <1>3 DEF State, Inodes
  <2> HIDE DEF u, d, t
  <2>5. [u EXCEPT !.din[f].blocks = i, !.stored[f] = Dirty] = v
    BY <2>4 DEF Marked
  <2> QED BY <2>2, <2>3, <2>5
<1> HIDE DEF b, t, d, e
<1>7. /\ u \in State /\ u.freemap = t.freemap /\ u.unused = t.unused
      /\ u.disk = t.disk /\ u.din = [t.din EXCEPT ![f] = d] /\ u.stored = t.stored
  BY <1>3, <1>4, DinIs
<1> HIDE DEF u
<1>8. /\ v \in State /\ v.freemap = u.freemap /\ v.unused = u.unused
      /\ v.disk = u.disk /\ v.din = [u.din EXCEPT ![f] = e]
      /\ v.stored = [u.stored EXCEPT ![f] = Dirty]
  BY <1>5, <1>7, MarkedIs
<1> HIDE DEF v
<1>9. v.din[f] = e /\ \A g \in File \ {f} : v.din[g] = s.din[g]
  BY <1>0, <1>3, <1>7, <1>8 DEF State, Inodes
<1>10. v.disk = [s.disk EXCEPT ![b] = Junk] /\ v.freemap = s.freemap \cup {b}
       /\ v.unused = s.unused + 1 /\ v.stored = [s.stored EXCEPT ![f] = Dirty]
  BY <1>3, <1>7, <1>8
<1>11. Slot(v, f, i) = 0
  BY <1>4, <1>5, <1>9, SlotIs
<1>12. ASSUME NEW g \in File, NEW k \in Place, <<g, k>> # <<f, i>>
       PROVE  Slot(v, g, k) = Slot(s, g, k)
  <2>1. v.din[g].indirect = s.din[g].indirect
    BY <1>4, <1>5, <1>9
  <2>2. k \in Index /\ k < NDIRECT => v.din[g].direct[k] = s.din[g].direct[k]
    BY <1>4, <1>5, <1>9, <1>12, Places
  <2>3. Slot(s, g, -1) = s.din[g].indirect /\ -1 \in Place /\ b = Slot(s, f, i) /\ i # -1
    BY <1>0, <1>1, IndirectIs, Places DEF b
  <2>4. s.din[g].indirect # b
    <3>1. Owned(s) /\ i \in Place /\ b # 0
      BY <1>0, <1>1, <1>2, Places
    <3>2. ~(Slot(s, f, i) = Slot(s, g, -1) /\ Slot(s, f, i) # 0)
      BY <2>3, <3>1, OwnedOnce, Zenon
    <3> QED BY <2>3, <3>1, <3>2, Zenon
  <2>5. v.disk[s.din[g].indirect] = s.disk[s.din[g].indirect]
    BY <2>4, <1>0, <1>10 DEF State, Disk
  <2> QED BY <2>1, <2>2, <2>5, SlotFrame
<1>13. Owned(v)
  BY <1>0, <1>1, <1>10, <1>11, <1>12, Lost DEF State, Maps, b
<1>14. Clean(v)
  BY <1>0, <1>8, <1>9, <1>10, MarkClean
<1>15. v.unused = Cardinality(v.freemap)
  BY <1>0, <1>2, <1>10, Counting DEF State, Maps
<1>16. Emptied(s, v, f, i)
  <2>1. \A x \in Block \ s.freemap :
          x # Slot(s, f, i) /\ x # s.din[f].indirect => v.disk[x] = s.disk[x]
    BY <1>0, <1>10 DEF State, Disk, b
  <2>2. OnlyHere(s, v, f, i, f)
    BY <2>1, <1>12 DEF OnlyHere
  <2>3. HeldElsewhere(s, v, f, i)
    BY <2>2, <1>0, <1>1, HoldsKept
  <2>4. \A x \in Word : Holds(v, f, i, x) = 0
    BY <1>11 DEF Holds
  <2> QED BY <2>3, <2>4 DEF Emptied, HeldElsewhere
<1> QED BY <1>6, <1>8, <1>13, <1>14, <1>15, <1>16 DEF Good

(* The last block goes and was in the indirect block, which stays.         *)
LEMMA TruncatedIndirect ==
  ASSUME NEW s, Good(s), NEW f \in File, NEW i \in Index, i >= NDIRECT,
         i = s.din[f].blocks - 1, Slot(s, f, i) # 0
  PROVE  Good(Truncated(s, f)) /\ Emptied(s, Truncated(s, f), f, i)
<1> DEFINE b == Slot(s, f, i)
           c == s.din[f].indirect
           w == i - NDIRECT
           t == BlockFree(s, b)
           u == Put(t, c, [t.disk[c] EXCEPT ![w] = 0])
           e == [s.din[f] EXCEPT !.blocks = i]
           v == Marked(u, f, e)
<1>0. s \in State /\ Owned(s) /\ Clean(s) /\ s.unused = Cardinality(s.freemap)
  BY DEF Good
<1>1. /\ i \in Place /\ i # -1 /\ i \in 0..(NDIRECT + BLKSIZE) /\ w \in Word
      /\ ~(i < NDIRECT)
  <2>1. i \in Nat /\ i # -1 /\ w \in Word /\ NDIRECT \in Nat
    BY Places
  <2>2. i \in 0..(NDIRECT + BLKSIZE)
    BY SfsAssumption DEF Index
  <2> QED BY <2>1, <2>2 DEF Place
<1>2. b = Bmap(s, f, i) /\ b \in Block /\ b \notin s.freemap /\ b # 0
  <2>1. b = Bmap(s, f, i)
    BY SlotIs
  <2>2. b \in 0..Blocks /\ b # 0 /\ b \notin s.freemap
    BY <1>0, <1>1 DEF Owned
  <2> QED BY <2>1, <2>2, Places
<1>3. c # 0 /\ c \in Block /\ Slot(s, f, -1) = c /\ -1 \in Place /\ b # c
  <2>1. c # 0
    BY <1>2, SlotIs
  <2>2. c \in Block /\ Slot(s, f, -1) = c /\ -1 \in Place
    BY <2>1, <1>0, IndirectIs
  <2> QED BY <2>1, <2>2, <1>0, <1>1 DEF Owned
<1>4. /\ t \in State /\ t.freemap = s.freemap \cup {b} /\ t.unused = s.unused + 1
      /\ t.disk = [s.disk EXCEPT ![b] = Junk] /\ t.din = s.din /\ t.stored = s.stored
  BY <1>0, <1>2, FreeIs
<1>5. e \in Inode /\ e.indirect = c /\ e.direct = s.din[f].direct
  BY <1>0, <1>1, InodeIs, InodeSet
<1>a. b = Slot(s, f, i) /\ c = s.din[f].indirect
  OBVIOUS
<1> HIDE DEF b, c, t, e
<1>7. t.disk[c] = s.disk[c] /\ s.disk[c] \in [Word -> File \cup Int]
  BY <1>0, <1>3, <1>4 DEF State, Disk
<1>8. [t.disk[c] EXCEPT ![w] = 0] \in [Word -> File \cup Int]
  BY <1>1, <1>7
<1>9. /\ u \in State /\ u.freemap = t.freemap /\ u.unused = t.unused
      /\ u.disk = [t.disk EXCEPT ![c] = [t.disk[c] EXCEPT ![w] = 0]]
      /\ u.din = t.din /\ u.stored = t.stored
  BY <1>3, <1>4, <1>8, PutIs
<1>6. Truncated(s, f) = v
  <2>1. Truncated(s, f) = [[t EXCEPT !.disk[c][w] = 0] EXCEPT !.din[f].blocks = i, !.stored[f] = Dirty]
    BY <1>1, <1>2 DEF Truncated, b, c, t
  <2>2. [t EXCEPT !.disk[c][w] = 0] = u
    BY DEF Put
  <2>3. u.din = s.din
    BY <1>4, <1>9
  <2> HIDE DEF u
  <2>4. [u EXCEPT !.din[f].blocks = i, !.stored[f] = Dirty] = v
    BY <2>3 DEF Marked, e
  <2> QED BY <2>1, <2>2, <2>4
<1> HIDE DEF u
<1>10. /\ v \in State /\ v.freemap = u.freemap /\ v.unused = u.unused
       /\ v.disk = u.disk /\ v.din = [u.din EXCEPT ![f] = e]
       /\ v.stored = [u.stored EXCEPT ![f] = Dirty]
  BY <1>5, <1>9, MarkedIs
<1> HIDE DEF v
<1>11. \A g \in File : v.din[g].direct = s.din[g].direct /\ v.din[g].indirect = s.din[g].indirect
  <2>1. v.din[f] = e /\ \A g \in File \ {f} : v.din[g] = s.din[g]
    BY <1>0, <1>4, <1>9, <1>10 DEF State, Inodes
  <2> QED BY <2>1, <1>5, <1>a
<1>12. /\ v.freemap = s.freemap \cup {b} /\ v.unused = s.unused + 1
       /\ v.stored = [s.stored EXCEPT ![f] = Dirty]
       /\ v.disk[c] = [s.disk[c] EXCEPT ![w] = 0]
       /\ \A x \in Block \ {b, c} : v.disk[x] = s.disk[x]
  <2>1. v.disk[c] = [s.disk[c] EXCEPT ![w] = 0]
    BY <1>3, <1>4, <1>7, <1>9, <1>10 DEF State, Disk
  <2>2. ASSUME NEW x \in Block \ {b, c} PROVE v.disk[x] = s.disk[x]
    <3>1. t.disk[x] = s.disk[x]
      BY <1>0, <1>4 DEF State, Disk
    <3>2. u.disk[x] = t.disk[x]
      <4>1. t.disk \in [Block -> [Word -> File \cup Int]]
        BY <1>4 DEF State, Disk
      <4>2. \A y : [t.disk EXCEPT ![c] = y][x] = t.disk[x]
        BY <4>1
      <4> QED BY <4>2, <1>9
    <3> QED BY <3>1, <3>2, <1>10
  <2> QED BY <2>1, <2>2, <1>4, <1>9, <1>10
<1>13. Slot(v, f, i) = 0
  <2>1. v.din[f].indirect = c /\ c # 0
    BY <1>3, <1>11, <1>a
  <2>2. Slot(v, f, i) = v.disk[v.din[f].indirect][i - NDIRECT]
    BY <2>1, SlotIs
  <2> QED BY <2>1, <2>2, <1>1, <1>7, <1>12
<1>14. ASSUME NEW g \in File, NEW k \in Place, <<g, k>> # <<f, i>>
       PROVE  Slot(v, g, k) = Slot(s, g, k)
  <2>1. Slot(s, g, -1) = s.din[g].indirect
    BY <1>0, IndirectIs
  <2>2. s.din[g].indirect # b
    BY <2>1, <1>a, <1>0, <1>1, <1>2, <1>3 DEF Owned
  <2>3. CASE g # f
    <3>1. s.din[g].indirect # c
      BY <2>1, <2>3, <1>0, <1>3 DEF Owned
    <3>2. s.din[g].indirect # 0 => s.din[g].indirect \in Block
      BY <1>0, IndirectIs
    <3>3. s.din[g].indirect # 0 =>
            \A n : v.disk[s.din[g].indirect][n] = s.disk[s.din[g].indirect][n]
      BY <3>1, <3>2, <2>2, <1>12
    <3> QED BY <3>3, <1>11, SlotFrame
  <2>4. CASE g = f
    <3>1. ASSUME k \in Index, k >= NDIRECT
          PROVE  v.disk[c][k - NDIRECT] = s.disk[c][k - NDIRECT]
      <4>1. k # i /\ k - NDIRECT # w /\ k - NDIRECT \in Word
        <5>1. k # i
          BY <2>4, <1>14
        <5>2. k \in Int /\ i \in Int /\ NDIRECT \in Int /\ k - NDIRECT \in Word
          BY <3>1, Places
        <5>3. \A x, y, n \in Int : x # y => x - n # y - n
          OBVIOUS
        <5> QED BY <5>1, <5>2, <5>3
      <4> HIDE DEF w
      <4> QED BY <4>1, <1>1, <1>7, <1>12
    <3>2. /\ v.din[g].indirect = s.din[g].indirect /\ v.din[g].direct = s.din[g].direct
          /\ s.din[g].indirect = c
      BY <2>4, <1>11, <1>a
    <3> QED BY <3>1, <3>2, SlotFrame
  <2> QED BY <2>3, <2>4
<1>15. Owned(v)
  BY <1>0, <1>1, <1>12, <1>13, <1>14, <1>a, Lost DEF State, Maps
<1>16. Clean(v)
  BY <1>0, <1>10, <1>11, <1>12 DEF Clean, State, Stores
<1>17. v.unused = Cardinality(v.freemap)
  BY <1>0, <1>2, <1>12, Counting DEF State, Maps
<1>18. Emptied(s, v, f, i)
  <2>1. \A x \in Block \ s.freemap :
          x # Slot(s, f, i) /\ x # s.din[f].indirect => v.disk[x] = s.disk[x]
    BY <1>12, <1>a
  <2>2. OnlyHere(s, v, f, i, f)
    BY <2>1, <1>14 DEF OnlyHere
  <2>3. HeldElsewhere(s, v, f, i)
    BY <2>2, <1>0, <1>1, HoldsKept
  <2>4. \A x \in Word : Holds(v, f, i, x) = 0
    BY <1>13 DEF Holds
  <2> QED BY <2>3, <2>4 DEF Emptied, HeldElsewhere
<1> QED BY <1>6, <1>10, <1>15, <1>16, <1>17, <1>18 DEF Good

(* sfs_bmap_truncate_nolock.                                               *)
LEMMA TruncatedGood ==
  ASSUME NEW s, Good(s), NEW f \in File, s.din[f].blocks > 0
  PROVE  /\ Good(Truncated(s, f)) /\ Emptied(s, Truncated(s, f), f, s.din[f].blocks - 1)
<1> DEFINE i == s.din[f].blocks - 1
<1>0. s \in State
  BY DEF Good
<1>1. i \in Index
  BY <1>0, InodeIs, SfsAssumption DEF Index
<1>2. Slot(s, f, i) = Bmap(s, f, i)
  BY <1>1, SlotIs
<1>3. CASE Slot(s, f, i) = 0
  <2> DEFINE e == [s.din[f] EXCEPT !.blocks = i]
  <2>1. Truncated(s, f) = Marked(s, f, e)
    BY <1>2, <1>3 DEF Truncated, Marked
  <2>2. i \in 0..(NDIRECT + BLKSIZE)
    BY <1>1, Places DEF Index
  <2>3. e \in Inode /\ e.indirect = s.din[f].indirect /\ e.direct = s.din[f].direct
    BY <1>0, <2>2, InodeIs, InodeSet
  <2> HIDE DEF e
  <2>4. Good(Truncated(s, f)) /\ Same(s, Truncated(s, f))
    BY <2>1, <2>3, InodeKept
  <2> QED BY <2>4, <1>3 DEF Same, Emptied, Holds
<1>4. CASE Slot(s, f, i) # 0 /\ i < NDIRECT
  <2> HIDE DEF i
  <2> QED BY <1>1, <1>4, TruncatedDirect DEF i
<1>5. CASE Slot(s, f, i) # 0 /\ i >= NDIRECT
  <2> HIDE DEF i
  <2> QED BY <1>1, <1>5, TruncatedIndirect DEF i
<1>6. i \in Int /\ NDIRECT \in Int
  BY <1>0, InodeIs, Places
<1> QED BY <1>3, <1>4, <1>5, <1>6

(* Writing data to a block of a file leaves the indirect blocks alone.     *)
LEMMA WrittenGood ==
  ASSUME NEW s, Good(s), NEW f \in File, NEW i \in Index, Slot(s, f, i) \in Block,
         NEW v \in [Word -> File \cup Int]
  PROVE  /\ Good(Put(s, Slot(s, f, i), v))
         /\ \A g \in File, k \in Index, w \in Word :
              Holds(Put(s, Slot(s, f, i), v), g, k, w) =
                IF <<g, k>> = <<f, i>> THEN v[w] ELSE Holds(s, g, k, w)
<1> DEFINE b == Slot(s, f, i)
           t == Put(s, b, v)
<1>0. s \in State /\ Owned(s) /\ Clean(s) /\ s.unused = Cardinality(s.freemap)
  BY DEF Good
<1>1. b \in Block /\ b # 0 /\ b = Slot(s, f, i) /\ i \in Place /\ i # -1 /\ -1 \in Place
  BY Places DEF Place
<1> HIDE DEF b
<1>2. /\ t \in State /\ t.freemap = s.freemap /\ t.unused = s.unused
      /\ t.disk = [s.disk EXCEPT ![b] = v] /\ t.din = s.din /\ t.stored = s.stored
  BY <1>0, <1>1, PutIs
<1> HIDE DEF t
<1>3. ASSUME NEW g \in File, NEW k \in Place
      PROVE  Slot(t, g, k) = Slot(s, g, k)
  <2>1. Slot(s, g, -1) = s.din[g].indirect
    BY SlotIs
  <2>2. s.din[g].indirect # b
    BY <2>1, <1>0, <1>1 DEF Owned
  <2>3. t.disk[s.din[g].indirect] = s.disk[s.din[g].indirect]
    BY <2>2, <1>0, <1>2 DEF State, Disk
  <2>4. t.din[g] = s.din[g]
    BY <1>2
  <2> QED BY <2>3, <2>4, SlotFrame
<1>4. Owned(t)
  BY <1>0, <1>2, <1>3, Unmoved
<1>5. Clean(t)
  BY <1>0, <1>2 DEF Clean
<1>6. Good(t)
  BY <1>0, <1>2, <1>4, <1>5 DEF Good
<1>7. ASSUME NEW g \in File, NEW k \in Index, NEW w \in Word
      PROVE  Holds(t, g, k, w) = IF <<g, k>> = <<f, i>> THEN v[w] ELSE Holds(s, g, k, w)
  <2>1. t.disk[b] = v /\ \A x \in Block : x # b => t.disk[x] = s.disk[x]
    BY <1>0, <1>1, <1>2 DEF State, Disk
  <2>2. Holds(t, f, i, w) = v[w]
    BY <2>1, <1>1, <1>3 DEF Holds
  <2>3. <<g, k>> # <<f, i>> => Holds(t, g, k, w) = Holds(s, g, k, w)
    <3>1. OnlyHere(s, t, f, i, f)
      BY <2>1, <1>1, <1>3 DEF OnlyHere
    <3>2. HeldElsewhere(s, t, f, i)
      BY <3>1, <1>0, <1>1, HoldsKept
    <3> QED BY <3>2 DEF HeldElsewhere
  <2> QED BY <2>2, <2>3
<1> QED BY <1>6, <1>7 DEF t, b

(* The last close writes a dirty inode, or gives it up for what is on the  *)
(* disk.                                                                   *)
LEMMA ClosedGood ==
  ASSUME NEW s, Good(s), NEW f \in File
  PROVE  /\ s.stored[f] = Dirty =>
              Good([s EXCEPT !.stored[f] = s.din[f]]) /\ Same(s, [s EXCEPT !.stored[f] = s.din[f]])
         /\ s.stored[f] # Dirty =>
              Good([s EXCEPT !.din[f] = s.stored[f]]) /\ Same(s, [s EXCEPT !.din[f] = s.stored[f]])
<1>0. s \in State /\ Owned(s) /\ Clean(s) /\ s.unused = Cardinality(s.freemap)
  BY DEF Good
<1>1. Good([s EXCEPT !.stored[f] = s.din[f]]) /\ Same(s, [s EXCEPT !.stored[f] = s.din[f]])
  <2> DEFINE t == [s EXCEPT !.stored[f] = s.din[f]]
  <2>1. [s.stored EXCEPT ![f] = s.din[f]] \in Stores
    BY <1>0 DEF State, Stores, Inodes
  <2>2. /\ t \in State /\ t.freemap = s.freemap /\ t.unused = s.unused /\ t.disk = s.disk
        /\ t.din = s.din /\ t.stored = [s.stored EXCEPT ![f] = s.din[f]]
    BY <2>1, <1>0, FieldSet DEF State
  <2> HIDE DEF t
  <2>3. ASSUME NEW g \in File, NEW k \in Place
        PROVE  Slot(t, g, k) = Slot(s, g, k)
    <3>1. t.din[g] = s.din[g] /\ \A b, n : t.disk[b][n] = s.disk[b][n]
      BY <2>2
    <3> QED BY <3>1, SlotFrame
  <2>4. Owned(t)
    BY <1>0, <2>2, <2>3, Unmoved
  <2>5. Clean(t)
    BY <1>0, <2>2 DEF Clean, State, Stores
  <2>6. Good(t)
    BY <1>0, <2>2, <2>4, <2>5 DEF Good
  <2>7. Same(s, t)
    BY <1>0, <2>2, <2>3, AllKept DEF Place
  <2> QED BY <2>6, <2>7 DEF t
<1>2. ASSUME s.stored[f] # Dirty
      PROVE  Good([s EXCEPT !.din[f] = s.stored[f]]) /\ Same(s, [s EXCEPT !.din[f] = s.stored[f]])
  <2>1. s.stored[f] \in Inode
    BY <1>0, <1>2 DEF State, Stores
  <2>2. s.stored[f].direct = s.din[f].direct /\ s.stored[f].indirect = s.din[f].indirect
    BY <1>0, <1>2 DEF Clean
  <2> QED BY <2>1, <2>2, InodeKept
<1> QED BY <1>1, <1>2

(* The size of a file changes.                                             *)
LEMMA SizedGood ==
  ASSUME NEW s, Good(s), NEW f \in File, NEW n \in Nat
  PROVE  /\ Good([s EXCEPT !.din[f].size = n, !.stored[f] = Dirty])
         /\ Same(s, [s EXCEPT !.din[f].size = n, !.stored[f] = Dirty])
<1> DEFINE d == [s.din[f] EXCEPT !.size = n]
<1>1. s.din[f] \in Inode
  BY InodeIs DEF Good
<1>2. d \in Inode /\ d.direct = s.din[f].direct /\ d.indirect = s.din[f].indirect
  BY <1>1, InodeSet
<1>3. [s EXCEPT !.din[f].size = n, !.stored[f] = Dirty] = Marked(s, f, d)
  BY DEF Marked
<1> HIDE DEF d
<1>4. Good(Marked(s, f, d)) /\ Same(s, Marked(s, f, d))
  BY <1>2, InodeKept
<1> QED BY <1>3, <1>4

-----------------------------------------------------------------------------
(* The system calls in progress.                                           *)
TruncateOp == [call : {"truncate"}, fd : OpenFile, node : File, len : Nat]

IoOp ==
  [call : {"read", "write"}, fd : OpenFile, node : File, offset : Nat, left : Nat, alen : Nat]

(* An open file has a node and a position.                                 *)
Positions == [OpenFile -> [node : File \cup {{}}, pos : Nat]]

(* A read or a write is one of an open file.                               *)
CallsOK ==
  /\ open \in Positions
  /\ \A d \in OpenFile : open[d] # Closed => open[d].node \in File
  /\ op \in {None} \cup TruncateOp \cup IoOp
  /\ op \in IoOp => open[op.fd] # Closed

(* The inductive invariant.                                                *)
SfsInv == Good(sfs) /\ CallsOK

(* A new file system.                                                      *)
LEMMA InitGood == Init => SfsInv
<1> SUFFICES ASSUME Init PROVE SfsInv
  OBVIOUS
<1>1. /\ sfs.freemap = Block /\ sfs.unused = Blocks /\ sfs.disk = [b \in Block |-> Junk]
      /\ sfs.din = [f \in File |-> Empty] /\ sfs.stored = [f \in File |-> Empty]
  BY DEF Init
<1>2. Empty \in Inode /\ Empty.indirect = 0 /\ \A i \in 0..(NDIRECT - 1) : Empty.direct[i] = 0
  BY SfsAssumption DEF Empty, Inode
<1>3. Junk \in [Word -> File \cup Int]
  BY DEF Junk
<1>4. sfs \in State
  <2>1. Block \in Maps /\ Blocks \in Int
    BY SfsAssumption DEF Maps
  <2>2. [b \in Block |-> Junk] \in Disk
    BY <1>3 DEF Disk
  <2>3. [f \in File |-> Empty] \in Inodes /\ [f \in File |-> Empty] \in Stores
    BY <1>2 DEF Inodes, Stores
  <2> QED BY <2>1, <2>2, <2>3 DEF Init, State
<1>5. ASSUME NEW f \in File, NEW i \in Place
      PROVE  Slot(sfs, f, i) = 0
  <2>1. sfs.din[f] = Empty
    BY <1>1
  <2>2. i = -1 \/ (i \in Index /\ i \in Int /\ NDIRECT \in Int)
    BY Places DEF Place
  <2>3. CASE i = -1
    BY <2>1, <2>3, <1>2, SlotIs
  <2>4. CASE i \in Index /\ i < NDIRECT
    BY <2>1, <2>4, <1>2, SlotIs, Places
  <2>5. CASE i \in Index /\ i >= NDIRECT
    BY <2>1, <2>5, <1>2, SlotIs
  <2> QED BY <2>2, <2>3, <2>4, <2>5
<1>6. Owned(sfs)
  BY <1>1, <1>5, Places DEF Owned
<1>7. Clean(sfs)
  BY <1>1 DEF Clean
<1>8. sfs.unused = Cardinality(sfs.freemap)
  BY <1>1, FS_Interval, SfsAssumption DEF Block
<1>9. CallsOK
  <2>1. op = None /\ op \notin IoOp
    BY DEF Init, None, IoOp
  <2>2. open = [d \in OpenFile |-> Closed]
    BY DEF Init
  <2>3. Closed \in [node : File \cup {{}}, pos : Nat]
    BY DEF Closed
  <2> QED BY <2>1, <2>2, <2>3 DEF CallsOK, Positions
<1> QED BY <1>4, <1>6, <1>7, <1>8, <1>9 DEF SfsInv, Good

(* The smaller one of two numbers.                                         *)
LEMMA Min2 ==
  ASSUME NEW a \in Int, NEW b \in Int
  PROVE  Min({a, b}) = IF a <= b THEN a ELSE b
<1>1. \E x \in {a, b} : \A y \in {a, b} : x <= y
  OBVIOUS
<1>2. Min({a, b}) \in {a, b} /\ \A y \in {a, b} : Min({a, b}) <= y
  BY <1>1 DEF Min
<1> QED BY <1>2

(* The block of sfs_io_nolock has a number, and what is left never goes    *)
(* below 0.                                                                *)
LEMMA IoIs ==
  ASSUME op \in IoOp, op.left > 0
  PROVE  /\ op.offset \div BLKSIZE \in Nat
         /\ IoSize \in Nat
         /\ op.left - IoSize \in Nat
         /\ IoSize <= BLKSIZE - (op.offset % BLKSIZE)
         /\ op.offset % BLKSIZE = 0 /\ IoSize < BLKSIZE => IoSize = op.left
<1>1. op.offset \in Nat /\ op.left \in Nat /\ BLKSIZE \in Nat \ {0}
  BY SfsAssumption DEF IoOp
<1>2. op.offset \div BLKSIZE \in Nat /\ op.offset % BLKSIZE \in 0..(BLKSIZE - 1)
  <2> DEFINE o == op.offset
  <2> HIDE DEF o
  <2>1. o \in Nat
    BY <1>1 DEF o
  <2>2. o \div BLKSIZE \in Nat /\ o % BLKSIZE \in 0..(BLKSIZE - 1)
    BY <2>1, <1>1
  <2> QED BY <2>2 DEF o
<1>3. BLKSIZE - (op.offset % BLKSIZE) \in Nat
  BY <1>1, <1>2
<1>4. IoSize = IF BLKSIZE - (op.offset % BLKSIZE) <= op.left
               THEN BLKSIZE - (op.offset % BLKSIZE) ELSE op.left
  BY <1>1, <1>3, Min2 DEF IoSize
<1> QED BY <1>1, <1>2, <1>3, <1>4

(* What is known about the call in progress.                               *)
LEMMA CallIs ==
  ASSUME CallsOK
  PROVE  /\ op.call = "truncate" => op \in TruncateOp
         /\ op.call \in {"read", "write"} =>
              op \in IoOp /\ op.fd \in OpenFile /\ open[op.fd] # Closed
         /\ op \in TruncateOp => op.fd \in OpenFile /\ op.node \in File /\ op.len \in Nat
         /\ op \in TruncateOp => op \notin IoOp
         /\ None \notin IoOp /\ None.call = "none"
BY DEF CallsOK, TruncateOp, IoOp, None

(* Every step keeps the invariant.                                         *)
LEMMA NextGood == SfsInv /\ [Next]_vars => SfsInv'
<1> SUFFICES ASSUME SfsInv, [Next]_vars PROVE SfsInv'
  OBVIOUS
<1>0. Good(sfs) /\ CallsOK /\ sfs \in State
  BY DEF SfsInv, Good
<1>n. \A f \in File : sfs.din[f].size \in Nat /\ sfs.din[f].blocks \in Int
  BY <1>0, InodeIs
<1>p. open \in Positions /\ \A d \in OpenFile : open[d] # Closed => open[d].node \in File
  BY <1>0 DEF CallsOK
<1>c. /\ Closed \in [node : File \cup {{}}, pos : Nat]
      /\ \A f \in File, n \in Nat : [node |-> f, pos |-> n] \in [node : File \cup {{}}, pos : Nat]
  BY DEF Closed
<1>s. UNCHANGED sfs => Good(sfs)'
  BY <1>0
<1>o. ASSUME NEW d \in OpenFile, NEW f \in File, NEW n \in Nat,
             open' = [open EXCEPT ![d] = [node |-> f, pos |-> n]], op' = op \/ op' = None,
             op = None \/ op' = None
      PROVE  CallsOK'
  <2>1. open' \in Positions
    BY <1>o, <1>p, <1>c DEF Positions
  <2>2. \A e \in OpenFile : open'[e] # Closed => open'[e].node \in File
    BY <1>o, <1>p DEF Positions
  <2>3. op' = None
    BY <1>o
  <2> QED BY <2>1, <2>2, <2>3, <1>0, CallIs DEF CallsOK
<1>t. ASSUME NEW d \in OpenFile, NEW f \in File, NEW n \in Nat, Ready, Truncate(d, f, n)
      PROVE  SfsInv'
  <2>1. op = None
    BY <1>t DEF Ready
  <2>2. CASE sfs.din[f].size = n
    <3>1. /\ open' = [open EXCEPT ![d] = [node |-> f, pos |-> n]]
          /\ UNCHANGED <<sfs, op>>
      BY <2>2, <1>t DEF Truncate
    <3> QED BY <3>1, <2>1, <1>o, <1>s DEF SfsInv
  <2>3. CASE sfs.din[f].size # n
    <3>1. /\ op' = [call |-> "truncate", fd |-> d, node |-> f, len |-> n]
          /\ UNCHANGED <<sfs, open>>
      BY <2>3, <1>t DEF Truncate
    <3>2. op' \in TruncateOp /\ op' \notin IoOp
      BY <3>1 DEF TruncateOp, IoOp
    <3> QED BY <3>1, <3>2, <1>p, <1>s DEF SfsInv, CallsOK
  <2> QED BY <2>2, <2>3
<1>1. ASSUME NEW d \in OpenFile, NEW f \in File, Open(d, f) PROVE SfsInv'
  <2>1. PICK n \in {0, sfs.din[f].size} : open' = [open EXCEPT ![d] = [node |-> f, pos |-> n]]
    BY <1>1 DEF Open
  <2>2. n \in Nat /\ UNCHANGED <<sfs, op>> /\ op = None
    BY <1>1, <1>n DEF Open, Ready
  <2> QED BY <2>1, <2>2, <1>o, <1>s DEF SfsInv
<1>2. ASSUME NEW d \in OpenFile, NEW f \in File, OpenTrunc(d, f) PROVE SfsInv'
  BY <1>2, <1>t DEF OpenTrunc
<1>3. ASSUME NEW d \in OpenFile, Close(d) PROVE SfsInv'
  <2>1. /\ op = None /\ open[d] # Closed /\ UNCHANGED op
        /\ open' = [open EXCEPT ![d] = Closed]
    BY <1>3 DEF Close, Ready
  <2>2. open[d].node \in File
    BY <2>1, <1>p
  <2>3. PICK f \in File : f = open[d].node
    BY <2>2
  <2>4. Good(sfs)'
    <3>1. \/ UNCHANGED sfs
          \/ /\ sfs.stored[f] = Dirty
             /\ sfs' = [sfs EXCEPT !.stored[f] = sfs.din[f]]
          \/ /\ sfs.stored[f] # Dirty
             /\ sfs' = [sfs EXCEPT !.din[f] = sfs.stored[f]]
      BY <2>3, <1>3 DEF Close
    <3>2. /\ sfs.stored[f] = Dirty => Good([sfs EXCEPT !.stored[f] = sfs.din[f]])
          /\ sfs.stored[f] # Dirty => Good([sfs EXCEPT !.din[f] = sfs.stored[f]])
      BY <1>0, ClosedGood
    <3> QED BY <3>1, <3>2, <1>0
  <2>5. open' \in Positions /\ \A e \in OpenFile : open'[e] # Closed => open'[e].node \in File
    BY <2>1, <1>p, <1>c DEF Positions
  <2> QED BY <2>1, <2>4, <2>5, <1>0, CallIs DEF SfsInv, CallsOK
<1>4. ASSUME NEW d \in OpenFile, NEW n \in 0..MaxPos, Seek(d, n) PROVE SfsInv'
  <2>1. n \in Nat /\ Ready /\ op = None /\ open[d] # Closed /\ open[d].node \in File
    BY <1>4, <1>p, SfsAssumption DEF Seek, Ready
  <2>2. PICK f \in File : f = open[d].node
    BY <2>1
  <2>3. CASE n > sfs.din[f].size
    <3>1. Truncate(d, f, n)
      BY <2>2, <2>3, <1>4 DEF Seek
    <3> QED BY <3>1, <2>1, <1>t
  <2>4. CASE ~(n > sfs.din[f].size)
    <3>1. open' = [open EXCEPT ![d].pos = n] /\ UNCHANGED <<sfs, op, ok>>
      BY <2>2, <2>4, <1>4 DEF Seek
    <3>2. open' \in Positions
      BY <3>1, <2>1, <1>p DEF Positions
    <3>3. open'[d].node = open[d].node /\ \A e \in OpenFile \ {d} : open'[e] = open[e]
      BY <3>1, <1>p DEF Positions
    <3> QED BY <3>1, <3>2, <3>3, <2>1, <1>0, <1>p, <1>s, CallIs DEF SfsInv, CallsOK
  <2> QED BY <2>3, <2>4
<1>5. ASSUME NEW d \in OpenFile, NEW n \in 1..BLKSIZE, NEW call \in {"read", "write"}, Io(call, d, n)
      PROVE  SfsInv'
  <2>1. n \in Nat /\ op = None /\ open[d] # Closed /\ open[d].node \in File
        /\ open[d].pos \in Nat /\ UNCHANGED <<sfs, open, ok>>
    BY <1>5, <1>p, SfsAssumption DEF Io, Ready, Positions
  <2>2. PICK end : /\ open[d].pos < end
                   /\ op' = [call |-> call, fd |-> d, node |-> open[d].node,
                             offset |-> open[d].pos, left |-> end - open[d].pos, alen |-> 0]
                   /\ end = IF call = "write" THEN open[d].pos + n
                            ELSE Min({open[d].pos + n, sfs.din[open[d].node].size})
    BY <1>5 DEF Io
  <2>3. end \in Int
    <3>1. open[d].pos + n \in Int /\ sfs.din[open[d].node].size \in Int
      BY <2>1, <1>n
    <3>2. Min({open[d].pos + n, sfs.din[open[d].node].size}) \in Int
      BY <3>1, Min2
    <3> QED BY <3>1, <3>2, <2>2
  <2>4. end - open[d].pos \in Nat
    BY <2>1, <2>2, <2>3
  <2>5. op' \in IoOp
    BY <2>1, <2>2, <2>4 DEF IoOp
  <2> QED BY <2>1, <2>2, <2>5, <1>p, <1>s DEF SfsInv, CallsOK
<1>6. ASSUME Enlarge PROVE SfsInv'
  <2>1. op \in TruncateOp /\ op.node \in File /\ UNCHANGED open /\ op \notin IoOp
    BY <1>6, <1>0, CallIs DEF Enlarge
  <2>2. PICK f \in File : f = op.node
    BY <2>1
  <2>3. PICK i \in Nat : i = sfs.din[f].blocks
    BY <1>0, InodeIs
  <2>4. /\ ok' = LoadAsserts(sfs, f, i)
        /\ IF LoadFails(sfs, f, i)
           THEN sfs' = CleanedUp(sfs, f, i) /\ op' = None
           ELSE sfs' = (IF ok' THEN Loaded(sfs, f, i) ELSE sfs) /\ UNCHANGED op
    BY <1>6, <2>2, <2>3 DEF Enlarge
  <2>5. Good(sfs)'
    <3>1. CASE LoadFails(sfs, f, i)
      BY <3>1, <2>4, <1>0, CleanedUpGood
    <3>2. CASE ~LoadFails(sfs, f, i) /\ LoadAsserts(sfs, f, i)
      BY <3>2, <2>4, <1>0, LoadedGood
    <3>3. CASE ~LoadFails(sfs, f, i) /\ ~LoadAsserts(sfs, f, i)
      BY <3>3, <2>4, <1>0
    <3> QED BY <3>1, <3>2, <3>3
  <2>6. op' = op \/ op' = None
    BY <2>4
  <2> QED BY <2>1, <2>5, <2>6, <1>0, CallIs DEF SfsInv, CallsOK, Positions
<1>7. ASSUME Reduce PROVE SfsInv'
  <2>1. op \in TruncateOp /\ op.node \in File /\ op.len \in Nat /\ UNCHANGED <<open, op>>
    BY <1>7, <1>0, CallIs DEF Reduce
  <2>2. PICK f \in File : f = op.node
    BY <2>1
  <2>3. RoundUpDiv(op.len) \in Nat
    <3> DEFINE n == op.len + BLKSIZE - 1
    <3>1. n \in Nat /\ BLKSIZE \in Nat \ {0}
      BY <2>1, SfsAssumption
    <3> HIDE DEF n
    <3>2. n \div BLKSIZE \in Nat
      BY <3>1
    <3> QED BY <3>2 DEF RoundUpDiv, n
  <2>4. sfs' = Truncated(sfs, f) /\ sfs.din[f].blocks > 0
    BY <1>7, <1>n, <2>2, <2>3 DEF Reduce
  <2>5. Good(sfs)'
    BY <2>4, <1>0, TruncatedGood
  <2> QED BY <2>1, <2>5, <1>0 DEF SfsInv, CallsOK, Positions
<1>8. ASSUME Resized PROVE SfsInv'
  <2>1. op \in TruncateOp /\ op.fd \in OpenFile /\ op.node \in File /\ op.len \in Nat
    BY <1>8, <1>0, CallIs DEF Resized
  <2>2. PICK f \in File, n \in Nat, d \in OpenFile : f = op.node /\ n = op.len /\ d = op.fd
    BY <2>1
  <2>3. /\ sfs' = [sfs EXCEPT !.din[f].size = n, !.stored[f] = Dirty]
        /\ open' = [open EXCEPT ![d] = [node |-> f, pos |-> n]]
        /\ op' = None
    BY <1>8, <2>2 DEF Resized
  <2>4. Good(sfs)'
    BY <2>3, <1>0, SizedGood
  <2>5. CallsOK'
    BY <2>3, <1>o
  <2> QED BY <2>4, <2>5 DEF SfsInv
<1>9. ASSUME IoBlock PROVE SfsInv'
  <2>1. op \in IoOp /\ op.fd \in OpenFile /\ open[op.fd] # Closed /\ op.left > 0 /\ UNCHANGED open
    BY <1>9, <1>0, CallIs DEF IoBlock, IoCall
  <2>2. PICK f \in File, i \in Nat : f = op.node /\ i = op.offset \div BLKSIZE
    BY <2>1, IoIs DEF IoOp
  <2> DEFINE s == Loaded(sfs, f, i)
             off == op.offset % BLKSIZE
  <2>3. /\ LoadAsserts(sfs, f, i) /\ ~LoadFails(sfs, f, i)
        /\ sfs' = IF op.call = "read" THEN s
                  ELSE [s EXCEPT !.disk[Bmap(s, f, i)] =
                          [w \in Word |-> IF w \in off..(off + IoSize - 1) THEN f ELSE @[w]]]
        /\ op' = [op EXCEPT !.alen = @ + IoSize, !.left = @ - IoSize,
                             !.offset = IF off = 0 /\ IoSize < BLKSIZE THEN @
                                        ELSE @ + IoSize]
    BY <1>9, <2>2 DEF IoBlock
  <2>4. Good(s) /\ i \in Index /\ Slot(s, f, i) \in Block /\ Slot(s, f, i) = Bmap(s, f, i)
    BY <2>3, <1>0, LoadedGood, SlotIs
  <2>5. Good(sfs)'
    <3> DEFINE b == Slot(s, f, i)
               v == [w \in Word |-> IF w \in off..(off + IoSize - 1) THEN f ELSE s.disk[b][w]]
    <3>1. v \in [Word -> File \cup Int]
      <4>1. s.disk[b] \in [Word -> File \cup Int]
        BY <2>4 DEF Good, State, Disk
      <4> HIDE DEF s, b
      <4> QED BY <4>1
    <3>2. Good(Put(s, b, v))
      <4> HIDE DEF s, v
      <4> QED BY <3>1, <2>4, WrittenGood
    <3>3. sfs' = s \/ sfs' = Put(s, b, v)
      BY <2>3, <2>4 DEF Put
    <3> HIDE DEF s, v, b
    <3> QED BY <3>2, <3>3, <2>4
  <2>6. op' \in IoOp /\ op'.fd = op.fd
    <3>1. IoSize \in Nat /\ op.left - IoSize \in Nat
      BY <2>1, IoIs
    <3>2. op.alen + IoSize \in Nat /\ op.offset + IoSize \in Nat /\ op.offset \in Nat
      BY <3>1, <2>1 DEF IoOp
    <3> HIDE DEF off
    <3> QED BY <3>1, <3>2, <2>1, <2>3 DEF IoOp
  <2> QED BY <2>1, <2>5, <2>6, <1>0 DEF SfsInv, CallsOK, Positions
<1>10. ASSUME IoStops PROVE SfsInv'
  <2>1. op \in IoOp /\ op.fd \in OpenFile /\ open[op.fd] # Closed /\ op.left > 0 /\ UNCHANGED open
    BY <1>10, <1>0, CallIs DEF IoStops, IoCall
  <2>2. PICK f \in File, i \in Nat : f = op.node /\ i = op.offset \div BLKSIZE
    BY <2>1, IoIs DEF IoOp
  <2>3. \/ sfs' = CleanedUp(sfs, f, i) /\ op' = [op EXCEPT !.left = 0]
        \/ UNCHANGED <<sfs, op>>
    BY <1>10, <2>2 DEF IoStops
  <2>4. Good(sfs)'
    BY <2>3, <1>0, CleanedUpGood
  <2>5. op' \in IoOp /\ op'.fd = op.fd
    BY <2>1, <2>3 DEF IoOp
  <2> QED BY <2>1, <2>4, <2>5, <1>0 DEF SfsInv, CallsOK, Positions
<1>11. ASSUME IoOut PROVE SfsInv'
  <2>1. op \in IoOp /\ op.fd \in OpenFile /\ open[op.fd] # Closed /\ op' = None
    BY <1>11, <1>0, CallIs DEF IoOut
  <2>2. PICK f \in File, d \in OpenFile, n \in Nat, m \in Nat :
          f = op.node /\ d = op.fd /\ n = op.offset + op.alen /\ m = op.alen
    BY <2>1 DEF IoOp
  <2>3. /\ \/ sfs' = [sfs EXCEPT !.din[f].size = n, !.stored[f] = Dirty]
           \/ sfs' = sfs
        /\ open' = [open EXCEPT ![d].pos = @ + m]
    BY <1>11, <2>2 DEF IoOut
  <2>4. Good(sfs)'
    <3>1. Good([sfs EXCEPT !.din[f].size = n, !.stored[f] = Dirty])
      BY <1>0, SizedGood
    <3> QED BY <3>1, <2>3, <1>0
  <2>5. open' \in Positions
    BY <2>3, <1>p DEF Positions
  <2>6. open'[d].node = open[d].node /\ \A e \in OpenFile \ {d} : open'[e] = open[e]
    BY <2>3, <1>p DEF Positions
  <2>7. open[d].node \in File
    BY <2>1, <2>2, <1>p
  <2> QED BY <2>1, <2>4, <2>5, <2>6, <2>7, <1>p, CallIs, <1>0 DEF SfsInv, CallsOK
<1>12. CASE UNCHANGED vars
  BY <1>12, <1>0 DEF vars, SfsInv, CallsOK, Positions
<1> QED
  BY <1>1, <1>2, <1>3, <1>4, <1>5, <1>6, <1>7, <1>8, <1>9, <1>10, <1>11, <1>12
  DEF Next, Panicked

-----------------------------------------------------------------------------
(* Words and blocks: a number has one quotient and one rest.               *)
LEMMA DivIs ==
  ASSUME NEW a \in Nat
  PROVE  /\ a \div BLKSIZE \in Nat /\ a % BLKSIZE \in Word
         /\ a = BLKSIZE * (a \div BLKSIZE) + (a % BLKSIZE)
<1> DEFINE B == BLKSIZE
<1>1. B \in Nat \ {0} /\ B = BLKSIZE
  BY SfsAssumption
<1> HIDE DEF B
<1>2. a \div B \in Nat /\ a % B \in 0..(B - 1) /\ a = B * (a \div B) + (a % B)
  BY <1>1
<1> QED BY <1>1, <1>2 DEF Word

(* Multiplication keeps the order.                                         *)
LEMMA Product ==
  ASSUME NEW b \in Nat, NEW p \in Int, NEW q \in Int, p <= q
  PROVE  b * p <= b * q
<1>1. b * (q - p) >= 0
  BY Z3
<1>2. b * (q - p) = b * q - b * p
  BY Z3
<1> QED BY <1>1, <1>2

(* Whatever block and word number compose it, they are its quotient and    *)
(* rest.                                                                   *)
LEMMA DivUnique ==
  ASSUME NEW a \in Nat, NEW q \in Nat, NEW w \in Word, a = BLKSIZE * q + w
  PROVE  a \div BLKSIZE = q /\ a % BLKSIZE = w
<1> DEFINE p == a \div BLKSIZE
           v == a % BLKSIZE
<1>1. p \in Nat /\ v \in Word /\ a = BLKSIZE * p + v
  BY DivIs
<1> HIDE DEF p, v
<1>2. BLKSIZE \in Nat \ {0} /\ w \in 0..(BLKSIZE - 1) /\ v \in 0..(BLKSIZE - 1)
  BY <1>1, SfsAssumption DEF Word
<1>3. ASSUME NEW x \in Nat, NEW y \in Nat, NEW m \in 0..(BLKSIZE - 1), NEW n \in 0..(BLKSIZE - 1),
             BLKSIZE * x + m = BLKSIZE * y + n
      PROVE  x <= y
  <2> SUFFICES ASSUME y + 1 <= x PROVE FALSE
    OBVIOUS
  <2>1. BLKSIZE * (y + 1) <= BLKSIZE * x
    BY <1>2, Product
  <2>2. BLKSIZE * (y + 1) = BLKSIZE * y + BLKSIZE
    BY <1>2, Z3
  <2> QED BY <2>1, <2>2, <1>2, <1>3
<1>4. p <= q /\ q <= p
  BY <1>1, <1>2, <1>3
<1>5. p = q
  BY <1>1, <1>4
<1>6. v = w
  BY <1>1, <1>2, <1>5
<1> QED BY <1>5, <1>6 DEF p, v

(* The words of a file are what its places hold.                           *)
LEMMA ContentIs ==
  ASSUME NEW f \in File, NEW o \in Offset
  PROVE  /\ o \in Nat /\ o \div BLKSIZE \in Index /\ o % BLKSIZE \in Word
         /\ Content(f, o) = Holds(sfs, f, o \div BLKSIZE, o % BLKSIZE)
         /\ Content(f, o)' = Holds(sfs', f, o \div BLKSIZE, o % BLKSIZE)
<1> DEFINE q == o \div BLKSIZE
<1>1. /\ NDIRECT + BLKSIZE \in Nat /\ BLKSIZE \in Nat
      /\ (NDIRECT + BLKSIZE) * BLKSIZE = BLKSIZE * (NDIRECT + BLKSIZE)
      /\ BLKSIZE * (NDIRECT + BLKSIZE) \in Int
  BY SfsAssumption, Z3
<1>2. o \in Nat /\ o < BLKSIZE * (NDIRECT + BLKSIZE)
  BY <1>1 DEF Offset
<1>3. q \in Nat /\ o % BLKSIZE \in Word /\ o = BLKSIZE * q + (o % BLKSIZE) /\ o % BLKSIZE \in Nat
  BY <1>2, DivIs, SfsAssumption DEF Word
<1> HIDE DEF q
<1>4. q < NDIRECT + BLKSIZE
  <2> SUFFICES ASSUME NDIRECT + BLKSIZE <= q PROVE FALSE
    BY <1>1, <1>3
  <2>1. BLKSIZE * (NDIRECT + BLKSIZE) <= BLKSIZE * q
    BY <1>1, <1>3, Product
  <2>2. BLKSIZE * q \in Int
    BY <1>1, <1>3
  <2> QED BY <2>1, <2>2, <1>1, <1>2, <1>3
<1>5. q \in Index
  <2>1. q \in Nat /\ q < NDIRECT + BLKSIZE
    BY <1>3, <1>4
  <2> QED BY <2>1, SfsAssumption DEF Index
<1>6. Slot(sfs, f, q) = Bmap(sfs, f, q) /\ Slot(sfs', f, q) = Bmap(sfs', f, q)
  BY <1>5, SlotIs
<1>7. Content(f, o) = Holds(sfs, f, q, o % BLKSIZE)
  BY <1>6 DEF Content, Holds, q
<1>8. Content(f, o)' = Holds(sfs', f, q, o % BLKSIZE)
  BY <1>6 DEF Content, Holds, q
<1> QED BY <1>2, <1>3, <1>5, <1>7, <1>8 DEF q

-----------------------------------------------------------------------------
(* The inductive invariant holds.                                          *)
THEOREM SfsInvHolds == Spec => []SfsInv
<1>1. Init => SfsInv
  BY InitGood
<1>2. SfsInv /\ [Next]_vars => SfsInv'
  BY NextGood
<1> QED BY <1>1, <1>2, PTL DEF Spec

(* Every block is free or has one place in one file, and the superblock    *)
(* has the number of the free ones, in every state that system calls       *)
(* reach, those that ran out of blocks half-way included.                  *)
THEOREM BlocksOwnedHolds == Spec => []BlocksOwned
<1>1. SfsInv => BlocksOwned
  <2> SUFFICES ASSUME SfsInv PROVE BlocksOwned
    OBVIOUS
  <2>1. Good(sfs) /\ Owned(sfs) /\ sfs.unused = Cardinality(sfs.freemap)
    BY DEF SfsInv, Good
  <2>2. ASSUME NEW b \in Block, b \in sfs.freemap
        PROVE  Cardinality(Uses(b)) = 0
    <3>1. Uses(b) = {}
      BY <2>1, <2>2 DEF Uses, Owned
    <3> QED BY <3>1, FS_EmptySet
  <2>3. ASSUME NEW b \in Block, b \notin sfs.freemap
        PROVE  Cardinality(Uses(b)) = 1
    <3>1. PICK f \in File, i \in Place : Slot(sfs, f, i) = b
      BY <2>1, <2>3 DEF Owned
    <3>2. b # 0
      BY Places
    <3>3. ASSUME NEW g \in File, NEW j \in Place, Slot(sfs, g, j) = b
          PROVE  g = f /\ j = i
      BY <3>1, <3>2, <3>3, <2>1 DEF Owned
    <3>4. Uses(b) = {<<f, i>>}
      BY <3>1, <3>3 DEF Uses
    <3> QED BY <3>4, FS_Singleton
  <2> QED BY <2>1, <2>2, <2>3 DEF BlocksOwned
<1> QED BY <1>1, SfsInvHolds, PTL

-----------------------------------------------------------------------------
(* The offset of sfs_io_nolock and the position of the open file agree as  *)
(* long as there is something left to do.                                  *)
Aligned ==
  op \in IoOp /\ op.left > 0 => op.offset = open[op.fd].pos + op.alen

(* Every step keeps them together.                                         *)
LEMMA AlignedNext == SfsInv /\ Aligned /\ [Next]_vars => Aligned'
<1> SUFFICES ASSUME SfsInv, Aligned, [Next]_vars PROVE Aligned'
  OBVIOUS
<1>0. CallsOK /\ open \in Positions
  BY DEF SfsInv, CallsOK
<1>n. None \notin IoOp /\ \A d, f, n :
        [call |-> "truncate", fd |-> d, node |-> f, len |-> n] \notin IoOp
  BY DEF None, IoOp
<1>t. ASSUME NEW d \in OpenFile, NEW f, NEW n, Ready, Truncate(d, f, n)
      PROVE  op' \notin IoOp
  BY <1>t, <1>n DEF Ready, Truncate
<1>1. ASSUME NEW d \in OpenFile, NEW f \in File, Open(d, f) \/ OpenTrunc(d, f) PROVE Aligned'
  BY <1>1, <1>n, <1>t DEF Open, OpenTrunc, Ready, Aligned
<1>2. ASSUME NEW d \in OpenFile, NEW n, Close(d) \/ Seek(d, n) PROVE Aligned'
  <2>1. op' \notin IoOp
    BY <1>2, <1>n, <1>t DEF Close, Seek, Ready
  <2> QED BY <2>1 DEF Aligned
<1>3. ASSUME NEW d \in OpenFile, NEW n, NEW call, Io(call, d, n) PROVE Aligned'
  <2>1. /\ op'.offset = open[d].pos /\ op'.alen = 0 /\ op'.fd = d /\ open' = open
    BY <1>3 DEF Io
  <2>2. open[d].pos \in Nat
    BY <1>0 DEF Positions
  <2> QED BY <2>1, <2>2 DEF Aligned
<1>4. ASSUME Enlarge \/ Reduce \/ Resized PROVE Aligned'
  <2>1. op \in TruncateOp /\ op \notin IoOp
    BY <1>4, <1>0, CallIs DEF Enlarge, Reduce, Resized
  <2>2. op' = op \/ op' = None
    BY <1>4 DEF Enlarge, Reduce, Resized
  <2> QED BY <2>1, <2>2, <1>n DEF Aligned
<1>5. ASSUME IoBlock PROVE Aligned'
  <2>1. op \in IoOp /\ op.left > 0 /\ UNCHANGED open
    BY <1>5, <1>0, CallIs DEF IoBlock, IoCall
  <2>2. /\ op'.alen = op.alen + IoSize /\ op'.left = op.left - IoSize /\ op'.fd = op.fd
        /\ op'.offset = IF op.offset % BLKSIZE = 0 /\ IoSize < BLKSIZE THEN op.offset
                         ELSE op.offset + IoSize
    BY <1>5, <2>1 DEF IoBlock, IoOp
  <2>3. /\ IoSize \in Nat /\ op.left \in Nat /\ op.alen \in Nat /\ op.offset \in Nat
        /\ op.fd \in OpenFile
        /\ op.offset % BLKSIZE = 0 /\ IoSize < BLKSIZE => IoSize = op.left
    BY <2>1, IoIs DEF IoOp
  <2>4. open[op.fd].pos \in Nat /\ op.offset = open[op.fd].pos + op.alen
    BY <2>1, <2>3, <1>0 DEF Aligned, Positions
  <2>5. CASE op.offset % BLKSIZE = 0 /\ IoSize < BLKSIZE
    BY <2>2, <2>3, <2>5 DEF Aligned
  <2>6. CASE ~(op.offset % BLKSIZE = 0 /\ IoSize < BLKSIZE)
    <3>1. op'.offset = open[op.fd].pos + op'.alen
      BY <2>2, <2>3, <2>4, <2>6
    <3> QED BY <3>1, <2>1, <2>2 DEF Aligned
  <2> QED BY <2>5, <2>6
<1>6. ASSUME IoStops PROVE Aligned'
  <2>1. op \in IoOp /\ UNCHANGED open
    BY <1>6, <1>0, CallIs DEF IoStops, IoCall
  <2>2. op' = [op EXCEPT !.left = 0] \/ op' = op
    BY <1>6 DEF IoStops
  <2>3. op' = [op EXCEPT !.left = 0] => op'.left = 0
    BY <2>1 DEF IoOp
  <2> QED BY <2>1, <2>2, <2>3 DEF Aligned
<1>7. ASSUME IoOut PROVE Aligned'
  BY <1>7, <1>n DEF IoOut, Aligned
<1>8. CASE UNCHANGED vars
  BY <1>8 DEF vars, Aligned
<1> QED
  BY <1>1, <1>2, <1>3, <1>4, <1>5, <1>6, <1>7, <1>8 DEF Next, Panicked

(* The words that a call of write puts into a block are those between the  *)
(* position before and the position after it.                              *)
LEMMA WordsWritten ==
  ASSUME op \in IoOp, op.left > 0, NEW o \in Nat
  PROVE  o \in op.offset..(op.offset + IoSize - 1) <=>
           /\ o \div BLKSIZE = op.offset \div BLKSIZE
           /\ o % BLKSIZE \in (op.offset % BLKSIZE)..((op.offset % BLKSIZE) + IoSize - 1)
<1> DEFINE q == op.offset \div BLKSIZE
           v == op.offset % BLKSIZE
           p == o \div BLKSIZE
           w == o % BLKSIZE
<1>1. op.offset \in Nat /\ IoSize \in Nat /\ IoSize <= BLKSIZE - v /\ BLKSIZE \in Nat \ {0}
  BY IoIs, SfsAssumption DEF IoOp
<1>2. /\ q \in Nat /\ v \in Word /\ op.offset = BLKSIZE * q + v
      /\ p \in Nat /\ w \in Word /\ o = BLKSIZE * p + w
  BY <1>1, DivIs
<1>3. ASSUME o \in op.offset..(op.offset + IoSize - 1) PROVE p = q
  <2> DEFINE m == o - BLKSIZE * q
  <2>1. m \in Word /\ o = BLKSIZE * q + m
    <3> HIDE DEF q, v, p, w
    <3> DEFINE c == BLKSIZE * q
    <3>1. c \in Int
      BY <1>1, <1>2
    <3>2. op.offset = c + v
      BY <1>2
    <3> HIDE DEF c
    <3>3. o - c \in Word /\ o = c + (o - c)
      BY <3>1, <3>2, <1>1, <1>2, <1>3 DEF Word
    <3> QED BY <3>3 DEF c
  <2> HIDE DEF m
  <2> QED BY <2>1, <1>2, DivUnique
<1> HIDE DEF q, v, p, w
<1>4. CASE p = q
  <2> DEFINE c == BLKSIZE * q
  <2>1. c \in Int /\ op.offset = c + v /\ o = c + w
    BY <1>1, <1>2, <1>4
  <2> HIDE DEF c
  <2>2. o \in op.offset..(op.offset + IoSize - 1) <=> w \in v..(v + IoSize - 1)
    BY <2>1, <1>1, <1>2 DEF Word
  <2> QED BY <2>2, <1>4 DEF p, q, v, w
<1> QED BY <1>3, <1>4 DEF p, q

(* A block that a truncation gives up lies behind the new end.             *)
LEMMA BehindEnd ==
  ASSUME NEW n \in Nat, NEW k \in Int, k > RoundUpDiv(n), NEW o \in Nat, o \div BLKSIZE = k - 1
  PROVE  o >= n
<1> DEFINE a == n + BLKSIZE - 1
           q == a \div BLKSIZE
           c == BLKSIZE * q
           e == BLKSIZE * (k - 1)
<1>1. a \in Nat /\ BLKSIZE \in Nat \ {0}
  BY SfsAssumption
<1> HIDE DEF a
<1>2. q \in Nat /\ a % BLKSIZE \in Word /\ a = c + (a % BLKSIZE)
  BY <1>1, DivIs
<1>3. k > q
  BY DEF RoundUpDiv, a
<1>4. o % BLKSIZE \in Word /\ o = e + (o % BLKSIZE)
  BY DivIs
<1> HIDE DEF q
<1>5. c <= e /\ c \in Int /\ e \in Int
  <2>1. q <= k - 1
    BY <1>2, <1>3
  <2> QED BY <2>1, <1>1, <1>2, Product
<1> HIDE DEF c, e
<1>6. a = n + BLKSIZE - 1 /\ a - (BLKSIZE - 1) <= c
  BY <1>1, <1>2, <1>5 DEF a, Word
<1> QED BY <1>1, <1>4, <1>5, <1>6 DEF Word

(* Where nothing is written and no place changes, no word does.            *)
LEMMA SameKept ==
  ASSUME NEW f \in File, NEW o \in Offset, Same(sfs, sfs'), ~Writes(f, o)
  PROVE  WordKept(f, o)
BY ContentIs DEF Same, WordKept

(* Every step keeps the words that it should keep.                         *)
LEMMA ContentsNext ==
  SfsInv /\ Aligned /\ [Next]_vars =>
    [\A f \in File : \A o \in Offset : WordKept(f, o)]_vars
<1> SUFFICES ASSUME SfsInv, Aligned, [Next]_vars, NEW f \in File, NEW o \in Offset
             PROVE  WordKept(f, o)
  OBVIOUS
<1>0. Good(sfs) /\ CallsOK /\ open \in Positions
  BY DEF SfsInv, CallsOK
<1>s. UNCHANGED sfs => Same(sfs, sfs')
  BY DEF Same
<1>c. /\ o \in Nat /\ o \div BLKSIZE \in Index /\ o % BLKSIZE \in Word
      /\ Content(f, o) = Holds(sfs, f, o \div BLKSIZE, o % BLKSIZE)
      /\ Content(f, o)' = Holds(sfs', f, o \div BLKSIZE, o % BLKSIZE)
  BY ContentIs
<1>w. op.call # "write" => ~Writes(f, o)
  BY DEF Writes
<1>n. op = None => op.call # "write"
  BY DEF None
<1>t. ASSUME NEW d, NEW g, NEW n, Ready, Truncate(d, g, n) PROVE WordKept(f, o)
  BY <1>t, <1>s, <1>w, <1>n, SameKept DEF Ready, Truncate
<1>1. ASSUME NEW d \in OpenFile, NEW g \in File, Open(d, g) \/ OpenTrunc(d, g)
      PROVE  WordKept(f, o)
  BY <1>1, <1>t, <1>s, <1>w, <1>n, SameKept DEF Open, OpenTrunc, Ready
<1>2. ASSUME NEW d \in OpenFile, NEW n, Seek(d, n) PROVE WordKept(f, o)
  BY <1>2, <1>t, <1>s, <1>w, <1>n, SameKept DEF Seek, Ready
<1>3. ASSUME NEW d \in OpenFile, NEW n, NEW call, Io(call, d, n) PROVE WordKept(f, o)
  BY <1>3, <1>s, <1>w, <1>n, SameKept DEF Io, Ready
<1>4. ASSUME NEW d \in OpenFile, Close(d) PROVE WordKept(f, o)
  <2>1. op = None /\ open[d] # Closed
    BY <1>4 DEF Close, Ready
  <2>2. PICK g \in File : g = open[d].node
    BY <2>1, <1>0 DEF CallsOK
  <2>3. \/ UNCHANGED sfs
        \/ sfs.stored[g] = Dirty /\ sfs' = [sfs EXCEPT !.stored[g] = sfs.din[g]]
        \/ sfs.stored[g] # Dirty /\ sfs' = [sfs EXCEPT !.din[g] = sfs.stored[g]]
    BY <2>2, <1>4 DEF Close
  <2>4. /\ sfs.stored[g] = Dirty => Same(sfs, [sfs EXCEPT !.stored[g] = sfs.din[g]])
        /\ sfs.stored[g] # Dirty => Same(sfs, [sfs EXCEPT !.din[g] = sfs.stored[g]])
    BY <1>0, ClosedGood
  <2>5. Same(sfs, sfs')
    BY <2>3, <2>4, <1>s
  <2> QED BY <2>1, <2>5, <1>w, <1>n, SameKept
<1>5. ASSUME Enlarge PROVE WordKept(f, o)
  <2>1. op.call = "truncate"
    BY <1>5 DEF Enlarge
  <2>2. PICK g \in File : g = op.node
    BY <2>1, <1>0, CallIs
  <2>3. PICK i \in Nat : i = sfs.din[g].blocks
    BY <1>0, InodeIs DEF Good
  <2>4. /\ ok' = LoadAsserts(sfs, g, i)
        /\ IF LoadFails(sfs, g, i) THEN sfs' = CleanedUp(sfs, g, i)
           ELSE sfs' = (IF ok' THEN Loaded(sfs, g, i) ELSE sfs)
    BY <1>5, <2>2, <2>3 DEF Enlarge
  <2>5. Same(sfs, sfs')
    <3>1. CASE LoadFails(sfs, g, i)
      BY <3>1, <2>4, <1>0, CleanedUpGood
    <3>2. CASE ~LoadFails(sfs, g, i) /\ LoadAsserts(sfs, g, i)
      BY <3>2, <2>4, <1>0, LoadedGood
    <3>3. CASE ~LoadFails(sfs, g, i) /\ ~LoadAsserts(sfs, g, i)
      BY <3>3, <2>4, <1>s
    <3> QED BY <3>1, <3>2, <3>3
  <2> QED BY <2>1, <2>5, <1>w, SameKept
<1>6. ASSUME Reduce PROVE WordKept(f, o)
  <2>1. op.call = "truncate" /\ op.len \in Nat /\ op.node \in File
    BY <1>6, <1>0, CallIs DEF Reduce
  <2>2. PICK g \in File, n \in Nat : g = op.node /\ n = op.len
    BY <2>1
  <2>3. sfs' = Truncated(sfs, g) /\ sfs.din[g].blocks > RoundUpDiv(n)
    BY <1>6, <2>2 DEF Reduce
  <2>4. RoundUpDiv(n) \in Nat /\ sfs.din[g].blocks \in Int
    <3>1. n + BLKSIZE - 1 \in Nat
      BY SfsAssumption
    <3>2. (n + BLKSIZE - 1) \div BLKSIZE \in Nat
      BY <3>1, DivIs
    <3> QED BY <3>2, <1>0, InodeIs DEF RoundUpDiv, Good
  <2>5. Emptied(sfs, sfs', g, sfs.din[g].blocks - 1)
    BY <2>3, <2>4, <1>0, TruncatedGood
  <2>6. CASE f = g /\ o \div BLKSIZE = sfs.din[g].blocks - 1
    <3>1. o >= n
      BY <2>3, <2>4, <2>6, <1>c, BehindEnd
    <3>2. Content(f, o)' = 0
      BY <2>5, <2>6, <1>c DEF Emptied
    <3> QED BY <3>1, <3>2, <2>1, <2>2, <2>6, <1>w DEF WordKept
  <2>7. CASE ~(f = g /\ o \div BLKSIZE = sfs.din[g].blocks - 1)
    <3>1. Content(f, o)' = Content(f, o)
      BY <2>5, <2>7, <1>c DEF Emptied
    <3> QED BY <3>1, <2>1, <1>w DEF WordKept
  <2> QED BY <2>6, <2>7
<1>7. ASSUME Resized PROVE WordKept(f, o)
  <2>1. op.call = "truncate" /\ op.node \in File /\ op.len \in Nat
    BY <1>7, <1>0, CallIs DEF Resized
  <2>2. PICK g \in File, n \in Nat : g = op.node /\ n = op.len
    BY <2>1
  <2>3. sfs' = [sfs EXCEPT !.din[g].size = n, !.stored[g] = Dirty]
    BY <1>7, <2>2 DEF Resized
  <2>4. Same(sfs, sfs')
    BY <2>3, <1>0, SizedGood
  <2> QED BY <2>1, <2>4, <1>w, SameKept
<1>8. ASSUME IoBlock PROVE WordKept(f, o)
  <2>1. /\ op \in IoOp /\ op.left > 0 /\ op.fd \in OpenFile /\ UNCHANGED open
        /\ op.call \in {"read", "write"}
    BY <1>8, <1>0, CallIs DEF IoBlock, IoCall
  <2>2. PICK g \in File, i \in Nat : g = op.node /\ i = op.offset \div BLKSIZE
    BY <2>1, IoIs DEF IoOp
  <2> DEFINE s == Loaded(sfs, g, i)
             off == op.offset % BLKSIZE
             b == Slot(s, g, i)
             v == [w \in Word |-> IF w \in off..(off + IoSize - 1) THEN g ELSE s.disk[b][w]]
  <2>3. /\ LoadAsserts(sfs, g, i) /\ ~LoadFails(sfs, g, i)
        /\ op.call = "read" => sfs' = s
        /\ op.call = "write" =>
             sfs' = [s EXCEPT !.disk[Bmap(s, g, i)] =
                       [w \in Word |-> IF w \in off..(off + IoSize - 1) THEN g ELSE @[w]]]
        /\ op'.alen = op.alen + IoSize /\ op'.call = op.call /\ op'.fd = op.fd
    BY <1>8, <2>1, <2>2 DEF IoBlock, IoOp
  <2>4. /\ Good(s) /\ i \in Index /\ b \in Block /\ b = Bmap(s, g, i)
        /\ Same(sfs, s)
    BY <2>3, <1>0, LoadedGood, SlotIs
  <2>5. CASE op.call = "read"
    BY <2>3, <2>4, <2>5, <1>w, SameKept
  <2>6. CASE op.call = "write"
    <3>1. v \in [Word -> File \cup Int]
      <4>1. s.disk[b] \in [Word -> File \cup Int]
        BY <2>4 DEF Good, State, Disk
      <4> HIDE DEF s, b
      <4> QED BY <4>1
    <3>2. sfs' = Put(s, b, v)
      BY <2>3, <2>4, <2>6 DEF Put
    <3> HIDE DEF s, v
    <3>3. \A h \in File, k \in Index, w \in Word :
            Holds(Put(s, b, v), h, k, w) = IF <<h, k>> = <<g, i>> THEN v[w] ELSE Holds(s, h, k, w)
      BY <2>4, <3>1, WrittenGood
    <3>4. Writes(f, o) <=> f = g /\ o \in op.offset..(op.offset + IoSize - 1)
      <4>1. /\ open[op.fd].pos \in Nat /\ op.alen \in Nat /\ IoSize \in Nat /\ op.offset \in Nat
        BY <2>1, <1>0, IoIs DEF Positions, IoOp
      <4>2. op.offset = open[op.fd].pos + op.alen
        BY <2>1 DEF Aligned
      <4>3. Position = op.offset /\ Position' = op.offset + IoSize
        BY <4>1, <4>2, <2>1, <2>3 DEF Position
      <4>4. Writes(f, o) <=> f = g /\ o \in Position..(Position' - 1)
        BY <2>2, <2>3, <2>6 DEF Writes
      <4>5. Position..(Position' - 1) = op.offset..(op.offset + IoSize - 1)
        <5> DEFINE p == Position
                   r == Position'
        <5>1. p = op.offset /\ r = op.offset + IoSize
          BY <4>3
        <5> HIDE DEF p, r
        <5>2. p..(r - 1) = op.offset..(op.offset + IoSize - 1)
          BY <5>1, <4>1
        <5> QED BY <5>2 DEF p, r
      <4> QED BY <4>4, <4>5
    <3>5. o \in op.offset..(op.offset + IoSize - 1) <=>
            o \div BLKSIZE = i /\ o % BLKSIZE \in off..(off + IoSize - 1)
      BY <2>1, <2>2, <1>c, WordsWritten
    <3>6. CASE <<f, o \div BLKSIZE>> = <<g, i>>
      <4>1. Content(f, o)' = v[o % BLKSIZE]
        BY <3>2, <3>3, <3>6, <1>c
      <4>2. v[o % BLKSIZE] = IF o % BLKSIZE \in off..(off + IoSize - 1) THEN g
                             ELSE s.disk[b][o % BLKSIZE]
        BY <1>c DEF v
      <4>3. Content(f, o) = s.disk[b][o % BLKSIZE]
        <5>1. Content(f, o) = Holds(s, f, o \div BLKSIZE, o % BLKSIZE)
          BY <2>4, <1>c DEF Same
        <5> QED BY <5>1, <3>6, <2>4, Places DEF Holds
      <4> QED BY <4>1, <4>2, <4>3, <3>4, <3>5, <3>6 DEF WordKept
    <3>7. CASE <<f, o \div BLKSIZE>> # <<g, i>>
      <4>1. Content(f, o)' = Content(f, o)
        BY <3>2, <3>3, <3>7, <2>4, <1>c DEF Same
      <4>2. ~Writes(f, o)
        BY <3>4, <3>5, <3>7
      <4> QED BY <4>1, <4>2 DEF WordKept
    <3> QED BY <3>6, <3>7
  <2> QED BY <2>1, <2>5, <2>6
<1>9. ASSUME IoStops PROVE WordKept(f, o)
  <2>1. op \in IoOp /\ op.fd \in OpenFile /\ UNCHANGED open /\ op.left > 0
    BY <1>9, <1>0, CallIs DEF IoStops, IoCall
  <2>2. PICK g \in File, i \in Nat : g = op.node /\ i = op.offset \div BLKSIZE
    BY <2>1, IoIs DEF IoOp
  <2>3. \/ sfs' = CleanedUp(sfs, g, i) /\ op' = [op EXCEPT !.left = 0]
        \/ UNCHANGED <<sfs, op>>
    BY <1>9, <2>2 DEF IoStops
  <2>4. Same(sfs, sfs')
    BY <2>3, <1>0, <1>s, CleanedUpGood
  <2>5. op'.fd = op.fd /\ op'.alen = op.alen
    BY <2>1, <2>3 DEF IoOp
  <2>6. Position' = Position /\ Position \in Nat
    BY <2>1, <2>5, <1>0 DEF Position, Positions, IoOp
  <2>7. ~Writes(f, o)
    BY <2>6, <1>c DEF Writes
  <2> QED BY <2>4, <2>7, SameKept
<1>10. ASSUME IoOut PROVE WordKept(f, o)
  <2>1. op \in IoOp /\ op' = None
    BY <1>10, <1>0, CallIs DEF IoOut
  <2>2. PICK g \in File, n \in Nat : g = op.node /\ n = op.offset + op.alen
    BY <2>1 DEF IoOp
  <2>3. \/ sfs' = [sfs EXCEPT !.din[g].size = n, !.stored[g] = Dirty]
        \/ sfs' = sfs
    BY <1>10, <2>2 DEF IoOut
  <2>4. Same(sfs, sfs')
    <3>1. Same(sfs, [sfs EXCEPT !.din[g].size = n, !.stored[g] = Dirty])
      BY <1>0, SizedGood
    <3> QED BY <3>1, <2>3, <1>s
  <2>5. ~Writes(f, o)
    BY <2>1 DEF Writes, None
  <2> QED BY <2>4, <2>5, SameKept
<1>11. CASE UNCHANGED vars
  <2>1. UNCHANGED <<sfs, open, op>>
    BY <1>11 DEF vars
  <2>2. Content(f, o)' = Content(f, o)
    BY <2>1, <1>c
  <2>3. ~Writes(f, o)
    <3>1. ASSUME op.call = "write" PROVE Position' = Position /\ Position \in Nat
      BY <2>1, <3>1, <1>0, CallIs DEF Position, Positions, IoOp
    <3> QED BY <3>1, <1>c DEF Writes
  <2> QED BY <2>2, <2>3 DEF WordKept
<1> QED
  BY <1>1, <1>2, <1>3, <1>4, <1>5, <1>6, <1>7, <1>8, <1>9, <1>10, <1>11 DEF Next, Panicked

(* What a file contains changes only by its own writes, where the position *)
(* stands, and by its own truncations, behind the new end: with any number *)
(* of open files, and whichever of them runs out of blocks.                *)
THEOREM ContentsKeptHolds == Spec => ContentsKept
<1>1. Init => SfsInv /\ Aligned
  BY InitGood DEF Init, Aligned, None, IoOp
<1>2. SfsInv /\ Aligned /\ [Next]_vars => SfsInv' /\ Aligned'
  BY NextGood, AlignedNext
<1>3. SfsInv /\ Aligned /\ [Next]_vars =>
        [\A f \in File : \A o \in Offset : WordKept(f, o)]_vars
  BY ContentsNext
<1> QED BY <1>1, <1>2, <1>3, PTL DEF Spec, ContentsKept
=============================================================================

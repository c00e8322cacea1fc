--------------------------------- MODULE Sfs ---------------------------------
(***************************************************************************)
(* The regular files of the simple file system (lab8 fs/sfs/sfs_inode.c):  *)
(* the bitmap of free blocks, the direct and indirect blocks of an inode,  *)
(* read, write, seek and truncation, as the system calls of fs/file.c and  *)
(* fs/vfs/vfsfile.c drive them through open files that each have a         *)
(* position of their own.                                                  *)
(*                                                                         *)
(* The kernel is not preempted and the ramdisk does not block, so that one *)
(* system call ends before the next begins (op).  Loops are one action per *)
(* block, for a call may run out of blocks in the middle.  A file system   *)
(* call that fails an assertion ends in panic (ok).                        *)
(*                                                                         *)
(* The inode on the disk matters while sin->dirty is false only, else it   *)
(* is written before it is read again: it is Dirty then.  So are the       *)
(* contents of a free block, which is cleared before it is used: Junk.     *)
(*                                                                         *)
(* Sizes are counted in words: a block is BLKSIZE words, a word of data or *)
(* one entry of an indirect block.  Data written to file f is the value f. *)
(***************************************************************************)
EXTENDS Integers, FiniteSets, FiniteSetsExt

CONSTANTS
  File,      \* the files
  OpenFile,  \* struct file entries, of one or several processes
  Blocks,    \* the blocks of the disk that are free at first: 1..Blocks
  BLKSIZE,   \* SFS_BLKSIZE, and SFS_BLK_NENTRY
  NDIRECT,   \* SFS_NDIRECT
  MaxPos     \* bound of the model: no position is beyond it

ASSUME SfsAssumption ==
  Blocks \in Nat /\ BLKSIZE \in Nat \ {0} /\ NDIRECT \in Nat /\ MaxPos \in Nat

VARIABLES
  sfs,      \* the file system: freemap, unused, the blocks on the disk, the
            \* inodes in memory (din) and on the disk (stored)
  open,     \* the open files: their node and position
  op,       \* the system call that is in progress
  ok        \* no assertion failed

vars == <<sfs, open, op, ok>>

Block  == 1..Blocks
Word   == 0..(BLKSIZE - 1)
Zero   == [w \in Word |-> 0]
Junk   == [w \in Word |-> -1]
Closed == [node |-> {}, pos |-> 0]
None   == [call |-> "none"]
Empty  == [size |-> 0, blocks |-> 0, direct |-> [i \in 0..(NDIRECT - 1) |-> 0],
           indirect |-> 0]
Dirty  == [dirty |-> TRUE]

Init ==
  /\ sfs = [freemap |-> Block, unused |-> Blocks, disk |-> [b \in Block |-> Junk],
            din |-> [f \in File |-> Empty], stored |-> [f \in File |-> Empty]]
  /\ open = [d \in OpenFile |-> Closed]
  /\ op = None
  /\ ok = TRUE

RoundUpDiv(n) == (n + BLKSIZE - 1) \div BLKSIZE

-----------------------------------------------------------------------------
(* sfs_block_alloc: the lowest free block, cleared.                        *)
(* Mutant: it keeps what was in it.                                        *)
BlockAllocDirty(s) ==
  [s EXCEPT !.freemap = @ \ {Min(@)}, !.unused = @ - 1]

BlockAlloc(s) ==
  [s EXCEPT !.freemap = @ \ {Min(@)}, !.unused = @ - 1,
            !.disk[Min(s.freemap)] = Zero]

BlockFree(s, b) ==
  [s EXCEPT !.freemap = @ \cup {b}, !.unused = @ + 1, !.disk[b] = Junk]

InUse(s, b) == b # 0 /\ b \notin s.freemap

(* The block with logical number i of file f, or 0.                        *)
Bmap(s, f, i) ==
  CASE i < NDIRECT -> s.din[f].direct[i]
    [] i >= NDIRECT /\ s.din[f].indirect = 0 -> 0
    [] OTHER -> s.disk[s.din[f].indirect][i - NDIRECT]

(* sfs_bmap_get_nolock and its _sub_ for a block that has to be created,   *)
(* in one of the direct slots, or in the indirect block, which may have to *)
(* be created before.                                                      *)
CreateDirect(s, f, i) ==
  [BlockAlloc(s) EXCEPT !.din[f].direct[i] = Min(s.freemap), !.stored[f] = Dirty]

CreateEntry(s, f, i) ==
  [BlockAlloc(s) EXCEPT !.disk[s.din[f].indirect][i - NDIRECT] = Min(s.freemap)]

CreateIndirect(s, f) ==
  [BlockAlloc(s) EXCEPT !.din[f].indirect = Min(s.freemap), !.stored[f] = Dirty]

NeedsIndirect(s, f, i) == i >= NDIRECT /\ s.din[f].indirect = 0

Create(s, f, i) ==
  CASE i < NDIRECT             -> CreateDirect(s, f, i)
    [] NeedsIndirect(s, f, i)  -> CreateEntry(CreateIndirect(s, f), f, i)
    [] OTHER                   -> CreateEntry(s, f, i)

(* -E_NO_MEM: a new indirect block is given back if there is no second one.*)
(* Mutant: it is not.                                                      *)
NoMem(s, f, i) ==
  Cardinality(s.freemap) < (IF NeedsIndirect(s, f, i) THEN 2 ELSE 1)

CleanedUpNot(s, f, i) == IF s.freemap = {} THEN s ELSE BlockAlloc(s)

CleanedUp(s, f, i) ==
  IF s.freemap = {} THEN s ELSE BlockFree(BlockAlloc(s), Min(s.freemap))

(* sfs_bmap_load_nolock: it asserts that i <= din->blocks and creates the  *)
(* next block of the file, unless an earlier life of the inode has left    *)
(* one in the indirect block.                                              *)
Creates(s, f, i)   == i = s.din[f].blocks /\ Bmap(s, f, i) = 0
LoadAsserts(s, f, i) ==
  /\ i <= s.din[f].blocks /\ i < NDIRECT + BLKSIZE
  /\ Creates(s, f, i) \/ InUse(s, Bmap(s, f, i))
LoadFails(s, f, i) == LoadAsserts(s, f, i) /\ Creates(s, f, i) /\ NoMem(s, f, i)

Loaded(s, f, i) ==
  LET t == IF Creates(s, f, i) THEN Create(s, f, i) ELSE s
  IN  IF i = s.din[f].blocks THEN [t EXCEPT !.din[f].blocks = @ + 1] ELSE t

(* sfs_bmap_truncate_nolock and sfs_bmap_free_nolock: the last block goes. *)
Truncated(s, f) ==
  LET i == s.din[f].blocks - 1
      b == Bmap(s, f, i)
      t == IF b = 0 THEN s ELSE BlockFree(s, b)
      u == CASE b = 0 -> t
             [] b # 0 /\ i < NDIRECT -> [t EXCEPT !.din[f].direct[i] = 0]
             [] OTHER -> [t EXCEPT !.disk[s.din[f].indirect][i - NDIRECT] = 0]
  IN  [u EXCEPT !.din[f].blocks = i, !.stored[f] = Dirty]

-----------------------------------------------------------------------------
Ready == ok /\ op = None

(* sfs_truncfile, on behalf of an open or a seek of d, which puts the      *)
(* position to len if it succeeds.                                         *)
Truncate(d, f, len) ==
  IF sfs.din[f].size = len
  THEN /\ ok' = (RoundUpDiv(len) = sfs.din[f].blocks)
       /\ open' = [open EXCEPT ![d] = [node |-> f, pos |-> len]]
       /\ UNCHANGED <<sfs, op>>
  ELSE /\ op' = [call |-> "truncate", fd |-> d, node |-> f, len |-> len]
       /\ UNCHANGED <<sfs, open, ok>>

Enlarge ==
  /\ ok /\ op.call = "truncate"
  /\ LET f == op.node
         i == sfs.din[f].blocks
     IN  /\ i < RoundUpDiv(op.len)
         /\ ok' = LoadAsserts(sfs, f, i)
         /\ IF LoadFails(sfs, f, i)
            THEN sfs' = CleanedUp(sfs, f, i) /\ op' = None
            ELSE sfs' = (IF ok' THEN Loaded(sfs, f, i) ELSE sfs) /\ UNCHANGED op
  /\ UNCHANGED open

Reduce ==
  /\ ok /\ op.call = "truncate"
  /\ sfs.din[op.node].blocks > RoundUpDiv(op.len)
  /\ sfs' = Truncated(sfs, op.node)
  /\ UNCHANGED <<open, op, ok>>

Resized ==
  /\ ok /\ op.call = "truncate"
  /\ sfs.din[op.node].blocks = RoundUpDiv(op.len)
  /\ sfs'  = [sfs EXCEPT !.din[op.node].size = op.len, !.stored[op.node] = Dirty]
  /\ open' = [open EXCEPT ![op.fd] = [node |-> op.node, pos |-> op.len]]
  /\ op'   = None
  /\ UNCHANGED ok

-----------------------------------------------------------------------------
(* file_open of an existing file: with O_TRUNC or O_CREAT vfs_open         *)
(* truncates it; with O_APPEND the position is its end.                    *)
Open(d, f) ==
  /\ Ready /\ open[d] = Closed
  /\ \E pos \in {0, sfs.din[f].size} :
       pos <= MaxPos /\ open' = [open EXCEPT ![d] = [node |-> f, pos |-> pos]]
  /\ UNCHANGED <<sfs, op, ok>>

OpenTrunc(d, f) == Ready /\ open[d] = Closed /\ Truncate(d, f, 0)

(* file_close.  The last one writes the inode back if it is dirty and      *)
(* gives it up: the next open loads what is on the disk.                   *)
Close(d) ==
  /\ Ready /\ open[d] # Closed
  /\ open' = [open EXCEPT ![d] = Closed]
  /\ LET f == open[d].node
     IN  IF \E e \in OpenFile \ {d} : open[e].node = f THEN UNCHANGED sfs
         ELSE IF sfs.stored[f] = Dirty
         THEN sfs' = [sfs EXCEPT !.stored[f] = sfs.din[f]]
         ELSE sfs' = [sfs EXCEPT !.din[f] = sfs.stored[f]]
  /\ UNCHANGED <<op, ok>>

(* file_seek and sfs_tryseek: beyond the end, the file is made longer.     *)
Seek(d, pos) ==
  /\ Ready /\ open[d] # Closed
  /\ LET f == open[d].node
     IN  IF pos > sfs.din[f].size THEN Truncate(d, f, pos)
         ELSE /\ open' = [open EXCEPT ![d].pos = pos]
              /\ UNCHANGED <<sfs, op, ok>>

(* file_read and file_write of n words, at most a block (sysfile.c calls   *)
(* them in pieces of IOBUF_SIZE); sfs_io_nolock clips a read to the size.  *)
Io(call, d, n) ==
  /\ Ready /\ open[d] # Closed
  /\ LET pos  == open[d].pos
         end  == IF call = "write" THEN pos + n
                 ELSE Min({pos + n, sfs.din[open[d].node].size})
     IN  /\ pos < end /\ end <= MaxPos
         /\ op' = [call |-> call, fd |-> d, node |-> open[d].node, offset |-> pos,
                   left |-> end - pos, alen |-> 0]
  /\ UNCHANGED <<sfs, open, ok>>

(* One block of sfs_io_nolock: the rest of the first one, a whole one, or  *)
(* the beginning of the last one, after which offset stays as it is.       *)
IoCall == ok /\ op.call \in {"read", "write"} /\ op.left > 0

IoSize == Min({BLKSIZE - (op.offset % BLKSIZE), op.left})

IoBlock ==
  /\ IoCall
  /\ LET f    == op.node
         i    == op.offset \div BLKSIZE
         off  == op.offset % BLKSIZE
         s    == Loaded(sfs, f, i)
         here == off..(off + IoSize - 1)
     IN  /\ LoadAsserts(sfs, f, i) /\ ~LoadFails(sfs, f, i)
         /\ sfs' = IF op.call = "read" THEN s
                   ELSE [s EXCEPT !.disk[Bmap(s, f, i)] =
                           [w \in Word |-> IF w \in here THEN f ELSE @[w]]]
         /\ op' = [op EXCEPT !.alen = @ + IoSize, !.left = @ - IoSize,
                             !.offset = IF off = 0 /\ IoSize < BLKSIZE THEN @
                                        ELSE @ + IoSize]
  /\ UNCHANGED <<open, ok>>

(* No block: the call returns what it has done so far; or panic.           *)
IoStops ==
  /\ IoCall
  /\ LET i == op.offset \div BLKSIZE
     IN  IF LoadFails(sfs, op.node, i)
         THEN /\ sfs' = CleanedUp(sfs, op.node, i) /\ op' = [op EXCEPT !.left = 0]
              /\ UNCHANGED ok
         ELSE /\ ~LoadAsserts(sfs, op.node, i)
              /\ ok' = FALSE /\ UNCHANGED <<sfs, op>>
  /\ UNCHANGED open

(* The label out, where alen is added to an offset that is the end         *)
(* already; then file_write moves the position.                            *)
IoOut ==
  /\ ok /\ op.call \in {"read", "write"} /\ op.left = 0
  /\ sfs' = IF op.call = "write" /\ op.offset + op.alen > sfs.din[op.node].size
            THEN [sfs EXCEPT !.din[op.node].size = op.offset + op.alen,
                             !.stored[op.node] = Dirty]
            ELSE sfs
  /\ open' = [open EXCEPT ![op.fd].pos = @ + op.alen]
  /\ op' = None
  /\ UNCHANGED ok

(* panic() does not return.                                                *)
Panicked == ~ok /\ UNCHANGED vars

Next ==
  \/ \E d \in OpenFile, f \in File : Open(d, f) \/ OpenTrunc(d, f)
  \/ \E d \in OpenFile : Close(d) \/ \E pos \in 0..MaxPos : Seek(d, pos)
  \/ \E d \in OpenFile, n \in 1..BLKSIZE : Io("read", d, n) \/ Io("write", d, n)
  \/ Enlarge \/ Reduce \/ Resized
  \/ IoBlock \/ IoStops \/ IoOut
  \/ Panicked

Spec == Init /\ [][Next]_vars

-----------------------------------------------------------------------------
Index == 0..(NDIRECT + BLKSIZE - 1)

(* The places that can hold the number of a block, -1 the indirect field.  *)
Place == Index \cup {-1}

Slot(s, f, i) == IF i = -1 THEN s.din[f].indirect ELSE Bmap(s, f, i)

Uses(b) == {u \in File \X Place : Slot(sfs, u[1], u[2]) = b}

(* Every block is free or belongs to one file, as data in one place or as  *)
(* the indirect block, and the superblock has the number of free ones:     *)
(* whatever ran out of blocks half-way and whichever inode went to disk    *)
(* before.                                                                 *)
BlocksOwned ==
  /\ \A b \in Block : Cardinality(Uses(b)) = IF b \in sfs.freemap THEN 0 ELSE 1
  /\ sfs.unused = Cardinality(sfs.freemap)

Offset == 0..((NDIRECT + BLKSIZE) * BLKSIZE - 1)

Content(f, o) ==
  LET b == Bmap(sfs, f, o \div BLKSIZE)
  IN  IF b = 0 THEN 0 ELSE sfs.disk[b][o % BLKSIZE]

Position == open[op.fd].pos + op.alen

Writes(f, o) ==
  /\ op.call = "write" /\ op.node = f /\ op'.call = "write"
  /\ o \in Position..(Position' - 1)

WordKept(f, o) ==
  IF Writes(f, o) THEN Content(f, o)' = f
  ELSE \/ Content(f, o)' = Content(f, o)
       \/ /\ op.call = "truncate" /\ op.node = f
          /\ o >= op.len /\ Content(f, o)' = 0

(* What a file contains changes only by a write of that file, which puts   *)
(* its words where the position stands and nowhere else, and by truncation *)
(* of that file; reading, seeking, running out of blocks, closing and what *)
(* happens to other files do not change it.                                *)
ContentsKept == [][\A f \in File : \A o \in Offset : WordKept(f, o)]_vars

(* sfs_bmap_load_nolock asserts "index <= din->blocks" and sfs_truncfile   *)
(* "tblks == din->blocks".                                                 *)
AssertHolds == ok
=============================================================================

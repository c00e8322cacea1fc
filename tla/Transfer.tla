------------------------------ MODULE Transfer -------------------------------
(***************************************************************************)
(* The bytes of a read or a write of a file, from the memory of a program  *)
(* to the disk and back, in lab8: the loop of fs/sysfile.c over a buffer   *)
(* of one block, the pieces of sfs_io_nolock, the buffer of sfs/sfs_io.c   *)
(* and the blocks of fs/devs/dev_disk0.c.  No system call is preempted, so *)
(* that a call is one step.  Which blocks a file gets, and what happens    *)
(* when there are none, is module Sfs's: here it gets the next one.        *)
(***************************************************************************)
EXTENDS Integers, Sequences, FiniteSetsExt, SequencesExt

CONSTANTS
  BLKSIZE,   \* SFS_BLKSIZE, IOBUF_SIZE and DISK0_BLKSIZE, in bytes
  DiskSize,  \* blocks of disk0
  Span,      \* bound of the model: bytes of the program's buffer, and the
             \* longest call
  Tags,      \* what a program fills its buffer with
  MaxCalls   \* bound of the model

TransferAssumption ==
  BLKSIZE \in Nat \ {0} /\ DiskSize \in Nat \ (0..1) /\ Span \in Nat /\ MaxCalls \in Nat

VARIABLES
  disk,  \* the blocks of disk0
  file,  \* the inode, its size and blocks; the position of the descriptor
  user,  \* the program's buffer, of which the first so many bytes are its own
  done,  \* the call that was made, and what there was before
  ok     \* no assertion has failed

vars == <<disk, file, user, done, ok>>

Byte0  == <<"zero", 0>>
Offset == 0..(BLKSIZE - 1)
Zero   == [o \in Offset |-> Byte0]
(* Bytes b[1..n] are put at at.                                            *)
Put(mem, at, b, n) ==
  [x \in DOMAIN mem |-> IF x \in at..(at + n - 1) THEN b[x - at + 1] ELSE mem[x]]
Get(mem, at, n) == [i \in 1..n |-> mem[at + i - 1]]

-----------------------------------------------------------------------------
(* disk0_io for one block: beyond the end there is nothing.                *)
disk0_io(blkno) == blkno < DiskSize

(* sfs_rbuf and sfs_wbuf through sfs_buffer; sfs_rblock and sfs_wblock are *)
(* the same for a whole block.                                             *)
sfs_rbuf(d, len, blkno, off)    == Get(d[blkno], off, len)
sfs_wbuf(d, b, len, blkno, off) == [d EXCEPT ![blkno] = Put(@, off, b, len)]

(* sfs_bmap_load_nolock; x is a transfer on its way.  Of a new block, the  *)
(* number goes into the inode and the bytes on the disk are zero.          *)
sfs_bmap_load(x, i) ==
  IF i > Len(x.blocks) THEN [x EXCEPT !.ret = "panic"]
  ELSE IF i < Len(x.blocks) THEN x
  ELSE LET free == {b \in DOMAIN x.disk : b \notin Range(x.blocks)} IN
       IF free = {} THEN [x EXCEPT !.ret = "no_mem"]
       ELSE [x EXCEPT !.blocks = Append(@, Max(free)), !.disk[Max(free)] = Zero]

(* A piece of sfs_io_nolock, within one block: x.buf is what is to be      *)
(* written, or what has been read.  The last one leaves offset alone.      *)
InBlock(y, b, size, write, last) ==
  IF ~disk0_io(b) THEN [y EXCEPT !.ret = "inval"]
  ELSE [y EXCEPT
    !.alen = @ + size, !.offset = IF last THEN @ ELSE @ + size,
    !.disk = IF write THEN sfs_wbuf(@, SubSeq(y.buf, y.alen + 1, y.alen + size),
                                    size, b, y.offset % BLKSIZE) ELSE @,
    !.buf  = IF write THEN @ ELSE @ \o sfs_rbuf(y.disk, size, b, y.offset % BLKSIZE)]
Mapped(y, size, write, last) ==
  IF y.ret # "ok" THEN y
  ELSE InBlock(y, y.blocks[(y.offset \div BLKSIZE) + 1], size, write, last)
Piece(x, size, write, last) ==
  IF x.ret # "ok" \/ size = 0 THEN x
  ELSE Mapped(sfs_bmap_load(x, x.offset \div BLKSIZE), size, write, last)

(* sfs_io_nolock: at most one piece up to the end of a block, whole        *)
(* blocks, and what is left.                                               *)
Sized(c, write) ==
  [c EXCEPT !.size = IF write /\ c.offset + c.alen > @ THEN c.offset + c.alen ELSE @]
sfs_io_nolock(x, endpos, write) ==
  LET first == x.offset \div BLKSIZE
      nblks == endpos \div BLKSIZE - first
      off   == x.offset % BLKSIZE
      head  == IF off = 0 THEN 0 ELSE IF nblks # 0 THEN BLKSIZE - off ELSE endpos - x.offset
      whole == IF off = 0 THEN nblks ELSE Max({nblks - 1, 0})
      rest  == IF off # 0 /\ nblks = 0 THEN 0
               ELSE endpos - (x.offset + head + whole * BLKSIZE)
      sizes == <<head>> \o [i \in 1..whole |-> BLKSIZE] \o <<rest>>
  IN Sized(FoldLeftDomain(LAMBDA y, i : Piece(y, sizes[i], write, i = Len(sizes)),
                          x, sizes), write)

(* file_read and file_write with sfs_io: the position moves by what was    *)
(* done.                                                                   *)
FileIo(x, pos, n, write) ==
  LET end == IF write THEN pos + n ELSE Min({pos + n, x.size})
      y   == [x EXCEPT !.offset = pos, !.alen = 0]
  IN IF pos >= end THEN y ELSE sfs_io_nolock(y, end, write)

-----------------------------------------------------------------------------
(* sysfile_read and sysfile_write; t is the state of the loop.  The first  *)
(* own bytes of the buffer are mapped.                                     *)
Landed(t, x, own) ==
  LET fits == t.copied + x.alen <= own IN
  [t EXCEPT !.x = x, !.pos = @ + x.alen,
            !.user = IF fits THEN Put(@, t.copied, x.buf, x.alen) ELSE @,
            !.copied = IF fits THEN @ + x.alen ELSE @, !.len = IF fits THEN @ - x.alen ELSE @,
            !.ret = IF x.ret # "ok" THEN x.ret ELSE IF ~fits THEN "inval" ELSE @,
            !.stop = x.ret # "ok" \/ ~fits \/ x.alen = 0]
ReadChunk(t, own) ==
  Landed(t, FileIo([t.x EXCEPT !.buf = <<>>], t.pos, Min({BLKSIZE, t.len}), FALSE), own)

Sent(t, x) ==
  [t EXCEPT !.x = x, !.pos = @ + x.alen, !.copied = @ + x.alen,
            !.len = @ - x.alen, !.ret = x.ret, !.stop = x.ret # "ok" \/ x.alen = 0]
WriteChunk(t, own) ==
  LET alen == Min({BLKSIZE, t.len}) IN
  IF t.copied + alen > own THEN [t EXCEPT !.ret = "inval", !.stop = TRUE]
  ELSE Sent(t, FileIo([t.x EXCEPT !.buf = Get(t.user, t.copied, alen)], t.pos, alen, TRUE))

(* No more than so many chunks are needed.                                 *)
Loop(n, own, write) ==
  FoldLeft(LAMBDA t, i : IF t.len = 0 \/ t.stop THEN t
                         ELSE IF write THEN WriteChunk(t, own) ELSE ReadChunk(t, own),
           [x |-> [disk |-> disk, blocks |-> file.blocks, size |-> file.size, ret |-> "ok",
                   buf |-> <<>>, offset |-> 0, alen |-> 0],
            pos |-> file.pos, len |-> n, copied |-> 0, user |-> user, ret |-> "ok",
            stop |-> FALSE],
           [i \in 1..n |-> i])

Io(write, n, own) ==
  /\ ok /\ done.calls < MaxCalls
  /\ \E t \in {Loop(n, own, write)} :
       /\ ok' = (t.x.ret # "panic")
       /\ disk' = t.x.disk
       /\ file' = [size |-> t.x.size, blocks |-> t.x.blocks, pos |-> t.pos]
       /\ user' = t.user
       /\ done' = [calls |-> done.calls + 1, write |-> write, n |-> n, own |-> own,
                   copied |-> t.copied, ret |-> t.ret]

(* file_seek within the file.                                              *)
Seek(pos) ==
  /\ ok /\ done.calls < MaxCalls /\ pos \in 0..file.size
  /\ file' = [file EXCEPT !.pos = pos]
  /\ UNCHANGED <<disk, user, done, ok>>

(* The program fills its buffer.                                           *)
Fill(tag) ==
  /\ ok /\ done.calls < MaxCalls
  /\ user' = [i \in DOMAIN user |-> <<tag, i>>]
  /\ UNCHANGED <<disk, file, done, ok>>

(* The file may have been in the image.                                    *)
Init ==
  /\ \E size \in {0, BLKSIZE + 1} :
       LET had == IF size = 0 THEN <<>> ELSE <<1, 0>> IN
       /\ file = [size |-> size, blocks |-> had, pos |-> 0]
       /\ disk = [b \in 0..(DiskSize - 1) |-> [o \in Offset |->
                   LET at == {i \in DOMAIN had : had[i] = b /\ (i - 1) * BLKSIZE + o < size} IN
                   IF at = {} THEN Byte0 ELSE <<"old", (Min(at) - 1) * BLKSIZE + o>>]]
  /\ user = [i \in 0..(Span - 1) |-> Byte0]
  /\ done = [calls |-> 0]
  /\ ok = TRUE

Next ==
  \/ \E tag \in Tags : Fill(tag)
  \/ \E pos \in 0..(DiskSize * BLKSIZE) : Seek(pos)
  \/ \E n \in 1..Span, own \in 0..Span : Io(TRUE, n, own) \/ Io(FALSE, n, own)

Spec == Init /\ [][Next]_vars

-----------------------------------------------------------------------------
(* The bytes of the file, as far as it has blocks.                         *)
Content == [o \in 0..(Len(file.blocks) * BLKSIZE - 1) |->
             disk[file.blocks[(o \div BLKSIZE) + 1]][o % BLKSIZE]]

(* A call that returns r has moved r bytes, between the first r of the     *)
(* buffer and the r from the position on, and no other byte of the buffer  *)
(* or of the file has changed, whichever blocks and chunks they are in and *)
(* wherever the buffer ends; the position is behind them.  Only a read     *)
(* whose buffer ends too soon goes on by up to one chunk, which is lost to *)
(* the program (sysfile_read, whose copy comes after file_read).           *)
Moved ==
  LET r == done'.copied  was == Content  now == Content' IN
  /\ \A i \in DOMAIN user :
       user'[i] = IF ~done'.write /\ i < r THEN now[file.pos + i] ELSE user[i]
  /\ DOMAIN was \subseteq DOMAIN now
  /\ \A o \in DOMAIN now :
       now[o] = IF done'.write /\ o \in file.pos..(file.pos + r - 1) THEN user[o - file.pos]
                ELSE IF o \in DOMAIN was THEN was[o] ELSE Byte0
  /\ \/ file'.pos = file.pos + r
     \/ /\ ~done'.write /\ done'.ret # "ok" /\ r + BLKSIZE > done'.own
        /\ file'.pos \in (file.pos + r)..(file.pos + r + BLKSIZE)

(* It moves all that it is asked for, unless the buffer, the file or the   *)
(* disk ends before.                                                       *)
Whole ==
  LET r == done'.copied IN
  /\ r <= done'.n /\ r <= done'.own
  /\ r < done'.n => \/ done'.ret = "inval" /\ r + BLKSIZE > done'.own
                    \/ done'.ret = "no_mem"
                    \/ ~done'.write /\ done'.ret = "ok" /\ file.pos + r >= file.size

Transferred == [][done' # done /\ ok' => Moved /\ Whole]_vars
=============================================================================

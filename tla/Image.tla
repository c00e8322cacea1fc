-------------------------------- MODULE Image --------------------------------
(***************************************************************************)
(* The program that makes the disk image of lab8 (tools/mksfs.c), and the  *)
(* kernel's directories that are read from it (fs/sfs): the blocks that    *)
(* mksfs gives out one after the other, the inodes and index blocks that   *)
(* it keeps in its cache, the bitmap it writes at the end; then names,     *)
(* entries and paths as sfs_inode.c finds them.                            *)
(*                                                                         *)
(* Directories of the home directory are walked in depth; in which order   *)
(* readdir finds names is left open.  A call of the program for one name   *)
(* is one step.  bug() ends the program.  A path is a sequence of names.   *)
(***************************************************************************)
EXTENDS Integers, Sequences, SequencesExt, FiniteSetsExt, TLC

CONSTANTS
  NINOS,       \* blocks of the image
  BLKBITS,     \* SFS_BLKBITS: the bits of a block of the bitmap
  NDIRECT,     \* SFS_NDIRECT
  NENTRY,      \* SFS_BLK_NENTRY
  Name,        \* the names of files and directories
  Long,        \* those that are longer than 252 characters,
  Beginning,   \* the first 252, which the model has them share
  Lengths      \* the files' numbers of blocks

ROOT    == 1
FREEMAP == 2
FirstIno == FREEMAP + ((NINOS + BLKBITS - 1) \div BLKBITS)

ImageAssumption ==
  /\ {BLKBITS, NDIRECT, NENTRY} \subseteq Nat \ {0} /\ Lengths \subseteq Nat
  /\ NINOS \in Nat /\ FirstIno < NINOS
  /\ (Name \cup {Beginning}) \cap {".", ".."} = {}
  /\ Long \subseteq Name \ {Beginning}

VARIABLES
  sfs,      \* the cache and the image: next_ino, unused_blocks, inodes, index
            \* blocks, entries and data by block; and what bug or assert said
  open,     \* the directories that are being walked, from the root on
  home,     \* history: the paths that were found, each with its inode
  freemap   \* the bitmap on the disk by blocks; Unwritten before close_sfs

vars == <<sfs, open, home, freemap>>

Unwritten == [b \in {} |-> {}]
L1 == NDIRECT + NENTRY
L2 == L1 + NENTRY * NENTRY

-----------------------------------------------------------------------------
(* A block; its number is s.next before.                                   *)
sfs_alloc_ino(s) ==
  IF s.next < NINOS THEN [s EXCEPT !.next = @ + 1, !.unused = @ - 1]
  ELSE [s EXCEPT !.end = "out of disk space"]

alloc_cache_inode(s, ino, type) ==
  [s EXCEPT !.node = @ @@ (ino :> [type |-> type, nlinks |-> 0, nblks |-> 0,
      direct |-> [i \in 0..(NDIRECT - 1) |-> 0], indirect |-> 0, db_indirect |-> 0,
      l1 |-> 0, l2 |-> 0])]

(* The index block b, or a new one.  Blocks in the cache are all filed     *)
(* under the hash of 0, so that none is found if it is not at hand.        *)
update_cache(s, cb, b) ==
  IF b = 0
  THEN [s |-> [sfs_alloc_ino(s) EXCEPT
                 !.index = @ @@ (s.next :> [i \in 0..(NENTRY - 1) |-> 0])],
        b |-> s.next]
  ELSE [s |-> IF cb = b THEN s ELSE [s EXCEPT !.end = "assert"], b |-> b]

append_block(s, f, b) ==
  LET x == [s.node[f] EXCEPT !.nblks = @ + 1]
      n == s.node[f].nblks
      i == (n - L1) \div NENTRY
      u == update_cache(s, x.l1, x.indirect)
      v == update_cache(s, x.l2, x.db_indirect)
      w == update_cache(v.s, x.l1, v.s.index[v.b][i])
  IN IF n < NDIRECT THEN [s EXCEPT !.node[f] = [x EXCEPT !.direct[n] = b]]
     ELSE IF n < L1
     THEN [u.s EXCEPT !.node[f] = [x EXCEPT !.indirect = u.b, !.l1 = u.b],
                      !.index[u.b][n - NDIRECT] = b]
     ELSE IF n < L2
     THEN [w.s EXCEPT !.node[f] = [x EXCEPT !.db_indirect = v.b, !.l2 = v.b, !.l1 = w.b],
                      !.index[v.b][i] = w.b, !.index[w.b][(n - L1) % NENTRY] = b]
     ELSE [s EXCEPT !.end = "file is too big"]

(* write_block writes as many bytes of the entry as its name has, of which *)
(* four are the inode's number; behind them the block is 0.                *)
OnDisk(name) == IF name \in Long THEN Beginning ELSE name

add_entry(s, dir, f, name) ==
  LET t == [sfs_alloc_ino(s) EXCEPT !.entry = @ @@ (s.next :> <<f, OnDisk(name)>>)]
  IN [append_block(t, dir, s.next) EXCEPT !.node[f].nlinks = @ + 1]

(* open_file and open_link: a block, and its place in the file.            *)
AddData(s, f) ==
  IF s.end # "no" THEN s ELSE
  append_block([sfs_alloc_ino(s) EXCEPT !.data = @ @@ (s.next :> <<f, s.node[f].nblks>>)],
               f, s.next)
open_file(s, f, n) ==
  FoldLeft(LAMBDA t, i : AddData(t, f), s, [i \in 1..n |-> i])

(* create_sfs, and open_dir of the home directory as far as its loop.      *)
Dots(s, dir, parent) == add_entry(add_entry(s, dir, dir, "."), dir, parent, "..")

Init ==
  /\ LET s == [next |-> FirstIno, unused |-> NINOS - FirstIno, node |-> <<>>,
               index |-> <<>>, entry |-> <<>>, data |-> <<>>, end |-> "no"]
     IN sfs = Dots(alloc_cache_inode(s, ROOT, "dir"), ROOT, ROOT)
  /\ open = <<[ino |-> ROOT, path |-> <<>>]>>
  /\ home = {<<<<>>, ROOT>>}
  /\ freemap = Unwritten

-----------------------------------------------------------------------------
Walking == sfs.end = "no" /\ open # <<>>
Here    == Last(open).ino
Path(name) == Append(Last(open).path, name)
(* readdir finds a name once.                                              *)
Found(name) == Walking /\ \A h \in home : h[1] # Path(name)

(* s is the cache after the step, for the name with inode f.               *)
Adds(s, name, f) ==
  /\ sfs' = s
  /\ home' = home \cup {<<Path(name), f>>}
  /\ UNCHANGED <<open, freemap>>

(* add_file of a file of n blocks, and of one that has been found before   *)
(* under another name.                                                     *)
add_file(name, n) ==
  LET f == sfs.next
      s == alloc_cache_inode(sfs_alloc_ino(sfs), f, "file")
  IN Found(name) /\ Adds(add_entry(open_file(s, f, n), Here, f, name), name, f)

add_file_again(name, f) ==
  /\ Found(name) /\ sfs.node[f].type = "file"
  /\ Adds(add_entry(sfs, Here, f, name), name, f)

add_link(name) ==
  LET f == sfs.next
      s == alloc_cache_inode(sfs_alloc_ino(sfs), f, "link")
  IN Found(name) /\ Adds(add_entry(AddData(s, f), Here, f, name), name, f)

(* add_dir, before and after the loop of open_dir for that directory.      *)
add_dir(name) ==
  LET f == sfs.next
      s == alloc_cache_inode(sfs_alloc_ino(sfs), f, "dir")
  IN /\ Found(name)
     /\ sfs' = Dots(s, f, Here)
     /\ open' = Append(open, [ino |-> f, path |-> Path(name)])
     /\ home' = home \cup {<<Path(name), f>>}
     /\ UNCHANGED freemap

leave_dir ==
  /\ Walking /\ Len(open) > 1
  /\ sfs' = add_entry(sfs, open[Len(open) - 1].ino, Here, Last(Last(open).path))
  /\ open' = Front(open)
  /\ UNCHANGED <<home, freemap>>

(* close_sfs: the bitmap, where a bit that is set is a free block.         *)
(* Mutant: the last block of the bitmap is all free.                       *)
FreeBitsAll(i) == {j \in 0..(BLKBITS - 1) : i + j >= sfs.next}
FreeBits(i) ==
  IF i + BLKBITS <= sfs.next THEN {}
  ELSE LET start == IF i < sfs.next THEN sfs.next - i ELSE 0
           end   == IF i + BLKBITS > NINOS THEN NINOS - i ELSE BLKBITS
       IN start..(end - 1)

close_sfs ==
  /\ Walking /\ Len(open) = 1
  /\ open' = <<>>
  /\ freemap' = [b \in FREEMAP..(FirstIno - 1) |-> FreeBits((b - FREEMAP) * BLKBITS)]
  /\ UNCHANGED <<sfs, home>>

Next ==
  \/ leave_dir \/ close_sfs
  \/ \E name \in Name :
       \/ add_dir(name) \/ add_link(name)
       \/ \E n \in Lengths : add_file(name, n)
       \/ \E f \in DOMAIN sfs.node : add_file_again(name, f)

Spec == Init /\ [][Next]_vars

-----------------------------------------------------------------------------
(* The kernel.  sfs_bmap_get_nolock knows no double indirect blocks, and   *)
(* panics; sfs_get_ops panics of a link.                                   *)
Closed == open = <<>>
Bmap(f, i) ==
  IF i < NDIRECT THEN sfs.node[f].direct[i] ELSE sfs.index[sfs.node[f].indirect][i - NDIRECT]
Slots(dir) == {i \in 0..(sfs.node[dir].nblks - 1) : i < L1}
Dirent(dir, slot) == sfs.entry[Bmap(dir, slot)]

(* The inode of the first entry whose name is that path, 0 if there is     *)
(* none; and sfs_lookup, which hands the whole of its path on.             *)
sfs_lookup_once(dir, path) ==
  LET slots == {i \in Slots(dir) : <<Dirent(dir, i)[2]>> = path}
  IN IF slots = {} THEN 0 ELSE Dirent(dir, Min(slots))[1]

sfs_lookup(dir, path) ==
  IF sfs.node[dir].type = "dir" THEN sfs_lookup_once(dir, path) ELSE 0

(* The name in dir of the first entry for that inode.                      *)
sfs_dirent_findino(dir, ino) ==
  LET slots == {i \in Slots(dir) : Dirent(dir, i)[1] = ino}
  IN IF slots = {} THEN "" ELSE Dirent(dir, Min(slots))[2]

(* Up to the root by way of the "..".                                      *)
sfs_namefile(f) ==
  LET up(x) == LET parent == sfs_lookup_once(x.ino, <<"..">>)
               IN IF parent = x.ino THEN x
                  ELSE [ino |-> parent,
                        path |-> <<sfs_dirent_findino(parent, x.ino)>> \o x.path]
  IN FoldLeft(LAMBDA x, i : up(x), [ino |-> f, path |-> <<>>],
              [i \in 1..Cardinality(DOMAIN sfs.node) |-> i])

(* What sfs_do_mount reads: the free blocks.                               *)
Freemap == {<<b, j>> \in (FREEMAP..(FirstIno - 1)) \X (0..(BLKBITS - 1)) : j \in freemap[b]}
BlockOf(bit) == (bit[1] - FREEMAP) * BLKBITS + bit[2]

-----------------------------------------------------------------------------
(* Each block of the image is free in the bitmap, or part of the file      *)
(* system's own, or has one thing in it that belongs to one file in one    *)
(* place; so the kernel, which trusts the bitmap, never gives one away     *)
(* that is used, and the count of free blocks that it asserts is right.    *)
Places(b) ==
  LET at(f) == {<<f, "direct", i>> : i \in {j \in 0..(NDIRECT - 1) : sfs.node[f].direct[j] = b}}
               \cup {<<f, "index", 0>> : x \in {y \in {sfs.node[f].indirect} : y = b}}
               \cup {<<f, "index2", 0>> : x \in {y \in {sfs.node[f].db_indirect} : y = b}}
      in(k) == {<<k, "entry", i>> : i \in {j \in 0..(NENTRY - 1) : sfs.index[k][j] = b}}
  IN UNION {at(f) : f \in DOMAIN sfs.node} \cup UNION {in(k) : k \in DOMAIN sfs.index}
     \cup {<<b, "inode", 0>> : x \in {y \in {b} : y \in DOMAIN sfs.node}}

EveryBlockOnce ==
  Closed =>
    /\ \A b \in FirstIno..(NINOS - 1) :
         Cardinality(Places(b)) = IF b \in {BlockOf(bit) : bit \in Freemap} THEN 0 ELSE 1
    /\ \A bit \in Freemap : BlockOf(bit) \in FirstIno..(NINOS - 1)
    /\ Cardinality(Freemap) = sfs.unused

(* The kernel reads in each directory what the home directory has there,   *)
(* each name once, though without what is behind its 252nd character:      *)
(* a name is found, if no cut one hides it, with the inode that mksfs made *)
(* for it, and a long one never.  Files have all of their data in order,   *)
(* if they need no double indirect block; a directory knows its own path;  *)
(* and an inode has as many links as there are names for it, which decides *)
(* when it is freed.                                                       *)
Kids(path)   == {h \in home : h[1] # <<>> /\ Front(h[1]) = path}
Stored(path) == [i \in DOMAIN path |-> OnDisk(path[i])]
InodeOf(path) == (CHOOSE h \in home : h[1] = path)[2]
NoDoubles    == \A f \in DOMAIN sfs.node : sfs.node[f].nblks <= L1

DirectoryRight(dir, path) ==
  LET parent == IF path = <<>> THEN ROOT ELSE InodeOf(Front(path))
      names  == {<<h[2], OnDisk(Last(h[1]))>> : h \in Kids(path)}
  IN /\ {Dirent(dir, i) : i \in Slots(dir)} = {<<dir, ".">>, <<parent, "..">>} \cup names
     /\ sfs.node[dir].nblks = 2 + Cardinality(Kids(path))
     /\ sfs_namefile(dir).path = Stored(path)
     /\ \A h \in Kids(path) :
          LET found == sfs_lookup(dir, <<Last(h[1])>>)
              same  == {g[2] : g \in {x \in Kids(path) : Stored(x[1]) = Stored(h[1])}}
          IN IF Last(h[1]) \in Long THEN found = 0 ELSE found \in same

ReadsBack ==
  Closed /\ NoDoubles =>
    \A h \in home :
      LET f == h[2] IN
      /\ sfs.node[f].nlinks = Cardinality({e \in DOMAIN sfs.entry : sfs.entry[e][1] = f})
      /\ IF sfs.node[f].type = "dir" THEN DirectoryRight(f, h[1])
         ELSE \A i \in 0..(sfs.node[f].nblks - 1) : sfs.data[Bmap(f, i)] = <<f, i>>

(* "Parse path relative to the passed directory DIR, and hand back the     *)
(* inode for the file it refers to": every path of the home directory to a *)
(* file or directory is found from the root.                               *)
PathsFound ==
  Closed /\ NoDoubles /\ Long = {} =>
    \A h \in home : h[1] # <<>> /\ sfs.node[h[2]].type # "link" =>
      sfs_lookup(ROOT, h[1]) = h[2]
=============================================================================

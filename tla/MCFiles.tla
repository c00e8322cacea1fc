------------------------------- MODULE MCFiles -------------------------------
(***************************************************************************)
(* Files of lab8, five systems that TLC checks one after the other: the    *)
(* blocks of regular files (Sfs), the bytes on their way between a program *)
(* and the disk (Transfer), who has which file open (Files), the image     *)
(* that tools/mksfs.c makes (Image), and devices, mounting and paths       *)
(* (Volume).  system is the one that runs; the others stay at their        *)
(* beginning.                                                              *)
(***************************************************************************)
EXTENDS Sfs, TLC

CONSTANTS
  InitProc, User, Program, Root, Console, NFD, Kept, MaxSize, MaxLost,
  NINOS, BLKBITS, ImageDirect, NENTRY, Name, Long, Beginning, Lengths,
  BlockBytes, DiskSize, Span, Tags, MaxCalls,
  Disk0, Called, MaxName, MaxPath, DevBlocks, MaxMemory, MaxOpened

(* What files are opened with.                                             *)
Flags == {<<"RDONLY", {}>>, <<"RDWR", {"CREAT"}>>, <<"RDWR", {"APPEND"}>>,
          <<"RDWR", {"CREAT", "EXCL"}>>}

VARIABLES
  system,
  bytes, file, buffer, done, sane,                               \* Transfer
  tab, pwd, bootfs, sys, life, lost,                             \* Files
  built, walked, home, freemap,                                  \* Image
  vdevs, memory, volume, mounted, ref, cwd, boot, opened, end    \* Volume

moved  == <<bytes, file, buffer, done, sane>>
tables == <<tab, pwd, bootfs, sys, life, lost>>
image  == <<built, walked, home, freemap>>
names  == <<vdevs, memory, volume, mounted, ref, cwd, boot, opened, end>>

Transfer == INSTANCE Transfer WITH
  BLKSIZE <- BlockBytes, disk <- bytes, user <- buffer, ok <- sane
Files == INSTANCE Files WITH File <- {Program}
Image == INSTANCE Image WITH NDIRECT <- ImageDirect, sfs <- built, open <- walked
Volume == INSTANCE Volume WITH
  Consoles <- <<"i", "o">>, image <- volume, sfs <- mounted, bootfs <- boot

ASSUME FilesAssumption ==
  /\ Transfer!TransferAssumption /\ Files!FilesAssumption
  /\ Image!ImageAssumption /\ Volume!VolumeAssumption

(* Files, open files and processes may be exchanged for one another.       *)
Symmetry == Permutations(File) \cup Permutations(OpenFile) \cup Permutations(User)

AllInit ==
  /\ system \in {"blocks", "bytes", "tables", "image", "volume"}
  /\ Init /\ Transfer!Init /\ Files!Init /\ Image!Init
  /\ Volume!Init
  /\ system # "bytes" => file.size = 0
  /\ system # "tables" => sys.disk[Program] = 0
  /\ system # "volume" => memory.left = 0 /\ volume.blocks = DevBlocks
                          /\ volume.magic /\ volume.free = {}

AllNext ==
  /\ UNCHANGED system
  /\ \/ system = "blocks" /\ Next /\ UNCHANGED <<moved, tables, image, names>>
     \/ system = "bytes" /\ Transfer!Next /\ UNCHANGED <<vars, tables, image, names>>
     \/ system = "tables" /\ Files!Next /\ UNCHANGED <<vars, moved, image, names>>
     \/ system = "image" /\ Image!Next /\ UNCHANGED <<vars, moved, tables, names>>
     \/ system = "volume" /\ Volume!Next /\ UNCHANGED <<vars, moved, tables, image>>

AllSpec == AllInit /\ [][AllNext]_<<system, vars, moved, tables, image, names>>

-----------------------------------------------------------------------------
(* Of a system that stands still there is nothing to check, except for     *)
(* where it begins.                                                        *)

(* Of the blocks: BlocksOwned and ContentsKept of module Sfs.              *)

(* The counters of an inode are the numbers of those who refer to it,      *)
(* after every fork, exec and exit, and after every lookup of any path.    *)
Counted ==
  /\ system = "tables" => Files!Counted
  /\ system = "volume" => Volume!RefsCounted

(* A read or a write moves the bytes that it says it moved, and no others, *)
(* on all the way between a program's buffer and the disk; and processes   *)
(* do not notice inodes that go and come (Files!ImplementsFiles).          *)
CallsDoAsTold ==
  /\ Transfer!Transferred
  /\ Files!Abs!Init
  /\ [][system = "tables" => [Files!Abs!Next]_(Files!Abs!vars)]_tables

(* The image of a home directory has each block in one place or free, and  *)
(* the kernel reads in each of its directories what was there; it mounts a *)
(* volume whole or not at all, leaves one that can be mounted again, and   *)
(* every form of path leads where it says.                                 *)
ImageRight ==
  /\ system = "image" => Image!EveryBlockOnce /\ Image!ReadsBack
  /\ system = "volume" => Volume!MountWhole /\ Volume!NamesRight
=============================================================================

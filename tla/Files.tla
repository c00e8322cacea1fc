-------------------------------- MODULE Files --------------------------------
(***************************************************************************)
(* Open files of lab8: the descriptors of each process (fs/file.c, fs/fs.c)*)
(* and the inodes in memory that they, working directories and the boot    *)
(* file system refer to (fs/vfs, fs/sfs/sfs_inode.c).  What is in a file   *)
(* is module Sfs's; here it is a size.                                     *)
(*                                                                         *)
(* Nothing in the kernel preempts a system call and the ramdisk does not   *)
(* block, so that a call is one step and no lock is ever waited for.       *)
(* (Reading the console does block: module Stdin.)                         *)
(***************************************************************************)
EXTENDS Integers, FiniteSets, FiniteSetsExt

CONSTANTS
  InitProc,  \* init_main
  User,      \* what is forked from it
  File,      \* the regular files of disk0
  Root,      \* its directory
  Console,   \* the inode of a device
  NFD,       \* FILES_STRUCT_NENTRY
  Kept,      \* the first descriptors, which exec does not close: 2
  Flags,     \* what files are opened with, as <<access, set of flags>>
  MaxSize,   \* bound of the model: sizes and positions
  MaxLost    \* bound of the model: nothing more is lost when so many
             \* references are

FilesAssumption ==
  /\ InitProc \notin User
  /\ NFD \in Nat /\ Kept \in 0..NFD /\ MaxSize \in Nat /\ MaxLost \in Nat
  /\ \A fl \in Flags : /\ fl[1] \in {"RDONLY", "WRONLY", "RDWR"}
                       /\ fl[2] \subseteq {"CREAT", "EXCL", "TRUNC", "APPEND"}

VARIABLES
  tab,     \* the fd_array of each process: those that are FD_OPENED
  pwd,     \* the working directory of each process; NoNode
  bootfs,  \* bootfs_node
  sys,     \* the inodes in memory, the sizes on the disk, and panic
  life,    \* "none", "thread" (without an mm) or "live"
  lost     \* history: who opened a node and never gives it back

vars == <<tab, pwd, bootfs, sys, life, lost>>

Proc == User \cup {InitProc}
Fd   == 0..(NFD - 1)
Node == File \cup {Root, Console}
NoNode  == "none"
NoInode == [ref |-> 0]
NoFd    == [d \in {} |-> {}]

-----------------------------------------------------------------------------
(* Inodes; s is the value of sys.  There is a list of those in memory: the *)
(* ones that are not NoInode.  __vop_op and inode_check come before each   *)
(* operation of an inode.                                                  *)
Check(s, n) ==
  [s EXCEPT !.panic = @ \/ s.core[n] = NoInode \/ s.core[n].ref < s.core[n].open]

(* A device has no fsync, a directory cannot be read.                      *)
HasOp(n, op) == CASE n = Root    -> op \in {"fsync", "getdirentry"}
                  [] n = Console -> op \in {"read", "write", "tryseek"}
                  [] OTHER       -> op # "getdirentry"

(* sfs_fsync, which is sfs_close too.                                      *)
Fsync(s, n) ==
  IF n = Console \/ ~s.core[n].dirty THEN s
  ELSE [s EXCEPT !.core[n].dirty = FALSE, !.disk[n] = s.core[n].size]

(* sfs_load_inode.                                                         *)
Load(s, n) ==
  IF s.core[n] # NoInode
  THEN [s EXCEPT !.core[n].ref = @ + 1,
                 !.core[n].reclaim = IF s.core[n].ref = 0 THEN @ + 1 ELSE @]
  ELSE [s EXCEPT !.core[n] = [ref |-> 1, open |-> 0, reclaim |-> 1,
                              size |-> s.disk[n], dirty |-> FALSE]]

RefInc(s, n) == [s EXCEPT !.core[n].ref = @ + 1]

(* sfs_reclaim; the files of disk0 have links.                             *)
Reclaim(s, n) ==
  IF s.core[n].reclaim > 1
  THEN [Check(s, n) EXCEPT !.core[n].reclaim = @ - 1]
  ELSE [Fsync(Check(s, n), n) EXCEPT !.core[n] = NoInode]

(* inode_ref_dec and inode_open_dec.  The device list holds on to devices. *)
RefDec(s, n) ==
  LET t == [s EXCEPT !.core[n].ref = @ - 1] IN
  IF s.core[n] = NoInode THEN [s EXCEPT !.panic = TRUE]
  ELSE IF t.core[n].ref = 0 THEN Reclaim(t, n) ELSE t

OpenInc(s, n) == [s EXCEPT !.core[n].open = @ + 1]

OpenDec(s, n) ==
  LET t == [s EXCEPT !.core[n].open = @ - 1] IN
  IF s.core[n] = NoInode \/ s.core[n].open = 0 THEN [s EXCEPT !.panic = TRUE]
  ELSE IF t.core[n].open = 0 THEN Fsync(Check(t, n), n) ELSE t

vfs_close(s, n) == RefDec(OpenDec(s, n), n)

(* Mutant: what is new in the inode does not make it dirty.                *)
ResizeClean(s, n, len) == [s EXCEPT !.core[n].size = len]
(* sfs_truncfile to a smaller size, which cannot fail, or to a larger one. *)
Resize(s, n, len) == [s EXCEPT !.core[n].size = len, !.core[n].dirty = TRUE]

(* vfs_lookup of a name in the working or the boot directory, of ":" and   *)
(* of devices: the node, with a reference.                                 *)
Lookup(s, n) == IF n = Console THEN RefInc(s, n) ELSE Load(s, n)

-----------------------------------------------------------------------------
(* vop_open: the flags that devices and directories object to.             *)
MayOpen(n, fl) ==
  CASE n = Root    -> fl[1] = "RDONLY" /\ "APPEND" \notin fl[2]
    [] n = Console -> fl = <<"RDONLY", {}>>
    [] OTHER       -> TRUE

(* vfs_open of a node that exists.  Who asked for a new file keeps the     *)
(* reference that the lookup took.                                         *)
(* Mutant: it does not count as open.                                      *)
VfsOpenUncounted(s, n, fl) ==
  IF "TRUNC" \in fl[2] /\ fl[1] = "RDONLY" THEN [s |-> s, ret |-> "inval"]
  ELSE LET t == Lookup(s, n) IN
       IF {"CREAT", "EXCL"} \subseteq fl[2] THEN [s |-> t, ret |-> "exists"]
       ELSE IF ~MayOpen(n, fl) THEN [s |-> RefDec(t, n), ret |-> "inval"]
       ELSE [s |-> t, ret |-> "ok"]
vfs_open(s, n, fl) ==
  IF "TRUNC" \in fl[2] /\ fl[1] = "RDONLY" THEN [s |-> s, ret |-> "inval"]
  ELSE LET t == Lookup(s, n) IN
       IF {"CREAT", "EXCL"} \subseteq fl[2] THEN [s |-> t, ret |-> "exists"]
       ELSE IF ~MayOpen(n, fl) THEN [s |-> RefDec(t, n), ret |-> "inval"]
       ELSE LET u == OpenInc(t, n) IN
            IF fl[2] \cap {"TRUNC", "CREAT"} = {} THEN [s |-> u, ret |-> "ok"]
            ELSE IF n \in File THEN [s |-> Resize(u, n, 0), ret |-> "ok"]
            ELSE [s |-> [u EXCEPT !.panic = TRUE], ret |-> "panic"]

(* fd_array_alloc(NO_FD): the first that is free; NFD if there is none.    *)
NextFd(t) == Min({NFD} \cup (Fd \ DOMAIN t))

With(t, d, e) == [x \in DOMAIN t \cup {d} |-> IF x = d THEN e ELSE t[x]]

(* file_open with the table t: the table, the system, and the descriptor   *)
(* or -1.                                                                  *)
file_open(t, s, n, fl) ==
  LET d == NextFd(t)
      r == vfs_open(s, n, fl)
      e == [node |-> n, access |-> fl[1],
            pos |-> IF "APPEND" \in fl[2] THEN r.s.core[n].size ELSE 0]
  IN IF d = NFD THEN [tab |-> t, s |-> s, ret |-> "max_open", fd |-> -1]
     ELSE IF r.ret # "ok" THEN [tab |-> t, s |-> r.s, ret |-> r.ret, fd |-> -1]
     ELSE [tab |-> With(t, d, e), s |-> r.s, ret |-> "ok", fd |-> d]

(* fd_array_close of those descriptors of t that are in D.                 *)
CloseAll(t, s, D) ==
  FoldSet(LAMBDA d, x : vfs_close(x, t[d].node), s, D \cap DOMAIN t)
Without(t, D) == [d \in DOMAIN t \ D |-> t[d]]

-----------------------------------------------------------------------------
(* fs_init, and proc_init as far as init.                                  *)
Init ==
  /\ tab = [p \in Proc |-> NoFd]
  /\ pwd = [p \in Proc |-> NoNode]
  /\ bootfs = NoNode
  /\ \E size \in [Node -> 0..MaxSize] :
       /\ size[Root] = 0 /\ size[Console] = 0
       /\ sys = [core  |-> [n \in Node |-> IF n # Console THEN NoInode
                           ELSE [ref |-> 1, open |-> 0, reclaim |-> 0, size |-> 0,
                                 dirty |-> FALSE]],
                 disk |-> size, panic |-> FALSE]
  /\ life = [p \in Proc |-> IF p = InitProc THEN "thread" ELSE "none"]
  /\ lost = [n \in Node |-> [ref |-> 0, open |-> 0]]

Runs(p) == life[p] \in {"thread", "live"} /\ ~sys.panic
(* A system call of a process.                                             *)
Calls(p) == life[p] = "live" /\ ~sys.panic

(* init_main: vfs_set_bootfs, with vfs_chdir and vfs_get_curdir.           *)
SetBootfs ==
  /\ bootfs = NoNode
  /\ bootfs' = Root
  /\ pwd' = [pwd EXCEPT ![InitProc] = Root]
  /\ LET found == Load(sys, Root) IN
     sys' = RefInc(RefDec(RefInc(found, Root), Root), Root)
  /\ UNCHANGED <<tab, life, lost>>

MayLose  == SumFunction([n \in Node |-> lost[n].ref]) < MaxLost
Loses(n) == MayLose /\ lost' = [lost EXCEPT ![n].ref = @ + 1]

Open(p, n, fl) ==
  LET r == file_open(tab[p], sys, n, fl) IN
  /\ Calls(p)
  /\ tab' = [tab EXCEPT ![p] = r.tab]
  /\ sys' = r.s
  /\ IF r.ret = "exists" THEN Loses(n) ELSE UNCHANGED lost
  /\ UNCHANGED <<pwd, bootfs, life>>

(* There is no such name: no directory can create one.                     *)
OpenMissing(p, fl) ==
  /\ Calls(p) /\ NextFd(tab[p]) < NFD
  /\ "CREAT" \in fl[2] /\ ~("TRUNC" \in fl[2] /\ fl[1] = "RDONLY")
  /\ sys' = [sys EXCEPT !.panic = TRUE]
  /\ UNCHANGED <<tab, pwd, bootfs, life, lost>>

Close(p, d) ==
  /\ Calls(p) /\ d \in DOMAIN tab[p]
  /\ tab' = [tab EXCEPT ![p] = Without(@, {d})]
  /\ sys' = CloseAll(tab[p], sys, {d})
  /\ UNCHANGED <<pwd, bootfs, life, lost>>

(* What a descriptor was opened for.                                       *)
Allows(e, op) == /\ op = "read"  => e.access # "WRONLY"
                 /\ op = "write" => e.access # "RDONLY"
Operates(p, d, op) ==
  /\ Calls(p) /\ d \in DOMAIN tab[p] /\ Allows(tab[p][d], op)
  /\ UNCHANGED <<pwd, bootfs, life, lost>>

(* Calls that are allowed and whose operation the node does not have.      *)
WrongUses(p) ==
  {<<d, op>> \in (DOMAIN tab[p]) \X {"read", "write", "tryseek", "fsync", "getdirentry"} :
     Allows(tab[p][d], op) /\ ~HasOp(tab[p][d].node, op)}
Panics(p) ==
  /\ Calls(p) /\ WrongUses(p) # {}
  /\ sys' = [sys EXCEPT !.panic = TRUE]
  /\ UNCHANGED <<tab, pwd, bootfs, life, lost>>

(* file_read: no further than the end.  The position of a device does not  *)
(* matter to anybody and stays 0.                                          *)
Read(p, d) ==
  LET f == tab[p][d].node IN
  /\ Operates(p, d, "read") /\ f \in File
  /\ \E pos \in (tab[p][d].pos + 1)..sys.core[f].size :
       tab' = [tab EXCEPT ![p][d].pos = pos]
  /\ UNCHANGED sys

(* file_write: the position moves over what was written; how large the     *)
(* file is then, sfs_io_nolock says, and module Sfs.                       *)
Write(p, d) ==
  LET f == tab[p][d].node IN
  /\ Operates(p, d, "write") /\ f \in File
  /\ \E pos \in (tab[p][d].pos + 1)..MaxSize :
       /\ tab' = [tab EXCEPT ![p][d].pos = pos]
       /\ \/ pos <= sys.core[f].size /\ UNCHANGED sys
          \/ \E size \in Max({pos, sys.core[f].size + 1})..MaxSize :
               sys' = Resize(sys, f, size)

(* file_seek; the file grows as far as that.                               *)
Seek(p, d) ==
  LET f == tab[p][d].node IN
  /\ Operates(p, d, "tryseek") /\ f \in File
  /\ \E pos \in 0..MaxSize :
       /\ tab' = [tab EXCEPT ![p][d].pos = pos]
       /\ sys' = IF pos > sys.core[f].size THEN Resize(sys, f, pos) ELSE sys

FsyncFd(p, d) ==
  LET n == tab[p][d].node IN
  /\ Operates(p, d, "fsync") /\ HasOp(n, "fsync")
  /\ sys' = Fsync(sys, n) /\ UNCHANGED tab

(* file_dup and fd_array_dup; e may be asked for, or is the next.          *)
Dup(p, d, e) ==
  LET n == tab[p][d].node IN
  /\ Calls(p) /\ d \in DOMAIN tab[p] /\ e \in Fd \ DOMAIN tab[p]
  /\ tab' = [tab EXCEPT ![p] = With(@, e, @[d])]
  /\ sys' = OpenInc(RefInc(sys, n), n)
  /\ UNCHANGED <<pwd, bootfs, life, lost>>

-----------------------------------------------------------------------------
(* dup_files, for a process c that was just made.                          *)
dup_files(s, p) ==
  FoldSet(LAMBDA d, x : OpenInc(RefInc(x, tab[p][d].node), tab[p][d].node),
          IF pwd[p] = NoNode THEN s ELSE RefInc(s, pwd[p]), DOMAIN tab[p])

(* do_fork; init makes one thread.                                         *)
Fork(p, c) ==
  /\ life[c] = "none"
  /\ Calls(p) \/ (Runs(p) /\ p = InitProc)
  /\ p = InitProc => bootfs # NoNode /\ \A u \in User : life[u] = "none"
  /\ life' = [life EXCEPT ![c] = life[p]]
  /\ tab' = [tab EXCEPT ![c] = tab[p]]
  /\ pwd' = [pwd EXCEPT ![c] = pwd[p]]
  /\ sys' = dup_files(sys, p)
  /\ UNCHANGED <<bootfs, lost>>

(* files_destroy.                                                          *)
Destroyed(s, t, p) ==
  CloseAll(t, IF pwd[p] = NoNode THEN s ELSE RefDec(s, pwd[p]), Fd)

(* do_exit of a process that has the table t, in system s.  If it has no   *)
(* mm, put_files is not called.                                            *)
Held(t, n) == Cardinality({d \in DOMAIN t : t[d].node = n})
Exits(p, t, s, has_mm) ==
  /\ life' = [life EXCEPT ![p] = "none"]
  /\ tab' = [tab EXCEPT ![p] = NoFd]
  /\ pwd' = [pwd EXCEPT ![p] = NoNode]
  /\ IF has_mm THEN sys' = Destroyed(s, t, p) /\ UNCHANGED lost
     ELSE /\ MayLose
          /\ sys' = s
          /\ lost' = [n \in Node |->
                       [ref  |-> lost[n].ref + Held(t, n) + IF pwd[p] = n THEN 1 ELSE 0,
                        open |-> lost[n].open + Held(t, n)]]
  /\ UNCHANGED bootfs

Exit(p) == Calls(p) /\ Exits(p, tab[p], sys, TRUE)

(* do_execve of f: the program is opened, and stays open; it may be no     *)
(* program, which load_icode finds out when the mm is gone.  It reads the  *)
(* file here and there, not beyond its end.                                *)
Exec(p, f) ==
  LET D == {d \in Fd : d >= Kept}
      s == CloseAll(tab[p], sys, D)
      t == Without(tab[p], D)
      r == file_open(t, s, f, <<"RDONLY", {}>>)
  IN /\ Runs(p) /\ p \in User
     /\ IF r.ret # "ok" THEN Exits(p, t, r.s, life[p] = "live")
        ELSE \/ Exits(p, r.tab, r.s, FALSE)
             \/ /\ life' = [life EXCEPT ![p] = "live"]
                /\ \E pos \in 0..r.s.core[f].size :
                     tab' = [tab EXCEPT ![p] = [r.tab EXCEPT ![r.fd].pos = pos]]
                /\ sys' = r.s
                /\ UNCHANGED <<pwd, bootfs, lost>>

(* The program is missing.                                                 *)
ExecMissing(p) ==
  LET D == {d \in Fd : d >= Kept} IN
  /\ Runs(p) /\ p \in User
  /\ Exits(p, Without(tab[p], D), CloseAll(tab[p], sys, D), life[p] = "live")

(* fs_cleanup, when there are no processes left: sfs_sync.                 *)
Cleanup ==
  /\ ~sys.panic /\ bootfs # NoNode /\ \A u \in User : life[u] = "none"
  /\ sys' = FoldSet(LAMBDA n, s : IF s.core[n] = NoInode THEN s ELSE Fsync(s, n), sys, Node)
  /\ UNCHANGED <<tab, pwd, bootfs, life, lost>>

Next ==
  \/ SetBootfs \/ Cleanup
  \/ \E p \in Proc :
       \/ Exit(p) \/ ExecMissing(p) \/ Panics(p)
       \/ \E c \in User : Fork(p, c)
       \/ \E f \in File : Exec(p, f)
       \/ \E fl \in Flags : OpenMissing(p, fl) \/ \E n \in Node : Open(p, n, fl)
       \/ \E d \in Fd :
            \/ Close(p, d) \/ Read(p, d) \/ Write(p, d) \/ Seek(p, d) \/ FsyncFd(p, d)
            \/ \E e \in Fd : Dup(p, d, e)

Spec == Init /\ [][Next]_vars

-----------------------------------------------------------------------------
(* An inode is in memory exactly as long as somebody refers to it, and its *)
(* counters are the numbers of working directories and descriptors of all  *)
(* processes, after every fork, exec and exit in between, but for what was *)
(* lost in the two known places: with too few references it would be freed *)
(* in use, with too many its file system could never be unmounted.         *)
OpenCount(n) == Cardinality({e \in Proc \X Fd : e[2] \in DOMAIN tab[e[1]]
                                               /\ tab[e[1]][e[2]].node = n})
Others(n) == Cardinality({p \in Proc : pwd[p] = n})
             + (IF bootfs = n THEN 1 ELSE 0) + (IF n = Console THEN 1 ELSE 0)

Counted ==
  ~sys.panic =>
    \A n \in Node :
      LET refs == OpenCount(n) + Others(n) + lost[n].ref
          c    == sys.core[n]
      IN IF refs = 0 THEN c = NoInode
         ELSE c # NoInode /\ c.ref = refs /\ c.open = OpenCount(n) + lost[n].open

(* Processes see their descriptors and one size of each file, through any  *)
(* history of inodes that are given up, written back and loaded again.     *)
Abs == INSTANCE AbsFiles WITH
  Access <- {"RDONLY", "WRONLY", "RDWR"},
  size   <- [n \in Node |-> IF sys.core[n] = NoInode THEN sys.disk[n]
                           ELSE sys.core[n].size]

ImplementsFiles == Abs!Spec
=============================================================================

-------------------------------- MODULE Volume --------------------------------
(***************************************************************************)
(* The file systems of lab8 from fs_init to fs_cleanup: the list of devices*)
(* (fs/vfs/vfsdev.c), the mounting of disk0 with whatever fails on the way *)
(* (fs/sfs/sfs_fs.c), the boot file system (fs/vfs/vfs.c), and how a path  *)
(* with a device, a slash or a colon in front leads to an inode            *)
(* (fs/vfs/vfslookup.c, vfspath.c).  Nothing else runs during a call.      *)
(*                                                                         *)
(* A path is a sequence of characters; the names of devices and of the one *)
(* file are characters too.                                                *)
(***************************************************************************)
EXTENDS Integers, Sequences, FiniteSets, FiniteSetsExt, SequencesExt

CONSTANTS
  Disk0,      \* the device that is mountable
  Consoles,   \* stdin and stdout, in the order of dev_init
  Called,     \* the name of the file in the root directory
  MaxName,    \* SFS_MAX_FNAME_LEN
  MaxPath,    \* FS_MAX_FPATH_LEN, the length of paths
  DevBlocks,  \* d_blocks of disk0
  MaxMemory,  \* bound of the model: how many allocations may succeed
  MaxOpened   \* bound of the model: lookups whose inodes are kept

VolumeAssumption ==
  /\ Disk0 \notin Range(Consoles) /\ Called \notin Range(Consoles) \cup {Disk0}
  /\ {MaxName, MaxPath, MaxMemory, MaxOpened} \subseteq Nat /\ DevBlocks \in Nat \ 0..3

Names  == Append(Consoles, Disk0)
Device == Range(Names)
RootNode == "root"
FileNode == "file"
Inode  == Device \cup {RootNode, FileNode}
Path   == UNION {[1..n -> Device \cup {Called, ":", "/"}] : n \in 0..MaxPath}

VARIABLES
  vdevs,   \* vdev_list: name, mountable, and whether there is a fs
  memory,  \* held: what is allocated; left: the allocations that succeed
           \* before one fails
  image,   \* disk0: whether the magic is right, blocks, the bitmap of free
           \* blocks, and unused_blocks
  sfs,     \* free, unused and super_dirty of the mounted volume
  ref,     \* the references to each inode, 0 if it is not in memory
  cwd,     \* pwd of the process
  bootfs,  \* bootfs_node
  opened,  \* history: how many of the references are from lookups
  end      \* "no", or why the kernel has stopped

vars == <<vdevs, memory, image, sfs, ref, cwd, bootfs, opened, end>>

Nothing == "none"
Unmounted == [free |-> {}, unused |-> 0, dirty |-> FALSE]

Init ==
  /\ vdevs = <<>> /\ sfs = Unmounted
  /\ \E n \in 0..MaxMemory : memory = [held |-> {}, left |-> n]
  /\ \E blocks \in {DevBlocks, DevBlocks + 1}, magic \in BOOLEAN :
       \E free \in SUBSET (3..(blocks - 1)) :
         image = [magic |-> magic, blocks |-> blocks, free |-> free,
                  unused |-> Cardinality(free)]
  /\ ref = [n \in Inode |-> 0] /\ opened = [n \in Inode |-> 0]
  /\ cwd = Nothing /\ bootfs = Nothing /\ end = "no"

-----------------------------------------------------------------------------
(* kmalloc of one thing after the other, until one fails.                  *)
kmalloc(m, things) ==
  LET n == Min({Len(things), m.left}) IN
  [held |-> m.held \cup {things[i] : i \in 1..n}, left |-> m.left - n]
Enough(m, things) == Len(things) <= m.left
kfree(m, things)  == [m EXCEPT !.held = @ \ things]

(* vfs_do_add, by way of vfs_add_dev, of the device d.                     *)
Conflicts(d) == \E i \in DOMAIN vdevs : vdevs[i].name = d
vfs_do_add(m, d) ==
  IF ~Enough(m, << <<d, "name">>, <<d, "vdev">> >>)
  THEN [memory |-> kfree(kmalloc(m, << <<d, "name">>, <<d, "vdev">> >>), {<<d, "name">>}),
        ret |-> "no_mem"]
  ELSE IF Conflicts(d) THEN [memory |-> m, ret |-> "exists"]
  ELSE [memory |-> kmalloc(m, << <<d, "name">>, <<d, "vdev">> >>), ret |-> "ok"]

(* dev_init_stdin, dev_init_stdout, dev_init_disk0: any error is a panic.  *)
dev_init ==
  /\ end = "no" /\ Len(vdevs) < Len(Names)
  /\ LET d    == Names[Len(vdevs) + 1]
         own  == IF d = Disk0 THEN << <<d, "inode">>, <<d, "buffer">> >>
                 ELSE << <<d, "inode">> >>
         made == kmalloc(memory, own)
         add  == vfs_do_add(made, d)
     IN IF Enough(memory, own) /\ add.ret = "ok"
        THEN /\ memory' = add.memory
             /\ vdevs'  = <<[name |-> d, mountable |-> d = Disk0, fs |-> FALSE]>> \o vdevs
             /\ ref'    = [ref EXCEPT ![d] = 1]
             /\ UNCHANGED end
        ELSE /\ memory' = IF Enough(memory, own) THEN add.memory ELSE made
             /\ end' = "no device"
             /\ UNCHANGED <<vdevs, ref>>
  /\ UNCHANGED <<image, sfs, cwd, bootfs, opened>>

-----------------------------------------------------------------------------
(* sfs_do_mount.  What it allocates, in order; between the buffer and the  *)
(* hash list it looks at the superblock.  bitmap_create frees the bitmap   *)
(* itself when there is no room for the map.                               *)
Parts == << <<Disk0, "fs">>, <<Disk0, "sfs_buffer">>, <<Disk0, "hash_list">>,
            <<Disk0, "bitmap">>, <<Disk0, "map">> >>
(* What the label frees when part n could not be had.                      *)
Labels(n) == {Parts[i] : i \in 1..(n - 1)}

SuperblockRight == image.magic /\ image.blocks <= DevBlocks

sfs_do_mount(m) ==
  LET first == SubSeq(Parts, 1, 2)
      fails == m.left + 1                 \* the part that there is no room for
  IN IF ~Enough(m, first)
     THEN [memory |-> kfree(kmalloc(m, first), Labels(fails)), ret |-> "no_mem"]
     ELSE IF ~SuperblockRight
     THEN [memory |-> kfree(kmalloc(m, first), Labels(3)), ret |-> "inval"]
     ELSE IF ~Enough(m, Parts)
     THEN [memory |-> kfree(kmalloc(m, Parts), Labels(fails)), ret |-> "no_mem"]
     ELSE [memory |-> kmalloc(m, Parts), ret |-> "ok"]

(* vfs_mount from sfs_init, which takes every error for a panic, as the    *)
(* assertion about the number of free blocks does.                         *)
find_mount(d) == {i \in DOMAIN vdevs : vdevs[i].mountable /\ vdevs[i].name = d}
sfs_init ==
  /\ end = "no" /\ Len(vdevs) = Len(Names) /\ sfs = Unmounted /\ cwd = Nothing
  /\ \A i \in DOMAIN vdevs : ~vdevs[i].fs
  /\ LET r == sfs_do_mount(memory) IN
     /\ memory' = r.memory
     /\ IF r.ret = "ok" /\ image.unused = Cardinality(image.free)
        THEN /\ \E i \in find_mount(Disk0) : vdevs' = [vdevs EXCEPT ![i].fs = TRUE]
             /\ sfs' = [free |-> image.free, unused |-> image.unused, dirty |-> FALSE]
             /\ UNCHANGED end
        ELSE end' = "no root" /\ UNCHANGED <<vdevs, sfs>>
  /\ UNCHANGED <<image, ref, cwd, bootfs, opened>>

-----------------------------------------------------------------------------
(* Names.  r is the value of ref; a result has it with the reference that  *)
(* the caller gets.                                                        *)
Inc(r, n) == [r EXCEPT ![n] = @ + 1]
Dec(r, n) == [r EXCEPT ![n] = @ - 1]

(* vfs_get_root: the root of a file system, or a device as it is.          *)
vfs_get_root(r, name) ==
  LET found == {i \in DOMAIN vdevs : <<vdevs[i].name>> = name} IN
  IF found = {} THEN [ret |-> "no_dev", ref |-> r]
  ELSE LET v == vdevs[CHOOSE i \in found : TRUE] IN
       IF v.fs THEN [ret |-> "ok", node |-> RootNode, ref |-> Inc(r, RootNode)]
       ELSE IF ~v.mountable THEN [ret |-> "ok", node |-> v.name, ref |-> Inc(r, v.name)]
       ELSE [ret |-> "na_dev", ref |-> r]

Referred(r, n) ==
  IF n = Nothing THEN [ret |-> "noent", ref |-> r]
  ELSE [ret |-> "ok", node |-> n, ref |-> Inc(r, n)]

(* Behind position i of the path and the slashes there.                    *)
Skip(path, i) ==
  LET last == Min({j \in i..Len(path) : j = Len(path) \/ path[j + 1] # "/"})
  IN SubSeq(path, last + 1, Len(path))

(* get_device: where to begin, and the rest of the path.                   *)
get_device(r, path) ==
  LET marks == {i \in DOMAIN path : path[i] \in {":", "/"}}
      mark  == Min(marks)
  IN IF marks = {} \/ (path[mark] = "/" /\ mark > 1)
     THEN [at |-> Referred(r, cwd), rest |-> path]
     ELSE IF mark > 1
     THEN [at |-> vfs_get_root(r, SubSeq(path, 1, mark - 1)), rest |-> Skip(path, mark)]
     ELSE IF path[1] = "/"
     THEN [at |-> Referred(r, bootfs), rest |-> Skip(path, 1)]
     ELSE LET dir == Referred(r, cwd) IN
          [at |-> IF dir.ret # "ok" THEN dir
                  ELSE [dir EXCEPT !.node = RootNode, !.ref = Dec(Inc(@, RootNode), cwd)],
           rest |-> Skip(path, 1)]

(* sfs_lookup takes all of the rest for one name; it asserts that this does*)
(* not begin with a slash, and sfs_dirent_search_nolock that it is not too *)
(* long.  A device has nothing in it.                                      *)
vop_lookup(r, n, name) ==
  IF n # RootNode THEN [ret |-> "noent", ref |-> r]
  ELSE IF name[1] = "/" \/ Len(name) > MaxName THEN [ret |-> "panic", ref |-> r]
  ELSE IF name = <<Called>> THEN [ret |-> "ok", node |-> FileNode, ref |-> Inc(r, FileNode)]
  ELSE [ret |-> "noent", ref |-> r]

vfs_lookup(r, path) ==
  LET g == get_device(r, path) IN
  IF g.at.ret # "ok" \/ g.rest = <<>> THEN g.at
  ELSE LET found == vop_lookup(g.at.ref, g.at.node, g.rest)
       IN [found EXCEPT !.ref = Dec(@, g.at.node)]

-----------------------------------------------------------------------------
(* vfs_set_bootfs("disk0:"): chdir, and what the directory is now.         *)
Mounted == \E i \in DOMAIN vdevs : vdevs[i].fs
set_bootfs ==
  /\ end = "no" /\ Mounted /\ bootfs = Nothing
  /\ LET r == vfs_lookup(ref, <<Disk0, ":">>)
         chdir == Dec(Inc(r.ref, r.node), r.node)
     IN /\ ref' = Inc(chdir, r.node) /\ cwd' = r.node /\ bootfs' = r.node
  /\ UNCHANGED <<vdevs, memory, image, sfs, opened, end>>

(* A process looks a path up and keeps what it finds, as vfs_open does, or *)
(* gives it back, as vfs_close does.                                       *)
Runs == end = "no" /\ bootfs # Nothing
Lookup(path) ==
  /\ Runs
  /\ LET r == vfs_lookup(ref, path) IN
     /\ r.ret = "ok" => SumFunction(opened) < MaxOpened
     /\ ref' = r.ref
     /\ opened' = IF r.ret = "ok" THEN Inc(opened, r.node) ELSE opened
     /\ end' = IF r.ret = "panic" THEN "assert" ELSE end
  /\ UNCHANGED <<vdevs, memory, image, sfs, cwd, bootfs>>

GiveBack(n) ==
  /\ Runs /\ opened[n] > 0
  /\ ref' = Dec(ref, n) /\ opened' = Dec(opened, n)
  /\ UNCHANGED <<vdevs, memory, image, sfs, cwd, bootfs, end>>

(* sfs_block_alloc takes the first block of the bitmap; sfs_block_free.    *)
block_alloc ==
  /\ Runs /\ sfs.free # {}
  /\ sfs' = [free |-> sfs.free \ {Min(sfs.free)}, unused |-> sfs.unused - 1, dirty |-> TRUE]
  /\ UNCHANGED <<vdevs, memory, image, ref, cwd, bootfs, opened, end>>
block_free(b) ==
  /\ Runs /\ b \notin sfs.free
  /\ sfs' = [free |-> sfs.free \cup {b}, unused |-> sfs.unused + 1, dirty |-> TRUE]
  /\ UNCHANGED <<vdevs, memory, image, ref, cwd, bootfs, opened, end>>

(* fs_cleanup: sfs_sync writes the superblock and the bitmap.              *)
fs_cleanup ==
  /\ Runs /\ \A n \in Inode : opened[n] = 0
  /\ sfs' = [sfs EXCEPT !.dirty = FALSE]
  /\ image' = IF ~sfs.dirty THEN image
              ELSE [image EXCEPT !.free = sfs.free, !.unused = sfs.unused]
  /\ end' = "halt"
  /\ UNCHANGED <<vdevs, memory, ref, cwd, bootfs, opened>>

Next ==
  \/ dev_init \/ sfs_init \/ set_bootfs \/ block_alloc \/ fs_cleanup
  \/ \E path \in Path : Lookup(path)
  \/ \E n \in Inode : GiveBack(n)
  \/ \E b \in 3..(DevBlocks - 1) : block_free(b)

Spec == Init /\ [][Next]_vars

-----------------------------------------------------------------------------
(* vfs_getcwd into a buffer of len bytes: the name of the device, a colon  *)
(* and the path of the directory, here the root.                           *)
vfs_getcwd(len) ==
  LET head == <<Disk0, ":">> IN
  IF len < Len(head) \/ len - Len(head) <= 2 THEN [ret |-> "no_mem"]
  ELSE [ret |-> "ok", bytes |-> head \o <<"/", "end">>]

(* Whatever was looked up, found or not, and given back again: the count of*)
(* every inode is the number of those who refer to it.                     *)
RefsCounted ==
  end \in {"no", "halt"} =>
    \A n \in Inode :
      ref[n] = opened[n] + (IF cwd = n THEN 1 ELSE 0) + (IF bootfs = n THEN 1 ELSE 0)
               + Cardinality({i \in DOMAIN vdevs : vdevs[i].name = n})

(* Where a path leads, by its form: DEVICE:NAME, /NAME from the boot file  *)
(* system, :NAME from the current file system, NAME from the current       *)
(* directory; slashes in front of NAME do not matter, and a colon behind a *)
(* slash is a part of it.  An assertion fails of a NAME of the disk that is*)
(* longer than names may be, and never else.                               *)
Fails == "fails"
Plain(s)     == \A i \in DOMAIN s : s[i] \notin {":", "/"}
Slashes(s)   == \A i \in DOMAIN s : s[i] = "/"
Within(n, name) ==
  CASE name = <<>> -> n
    [] n = RootNode /\ name = <<Called>> -> FileNode
    [] n = RootNode /\ Len(name) > MaxName -> Fails
    [] OTHER -> Nothing
(* The path is front, mark, slashes and name.                              *)
Reads(path, front, mark, name) ==
  \E i \in 0..Len(path) :
    /\ path = front \o <<mark>> \o SubSeq(path, Len(front) + 2, i) \o name
    /\ Slashes(SubSeq(path, Len(front) + 2, i))
    /\ name = <<>> \/ name[1] # "/"
Leads(path, n) ==
  \/ \E m \in 0..Len(path) : \E d \in Device :
       LET name == SubSeq(path, m + 1, Len(path)) IN
       \/ Reads(path, <<d>>, ":", name) /\ n = Within(IF d = Disk0 THEN RootNode ELSE d, name)
       \/ Reads(path, <<>>, "/", name) /\ n = Within(bootfs, name)
       \/ Reads(path, <<>>, ":", name) /\ n = Within(RootNode, name)
  \/ ~(\E i \in DOMAIN path : path[i] = ":" /\ Plain(SubSeq(path, 1, i - 1)))
     /\ (path = <<>> \/ path[1] # "/") /\ n = Within(cwd, path)

NamesRight ==
  (Runs /\ \A n \in Inode : opened[n] = 0) =>
    /\ \A path \in Path :
         LET r == vfs_lookup(ref, path) IN
         CASE r.ret = "ok"    -> Leads(path, r.node)
           [] r.ret = "panic" -> Leads(path, Fails)
           [] OTHER           -> \A n \in Inode \cup {Fails} : ~Leads(path, n)
    /\ \A len \in 1..8 :
         vfs_getcwd(len).ret = "ok" => Len(vfs_getcwd(len).bytes) <= len

(* A volume is mounted with all its parts or not at all: what could not be *)
(* mounted has given back everything it had; and the image that fs_cleanup *)
(* leaves is one that can be mounted again.                                *)
MountWhole ==
  /\ Range(Parts) \cap memory.held = IF Mounted THEN Range(Parts) ELSE {}
  /\ Mounted => SuperblockRight /\ sfs.unused = Cardinality(sfs.free)
  /\ end = "halt" => image.unused = Cardinality(image.free) /\ image.free = sfs.free
=============================================================================

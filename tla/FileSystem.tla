----------------------------- MODULE FileSystem -----------------------------
(***************************************************************************)
(* The FAT12-style file store of src/fs/filesystem.c, driven by the shell *)
(* commands of src/kernel/kernel.c (touch, rm, mkdir, rmdir, cd) and by   *)
(* the file handlers of src/kernel/syscall.c (open, close, read, write,    *)
(* seek, create, delete, rename, mkdir, rmdir, chdir) on one fs_file_t.    *)
(* fs_format and fs_cleanup have no caller, and fs_init runs once, at boot. *)
(*                                                                         *)
(* fs_read_sector and fs_write_sector do nothing, so the store is the FAT  *)
(* and the root directory; file data is not state.  The FAT is a function *)
(* from cluster to 12-bit value (Fat12 shows the byte packing implements   *)
(* it).  A directory entry keeps the fields that are ever read: name,      *)
(* directory bit and first cluster.  Its size is written 0 and never       *)
(* updated, since fs_write does not write it back.                          *)
(*                                                                         *)
(* Names.  Every command sees a path "/" + argv[1], so a typed name is a   *)
(* path with one or two leading slashes ([lead, base]).  The lookups of    *)
(* find_directory_entry, find_entry and add_directory_entry_to_dir strip *)
(* one slash before convert_filename, remove_directory_entry and           *)
(* update_directory_entry do not: the 8.3 name a path denotes is a key     *)
(* [lvl, base] whose lvl counts the slashes left in it.                    *)
(***************************************************************************)
EXTENDS Integers, FiniteSetsExt, Relation

CONSTANTS
  NClusters,    \* clusters the FAT describes (the loops' bound 2880)
  NRoot,        \* FS_ROOT_ENTRIES
  Bases,        \* names the shell is given, without slashes or dots
  SectorSize,   \* FS_SECTOR_SIZE
  Sizes,        \* byte counts passed to fs_write and fs_read
  SeekOffsets,  \* int32 offsets passed to fs_seek
  MaxFileSize   \* bound on a handle's offset

EOC == 4088          \* 0xFF8: a FAT value at or above it ends a chain
EndMark == 4095      \* 0xFFF, written by fs_allocate_cluster
(* The two name[0] markers, shaped like the keys they stand beside.       *)
EMPTY == [lvl |-> -1, base |-> "0x00"]
DELETED == [lvl |-> -1, base |-> "0xE5"]
(* The paths fs_chdir treats specially, shaped like typed paths.           *)
ROOT == [lead |-> 0, base |-> "/"]
DOTDOT == [lead |-> 0, base |-> ".."]

VARIABLES
  fat,          \* fs_state.fat_table, decoded
  root,         \* fs_state.root_dir
  cwd,          \* current_directory: ROOT or the path fs_chdir accepted
  initialized,  \* fs_state.initialized
  file,         \* the caller's fs_file_t
  hung          \* fs_free_cluster_chain is looping forever

vars == <<fat, root, cwd, initialized, file, hung>>

Clusters == 0..(NClusters - 1)
Paths == [lead : {1, 2}, base : Bases]
Keys == [lvl : 0..2, base : Bases]
Entries == [name : Keys \cup {EMPTY, DELETED}, dir : BOOLEAN, cluster : Clusters]
Zeroed == [name |-> EMPTY, dir |-> FALSE, cluster |-> 0]
(* The bits FS_MODE_READ, WRITE and CREATE of a typed flags number;       *)
(* FS_MODE_APPEND is never read.                                           *)
Flags == SUBSET {"R", "W", "C"}

(* convert_filename of the path after stripping one slash, and of the     *)
(* path as given.                                                          *)
FindKey(p) == [lvl |-> p.lead - 1, base |-> p.base]
RawKey(p) == [lvl |-> p.lead, base |-> p.base]

(* The first root slot whose name is in names, or 0.                       *)
FirstSlot(rt, names) ==
  LET s == {i \in 1..NRoot : rt[i].name \in names} IN IF s = {} THEN 0 ELSE Min(s)

(* find_directory_entry, and find_entry, which scans the same slots: a     *)
(* deleted name starts with 0xE5 and matches no typed path.               *)
FindDirectoryEntry(rt, p) == FirstSlot(rt, {FindKey(p)})

(* fs_find_free_cluster: the lowest free cluster from 2, or -1.           *)
FindFreeCluster(f) ==
  LET s == {c \in 2..(NClusters - 1) : f[c] = 0} IN IF s = {} THEN -1 ELSE Min(s)

(* fs_allocate_cluster: the lowest free cluster, marked as a chain end,   *)
(* or -1 (DISK_FULL) with the FAT unchanged.                              *)
FsAllocateCluster(f) ==
  LET c == FindFreeCluster(f)
  IN [cluster |-> c, fat |-> IF c = -1 THEN f ELSE [f EXCEPT ![c] = EndMark]]

(* fs_free_cluster_chain: zero each FAT entry along the chain until a     *)
(* value >= 0xFF8.  Following a zeroed entry leads to cluster 0; once      *)
(* FAT[0] is 0 too the loop never ends, which fuel detects: every step     *)
(* zeroes a non-zero entry or visits a zero one, so a chain that has not   *)
(* ended after 2 * NClusters + 2 steps never does.                        *)
RECURSIVE FreeChainLoop(_, _, _)
FreeChainLoop(f, c, fuel) ==
  IF c >= EOC THEN [fat |-> f, hung |-> FALSE]
  ELSE IF fuel = 0 THEN [fat |-> f, hung |-> TRUE]
  ELSE FreeChainLoop([f EXCEPT ![c] = 0], f[c], fuel - 1)

FsFreeClusterChain(f, c) == FreeChainLoop(f, c, 2 * NClusters + 2)

(* add_directory_entry_to_dir(p, attr, c, 0, dir).  In the root: the first *)
(* empty or deleted slot.  In a subdirectory: the directory's first sector *)
(* is "read" into a stack buffer that fs_read_sector leaves uninitialized; *)
(* whether its bytes show a free slot (seen) is up to the stack contents,  *)
(* and the entry goes into that buffer, which is never stored.            *)
AddDirectoryEntryToDir(rt, p, isDir, c, dir, seen) ==
  IF dir = ROOT
  THEN LET i == FirstSlot(rt, {EMPTY, DELETED}) IN
       IF i = 0 THEN [root |-> rt, ok |-> FALSE]
       ELSE [root |-> [rt EXCEPT ![i] = [name |-> FindKey(p), dir |-> isDir, cluster |-> c]],
             ok |-> TRUE]
  ELSE LET d == FindDirectoryEntry(rt, dir) IN
       [root |-> rt, ok |-> d # 0 /\ rt[d].dir /\ seen]

(* add_directory_entry: add_directory_entry_to_dir into "/".             *)
AddDirectoryEntry(rt, p, isDir, c) == AddDirectoryEntryToDir(rt, p, isDir, c, ROOT, FALSE)

(* remove_directory_entry and update_directory_entry: the first live slot  *)
(* whose name is the path's unstripped key is marked deleted, or           *)
(* overwritten with e; ok is FALSE (NOT_FOUND) when there is none.        *)
RemoveDirectoryEntry(rt, p) ==
  LET j == FirstSlot(rt, {RawKey(p)})
  IN [ok |-> j # 0, root |-> IF j = 0 THEN rt ELSE [rt EXCEPT ![j] = [Zeroed EXCEPT !.name = DELETED]]]

UpdateDirectoryEntry(rt, p, e) ==
  LET j == FirstSlot(rt, {RawKey(p)})
  IN [ok |-> j # 0, root |-> IF j = 0 THEN rt ELSE [rt EXCEPT ![j] = e]]

(* fs_open(p, mode): the entry found, or with FS_MODE_CREATE a new one on  *)
(* a fresh cluster in the current directory, looked up again afterwards.  *)
(* A failed add frees the cluster; a failed second lookup does not.        *)
(* slot is the entry's slot, 0 when fs_open fails.                        *)
FsOpenResult(p, create, seen) ==
  LET i == FindDirectoryEntry(root, p)
      a == FsAllocateCluster(fat)
      add == AddDirectoryEntryToDir(root, p, FALSE, a.cluster, cwd, seen)
  IN IF i # 0 THEN [fat |-> fat, root |-> root, slot |-> i]
     ELSE IF ~create \/ a.cluster = -1 THEN [fat |-> fat, root |-> root, slot |-> 0]
     ELSE IF ~add.ok THEN [fat |-> FsFreeClusterChain(a.fat, a.cluster).fat, root |-> root, slot |-> 0]
     ELSE [fat |-> a.fat, root |-> add.root, slot |-> FindDirectoryEntry(add.root, p)]

-----------------------------------------------------------------------------
(* fs_init, as kernel_main calls it at boot: a zero FAT with the reserved *)
(* clusters 0 and 1 marked, an empty root directory.                       *)
FsInitFat == [c \in Clusters |-> CASE c = 0 -> EOC [] c = 1 -> EndMark [] OTHER -> 0]
FsInitRoot == [i \in 1..NRoot |-> Zeroed]
ClosedFile == [valid |-> FALSE, cluster |-> 0, offset |-> 0, size |-> 0, mode |-> {}]

Init ==
  /\ fat = FsInitFat
  /\ root = FsInitRoot
  /\ cwd = ROOT
  /\ initialized = TRUE
  /\ file = ClosedFile
  /\ hung = FALSE

(* shell_touch -> fs_create: fs_open with CREATE|WRITE on a local handle, *)
(* then fs_close of it.                                                    *)
FsCreate(p) ==
  /\ ~hung /\ initialized
  /\ \E seen \in BOOLEAN :
        LET r == FsOpenResult(p, TRUE, seen) IN fat' = r.fat /\ root' = r.root
  /\ UNCHANGED <<cwd, initialized, file, hung>>

(* fs_open on the caller's handle.  Only success rewrites it (memset and  *)
(* the fields of the entry; its size field is always 0).  The handle keeps *)
(* the read and write bits of the mode: nothing reads FS_MODE_CREATE later. *)
FsOpen(p, mode) ==
  /\ ~hung /\ initialized
  /\ \E seen \in BOOLEAN :
        LET r == FsOpenResult(p, "C" \in mode, seen) IN
        /\ fat' = r.fat /\ root' = r.root
        /\ file' = IF r.slot = 0 THEN file
                   ELSE [valid |-> TRUE, cluster |-> r.root[r.slot].cluster,
                         offset |-> 0, size |-> 0, mode |-> mode \ {"C"}]
  /\ UNCHANGED <<cwd, initialized, hung>>

FsClose ==
  /\ file.valid
  /\ file' = [file EXCEPT !.valid = FALSE]
  /\ UNCHANGED <<fat, root, cwd, initialized, hung>>

(* fs_delete (rm) and fs_rmdir: find the entry, free its chain, then      *)
(* remove_directory_entry of the unstripped path, whose failure returns    *)
(* IO_ERROR with the chain already freed.                                  *)
RemoveEntry(p, isDir) ==
  LET i == FindDirectoryEntry(root, p)
      r == FsFreeClusterChain(fat, root[i].cluster)
  IN /\ ~hung /\ initialized
     /\ i # 0
     /\ root[i].dir = isDir
     /\ IF root[i].cluster # 0 THEN fat' = r.fat /\ hung' = r.hung
        ELSE UNCHANGED <<fat, hung>>
     /\ root' = RemoveDirectoryEntry(root, p).root
     /\ UNCHANGED <<cwd, initialized, file>>

FsDelete(p) == RemoveEntry(p, FALSE)

FsRmdir(p) == RemoveEntry(p, TRUE)

(* fs_mkdir: a path that is not found gets a cluster and a root entry;   *)
(* with no free slot the one-cluster chain is freed again, which leaves    *)
(* the FAT as it was.                                                      *)
FsMkdir(p) ==
  LET a == FsAllocateCluster(fat)
      add == AddDirectoryEntry(root, p, TRUE, a.cluster)
  IN /\ ~hung /\ initialized
     /\ FindDirectoryEntry(root, p) = 0
     /\ a.cluster # -1
     /\ add.ok
     /\ fat' = a.fat
     /\ root' = add.root
     /\ UNCHANGED <<cwd, initialized, file, hung>>

(* Mutant: the ".." branch copies the path it was given into            *)
(* current_directory instead of "/".                                       *)
FsChdirCopiesDotDot(a) ==
  /\ ~hung /\ initialized
  /\ \/ a = ROOT /\ cwd' = ROOT
     \/ a = DOTDOT /\ cwd # ROOT /\ cwd' = a
     \/ /\ a \in Paths
        /\ FindDirectoryEntry(root, a) # 0
        /\ root[FindDirectoryEntry(root, a)].dir
        /\ cwd' = a
  /\ UNCHANGED <<fat, root, initialized, file, hung>>

(* shell_cd -> fs_chdir.  The shell turns "cd .." at "/" into a warning;  *)
(* fs_chdir takes "/" and ".." to the root and any other path found by    *)
(* find_entry with the directory bit into current_directory.  "cd ."      *)
(* finds no entry and changes nothing.                                     *)
FsChdir(a) ==
  /\ ~hung /\ initialized
  /\ \/ a = ROOT /\ cwd' = ROOT
     \/ a = DOTDOT /\ cwd # ROOT /\ cwd' = ROOT
     \/ /\ a \in Paths
        /\ FindDirectoryEntry(root, a) # 0
        /\ root[FindDirectoryEntry(root, a)].dir
        /\ cwd' = a
  /\ UNCHANGED <<fat, root, initialized, file, hung>>

(* fs_rename: the entry found for old, renamed to new's unstripped key,   *)
(* overwrites the slot update_directory_entry finds for old's unstripped  *)
(* key; if none, IO_ERROR and nothing changes.                             *)
FsRename(old, new) ==
  LET i == FindDirectoryEntry(root, old)
      u == UpdateDirectoryEntry(root, old, [root[i] EXCEPT !.name = RawKey(new)])
  IN /\ ~hung /\ initialized
     /\ i # 0
     /\ FindDirectoryEntry(root, new) = 0
     /\ u.ok
     /\ root' = u.root
     /\ UNCHANGED <<fat, cwd, initialized, file, hung>>

(* The loop of fs_write from state st = [fat, cur, sec, offset, size,     *)
(* written]: sec is current_sector % 2, all the code tests of it, since    *)
(* FS_DATA_SECTOR + (cluster - 2) * 2 is odd for every cluster.  At a      *)
(* sector end with an even sector next it moves to the next cluster, or    *)
(* at a chain end links a newly allocated one; a failed fs_read_fat       *)
(* (cleanup) or allocation returns early with the handle already moved.   *)
(* sector_bytes: the rest of the current sector, cut to what is left.    *)
SectorBytes(st, size) ==
  LET rest == SectorSize - (st.offset % SectorSize)
  IN IF rest > size - st.written THEN size - st.written ELSE rest

(* Mutant: the end-of-chain test is dropped, so every cluster boundary    *)
(* links a newly allocated cluster over the existing next one.             *)
RECURSIVE WriteLoopAllocAlways(_, _)
WriteLoopAllocAlways(st, size) ==
  IF st.written >= size THEN st
  ELSE LET sb == SectorBytes(st, size)
           off == st.offset + sb
           s1 == [st EXCEPT !.written = @ + sb, !.offset = off,
                            !.size = IF off > @ THEN off ELSE @]
           c == FindFreeCluster(st.fat)
       IN IF off % SectorSize # 0 THEN WriteLoopAllocAlways(s1, size)
          ELSE IF st.sec = 0 THEN WriteLoopAllocAlways([s1 EXCEPT !.sec = 1], size)
          ELSE IF ~initialized \/ c = -1 THEN s1
          ELSE WriteLoopAllocAlways([s1 EXCEPT !.fat = [st.fat EXCEPT ![c] = EndMark, ![st.cur] = c],
                                               !.cur = c, !.sec = 1], size)

RECURSIVE WriteLoop(_, _)
WriteLoop(st, size) ==
  IF st.written >= size THEN st
  ELSE LET sb == SectorBytes(st, size)
           off == st.offset + sb
           s1 == [st EXCEPT !.written = @ + sb, !.offset = off,
                            !.size = IF off > @ THEN off ELSE @]
           next == st.fat[st.cur]
           a == FsAllocateCluster(st.fat)
       IN IF off % SectorSize # 0 THEN WriteLoop(s1, size)
          ELSE IF st.sec = 0 THEN WriteLoop([s1 EXCEPT !.sec = 1], size)
          ELSE IF ~initialized THEN s1
          ELSE IF next < EOC THEN WriteLoop([s1 EXCEPT !.cur = next, !.sec = 1], size)
          ELSE IF a.cluster = -1 THEN s1
          ELSE WriteLoop([s1 EXCEPT !.fat = [a.fat EXCEPT ![st.cur] = a.cluster],
                                    !.cur = a.cluster, !.sec = 1], size)

(* The loop of fs_read, after bytes_to_read is cut to what is left of the *)
(* file: the same walk, ending at a chain end with fewer bytes read.       *)
RECURSIVE ReadLoop(_, _)
ReadLoop(st, size) ==
  IF st.written >= size THEN st
  ELSE LET sb == SectorBytes(st, size)
           off == st.offset + sb
           s1 == [st EXCEPT !.written = @ + sb, !.offset = off]
       IN IF off % SectorSize # 0 THEN ReadLoop(s1, size)
          ELSE IF st.sec = 0 THEN ReadLoop([s1 EXCEPT !.sec = 1], size)
          ELSE IF ~initialized \/ fat[st.cur] >= EOC THEN s1
          ELSE ReadLoop([s1 EXCEPT !.cur = fat[st.cur], !.sec = 1], size)

(* The walk starts at the file's first cluster whatever the offset.        *)
WalkStart(f) ==
  [fat |-> fat, cur |-> f.cluster, sec |-> (1 + f.offset \div SectorSize) % 2,
   offset |-> f.offset, size |-> f.size, written |-> 0]

FsWrite(n) ==
  LET r == WriteLoop(WalkStart(file), n) IN
  /\ file.valid /\ "W" \in file.mode
  /\ file.offset + n <= MaxFileSize
  /\ fat' = r.fat
  /\ file' = [file EXCEPT !.offset = r.offset, !.size = r.size]
  /\ UNCHANGED <<root, cwd, initialized, hung>>

FsRead(n) ==
  LET left == file.size - file.offset
      r == ReadLoop(WalkStart(file), IF n > left THEN left ELSE n)
  IN /\ file.valid /\ "R" \in file.mode
     /\ file.offset < file.size
     /\ file' = [file EXCEPT !.offset = r.offset]
     /\ UNCHANGED <<fat, root, cwd, initialized, hung>>

(* fs_seek: SEEK_SET, SEEK_CUR or SEEK_END plus an int32 offset, computed *)
(* in uint32, and refused past the end of the file.  A negative sum wraps  *)
(* to 2^32 + sum, at least 2^31 and so past any size, which is what         *)
(* Uint32(x) > size says without TLC's 32-bit signed integers.             *)
Uint32PastSize(x, size) == x < 0 \/ x > size

(* Mutant: the new offset is not checked against the size.               *)
FsSeekUnchecked(o, whence) ==
  LET base == CASE whence = 0 -> 0 [] whence = 1 -> file.offset [] whence = 2 -> file.size
  IN /\ file.valid
     /\ base + o >= 0
     /\ file' = [file EXCEPT !.offset = base + o]
     /\ UNCHANGED <<fat, root, cwd, initialized, hung>>

FsSeek(o, whence) ==
  LET base == CASE whence = 0 -> 0 [] whence = 1 -> file.offset [] whence = 2 -> file.size
      new == base + o
  IN /\ file.valid
     /\ ~Uint32PastSize(new, file.size)
     /\ file' = [file EXCEPT !.offset = new]
     /\ UNCHANGED <<fat, root, cwd, initialized, hung>>

(* An argument typed after a shell command, with or without its own       *)
(* leading slash; shell_touch, shell_rm, shell_mkdir, shell_rmdir and      *)
(* shell_cd build the path "/" + argv[1] from it.  shell_cd passes "..",  *)
(* "." and "/" through as typed.                                          *)
Args == [slash : BOOLEAN, base : Bases]
ShellPath(arg) == [lead |-> IF arg.slash THEN 2 ELSE 1, base |-> arg.base]

(* The shell reaches touch, rm, mkdir, rmdir and cd.                     *)
ShellStep ==
  \/ \E arg \in Args :
        LET p == ShellPath(arg) IN FsCreate(p) \/ FsDelete(p) \/ FsMkdir(p) \/ FsRmdir(p)
  \/ \E arg \in Args : FsChdir(ShellPath(arg))
  \/ \E a \in {ROOT, DOTDOT} : FsChdir(a)

(* "syscall 10..14 <args>": sys_open hands fs_open the string at a typed   *)
(* address and the flags typed, and returns the address of its own local   *)
(* fs_file_t; sys_close, sys_read, sys_write and sys_seek call fs_close,    *)
(* fs_read, fs_write and fs_seek on the fs_file_t at a typed address.  The *)
(* model takes that to be the handle the last successful sys_open filled,  *)
(* its bytes intact, and a non-NULL buffer; a whence outside 0..2 is       *)
(* refused by fs_seek and changes nothing.                                 *)
SysFileStep ==
  \/ \E p \in Paths, m \in Flags : FsOpen(p, m)
  \/ FsClose
  \/ \E n \in Sizes : FsWrite(n) \/ FsRead(n)
  \/ \E o \in SeekOffsets, w \in 0..2 : FsSeek(o, w)

(* "syscall 16..21 <path>": sys_create, sys_delete, sys_rename, sys_mkdir,  *)
(* sys_rmdir and sys_chdir copy the string at a typed address and call    *)
(* the fs_ function on it.  validate_path refuses a path without a leading *)
(* "/", so those strings are the paths the shell builds; rename is reached *)
(* only here.                                                              *)
SysPathStep ==
  \/ \E p \in Paths : FsCreate(p) \/ FsDelete(p) \/ FsMkdir(p) \/ FsRmdir(p) \/ FsChdir(p)
  \/ \E p, q \in Paths : FsRename(p, q)

Next == ShellStep \/ SysFileStep \/ SysPathStep

Spec == Init /\ [][Next]_vars

-----------------------------------------------------------------------------
TypeOK ==
  /\ fat \in [Clusters -> {0, EOC, EndMark} \cup 2..(NClusters - 1)]
  /\ root \in [1..NRoot -> Entries]
  /\ cwd \in {ROOT} \cup Paths
  /\ file \in [valid : BOOLEAN, cluster : Clusters, offset : 0..MaxFileSize,
               size : 0..MaxFileSize, mode : SUBSET {"R", "W"}]

(* The clusters a chain starting at c visits.                              *)
Chain(c) ==
  LET reach == ReflexiveTransitiveClosure([x, y \in Clusters |-> fat[x] = y], Clusters)
  IN {x \in Clusters : reach[c, x]}

LiveSlots == {i \in 1..NRoot : root[i].name \in Keys}

(* No cluster belongs to the chains of two directory entries: rm and     *)
(* rmdir take a name out of the directory when they free its clusters,     *)
(* so fs_allocate_cluster never hands a live file's cluster to another.    *)
NoCrossLinks ==
  \A i, j \in LiveSlots :
     i # j => Chain(root[i].cluster) \cap Chain(root[j].cluster) = {}

(* fs_free_cluster_chain terminates: no command sends the kernel into a   *)
(* loop that never returns to the shell.                                   *)
NoHang == ~hung

(* The open handle's offset never passes the file size: fs_seek refuses   *)
(* such an offset in uint32 arithmetic, fs_read stops at the size and      *)
(* fs_write grows it.                                                      *)
HandleWithinFile == file.valid => file.offset <= file.size

(* A data cluster's link to the next cluster is only ever cleared, never  *)
(* redirected: fs_write extends a chain only at its end marker, so even a  *)
(* write through a stale handle or over a chain two entries share cannot  *)
(* splice clusters out of a chain.                                         *)
LinksOnlyFreed ==
  [][\A c \in 2..(NClusters - 1) :
        fat[c] \in 2..(NClusters - 1) /\ fat'[c] # fat[c] => fat'[c] = 0]_vars
====

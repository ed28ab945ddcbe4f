----------------------------- MODULE FileGrowth -----------------------------
(***************************************************************************)
(* Files that grow: inode_create, inode_resize, inode_write_at,            *)
(* inode_read_at, inode_deny_write, inode_allow_write, byte_to_sector and  *)
(* the freeing of a removed file's sectors in inode_close                  *)
(* (filesys/inode.c), on the free map of filesys/free-map.c.               *)
(*                                                                         *)
(* A file has a doubly indirect block of pointers to indirect blocks of    *)
(* pointers to data sectors.  inode_resize works on private copies of the  *)
(* inode and of two index blocks and commits them one by one.  The inode's *)
(* monitor is the lock of RWLock, which InodeMonitor implements; the free  *)
(* map has its own lock, so that resizes of different files interleave at  *)
(* each allocation and release.  The contents of data sectors and the      *)
(* sector of the inode itself are left out.                                *)
(***************************************************************************)
EXTENDS Integers, FiniteSets, FiniteSetsExt

CONSTANTS
  Thread,
  Files,              \* number of files; the last one is still to be created
  Sectors,            \* number of sectors for index and data
  NUM_POINTERS,       \* pointers in an index block (128 in the code)
  BLOCK_SECTOR_SIZE,  \* bytes in a sector (512 in the code)
  Ends,               \* bound: sizes created, and ends of writes (size + offset)
  FirstLength,        \* length of the files there are at the start
  MaxOps,             \* bound: operations of all threads together
  None

\* What the constants may be.
GrowthConstants ==
  /\ IsFiniteSet(Thread) /\ None \notin Thread
  /\ {Files, Sectors, NUM_POINTERS, BLOCK_SECTOR_SIZE} \subseteq Nat \ {0}
  /\ Ends \subseteq 0..(BLOCK_SECTOR_SIZE * NUM_POINTERS * NUM_POINTERS)
  /\ FirstLength \in 0..BLOCK_SECTOR_SIZE /\ MaxOps \in Nat
  /\ 3 * (Files - 1) <= Sectors

File == 1..Files
Sector == 1..Sectors
NoSector == 0
Ptr == 0..(NUM_POINTERS - 1)
Block == [Ptr -> Sector \cup {NoSector}]
ZeroBlock == [p \in Ptr |-> NoSector]
Inode == [length : Nat, indirect_ptr_idx : Sector \cup {NoSector}]
NoInode == [length |-> 0, indirect_ptr_idx |-> NoSector]

\* Bytes covered by a pointer to an indirect block.
Level1 == BLOCK_SECTOR_SIZE * NUM_POINTERS

VARIABLES
  free_map,        \* the free sectors
  block,           \* Sector -> its contents as an index block
  inode,           \* File -> the inode on disk
  exists,          \* the files there are
  readers, writer, \* File -> threads inside the monitor
  pc, op,          \* of each thread: place and request
  resize,          \* of each thread: parameter and variables of inode_resize
  denies,          \* of each thread: the file it has open and denies writes to, or 0
  ops, panic,      \* operations so far; an ASSERT failed
  dangling         \* an inode on disk points to a released doubly indirect block

disk == <<free_map, block>>
files == <<inode, exists>>
monitor == <<readers, writer>>
vars == <<disk, files, monitor, pc, op, resize, denies, ops, panic, dangling>>

Request == [kind : {"none", "create", "write", "read", "remove"}, file : 0..Files, end : Nat]
NoRequest == [kind |-> "none", file |-> 0, end |-> 0]

Locals == [disk_inode : Inode, doubly_indirect_ptr : Block, indirect_ptr : Block,
           i : 0..NUM_POINTERS, j : 0..NUM_POINTERS, size : Nat, failed : BOOLEAN]
NoLocals == [disk_inode |-> NoInode, doubly_indirect_ptr |-> ZeroBlock,
             indirect_ptr |-> ZeroBlock, i |-> 0, j |-> 0, size |-> 0, failed |-> FALSE]

\* The sectors of file f of the start are 3f - 2, 3f - 1 and 3f, only the first
\* if it was created empty.
Init ==
  LET idx(f) == 3 * f - 2
      last(f) == IF FirstLength = 0 THEN idx(f) ELSE 3 * f
  IN
  /\ exists = 1..(Files - 1)
  /\ inode = [f \in File |-> IF f = Files THEN NoInode
                             ELSE [length |-> FirstLength, indirect_ptr_idx |-> idx(f)]]
  /\ free_map = Sector \ UNION {idx(f)..last(f) : f \in exists}
  /\ block = [s \in Sector |-> [p \in Ptr |->
                IF p = 0 /\ \E f \in exists : s \in idx(f)..(last(f) - 1) THEN s + 1 ELSE NoSector]]
  /\ readers = [f \in File |-> {}] /\ writer = [f \in File |-> None]
  /\ pc = [t \in Thread |-> "idle"] /\ op = [t \in Thread |-> NoRequest]
  /\ resize = [t \in Thread |-> NoLocals] /\ denies = [t \in Thread |-> 0]
  /\ ops = 0 /\ panic = FALSE /\ dangling = FALSE
-----------------------------------------------------------------------------
Goto(t, l) == pc' = [pc EXCEPT ![t] = l]

\* Some thread has the file open.
InUse(f) == \E t \in Thread : op[t].file = f \/ denies[t] = f

\* deny_write_cnt is not 0.
Denied(f) == \E t \in Thread : denies[t] = f

Start(t, kind, f, end) ==
  /\ pc[t] = "idle" /\ ops < MaxOps /\ ~panic
  /\ op' = [op EXCEPT ![t] = [kind |-> kind, file |-> f, end |-> end]]
  /\ ops' = ops + 1

\* free_map_allocate: the first free sector, if there is one.
Allocated == Min(free_map)

\* add_sector_to_file: allocate a sector and clear it.
add_sector_to_file ==
  /\ free_map # {}
  /\ free_map' = free_map \ {Allocated}
  /\ block' = [block EXCEPT ![Allocated] = ZeroBlock]
  /\ UNCHANGED panic

\* free_map_release asserts that the sector is in use.
free_map_release(s) ==
  /\ panic' = (s \in free_map)
  /\ free_map' = free_map \cup {s}

\* A call of inode_resize on a private copy d of the inode.
CallResize(t, d, n) ==
  /\ resize' = [resize EXCEPT ![t] = [NoLocals EXCEPT !.disk_inode = d, !.size = n]]
  /\ Goto(t, "resize")
-----------------------------------------------------------------------------
\* Failure of an allocation: inode_resize calls itself with the original length.
RollBack(t) ==
  /\ free_map = {}
  /\ resize' = [resize EXCEPT ![t] = [NoLocals EXCEPT !.disk_inode = resize[t].disk_inode,
                                                      !.size = resize[t].disk_inode.length,
                                                      !.failed = TRUE]]
  /\ Goto(t, "resize")
  /\ UNCHANGED <<denies, disk, panic>>

\* inode_resize up to the loops: get or allocate the doubly indirect block (every
\* inode inode_create has made has one; the code provides for one without).
resize_start(t) ==
  LET r == resize[t]
      idx == r.disk_inode.indirect_ptr_idx
  IN
  /\ pc[t] = "resize" /\ ~panic
  /\ \/ /\ idx = NoSector /\ r.size = 0
        /\ Goto(t, "resized")
        /\ UNCHANGED <<disk, resize, panic>>
     \/ idx = NoSector /\ r.size # 0 /\ RollBack(t)
     \/ /\ idx = NoSector /\ r.size # 0
        /\ add_sector_to_file
        /\ resize' = [resize EXCEPT ![t].disk_inode.indirect_ptr_idx = Allocated]
        /\ Goto(t, "outer")
     \/ /\ idx # NoSector
        /\ resize' = [resize EXCEPT ![t].doubly_indirect_ptr = block[idx]]
        /\ Goto(t, "outer")
        /\ UNCHANGED <<disk, panic>>
  /\ UNCHANGED <<denies, files, monitor, op, ops, dangling>>

\* The head of the loop over i: get or allocate the indirect block, or skip.
resize_outer(t) ==
  LET r == resize[t]
      s == r.doubly_indirect_ptr[r.i]
      need == r.size > r.i * Level1 /\ s = NoSector
  IN
  /\ pc[t] = "outer" /\ r.i < NUM_POINTERS /\ ~panic
  /\ \/ need /\ RollBack(t)
     \/ /\ need /\ add_sector_to_file
        /\ resize' = [resize EXCEPT ![t].doubly_indirect_ptr[r.i] = Allocated,
                                    ![t].indirect_ptr = ZeroBlock, ![t].j = 0]
        /\ Goto(t, "inner")
     \/ /\ s # NoSector
        /\ resize' = [resize EXCEPT ![t].indirect_ptr = block[s], ![t].j = 0]
        /\ Goto(t, "inner")
        /\ UNCHANGED <<disk, panic>>
     \/ /\ ~need /\ s = NoSector
        /\ resize' = [resize EXCEPT ![t].i = @ + 1]
        /\ UNCHANGED <<disk, panic, pc>>
  /\ UNCHANGED <<denies, files, monitor, op, ops, dangling>>

\* Mutant of resize_inner: a sector that is partly used is not allocated.
resize_inner_RoundsDown(t) ==
  LET r == resize[t]
      s == r.indirect_ptr[r.j]
      need == r.size > r.i * Level1 + (r.j + 1) * BLOCK_SECTOR_SIZE - 1
  IN
  /\ pc[t] = "inner" /\ r.j < NUM_POINTERS /\ ~panic
  /\ \/ need /\ s = NoSector /\ RollBack(t)
     \/ /\ need /\ s = NoSector /\ add_sector_to_file
        /\ resize' = [resize EXCEPT ![t].indirect_ptr[r.j] = Allocated, ![t].j = @ + 1]
        /\ UNCHANGED pc
     \/ /\ ~need /\ s # NoSector /\ free_map_release(s)
        /\ resize' = [resize EXCEPT ![t].indirect_ptr[r.j] = NoSector, ![t].j = @ + 1]
        /\ UNCHANGED <<pc, block>>
     \/ /\ need <=> s # NoSector
        /\ resize' = [resize EXCEPT ![t].j = @ + 1]
        /\ UNCHANGED <<disk, panic, pc>>
  /\ UNCHANGED <<denies, files, monitor, op, ops, dangling>>

\* One round of the loop over j: allocate or release a data sector, or neither.
resize_inner(t) ==
  LET r == resize[t]
      s == r.indirect_ptr[r.j]
      need == r.size > r.i * Level1 + r.j * BLOCK_SECTOR_SIZE
  IN
  /\ pc[t] = "inner" /\ r.j < NUM_POINTERS /\ ~panic
  /\ \/ need /\ s = NoSector /\ RollBack(t)
     \/ /\ need /\ s = NoSector /\ add_sector_to_file
        /\ resize' = [resize EXCEPT ![t].indirect_ptr[r.j] = Allocated, ![t].j = @ + 1]
        /\ UNCHANGED pc
     \/ /\ ~need /\ s # NoSector /\ free_map_release(s)
        /\ resize' = [resize EXCEPT ![t].indirect_ptr[r.j] = NoSector, ![t].j = @ + 1]
        /\ UNCHANGED <<pc, block>>
     \/ /\ need <=> s # NoSector
        /\ resize' = [resize EXCEPT ![t].j = @ + 1]
        /\ UNCHANGED <<disk, panic, pc>>
  /\ UNCHANGED <<denies, files, monitor, op, ops, dangling>>

\* Mutant of resize_commit: the pointer to a released indirect block stays.
resize_commit_KeepsPointer(t) ==
  LET r == resize[t]
      s == r.doubly_indirect_ptr[r.i]
      keep == r.size > r.i * Level1
  IN
  /\ pc[t] = "inner" /\ r.j = NUM_POINTERS /\ ~panic
  /\ block' = [block EXCEPT ![s] = r.indirect_ptr]
  /\ IF keep THEN UNCHANGED <<free_map, panic>> ELSE free_map_release(s)
  /\ resize' = [resize EXCEPT ![t].doubly_indirect_ptr[r.i] = s,
                              ![t].i = @ + 1]
  /\ Goto(t, "outer")
  /\ UNCHANGED <<denies, files, monitor, op, ops, dangling>>

\* After that loop: commit the indirect block, release it if nothing is left.
resize_commit(t) ==
  LET r == resize[t]
      s == r.doubly_indirect_ptr[r.i]
      keep == r.size > r.i * Level1
  IN
  /\ pc[t] = "inner" /\ r.j = NUM_POINTERS /\ ~panic
  /\ block' = [block EXCEPT ![s] = r.indirect_ptr]
  /\ IF keep THEN UNCHANGED <<free_map, panic>> ELSE free_map_release(s)
  /\ resize' = [resize EXCEPT ![t].doubly_indirect_ptr[r.i] = IF keep THEN s ELSE NoSector,
                              ![t].i = @ + 1]
  /\ Goto(t, "outer")
  /\ UNCHANGED <<denies, files, monitor, op, ops, dangling>>

\* After the loop over i: commit the doubly indirect block, set the length.
resize_finish(t) ==
  LET r == resize[t]
      idx == r.disk_inode.indirect_ptr_idx
  IN
  /\ pc[t] = "outer" /\ r.i = NUM_POINTERS /\ ~panic
  /\ block' = [block EXCEPT ![idx] = r.doubly_indirect_ptr]
  /\ IF r.size = 0 THEN free_map_release(idx) ELSE UNCHANGED <<free_map, panic>>
  /\ dangling' = (dangling \/ (r.size = 0 /\ op[t].kind = "write"))
  /\ resize' = [resize EXCEPT ![t].disk_inode =
                  [length |-> r.size, indirect_ptr_idx |-> IF r.size = 0 THEN NoSector ELSE idx]]
  /\ Goto(t, "resized")
  /\ UNCHANGED <<denies, files, monitor, op, ops>>
-----------------------------------------------------------------------------
Return(t) ==
  /\ Goto(t, "idle")
  /\ op' = [op EXCEPT ![t] = NoRequest]
  /\ resize' = [resize EXCEPT ![t] = NoLocals]

\* inode_create of a file: its doubly indirect block, then inode_resize.
inode_create(t) ==
  /\ \E f \in File \ exists, n \in Ends : ~InUse(f) /\ Start(t, "create", f, n)
  /\ \/ /\ op'[t].end > 0 /\ add_sector_to_file
        /\ CallResize(t, [length |-> 0, indirect_ptr_idx |-> Allocated], op'[t].end)
     \/ /\ op'[t].end = 0 /\ add_sector_to_file
        /\ resize' = [resize EXCEPT ![t].disk_inode.indirect_ptr_idx = Allocated]
        /\ Goto(t, "resized")
     \/ /\ free_map = {}
        /\ resize' = [resize EXCEPT ![t].failed = TRUE]
        /\ Goto(t, "resized")
        /\ UNCHANGED <<disk, panic>>
  /\ UNCHANGED <<denies, files, monitor, dangling>>

inode_create_return(t) ==
  /\ pc[t] = "resized" /\ op[t].kind = "create" /\ ~panic
  /\ \/ /\ ~resize[t].failed
        /\ inode' = [inode EXCEPT ![op[t].file] = resize[t].disk_inode]
        /\ exists' = exists \cup {op[t].file}
     \/ resize[t].failed /\ UNCHANGED files
  /\ Return(t)
  /\ UNCHANGED <<denies, disk, monitor, ops, panic, dangling>>

\* inode_read_at, and the beginning of inode_write_at: check in as a reader.  A
\* write that is denied returns; one beyond the end of the file checks out.
inode_access(t) ==
  /\ \E f \in exists :
       /\ writer[f] = None
       /\ \/ /\ Denied(f) /\ Start(t, "write", f, 0)
             /\ Goto(t, "denied")
             /\ readers' = [readers EXCEPT ![f] = @ \cup {t}]
          \/ /\ ~Denied(f) /\ \E n \in Ends : inode[f].length < n /\ Start(t, "write", f, n)
             /\ Goto(t, "upgrade")
             /\ UNCHANGED readers
          \/ /\ \/ Start(t, "read", f, 0)
                \/ ~Denied(f) /\ \E n \in Ends : inode[f].length >= n /\ Start(t, "write", f, n)
             /\ readers' = [readers EXCEPT ![f] = @ \cup {t}]
             /\ Goto(t, "data")
  /\ UNCHANGED <<denies, disk, files, writer, resize, panic, dangling>>

\* ... and checks in as a writer to resize the file.
inode_write_extend(t) ==
  LET f == op[t].file IN
  /\ pc[t] = "upgrade" /\ writer[f] = None /\ readers[f] = {} /\ ~panic
  /\ writer' = [writer EXCEPT ![f] = t]
  /\ CallResize(t, inode[f], op[t].end)
  /\ UNCHANGED <<denies, disk, files, readers, op, ops, panic, dangling>>

\* The resized inode is written, unless the resize failed.
inode_write_resized(t) ==
  /\ pc[t] = "resized" /\ op[t].kind = "write" /\ ~panic
  /\ inode' = IF resize[t].failed THEN inode
              ELSE [inode EXCEPT ![op[t].file] = resize[t].disk_inode]
  /\ Goto(t, "data")
  /\ UNCHANGED <<denies, disk, exists, monitor, op, resize, ops, panic, dangling>>

\* Mutant of inode_access_return: a write that could not extend the file does not check out.
inode_access_return_Locked(t) ==
  LET f == op[t].file IN
  /\ pc[t] \in {"data", "denied"} /\ ~panic
  /\ readers' = [readers EXCEPT ![f] = @ \ {t}]
  /\ writer' = [writer EXCEPT ![f] = IF @ = t /\ ~resize[t].failed THEN None ELSE @]
  /\ Return(t)
  /\ UNCHANGED <<denies, disk, files, ops, panic, dangling>>

\* Data is copied (nothing here depends on it) and the thread checks out.
inode_access_return(t) ==
  LET f == op[t].file IN
  /\ pc[t] \in {"data", "denied"} /\ ~panic
  /\ readers' = [readers EXCEPT ![f] = @ \ {t}]
  /\ writer' = [writer EXCEPT ![f] = IF @ = t THEN None ELSE @]
  /\ Return(t)
  /\ UNCHANGED <<denies, disk, files, ops, panic, dangling>>

\* inode_close by the last opener of a removed file: free_all_data_sectors.
inode_close(t) ==
  /\ \E f \in exists :
       /\ ~InUse(f)
       /\ Start(t, "remove", f, 0)
       /\ exists' = exists \ {f}
       /\ CallResize(t, inode[f], 0)
  /\ UNCHANGED <<denies, disk, inode, monitor, panic, dangling>>

inode_close_return(t) ==
  /\ pc[t] = "resized" /\ op[t].kind = "remove" /\ ~panic
  /\ inode' = [inode EXCEPT ![op[t].file] = NoInode]
  /\ Return(t)
  /\ UNCHANGED <<denies, disk, exists, monitor, ops, panic, dangling>>

\* inode_deny_write by a thread that opens the file to run it.
inode_deny_write(t) ==
  /\ pc[t] = "idle" /\ ops < MaxOps /\ ~panic /\ denies[t] = 0
  /\ \E f \in exists : /\ writer[f] = None /\ readers[f] = {}
                       /\ denies' = [denies EXCEPT ![t] = f]
  /\ ops' = ops + 1
  /\ UNCHANGED <<disk, files, monitor, pc, op, resize, panic, dangling>>

\* inode_allow_write, when it closes the file.
inode_allow_write(t) ==
  /\ pc[t] = "idle" /\ ~panic /\ denies[t] # 0
  /\ writer[denies[t]] = None /\ readers[denies[t]] = {}
  /\ denies' = [denies EXCEPT ![t] = 0]
  /\ UNCHANGED <<disk, files, monitor, pc, op, resize, ops, panic, dangling>>

Run(t) ==
  \/ resize_start(t) \/ resize_outer(t) \/ resize_inner(t) \/ resize_commit(t)
  \/ resize_finish(t) \/ inode_create_return(t) \/ inode_write_extend(t)
  \/ inode_write_resized(t) \/ inode_access_return(t) \/ inode_close_return(t)

Next == \E t \in Thread : \/ inode_create(t) \/ inode_access(t) \/ inode_close(t)
                          \/ inode_deny_write(t) \/ inode_allow_write(t) \/ Run(t)

Spec == Init /\ [][Next]_vars

\* A thread that can go on does so: round robin, and check-ins are served.
FairSpec == Spec /\ \A t \in Thread : WF_vars(Run(t))
-----------------------------------------------------------------------------
\* The type of the state.
TypeOK ==
  /\ free_map \subseteq Sector
  /\ block \in [Sector -> Block]
  /\ inode \in [File -> Inode]
  /\ exists \subseteq File
  /\ readers \in [File -> SUBSET Thread] /\ writer \in [File -> Thread \cup {None}]
  /\ pc \in [Thread -> {"idle", "resize", "outer", "inner", "resized", "upgrade", "data",
                     "denied"}]
  /\ op \in [Thread -> Request]
  /\ resize \in [Thread -> Locals] /\ denies \in [Thread -> 0..Files]
  /\ ops \in 0..MaxOps /\ panic \in BOOLEAN /\ dangling \in BOOLEAN

\* Files nobody is resizing.
Quiet == {f \in exists : writer[f] = None}

\* byte_to_sector.
byte_to_sector(f, pos) ==
  LET n == pos \div BLOCK_SECTOR_SIZE
      doubly == block[inode[f].indirect_ptr_idx]
      indirect == IF doubly[n \div NUM_POINTERS] = NoSector THEN ZeroBlock
                  ELSE block[doubly[n \div NUM_POINTERS]]
  IN  IF pos < inode[f].length THEN indirect[n % NUM_POINTERS] ELSE -1

\* Every byte of a file nobody is resizing has a sector, two bytes have the same
\* one only if they belong to the same sector of the file, and the sectors are
\* not free: also after a resize that ran out of sectors and rolled back, unless
\* it rolled back to an empty file, whose doubly indirect block it released.
BytesHaveSectors ==
  ~dangling => \A f \in Quiet : \A p, q \in 0..(inode[f].length - 1) :
    /\ byte_to_sector(f, p) \in Sector \ free_map
    /\ byte_to_sector(f, p) = byte_to_sector(f, q)
         <=> p \div BLOCK_SECTOR_SIZE = q \div BLOCK_SECTOR_SIZE

\* The sectors of a file: index blocks and data.
SectorsOf(f) ==
  LET idx == inode[f].indirect_ptr_idx
      level1 == {block[idx][p] : p \in Ptr} \ {NoSector}
      level2 == (UNION {{block[s][p] : p \in Ptr} : s \in level1}) \ {NoSector}
  IN  {idx} \cup level1 \cup level2

\* No sector of a file nobody is resizing is free or belongs to another such file,
\* whatever other files release and allocate meanwhile; free_map_release is only
\* called for sectors in use, so that its ASSERT holds.  Until dangling.
NoSharedSector ==
  /\ TypeOK
  /\ ~dangling =>
       /\ ~panic
       /\ \A f \in Quiet :
            /\ SectorsOf(f) \cap free_map = {}
            /\ \A g \in Quiet \ {f} : SectorsOf(f) \cap SectorsOf(g) = {}

\* "Rolls back actions if allocation fails": whether or not its last resize has
\* failed, the sectors a file nobody is resizing points to are its own.
RollsBack == \A f \in Quiet : SectorsOf(f) \cap free_map = {}

\* Every operation returns, also when the disk is full.  Until dangling, after
\* which free_map_release may meet a sector that is free and stop the kernel.
OperationsReturn == \A t \in Thread : []<>(pc[t] = "idle" \/ dangling)

\* A write never makes a file shorter: the lock "solves the problem of two
\* processes appending sectors to a file at the same time".
NoneShrinks == \A f \in exists \cap exists' : inode'[f].length >= inode[f].length
NeverShrinks == [][NoneShrinks]_vars
=============================================================================

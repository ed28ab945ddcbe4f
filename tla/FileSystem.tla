----------------------------- MODULE FileSystem -----------------------------
(***************************************************************************)
(* The file system calls of user processes, from the descriptor table of   *)
(* userprog/syscall.c through the path walks of filesys/filesys.c and the  *)
(* directories of filesys/directory.c to the open inodes of                *)
(* filesys/inode.c.  No lock covers a call: a process runs alone only      *)
(* through one operation on an inode (the inode's monitor) or one pass     *)
(* over the open inode list (open_inodes_lock), and those are the steps.   *)
(*                                                                         *)
(* An inode on disk is its directory slots, its kind, its length and one   *)
(* index sector that stands for all sectors the file has besides the       *)
(* inode's own.  A struct inode is an element of Id; a struct file or      *)
(* struct dir is the inode it refers to.  Pointers to a freed inode are    *)
(* kept, so that using one is seen as the fault "wild".                    *)
(***************************************************************************)
EXTENDS CLang, Sequences, FiniteSets, TLC, SequencesExt

CONSTANTS
  Proc,         \* the processes
  Workloads,    \* what a behaviour does: [mode, calls, budget, overlap], budget calls
                \* of which the last overlap may run at the same time
  Sectors,      \* bound: sectors of the file system device
  DirSlots,     \* entries a new directory has room for, besides . and ..
  MaxInodes,    \* bound: open inodes
  MaxLength,    \* bound: length of a file
  None

ASSUME FileSystemAssumption ==
  /\ IsFiniteSet(Proc) /\ None \notin Proc
  /\ {Sectors, DirSlots, MaxInodes, MaxLength} \subseteq Nat /\ Sectors > 2

FREE_MAP_SECTOR == 0
ROOT_DIR_SECTOR == 1
Sector == 0..(Sectors - 1)
Id == 1..MaxInodes
LowestOf(S) == CHOOSE x \in S : \A y \in S : x <= y

VARIABLES
  disk,              \* Sector -> the inode on disk
  free_map,          \* the allocated sectors
  inodes,            \* Id -> struct inode
  open_inodes_lock,  \* who left inode_open with the lock held, if anyone
  fd_count,          \* the next descriptor number
  cwd, fd_map, executable,  \* of each process
  l,                 \* of each process: where it is in a call, with its variables
  fault,             \* "none", or how the kernel went down
  past,              \* history: "chdir failed", "dot removed", "late reopen", "rolled back"
  load               \* the workload, with the calls still to come

world == <<disk, free_map>>
table == <<inodes, open_inodes_lock>>
procs == <<cwd, fd_map, executable>>
fsVars == <<world, table, fd_count, procs, l, fault, past, load>>

----------------------------------------------------------------------------
\* Paths: [abs, parts].  A part has its first NAME_MAX characters as name, and
\* is long if it has more.

EmptyPath == [abs |-> FALSE, parts |-> <<>>]

\* Mutant of get_next_part: *srcp is not advanced.
get_next_part_stuck(path) ==
  IF path.parts = <<>> THEN [status |-> 0, name |-> "", rest |-> path]
  ELSE [status |-> IF Head(path.parts).long THEN -1 ELSE 1, name |-> Head(path.parts).name,
        rest |-> path]

\* A part that is too long is not passed over; the buffer holds its beginning.
get_next_part(path) ==
  IF path.parts = <<>> THEN [status |-> 0, name |-> "", rest |-> path]
  ELSE LET part == Head(path.parts) IN
       [status |-> IF part.long THEN -1 ELSE 1, name |-> part.name,
        rest |-> IF part.long THEN path ELSE [path EXCEPT !.parts = Tail(@)]]

\* The last part, or the first that is too long.
get_filename_from_path(path) ==
  LET longs == {i \in DOMAIN path.parts : path.parts[i].long}
      at == IF longs = {} THEN Len(path.parts) ELSE LowestOf(longs)
  IN  [ok |-> longs = {}, name |-> IF at = 0 THEN "" ELSE path.parts[at].name]

----------------------------------------------------------------------------
\* Directories

NoSlot == [name |-> "", sector |-> 0, in_use |-> FALSE]
Entry(name, sector) == [name |-> name, sector |-> sector, in_use |-> TRUE]

Slots(i) == disk[inodes[i].sector].slots
is_dir(i) == disk[inodes[i].sector].isdir

\* The offset of the entry for name, 0 if there is none.
LookupIn(slots, name) ==
  LET at == {o \in DOMAIN slots : slots[o].in_use /\ slots[o].name = name}
  IN  IF at = {} THEN 0 ELSE LowestOf(at)

\* Mutant of number_entries: misses the last entry.
number_entries_short(slots, from, to) ==
  Cardinality({o \in from..to : o < Len(slots) /\ slots[o].in_use})

\* The entries in use that a loop over from..to counts.
number_entries(slots, from, to) ==
  Cardinality({o \in from..to : o \in DOMAIN slots /\ slots[o].in_use})

\* The slots after inode_resize to o entries.
Resized(slots, o) == [n \in 1..o |-> IF n <= Len(slots) THEN slots[n] ELSE NoSlot]

\* A new directory after dir_add of PARENT_NAME and SELF_NAME.
dir_create(sector, parent) ==
  <<Entry("..", parent), Entry(".", sector)>> \o [o \in 1..DirSlots |-> NoSlot]

----------------------------------------------------------------------------
\* The state after boot with -f: filesys_init and do_format.

\* held: the thread that closes it last is in as a writer.
NoInode == [sector |-> 0, open_cnt |-> 0, deny_write_cnt |-> 0, removed |-> FALSE,
            live |-> FALSE, listed |-> FALSE, held |-> FALSE]
NewInode(sector) == [NoInode EXCEPT !.sector = sector, !.open_cnt = 1,
                                    !.live = TRUE, !.listed = TRUE]
Blank == [isdir |-> FALSE, slots |-> <<>>, length |-> 0, index |-> 0]
Idle == [pc |-> "user", k |-> "", kind |-> "", path |-> EmptyPath, asked |-> EmptyPath, base |-> 0,
         dir |-> NULL, prev |-> NULL, ino |-> NULL, todo |-> <<>>, want |-> 0,
         e |-> NoSlot, ofs |-> 0, seek |-> "", cnt |-> 0, fd |-> 0, ret |-> 0]

\* The free map file and the root directory have sectors 2 and 3 besides their
\* inodes; the free map file stays open.
filesys_init ==
  /\ disk = [s \in Sector |->
               CASE s = FREE_MAP_SECTOR -> [Blank EXCEPT !.index = 2]
                 [] s = ROOT_DIR_SECTOR ->
                      [Blank EXCEPT !.isdir = TRUE, !.index = 3,
                                    !.slots = dir_create(ROOT_DIR_SECTOR, ROOT_DIR_SECTOR)]
                 [] OTHER -> Blank]
  /\ free_map = 0..3
  /\ inodes = [i \in Id |-> IF i = 1 THEN NewInode(FREE_MAP_SECTOR) ELSE NoInode]
  /\ open_inodes_lock = None

FsInit ==
  /\ filesys_init
  /\ fd_count = 2
  /\ cwd = [p \in Proc |-> NULL]
  /\ fd_map = [p \in Proc |-> <<>>]
  /\ executable = [p \in Proc |-> NULL]
  /\ l = [p \in Proc |-> Idle]
  /\ fault = "none" /\ past = {}
  /\ load \in Workloads

----------------------------------------------------------------------------
\* Steps.  Goto changes variables of p's call; Closing has p close the inodes
\* of a sequence before it goes on at k.

At(p, pc) == l[p].pc = pc /\ fault = "none"
Goto(p, r) == l' = [l EXCEPT ![p] = r @@ @]
Closing(ids, k) ==
  LET todo == SelectSeq(ids, LAMBDA i : i # NULL)
  IN  [pc |-> IF todo = <<>> THEN k ELSE "inode_close", k |-> k, todo |-> todo]
Opening(sector, k) == [pc |-> "inode_open", want |-> sector, k |-> k]
FaultIn(f) == fault' = f /\ UNCHANGED <<world, table, fd_count, procs, l, past>>
Fault(f) == FaultIn(f) /\ UNCHANGED load
Usable(i) == inodes[i].live

\* A step that follows the pointer i.
Deref(i, step) == (~Usable(i) /\ Fault("wild")) \/ (Usable(i) /\ step)

\* The end of a call, with its result.
Return(p, r) == Goto(p, [pc |-> "return", ret |-> r])

Returned(p) ==
  /\ At(p, "return")
  /\ l' = [l EXCEPT ![p] = Idle]
  /\ UNCHANGED <<world, table, fd_count, procs, fault, past, load>>

\* Pointers to inodes that some process can still follow.
Pointers ==
  UNION {{cwd[p], executable[p], l[p].dir, l[p].prev, l[p].ino} \cup Range(l[p].todo)
           \cup {fd_map[p][n].f : n \in DOMAIN fd_map[p]}
           \cup {fd_map[p][n].d : n \in DOMAIN fd_map[p]} : p \in Proc} \ {NULL}

\* malloc may return a block that nobody refers to any more.
Allocatable == {i \in Id : ~inodes[i].live /\ i \notin Pointers}

----------------------------------------------------------------------------
\* Open inodes

\* Search and insertion are one pass under open_inodes_lock; when malloc fails
\* the lock is never released.  A thread that finds the inode counts itself in
\* later, without the lock.
inode_open(p) ==
  /\ At(p, "inode_open")
  /\ \/ open_inodes_lock = p /\ Fault("panic")
     \/ /\ open_inodes_lock = None
        /\ LET me == l[p]
               found == {i \in Id : inodes[i].listed /\ inodes[i].sector = me.want}
           IN  \/ /\ found # {}
                  /\ Goto(p, [pc |-> "inode_reopen", ino |-> LowestOf(found)])
                  /\ UNCHANGED table
               \/ /\ found = {} /\ Allocatable # {}
                  /\ inodes' = [inodes EXCEPT ![LowestOf(Allocatable)] = NewInode(me.want)]
                  /\ Goto(p, [pc |-> me.k, ino |-> LowestOf(Allocatable)])
                  /\ UNCHANGED open_inodes_lock
               \/ /\ found = {} /\ load.mode = "oom"
                  /\ Goto(p, [pc |-> me.k, ino |-> NULL])
                  /\ open_inodes_lock' = p
                  /\ UNCHANGED inodes
        /\ UNCHANGED <<world, fd_count, procs, fault, past, load>>

\* Mutant of inode_reopen: the reference is not counted.
inode_reopen_uncounted(p) ==
  /\ At(p, "inode_reopen")
  /\ Goto(p, [pc |-> l[p].k])
  /\ UNCHANGED <<world, table, fd_count, procs, fault, past, load>>

\* A thread that waited for the last closer to check out counts itself in to an
\* inode that is about to be freed.
inode_reopen(p) ==
  /\ At(p, "inode_reopen")
  /\ LET i == l[p].ino IN
     \/ ~Usable(i) /\ Fault("wild")
     \/ /\ Usable(i) /\ ~inodes[i].held
        /\ inodes' = [inodes EXCEPT ![i].open_cnt = @ + 1]
        /\ past' = IF inodes[i].open_cnt = 0 THEN past \cup {"late reopen"} ELSE past
        /\ Goto(p, [pc |-> l[p].k])
        /\ UNCHANGED <<world, open_inodes_lock, fd_count, procs, fault, load>>

inode_close(p) ==
  /\ At(p, "inode_close")
  /\ LET me == l[p]
         i == Head(me.todo)
     IN
     \/ ~Usable(i) /\ Fault("wild")
     \/ /\ Usable(i) /\ ~inodes[i].held
        /\ inodes' = [inodes EXCEPT ![i].open_cnt = @ - 1, ![i].held = inodes[i].open_cnt = 1]
        /\ Goto(p, IF inodes[i].open_cnt = 1 THEN [pc |-> "unlist"]
                   ELSE Closing(Tail(me.todo), me.k))
        /\ UNCHANGED <<world, open_inodes_lock, fd_count, procs, fault, past, load>>

\* The rest of inode_close for the last opener: out of the list,
inode_close_unlist(p) ==
  /\ At(p, "unlist")
  /\ \/ open_inodes_lock = p /\ Fault("panic")
     \/ /\ open_inodes_lock = None
        /\ inodes' = [inodes EXCEPT ![Head(l[p].todo)].listed = FALSE]
        /\ Goto(p, [pc |-> "free"])
        /\ UNCHANGED <<world, open_inodes_lock, fd_count, procs, fault, past, load>>

\* the sectors of a removed file given back, the writer checked out,
inode_close_free(p) ==
  /\ At(p, "free")
  /\ LET me == l[p]
         ino == inodes[Head(me.todo)]
         gone == IF ino.removed THEN {ino.sector, disk[ino.sector].index} ELSE {}
     IN
     \/ ~(gone \subseteq free_map) /\ Fault("free map")
     \/ /\ gone \subseteq free_map
        /\ free_map' = free_map \ gone
        /\ inodes' = [inodes EXCEPT ![Head(me.todo)].held = FALSE]
        /\ Goto(p, [pc |-> "free_inode"])
        /\ UNCHANGED <<disk, open_inodes_lock, fd_count, procs, fault, past, load>>

\* and the struct inode freed.
inode_close_last(p) ==
  /\ At(p, "free_inode")
  /\ LET me == l[p] IN
     Deref(Head(me.todo),
       /\ inodes' = [inodes EXCEPT ![Head(me.todo)] = NoInode]
       /\ Goto(p, Closing(Tail(me.todo), me.k))
       /\ UNCHANGED <<world, open_inodes_lock, fd_count, procs, fault, past, load>>)

----------------------------------------------------------------------------
\* Loops over a directory: lookup, the search for a free slot in dir_add and
\* number_entries read one entry at a time, and each read is an operation of its
\* own on the inode.  While calls do not overlap a loop is one step: there is
\* nobody to tell the difference.

FREE_SLOT == "a free slot"
ALL_ENTRIES == "all entries"
Scanning(what, k) == [pc |-> "scan", seek |-> what, k |-> k, ofs |-> 1, cnt |-> 0]
Scanned(me) == IF me.seek = ALL_ENTRIES THEN me.ino ELSE me.dir
Stops(what, slot) == IF what = FREE_SLOT THEN ~slot.in_use ELSE slot.in_use /\ slot.name = what

\* Where a loop that stopped at offset o, or found nothing, leaves its caller:
\* dir_lookup and dir_remove open the inode that was found.
AfterScan(me, found, o, slot) ==
  CASE me.seek = FREE_SLOT -> [pc |-> me.k, ofs |-> o, seek |-> ""]
    [] me.seek = ALL_ENTRIES -> [pc |-> me.k, ofs |-> me.fd, fd |-> 0, seek |-> ""]
    [] me.k = "dir_add" -> IF found THEN [pc |-> "undo", ofs |-> 0, seek |-> ""]
                           ELSE Scanning(FREE_SLOT, "dir_write")
    [] OTHER -> [seek |-> "", ofs |-> IF found /\ me.kind = "remove" THEN o ELSE 0,
                 e |-> IF found /\ me.kind = "remove" THEN slot ELSE me.e]
                @@ IF found THEN Opening(slot.sector, me.k) ELSE [pc |-> me.k, ino |-> NULL]

dir_scan(p) ==
  /\ At(p, "scan")
  /\ LET me == l[p]
         slots == Slots(Scanned(me))
         to == IF load.mode = "parallel" THEN me.ofs ELSE Len(slots) + 1
         hits == {o \in me.ofs..to : o \in DOMAIN slots /\ Stops(me.seek, slots[o])}
         cnt == IF me.seek = ALL_ENTRIES THEN me.cnt + number_entries(slots, me.ofs, to) ELSE 0
     IN  Deref(Scanned(me),
           /\ Goto(p, (IF hits # {} THEN AfterScan(me, TRUE, LowestOf(hits), slots[LowestOf(hits)])
                       ELSE IF to > Len(slots) THEN AfterScan(me, FALSE, to, NoSlot)
                       ELSE [ofs |-> to + 1]) @@ [cnt |-> cnt])
           /\ UNCHANGED <<world, table, fd_count, procs, fault, past, load>>)

----------------------------------------------------------------------------
\* Path walks

\* get_last_dir up to its loop; a process without a current directory gets the
\* root directory as one.
get_last_dir(p) ==
  /\ At(p, "get_last_dir")
  /\ LET path == l[p].path IN
     Goto(p, IF path = EmptyPath THEN [pc |-> "resolved", dir |-> NULL]
             ELSE IF path.abs THEN Opening(ROOT_DIR_SECTOR, "start")
             ELSE IF cwd[p] = NULL THEN Opening(ROOT_DIR_SECTOR, "new_cwd")
             ELSE [pc |-> "inode_reopen", ino |-> cwd[p], k |-> "start"])
  /\ UNCHANGED <<world, table, fd_count, procs, fault, past, load>>

\* dir_open of a null inode is a null directory, which lookup asserts against.
get_last_dir_start(p) ==
  /\ At(p, "start")
  /\ \/ l[p].ino = NULL /\ Fault("panic")
     \/ /\ l[p].ino # NULL
        /\ Goto(p, [pc |-> "walk", dir |-> l[p].ino, prev |-> NULL])
        /\ UNCHANGED <<world, table, fd_count, procs, fault, past, load>>

get_last_dir_cwd(p) ==
  /\ At(p, "new_cwd")
  /\ \/ l[p].ino = NULL /\ Fault("null")
     \/ /\ l[p].ino # NULL
        /\ cwd' = [cwd EXCEPT ![p] = l[p].ino]
        /\ Goto(p, [pc |-> "inode_reopen", k |-> "start"])
        /\ UNCHANGED <<world, table, fd_count, fd_map, executable, fault, past, load>>

\* Mutant of WalkMissing: the rest of the path is not looked at.
WalkMissingEarly(me, rest) == Closing(<<me.prev>>, "resolved") @@ [prev |-> NULL]

\* A name that is not there is the last one, or the walk fails.
WalkMissing(me, rest) ==
  IF get_next_part(rest).status # 1 THEN Closing(<<me.prev>>, "resolved") @@ [prev |-> NULL]
  ELSE Closing(<<me.dir>>, "resolved") @@ [dir |-> NULL, prev |-> NULL]

\* One round of the loop: dir_lookup, or the end of the path.
get_last_dir_walk(p) ==
  /\ At(p, "walk")
  /\ LET me == l[p]
         part == get_next_part(me.path)
     IN  Goto(p, IF part.status = 0
                 THEN Closing(<<me.dir>>, "resolved") @@ [dir |-> me.prev, prev |-> NULL]
                 ELSE Scanning(part.name, "walked") @@ [path |-> part.rest])
  /\ UNCHANGED <<world, table, fd_count, procs, fault, past, load>>

\* The rest of the round.  An inode that is no directory is not closed.
get_last_dir_walked(p) ==
  /\ At(p, "walked")
  /\ LET me == l[p] IN
     Goto(p, IF me.ino = NULL THEN WalkMissing(me, me.path)
             ELSE IF is_dir(me.ino) THEN Closing(<<me.prev>>, "walk")
                                           @@ [prev |-> me.dir, dir |-> me.ino]
             ELSE IF get_next_part(me.path).status = 0
             THEN Closing(<<me.prev>>, "resolved") @@ [prev |-> NULL]
             ELSE Closing(<<me.dir>>, "resolved") @@ [dir |-> NULL, prev |-> NULL])
  /\ UNCHANGED <<world, table, fd_count, procs, fault, past, load>>

----------------------------------------------------------------------------
\* filesys_create

filesys_create(p) ==
  /\ At(p, "resolved") /\ l[p].kind \in {"create", "mkdir"}
  /\ LET me == l[p]
         free == Sector \ free_map
         file == get_filename_from_path(me.asked)
     IN
     \/ /\ ~file.ok \/ me.dir = NULL
        /\ Return(p, 0) /\ UNCHANGED free_map
     \/ /\ file.ok /\ me.dir # NULL /\ free = {}
        /\ Goto(p, Closing(<<me.dir>>, "return") @@ [ret |-> 0]) /\ UNCHANGED free_map
     \/ /\ file.ok /\ me.dir # NULL /\ free # {}
        /\ free_map' = free_map \cup {LowestOf(free)}
        /\ Goto(p, [pc |-> "inode_create", want |-> LowestOf(free),
                    e |-> Entry(file.name, LowestOf(free))])
  /\ UNCHANGED <<disk, table, fd_count, procs, fault, past, load>>

\* For a directory the slots of dir_create are written at once: its sector is
\* in no directory yet.
inode_create(p) ==
  /\ At(p, "inode_create")
  /\ LET me == l[p]
         free == Sector \ free_map
         made == [isdir |-> me.kind = "mkdir", length |-> 0, index |-> LowestOf(free),
                  slots |-> IF me.kind = "mkdir" THEN dir_create(me.want, inodes[me.dir].sector)
                            ELSE <<>>]
     IN
     \/ free = {} /\ Goto(p, [pc |-> "undo"]) /\ UNCHANGED <<disk, free_map>>
     \/ /\ free # {}
        /\ free_map' = free_map \cup {LowestOf(free)}
        /\ disk' = [disk EXCEPT ![me.want] = made]
        /\ Goto(p, IF me.kind = "mkdir" THEN Opening(me.want, "dir_create")
                   ELSE Scanning(me.e.name, "dir_add"))
  /\ UNCHANGED <<table, fd_count, procs, fault, past, load>>

dir_create_close(p) ==
  /\ At(p, "dir_create")
  /\ \/ l[p].ino = NULL /\ Fault("panic")
     \/ /\ l[p].ino # NULL
        /\ Goto(p, Closing(<<l[p].ino>>, "dir_add"))
        /\ UNCHANGED <<world, table, fd_count, procs, fault, past, load>>

\* dir_add: the test for the name, the search for a slot and the write are
\* operations of their own on the directory's inode.
dir_add(p) ==
  /\ At(p, "dir_add")
  /\ Goto(p, Scanning(l[p].e.name, "dir_add"))
  /\ UNCHANGED <<world, table, fd_count, procs, fault, past, load>>

\* What dir_add and dir_remove make of the result of inode_write_at; dir_remove
\* has the entry it read written back, not in use.
Written(me, ok) ==
  CASE me.kind = "remove" /\ ok -> [pc |-> "remove_mark"]
    [] me.kind = "remove" /\ ~ok -> Closing(<<me.ino, me.dir>>, "return") @@ [ret |-> 0]
    [] me.kind # "remove" /\ ok -> Closing(<<me.dir>>, "return") @@ [ret |-> 1]
    [] OTHER -> [pc |-> "undo"]
NewEntry(me) == IF me.kind = "remove" THEN [me.e EXCEPT !.in_use = FALSE] ELSE me.e
Erased(me) == IF me.kind = "remove" /\ me.e.name \in {".", ".."} THEN past \cup {"dot removed"} ELSE past

\* inode_write_at of an entry at the end gives up its place as a reader first.
dir_write(p) ==
  /\ At(p, "dir_write")
  /\ LET me == l[p]
         s == inodes[me.dir].sector
         inside == me.ofs <= Len(Slots(me.dir))
     IN Deref(me.dir,
       /\ \/ /\ inodes[me.dir].deny_write_cnt > 0
             /\ Goto(p, Written(me, FALSE)) /\ UNCHANGED <<disk, past>>
          \/ /\ inodes[me.dir].deny_write_cnt = 0 /\ ~inside
             /\ Goto(p, [pc |-> "dir_extend"]) /\ UNCHANGED <<disk, past>>
          \/ /\ inodes[me.dir].deny_write_cnt = 0 /\ inside
             /\ disk' = [disk EXCEPT ![s].slots[me.ofs] = NewEntry(me)]
             /\ past' = Erased(me)
             /\ Goto(p, Written(me, TRUE))
       /\ UNCHANGED <<free_map, table, fd_count, procs, fault, load>>)

\* inode_resize to the end of the entry may fail for want of sectors; then it
\* rolls back, and a directory is never empty.
dir_write_extend(p) ==
  /\ At(p, "dir_extend")
  /\ LET me == l[p]
         s == inodes[me.dir].sector
     IN Deref(me.dir,
       /\ \/ Goto(p, Written(me, FALSE)) /\ UNCHANGED <<disk, past>>
          \/ /\ disk' = [disk EXCEPT ![s].slots = [Resized(@, me.ofs) EXCEPT ![me.ofs] = NewEntry(me)]]
             /\ past' = Erased(me)
             /\ Goto(p, Written(me, TRUE))
       /\ UNCHANGED <<free_map, table, fd_count, procs, fault, load>>)

\* After a failure only the inode's own sector is given back.
filesys_create_undo(p) ==
  /\ At(p, "undo")
  /\ \/ l[p].want \notin free_map /\ Fault("free map")
     \/ /\ l[p].want \in free_map
        /\ free_map' = free_map \ {l[p].want}
        /\ Goto(p, Closing(<<l[p].dir>>, "return") @@ [ret |-> 0])
        /\ UNCHANGED <<disk, table, fd_count, procs, fault, past, load>>

----------------------------------------------------------------------------
\* filesys_remove

RemoveFails(p, ids) == Goto(p, Closing(ids, "return") @@ [ret |-> 0])

filesys_remove(p) ==
  /\ At(p, "resolved") /\ l[p].kind = "remove"
  /\ IF l[p].dir = NULL THEN Return(p, 0)
     ELSE Goto(p, Scanning(get_filename_from_path(l[p].asked).name, "remove_check"))
  /\ UNCHANGED <<world, table, fd_count, procs, fault, past, load>>

\* A process that has never had a current directory follows a null pointer.
dir_remove_check(p) ==
  /\ At(p, "remove_check")
  /\ LET me == l[p] IN
     \/ /\ me.ino = NULL /\ RemoveFails(p, <<me.dir>>)
        /\ UNCHANGED <<world, table, fd_count, procs, fault, past, load>>
     \/ me.ino # NULL /\ cwd[p] = NULL /\ Fault("null")
     \/ /\ me.ino # NULL /\ cwd[p] # NULL
        /\ Deref(cwd[p],
             /\ IF inodes[me.ino].sector = inodes[cwd[p]].sector
                THEN RemoveFails(p, <<me.ino, me.dir>>)
                ELSE Goto(p, IF is_dir(me.ino) THEN Scanning(ALL_ENTRIES, "remove_count") @@ [fd |-> me.ofs]
                             ELSE [pc |-> "dir_write"])
             /\ UNCHANGED <<world, table, fd_count, procs, fault, past, load>>)

dir_remove_count(p) ==
  /\ At(p, "remove_count")
  /\ IF l[p].cnt > 2 \/ inodes[l[p].ino].open_cnt > 2 THEN RemoveFails(p, <<l[p].ino, l[p].dir>>)
     ELSE Goto(p, [pc |-> "dir_write", cnt |-> 0])
  /\ UNCHANGED <<world, table, fd_count, procs, fault, past, load>>

inode_remove(p) ==
  /\ At(p, "remove_mark")
  /\ inodes' = [inodes EXCEPT ![l[p].ino].removed = TRUE]
  /\ Goto(p, Closing(<<l[p].ino, l[p].dir>>, "return") @@ [ret |-> 1])
  /\ UNCHANGED <<world, open_inodes_lock, fd_count, procs, fault, past, load>>

----------------------------------------------------------------------------
\* filesys_open, for open and for load

\* The directory stays open when the name is not in it.
filesys_open(p) ==
  /\ At(p, "resolved") /\ l[p].kind \in {"open", "exec"}
  /\ IF l[p].dir = NULL THEN Return(p, -1)
     ELSE Goto(p, Scanning(get_filename_from_path(l[p].asked).name, "looked_up"))
  /\ UNCHANGED <<world, table, fd_count, procs, fault, past, load>>

filesys_open_close(p) ==
  /\ At(p, "looked_up")
  /\ IF l[p].ino = NULL THEN Return(p, -1)
     ELSE Goto(p, Closing(<<l[p].dir>>, IF l[p].kind = "open" THEN "opened" ELSE "loaded"))
  /\ UNCHANGED <<world, table, fd_count, procs, fault, past, load>>

\* open: the descriptor number is read here,
open_fd(p) ==
  /\ At(p, "opened")
  /\ LET i == l[p].ino IN
     \/ i = NULL /\ Return(p, -1) /\ UNCHANGED fd_map
     \/ /\ i # NULL
        /\ fd_map' = [fd_map EXCEPT ![p] =
             <<[fd |-> fd_count, pos |-> 0, f |-> IF is_dir(i) THEN NULL ELSE i,
                d |-> IF is_dir(i) THEN i ELSE NULL]>> \o @]
        /\ Goto(p, [pc |-> "fd_load"])
  /\ UNCHANGED <<world, table, fd_count, cwd, executable, fault, past, load>>

\* and again when it is incremented and returned.
open_load(p) ==
  /\ At(p, "fd_load")
  /\ Goto(p, [pc |-> "fd_store", fd |-> fd_count])
  /\ UNCHANGED <<world, table, fd_count, procs, fault, past, load>>

open_store(p) ==
  /\ At(p, "fd_store")
  /\ fd_count' = l[p].fd + 1
  /\ Return(p, l[p].fd)
  /\ UNCHANGED <<world, table, procs, fault, past, load>>

\* load: the executable is open and its file not writable until the process ends.
load_deny_write(p) ==
  /\ At(p, "loaded")
  /\ executable' = [executable EXCEPT ![p] = l[p].ino]
  /\ inodes' = [inodes EXCEPT ![l[p].ino].deny_write_cnt = @ + 1]
  /\ Return(p, 1)
  /\ UNCHANGED <<world, open_inodes_lock, fd_count, cwd, fd_map, fault, past, load>>

----------------------------------------------------------------------------
\* chdir with verify_filepath.  The walk starts on the current directory
\* without reopening it, and closes what it leaves behind.

ChdirFails(p, i) ==
  /\ Goto(p, Closing(<<i>>, "return") @@ [ret |-> 0])
  /\ past' = past \cup {"chdir failed"}

verify_filepath(p) ==
  /\ At(p, "chdir")
  /\ LET path == l[p].path IN
     Goto(p, IF path = EmptyPath THEN [pc |-> "return", ret |-> 0]
             ELSE IF cwd[p] = NULL THEN Opening(ROOT_DIR_SECTOR, "chdir_cwd")
             ELSE [pc |-> "chdir_from", dir |-> cwd[p]])
  /\ UNCHANGED <<world, table, fd_count, procs, fault, past, load>>

verify_filepath_cwd(p) ==
  /\ At(p, "chdir_cwd")
  /\ cwd' = [cwd EXCEPT ![p] = l[p].ino]
  /\ Goto(p, [pc |-> "chdir_from", dir |-> l[p].ino])
  /\ UNCHANGED <<world, table, fd_count, fd_map, executable, fault, past, load>>

verify_filepath_from(p) ==
  /\ At(p, "chdir_from")
  /\ Goto(p, IF l[p].path.abs THEN Closing(<<l[p].dir>>, "chdir_root")
             ELSE [pc |-> "chdir_walk"])
  /\ UNCHANGED <<world, table, fd_count, procs, fault, past, load>>

verify_filepath_root(p) ==
  /\ At(p, "chdir_root")
  /\ Goto(p, Opening(ROOT_DIR_SECTOR, "chdir_enter"))
  /\ UNCHANGED <<world, table, fd_count, procs, fault, past, load>>

verify_filepath_enter(p) ==
  /\ At(p, "chdir_enter")
  /\ \/ l[p].ino = NULL /\ Fault("null")
     \/ /\ l[p].ino # NULL
        /\ Goto(p, [pc |-> "chdir_walk", dir |-> l[p].ino])
        /\ UNCHANGED <<world, table, fd_count, procs, fault, past, load>>

verify_filepath_walk(p) ==
  /\ At(p, "chdir_walk")
  /\ LET me == l[p]
         part == get_next_part(me.path)
     IN
     \/ part.status # 0 /\ me.dir = NULL /\ Fault("panic")
     \/ /\ part.status = 0 \/ me.dir # NULL
        /\ Goto(p, IF part.status = 0 THEN [pc |-> "chdir_done"]
                   ELSE Scanning(part.name, "chdir_looked") @@ [path |-> part.rest])
        /\ UNCHANGED <<world, table, fd_count, procs, fault, past, load>>

verify_filepath_looked(p) ==
  /\ At(p, "chdir_looked")
  /\ LET me == l[p] IN
     IF me.ino # NULL /\ is_dir(me.ino)
     THEN Goto(p, Closing(<<me.dir>>, "chdir_enter")) /\ UNCHANGED past
     ELSE IF me.ino = NULL \/ get_next_part(me.path).status = 1 THEN ChdirFails(p, me.dir)
     ELSE Goto(p, [pc |-> "chdir_done"]) /\ UNCHANGED past
  /\ UNCHANGED <<world, table, fd_count, procs, fault, load>>

\* dir_open(inode) becomes the current directory.
chdir(p) ==
  /\ At(p, "chdir_done")
  /\ cwd' = [cwd EXCEPT ![p] = l[p].ino]
  /\ Return(p, 1)
  /\ UNCHANGED <<world, table, fd_count, fd_map, executable, fault, past, load>>

----------------------------------------------------------------------------
\* Descriptors

\* The place of descriptor fd in p's table, 0 if it has none.
FdAt(p, fd) ==
  LET at == {n \in DOMAIN fd_map[p] : fd_map[p][n].fd = fd}
  IN  IF at = {} THEN 0 ELSE LowestOf(at)
get_file_from_fd(p, fd) == IF FdAt(p, fd) = 0 THEN NULL ELSE fd_map[p][FdAt(p, fd)].f
get_dir_from_fd(p, fd) == IF FdAt(p, fd) = 0 THEN NULL ELSE fd_map[p][FdAt(p, fd)].d
Pos(p, fd) == fd_map[p][FdAt(p, fd)].pos
MovePos(p, fd, pos) == fd_map' = [fd_map EXCEPT ![p][FdAt(p, fd)].pos = pos]

\* Closing a directory's descriptor closes no inode: get_file_from_fd is null.
close(p, fd) ==
  /\ Goto(p, Closing(<<get_file_from_fd(p, fd)>>, "return"))
  /\ fd_map' = [fd_map EXCEPT ![p] = IF FdAt(p, fd) = 0 THEN @ ELSE RemoveAt(@, FdAt(p, fd))]
  /\ UNCHANGED <<world, table, fd_count, cwd, executable, fault, past>>

read(p, fd) ==
  LET f == get_file_from_fd(p, fd) IN
  \/ /\ f = NULL /\ Return(p, -1)
     /\ UNCHANGED <<world, table, fd_count, procs, fault, past>>
  \/ f # NULL /\ ~Usable(f) /\ FaultIn("wild")
  \/ /\ f # NULL /\ Usable(f)
     /\ IF Pos(p, fd) < disk[inodes[f].sector].length
        THEN MovePos(p, fd, Pos(p, fd) + 1) /\ Return(p, 1)
        ELSE Return(p, 0) /\ UNCHANGED fd_map
     /\ UNCHANGED <<world, table, fd_count, cwd, executable, fault, past>>

\* One unit of data.  A write that ends beyond the file gives up its place as
\* a reader and goes on as a writer; to write to a directory ends the process.
write(p, fd) ==
  LET f == get_file_from_fd(p, fd)
      denied == inodes[f].deny_write_cnt > 0
      inside == Pos(p, fd) < disk[inodes[f].sector].length
  IN
  \/ /\ get_dir_from_fd(p, fd) # NULL /\ Goto(p, [pc |-> "exit"])
     /\ UNCHANGED <<world, table, fd_count, procs, fault, past>>
  \/ /\ get_dir_from_fd(p, fd) = NULL /\ f = NULL /\ Return(p, 0)
     /\ UNCHANGED <<world, table, fd_count, procs, fault, past>>
  \/ f # NULL /\ ~Usable(f) /\ FaultIn("wild")
  \/ /\ f # NULL /\ Usable(f) /\ Pos(p, fd) < MaxLength
     /\ IF ~denied /\ inside THEN MovePos(p, fd, Pos(p, fd) + 1) /\ Return(p, 1)
        ELSE /\ IF denied THEN Return(p, 0) ELSE Goto(p, [pc |-> "extend", fd |-> fd, ino |-> f])
             /\ UNCHANGED fd_map
     /\ UNCHANGED <<world, table, fd_count, cwd, executable, fault, past>>

\* inode_resize may fail for want of sectors: those that files have beyond their
\* first are not counted here.  It then rolls back, which for an empty file
\* releases the index sector that the inode on disk keeps.
inode_write_extend(p) ==
  /\ At(p, "extend")
  /\ LET me == l[p]
         s == inodes[me.ino].sector
         lost == IF disk[s].length = 0 THEN {disk[s].index} ELSE {}
     IN Deref(me.ino,
       \/ /\ disk' = [disk EXCEPT ![s].length = Pos(p, me.fd) + 1]
          /\ MovePos(p, me.fd, Pos(p, me.fd) + 1)
          /\ Return(p, 1)
          /\ UNCHANGED <<free_map, table, fd_count, cwd, executable, fault, past, load>>
       \/ ~(lost \subseteq free_map) /\ Fault("free map")
       \/ /\ lost \subseteq free_map
          /\ free_map' = free_map \ lost
          /\ past' = IF lost = {} THEN past ELSE past \cup {"rolled back"}
          /\ Return(p, 0)
          /\ UNCHANGED <<disk, table, fd_count, procs, fault, load>>)

\* seek, tell and filesize assert that there is a file.
seek(p, fd) ==
  IF get_file_from_fd(p, fd) = NULL
  THEN FaultIn("panic")
  ELSE /\ \E pos \in 0..MaxLength : MovePos(p, fd, pos)
       /\ Return(p, 0)
       /\ UNCHANGED <<world, table, fd_count, cwd, executable, fault, past>>

\* Passes over free slots, . and .. to the next entry, one read at a time.
dir_readdir(p, fd) ==
  IF get_dir_from_fd(p, fd) = NULL THEN FaultIn("null")
  ELSE /\ Goto(p, [pc |-> "readdir", fd |-> fd, ino |-> get_dir_from_fd(p, fd)])
       /\ UNCHANGED <<world, table, fd_count, procs, fault, past>>

dir_readdir_read(p) ==
  /\ At(p, "readdir")
  /\ LET me == l[p]
         o == Pos(p, me.fd) + 1
         slots == Slots(me.ino)
     IN  Deref(me.ino,
           /\ \/ o > Len(slots) /\ Return(p, 0) /\ UNCHANGED fd_map
              \/ /\ o <= Len(slots)
                 /\ MovePos(p, me.fd, o)
                 /\ IF slots[o].in_use /\ slots[o].name \notin {".", ".."} THEN Return(p, 1)
                    ELSE UNCHANGED l
           /\ UNCHANGED <<world, table, fd_count, cwd, executable, fault, past, load>>)

\* thread_exit: the descriptors, then the executable; the current directory
\* stays open.
destroy_thread_fd(p) ==
  /\ At(p, "exit")
  /\ LET ids == [n \in DOMAIN fd_map[p] |-> IF fd_map[p][n].d # NULL THEN fd_map[p][n].d
                                            ELSE fd_map[p][n].f]
     IN  Goto(p, Closing(ids, "process_exit"))
  /\ fd_map' = [fd_map EXCEPT ![p] = <<>>]
  /\ UNCHANGED <<world, table, fd_count, cwd, executable, fault, past, load>>

process_exit(p) ==
  /\ At(p, "process_exit")
  /\ LET i == executable[p] IN
     \/ /\ i = NULL /\ Goto(p, [pc |-> "dead"])
        /\ UNCHANGED <<inodes, executable, fault>>
     \/ /\ i # NULL /\ inodes[i].deny_write_cnt \in 1..inodes[i].open_cnt
        /\ inodes' = [inodes EXCEPT ![i].deny_write_cnt = @ - 1]
        /\ executable' = [executable EXCEPT ![p] = NULL]
        /\ Goto(p, Closing(<<i>>, "dead"))
        /\ UNCHANGED fault
     \/ /\ i # NULL /\ inodes[i].deny_write_cnt \notin 1..inodes[i].open_cnt
        /\ fault' = "panic" /\ UNCHANGED <<inodes, executable, l>>
  /\ UNCHANGED <<world, open_inodes_lock, fd_count, cwd, fd_map, past, load>>

----------------------------------------------------------------------------
\* syscall_handler

PathCall(p, c) ==
  /\ c.kind = "exec" => executable[p] = NULL /\ cwd[p] = NULL /\ fd_map[p] = <<>>
  /\ Goto(p, [kind |-> c.kind, path |-> c.path, asked |-> c.path,
              base |-> IF c.path.abs \/ cwd[p] = NULL THEN ROOT_DIR_SECTOR
                       ELSE inodes[cwd[p]].sector] @@
             IF c.kind = "chdir" THEN [pc |-> "chdir"]
             ELSE IF c.kind = "open" /\ c.path = [abs |-> TRUE, parts |-> <<>>]
             THEN Opening(ROOT_DIR_SECTOR, "opened")
             ELSE [pc |-> "get_last_dir"])
  /\ UNCHANGED <<world, table, fd_count, procs, fault, past>>

FdCall(p, c) ==
  \E fd \in {0} \cup {fd_map[p][n].fd : n \in DOMAIN fd_map[p]} :
    \/ c.kind = "close" /\ close(p, fd)
    \/ c.kind = "read" /\ read(p, fd)
    \/ c.kind = "write" /\ write(p, fd)
    \/ c.kind = "seek" /\ seek(p, fd)
    \/ c.kind = "readdir" /\ dir_readdir(p, fd)

syscall_handler(p) ==
  /\ At(p, "user") /\ load.budget > 0
  /\ load.budget >= load.overlap => \A q \in Proc : l[q].pc \in {"user", "dead"}
  /\ \E c \in load.calls :
       \/ c.kind \in {"create", "mkdir", "remove", "open", "exec", "chdir"} /\ PathCall(p, c)
       \/ FdCall(p, c)
       \/ /\ c.kind = "exit" /\ Goto(p, [pc |-> "exit"])
          /\ UNCHANGED <<world, table, fd_count, procs, fault, past>>
  /\ load' = [load EXCEPT !.budget = @ - 1]

InodeStep(p) ==
  \/ inode_open(p) \/ inode_reopen(p) \/ inode_close(p)
  \/ inode_close_unlist(p) \/ inode_close_free(p) \/ inode_close_last(p)
  \/ inode_remove(p) \/ inode_write_extend(p)

WalkStep(p) ==
  \/ get_last_dir(p) \/ get_last_dir_start(p) \/ get_last_dir_cwd(p)
  \/ get_last_dir_walk(p) \/ get_last_dir_walked(p)
  \/ verify_filepath(p) \/ verify_filepath_cwd(p) \/ verify_filepath_from(p)
  \/ verify_filepath_root(p) \/ verify_filepath_enter(p)
  \/ verify_filepath_walk(p) \/ verify_filepath_looked(p)

DirectoryStep(p) ==
  \/ filesys_create(p) \/ inode_create(p) \/ dir_create_close(p)
  \/ dir_scan(p) \/ dir_add(p) \/ dir_write(p) \/ dir_write_extend(p) \/ filesys_create_undo(p)
  \/ filesys_remove(p) \/ dir_remove_check(p) \/ dir_remove_count(p) \/ dir_readdir_read(p)

ProcessStep(p) ==
  \/ filesys_open(p) \/ filesys_open_close(p) \/ open_fd(p) \/ open_load(p) \/ open_store(p)
  \/ load_deny_write(p) \/ chdir(p) \/ destroy_thread_fd(p) \/ process_exit(p) \/ Returned(p)

Step(p) == InodeStep(p) \/ WalkStep(p) \/ DirectoryStep(p) \/ ProcessStep(p)

FsNext == \E p \in Proc : Step(p) \/ syscall_handler(p)

\* Weak fairness: the scheduler runs every ready thread; steps that wait for a
\* lock or an inode's writer are enabled again for good once it is given up.
FsSpec == FsInit /\ [][FsNext]_fsVars /\ \A p \in Proc : WF_fsVars(Step(p))

----------------------------------------------------------------------------
\* Properties

OneByOne == load.mode # "parallel" /\ past \cap {"dot removed", "rolled back"} = {}

\* The files and directories that can be reached from the root: directory,
\* name and inode.
Kids(s) ==
  {<<s, e.name, e.sector>> : e \in {x \in Range(disk[s].slots) :
                                      disk[s].isdir /\ x.in_use /\ x.name \notin {".", ".."}}}
Tree ==
  LET level[n \in 0..Sectors] ==
        IF n = 0 THEN Kids(ROOT_DIR_SECTOR)
        ELSE UNION {Kids(x[3]) : x \in level[n - 1]}
  IN  UNION {level[n] : n \in 0..Sectors}

\* The abstract name space: one name is added, or one without names below it
\* goes.
TreeStep(t, u) ==
  \/ u = t
  \/ \E x \in u \ t :
       /\ u = t \cup {x}
       /\ \A y \in t : y[3] # x[3] /\ <<y[1], y[2]>> # <<x[1], x[2]>>
  \/ \E x \in t \ u : u = t \ {x} /\ \A y \in t : y[1] # x[3]

\* Where a path leads from base, -1 if nowhere.
Resolve(base, parts) ==
  FoldLeft(LAMBDA s, part :
             LET o == IF s = -1 THEN 0 ELSE LookupIn(disk[s].slots, part.name)
             IN  IF o = 0 \/ ~disk[s].isdir THEN -1 ELSE disk[s].slots[o].sector,
           base, parts)

\* Each step of a call adds one new name, removes one that nothing hangs from,
\* or leaves the name space alone (dir_add and dir_remove in directory.c), as
\* long as calls do not overlap, nobody removes an entry . or .. by name and no
\* extension of an empty file has failed (which leaves its sectors shared).
NameSpace ==
  [][disk' # disk /\ OneByOne => \E t \in {Tree}, u \in {Tree'} : TreeStep(t, u)]_fsVars

\* A directory has no two entries of one name: filesys_create and dir_add fail
\* when the name exists.
NamesUnique == \A x, y \in Tree : <<x[1], x[2]>> = <<y[1], y[2]>> => x = y

\* A call that reports success has done what it says, and open fails only when
\* the path leads nowhere (filesys_create, filesys_open, filesys_remove and
\* chdir), for paths without a name that is too long; such a name is never
\* created.
Truthful(p) ==
  LET me == l[p]
      long == \E i \in DOMAIN me.asked.parts : me.asked.parts[i].long
      at == Resolve(me.base, me.asked.parts)
  IN  me.pc = "return" /\ OneByOne =>
        CASE me.kind \in {"create", "mkdir"} ->
               /\ me.ret = 1 => ~long /\ at = me.want
          [] me.kind = "remove" /\ ~long -> me.ret = 1 => at = -1
          [] me.kind = "open" /\ ~long ->
               /\ me.ret > 0 => \E n \in DOMAIN fd_map[p] :
                                  /\ fd_map[p][n].fd = me.ret
                                  /\ inodes[fd_map[p][n].f + fd_map[p][n].d].sector = at
               /\ me.ret = -1 /\ load.mode = "serial" /\ me.asked # EmptyPath => at = -1
          [] me.kind = "chdir" /\ ~long -> me.ret = 1 => inodes[cwd[p]].sector = at
          [] OTHER -> TRUE
ResultsTruthful == \A p \in Proc : Truthful(p)

\* References to inode i that outlive a call.  chdir takes the reference of the
\* current directory along.
References(i) ==
  Cardinality({p \in Proc : cwd[p] = i /\ l[p].kind # "chdir"})
  + Cardinality({p \in Proc : executable[p] = i})
  + Cardinality(UNION {{<<p, n>> : n \in {m \in DOMAIN fd_map[p] : i \in {fd_map[p][m].f, fd_map[p][m].d}}} :
                         p \in Proc})

Unbalanced == past \cap {"chdir failed", "late reopen"} # {}

\* The open inode table under any interleaving (inode_open, inode_close): a
\* sector has one struct inode in the list, an inode is counted open at least
\* as often as it is referred to and closed to writers as often as it is an
\* executable, and freed memory is used only because of a thread that inode_open
\* left to count itself in without the lock, and that came too late.  A chdir that
\* failed has closed the current directory and voids the counts.  Sectors are
\* given back once, as long as calls do not overlap, nobody removes an entry . or ..
\* and no extension of an empty file fails.
TableSound ==
  /\ \A i, j \in Id : inodes[i].listed /\ inodes[j].listed /\ i # j
                       => inodes[i].sector # inodes[j].sector
  /\ \A i \in Id : inodes[i].deny_write_cnt = Cardinality({p \in Proc : executable[p] = i})
  /\ Unbalanced \/ \A i \in Id : inodes[i].open_cnt >= References(i)
  /\ fault = "wild" => Unbalanced \/ \E p \in Proc : l[p].pc = "inode_reopen"
  /\ OneByOne => fault # "free map"

\* Every call returns: no path walk goes on for ever and nobody waits for ever
\* for open_inodes_lock or for an inode that is being closed, unless the kernel
\* went down or inode_open kept the lock after malloc failed.
CallsReturn ==
  \A p \in Proc : l[p].pc # "user"
    ~> (l[p].pc \in {"user", "dead"} \/ fault # "none" \/ open_inodes_lock # None)
=============================================================================

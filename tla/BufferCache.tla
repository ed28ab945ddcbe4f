---------------------------- MODULE BufferCache ----------------------------
(***************************************************************************)
(* The buffer cache of filesys/inode.c: get_cached_sector with its         *)
(* eviction, cache_read and cache_write (whole sectors or parts of one)    *)
(* and write_all_dirty_sectors, which filesys_done calls.                  *)
(*                                                                         *)
(* The list and the sector_idx of its elements change only under           *)
(* buffer_cache_lock, the data only under the sector_lock of the element,  *)
(* and the disk is accessed only under buffer_cache_lock: one stretch of   *)
(* code under a lock is one step, except that write_all_dirty_sectors      *)
(* reads data and resets dirty without the sector_lock, so that copying    *)
(* into a sector and flushing it take several steps.  A sector is two      *)
(* halves, the first of which is what a partial write covers, and the      *)
(* contents of a half are the thread that wrote it.                        *)
(***************************************************************************)
EXTENDS ListOps, FiniteSets

CONSTANTS
  Thread,      \* threads that use the file system
  Flusher,     \* the thread that shuts the file system down
  Sectors,     \* number of sectors of the disk
  CacheSize,   \* most elements of buffer_cache (64 in the code)
  MaxOps       \* bound: cache operations of all threads together

None == "none"      \* the null pointer to a lock's holder

ASSUME CacheAssumption ==
  /\ IsFiniteSet(Thread) /\ Flusher \notin Thread /\ None \notin Thread \cup {Flusher}
  /\ CacheSize \in Nat \ {0} /\ Sectors \in Nat /\ CacheSize < Sectors
  /\ MaxOps \in Nat

NoSector == 0
Sector == 1..Sectors
Zero == "zero"
Half == 1..2
Slot == 1..CacheSize
Kind == {"read", "write", "partial"}
Content == Thread \cup {"initial", Zero}

VARIABLES
  disk,               \* Sector -> Half -> contents
  buffer_cache,       \* slots in list order
  sector_idx, data, dirty, sector_lock,    \* of each slot
  buffer_cache_lock,  \* its holder, or None
  pc, op, slot,       \* of each thread: place, request, its cached_sector
  ops,                \* operations called so far
  flush               \* rest of the list write_all_dirty_sectors has to visit

\* History: what was last written to each half; which halves a partial write
\* that missed the cache has zeroed since; sectors written during the flush.
VARIABLES latest, zeroed, touched

vars == <<disk, buffer_cache, sector_idx, data, dirty, sector_lock, buffer_cache_lock,
          pc, op, slot, ops, flush, latest, zeroed, touched>>

NoRequest == [kind |-> "read", sector |-> NoSector]

\* The cache as first created, or full of sectors that were only read so far.
Init ==
  /\ disk = [s \in Sector |-> [h \in Half |-> "initial"]]
  /\ \E n \in {0, CacheSize} :
       /\ buffer_cache = [i \in 1..n |-> i]
       /\ sector_idx = [i \in Slot |-> IF i <= n THEN i ELSE NoSector]
       /\ data = [i \in Slot |-> [h \in Half |-> IF i <= n THEN "initial" ELSE Zero]]
  /\ dirty = [i \in Slot |-> FALSE]
  /\ sector_lock = [i \in Slot |-> None]
  /\ buffer_cache_lock = None
  /\ pc = [t \in Thread \cup {Flusher} |-> "idle"]
  /\ op = [t \in Thread |-> NoRequest]
  /\ slot = [t \in Thread |-> 1]
  /\ ops = 0
  /\ flush = <<>>
  /\ latest = disk
  /\ zeroed = [s \in Sector |-> {}]
  /\ touched = {}
-----------------------------------------------------------------------------
\* After filesys_done the machine is switched off.
On == pc[Flusher] # "off"

Goto(t, l) == pc' = [pc EXCEPT ![t] = l]

Touch(s) == touched' = IF pc[Flusher] = "idle" THEN touched ELSE touched \cup {s}

\* The halves a request writes.
Written(kind) == CASE kind = "write" -> Half [] kind = "partial" -> {1} [] OTHER -> {}

\* Mutant of Fill: the evicted sector is not written back.
Fill_NoWriteBack(t, i, rest) ==
  LET s == op[t].sector
      back == disk
  IN  /\ disk' = back
      /\ data' = [data EXCEPT ![i] = IF op[t].kind = "read" THEN back[s]
                                     ELSE [h \in Half |-> Zero]]
      /\ sector_idx' = [sector_idx EXCEPT ![i] = s]
      /\ dirty' = [dirty EXCEPT ![i] = FALSE]
      /\ buffer_cache' = <<i>> \o rest
      /\ sector_lock' = [sector_lock EXCEPT ![i] = t]
      /\ slot' = [slot EXCEPT ![t] = i]
      /\ zeroed' = IF op[t].kind = "read" THEN zeroed
                   ELSE [zeroed EXCEPT ![s] = @ \cup (Half \ Written(op[t].kind))]
      /\ Goto(t, "have")

\* What get_cached_sector does to slot i once t holds both locks: write the old
\* sector back if dirty, fill the slot, put it in front of the rest of the list.
Fill(t, i, rest) ==
  LET s == op[t].sector
      back == IF dirty[i] THEN [disk EXCEPT ![sector_idx[i]] = data[i]] ELSE disk
  IN  /\ disk' = back
      /\ data' = [data EXCEPT ![i] = IF op[t].kind = "read" THEN back[s]
                                     ELSE [h \in Half |-> Zero]]
      /\ sector_idx' = [sector_idx EXCEPT ![i] = s]
      /\ dirty' = [dirty EXCEPT ![i] = FALSE]
      /\ buffer_cache' = <<i>> \o rest
      /\ sector_lock' = [sector_lock EXCEPT ![i] = t]
      /\ slot' = [slot EXCEPT ![t] = i]
      /\ zeroed' = IF op[t].kind = "read" THEN zeroed
                   ELSE [zeroed EXCEPT ![s] = @ \cup (Half \ Written(op[t].kind))]
      /\ Goto(t, "have")
-----------------------------------------------------------------------------
\* A call of cache_read, cache_write or their _with_size_and_offset variants.
call(t) ==
  /\ On /\ pc[t] = "idle" /\ ops < MaxOps
  /\ \E k \in Kind, s \in Sector : op' = [op EXCEPT ![t] = [kind |-> k, sector |-> s]]
  /\ ops' = ops + 1
  /\ Goto(t, "search")
  /\ UNCHANGED <<disk, buffer_cache, sector_idx, data, dirty, sector_lock,
                 buffer_cache_lock, slot, flush, latest, zeroed, touched>>

\* get_cached_sector from taking buffer_cache_lock: the sector is found, or
\* there is room for a new element, or the last element has to go.
get_cached_sector(t) ==
  /\ On /\ pc[t] = "search" /\ buffer_cache_lock = None
  /\ \/ \E i \in Range(buffer_cache) :
          /\ sector_idx[i] = op[t].sector
          /\ slot' = [slot EXCEPT ![t] = i]
          /\ Goto(t, "found")
          /\ UNCHANGED <<disk, buffer_cache, sector_idx, data, dirty, sector_lock,
                         buffer_cache_lock, zeroed>>
     \/ /\ \A i \in Range(buffer_cache) : sector_idx[i] # op[t].sector
        /\ Len(buffer_cache) < CacheSize
        /\ Fill(t, Len(buffer_cache) + 1, buffer_cache)
        /\ UNCHANGED buffer_cache_lock
     \/ /\ \A i \in Range(buffer_cache) : sector_idx[i] # op[t].sector
        /\ Len(buffer_cache) = CacheSize
        /\ slot' = [slot EXCEPT ![t] = buffer_cache[Len(buffer_cache)]]
        /\ buffer_cache_lock' = t
        /\ Goto(t, "evict")
        /\ UNCHANGED <<disk, buffer_cache, sector_idx, data, dirty, sector_lock, zeroed>>
  /\ UNCHANGED <<op, ops, flush, latest, touched>>

\* Mutant of evict: buffer_cache_lock is not released.
evict_KeepsLock(t) ==
  /\ On /\ pc[t] = "evict" /\ sector_lock[slot[t]] = None
  /\ Fill(t, slot[t], list_remove(buffer_cache, slot[t]))
  /\ UNCHANGED <<buffer_cache_lock, op, ops, flush, latest, touched>>

\* The victim's sector_lock is free at last; buffer_cache_lock is then released.
evict(t) ==
  /\ On /\ pc[t] = "evict" /\ sector_lock[slot[t]] = None
  /\ Fill(t, slot[t], list_remove(buffer_cache, slot[t]))
  /\ buffer_cache_lock' = None
  /\ UNCHANGED <<op, ops, flush, latest, touched>>

\* Mutant of recheck: the second comparison of sector_idx is left out.
recheck_Trusting(t) ==
  LET i == slot[t] IN
  /\ On /\ pc[t] = "found" /\ sector_lock[i] = None
  /\ sector_lock' = [sector_lock EXCEPT ![i] = t]
  /\ Goto(t, "have")
  /\ UNCHANGED <<disk, buffer_cache, sector_idx, data, dirty, buffer_cache_lock, op,
                 slot, ops, flush, latest, zeroed, touched>>

\* The sector was found: take its lock, look whether it is still the one.
recheck(t) ==
  LET i == slot[t] IN
  /\ On /\ pc[t] = "found" /\ sector_lock[i] = None
  /\ \/ /\ sector_idx[i] = op[t].sector
        /\ sector_lock' = [sector_lock EXCEPT ![i] = t]
        /\ Goto(t, "have")
     \/ /\ sector_idx[i] # op[t].sector
        /\ Goto(t, "search")
        /\ UNCHANGED sector_lock
  /\ UNCHANGED <<disk, buffer_cache, sector_idx, data, dirty, buffer_cache_lock, op,
                 slot, ops, flush, latest, zeroed, touched>>

Return(t) ==
  /\ sector_lock' = [sector_lock EXCEPT ![slot[t]] = None]
  /\ op' = [op EXCEPT ![t] = NoRequest]
  /\ slot' = [slot EXCEPT ![t] = 1]
  /\ Goto(t, "idle")

cache_read(t) ==
  /\ On /\ pc[t] = "have" /\ op[t].kind = "read"
  /\ Return(t)
  /\ UNCHANGED <<disk, buffer_cache, sector_idx, data, dirty, buffer_cache_lock,
                 ops, flush, latest, zeroed, touched>>

\* The copying loop of cache_write_with_size_and_offset, one half at a time.
CopyHalf(t, h) ==
  LET s == op[t].sector IN
  /\ IF h \in Written(op[t].kind)
       THEN /\ data' = [data EXCEPT ![slot[t]][h] = t]
            /\ latest' = [latest EXCEPT ![s][h] = t]
            /\ zeroed' = [zeroed EXCEPT ![s] = @ \ {h}]
       ELSE UNCHANGED <<data, latest, zeroed>>
  /\ Touch(s)

cache_write_copy(t) ==
  /\ On
  /\ \/ pc[t] = "have" /\ op[t].kind # "read" /\ CopyHalf(t, 1) /\ Goto(t, "copy2")
     \/ pc[t] = "copy2" /\ CopyHalf(t, 2) /\ Goto(t, "copied")
  /\ UNCHANGED <<disk, buffer_cache, sector_idx, dirty, sector_lock, buffer_cache_lock,
                 op, slot, ops, flush>>

cache_write_done(t) ==
  /\ On /\ pc[t] = "copied"
  /\ dirty' = [dirty EXCEPT ![slot[t]] = TRUE]
  /\ Return(t)
  /\ Touch(op[t].sector)
  /\ UNCHANGED <<disk, buffer_cache, sector_idx, data, buffer_cache_lock, ops, flush,
                 latest, zeroed>>
-----------------------------------------------------------------------------
\* Sectors some thread is in the middle of writing.
BeingWritten == {op[t].sector : t \in {u \in Thread : pc[u] \in {"have", "copy2", "copied"}
                                                       /\ op[u].kind # "read"}}

\* Mutant of flush_start: the loop starts at the second element.
flush_start_SkipsFront ==
  /\ pc[Flusher] = "idle" /\ buffer_cache_lock = None /\ buffer_cache # <<>>
  /\ buffer_cache_lock' = Flusher
  /\ flush' = Tail(buffer_cache)
  /\ Goto(Flusher, "flush")
  /\ touched' = BeingWritten
  /\ UNCHANGED <<disk, buffer_cache, sector_idx, data, dirty, sector_lock, op, slot,
                 ops, latest, zeroed>>

\* write_all_dirty_sectors takes buffer_cache_lock (the cache is not empty: the
\* free map has been read through it).
flush_start ==
  /\ pc[Flusher] = "idle" /\ buffer_cache_lock = None /\ buffer_cache # <<>>
  /\ buffer_cache_lock' = Flusher
  /\ flush' = buffer_cache
  /\ Goto(Flusher, "flush")
  /\ touched' = BeingWritten
  /\ UNCHANGED <<disk, buffer_cache, sector_idx, data, dirty, sector_lock, op, slot,
                 ops, latest, zeroed>>

\* One round of its loop: block_write, then dirty = 0.  A transfer that a writer
\* overlaps may be torn; its sector is in touched.
flush_sector ==
  LET i == Head(flush) IN
  /\ flush # <<>>
  /\ \/ /\ pc[Flusher] = "flush" /\ dirty[i]
        /\ disk' = [disk EXCEPT ![sector_idx[i]] = data[i]]
        /\ Goto(Flusher, "clear")
        /\ UNCHANGED <<dirty, flush>>
     \/ /\ pc[Flusher] = "flush" /\ ~dirty[i]
        /\ flush' = Tail(flush)
        /\ UNCHANGED <<disk, dirty, pc>>
     \/ /\ pc[Flusher] = "clear"
        /\ dirty' = [dirty EXCEPT ![i] = FALSE]
        /\ flush' = Tail(flush)
        /\ Goto(Flusher, "flush")
        /\ UNCHANGED disk
  /\ UNCHANGED <<buffer_cache, sector_idx, data, sector_lock, buffer_cache_lock, op,
                 slot, ops, latest, zeroed, touched>>

flush_end ==
  /\ pc[Flusher] = "flush" /\ flush = <<>>
  /\ buffer_cache_lock' = None
  /\ Goto(Flusher, "off")
  /\ UNCHANGED <<disk, buffer_cache, sector_idx, data, dirty, sector_lock, op, slot,
                 ops, flush, latest, zeroed, touched>>

Run(t) ==
  \/ get_cached_sector(t) \/ evict(t) \/ recheck(t)
  \/ cache_read(t) \/ cache_write_copy(t) \/ cache_write_done(t)

RunFlusher == flush_sector \/ flush_end

Next ==
  \/ \E t \in Thread : call(t) \/ Run(t)
  \/ flush_start
  \/ RunFlusher

Spec == Init /\ [][Next]_vars

\* The scheduler runs every ready thread again (round robin), and the disk
\* answers; nobody has to call the cache or switch the machine off.
FairSpec ==
  /\ Spec
  /\ \A t \in Thread : WF_vars(Run(t))
  /\ WF_vars(RunFlusher)
-----------------------------------------------------------------------------
\* The type of the state; buffer_cache never has more elements than its limit.
TypeOK ==
  /\ disk \in [Sector -> [Half -> Content]]
  /\ buffer_cache \in Seq(Slot) /\ Len(buffer_cache) <= CacheSize
  /\ sector_idx \in [Slot -> Sector \cup {NoSector}]
  /\ data \in [Slot -> [Half -> Content]]
  /\ dirty \in [Slot -> BOOLEAN]
  /\ sector_lock \in [Slot -> Thread \cup {None}]
  /\ buffer_cache_lock \in Thread \cup {Flusher, None}
  /\ pc \in [Thread \cup {Flusher} ->
               {"idle", "search", "found", "evict", "have", "copy2", "copied",
                "flush", "clear", "off"}]
  /\ op \in [Thread -> [kind : Kind, sector : Sector \cup {NoSector}]]
  /\ slot \in [Thread -> Slot]
  /\ ops \in 0..MaxOps
  /\ flush \in Seq(Slot)
  /\ latest \in [Sector -> [Half -> Content]]
  /\ zeroed \in [Sector -> SUBSET Half]
  /\ touched \in SUBSET Sector

\* Between get_cached_sector and lock_release a thread holds the sector_lock of
\* an element that is in the list and caches the very sector it asked for, no
\* matter who evicted what while it waited; and no sector is cached twice, so
\* that there is one lock and one copy for it.
RightSector ==
  /\ TypeOK
  /\ \A i, j \in 1..Len(buffer_cache) :
       i # j => sector_idx[buffer_cache[i]] # sector_idx[buffer_cache[j]]
  /\ \A t \in Thread : pc[t] \in {"have", "copy2", "copied"} =>
       /\ sector_lock[slot[t]] = t
       /\ slot[t] \in Range(buffer_cache)
       /\ sector_idx[slot[t]] = op[t].sector

\* What the sector holds according to the writes made so far, given that a
\* partial write that misses the cache zeroes the rest of the sector.
Expected(s) == [h \in Half |-> IF h \in zeroed[s] THEN Zero ELSE latest[s][h]]

\* A cache_read copies what was last written to each half of the sector, through
\* any sequence of evictions and reloads: no write is lost with a slot that is
\* reused and no stale copy comes back from the disk.  The one exception is what
\* the memset of get_cached_sector cleared.
ReadsWritten ==
  \A t \in Thread : pc[t] = "have" /\ op[t].kind = "read" =>
    data[slot[t]] = Expected(op[t].sector)

\* "If sector_idx isnt present, then we evict the last sector and pull in
\* sector_idx from memory": a cache_read sees the last write of every half, and
\* what a partial write does not cover stays as it was.
ReadsLatest ==
  \A t \in Thread : pc[t] = "have" /\ op[t].kind = "read" =>
    data[slot[t]] = latest[op[t].sector]

\* When filesys_done switches the file system off, every sector that nobody was
\* writing during the flush is on the disk as last written, although the flush
\* takes no sector_lock and clears dirty after the transfer.
FlushDurable ==
  pc[Flusher] = "off" => \A s \in Sector \ touched : disk[s] = Expected(s)

\* Every cache operation returns (or the machine is switched off first): waiting
\* for a victim's sector_lock under buffer_cache_lock blocks all searches, but
\* not the thread that holds the sector.
OperationsReturn == \A t \in Thread : []<>(pc[t] = "idle" \/ pc[Flusher] = "off")
=============================================================================

# Pintos in TLA+

A formal model of the Pintos kernel in `src/pintos/src`: one module per component,
model-checked on small instances with TLC, and, for the monitor of inodes, the
buffer cache and `wait_status`, proved for every instance with TLAPS. Unless they
start with `src/`, the paths below are relative to `src/pintos/src`.

## The system

Pintos runs on one CPU. Kernel threads are preempted by the timer; code that
must not be interrupted disables interrupts. Everything else is protected by
semaphores, locks and condition variables built on that.

| Part | Source | Module |
|---|---|---|
| scheduler, thread life cycle, idle thread | `threads/thread.c` | `Threads` |
| semaphores, locks | `threads/synch.c` | `Threads` |
| timer tick, disk completion interrupt | `devices/timer.c`, `devices/ide.c` | `Threads` |
| page allocator | `threads/palloc.c` | `Threads` (lock), `Heap` (pages) |
| kernel heap | `threads/malloc.c` | `Heap` |
| condition variables, reader/writer monitor of an inode | `threads/synch.c`, `filesys/inode.c` | `InodeMonitor`, implements `RWLock` |
| exec, wait, exit and `wait_status` | `userprog/process.c`, `threads/thread.c` | `WaitStatus` |
| program loading, page directories | `userprog/process.c`, `userprog/pagedir.c` | `Exec` |
| buffer cache | `filesys/inode.c` | `BufferCache` |
| file growth, block index, free map | `filesys/inode.c`, `filesys/free-map.c` | `FileGrowth` |
| open inodes, files, directories, paths, descriptors | `filesys/*.c`, `userprog/syscall.c` | `FileSystem` |
| interrupt queues, serial port, keyboard, console | `devices/intq.c`, `serial.c`, `input.c`, `kbd.c`, `lib/kernel/console.c` | `Terminal` |
| disks, block layer, partitions, block roles | `devices/ide.c`, `block.c`, `partition.c`, `threads/init.c` | `Disk` |
| lists | `lib/kernel/list.c` | `KernelList`, implements `ListSpec` |
| hash tables | `lib/kernel/hash.c` | `HashTable` |
| bitmaps | `lib/kernel/bitmap.c` | `Bitmap` |
| C library, argument stack, tar headers | `lib/*.c`, `userprog/process.c` | `CString`, `CStdlib`, `CStdio`, called by `Library` |
| GDT, TSS, display, speaker, clocks, fsutil, boot assembly | `userprog/`, `devices/`, `threads/*.S` | not modelled |

How they interact: a system call of a process (a thread with a page directory)
uses files, which are inodes with a position. An inode is guarded by its
monitor, its sectors go through the buffer cache, and the cache calls the disk
driver, which sleeps on a semaphore until the completion interrupt. Threads are
created by `process_execute` and destroyed by whichever thread is scheduled
after they exit. Each module takes the layer below it as its atomicity
argument: `InodeMonitor` relies on locks excluding each other, which is
`LockToken` of `Threads`, and `BufferCache` does the same.

## Modules

### Threads

State: the run queue, `all_list`, the status of each thread, the value and the
queue of each semaphore, the holder of each lock, the rest of the program each
thread executes, the number of free pages. A thread's program is a sequence of
kernel operations (`lock_acquire`, `lock_release`, `thread_create`, semaphore
operations, a disk command); one operation is one step, since each one runs
with interrupts off, and `thread_tick` may come between any two of them.
`lock_acquire` is two operations because the code sets `holder` after
`sema_down` has returned, and `thread_create` is the sequence of its parts.
`schedule` and `thread_schedule_tail` are modelled with the dying thread they
hand over (`pending`): the next thread frees its page before it does anything
else, and has to go through `palloc_lock` for that.

Checked: a thread is in at most one list and in the right one, the idle thread
in none, and tids differ (`ListDiscipline`); nobody sleeps on a semaphore that is
up without a wake-up under way (`NoLostWakeup`); the value and holder of a lock
agree with who is inside (`LockToken`); pages are neither lost nor invented
(`PagesConserved`); and every thread finishes (`ThreadsExit`).

One call is the source of all the exceptions. `thread_schedule_tail` frees a dead
thread's page in the context of the thread that runs next, inside the context
switch, and has to take `palloc_lock` for it. If that thread is inside the page
allocator itself, the ASSERT of `lock_acquire` fails or, between clearing `holder`
and the `sema_up`, the thread waits for itself. `StopsOnlyByReap` says that the
modelled code stops in no other way, and `ThreadsExit` is stated up to there. If
such a thread sleeps and idle is the one that reaps, idle sleeps on the lock too;
with nobody else ready `next_thread_to_run` chooses idle again, which now runs
with its `elem` in the wait list and pushes it once more (`IdleSpins`; `PushBack` is
`list_push_back` of an element that may be linked already). From then on only idle
runs. `ListDiscipline` excepts the wait list of `palloc_lock` in that situation and
nothing else; run `threads_elem` shows the situation against `threads/thread.h:99`.

Abstracted: `pool->lock` (only taken under `palloc_lock`, never contended), which
page is handed out (`Heap`), the heap allocation inside `thread_create`, the work
of `process_exit` (modelled in `WaitStatus`).

### InodeMonitor and RWLock

State: the four counters of `struct inode`, the two condition queues in FIFO
order, the threads that were signalled and have not run since. An action is one
stretch of code under `inode->l`. `RWLock` is the promise: a set of readers and
a set of writers, a writer alone. `InodeMonitor` implements it
(`ImplementsRWLock`: the threads at "reading" and at "writing" are the readers
and the writers).

### WaitStatus

State: for each process where it is in `process_execute`, `start_process`,
`process_wait` or the exit path, its `wait_status` (reference count, exit code,
`done_loading`, `dead`, in the parent's list or not), and which structures have
been freed. Any process may exec, wait for any tid and exit with any status at
any time; `load` may fail, and a command line without a word, or one whose
arguments leave the mapped stack, stops the kernel (`start_process_panic`). The
model also stops at the first access to freed memory; `stopped` records which of
these happened, and the passing run describes the kernel up to there. There are
two such accesses: the semaphore of run `wait_status_race`, and
`destroy_wait_status`, which unlinks an orphan from a list whose head was in its
parent's freed page (`userprog/process.c:45`). `list_remove` comes from `ListOps`,
which has the list operations the proofs need.

### BufferCache

State: the disk, the list of cached sectors, per element its sector, data,
dirty bit and lock, `buffer_cache_lock`, and where each thread is. A stretch of
code under a lock is one step, except that copying into a sector and the flush
are several, because `write_all_dirty_sectors` takes no `sector_lock`. A sector
is two halves (the part that a partial write covers, and the rest) and the
contents of a half are the thread that wrote it. A hit does not move an element
to the front, so the list is FIFO; `src/doc/project3.md` line 99 describes an LRU
list. History variables hold what was last written (`latest`), what the memset
of a missed partial write cleared (`zeroed`) and what was written during the
flush (`touched`).

### FileGrowth

State: the free sectors, each sector's contents as an index block, the inode of
each file on disk, who is inside its monitor, and for each thread the private
copies `inode_resize` works on. `inode_resize` is five actions: up to the loops,
the head of the loop over `i`, one round of the loop over `j`, committing an
indirect block, committing the doubly indirect block. Each contains at most one
call of the free map, because other files allocate and release between two
calls. A failing allocation restarts it with the original length. The monitor is
the lock of `RWLock`, which `InodeMonitor` is proved to implement. The length test
of `inode_write_at` is made as a reader, the resize as a writer: two actions.
`inode_create` may ask for length 0, and `inode_deny_write` and
`inode_allow_write` make writes return 0.

Rolling back an extension of an empty file to length 0 releases its doubly
indirect block, to which the inode on disk still points (`filesys/inode.c:299`);
run `file_growth_empty` shows it. The variable `dangling` records that this has
happened; `BytesHaveSectors`, `NoSharedSector` and `OperationsReturn` are stated up
to there, and hold for every other failed extension. A failed extension also loses
the sectors it had put below an indirect block that was not yet committed; the
model does the same.

### FileSystem

State: per sector the inode on disk (directory or not, its slots, its length in
units), the free map, the table of `struct inode`, per process its current
directory, descriptors and executable, the global `fd_count`, and where the
process is in its call. A call is a sequence of operations on single inodes,
each of which the inode's monitor makes one step (`InodeMonitor`); between two of
them other processes run. The loops of `lookup`, of the search for a free slot in
`dir_add` and of `number_entries` read one entry at a time, so that an entry may
change behind or before them (`dir_scan`; where calls do not overlap such a loop is
one step). `get_last_dir` and `verify_filepath` are loops over the parts of a path
that open and close inodes as the code does, so that every reference that the code
loses is lost in the model. `inode_open` searches and inserts under
`open_inodes_lock`; a thread that finds the inode counts itself in afterwards,
without the lock (`inode_reopen`). `inode_close` of the last opener is four steps:
the count, out of the list, the sectors given back, the memory freed. A write at
the end of a file or directory may fail for want of sectors, and rolls back as
described for `FileGrowth`. A block of memory that was freed is marked so;
following a pointer to it, a null pointer or a failing ASSERT ends the behaviour
with `fault`. `past` notes that a `chdir` failed, that an entry `.` or `..` was
removed by name, that a thread counted itself in to an inode whose last opener had
left (`late reopen`), or that the extension of an empty file was rolled back.

What the code does and the model shows: a failing `chdir` has closed the current
directory (`filesys.c:264`, `288`); `filesys_open` of a name that is not there
leaves its directory open (`108`); `get_last_dir` does not close a non-directory
it looked up (`216`); a failed `create` releases the inode's sector only (`73`);
closing the descriptor of a directory closes no inode (`syscall.c:218`);
`dir_remove` tolerates one opener besides itself (`directory.c:255`); `remove` by a
process that never had a current directory follows a null pointer (`241`); `seek`,
`tell` and `filesize` of a number that is no file assert; `readdir` of a file
follows a null pointer. `TableSound` says what still holds: one `struct inode` per
sector, counts that cover all references until a `chdir` fails or a thread reopens
too late, deny-write counts that are exact, and freed memory used only in the
window of `inode_open`.

### Terminal, Disk, Exec

`Terminal`: a step is what a thread or handler does until it blocks or turns
interrupts on. The loops of `intq_getc` and `intq_putc`, the wait for the queue's
lock and the ASSERT of `wait` (`LoopEntry`) are the heart. The keyboard has one
row of each keymap; `Meant` says what the typist means, independently of the code.
The ASSERT can fail for several concurrent readers and for nobody else.

`Disk`: one channel, its lock, its registers, the two disks as external hardware
(`DiskDone`, `DiskWantsData`), the interrupt. `check_device_type` looks at the error
register, the status and the signature of device 0 and, if that reports no failure
or is ready, of device 1; a disk that does not answer IDENTIFY DEVICE is left
alone, a read or write that meets one panics. `want` is the array of sectors the
calls have written, at the place the partition table gives; the media must agree.
The scan of an extended partition reads sector 0 again (`partition.c:91`) and
recurses for ever; the model follows it `MaxDepth` frames.

`Exec`: page directories and page tables as frames of the kernel pool, pages as
frames of the user pool with their bytes, and the register CR3 (`active`). A page of
`load_segment` is allocated, read, mapped or, on an error path, given back in steps
of their own, so that other processes see the pool while it is held. The expected
image is computed from the program headers alone (`Loadable`, `Expected`). The
overflow test of the argument stack (`process.c:231`) never fires; arguments longer
than a page fault or overwrite.

### KernelList, HashTable, Heap

Sequential structures: an action is a call, with any arguments its ASSERTs allow.
`KernelList` has the `prev` and `next` pointers of the elements; its mapping to
sequences (`ImplementsSequences`) shows that every call, `list_sort`,
`list_unique` and `list_splice` included, leaves links that agree and does to the
sequence what `ListSpec` says for that call and its arguments, for two orders of
the elements. `HashTable` rehashes as the code does, with a `malloc` that may fail;
`BehavesAsSet` ties each call and its answer to a set of elements in the same way.
`Heap` has malloc's descriptors and arenas over the two page pools and their
bitmaps. Sizes are of the width of `size_t`: `malloc` of nearly 2^32 bytes wraps to
one page (`malloc.c:109`), and the overflow test of `calloc` misses products that
wrap to a number above both factors (`malloc.c:166`). The model makes the same short
allocations and `MemoryAccounted` says that nothing else is short. Products for
which both happen are left out, because `calloc` would then clear memory beyond its
page (`HeapAssumption`).

### Bitmap, CLang, CString, CStdlib, CStdio, Library

Pure functions, translated loop by loop (`CLang` has the loops), over small
widths: `HalfBits` stands for the 32 bits of `udiv64`, `Bits` for the widths of
printf's types. `Library` calls each of them on all small inputs, one input per
step, and `LibraryAgrees` compares the result with an independent definition; so
does `ArgumentsOnStack` for the command line, the word list, the pushes and the
alignment of `load_arguments_to_stack`, on lines of up to seven characters. A line
without a word panics, because `strlcpy` is called with a null source
(`process.c:271`), and so does one whose layout leaves the mapped page. Results that
differ from a comment and are left out of the comparison: `memmove` returns
`dst + size` when it copies forwards (`string.c:45`); `umod64` and `smod64` truncate
to 32 bits (`arithmetic.c:131`, `150`); a negative `*` width with the flag 0 pads on
both sides; `strrchr(s, 0)` is null; `bitmap_scan_and_flip` with `cnt` 0 returns
`start`, where its comment says 0 (`bitmap.c:316`).

## Runs

| Run | Instance | States | Result |
|---|---|---|---|
| `inode` | monitor: 4 threads, 2 check-ins each; growth: 2 threads, 2 files, 8 sectors, 2 pointers per block, 2 bytes per sector, 3 operations | 426,322 | holds, growth up to a roll-back to an empty file |
| `process` | `WaitStatus`: 4 tids, any tree; `Exec`: about 6,500 sets of programs and page pools | 426,456 | holds, `WaitStatus` up to the first use of freed memory |
| `buffer_cache` | 2 threads and a flusher, 3 sectors, 2 slots, 3 operations | 704,232 | holds |
| `structures` | 3 list elements in 2 lists, 5 hash elements, 3 live allocations, small library inputs | 174,580 | holds |
| `file_system` | 2 processes, 8 sectors, 4 workloads of 3 or 4 calls | 247,548 | holds |
| `machine` | threads: 7, two programs, page pools that suffice and that do not; terminal: 4 workloads; disk: 7 channels | 251,067 | holds |
| `wait_status_race` | 3 tids | | `NoFreedWaitStatus` violated |
| `buffer_cache_partial` | as `buffer_cache` | | `ReadsLatest` violated |
| `file_growth_shrink` | the growth of `inode` | | `NeverShrinks` violated |
| `file_growth_empty` | the growth of `inode` | | `RollsBack` violated |
| `file_system_twins` | as `file_system` | | `NamesUnique` violated |
| `threads_elem` | the threads of `machine` | | `OnlyBlockedWait` violated |

`inode`, `process`, `structures` and `machine` hold several modules that share
nothing; a behaviour belongs to one of them, chosen in the initial state (`part`),
and the others stay as they begin. What each of them checks:

| Run | Properties |
|---|---|
| `inode` | monitor: `Exclusion`, `NoLostWakeup`, `EveryoneGetsOut`, `ImplementsRWLock`; growth: `BytesHaveSectors`, `NoSharedSector`, `OperationsReturn` |
| `process` | `WaitStatus`: `RefCounts`, `NoLeak`, `WaitContract`, `ExecContract`, `Progress`; `Exec`: `FramesAccounted`, `ActiveDirectory`, `ImageLoaded` |
| `buffer_cache` | `RightSector`, `ReadsWritten`, `FlushDurable`, `OperationsReturn` |
| `structures` | `ImplementsSequences`, `BucketsConsistent`, `BehavesAsSet`, `MemoryAccounted`, `LibraryAgrees`, `ArgumentsOnStack` |
| `file_system` | `ResultsTruthful`, `TableSound`, `NameSpace`, `CallsReturn` |
| `machine` | threads: `ListDiscipline`, `NoLostWakeup`, `LockToken`, `StopsOnlyByReap`, `PagesConserved`, `ThreadsExit`; terminal: `CharactersInOrder`, `TerminalProgress`; disk: `BlocksAreArrays`, `BootsAndServes` |

`BootsAndServes` says that the registry of blocks is complete for good and that
from some point on no call is under way. Since a call that does not return is
under way for ever, every `block_read` and `block_write` returns.

Bounds. Four threads in the monitor give two readers and two writers, the least
with a queue on either side and somebody inside; two check-ins let a thread
overtake its own waker. The thread programs create, contend, do disk I/O and exit,
in one of them while others allocate. Three processes beside the main thread give
a parent, a child and a grandchild or sibling. Two slots and three sectors make
every miss of a full cache an eviction; the cache starts empty or full of clean
sectors, so that three operations reach an access that finds its sector, loses it
to an eviction and reloads it. With two pointers per block a file of 5 bytes needs
a second indirect block, 3 bytes end inside a sector and the 2 bytes of the first
file at its end, and a created file may be empty; eight sectors do not suffice for
both files. Writes end at most where the index ends (the code does not enforce
`MAX_FILE_SIZE`). In `file_system` a workload chooses its calls from a set:
directories one deep and relative and absolute paths; files, descriptors, a name
that is too long and executables; overlapping mkdir, remove and open; and a malloc
that fails. Three calls of two processes give two calls at once on a name that a
third made. Queues of three slots, which hold two bytes, are full, empty and
wrapped around within a few steps; four-bit sector numbers and addresses let sums
wrap. Three list elements, two of them equal, are enough for runs, merges and
duplicates in `list_sort` and `list_unique`; with three different keys a list in
descending order is three runs, which `list_sort` merges in two passes; five hash
elements make the table grow twice and shrink. The heap's smallest block is three
units in an arena of sixteen, so that both small and big blocks, recycling and
exhaustion happen; two of the requests wrap `size_t`. `MaxDepth`, `MaxLength`,
`MaxOps`, `MaxText`, `MaxLine`, `MaxLive` and the workloads' budgets only cap the
length of behaviours and inputs.

Fairness. Weak fairness of each thread's steps (round robin: a ready thread runs
again) and of the devices: a disk finishes its command, the UART transmits and
interrupts while its interrupt is enabled, a pending interrupt is taken. Nobody
is obliged to start an operation, press a key or switch the machine off, and the
number of operations is bounded, so that no strong fairness of locks is needed.

## What the violated runs show

- `wait_status_race`: a child gives up its reference and then ups `ws->dead`; a
  parent that exits in between frees the structure.
- `buffer_cache_partial`: on a miss `get_cached_sector` clears the slot for any
  write, although `inode_write_at` writes parts of sectors; the rest of the sector
  is lost.
- `file_growth_shrink`: two threads append; the one that resizes second uses a
  length test from before the other's write and cuts the file back.
- `file_system_twins`: `dir_add` looks the name up, finds a slot and writes it in
  three operations without a lock around them; two calls make one name twice.
- `file_growth_empty`: the first write to an empty file fails for lack of sectors
  and the roll-back releases the doubly indirect block, which the inode on disk
  keeps; the next file may get it.
- `threads_elem`: idle reaps a dead thread while the thread that holds
  `palloc_lock` sleeps on it, and runs on with its element in that lock's wait list.

## Proofs

A theorem holds for every value of the constants that satisfies the assumptions
named in the component's module. Each proof module states the inductive
invariant `IInv` of its component, proves that `Init` implies it and, with one
lemma per action, that every step preserves it, and derives the properties.

`InodeMonitorProofs` proves, for every finite set of threads and every bound,
`TypeCorrect`, `CountersAgree`, `WriterAlone`, `NoWakeupLost` and `Refinement`
from `ThreadFinite` and `MaxOpsNat`. The inductive invariant is

    IInv == TypeOK /\ Bookkeeping /\ OneSided /\ NoLostWakeup

`Exclusion` is not inductive: that a writer is alone depends on the counters
being the cardinalities of the sets of threads they stand for (`Bookkeeping`).
`OneSided` says that at most one kind is active. `NoLostWakeup` needs both,
because whether a check-out signals depends on the counters. Lemmas on
appending to and removing from a queue and on the cardinality of a set that
gains or loses one thread carry the arithmetic; each action then has its own
lemma (`ReaderCheckinStep` and so on). The refinement follows from the invariant
step by step (`StepRefines`).

`TypeOK` and `Bookkeeping` are no invariants of a run of their own: they are
conjuncts of `IInv`, and `Exclusion` and `NoLostWakeup`, which the run checks,
follow from them.

`BufferCacheProofs` proves `RightSector`, `ReadsWritten` and `FlushDurable` for
every set of threads, every cache size and every larger disk, from
`CacheAssumption`. The inductive invariant is

    IInv == TypeOK /\ ListShape /\ Locking /\ Coherence /\ Flushing

`ListShape`: the list has no element twice and no two elements with one sector.
`Locking`: what a thread at each place holds and knows, in particular that a
thread that is about to evict has the list's lock and that its sector is not in
the list. `Coherence`: an element holds what was last written except for the
halves its owner has still to copy, a clean element agrees with the disk, and a
sector that is not listed is on the disk as last written. `Flushing`: every dirty
element that nobody has written to since the flush began has still to be visited.
An eviction needs all but the last: the victim is written back because `Coherence`
says that only dirty elements differ from the disk, and no thread uses it because
`Locking` says that a user holds its `sector_lock`. `FillIInv` proves once what a
miss that takes a new element and an eviction have in common.

`WaitStatusProofs` proves `RefCounts`, `NoLeak`, `WaitContract` and
`ExecContract` for every number of processes, every tree they form, every order
of their exits and every set of exit statuses, from `WaitStatusAssumption`. The
inductive invariant is

    IInv  == Types /\ (stopped = "no" => Sound)
    Sound == Tree /\ Lists /\ Counts /\ Signals /\ Waits

`RefCounts` alone is not inductive: a process gives up a child only if the child
is in its list, so the lists must hold exactly the children whose `wait_status`
is allocated (`Lists`), and the count may be zero only while exactly one of the
two processes is about to free it (`Counts`). `Signals` says what an up of `dead`
or `done_loading` tells its waiter, and `Waits` that a `wait_status` is freed only
by a wait or after its parent has begun to exit; the two contracts need them. All
of it holds until the kernel stops: up to the first use of freed memory (run
`wait_status_race`) or a panic in `start_process`, as the properties say.

`ListLemmas` has the facts about lists as sequences without repetition that the
last two need: what pushing, popping and `list_remove` (module `ListOps`) do to
the elements.

Only model-checked: all liveness properties (`Progress`, `OperationsReturn`,
`ThreadsExit` and the like; fairness is outside the prover's reach), what the
recursive functions of the library compute (induction over data is too), and the
properties of the other modules so far.

## Plan

1. Proofs: `LockToken` and `ListDiscipline` of `Threads`; `NoSharedSector` of
   `FileGrowth`; `FramesAccounted` and `ActiveDirectory` of `Exec`; the first two
   conjuncts of `CharactersInOrder`.
2. An abstract sector store that `BufferCache` implements, up to the memset, and
   that `FileGrowth` and `FileSystem` could be composed over.
3. The free map as a file: `free_map_create` and the writes of the bitmap.

## Not modelled

- The GDT and the TSS, the display, the speaker, the clock chips and the
  interrupt controllers: constants and register writes without state that other
  parts read. `rtc_get_time` is in this group.
- The boot path apart from `ide_init` and `locate_block_devices`: straight-line
  code and assembly; `reset_channel` and the polling timeouts of `ide.c`.
- The free map file; `fsutil.c`, which runs alone before the first process; the
  checks of user pointers in `syscall.c`, which only end the process.
- `timer_sleep` and the sleep functions, which yield or spin until a tick count;
  the alarm clock and the priority scheduler described in `src/doc/project2.md`
  are not implemented in this code, the scheduler is round robin.
- `hash_destroy`, `bitmap_dump`, `hex_dump` and the debugging output.

------------------------------ MODULE MCMachine ------------------------------
(***************************************************************************)
(* The threads, the terminal and the disks.  A behaviour is of one of      *)
(* them, which part says; the variables of the terminal and of the disk    *)
(* are 0 in the others, and the threads stay as they begin.                *)
(***************************************************************************)
EXTENDS Threads, TLC

CONSTANTS A, B, C, D, E, file_lock, made, go, completion_wait,
          reader1, reader2, writer1, writer2, Readers, Writers, BufSize, Loads,  \* Terminal
          Users, NoThread, Word, Limit, MaxDepth, Channels                       \* Disk

VARIABLES part,
          task, halted,                                     \* th and panic of Terminal and Disk
          buffer, txq, ier, console, kbd, keys, sent, rx, put, got, typed, count, power, load,
          chan, is_ata, blocks, role, lock, expecting, completion, reg, dev, media, irq, scan, want

terminal == <<buffer, txq, ier, console, kbd, keys, sent, rx, put, got, typed, count, power, load>>
disk == <<chan, is_ata, blocks, role, lock, expecting, completion, reg, dev, media, irq, scan,
          want>>
machine == <<part, task, halted, terminal, disk, vars>>

Tty == INSTANCE Terminal WITH th <- task, panic <- halted
Ide == INSTANCE Disk WITH Threads <- Users, th <- task, panic <- halted

ASSUME ThreadAssumption == ThreadConstants

-----------------------------------------------------------------------------
(* Threads.  Contention: two threads create threads at the same time and   *)
(* run out of pages, then all of them contend for a lock held across disk  *)
(* I/O, and exit; the creations are over before the first exit.  Reaping:  *)
(* threads exit while others are inside the page allocator: Main creates   *)
(* A, B, C and D while A creates E and waits for C; B, D and E return at   *)
(* once.                                                                   *)

MCThread == {Main, Idle, A, B, C, D, E}
MCLock == {palloc_lock, tid_lock, file_lock}
MCSemaphore == MCLock \cup {made, go, completion_wait}
MCInitialValue == [s \in MCSemaphore |-> IF s \in MCLock THEN 1 ELSE 0]

Do(o, s) == <<[op |-> o, on |-> s]>>

DiskRead == lock_acquire(file_lock) \o Do("start", completion_wait)
            \o Do("down", completion_wait) \o lock_release(file_lock)

Contention ==
  (Main :> thread_create(A) \o thread_create(C) \o Do("down", made)
           \o Do("up", go) \o Do("up", go) \o Do("up", go)) @@
  (A :> thread_create(B) \o Do("up", made) \o Do("down", go) \o DiskRead) @@
  (B :> Do("down", go) \o DiskRead) @@
  (C :> Do("down", go) \o lock_acquire(file_lock) \o lock_release(file_lock)) @@
  [t \in {D, E, Idle} |-> <<>>]

Reaping ==
  (Main :> thread_create(A) \o thread_create(B) \o thread_create(C) \o thread_create(D)) @@
  (A :> thread_create(E) \o Do("down", made)) @@
  (C :> Do("up", made)) @@
  [t \in {B, D, E, Idle} |-> <<>>]

MCWorkloads == [program : {Contention}, pages : {2, 3}] \cup [program : {Reaping}, pages : {4}]

-----------------------------------------------------------------------------
(* Terminal: two writers and two readers over queues of three slots, which *)
(* hold two bytes: a queue is full, empty and wrapped around soon.         *)

\* Two lines compete for the transmit queue while handlers print into it.
Output == [readers |-> {}, line |-> 4, rx |-> 0, prints |-> 2, events |-> 0, keys |-> {}]

\* The line and the keyboard fill the input buffer together.
Input == [readers |-> {reader1}, line |-> 0, rx |-> 4, prints |-> 0, events |-> 3, keys |-> {30}]

\* Every shift key (the numbers above 57000 are the right-hand keys), with caps
\* lock (58), a letter, a digit and Delete.
Typing == [readers |-> {reader1}, line |-> 0, rx |-> 0, prints |-> 0, events |-> 4,
           keys |-> {30, 3, 83, 58, 42, 54, 56, 57400, 29, 57373}]

\* Two threads read at once.
Crowd == [readers |-> {reader1, reader2}, line |-> 0, rx |-> 4, prints |-> 0, events |-> 0,
          keys |-> {}]

MCLoads == {Output, Input, Typing, Crowd}

-----------------------------------------------------------------------------
(* Disk: two threads and seven ways to equip the channel.  Sector numbers  *)
(* are of four bits, so that the end of a partition can wrap around.       *)

Entry(type, offset, size) == [type |-> type, offset |-> offset, size |-> size]
Free == Entry("empty", 0, 0)
Ata(size, table) == [error |-> 1, signature |-> "ata", ready |-> TRUE, answers |-> TRUE,
                     size |-> size, table |-> table]
Absent == [Ata(0, <<>>) EXCEPT !.error = 255, !.ready = FALSE]

\* Partitions of three types side by side, and a second disk whose table has one
\* good entry and three that leave the disk: past its end, by their end, and by
\* an end that wraps around.
TwoDisks == [d \in 0..1 |->
  IF d = 0
  THEN Ata(5, <<Entry("filesys", 1, 2), Free, Entry("scratch", 3, 1), Entry("other", 4, 1)>>)
  ELSE Ata(4, <<Entry("swap", 9, 1), Entry("filesys", 1, 2), Entry("kernel", 2, 3),
                Entry("scratch", 3, 15)>>)]

\* A CD-ROM as master and a SATA disk without a table as slave.
Unsigned == [d \in 0..1 |-> IF d = 0 THEN [Ata(0, <<>>) EXCEPT !.signature = "atapi"]
                            ELSE [Ata(2, <<>>) EXCEPT !.signature = "sata"]]

\* A disk that is too large.
Large == [d \in 0..1 |-> IF d = 0 THEN Ata(8, <<>>) ELSE Absent]

\* A disk with an extended partition.
Nested == [d \in 0..1 |->
  IF d = 0 THEN Ata(6, <<Entry("filesys", 1, 1), Entry("extended", 2, 4), Free, Free>>)
  ELSE Absent]

\* A master that is not ready and says that the slave failed, and one that says
\* so and is ready.
Failed == {[d \in 0..1 |-> IF d = 0 THEN [Ata(2, <<>>) EXCEPT !.error = 129, !.ready = x]
                           ELSE Ata(1, <<>>)] : x \in BOOLEAN}

\* A master that does not answer IDENTIFY DEVICE.
Silent == [d \in 0..1 |-> IF d = 0 THEN [Ata(2, <<>>) EXCEPT !.answers = FALSE] ELSE Ata(1, <<>>)]

MCChannels == {TwoDisks, Unsigned, Large, Nested, Silent} \cup Failed

-----------------------------------------------------------------------------
NoTerminal ==
  /\ buffer = 0 /\ txq = 0 /\ ier = 0 /\ console = 0 /\ kbd = 0 /\ keys = 0 /\ sent = 0
  /\ rx = 0 /\ put = 0 /\ got = 0 /\ typed = 0 /\ count = 0 /\ power = 0 /\ load = 0
NoDisk ==
  /\ chan = 0 /\ is_ata = 0 /\ blocks = 0 /\ role = 0 /\ lock = 0 /\ expecting = 0 /\ completion = 0
  /\ reg = 0 /\ dev = 0 /\ media = 0 /\ irq = 0 /\ scan = 0 /\ want = 0
NoThreads == Init /\ code = Contention /\ free_pages = 2

MCInit ==
  \/ part = "threads" /\ Init /\ NoTerminal /\ NoDisk /\ task = 0 /\ halted = FALSE
  \/ part = "terminal" /\ Tty!Init /\ NoThreads /\ NoDisk
  \/ part = "disk" /\ Ide!Init /\ NoThreads /\ NoTerminal

ThreadsStep(N) == part = "threads" /\ N /\ UNCHANGED <<part, task, halted, terminal, disk>>
TerminalStep(N) == part = "terminal" /\ N /\ UNCHANGED <<part, disk, vars>>
DiskStep(N) == part = "disk" /\ N /\ UNCHANGED <<part, terminal, vars>>

MCNext == ThreadsStep(Next) \/ TerminalStep(Tty!Next) \/ DiskStep(Ide!Next)

\* The fairness of Threads, Terminal and Disk.
TerminalWorks(N) == TerminalStep(~halted /\ N /\ UNCHANGED load)
DiskWorks(N) == DiskStep(~halted /\ N)
MCFairness ==
  /\ WF_machine(ThreadsStep(Execute)) /\ WF_machine(ThreadsStep(interrupt_handler))
  /\ \A t \in Readers : WF_machine(TerminalWorks(Tty!input_getc(t)))
  /\ \A t \in Writers : /\ WF_machine(TerminalWorks(Tty!acquire_console(t)))
                        /\ WF_machine(TerminalWorks(Tty!putchar_have_lock(t)))
                        /\ WF_machine(TerminalWorks(Tty!release_console(t)))
  /\ WF_machine(TerminalWorks(Tty!serial_receive))
  /\ WF_machine(TerminalWorks(Tty!serial_transmit))
  /\ \A t \in Users : WF_machine(DiskWorks(Ide!Command(t)))
  /\ WF_machine(DiskWorks(Ide!Probe))
  /\ \A d \in 0..1 : WF_machine(DiskWorks(Ide!DiskDone(d) \/ Ide!DiskWantsData(d)))
  /\ WF_machine(DiskWorks(Ide!interrupt_handler))

MCSpec == MCInit /\ [][MCNext]_machine /\ MCFairness

-----------------------------------------------------------------------------
\* Threads: unless the page allocator is entered from schedule's tail, every
\* thread that thread_create has made is destroyed (AllExit).
ThreadsExit ==
  [](part = "threads" => ~ReapInsideAllocator) => <>[](part = "threads" => AllGone)

\* Terminal: characters leave the queues in the order they entered, a line is
\* not torn, and intq.c's ASSERT fails only for several readers.
CharactersInOrder == part = "terminal" => Tty!CharactersInOrder

\* Terminal: all output is sent and all input is read (serial.c, input.c, intq.c).
TerminalProgress == <>(part = "terminal" => Tty!TerminalDone)

\* Disk: block_read and block_write see each block as an array of sectors.
BlocksAreArrays == part = "disk" => Ide!BlocksAreArrays

\* Disk: ide_init and partition_scan end with the registry complete, and every
\* request returns (no extended table).
BootsAndServes == <>[](part = "disk" /\ Ide!NoExtended => halted \/ Ide!Served)
=============================================================================

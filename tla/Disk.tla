-------------------------------- MODULE Disk --------------------------------
(***************************************************************************)
(* The block devices: an ATA channel of devices/ide.c with its two disks,  *)
(* the registry of devices/block.c, the partitions devices/partition.c     *)
(* finds on a disk, and the roles threads/init.c gives to blocks.          *)
(*                                                                         *)
(* The main thread probes the channel and scans the disks; then it and the *)
(* other threads read and write sectors through the registered blocks.  A  *)
(* thread's pc names the next call of ide_read, ide_write or               *)
(* identify_ata_device; a disk and its interrupt run beside the threads.   *)
(* The channel's lock is that of module Threads: a thread takes it when it *)
(* is free.  Sector numbers have the width Word stands for.                *)
(***************************************************************************)
EXTENDS Integers, Sequences, FiniteSets

CONSTANTS Threads,   \* the threads that use the disks
          Main,      \* the one that runs ide_init
          Channels,  \* what may be attached: functions from 0..1 to devices
          Word,      \* 2^32, the modulus of block_sector_t
          Limit,     \* capacity from which a disk is left alone (1 GB)
          NoThread,  \* the null thread pointer
          MaxDepth   \* frames of read_partition_table that are followed

(* A device is [error, signature, ready, answers, size, table]: the error  *)
(* register after the reset, what the LBA registers then show ("ata",      *)
(* "sata" or another kind), whether it is ready and not busy, whether it   *)
(* answers IDENTIFY DEVICE with data, its sectors and its partition table: *)
(* <<>> when the signature is wrong, else four entries                     *)
(* [type, offset, size].                                                   *)

VARIABLES chan,    \* the devices attached (chosen once)
          is_ata,  \* ata_disk.is_ata
          blocks,  \* all_blocks, in probe order
          role,    \* block_by_role
          lock,    \* holder of channel.lock
          expecting, completion,   \* expecting_interrupt, completion_wait
          reg,     \* the registers: [dev, lba]
          dev,     \* what each disk is doing: [st, lba, data], for thread by
          media,   \* sectors of each disk
          irq,     \* the channel has an interrupt pending
          scan,    \* the stack of read_partition_table, innermost first
          th,      \* the threads
          want,    \* what the sectors should hold, by the calls made
          panic

vars == <<chan, is_ata, blocks, role, lock, expecting, completion, reg, dev, media,
          irq, scan, th, want, panic>>

MBR == 99                                  \* the contents of a table's sector
Types == {"kernel", "filesys", "scratch", "swap"}
Extended(e) == e.type = "extended"

-----------------------------------------------------------------------------
(* block.c and partition.c, on behalf of thread t                          *)

\* Sector number as the disk's driver gets it: partition_read adds the start.
Physical(b, s) == (b.start + s) % Word

\* check_sector
PastEnd(size, sector) == sector >= size

\* block_read and block_write down to the call of the disk's operation.  An
\* access through a partition is checked against the partition, and then
\* against the disk; a write also asserts that the block is not foreign.
BlockCall(t, i, s, op, then) ==
  LET b == blocks[i]
      disk == chan[b.dev]
      bad == \/ PastEnd(b.size, s)
             \/ b.part > 0 /\ PastEnd(disk.size, Physical(b, s))
             \/ op = "write" /\ b.type = "foreign"
  IN  /\ panic' = bad
      /\ th' = [th EXCEPT ![t] = [@ EXCEPT !.pc = "lock", !.op = op, !.d = b.dev,
                                    !.sec = Physical(b, s), !.block = i, !.s = s,
                                    !.then = then]]

found_partition(d, type, start, size, nr) ==
  LET end == (start + size) % Word
  IN  IF start >= chan[d].size \/ end < start \/ end > chan[d].size
      THEN blocks
      ELSE Append(blocks, [dev |-> d, part |-> nr, start |-> start, size |-> size,
                           type |-> IF type \in Types THEN type ELSE "foreign"])

\* A call of read_partition_table: too far out it returns at once, else it
\* reads sector 0 of the disk, whatever sector it was asked for.
EnterTable(sc, d, sector, primary) ==
  IF PastEnd(chan[d].size, sector)
  THEN scan' = sc /\ th' = [th EXCEPT ![Main].pc = "scan"] /\ UNCHANGED panic
  ELSE /\ scan' = [sc EXCEPT !.frames =
                      <<[sector |-> sector, primary |-> primary, i |-> 1]>> \o @]
       /\ BlockCall(Main, sc.block, 0, "read", "scan")

\* One turn of the loop over the four entries, or its end; Main is between two
\* reads.  Frames beyond MaxDepth are not followed.
ScanEntry ==
  /\ th[Main].pc = "scan" /\ scan.frames # <<>> /\ Len(scan.frames) <= MaxDepth
  /\ LET d == blocks[scan.block].dev
         f == Head(scan.frames)
         table == chan[d].table
         rest == [scan EXCEPT !.frames = Tail(@)]
         bumped == [scan EXCEPT !.frames = <<[f EXCEPT !.i = @ + 1]>> \o Tail(@)]
     IN  IF table = <<>> \/ f.i > 4
         THEN scan' = rest /\ UNCHANGED <<blocks, th, panic>>
         ELSE LET e == table[f.i]
              IN  IF e.size = 0 \/ e.type = "empty"
                  THEN scan' = bumped /\ UNCHANGED <<blocks, th, panic>>
                  ELSE IF ~Extended(e)
                  THEN /\ scan' = [bumped EXCEPT !.part_nr = @ + 1]
                       /\ blocks' = found_partition(d, e.type, (e.offset + f.sector) % Word,
                                                    e.size, scan.part_nr + 1)
                       /\ UNCHANGED <<th, panic>>
                  ELSE /\ UNCHANGED blocks
                       /\ IF f.sector = 0
                          THEN EnterTable(bumped, d, e.offset, e.offset)
                          ELSE EnterTable(bumped, d, (e.offset + f.primary) % Word, f.primary)
  /\ UNCHANGED <<chan, is_ata, role, lock, expecting, completion, reg, dev, media, irq, want>>

\* The scan of a disk ends; ide_init goes on to the next disk.
ScanEnd ==
  /\ th[Main].pc = "scan" /\ scan.frames = <<>>
  /\ th' = [th EXCEPT ![Main].pc = "identify", ![Main].d = @ + 1]
  /\ UNCHANGED <<chan, is_ata, blocks, role, lock, expecting, completion, reg, dev, media,
                 irq, scan, want, panic>>

-----------------------------------------------------------------------------
(* ide.c: the calls of one command, made by thread t                       *)

Busy(d) == dev[d].st \in {"reading", "identifying", "awaiting", "writing"}
Drq(d) == dev[d].st \in {"data in", "data out"}
Goto(t, pc) == th' = [th EXCEPT ![t].pc = pc]

\* Mutant of lock_acquire: ide_read and ide_write do without the lock.
lock_acquire_none(t) ==
  /\ th[t].pc = "lock" /\ Goto(t, "select") /\ lock' = t
  /\ UNCHANGED <<chan, is_ata, blocks, role, expecting, completion, reg, dev, media, irq,
                 scan, want, panic>>

lock_acquire(t) ==
  /\ th[t].pc = "lock" /\ lock = NoThread
  /\ lock' = t /\ Goto(t, "select")
  /\ UNCHANGED <<chan, is_ata, blocks, role, expecting, completion, reg, dev, media, irq,
                 scan, want, panic>>

\* select_device_wait: wait until the selected disk is idle, select the other,
\* wait again.  Reading the status clears a pending interrupt.
select_device(t) ==
  /\ th[t].pc = "select" /\ ~Busy(reg.dev) /\ ~Drq(reg.dev)
  /\ reg' = [reg EXCEPT !.dev = th[t].d] /\ irq' = FALSE
  /\ Goto(t, "sector")
  /\ UNCHANGED <<chan, is_ata, blocks, role, lock, expecting, completion, dev, media, scan,
                 want, panic>>

\* The rest of select_sector; identify_ata_device sets no sector.
select_sector(t) ==
  /\ th[t].pc = "sector" /\ ~Busy(reg.dev) /\ ~Drq(reg.dev)
  /\ reg' = IF th[t].op = "identify" THEN reg ELSE [dev |-> th[t].d, lba |-> th[t].sec]
  /\ irq' = FALSE
  /\ Goto(t, "command")
  /\ UNCHANGED <<chan, is_ata, blocks, role, lock, expecting, completion, dev, media, scan,
                 want, panic>>

\* The selected disk starts on the command.
issue_pio_command(t) ==
  /\ th[t].pc = "command"
  /\ expecting' = TRUE
  /\ dev' = [dev EXCEPT ![reg.dev] =
               [st |-> CASE th[t].op = "read" -> "reading" [] th[t].op = "write" -> "awaiting"
                         [] th[t].op = "identify" -> "identifying",
                lba |-> reg.lba, data |-> 0, by |-> t]]
  /\ Goto(t, IF th[t].op = "write" THEN "busy" ELSE "sleep")
  /\ UNCHANGED <<chan, is_ata, blocks, role, lock, completion, reg, media, irq, scan, want,
                 panic>>

\* sema_down (&c->completion_wait)
sema_down(t) ==
  /\ th[t].pc = "sleep" /\ completion > 0
  /\ completion' = completion - 1
  /\ Goto(t, IF th[t].op = "write" THEN "release" ELSE "busy")
  /\ UNCHANGED <<chan, is_ata, blocks, role, lock, expecting, reg, dev, media, irq, scan,
                 want, panic>>

\* wait_while_busy.  When no data is requested ide_read and ide_write panic, and
\* identify_ata_device leaves the disk alone.
wait_while_busy(t) ==
  /\ th[t].pc = "busy" /\ ~Busy(reg.dev)
  /\ IF Drq(reg.dev) \/ th[t].op # "identify"
     THEN panic' = ~Drq(reg.dev) /\ Goto(t, "transfer") /\ UNCHANGED is_ata
     ELSE /\ is_ata' = [is_ata EXCEPT ![th[t].d] = FALSE]
          /\ th' = [th EXCEPT ![t].pc = "identify", ![t].d = @ + 1]
          /\ UNCHANGED panic
  /\ UNCHANGED <<chan, blocks, role, lock, expecting, completion, reg, dev, media, irq,
                 scan, want>>

\* output_sector: the disk has the sector and starts writing it.
output_sector(t) ==
  /\ th[t].pc = "transfer" /\ th[t].op = "write"
  /\ dev' = [dev EXCEPT ![reg.dev] = [@ EXCEPT !.st = "writing", !.data = th[t].data]]
  /\ Goto(t, "sleep")
  /\ UNCHANGED <<chan, is_ata, blocks, role, lock, expecting, completion, reg, media, irq,
                 scan, want, panic>>

\* input_sector of ide_read: the thread has its sector.
input_sector(t) ==
  /\ th[t].pc = "transfer" /\ th[t].op = "read"
  /\ dev' = [dev EXCEPT ![reg.dev].st = "idle"]
  /\ th' = [th EXCEPT ![t].pc = "release", ![t].got = dev[reg.dev].data]
  /\ UNCHANGED <<chan, is_ata, blocks, role, lock, expecting, completion, reg, media, irq,
                 scan, want, panic>>

lock_release(t) ==
  /\ th[t].pc = "release"
  /\ lock' = NoThread
  /\ Goto(t, th[t].then)
  /\ UNCHANGED <<chan, is_ata, blocks, role, expecting, completion, reg, dev, media, irq,
                 scan, want, panic>>

-----------------------------------------------------------------------------
(* ide_init on one channel                                                 *)

\* check_device_type, for device 0 and then, if that may have a slave, device 1.
check_device_type ==
  /\ th[Main].pc = "detect"
  /\ LET d == th[Main].d
         none == \/ chan[d].error # 1 /\ (chan[d].error # 129 \/ d = 1)
                 \/ ~chan[d].ready
         slave == d = 0 /\ (none => chan[d].error # 129)
     IN  /\ is_ata' = [is_ata EXCEPT ![d] = ~none /\ chan[d].signature \in {"ata", "sata"}]
         /\ reg' = [reg EXCEPT !.dev = d]
         /\ th' = [th EXCEPT ![Main].pc = IF slave THEN "detect" ELSE "identify",
                            ![Main].d = IF slave THEN 1 ELSE 0]
  /\ UNCHANGED <<chan, blocks, role, lock, expecting, completion, dev, media, irq, scan, want,
                 panic>>

\* The loop that calls identify_ata_device; the command needs no lock yet.
identify_next ==
  /\ th[Main].pc = "identify" /\ th[Main].d <= 1
  /\ th' = [th EXCEPT ![Main] = IF is_ata[@.d]
                                THEN [@ EXCEPT !.pc = "select", !.op = "identify"]
                                ELSE [@ EXCEPT !.d = @ + 1]]
  /\ UNCHANGED <<chan, is_ata, blocks, role, lock, expecting, completion, reg, dev, media,
                 irq, scan, want, panic>>

\* The rest of identify_ata_device: a disk that is too large is left alone,
\* any other is registered and scanned (partition_scan).
identified ==
  /\ th[Main].pc = "transfer" /\ th[Main].op = "identify"
  /\ dev' = [dev EXCEPT ![reg.dev].st = "idle"]
  /\ LET d == th[Main].d
     IN  IF chan[d].size >= Limit
         THEN /\ is_ata' = [is_ata EXCEPT ![d] = FALSE]
              /\ th' = [th EXCEPT ![Main].pc = "identify", ![Main].d = d + 1]
              /\ UNCHANGED <<blocks, scan, panic>>
         ELSE /\ blocks' = Append(blocks, [dev |-> d, part |-> 0, start |-> 0,
                                           size |-> chan[d].size, type |-> "raw"])
              /\ th' = [th EXCEPT ![Main].pc = "first table"]
              /\ scan' = [block |-> Len(blocks) + 1, part_nr |-> 0, frames |-> <<>>]
              /\ UNCHANGED <<is_ata, panic>>
  /\ UNCHANGED <<chan, role, lock, expecting, completion, reg, media, irq, want>>

partition_scan ==
  /\ th[Main].pc = "first table"
  /\ EnterTable(scan, blocks[scan.block].dev, 0, 0)
  /\ UNCHANGED <<chan, is_ata, blocks, role, lock, expecting, completion, reg, dev, media,
                 irq, want>>

\* locate_block_device without a name: the first block of the type, if any.
FirstOfType(type) ==
  LET found == {i \in 1..Len(blocks) : blocks[i].type = type}
  IN  IF found = {} THEN 0 ELSE CHOOSE i \in found : \A j \in found : i <= j

\* locate_block_devices: the threads may use the disks from here on.
locate_block_devices ==
  /\ th[Main].pc = "identify" /\ th[Main].d = 2
  /\ role' = [x \in {"filesys", "scratch"} |-> FirstOfType(x)]
  /\ th' = [t \in Threads |-> [th[t] EXCEPT !.pc = "ready"]]
  /\ UNCHANGED <<chan, is_ata, blocks, lock, expecting, completion, reg, dev, media, irq,
                 scan, want, panic>>

-----------------------------------------------------------------------------
(* Requests                                                                *)

Request(t) ==
  /\ th[t].pc = "ready"
  /\ \E i \in 1..Len(blocks), op \in {"read", "write"} :
       \E s \in 0..blocks[i].size : BlockCall(t, i, s, op, "done")
  /\ UNCHANGED <<chan, is_ata, blocks, role, lock, expecting, completion, reg, dev, media,
                 irq, scan, want>>

-----------------------------------------------------------------------------
(* The disks (external hardware) and the channel's interrupt               *)

\* Where a request's sector is, by the partition tables rather than the code.
Place(t) ==
  LET b == blocks[th[t].block]
      nonempty == SelectSeq(chan[b.dev].table,
                            LAMBDA e : e.size > 0 /\ e.type # "empty")
  IN  <<b.dev, IF b.part = 0 THEN th[t].s ELSE nonempty[b.part].offset + th[t].s>>

DiskDone(d) ==
  /\ dev[d].st \in {"reading", "identifying", "writing"}
  /\ irq' = TRUE
  /\ CASE dev[d].st = "reading" ->
             /\ dev' = [dev EXCEPT ![d].st = "data in", ![d].data = media[d][dev[d].lba]]
             /\ th' = [th EXCEPT ![dev[d].by].seen = want[Place(dev[d].by)]]
             /\ UNCHANGED <<media, want>>
       [] dev[d].st = "identifying" ->
             /\ dev' = [dev EXCEPT ![d].st = IF chan[d].answers THEN "data in" ELSE "idle"]
             /\ UNCHANGED <<media, want, th>>
       [] dev[d].st = "writing" ->
             /\ dev' = [dev EXCEPT ![d].st = "idle"]
             /\ media' = [media EXCEPT ![d][dev[d].lba] = dev[d].data]
             /\ want' = [want EXCEPT ![Place(dev[d].by)] = th[dev[d].by].data]
             /\ UNCHANGED th
  /\ UNCHANGED <<chan, is_ata, blocks, role, lock, expecting, completion, reg, scan, panic>>

\* The disk is ready for the sector to write; this raises no interrupt.
DiskWantsData(d) ==
  /\ dev[d].st = "awaiting"
  /\ dev' = [dev EXCEPT ![d].st = "data out"]
  /\ UNCHANGED <<chan, is_ata, blocks, role, lock, expecting, completion, reg, media, irq,
                 scan, th, want, panic>>

\* Mutant of interrupt_handler: nobody is woken.
interrupt_handler_silent ==
  /\ irq /\ irq' = FALSE
  /\ UNCHANGED <<chan, is_ata, blocks, role, lock, expecting, completion, reg, dev, media,
                 scan, th, want, panic>>

interrupt_handler ==
  /\ irq /\ irq' = FALSE
  /\ completion' = IF expecting THEN completion + 1 ELSE completion
  /\ UNCHANGED <<chan, is_ata, blocks, role, lock, expecting, reg, dev, media, scan, th,
                 want, panic>>

-----------------------------------------------------------------------------
Sectors(d) == 0..chan[d].size - 1

Init ==
  /\ chan \in Channels
  /\ is_ata = [d \in 0..1 |-> FALSE] /\ blocks = <<>>
  /\ role = [x \in {"filesys", "scratch"} |-> 0]
  /\ lock = NoThread /\ expecting = FALSE /\ completion = 0
  /\ reg = [dev |-> 0, lba |-> 0]
  /\ dev = [d \in 0..1 |-> [st |-> "idle", lba |-> 0, data |-> 0, by |-> NoThread]]
  /\ media = [d \in 0..1 |-> [s \in Sectors(d) |-> IF s = 0 THEN MBR ELSE 0]]
  /\ want = [p \in UNION {{<<d, s>> : s \in Sectors(d)} : d \in 0..1} |->
               IF p[2] = 0 THEN MBR ELSE 0]
  /\ irq = FALSE /\ panic = FALSE
  /\ scan = [block |-> 0, part_nr |-> 0, frames |-> <<>>]
  /\ th = [t \in Threads |->
             [pc |-> IF t = Main THEN "detect" ELSE "boot", op |-> "read", d |-> 0, sec |-> 0,
              block |-> 0, s |-> 0, then |-> "done", got |-> 0, seen |-> 0,
              data |-> IF t = Main THEN 1 ELSE 2]]

Command(t) ==
  \/ lock_acquire(t) \/ select_device(t) \/ select_sector(t) \/ issue_pio_command(t)
  \/ sema_down(t) \/ wait_while_busy(t) \/ output_sector(t) \/ input_sector(t)
  \/ lock_release(t)

Probe ==
  \/ check_device_type \/ identify_next \/ identified \/ partition_scan
  \/ ScanEntry \/ ScanEnd \/ locate_block_devices

Hardware == (\E d \in 0..1 : DiskDone(d) \/ DiskWantsData(d)) \/ interrupt_handler

Next ==
  /\ ~panic
  /\ (\E t \in Threads : Command(t) \/ Request(t)) \/ Probe \/ Hardware

\* Threads run again (round robin), a disk finishes its command and its interrupt
\* is delivered; a thread need make no request.
Fairness ==
  /\ \A t \in Threads : WF_vars(~panic /\ Command(t))
  /\ WF_vars(~panic /\ Probe)
  /\ \A d \in 0..1 : WF_vars(~panic /\ (DiskDone(d) \/ DiskWantsData(d)))
  /\ WF_vars(~panic /\ interrupt_handler)

DiskSpec == Init /\ [][Next]_vars /\ Fairness

-----------------------------------------------------------------------------
\* A panic of the block layer is its caller's mistake: a sector past the end of
\* the block asked for, or a write to a foreign partition.
CallersMistake ==
  \E t \in Threads :
    /\ th[t].then = "done" /\ th[t].pc = "lock"
    /\ \/ th[t].s >= blocks[th[t].block].size
       \/ th[t].op = "write" /\ blocks[th[t].block].type = "foreign"

\* Every block is an array of sectors of its own disk, whatever the interleaving
\* of threads, disks and interrupts: a disk's sectors hold what the calls of
\* block_write put there, placed by the partition tables, and a finished
\* block_read has returned what its sector held when the disk read it.  A sector
\* inside a partition never trips the check against the disk (partition.c:158-161
\* has tested the table), and no command finds its disk without data.
BlocksAreArrays ==
  /\ \A p \in DOMAIN want : media[p[1]][p[2]] = want[p]
  /\ \A t \in Threads : th[t].pc = "done" /\ th[t].op = "read" => th[t].got = th[t].seen
  /\ panic => CallersMistake

\* The primary partitions of the table that fit on the disk, by number.
Primary(d) ==
  LET nonempty == SelectSeq(chan[d].table, LAMBDA e : e.size > 0 /\ e.type # "empty")
  IN  {[dev |-> d, part |-> n, start |-> nonempty[n].offset, size |-> nonempty[n].size,
        type |-> IF nonempty[n].type \in Types THEN nonempty[n].type ELSE "foreign"] :
         n \in {m \in 1..Len(nonempty) :
                  nonempty[m].offset + nonempty[m].size <= chan[d].size}}

NoExtended == \A d \in 0..1 : \A i \in 1..Len(chan[d].table) : ~Extended(chan[d].table[i])

\* The disks below 1 GB that ide_init should find: ready after the reset, with
\* the signature of a disk, and answering IDENTIFY DEVICE.  Device 0 reports in
\* its error register that device 1 failed; if it is not ready itself, device 1
\* is not looked for.
Usable(d) ==
  /\ chan[d].ready /\ chan[d].signature \in {"ata", "sata"}
  /\ chan[d].error \in IF d = 0 THEN {1, 129} ELSE {1}
  /\ d = 1 /\ chan[0].error = 129 => chan[0].ready
  /\ chan[d].answers /\ chan[d].size < Limit

\* Booting is over: the registry holds those disks and their partitions, with
\* the first block of a type in its role.
Registered ==
  /\ \A t \in Threads \ {Main} : th[t].pc # "boot"
  /\ {blocks[i] : i \in 1..Len(blocks)} =
       UNION {{[dev |-> d, part |-> 0, start |-> 0, size |-> chan[d].size, type |-> "raw"]}
                \cup Primary(d) : d \in {x \in 0..1 : Usable(x)}}
  /\ \A x \in DOMAIN role : \A i \in 1..Len(blocks) : blocks[i].type = x => role[x] \in 1..i

\* The registry is complete and no thread is in a call of the block layer.
Served == Registered /\ \A t \in Threads : th[t].pc \in {"ready", "done"}

\* Booting ends with the registry complete, for good, and from some point on no
\* call is under way: every call of block_read and block_write that is made, by
\* several threads on one channel at a time, returns.  (On a disk whose table
\* has an extended entry the scan reads sector 0 again for ever.)
BootsAndServes == <>[](NoExtended => panic \/ Served)
=============================================================================

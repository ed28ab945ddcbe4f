---------------------------- MODULE InodeMonitor ----------------------------
(***************************************************************************)
(* The reader/writer monitor of one open inode: reader_checkin,            *)
(* reader_checkout, writer_checkin and writer_checkout of filesys/inode.c, *)
(* on the Mesa-style condition variables of threads/synch.c.               *)
(*                                                                         *)
(* inode->l is held from the lock_acquire of each function to its          *)
(* lock_release, or to the lock_release inside cond_wait, and the fields   *)
(* below are touched nowhere else.  An action is therefore one stretch of  *)
(* code that runs with inode->l held; a thread that cond_wait puts to      *)
(* sleep ends its stretch and starts a new one, under a fresh acquisition  *)
(* of the lock, once its private semaphore has been upped.  Any thread may *)
(* get the lock in between.                                                *)
(***************************************************************************)
EXTENDS Naturals, Sequences, FiniteSets

CONSTANTS Thread,  \* kernel threads that use the inode
          MaxOps   \* bound: how many times one thread checks in

ASSUME ThreadFinite == IsFiniteSet(Thread)
ASSUME MaxOpsNat == MaxOps \in Nat

VARIABLES
  active_readers, active_writers,    \* counters of struct inode
  waiting_readers, waiting_writers,
  ok_to_read, ok_to_write,           \* cond waiters, in FIFO order
  signalled,  \* threads popped off a condition whose semaphore was upped
  pc,         \* where each thread is
  ops         \* check-ins each thread has started

counters == <<active_readers, active_writers, waiting_readers, waiting_writers>>
vars == <<counters, ok_to_read, ok_to_write, signalled, pc, ops>>

PCs == {"out", "r_wait", "w_wait", "reading", "writing"}

At(p) == {t \in Thread : pc[t] = p}

Goto(t, p) == pc' = [pc EXCEPT ![t] = p]

Init ==
  /\ active_readers = 0 /\ active_writers = 0
  /\ waiting_readers = 0 /\ waiting_writers = 0
  /\ ok_to_read = <<>> /\ ok_to_write = <<>>
  /\ signalled = {}
  /\ pc = [t \in Thread |-> "out"]
  /\ ops = [t \in Thread |-> 0]
-----------------------------------------------------------------------------
Elems(q) == {q[i] : i \in 1..Len(q)}

Distinct(q) == \A i, j \in 1..Len(q) : q[i] = q[j] => i = j

\* cond_signal on ok_to_write: the first waiter, if any, is popped and upped.
SignalWriter ==
  IF ok_to_write = <<>>
    THEN UNCHANGED <<ok_to_write, signalled>>
    ELSE /\ ok_to_write' = Tail(ok_to_write)
         /\ signalled' = signalled \cup {Head(ok_to_write)}

\* cond_broadcast on ok_to_read: every waiter is popped and upped.
BroadcastReaders ==
  /\ ok_to_read' = <<>>
  /\ signalled' = signalled \cup Elems(ok_to_read)

\* The while loop of reader_checkin from its test on; wr is the number of
\* waiting readers when the test is made.
ReaderTest(t, wr) ==
  \/ /\ active_writers + waiting_writers > 0
     /\ waiting_readers' = wr + 1
     /\ ok_to_read' = Append(ok_to_read, t)
     /\ Goto(t, "r_wait")
     /\ UNCHANGED <<active_readers, active_writers, waiting_writers, ok_to_write>>
  \/ /\ active_writers + waiting_writers = 0
     /\ waiting_readers' = wr
     /\ active_readers' = active_readers + 1
     /\ Goto(t, "reading")
     /\ UNCHANGED <<active_writers, waiting_writers, ok_to_read, ok_to_write>>

\* Mutant of WriterTest: the loop condition forgets the active readers.
WriterTestIgnoringReaders(t, ww) ==
  \/ /\ active_writers > 0
     /\ waiting_writers' = ww + 1
     /\ ok_to_write' = Append(ok_to_write, t)
     /\ Goto(t, "w_wait")
     /\ UNCHANGED <<active_readers, active_writers, waiting_readers, ok_to_read>>
  \/ /\ active_writers = 0
     /\ waiting_writers' = ww
     /\ active_writers' = active_writers + 1
     /\ Goto(t, "writing")
     /\ UNCHANGED <<active_readers, waiting_readers, ok_to_read, ok_to_write>>

\* The while loop of writer_checkin from its test on; ww is the number of
\* waiting writers when the test is made.
WriterTest(t, ww) ==
  \/ /\ active_writers + active_readers > 0
     /\ waiting_writers' = ww + 1
     /\ ok_to_write' = Append(ok_to_write, t)
     /\ Goto(t, "w_wait")
     /\ UNCHANGED <<active_readers, active_writers, waiting_readers, ok_to_read>>
  \/ /\ active_writers + active_readers = 0
     /\ waiting_writers' = ww
     /\ active_writers' = active_writers + 1
     /\ Goto(t, "writing")
     /\ UNCHANGED <<active_readers, waiting_readers, ok_to_read, ok_to_write>>

StartOp(t) ==
  /\ pc[t] = "out"
  /\ ops[t] < MaxOps
  /\ ops' = [ops EXCEPT ![t] = @ + 1]
  /\ UNCHANGED signalled

\* The upped semaphore is consumed and inode->l reacquired (cond_wait's end).
Wake(t) ==
  /\ t \in signalled
  /\ signalled' = signalled \ {t}
  /\ UNCHANGED ops

\* Mutant of writer_wakeup: `if' for `while' in writer_checkin.
writer_wakeup_if(t) ==
  /\ pc[t] = "w_wait"
  /\ Wake(t)
  /\ waiting_writers' = waiting_writers - 1
  /\ active_writers' = active_writers + 1
  /\ Goto(t, "writing")
  /\ UNCHANGED <<active_readers, waiting_readers, ok_to_read, ok_to_write>>

reader_checkin(t) == StartOp(t) /\ ReaderTest(t, waiting_readers)

reader_wakeup(t) ==
  /\ pc[t] = "r_wait"
  /\ Wake(t)
  /\ ReaderTest(t, waiting_readers - 1)

\* Mutant of reader_checkout: the last reader out does not signal.
reader_checkout_silent(t) ==
  /\ pc[t] = "reading"
  /\ active_readers' = active_readers - 1
  /\ Goto(t, "out")
  /\ UNCHANGED <<active_writers, waiting_readers, waiting_writers, ok_to_read,
                 ok_to_write, signalled, ops>>

reader_checkout(t) ==
  /\ pc[t] = "reading"
  /\ active_readers' = active_readers - 1
  /\ IF active_readers' = 0 /\ waiting_writers > 0
       THEN SignalWriter
       ELSE UNCHANGED <<ok_to_write, signalled>>
  /\ Goto(t, "out")
  /\ UNCHANGED <<active_writers, waiting_readers, waiting_writers, ok_to_read, ops>>

writer_checkin(t) == StartOp(t) /\ WriterTest(t, waiting_writers)

writer_wakeup(t) ==
  /\ pc[t] = "w_wait"
  /\ Wake(t)
  /\ WriterTest(t, waiting_writers - 1)

\* Mutant of writer_checkout: waiting readers are looked at first.
writer_checkout_readers_first(t) ==
  /\ pc[t] = "writing"
  /\ active_writers' = active_writers - 1
  /\ \/ waiting_readers > 0 /\ BroadcastReaders /\ UNCHANGED ok_to_write
     \/ /\ waiting_readers = 0 /\ waiting_writers > 0
        /\ SignalWriter /\ UNCHANGED ok_to_read
     \/ /\ waiting_writers = 0 /\ waiting_readers = 0
        /\ UNCHANGED <<ok_to_read, ok_to_write, signalled>>
  /\ Goto(t, "out")
  /\ UNCHANGED <<active_readers, waiting_readers, waiting_writers, ops>>

writer_checkout(t) ==
  /\ pc[t] = "writing"
  /\ active_writers' = active_writers - 1
  /\ \/ waiting_writers > 0 /\ SignalWriter /\ UNCHANGED ok_to_read
     \/ /\ waiting_writers = 0 /\ waiting_readers > 0
        /\ BroadcastReaders /\ UNCHANGED ok_to_write
     \/ /\ waiting_writers = 0 /\ waiting_readers = 0
        /\ UNCHANGED <<ok_to_read, ok_to_write, signalled>>
  /\ Goto(t, "out")
  /\ UNCHANGED <<active_readers, waiting_readers, waiting_writers, ops>>

\* A thread that is inside or has been signalled runs on.
Run(t) ==
  \/ reader_wakeup(t) \/ reader_checkout(t)
  \/ writer_wakeup(t) \/ writer_checkout(t)

Next == \E t \in Thread : reader_checkin(t) \/ writer_checkin(t) \/ Run(t)

Spec == Init /\ [][Next]_vars

\* Round-robin scheduling (thread.c) keeps running every thread that can run;
\* nothing obliges a thread to start an operation.
FairSpec == Spec /\ \A t \in Thread : WF_vars(Run(t))
-----------------------------------------------------------------------------
TypeOK ==
  /\ active_readers \in Nat /\ active_writers \in Nat
  /\ waiting_readers \in Nat /\ waiting_writers \in Nat
  /\ ok_to_read \in Seq(Thread) /\ ok_to_write \in Seq(Thread)
  /\ signalled \subseteq Thread
  /\ pc \in [Thread -> PCs]
  /\ ops \in [Thread -> 0..MaxOps]

\* A writer has the inode to itself: at most one thread is between
\* writer_checkin and writer_checkout, and then none is reading.
Exclusion ==
  \A t \in Thread, u \in Thread :
    pc[t] = "writing" /\ pc[u] \in {"reading", "writing"} => t = u

\* The counters and queues of struct inode agree with where the threads are:
\* each counter is the number of threads in that position (a signalled writer
\* counts as waiting until it has inode->l again), and a thread is queued
\* exactly once, on the right condition, until it is signalled.
Bookkeeping ==
  /\ active_readers = Cardinality(At("reading"))
  /\ active_writers = Cardinality(At("writing"))
  /\ waiting_readers = Cardinality(At("r_wait"))
  /\ waiting_writers = Cardinality(At("w_wait"))
  /\ Elems(ok_to_read) = At("r_wait") \ signalled
  /\ Elems(ok_to_write) = At("w_wait") \ signalled
  /\ Distinct(ok_to_read) /\ Distinct(ok_to_write)
  /\ signalled \subseteq At("r_wait") \cup At("w_wait")

\* No wake-up is lost.  A reader asleep on ok_to_read has a writer ahead of it
\* (active, or counted as waiting) whose check-out will broadcast; a writer
\* asleep on ok_to_write has somebody inside, or a writer already signalled,
\* whose check-out will signal it.
NoLostWakeup ==
  /\ ok_to_read # <<>> => active_writers + waiting_writers > 0
  /\ ok_to_write # <<>> =>
       \/ active_readers + active_writers > 0
       \/ \E t \in signalled : pc[t] = "w_wait"

\* Every check-in completes and every thread gets out again, when each thread
\* checks in a bounded number of times.
EveryoneGetsOut == \A t \in Thread : []<>(pc[t] = "out")

\* The monitor implements the reader/writer lock its callers rely on.
Abstract == INSTANCE RWLock WITH readers <- At("reading"), writers <- At("writing")
ImplementsRWLock == Abstract!Spec
=============================================================================

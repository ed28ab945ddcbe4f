------------------------------ MODULE Threads ------------------------------
(***************************************************************************)
(* Kernel threads on one CPU: the scheduler, thread life cycle and idle    *)
(* thread of threads/thread.c, the semaphores and locks of threads/synch.c,*)
(* the lock around the page allocator (threads/palloc.c) that creating and *)
(* destroying a thread goes through, and a device that answers with an     *)
(* interrupt (devices/ide.c).                                              *)
(*                                                                         *)
(* A thread executes a straight-line program of kernel operations, one     *)
(* operation per step; a timer tick may come between any two.  What the    *)
(* code does with interrupts off is one step, except that a thread that    *)
(* has just been switched to first finishes thread_schedule_tail (Reap)    *)
(* and, if it slept in sema_down, tests the value again: in both           *)
(* situations interrupts are still off.                                    *)
(***************************************************************************)
EXTENDS ListOps, FiniteSets

CONSTANTS
  Thread,          \* struct threads, Main and Idle among them
  Main, Idle,      \* initial_thread and idle_thread
  Semaphore, Lock, \* semaphores, and those among them that are inside locks
  InitialValue,    \* Semaphore -> Nat: the value given to sema_init
  palloc_lock, tid_lock,
  Workloads,       \* records: program, Thread -> sequence of operations, and
                   \* pages, what the kernel pool has for new threads
  TIME_SLICE,      \* timer ticks to give each thread
  None             \* the holder of a free lock

Ops == [op : {"lock", "own", "disown", "down", "up", "start"}, on : Semaphore]
       \cup [op : {"getpage", "init", "tidread", "tidwrite", "unblock"}, on : Thread]

\* lock_acquire, lock_release and thread_create as sequences of operations.
lock_acquire(l) == <<[op |-> "lock", on |-> l], [op |-> "own", on |-> l]>>
\* Mutant of lock_release: the holder is cleared after the sema_up.
lock_release_up_first(l) == <<[op |-> "up", on |-> l], [op |-> "disown", on |-> l]>>

lock_release(l) == <<[op |-> "disown", on |-> l], [op |-> "up", on |-> l]>>

thread_create(t) ==
  lock_acquire(palloc_lock) \o <<[op |-> "getpage", on |-> t]>> \o lock_release(palloc_lock)
  \o <<[op |-> "init", on |-> t]>>
  \o lock_acquire(tid_lock)
  \o <<[op |-> "tidread", on |-> t], [op |-> "tidwrite", on |-> t]>>
  \o lock_release(tid_lock)
  \o <<[op |-> "unblock", on |-> t]>>

\* How many of them follow "init", skipped when there was no page.
CreateRest == 7

\* The operations b follow the first m of program c.
Block(c, m, b) == m + Len(b) <= Len(c) /\ \A i \in 1..Len(b) : c[m + i] = b[i]

\* A lock is only touched by lock_acquire and lock_release, and a thread calls
\* them in turn, lock_acquire first and lock_release last.
LocksInTurn(c) ==
  /\ \A i \in 1..Len(c) : c[i].op \in {"lock", "own", "disown"} => c[i].on \in Lock
  /\ \A l \in Lock :
       /\ \A i \in 1..Len(c) : c[i].on = l =>
            \E m \in {i - 2, i - 1} :
               m >= 0 /\ (Block(c, m, lock_acquire(l)) \/ Block(c, m, lock_release(l)))
       /\ \A m \in 0..Len(c) : Block(c, m, lock_acquire(l)) =>
            \E n \in m..Len(c) : /\ Block(c, n, lock_release(l))
                                 /\ \A k \in (m + 1)..n : ~Block(c, k, lock_acquire(l))
       /\ \A n \in 0..Len(c) : Block(c, n, lock_release(l)) =>
            \E m \in 0..n : /\ Block(c, m, lock_acquire(l))
                            /\ \A k \in m..(n - 1) : ~Block(c, k, lock_release(l))

\* A thread is only made by thread_create, and p creates each thread once.
CreatesOnce(p) ==
  /\ \A t \in Thread : \A i \in 1..Len(p[t]) :
       p[t][i].op \in {"getpage", "init", "tidread", "tidwrite", "unblock"} =>
         \E m \in 0..(i - 1) : /\ i <= m + Len(thread_create(p[t][i].on))
                               /\ Block(p[t], m, thread_create(p[t][i].on))
  /\ \A x, t \in Thread : \A m \in 0..Len(p[t]) :
       Block(p[t], m, thread_create(x)) =>
         /\ x \notin {Main, Idle}
         /\ \A u \in Thread : \A n \in 0..Len(p[u]) :
              Block(p[u], n, thread_create(x)) => u = t /\ n = m

\* What the constants may be.
ThreadConstants ==
  /\ IsFiniteSet(Thread) /\ None \notin Thread /\ Main \in Thread /\ Idle \in Thread /\ Main # Idle
  /\ {palloc_lock, tid_lock} \subseteq Lock /\ Lock \subseteq Semaphore
  /\ InitialValue \in [Semaphore -> Nat] /\ \A l \in Lock : InitialValue[l] = 1
  /\ \A w \in Workloads :
       /\ w.program \in [Thread -> Seq(Ops)] /\ w.program[Idle] = <<>> /\ w.pages \in Nat
       /\ CreatesOnce(w.program) /\ \A t \in Thread : LocksInTurn(w.program[t])
  /\ TIME_SLICE \in Nat \ {0}

VARIABLES
  status,       \* Thread -> "NONE", "PAGE" (allocated), "FREED" or thread_status
  cur,          \* the thread the CPU runs
  ready_list, all_list,
  value, waiters, holder,     \* of each semaphore; holder: its lock's
  inside,       \* pairs <<t, s>>: t was queued in sema_down(s), has not got it yet
  pending,      \* Thread -> dying threads its thread_schedule_tail calls must free
  code,         \* Thread -> what is left of its program
  tid, tmp, next_tid,         \* tmp: what allocate_tid has read
  free_pages, thread_ticks,
  expecting_interrupt,        \* semaphores a busy device will up
  panic         \* an ASSERT failed: the kernel has stopped

semas == <<value, waiters, holder, inside>>
lists == <<ready_list, all_list>>
tids == <<tid, tmp, next_tid>>
vars == <<status, cur, lists, semas, pending, code, tids, free_pages,
          thread_ticks, expecting_interrupt, panic>>

\* The state thread_start leaves behind: idle has run once and is blocked.
Init ==
  /\ status = [t \in Thread |-> IF t = Main THEN "RUNNING"
                                ELSE IF t = Idle THEN "BLOCKED" ELSE "NONE"]
  /\ cur = Main
  /\ ready_list = <<>> /\ all_list = {Main, Idle}
  /\ value = InitialValue
  /\ waiters = [s \in Semaphore |-> <<>>]
  /\ holder = [s \in Semaphore |-> None]
  /\ inside = {}
  /\ pending = [t \in Thread |-> <<>>]
  /\ \E w \in Workloads : code = w.program /\ free_pages = w.pages
  /\ tid = [t \in Thread |-> IF t = Main THEN 1 ELSE IF t = Idle THEN 2 ELSE 0]
  /\ tmp = [t \in Thread |-> 0]
  /\ next_tid = 3
  /\ thread_ticks = 0
  /\ expecting_interrupt = {}
  /\ panic = FALSE
-----------------------------------------------------------------------------
\* Interrupts are off while a switched-to thread still has schedule's tail or
\* sema_down's loop to finish.
IntrOn == pending[cur] = <<>> /\ \A s \in Semaphore : <<cur, s>> \notin inside

\* Mutant of Schedule: thread_schedule_tail forgets to ask whether prev is dying.
ScheduleFreeingPrev(rl, st, pend) ==
  LET next == IF rl = <<>> THEN Idle ELSE Head(rl)
      dies == next # cur /\ cur \notin {Main, Idle}
  IN  /\ ready_list' = IF rl = <<>> THEN rl ELSE Tail(rl)
      /\ cur' = next
      /\ status' = [st EXCEPT ![next] = "RUNNING"]
      /\ pending' = IF dies THEN [pend EXCEPT ![next] = <<cur>> \o @] ELSE pend
      /\ thread_ticks' = 0

\* schedule and thread_schedule_tail up to the test for a dying thread: rl is
\* the ready list, st the statuses and pend the pending work the caller leaves.
Schedule(rl, st, pend) ==
  LET next == IF rl = <<>> THEN Idle ELSE Head(rl)
      dies == next # cur /\ st[cur] = "DYING" /\ cur # Main
  IN  /\ ready_list' = IF rl = <<>> THEN rl ELSE Tail(rl)
      /\ cur' = next
      /\ status' = [st EXCEPT ![next] = "RUNNING"]
      /\ pending' = IF dies THEN [pend EXCEPT ![next] = <<cur>> \o @] ELSE pend
      /\ thread_ticks' = 0

\* Mutant of WakeFirst: the waiter is read (list_front) but not taken off the list.
WakeFrontUnpopped(s, st) ==
  IF waiters[s] = <<>>
    THEN status' = st /\ UNCHANGED <<waiters, ready_list>>
    ELSE /\ ready_list' = Append(ready_list, Head(waiters[s]))
         /\ status' = [st EXCEPT ![Head(waiters[s])] = "READY"]
         /\ UNCHANGED waiters

\* sema_up's first half: the first waiter, if any, becomes ready.  st: statuses.
WakeFirst(s, st) ==
  IF waiters[s] = <<>>
    THEN status' = st /\ UNCHANGED <<waiters, ready_list>>
    ELSE /\ waiters' = [waiters EXCEPT ![s] = Tail(@)]
         /\ ready_list' = Append(ready_list, Head(waiters[s]))
         /\ status' = [st EXCEPT ![Head(waiters[s])] = "READY"]

\* Mutant of SemaUp: a waiter is woken only when the value was zero.
SemaUpFromZero(s) ==
  /\ IF value[s] = 0 THEN WakeFirst(s, status) ELSE UNCHANGED <<waiters, ready_list, status>>
  /\ value' = [value EXCEPT ![s] = @ + 1]

SemaUp(s) ==
  /\ WakeFirst(s, status)
  /\ value' = [value EXCEPT ![s] = @ + 1]

\* list_push_back.  An element that is the last of the list already gets itself for
\* a neighbour, which the sequence shows by ending in it twice; pushing it once
\* more writes the same links.
PushBack(q, t) == IF Len(q) > 1 /\ q[Len(q)] = t /\ q[Len(q) - 1] = t THEN q ELSE Append(q, t)

\* The body of sema_down's loop: queue up, block, let another thread run.
Sleep(s) ==
  /\ waiters' = [waiters EXCEPT ![s] = PushBack(@, cur)]
  /\ inside' = inside \cup {<<cur, s>>}
  /\ Schedule(ready_list, [status EXCEPT ![cur] = "BLOCKED"], pending)
  /\ UNCHANGED value

Current(op) == code[cur] # <<>> /\ Head(code[cur]).op = op

Arg == Head(code[cur]).on

Advance(n) == code' = [code EXCEPT ![cur] = SubSeq(@, n + 1, Len(@))]

\* A thread that is asleep in sema_down(Arg) is woken here, by Schedule.
Ready(op) == ~panic /\ Current(op) /\ pending[cur] = <<>>
Enter(op) == Ready(op) /\ IntrOn
-----------------------------------------------------------------------------
\* Mutant of sema_down: `if' for `while', the woken thread does not test again.
sema_down_if ==
  /\ Ready("down") \/ Ready("lock")
  /\ panic' = (Current("lock") /\ holder[Arg] = cur)
  /\ \/ value[Arg] = 0 /\ <<cur, Arg>> \notin inside /\ Sleep(Arg) /\ UNCHANGED code
     \/ /\ value[Arg] > 0 \/ <<cur, Arg>> \in inside
        /\ value' = [value EXCEPT ![Arg] = @ - 1]
        /\ inside' = inside \ {<<cur, Arg>>}
        /\ Advance(1)
        /\ UNCHANGED <<status, cur, ready_list, pending, waiters, thread_ticks>>
  /\ UNCHANGED <<all_list, holder, tids, free_pages, expecting_interrupt>>

\* sema_down, also as called by lock_acquire after its ASSERT.
sema_down ==
  /\ Ready("down") \/ Ready("lock")
  /\ panic' = (Current("lock") /\ holder[Arg] = cur)
  /\ \/ value[Arg] = 0 /\ Sleep(Arg) /\ UNCHANGED code
     \/ /\ value[Arg] > 0
        /\ value' = [value EXCEPT ![Arg] = @ - 1]
        /\ inside' = inside \ {<<cur, Arg>>}
        /\ Advance(1)
        /\ UNCHANGED <<status, cur, ready_list, pending, waiters, thread_ticks>>
  /\ UNCHANGED <<all_list, holder, tids, free_pages, expecting_interrupt>>

\* The rest of lock_acquire, and lock_release before its sema_up.
set_holder ==
  /\ Enter("own") \/ Enter("disown")
  /\ panic' = (Current("disown") /\ holder[Arg] # cur)
  /\ holder' = [holder EXCEPT ![Arg] = IF Current("own") THEN cur ELSE None]
  /\ Advance(1)
  /\ UNCHANGED <<status, cur, lists, value, waiters, inside, pending, tids,
                 free_pages, thread_ticks, expecting_interrupt>>

sema_up ==
  /\ Enter("up")
  /\ SemaUp(Arg)
  /\ Advance(1)
  /\ UNCHANGED <<cur, all_list, holder, inside, pending, tids, free_pages,
                 thread_ticks, expecting_interrupt, panic>>

\* palloc_get_multiple between taking and releasing palloc_lock.
palloc_get_page ==
  /\ Enter("getpage")
  /\ \/ /\ free_pages > 0
        /\ free_pages' = free_pages - 1
        /\ status' = [status EXCEPT ![Arg] = "PAGE"]
     \/ free_pages = 0 /\ UNCHANGED <<free_pages, status>>
  /\ Advance(1)
  /\ UNCHANGED <<cur, lists, semas, pending, tids, thread_ticks,
                 expecting_interrupt, panic>>

\* Without a page thread_create returns TID_ERROR.
init_thread ==
  /\ Enter("init")
  /\ \/ /\ status[Arg] = "PAGE"
        /\ status' = [status EXCEPT ![Arg] = "BLOCKED"]
        /\ all_list' = all_list \cup {Arg}
        /\ Advance(1)
     \/ status[Arg] # "PAGE" /\ Advance(1 + CreateRest) /\ UNCHANGED <<status, all_list>>
  /\ UNCHANGED <<cur, ready_list, semas, pending, tids, free_pages,
                 thread_ticks, expecting_interrupt, panic>>

\* tid = next_tid++ is a load and a store.
allocate_tid ==
  /\ \/ Enter("tidread") /\ tmp' = [tmp EXCEPT ![cur] = next_tid] /\ UNCHANGED <<tid, next_tid>>
     \/ /\ Enter("tidwrite")
        /\ next_tid' = tmp[cur] + 1
        /\ tid' = [tid EXCEPT ![Arg] = tmp[cur]]
        /\ UNCHANGED tmp
  /\ Advance(1)
  /\ UNCHANGED <<status, cur, lists, semas, pending, free_pages, thread_ticks,
                 expecting_interrupt, panic>>

thread_unblock ==
  /\ Enter("unblock")
  /\ panic' = (status[Arg] # "BLOCKED")
  /\ ready_list' = Append(ready_list, Arg)
  /\ status' = [status EXCEPT ![Arg] = "READY"]
  /\ Advance(1)
  /\ UNCHANGED <<cur, all_list, semas, pending, tids, free_pages, thread_ticks,
                 expecting_interrupt>>

\* A command goes to the device (ide.c); its completion is an interrupt.
issue_pio_command ==
  /\ Enter("start")
  /\ expecting_interrupt' = expecting_interrupt \cup {Arg}
  /\ Advance(1)
  /\ UNCHANGED <<status, cur, lists, semas, pending, tids, free_pages,
                 thread_ticks, panic>>

thread_exit ==
  /\ ~panic /\ IntrOn /\ cur # Idle
  /\ code[cur] = <<>>
  /\ all_list' = all_list \ {cur}
  /\ Schedule(ready_list, [status EXCEPT ![cur] = "DYING"], pending)
  /\ UNCHANGED <<semas, code, tids, free_pages, expecting_interrupt, panic>>

\* The end of thread_schedule_tail: palloc_free_page takes palloc_lock, returns
\* the page and releases the lock, or sleeps on the lock.  An idle thread that
\* sleeps here with nobody else to run is chosen to run again at once: it goes
\* round the loop of sema_down for ever, interrupts off.
thread_schedule_tail ==
  LET prev == Head(pending[cur]) IN
  /\ ~panic /\ pending[cur] # <<>>
  /\ panic' = (holder[palloc_lock] = cur)
  /\ \/ /\ value[palloc_lock] = 0
        /\ Sleep(palloc_lock)
        /\ UNCHANGED free_pages
     \/ /\ value[palloc_lock] > 0
        /\ free_pages' = free_pages + 1
        /\ pending' = [pending EXCEPT ![cur] = Tail(@)]
        /\ inside' = inside \ {<<cur, palloc_lock>>}
        /\ WakeFirst(palloc_lock, [status EXCEPT ![prev] = "FREED"])
        /\ UNCHANGED <<cur, value, thread_ticks>>
  /\ UNCHANGED <<all_list, holder, code, tids, expecting_interrupt>>

\* idle, woken from hlt by an interrupt, blocks again.
idle ==
  /\ ~panic /\ cur = Idle /\ IntrOn
  /\ Schedule(ready_list, [status EXCEPT ![Idle] = "BLOCKED"], pending)
  /\ UNCHANGED <<all_list, semas, code, tids, free_pages, expecting_interrupt, panic>>

\* thread_tick in the timer interrupt, and the thread_yield on return from it.
thread_tick ==
  /\ ~panic /\ IntrOn
  /\ \/ /\ thread_ticks + 1 < TIME_SLICE
        /\ thread_ticks' = thread_ticks + 1
        /\ UNCHANGED <<status, cur, ready_list, pending>>
     \/ /\ thread_ticks + 1 >= TIME_SLICE
        /\ Schedule(IF cur = Idle THEN ready_list ELSE Append(ready_list, cur),
                    [status EXCEPT ![cur] = "READY"], pending)
  /\ UNCHANGED <<all_list, semas, code, tids, free_pages, expecting_interrupt, panic>>

\* Mutant of interrupt_handler: the completion is not passed on.
interrupt_handler_silent ==
  /\ ~panic /\ IntrOn
  /\ \E s \in expecting_interrupt : expecting_interrupt' = expecting_interrupt \ {s}
  /\ UNCHANGED <<status, ready_list, value, waiters, cur, all_list, holder, inside,
                 pending, code, tids, free_pages, thread_ticks, panic>>

\* The device's interrupt_handler (ide.c).
interrupt_handler ==
  /\ ~panic /\ IntrOn
  /\ \E s \in expecting_interrupt :
       SemaUp(s) /\ expecting_interrupt' = expecting_interrupt \ {s}
  /\ UNCHANGED <<cur, all_list, holder, inside, pending, code, tids, free_pages,
                 thread_ticks, panic>>

\* What the CPU does next if no interrupt comes.
Execute ==
  \/ sema_down \/ set_holder \/ sema_up
  \/ palloc_get_page \/ init_thread \/ allocate_tid \/ thread_unblock
  \/ issue_pio_command \/ thread_exit \/ thread_schedule_tail \/ idle

Next == Execute \/ thread_tick \/ interrupt_handler

Spec == Init /\ [][Next]_vars

\* The CPU keeps executing instructions and the device answers.
FairSpec == Spec /\ WF_vars(Execute) /\ WF_vars(interrupt_handler)
-----------------------------------------------------------------------------
Statuses == {"NONE", "PAGE", "BLOCKED", "READY", "RUNNING", "DYING", "FREED"}

TypeOK ==
  /\ status \in [Thread -> Statuses]
  /\ cur \in Thread
  /\ ready_list \in Seq(Thread) /\ all_list \subseteq Thread
  /\ value \in [Semaphore -> Nat]
  /\ waiters \in [Semaphore -> Seq(Thread)]
  /\ holder \in [Semaphore -> Thread \cup {None}]
  /\ inside \subseteq Thread \X Semaphore
  /\ pending \in [Thread -> Seq(Thread \ {Main, Idle})]
  /\ code \in [Thread -> Seq(Ops)]
  /\ tid \in [Thread -> Nat] /\ tmp \in [Thread -> Nat] /\ next_tid \in Nat
  /\ free_pages \in Nat /\ thread_ticks \in 0..TIME_SLICE - 1
  /\ expecting_interrupt \subseteq Semaphore
  /\ panic \in BOOLEAN

\* idle sleeps on palloc_lock in thread_schedule_tail, which it can only do alone:
\* it runs on, its element in the wait list, and pushes the element again.
IdleSpins == <<Idle, palloc_lock>> \in inside

\* thread.h on `elem': the run queue holds exactly the ready threads and never
\* idle, a semaphore's wait list holds blocked threads, no thread is linked
\* twice, so that one list_elem serves both; one thread runs; all_list has
\* the threads that are alive, and allocate_tid has given no two of them one tid.
\* The wait list of palloc_lock is excepted once idle spins: no other thread
\* runs from then on.
ListDiscipline ==
  /\ TypeOK
  /\ Range(ready_list) = {t \in Thread \ {Idle} : status[t] = "READY"}
  /\ Distinct(ready_list)
  /\ \A s \in Semaphore :
       /\ s # palloc_lock \/ ~IdleSpins =>
            Distinct(waiters[s]) /\ \A t \in Range(waiters[s]) : status[t] = "BLOCKED"
       /\ \A r \in Semaphore \ {s} : Range(waiters[s]) \cap Range(waiters[r]) = {}
  /\ IdleSpins => cur = Idle /\ ready_list = <<>>
  /\ {t \in Thread : status[t] = "RUNNING"} = {cur}
  /\ all_list = {t \in Thread : status[t] \in {"BLOCKED", "READY", "RUNNING"}}
  /\ \A t, u \in all_list : t # u /\ tid[t] # 0 => tid[t] # tid[u]

\* thread.h on `elem', without the exception: "only a thread in the blocked state
\* is on a semaphore wait list".
OnlyBlockedWait == \A s \in Semaphore : \A t \in Range(waiters[s]) : status[t] = "BLOCKED"

\* No wake-up is lost although a woken thread must win a race for the value:
\* while threads wait, each unit of the value has a thread that was woken for
\* it and will test the value again.
NoLostWakeup ==
  \A s \in Semaphore : waiters[s] # <<>> =>
    value[s] <= Cardinality({t \in Thread \ Range(waiters[s]) : <<t, s>> \in inside})

\* t has done the sema_down of lock_acquire(l) and not the sema_up of
\* lock_release(l): of the two, its program does the sema_up next.
Between(t, l) ==
  \E i \in 1..Len(code[t]) : /\ code[t][i] = [op |-> "up", on |-> l]
                             /\ \A j \in 1..i : code[t][j] # [op |-> "lock", on |-> l]

\* A lock has one token: it lies in the semaphore, or exactly one thread is
\* between lock_acquire's sema_down and lock_release's sema_up.
LockToken ==
  \A l \in Lock :
    LET in == Cardinality({t \in Thread : Between(t, l)})
    IN  in <= 1 /\ value[l] = 1 - in

Pages ==
  free_pages + Cardinality({t \in Thread \ {Main, Idle} : status[t] \notin {"NONE", "FREED"}})

\* Pages are neither leaked nor freed twice: no step changes the sum of the
\* pages of the pool that are free and those that belong to a thread created
\* and not yet destroyed.
PagesKept == Pages' = Pages
PagesConserved == [][PagesKept]_vars

\* A thread between its sema_down and its sema_up on palloc_lock has been
\* switched to right after another thread's exit and must free the dead page.
ReapInsideAllocator ==
  \E t \in Thread : pending[t] # <<>> /\ Between(t, palloc_lock)

\* The only ASSERT that ever fails is lock_acquire's, in the palloc_free_page
\* that thread_schedule_tail makes a thread inside the page allocator call; and
\* idle only spins because such a thread sleeps on the lock it has taken.
StopsOnlyByReap == panic \/ IdleSpins => ReapInsideAllocator

\* Unless that happens (the thread then panics or, when it is not the lock's
\* holder yet or no longer, waits for itself), every thread that was created runs
\* its program to the end and is destroyed.
AllGone ==
  \A t \in Thread \ {Idle} :
    status[t] \in {"NONE", "FREED"} \/ (t = Main /\ status[t] = "DYING")
AllExit == []~ReapInsideAllocator => <>[]AllGone
=============================================================================

----------------------------- MODULE WaitStatus -----------------------------
(***************************************************************************)
(* Parents and children in userprog/process.c: process_execute,            *)
(* start_process, process_wait and process_exit, which communicate through *)
(* the child's heap-allocated wait_status (semaphores done_loading and     *)
(* dead, a reference count under a lock) that is linked into the children  *)
(* list inside the parent's struct thread.                                 *)
(*                                                                         *)
(* A wait_status is named after its child.  A step is what a process does  *)
(* to shared state between two places where it can be preempted;           *)
(* reference_count is only touched under ws->lock, so a decrement with its *)
(* test is one step.  Using freed memory is undefined: the step that does  *)
(* it sets stopped, and the model says nothing of what follows.            *)
(***************************************************************************)
EXTENDS ListOps

CONSTANTS
  MaxTid,     \* bound: how many processes there will be
  Status      \* exit statuses processes use

ASSUME WaitStatusAssumption == MaxTid \in Nat \ {0} /\ Status \subseteq Int

Proc == 1..MaxTid   \* processes, named by tid; allocate_tid counts up
Root == 1           \* the kernel's main thread, which starts the first process
None == [none |-> TRUE]
TID_ERROR == -1

VARIABLES
  pc,              \* where each process is in the code
  arg,             \* the child its exec, wait or exit loop is about
  todo,            \* rest of the children list its exit loop has to visit
  ws,              \* wait_status of each process, as allocated
  children,        \* children list of each struct thread
  parent,          \* who created a process
  ret,             \* what process_execute or process_wait returned in the last step
  stopped          \* "no"; "ws", "page": a freed wait_status or struct thread was
                   \* used; "panic": the kernel has panicked

\* History: what was passed to exit, and which children have been waited for.
VARIABLES final, waited

vars == <<pc, arg, todo, ws, children, parent, ret, stopped, final, waited>>

PCs == {"unborn", "load", "load_failed", "loaded", "user", "exec", "wait",
        "exit", "destroy_own", "up_dead", "loop", "destroy_child", "dying", "freed"}

Init ==
  /\ pc = [p \in Proc |-> IF p = Root THEN "user" ELSE "unborn"]
  /\ arg = [p \in Proc |-> p]
  /\ todo = [p \in Proc |-> <<>>]
  /\ ws = [p \in Proc |-> None]
  /\ children = [p \in Proc |-> <<>>]
  /\ parent = [p \in Proc |-> p]
  /\ ret = None
  /\ stopped = "no"
  /\ final = [p \in Proc |-> 0]
  /\ waited = {}
-----------------------------------------------------------------------------
Goto(p, l) == pc' = [pc EXCEPT ![p] = l]

Live(c) == ws[c] # None /\ ws[c].allocated

\* p takes a step at l that does not touch freed memory.
At(p, l) == stopped = "no" /\ pc[p] = l

NewWaitStatus ==
  [allocated |-> TRUE, reference_count |-> 2, dead |-> 0, done_loading |-> 0,
   load_error |-> FALSE, exit_status |-> 0]

\* list_remove writes to the neighbours of the element: for the first and the
\* last element that is the list head inside the parent's struct thread.
TouchesPage(c) ==
  LET l == children[parent[c]] IN c = Head(l) \/ c = l[Len(l)]

\* destroy_wait_status.  That another process runs between its list_remove and
\* its free makes no difference: the count is 0, or the child is past its last
\* use, and the wait_status is on no list, so only this process can reach it.
Destroy(c) ==
  /\ children' = [children EXCEPT ![parent[c]] = list_remove(@, c)]
  /\ ws' = [ws EXCEPT ![c].allocated = FALSE]
  /\ stopped' = IF ~Live(c) THEN "ws"
                       ELSE IF pc[parent[c]] = "freed" /\ TouchesPage(c) THEN "page"
                       ELSE "no"
-----------------------------------------------------------------------------
\* process_execute up to sema_down(&ws->done_loading): thread_create allocates
\* the wait_status, links it and makes the child ready, or fails.
process_execute(p) ==
  /\ At(p, "user")
  /\ \/ \E c \in Proc \ {Root} :
          /\ pc[c] = "unborn" /\ pc[c - 1] # "unborn"
          /\ ws' = [ws EXCEPT ![c] = NewWaitStatus]
          /\ children' = [children EXCEPT ![p] = <<c>> \o @]
          /\ parent' = [parent EXCEPT ![c] = p]
          /\ pc' = [pc EXCEPT ![p] = "exec", ![c] = "load"]
          /\ arg' = [arg EXCEPT ![p] = c]
          /\ ret' = None
     \/ /\ ret' = [call |-> "exec", by |-> p, of |-> p, value |-> TID_ERROR]
        /\ UNCHANGED <<ws, children, parent, pc, arg>>
  /\ UNCHANGED <<todo, stopped, final, waited>>

\* Mutant of process_execute_return: no sema_down on done_loading.
process_execute_no_wait(p) ==
  LET c == arg[p] IN
  /\ At(p, "exec")
  /\ UNCHANGED ws
  /\ ret' = [call |-> "exec", by |-> p, of |-> c,
             value |-> IF ws[c].load_error THEN TID_ERROR ELSE 0]
  /\ stopped' = IF Live(c) THEN "no" ELSE "ws"
  /\ Goto(p, "user") /\ arg' = [arg EXCEPT ![p] = p]
  /\ UNCHANGED <<todo, children, parent, final, waited>>

\* The rest of process_execute, once the child has upped done_loading.
process_execute_return(p) ==
  LET c == arg[p] IN
  /\ At(p, "exec")
  /\ ws[c].done_loading > 0
  /\ ws' = [ws EXCEPT ![c].done_loading = @ - 1]
  /\ ret' = [call |-> "exec", by |-> p, of |-> c,
             value |-> IF ws[c].load_error THEN TID_ERROR ELSE 0]
  /\ stopped' = IF Live(c) THEN "no" ELSE "ws"
  /\ Goto(p, "user") /\ arg' = [arg EXCEPT ![p] = p]
  /\ UNCHANGED <<todo, children, parent, final, waited>>

\* start_process: load, which may fail, and load_arguments_to_stack.
load(p) ==
  /\ At(p, "load")
  /\ \/ Goto(p, "loaded") /\ UNCHANGED <<ws, final>>
     \/ /\ ws' = [ws EXCEPT ![p].exit_status = 1, ![p].load_error = TRUE]
        /\ final' = [final EXCEPT ![p] = 1]
        /\ Goto(p, "load_failed")
  /\ stopped' = IF Live(p) THEN "no" ELSE "ws"
  /\ ret' = None
  /\ UNCHANGED <<arg, todo, children, parent, waited>>

\* start_process stops the kernel: the command has no word, and strlcpy asserts
\* that its source is not null, or the arguments run off the mapped stack, and
\* the kernel faults.
start_process_panic(p) ==
  /\ At(p, "load")
  /\ stopped' = "panic"
  /\ ret' = None
  /\ UNCHANGED <<pc, arg, todo, ws, children, parent, final, waited>>

\* Mutant of start_process: done_loading is not upped when the load failed.
start_process_silent_failure(p) ==
  /\ At(p, "loaded") \/ At(p, "load_failed")
  /\ ws' = IF pc[p] = "loaded" THEN [ws EXCEPT ![p].done_loading = @ + 1] ELSE ws
  /\ stopped' = IF Live(p) THEN "no" ELSE "ws"
  /\ Goto(p, IF pc[p] = "loaded" THEN "user" ELSE "exit")
  /\ ret' = None
  /\ UNCHANGED <<arg, todo, children, parent, final, waited>>

\* start_process: sema_up(&ws->done_loading), then user code or thread_exit.
start_process(p) ==
  /\ At(p, "loaded") \/ At(p, "load_failed")
  /\ ws' = [ws EXCEPT ![p].done_loading = @ + 1]
  /\ stopped' = IF Live(p) THEN "no" ELSE "ws"
  /\ Goto(p, IF pc[p] = "loaded" THEN "user" ELSE "exit")
  /\ ret' = None
  /\ UNCHANGED <<arg, todo, children, parent, final, waited>>

\* process_wait up to sema_down(&ws->dead): find_child_ws may find nothing.
process_wait(p) ==
  /\ At(p, "user")
  /\ \E c \in Proc \ {p, Root} :
       /\ \/ /\ c \in Range(children[p])
             /\ Goto(p, "wait") /\ arg' = [arg EXCEPT ![p] = c] /\ ret' = None
          \/ /\ c \notin Range(children[p])
             /\ ret' = [call |-> "wait", by |-> p, of |-> c, value |-> -1]
             /\ UNCHANGED <<pc, arg>>
  /\ UNCHANGED <<todo, ws, children, parent, stopped, final, waited>>

\* Mutant of process_wait_return: no sema_down on dead.
process_wait_no_wait(p) ==
  LET c == arg[p] IN
  /\ At(p, "wait")
  /\ ret' = [call |-> "wait", by |-> p, of |-> c, value |-> ws[c].exit_status]
  /\ waited' = waited \cup {c}
  /\ Destroy(c)
  /\ Goto(p, "user") /\ arg' = [arg EXCEPT ![p] = p]
  /\ UNCHANGED <<todo, parent, final>>

\* The rest of process_wait: read the status, unlink and free.
process_wait_return(p) ==
  LET c == arg[p] IN
  /\ At(p, "wait")
  /\ ws[c].dead > 0
  /\ ret' = [call |-> "wait", by |-> p, of |-> c, value |-> ws[c].exit_status]
  /\ waited' = waited \cup {c}
  /\ Destroy(c)
  /\ Goto(p, "user") /\ arg' = [arg EXCEPT ![p] = p]
  /\ UNCHANGED <<todo, parent, final>>

\* thread_exit_with_status, from the exit system call or a fatal exception.
\* (The kernel's main thread has no wait_status and does not come here.)
thread_exit_with_status(p) ==
  /\ At(p, "user") /\ p # Root
  /\ \E s \in Status :
       ws' = [ws EXCEPT ![p].exit_status = s] /\ final' = [final EXCEPT ![p] = s]
  /\ stopped' = IF Live(p) THEN "no" ELSE "ws"
  /\ Goto(p, "exit")
  /\ ret' = None
  /\ UNCHANGED <<arg, todo, children, parent, waited>>

\* Mutant of decrement_own: the count is tested before it is decremented.
decrement_own_test_first(p) ==
  /\ At(p, "exit")
  /\ ws' = [ws EXCEPT ![p].reference_count = @ - 1]
  /\ stopped' = IF Live(p) THEN "no" ELSE "ws"
  /\ Goto(p, IF ws[p].reference_count = 0 THEN "destroy_own" ELSE "up_dead")
  /\ ret' = None
  /\ UNCHANGED <<arg, todo, children, parent, final, waited>>

\* process_exit: decrement_and_destroy_if_zero on the process's own wait_status
\* up to the release of ws->lock.
decrement_own(p) ==
  /\ At(p, "exit")
  /\ ws' = [ws EXCEPT ![p].reference_count = @ - 1]
  /\ stopped' = IF Live(p) THEN "no" ELSE "ws"
  /\ Goto(p, IF ws[p].reference_count = 1 THEN "destroy_own" ELSE "up_dead")
  /\ ret' = None
  /\ UNCHANGED <<arg, todo, children, parent, final, waited>>

destroy_own(p) ==
  /\ At(p, "destroy_own")
  /\ Destroy(p)
  /\ todo' = [todo EXCEPT ![p] = children[p]]
  /\ Goto(p, "loop")
  /\ ret' = None
  /\ UNCHANGED <<arg, parent, final, waited>>

\* decrement_all_references: sema_up(&ws->dead) if the ws was not destroyed.
sema_up_dead(p) ==
  /\ At(p, "up_dead")
  /\ ws' = [ws EXCEPT ![p].dead = @ + 1]
  /\ stopped' = IF Live(p) THEN "no" ELSE "ws"
  /\ todo' = [todo EXCEPT ![p] = children[p]]
  /\ Goto(p, "loop")
  /\ ret' = None
  /\ UNCHANGED <<arg, children, parent, final, waited>>

\* Mutant of decrement_child: the parent keeps its references.
decrement_child_forgotten(p) ==
  LET c == Head(todo[p]) IN
  /\ At(p, "loop") /\ todo[p] # <<>>
  /\ UNCHANGED ws
  /\ stopped' = IF Live(c) THEN "no" ELSE "ws"
  /\ todo' = [todo EXCEPT ![p] = Tail(@)]
  /\ arg' = [arg EXCEPT ![p] = c]
  /\ Goto(p, IF ws[c].reference_count = 1 THEN "destroy_child" ELSE "loop")
  /\ ret' = None
  /\ UNCHANGED <<children, parent, final, waited>>

\* One round of the loop over the children, up to the release of their lock.
decrement_child(p) ==
  LET c == Head(todo[p]) IN
  /\ At(p, "loop") /\ todo[p] # <<>>
  /\ ws' = [ws EXCEPT ![c].reference_count = @ - 1]
  /\ stopped' = IF Live(c) THEN "no" ELSE "ws"
  /\ todo' = [todo EXCEPT ![p] = Tail(@)]
  /\ arg' = [arg EXCEPT ![p] = c]
  /\ Goto(p, IF ws[c].reference_count = 1 THEN "destroy_child" ELSE "loop")
  /\ ret' = None
  /\ UNCHANGED <<children, parent, final, waited>>

destroy_child(p) ==
  /\ At(p, "destroy_child")
  /\ Destroy(arg[p])
  /\ Goto(p, "loop")
  /\ ret' = None
  /\ UNCHANGED <<arg, todo, parent, final, waited>>

\* The thread is done and, later, its page is freed by the next thread to run.
thread_exit(p) ==
  /\ \/ At(p, "loop") /\ todo[p] = <<>> /\ Goto(p, "dying")
     \/ At(p, "dying") /\ Goto(p, "freed")
  /\ ret' = None
  /\ UNCHANGED <<arg, todo, ws, children, parent, stopped, final, waited>>

\* What a process does without being told to by user code.
Run(p) ==
  \/ process_execute_return(p) \/ load(p) \/ start_process_panic(p) \/ start_process(p)
  \/ process_wait_return(p)
  \/ decrement_own(p) \/ destroy_own(p) \/ sema_up_dead(p)
  \/ decrement_child(p) \/ destroy_child(p) \/ thread_exit(p)

Next ==
  \E p \in Proc :
    process_execute(p) \/ process_wait(p) \/ thread_exit_with_status(p) \/ Run(p)

Spec == Init /\ [][Next]_vars

\* The scheduler runs every thread that can run; user code need not call.
FairSpec == Spec /\ \A p \in Proc : WF_vars(Run(p))
-----------------------------------------------------------------------------
WaitStatuses ==
  [allocated : BOOLEAN, reference_count : 0..2, dead : 0..1, done_loading : 0..1,
   load_error : BOOLEAN, exit_status : Status \cup {0, 1}]

TypeOK ==
  /\ pc \in [Proc -> PCs] /\ arg \in [Proc -> Proc] /\ parent \in [Proc -> Proc]
  /\ \A p \in Proc : {Range(todo[p]), Range(children[p])} \subseteq SUBSET Proc
  /\ \A p \in Proc : ws[p] = None \/ ws[p] \in WaitStatuses
  /\ stopped \in {"no", "ws", "page", "panic"}
  /\ final \in [Proc -> Status \cup {0, 1}] /\ waited \subseteq Proc

\* c itself, or its parent, has still to give up its reference to c's wait_status.
ChildHolds(c) == pc[c] \in {"load", "load_failed", "loaded", "user", "exec", "wait", "exit"}
ParentHolds(c) ==
  IF pc[parent[c]] \in {"loop", "destroy_child"}
    THEN c \in Range(todo[parent[c]])
    ELSE pc[parent[c]] \notin {"dying", "freed"}

\* How many processes still refer to c's wait_status.
Holders(c) == (IF ChildHolds(c) THEN 1 ELSE 0) + (IF ParentHolds(c) THEN 1 ELSE 0)

\* reference_count counts the processes that still refer to a wait_status,
\* through every order in which parent and child exit.
RefCounts ==
  /\ TypeOK
  /\ stopped = "no" =>
    \A c \in Proc : ws[c] # None /\ ws[c].allocated =>
      ws[c].reference_count = Holders(c)

\* A wait_status does not outlive both processes.
NoLeak ==
  stopped = "no" =>
    \A c \in Proc : ws[c] # None /\ {pc[c], pc[parent[c]]} \subseteq {"dying", "freed"}
                     => ~ws[c].allocated

Gone(c) == pc[c] \in {"loop", "destroy_child", "dying", "freed"}

\* process_wait's comment: it returns the child's exit status, after the child
\* has died, to its parent and only once; otherwise -1.
WaitContract ==
  [][ret' # None /\ ret'.call = "wait" =>
       IF parent[ret'.of] = ret'.by /\ ret'.of \notin waited
         THEN Gone(ret'.of) /\ ret'.value = final[ret'.of]
         ELSE ret'.value = -1]_vars

\* process_execute returns only when it is known whether the child could load
\* its program, and then returns TID_ERROR exactly when it could not.
ExecContract ==
  [][ret' # None /\ ret'.call = "exec" /\ ret'.of # ret'.by =>
       /\ pc[ret'.of] \notin {"unborn", "load", "loaded", "load_failed"}
       /\ ret'.value = TID_ERROR <=> ws[ret'.of].load_error]_vars

\* No process is stuck in a call: exec returns, the wait for a child that has
\* begun to exit returns, and a process that exits is destroyed.
Progress ==
  \A p \in Proc :
    []<>(\/ pc[p] \in {"unborn", "user", "freed"}
         \/ pc[p] = "wait" /\ ChildHolds(arg[p]) /\ pc[arg[p]] # "exit"
         \/ stopped # "no")

\* Dying at the same time is safe for parent and child (doc/project1.md): no
\* process touches a wait_status that has been freed.
NoFreedWaitStatus == stopped # "ws"
=============================================================================

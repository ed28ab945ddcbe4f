-------------------------- MODULE WaitStatusProofs --------------------------
(***************************************************************************)
(* What process_wait, process_execute and process_exit promise, for every  *)
(* number of processes and every set of exit statuses: the reference count *)
(* of a wait_status is the number of processes that still refer to it, a   *)
(* wait_status does not outlive parent and child, and the two calls return *)
(* what their callers rely on.                                             *)
(*                                                                         *)
(* Everything is said of the states before the first use of freed memory,  *)
(* which the model stops at.                                               *)
(***************************************************************************)
EXTENDS WaitStatus, ListLemmas, TLAPS

\* Where a process is while it walks its list of children.
Loop == {"loop", "destroy_child"}

Types ==
  /\ pc \in [Proc -> PCs] /\ arg \in [Proc -> Proc] /\ parent \in [Proc -> Proc]
  /\ todo \in [Proc -> Seq(Proc)] /\ children \in [Proc -> Seq(Proc)]
  /\ ws \in [Proc -> WaitStatuses \cup {None}]
  /\ stopped \in {"no", "ws", "page", "panic"}
  /\ final \in [Proc -> Status \cup {0, 1}] /\ waited \subseteq Proc

\* Every process but the first has a parent and was given a wait_status.
Tree ==
  /\ \A c \in Proc : ws[c] # None <=> c # Root /\ pc[c] # "unborn"
  /\ pc[Root] \in {"user", "exec", "wait"} /\ parent[Root] = Root
  /\ \A c \in Proc : pc[c] = "unborn" => parent[c] = c /\ final[c] = 0
  /\ \A c \in Proc : ws[c] # None => parent[c] # c /\ pc[parent[c]] # "unborn"

\* A children list holds the allocated wait_statuses of the process's children,
\* and the exit loop visits some of them.
Lists ==
  /\ \A p \in Proc : Distinct(children[p]) /\ Distinct(todo[p])
  /\ \A p, c \in Proc : c \in Range(children[p]) <=> Live(c) /\ parent[c] = p
  /\ \A p \in Proc : Range(todo[p]) \subseteq Range(children[p])
  /\ \A p \in Proc : pc[p] \notin Loop => todo[p] = <<>>
  /\ \A p \in Proc : pc[p] \in {"exec", "wait"} => arg[p] \in Range(children[p])

\* The count of an allocated wait_status is right, and when it is zero exactly
\* one process is about to free it.
Counts ==
  /\ \A c \in Proc : Live(c) => ws[c].reference_count = Holders(c)
  /\ \A c \in Proc : c # Root /\ ChildHolds(c) => Live(c)
  /\ \A c \in Proc : pc[c] = "destroy_own" => Live(c) /\ ws[c].reference_count = 0
  /\ \A p \in Proc : pc[p] = "destroy_child" =>
       /\ arg[p] \in Range(children[p])
       /\ ws[arg[p]].reference_count = 0 /\ pc[arg[p]] # "destroy_own"
  /\ \A c \in Proc : Live(c) /\ ws[c].reference_count = 0 =>
       \/ pc[c] = "destroy_own"
       \/ pc[parent[c]] = "destroy_child" /\ arg[parent[c]] = c

\* What the two semaphores and the status field tell.
Signals ==
  \A c \in Proc : ws[c] # None =>
    /\ ws[c].dead > 0 => Gone(c)
    /\ ws[c].done_loading > 0 => pc[c] \notin {"load", "loaded", "load_failed"}
    /\ ws[c].exit_status = final[c]

\* A wait_status is freed by a wait or after the parent has begun to exit.
Waits ==
  /\ \A c \in waited : ws[c] # None /\ ~ws[c].allocated
  /\ \A c \in Proc : ws[c] # None /\ ~ws[c].allocated =>
       c \in waited \/ pc[parent[c]] \in Loop \cup {"dying", "freed"}

Sound == Tree /\ Lists /\ Counts /\ Signals /\ Waits

\* The inductive invariant.
IInv == Types /\ (stopped = "no" => Sound)

\* Most leaves are for Zenon, some for SMT, a few take Zenon longer.
USE WaitStatusAssumption, ZenonT(5), SMTT(20), ZenonT(60)
-----------------------------------------------------------------------------
\* There is a first process.
LEMMA RootProc == Root \in Proc
  BY DEF Proc, Root

\* No wait_status is the absent one.
LEMMA NotNone == /\ \A r \in WaitStatuses : r # None
                 /\ NewWaitStatus \in WaitStatuses
  BY DEF WaitStatuses, None, NewWaitStatus

\* The main thread runs alone.
LEMMA InitIInv == Init => IInv
<1> SUFFICES ASSUME Init PROVE IInv
  OBVIOUS
<1>1. Root \in Proc /\ \A S : <<>> \in Seq(S)
  BY EmptyFacts DEF Proc, Root
<1>2. \A p \in Proc : /\ pc[p] = (IF p = Root THEN "user" ELSE "unborn") /\ arg[p] = p
                      /\ todo[p] = <<>> /\ children[p] = <<>> /\ ws[p] = None
                      /\ parent[p] = p /\ final[p] = 0
  BY DEF Init
<1>3. Types
  BY <1>1 DEF Init, Types, PCs
<1>4. Tree
  BY <1>1, <1>2 DEF Tree
<1>5. Lists
  BY <1>1, <1>2, EmptyFacts DEF Lists, Live
<1>6. Counts
  BY <1>1, <1>2 DEF Counts, Live, ChildHolds
<1>7. Signals /\ Waits
  BY <1>2 DEF Signals, Waits, Init
<1> QED BY <1>3, <1>4, <1>5, <1>6, <1>7 DEF IInv, Sound
-----------------------------------------------------------------------------
\* A step that creates no process keeps the tree.
LEMMA TreeStep ==
  ASSUME Types, Tree, UNCHANGED parent,
         \A d \in Proc : /\ ws'[d] # None <=> ws[d] # None
                         /\ pc'[d] = "unborn" <=> pc[d] = "unborn"
                         /\ pc[d] = "unborn" => final'[d] = final[d],
         pc'[Root] \in {"user", "exec", "wait"}
  PROVE  Tree'
<1>1. Root \in Proc /\ \A d \in Proc : parent[d] \in Proc /\ parent'[d] = parent[d]
  BY RootProc DEF Types
<1>2. ASSUME NEW d \in Proc, ws'[d] # None PROVE parent'[d] # d /\ pc'[parent'[d]] # "unborn"
  <2>1. ws[d] # None
    BY <1>2
  <2>2. parent[d] # d /\ pc[parent[d]] # "unborn"
    BY <2>1 DEF Tree
  <2> QED BY <2>2, <1>1
<1>3. \A d \in Proc : pc'[d] = "unborn" => parent'[d] = d /\ final'[d] = 0
  BY <1>1 DEF Tree
<1>4. \A d \in Proc : ws'[d] # None <=> d # Root /\ pc'[d] # "unborn"
  BY DEF Tree
<1> QED BY <1>1, <1>2, <1>3, <1>4 DEF Tree

\* A step within the part of its life in which a process refers to its own
\* wait_status, by which no wait_status is allocated, freed or counted down.
LEMMA QuietStep ==
  ASSUME IInv, stopped = "no", NEW p \in Proc,
         UNCHANGED <<todo, children, parent, waited>>,
         \A q \in Proc \ {p} : pc'[q] = pc[q] /\ arg'[q] = arg[q],
         ChildHolds(p), ChildHolds(p)',
         \A c \in Proc : /\ ws'[c] # None <=> ws[c] # None
                         /\ ws'[c].allocated = ws[c].allocated
                         /\ ws'[c].reference_count = ws[c].reference_count,
         p = Root => pc'[p] \in {"user", "exec", "wait"},
         pc'[p] \in {"exec", "wait"} => arg'[p] \in Range(children[p]),
         \A c \in Proc : pc[c] = "unborn" => final'[c] = final[c]
  PROVE  Tree' /\ Lists' /\ Counts' /\ Waits'
<1> USE DEF IInv, Sound
<1>1. \A c \in Proc : Live(c)' <=> Live(c)
  BY DEF Live
<1>2. \A c \in Proc : ChildHolds(c)' <=> ChildHolds(c)
  BY DEF ChildHolds
<1>3. \A c \in Proc : ParentHolds(c)' <=> ParentHolds(c)
  BY DEF ChildHolds, ParentHolds, Types
<1>4. \A c \in Proc : Holders(c)' = Holders(c)
  BY <1>2, <1>3 DEF Holders
<1>5. /\ pc[p] \notin {"unborn", "destroy_own"} \cup Loop \cup {"dying", "freed"}
      /\ pc'[p] \notin {"unborn", "destroy_own"} \cup Loop \cup {"dying", "freed"}
  BY DEF ChildHolds, Loop
<1>6. \A c \in Proc : \A l \in {"unborn", "destroy_own", "destroy_child"} :
        pc'[c] = l <=> pc[c] = l
  BY <1>5 DEF Loop
<1>7. Tree'
  <2>1. pc'[Root] \in {"user", "exec", "wait"}
    BY RootProc DEF Tree
  <2> QED BY <2>1, <1>6, TreeStep
<1>8. Lists'
  BY <1>1, <1>5 DEF Lists
<1>9. Counts'
  <2>1. \A c \in Proc : Live(c)' => ws'[c].reference_count = Holders(c)'
    BY <1>1, <1>4 DEF Counts
  <2>2. \A c \in Proc : c # Root /\ ChildHolds(c)' => Live(c)'
    BY <1>1, <1>2 DEF Counts
  <2>3. \A c \in Proc : pc'[c] = "destroy_own" => Live(c)' /\ ws'[c].reference_count = 0
    BY <1>1, <1>6 DEF Counts
  <2>4. ASSUME NEW q \in Proc, pc'[q] = "destroy_child"
        PROVE  /\ arg'[q] \in Range(children'[q])
               /\ ws'[arg'[q]].reference_count = 0 /\ pc'[arg'[q]] # "destroy_own"
    <3>1. q # p /\ pc[q] = "destroy_child" /\ arg'[q] = arg[q] /\ arg[q] \in Proc
      BY <2>4, <1>5 DEF Loop, Types
    <3> QED BY <3>1, <1>6 DEF Counts
  <2>5. ASSUME NEW c \in Proc, Live(c)', ws'[c].reference_count = 0
        PROVE  \/ pc'[c] = "destroy_own"
               \/ pc'[parent'[c]] = "destroy_child" /\ arg'[parent'[c]] = c
    <3>1. parent[c] \in Proc /\ (pc[parent[c]] = "destroy_child" => parent[c] # p)
      BY <1>5 DEF Loop, Types
    <3>2. pc[c] = "destroy_own" \/ (pc[parent[c]] = "destroy_child" /\ arg[parent[c]] = c)
      BY <2>5, <1>1 DEF Counts
    <3> QED BY <3>1, <3>2, <1>6
  <2> QED BY <2>1, <2>2, <2>3, <2>4, <2>5 DEF Counts
<1>10. Waits'
  BY <1>5 DEF Waits, Types
<1> QED BY <1>7, <1>8, <1>9, <1>10

\* The inductive invariant says nothing of ret.
LEMMA StutterIInv ==
  ASSUME IInv, UNCHANGED <<pc, arg, todo, ws, children, parent, stopped, final, waited>>
  PROVE  IInv'
  BY DEF IInv, Sound, Types, Tree, Lists, Counts, Signals, Waits, Live, Gone, Holders,
         ChildHolds, ParentHolds

\* Moving a process to another place.
LEMMA GotoFacts ==
  ASSUME Types, NEW p \in Proc, NEW l \in PCs, Goto(p, l)
  PROVE  pc'[p] = l /\ pc' \in [Proc -> PCs] /\ \A q \in Proc \ {p} : pc'[q] = pc[q]
  BY DEF Goto, Types

\* process_execute returns: the parent takes done_loading down.
LEMMA ExecReturnIInv ==
  ASSUME IInv, NEW p \in Proc, process_execute_return(p) PROVE IInv'
<1> USE DEF IInv, Sound
<1>0. PICK c : c = arg[p]
  OBVIOUS
<1>1. /\ stopped = "no" /\ pc[p] = "exec" /\ ws[c].done_loading > 0
      /\ ws' = [ws EXCEPT ![c].done_loading = @ - 1]
      /\ stopped' = (IF Live(c) THEN "no" ELSE "ws")
      /\ Goto(p, "user") /\ arg' = [arg EXCEPT ![p] = p]
      /\ UNCHANGED <<todo, children, parent, final, waited>>
  BY <1>0 DEF process_execute_return, At
<1>2. /\ pc'[p] = "user" /\ pc' \in [Proc -> PCs] /\ \A q \in Proc \ {p} : pc'[q] = pc[q]
      /\ arg' \in [Proc -> Proc] /\ \A q \in Proc \ {p} : arg'[q] = arg[q]
  BY <1>1, GotoFacts DEF Types, PCs
<1>3. c \in Proc /\ Live(c) /\ ws[c] \in WaitStatuses /\ stopped' = "no"
  BY <1>0, <1>1 DEF Types, Lists, Live
<1>4. /\ ws'[c] = [ws[c] EXCEPT !.done_loading = @ - 1]
      /\ \A d \in Proc \ {c} : ws'[d] = ws[d]
  BY <1>1, <1>3 DEF Types
<1>5. /\ ws'[c] \in WaitStatuses /\ ws'[c].done_loading = ws[c].done_loading - 1
      /\ ws'[c].dead = ws[c].dead /\ ws'[c].exit_status = ws[c].exit_status
      /\ ws'[c].allocated = ws[c].allocated
      /\ ws'[c].reference_count = ws[c].reference_count
  BY <1>1, <1>3, <1>4 DEF WaitStatuses
<1>6. Types'
  BY <1>1, <1>2, <1>3, <1>5 DEF Types
<1>7. Tree' /\ Lists' /\ Counts' /\ Waits'
  <2>1. \A d \in Proc : /\ ws'[d] # None <=> ws[d] # None
                        /\ ws'[d].allocated = ws[d].allocated
                        /\ ws'[d].reference_count = ws[d].reference_count
    BY <1>3, <1>4, <1>5, NotNone
  <2>2. ChildHolds(p) /\ ChildHolds(p)'
    BY <1>1, <1>2 DEF ChildHolds
  <2> QED BY <1>1, <1>2, <2>1, <2>2, QuietStep
<1>8. Signals'
  <2>1. ASSUME NEW d \in Proc, ws'[d] # None
        PROVE  /\ ws'[d].dead > 0 => Gone(d)'
               /\ ws'[d].done_loading > 0 => pc'[d] \notin {"load", "loaded", "load_failed"}
               /\ ws'[d].exit_status = final'[d]
    <3>1. /\ ws[d] # None /\ ws'[d].dead = ws[d].dead
          /\ ws'[d].done_loading > 0 => ws[d].done_loading > 0
          /\ ws'[d].exit_status = ws[d].exit_status
      BY <2>1, <1>1, <1>3, <1>4, <1>5, NotNone
    <3>2. Gone(d) => Gone(d)'
      BY <1>1, <1>2 DEF Gone
    <3> QED BY <3>1, <3>2, <1>1, <1>2 DEF Signals
  <2> QED BY <2>1 DEF Signals
<1> QED BY <1>6, <1>7, <1>8

\* start_process loads the program or fails to.
LEMMA LoadIInv ==
  ASSUME IInv, NEW p \in Proc, load(p) PROVE IInv'
<1> USE DEF IInv, Sound
<1>1. /\ stopped = "no" /\ pc[p] = "load"
      /\ stopped' = (IF Live(p) THEN "no" ELSE "ws")
      /\ UNCHANGED <<arg, todo, children, parent, waited>>
  BY DEF load, At
<1>2. p # Root /\ ChildHolds(p) /\ Live(p) /\ ws[p] \in WaitStatuses /\ stopped' = "no"
  BY <1>1, RootProc DEF Types, Tree, Counts, Live, ChildHolds
<1>3. PICK l \in {"loaded", "load_failed"} : Goto(p, l)
  BY DEF load
<1>4. /\ pc'[p] = l /\ pc' \in [Proc -> PCs] /\ \A q \in Proc \ {p} : pc'[q] = pc[q]
  BY <1>3, GotoFacts DEF PCs
<1>5. /\ ws'[p] \in WaitStatuses /\ ws'[p].done_loading = ws[p].done_loading
      /\ ws'[p].dead = ws[p].dead /\ ws'[p].exit_status = final'[p]
      /\ ws'[p].allocated = ws[p].allocated
      /\ ws'[p].reference_count = ws[p].reference_count
      /\ \A d \in Proc \ {p} : ws'[d] = ws[d] /\ final'[d] = final[d]
      /\ ws' \in [Proc -> WaitStatuses \cup {None}] /\ final' \in [Proc -> Status \cup {0, 1}]
  <2>1. CASE UNCHANGED <<ws, final>>
    <3>1. ws' = ws /\ final' = final /\ ws[p].exit_status = final[p]
      BY <2>1, <1>1, <1>2 DEF Signals, Live
    <3> QED BY <3>1, <1>2 DEF Types
  <2>2. CASE /\ ws' = [ws EXCEPT ![p].exit_status = 1, ![p].load_error = TRUE]
             /\ final' = [final EXCEPT ![p] = 1]
    <3>1. /\ ws'[p] = [ws[p] EXCEPT !.exit_status = 1, !.load_error = TRUE]
          /\ \A d \in Proc \ {p} : ws'[d] = ws[d]
      BY <2>2 DEF Types
    <3>2. /\ ws'[p] \in WaitStatuses /\ ws'[p].exit_status = 1
          /\ ws'[p].done_loading = ws[p].done_loading
          /\ ws'[p].dead = ws[p].dead /\ ws'[p].allocated = ws[p].allocated
          /\ ws'[p].reference_count = ws[p].reference_count
      BY <3>1, <1>2 DEF WaitStatuses
    <3> QED BY <2>2, <3>1, <3>2 DEF Types
  <2> QED BY <2>1, <2>2 DEF load
<1>6. Types'
  BY <1>1, <1>2, <1>4, <1>5 DEF Types
<1>7. Tree' /\ Lists' /\ Counts' /\ Waits'
  <2>1. \A d \in Proc : /\ ws'[d] # None <=> ws[d] # None
                        /\ ws'[d].allocated = ws[d].allocated
                        /\ ws'[d].reference_count = ws[d].reference_count
    BY <1>2, <1>5, NotNone
  <2>2. ChildHolds(p)'
    BY <1>4 DEF ChildHolds
  <2> QED BY <1>1, <1>2, <1>4, <1>5, <2>1, <2>2, QuietStep
<1>8. Signals'
  <2>1. ASSUME NEW d \in Proc, ws'[d] # None
        PROVE  /\ ws'[d].dead > 0 => Gone(d)'
               /\ ws'[d].done_loading > 0 => pc'[d] \notin {"load", "loaded", "load_failed"}
               /\ ws'[d].exit_status = final'[d]
    <3>1. CASE d = p
      BY <3>1, <1>1, <1>2, <1>5, NotNone DEF Signals, Gone
    <3>2. CASE d # p
      <4>1. ws'[d] = ws[d] /\ pc'[d] = pc[d] /\ final'[d] = final[d]
        BY <3>2, <1>4, <1>5
      <4> QED BY <4>1, <2>1, <1>1 DEF Signals, Gone
    <3> QED BY <3>1, <3>2
  <2> QED BY <2>1 DEF Signals
<1> QED BY <1>6, <1>7, <1>8

\* start_process panics, after which the invariant promises types only.
LEMMA PanicIInv ==
  ASSUME IInv, NEW p \in Proc, start_process_panic(p) PROVE IInv'
  BY DEF start_process_panic, IInv, Types

\* The child ups done_loading and goes on to user code or to exit.
LEMMA StartIInv ==
  ASSUME IInv, NEW p \in Proc, start_process(p) PROVE IInv'
<1> USE DEF IInv, Sound
<1>0. PICK l \in {"user", "exit"} : l = (IF pc[p] = "loaded" THEN "user" ELSE "exit")
  OBVIOUS
<1>1. /\ stopped = "no" /\ pc[p] \in {"loaded", "load_failed"}
      /\ ws' = [ws EXCEPT ![p].done_loading = @ + 1]
      /\ stopped' = (IF Live(p) THEN "no" ELSE "ws") /\ Goto(p, l)
      /\ UNCHANGED <<arg, todo, children, parent, final, waited>>
  BY <1>0 DEF start_process, At
<1>2. p # Root /\ ChildHolds(p) /\ Live(p) /\ ws[p] \in WaitStatuses /\ stopped' = "no"
  BY <1>1, RootProc DEF Types, Tree, Counts, Live, ChildHolds
<1>3. pc'[p] = l /\ pc' \in [Proc -> PCs] /\ \A q \in Proc \ {p} : pc'[q] = pc[q]
  BY <1>1, GotoFacts DEF PCs
<1>4. ws[p].done_loading = 0 /\ (ws[p].dead > 0 => Gone(p)) /\ ws[p].exit_status = final[p]
  BY <1>1, <1>2 DEF Signals, Live, WaitStatuses
<1>5. /\ ws'[p] = [ws[p] EXCEPT !.done_loading = @ + 1]
      /\ \A d \in Proc \ {p} : ws'[d] = ws[d]
  BY <1>1 DEF Types
<1>6. /\ ws'[p] \in WaitStatuses
      /\ ws'[p].dead = ws[p].dead /\ ws'[p].exit_status = ws[p].exit_status
      /\ ws'[p].allocated = ws[p].allocated
      /\ ws'[p].reference_count = ws[p].reference_count
  BY <1>2, <1>4, <1>5 DEF WaitStatuses
<1>7. Types'
  BY <1>1, <1>2, <1>3, <1>6 DEF Types
<1>8. Tree' /\ Lists' /\ Counts' /\ Waits'
  <2>1. \A d \in Proc : /\ ws'[d] # None <=> ws[d] # None
                        /\ ws'[d].allocated = ws[d].allocated
                        /\ ws'[d].reference_count = ws[d].reference_count
    BY <1>2, <1>5, <1>6, NotNone
  <2>2. ChildHolds(p)'
    BY <1>3 DEF ChildHolds
  <2> QED BY <1>1, <1>2, <1>3, <2>1, <2>2, QuietStep
<1>9. Signals'
  <2>1. ASSUME NEW d \in Proc, ws'[d] # None
        PROVE  /\ ws'[d].dead > 0 => Gone(d)'
               /\ ws'[d].done_loading > 0 => pc'[d] \notin {"load", "loaded", "load_failed"}
               /\ ws'[d].exit_status = final'[d]
    <3>1. CASE d = p
      BY <3>1, <1>1, <1>3, <1>4, <1>6 DEF Gone
    <3>2. CASE d # p
      <4>1. ws'[d] = ws[d] /\ pc'[d] = pc[d] /\ final'[d] = final[d]
        BY <3>2, <1>1, <1>3, <1>5
      <4> QED BY <4>1, <2>1, <1>1 DEF Signals, Gone
    <3> QED BY <3>1, <3>2
  <2> QED BY <2>1 DEF Signals
<1> QED BY <1>7, <1>8, <1>9

\* A process begins to wait for a child, or is told that it has no such child.
LEMMA WaitIInv ==
  ASSUME IInv, NEW p \in Proc, process_wait(p) PROVE IInv'
<1> USE DEF IInv, Sound
<1>1. /\ stopped = "no" /\ pc[p] = "user"
      /\ UNCHANGED <<todo, ws, children, parent, stopped, final, waited>>
  BY DEF process_wait, At
<1>2. CASE UNCHANGED <<pc, arg>>
  <2>1. UNCHANGED <<pc, arg, todo, ws, children, parent, stopped, final, waited>>
    BY <1>1, <1>2
  <2> QED BY <2>1, StutterIInv
<1>3. ASSUME NEW c \in Range(children[p]), c \in Proc,
             Goto(p, "wait"), arg' = [arg EXCEPT ![p] = c]
      PROVE  IInv'
  <2>1. pc'[p] = "wait" /\ pc' \in [Proc -> PCs] /\ \A q \in Proc \ {p} : pc'[q] = pc[q]
    BY <1>3, GotoFacts DEF PCs
  <2>2. arg' \in [Proc -> Proc] /\ arg'[p] = c /\ \A q \in Proc \ {p} : arg'[q] = arg[q]
    BY <1>3 DEF Types
  <2>3. Types'
    BY <1>1, <2>1, <2>2 DEF Types
  <2>4. ChildHolds(p) /\ ChildHolds(p)'
    BY <1>1, <2>1 DEF ChildHolds
  <2>5. Tree' /\ Lists' /\ Counts' /\ Waits'
    BY <1>1, <1>3, <2>1, <2>2, <2>4, QuietStep
  <2>6. \A d \in Proc : (Gone(d) => Gone(d)')
                         /\ (pc'[d] \in {"load", "loaded", "load_failed"} =>
                              pc[d] \in {"load", "loaded", "load_failed"})
    BY <1>1, <2>1 DEF Gone
  <2>7. Signals'
    BY <1>1, <2>6 DEF Signals
  <2> QED BY <2>3, <2>5, <2>7
<1> QED BY <1>2, <1>3 DEF process_wait

\* A process records its exit status and goes to exit.
LEMMA ExitIInv ==
  ASSUME IInv, NEW p \in Proc, thread_exit_with_status(p) PROVE IInv'
<1> USE DEF IInv, Sound
<1>1. /\ stopped = "no" /\ pc[p] = "user" /\ p # Root
      /\ stopped' = (IF Live(p) THEN "no" ELSE "ws") /\ Goto(p, "exit")
      /\ UNCHANGED <<arg, todo, children, parent, waited>>
  BY DEF thread_exit_with_status, At
<1>2. PICK s \in Status : /\ ws' = [ws EXCEPT ![p].exit_status = s]
                          /\ final' = [final EXCEPT ![p] = s]
  BY DEF thread_exit_with_status
<1>3. ChildHolds(p) /\ Live(p) /\ ws[p] \in WaitStatuses /\ stopped' = "no"
  BY <1>1 DEF Types, Counts, Live, ChildHolds
<1>4. pc'[p] = "exit" /\ pc' \in [Proc -> PCs] /\ \A q \in Proc \ {p} : pc'[q] = pc[q]
  BY <1>1, GotoFacts DEF PCs
<1>5. /\ ws'[p] = [ws[p] EXCEPT !.exit_status = s]
      /\ \A d \in Proc \ {p} : ws'[d] = ws[d]
      /\ final'[p] = s /\ final' \in [Proc -> Status \cup {0, 1}]
      /\ \A d \in Proc \ {p} : final'[d] = final[d]
  BY <1>2 DEF Types
<1>6. /\ ws'[p] \in WaitStatuses /\ ws'[p].exit_status = s
      /\ ws'[p].dead = ws[p].dead
      /\ ws'[p].allocated = ws[p].allocated
      /\ ws'[p].reference_count = ws[p].reference_count
  BY <1>3, <1>5 DEF WaitStatuses
<1>7. Types'
  BY <1>1, <1>2, <1>3, <1>4, <1>5, <1>6 DEF Types
<1>8. Tree' /\ Lists' /\ Counts' /\ Waits'
  <2>1. \A d \in Proc : /\ ws'[d] # None <=> ws[d] # None
                        /\ ws'[d].allocated = ws[d].allocated
                        /\ ws'[d].reference_count = ws[d].reference_count
    BY <1>3, <1>5, <1>6, NotNone
  <2>2. ChildHolds(p)'
    BY <1>4 DEF ChildHolds
  <2>3. \A d \in Proc : pc[d] = "unborn" => final'[d] = final[d]
    BY <1>1, <1>5
  <2>4. UNCHANGED <<todo, children, parent, waited>> /\ arg' = arg
    BY <1>1
  <2>5. /\ \A q \in Proc \ {p} : pc'[q] = pc[q] /\ arg'[q] = arg[q]
        /\ p = Root => pc'[p] \in {"user", "exec", "wait"}
        /\ pc'[p] \in {"exec", "wait"} => arg'[p] \in Range(children[p])
    BY <1>1, <1>4, <2>4
  <2>6. stopped = "no" /\ ChildHolds(p) /\ UNCHANGED <<todo, children, parent, waited>>
    BY <1>1, <1>3, <2>4
  <2> HIDE DEF IInv, Sound
  <2> QED BY <2>1, <2>2, <2>3, <2>5, <2>6, QuietStep
<1>9. Signals'
  <2>1. ASSUME NEW d \in Proc, ws'[d] # None
        PROVE  /\ ws'[d].dead > 0 => Gone(d)'
               /\ ws'[d].done_loading > 0 => pc'[d] \notin {"load", "loaded", "load_failed"}
               /\ ws'[d].exit_status = final'[d]
    <3>1. CASE d = p
      BY <3>1, <1>1, <1>3, <1>4, <1>5, <1>6 DEF Signals, Live, Gone
    <3>2. CASE d # p
      <4>1. ws'[d] = ws[d] /\ pc'[d] = pc[d] /\ final'[d] = final[d]
        BY <3>2, <1>4, <1>5
      <4> QED BY <4>1, <2>1, <1>1 DEF Signals, Gone
    <3> QED BY <3>1, <3>2
  <2> QED BY <2>1 DEF Signals
<1> QED BY <1>7, <1>8, <1>9
-----------------------------------------------------------------------------
\* What destroy_wait_status does to the wait_status and the lists.
Destroyed(c) ==
  /\ ws' \in [Proc -> WaitStatuses \cup {None}]
  /\ ws'[c] # None /\ ~ws'[c].allocated /\ ~Live(c)'
  /\ \A d \in Proc : /\ ws'[d] # None <=> ws[d] # None
                     /\ ws'[d].reference_count = ws[d].reference_count
                     /\ ws'[d].dead = ws[d].dead
                     /\ ws'[d].done_loading = ws[d].done_loading
                     /\ ws'[d].exit_status = ws[d].exit_status
  /\ \A d \in Proc \ {c} : ws'[d] = ws[d] /\ (Live(d)' <=> Live(d))
  /\ children' \in [Proc -> Seq(Proc)]
  /\ \A q \in Proc : /\ Distinct(children'[q])
                     /\ Range(children'[q]) = Range(children[q]) \ {c}
  /\ \A q \in Proc \ {parent[c]} : children'[q] = children[q]
  /\ \A q, d \in Proc : d \in Range(children'[q]) <=> Live(d)' /\ parent'[d] = q
  /\ stopped' \in {"no", "ws", "page"}

\* destroy_wait_status of an allocated wait_status.
LEMMA DestroyFacts ==
  ASSUME Types, Sound, NEW c \in Proc, Live(c), Destroy(c), UNCHANGED parent
  PROVE  Destroyed(c)
<1> USE DEF Sound
<1>0. PICK p : p = parent[c]
  OBVIOUS
<1>1. /\ p \in Proc /\ ws[c] \in WaitStatuses /\ ws[c].allocated
      /\ \A q \in Proc : c \in Range(children[q]) <=> q = p
  BY <1>0 DEF Types, Live, Lists
<1>2. /\ ws'[c] = [ws[c] EXCEPT !.allocated = FALSE]
      /\ \A d \in Proc \ {c} : ws'[d] = ws[d]
  BY DEF Destroy, Types
<1>3. /\ ws'[c] \in WaitStatuses /\ ~ws'[c].allocated
      /\ ws'[c].reference_count = ws[c].reference_count
      /\ ws'[c].dead = ws[c].dead /\ ws'[c].done_loading = ws[c].done_loading
      /\ ws'[c].exit_status = ws[c].exit_status
  <2>1. ws[c] \in WaitStatuses /\ ws'[c] = [ws[c] EXCEPT !.allocated = FALSE]
    BY <1>1, <1>2
  <2> HIDE DEF Types, Sound
  <2> QED BY <2>1 DEF WaitStatuses
<1>4. ws' \in [Proc -> WaitStatuses \cup {None}]
  BY <1>3 DEF Destroy, Types
<1>5. /\ ws'[c] # None /\ ~Live(c)'
      /\ \A d \in Proc \ {c} : Live(d)' <=> Live(d)
  BY <1>2, <1>3, NotNone DEF Live
<1>6. /\ children'[p] = list_remove(children[p], c)
      /\ \A q \in Proc \ {p} : children'[q] = children[q]
  BY <1>0, <1>1 DEF Destroy, Types
<1>7. /\ list_remove(children[p], c) \in Seq(Proc)
      /\ Range(list_remove(children[p], c)) = Range(children[p]) \ {c}
      /\ Distinct(list_remove(children[p], c))
  <2>1. children[p] \in Seq(Proc) /\ Distinct(children[p]) /\ c \in Range(children[p])
    BY <1>1 DEF Types, Lists
  <2> QED BY <2>1, RemoveFacts
<1>8. children' \in [Proc -> Seq(Proc)]
  BY <1>0, <1>7 DEF Destroy, Types
<1>9. \A q \in Proc : /\ Distinct(children'[q])
                      /\ Range(children'[q]) = Range(children[q]) \ {c}
  BY <1>1, <1>6, <1>7 DEF Lists
<1>10. \A q, d \in Proc : d \in Range(children'[q]) <=> Live(d)' /\ parent'[d] = q
  BY <1>5, <1>9 DEF Lists
<1>11. stopped' \in {"no", "ws", "page"}
  BY DEF Destroy
<1>12. \A d \in Proc : /\ ws'[d] # None <=> ws[d] # None
                       /\ ws'[d].reference_count = ws[d].reference_count
                       /\ ws'[d].dead = ws[d].dead
                       /\ ws'[d].done_loading = ws[d].done_loading
                       /\ ws'[d].exit_status = ws[d].exit_status
  BY <1>1, <1>2, <1>3, NotNone
<1> QED BY <1>0, <1>2, <1>3, <1>4, <1>5, <1>6, <1>8, <1>9, <1>10, <1>11, <1>12 DEF Destroyed

\* The parent has waited for the child's death and frees the wait_status.
LEMMA WaitReturnIInv ==
  ASSUME IInv, NEW p \in Proc, process_wait_return(p) PROVE IInv'
<1> USE DEF IInv, Sound
<1>0. PICK c : c = arg[p]
  OBVIOUS
<1>1. /\ stopped = "no" /\ pc[p] = "wait" /\ ws[c].dead > 0
      /\ waited' = waited \cup {c} /\ Destroy(c)
      /\ Goto(p, "user") /\ arg' = [arg EXCEPT ![p] = p]
      /\ UNCHANGED <<todo, parent, final>>
  BY <1>0 DEF process_wait_return, At
<1>2. /\ pc'[p] = "user" /\ pc' \in [Proc -> PCs] /\ \A q \in Proc \ {p} : pc'[q] = pc[q]
      /\ arg' \in [Proc -> Proc] /\ \A q \in Proc \ {p} : arg'[q] = arg[q]
  BY <1>1, GotoFacts DEF Types, PCs
<1>3. /\ c \in Proc /\ Live(c) /\ parent[c] = p /\ c # p /\ Gone(c) /\ pc'[c] = pc[c]
  BY <1>0, <1>1, <1>2 DEF Types, Lists, Live, Signals, Tree
<1>4. Destroyed(c)
  BY <1>1, <1>3, DestroyFacts
<1>typed. /\ ws' \in [Proc -> WaitStatuses \cup {None}] /\ children' \in [Proc -> Seq(Proc)]
          /\ stopped' \in {"no", "ws", "page"}
  BY <1>4 DEF Destroyed
<1>live. ~Live(c)' /\ \A d \in Proc \ {c} : Live(d)' <=> Live(d)
  BY <1>4 DEF Destroyed
<1>kept. \A d \in Proc : /\ ws'[d] # None <=> ws[d] # None
                         /\ ws'[d].reference_count = ws[d].reference_count
                         /\ ws'[d].dead = ws[d].dead
                         /\ ws'[d].done_loading = ws[d].done_loading
                         /\ ws'[d].exit_status = ws[d].exit_status
  BY <1>4 DEF Destroyed
<1>freed. ~ws'[c].allocated /\ \A d \in Proc \ {c} : ws'[d].allocated = ws[d].allocated
  BY <1>4 DEF Destroyed
<1>cut. \A q \in Proc : /\ Distinct(children'[q])
                        /\ Range(children'[q]) = Range(children[q]) \ {c}
  BY <1>4 DEF Destroyed
<1>rest. \A q \in Proc \ {parent[c]} : children'[q] = children[q]
  BY <1>4 DEF Destroyed
<1>member. \A q, d \in Proc : d \in Range(children'[q]) <=> Live(d)' /\ parent'[d] = q
  BY <1>4 DEF Destroyed
<1>5. Types'
  BY <1>1, <1>2, <1>3, <1>typed DEF Types
<1>6. \A d \in Proc : /\ ChildHolds(d)' <=> ChildHolds(d)
                      /\ ParentHolds(d)' <=> ParentHolds(d)
                      /\ pc'[d] = "unborn" <=> pc[d] = "unborn"
                      /\ Holders(d)' = Holders(d)
  <2>1. \A d \in Proc : (ChildHolds(d)' <=> ChildHolds(d)) /\ (pc'[d] = "unborn" <=> pc[d] = "unborn")
    BY <1>1, <1>2 DEF ChildHolds
  <2>2. \A d \in Proc : ParentHolds(d)' <=> ParentHolds(d)
    BY <1>1, <1>2 DEF ParentHolds, Types
  <2> QED BY <2>1, <2>2 DEF Holders
<1>7. Tree'
  <2>1. pc'[Root] \in {"user", "exec", "wait"}
    BY RootProc, <1>1, <1>2 DEF Tree
  <2> QED BY <2>1, <1>1, <1>kept, <1>6, TreeStep
<1>8. Lists'
  <2>1. \A q \in Proc : Distinct(todo'[q])
    BY <1>1 DEF Lists
  <2>2. \A q \in Proc : pc'[q] \notin Loop => todo'[q] = <<>>
    BY <1>1, <1>2 DEF Lists, Loop
  <2>3. Range(todo[p]) = {}
    BY <1>1, EmptyFacts DEF Lists, Loop
  <2>4. \A q \in Proc : Range(todo'[q]) \subseteq Range(children'[q])
    BY <2>3, <1>1, <1>3, <1>cut, <1>rest DEF Lists
  <2>5. \A q \in Proc : pc'[q] \in {"exec", "wait"} => arg'[q] \in Range(children'[q])
    BY <1>1, <1>2, <1>3, <1>cut, <1>rest DEF Lists
  <2> QED BY <2>1, <2>2, <2>4, <2>5, <1>cut, <1>member DEF Lists
<1>9. Counts'
  <2>1. ~ChildHolds(c) /\ pc[c] # "destroy_own"
    BY <1>3 DEF Gone, ChildHolds
  <2>7. \A d \in Proc : pc'[d] = "destroy_own" => pc[d] = "destroy_own" /\ d # c
    BY <2>1, <1>2
  <2>2. ASSUME NEW q \in Proc, pc'[q] = "destroy_child"
        PROVE  /\ arg'[q] \in Range(children'[q])
               /\ ws'[arg'[q]].reference_count = 0 /\ pc'[arg'[q]] # "destroy_own"
    <3>1. q # p /\ pc[q] = "destroy_child" /\ arg'[q] = arg[q] /\ arg[q] \in Proc
      BY <2>2, <1>1, <1>2 DEF Types
    <3>2. arg[q] \in Range(children'[q]) /\ pc[arg[q]] # "destroy_own"
      BY <3>1, <1>1, <1>3, <1>cut, <1>rest DEF Counts
    <3>3. ws[arg[q]].reference_count = 0
      BY <3>1, <1>1 DEF Counts
    <3> QED BY <3>1, <3>2, <3>3, <2>7, <1>kept
  <2>3. ASSUME NEW d \in Proc, Live(d)', ws'[d].reference_count = 0
        PROVE  \/ pc'[d] = "destroy_own"
               \/ pc'[parent'[d]] = "destroy_child" /\ arg'[parent'[d]] = d
    <3>1. Live(d) /\ ws[d].reference_count = 0 /\ parent[d] \in Proc
      BY <2>3, <1>live, <1>kept DEF Types
    <3>2. pc[d] = "destroy_own" \/ (pc[parent[d]] = "destroy_child" /\ arg[parent[d]] = d)
      BY <3>1, <1>1 DEF Counts
    <3> QED BY <3>1, <3>2, <1>1, <1>2
  <2>4. \A d \in Proc : Live(d)' => ws'[d].reference_count = Holders(d)'
    BY <1>1, <1>live, <1>kept, <1>6 DEF Counts
  <2>5. \A d \in Proc : d # Root /\ ChildHolds(d)' => Live(d)'
    BY <2>1, <1>1, <1>live, <1>6 DEF Counts
  <2>6. ASSUME NEW d \in Proc, pc'[d] = "destroy_own"
        PROVE  Live(d)' /\ ws'[d].reference_count = 0
    <3>1. pc[d] = "destroy_own" /\ d # c
      BY <2>6, <2>7
    <3>2. Live(d) /\ ws[d].reference_count = 0
      BY <3>1, <1>1 DEF Counts
    <3> QED BY <3>1, <3>2, <1>live, <1>kept
  <2> QED BY <2>2, <2>3, <2>4, <2>5, <2>6 DEF Counts
<1>10. Signals'
  <2>1. \A d \in Proc : (Gone(d) => Gone(d)')
                        /\ (pc'[d] \in {"load", "loaded", "load_failed"} =>
                             pc[d] \in {"load", "loaded", "load_failed"})
    BY <1>1, <1>2 DEF Gone
  <2> QED BY <2>1, <1>1, <1>kept DEF Signals
<1>11. Waits'
  <2>1. \A d \in waited : d # c
    BY <1>1, <1>3 DEF Waits, Live
  <2>2. \A d \in Proc : pc[parent[d]] \in Loop \cup {"dying", "freed"} =>
                         pc'[parent[d]] \in Loop \cup {"dying", "freed"}
    BY <1>1, <1>2 DEF Types, Loop
  <2>3. ASSUME NEW d \in waited' PROVE ws'[d] # None /\ ~ws'[d].allocated
    <3>1. CASE d = c
      BY <3>1, <1>3, <1>kept, <1>freed DEF Live
    <3>2. CASE d # c
      <4>1. d \in Proc /\ ws[d] # None /\ ~ws[d].allocated
        BY <3>2, <2>3, <1>1 DEF Waits, Types
      <4> QED BY <4>1, <3>2, <1>kept, <1>freed
    <3> QED BY <3>1, <3>2
  <2>4. \A d \in Proc : ws'[d] # None /\ ~ws'[d].allocated =>
          d \in waited' \/ pc'[parent[d]] \in Loop \cup {"dying", "freed"}
    BY <2>2, <1>1, <1>kept, <1>freed DEF Waits
  <2> QED BY <2>3, <2>4, <1>1 DEF Waits
<1> QED BY <1>5, <1>7, <1>8, <1>9, <1>10, <1>11

\* The child's decrement was the last: it frees its own wait_status.
LEMMA DestroyOwnIInv ==
  ASSUME IInv, NEW p \in Proc, destroy_own(p) PROVE IInv'
<1> USE DEF IInv, Sound
<1>1. /\ stopped = "no" /\ pc[p] = "destroy_own" /\ Destroy(p)
      /\ todo' = [todo EXCEPT ![p] = children[p]] /\ Goto(p, "loop")
      /\ UNCHANGED <<arg, parent, final, waited>>
  BY DEF destroy_own, At
<1>2. /\ pc'[p] = "loop" /\ pc' \in [Proc -> PCs] /\ \A q \in Proc \ {p} : pc'[q] = pc[q]
      /\ todo' \in [Proc -> Seq(Proc)] /\ todo'[p] = children[p]
      /\ \A q \in Proc \ {p} : todo'[q] = todo[q]
  BY <1>1, GotoFacts DEF Types, PCs
<1>3. /\ Live(p) /\ ws[p].reference_count = 0 /\ ~ChildHolds(p) /\ ~ParentHolds(p)
      /\ parent[p] \in Proc \ {p} /\ p # Root
  <2>1. Live(p) /\ ws[p].reference_count = 0 /\ Holders(p) = 0
    BY <1>1 DEF Counts
  <2>2. ~ChildHolds(p) /\ ~ParentHolds(p)
    BY <2>1 DEF Holders
  <2> QED BY <1>1, <2>1, <2>2 DEF Tree, Live, Types
<1>4. Destroyed(p)
  BY <1>1, <1>3, DestroyFacts
<1>typed. /\ ws' \in [Proc -> WaitStatuses \cup {None}] /\ children' \in [Proc -> Seq(Proc)]
          /\ stopped' \in {"no", "ws", "page"}
  BY <1>4 DEF Destroyed
<1>live. ~Live(p)' /\ \A d \in Proc \ {p} : Live(d)' <=> Live(d)
  BY <1>4 DEF Destroyed
<1>kept. \A d \in Proc : /\ ws'[d] # None <=> ws[d] # None
                         /\ ws'[d].reference_count = ws[d].reference_count
                         /\ ws'[d].dead = ws[d].dead
                         /\ ws'[d].done_loading = ws[d].done_loading
                         /\ ws'[d].exit_status = ws[d].exit_status
  BY <1>4 DEF Destroyed
<1>freed. ~ws'[p].allocated /\ \A d \in Proc \ {p} : ws'[d].allocated = ws[d].allocated
  BY <1>4 DEF Destroyed
<1>cut. \A q \in Proc : /\ Distinct(children'[q])
                        /\ Range(children'[q]) = Range(children[q]) \ {p}
  BY <1>4 DEF Destroyed
<1>rest. \A q \in Proc \ {parent[p]} : children'[q] = children[q]
  BY <1>4 DEF Destroyed
<1>member. \A q, d \in Proc : d \in Range(children'[q]) <=> Live(d)' /\ parent'[d] = q
  BY <1>4 DEF Destroyed
<1>5. Types'
  BY <1>1, <1>2, <1>typed DEF Types
<1>6. \A d \in Proc : /\ ChildHolds(d)' <=> ChildHolds(d)
                      /\ pc'[d] = "unborn" <=> pc[d] = "unborn"
                      /\ pc'[d] = "destroy_own" => pc[d] = "destroy_own" /\ d # p
  BY <1>1, <1>2 DEF ChildHolds
<1>7. \A d \in Proc \ {p} : Live(d) => Holders(d)' = Holders(d)
  <2>1. \A d \in Proc \ {p} : Live(d) => (ParentHolds(d)' <=> ParentHolds(d))
    <3>1. \A d \in Proc \ {p} : parent[d] # p => (ParentHolds(d)' <=> ParentHolds(d))
      BY <1>1, <1>2 DEF ParentHolds, Types
    <3>2. \A d \in Proc \ {p} : Live(d) /\ parent[d] = p => ParentHolds(d)' /\ ParentHolds(d)
      BY <1>1, <1>2 DEF ParentHolds, Lists
    <3> QED BY <3>1, <3>2
  <2> QED BY <2>1, <1>6 DEF Holders
<1>8. Tree'
  <2>1. pc'[Root] \in {"user", "exec", "wait"}
    BY RootProc, <1>1, <1>2, <1>3 DEF Tree
  <2> QED BY <2>1, <1>1, <1>kept, <1>6, TreeStep
<1>9. Lists'
  <2>1. \A q \in Proc : Distinct(todo'[q])
    BY <1>1, <1>2 DEF Lists
  <2>2. \A q \in Proc : pc'[q] \notin Loop => todo'[q] = <<>>
    BY <1>1, <1>2 DEF Lists, Loop
  <2>3. ASSUME NEW q \in Proc PROVE Range(todo'[q]) \subseteq Range(children'[q])
    <3>1. CASE q = p
      BY <3>1, <1>2, <1>3, <1>cut, <1>rest
    <3>2. CASE q = parent[p]
      <4>1. p \notin Range(todo[q])
        <5>1. CASE pc[q] \in Loop
          BY <5>1, <3>2, <1>3 DEF ParentHolds, Loop
        <5>2. CASE pc[q] \notin Loop
          BY <5>2, <1>1, EmptyFacts DEF Lists
        <5> QED BY <5>1, <5>2
      <4>2. todo'[q] = todo[q] /\ Range(todo[q]) \subseteq Range(children[q])
        BY <3>2, <1>1, <1>2, <1>3 DEF Lists
      <4> QED BY <4>1, <4>2, <1>cut
    <3>3. CASE q # p /\ q # parent[p]
      BY <3>3, <1>1, <1>2, <1>cut, <1>rest DEF Lists
    <3> QED BY <3>1, <3>2, <3>3
  <2>4. ASSUME NEW q \in Proc, pc'[q] \in {"exec", "wait"} PROVE arg'[q] \in Range(children'[q])
    <3>1. pc[q] = pc'[q] /\ arg[q] \in Range(children[q]) /\ arg'[q] = arg[q]
      BY <2>4, <1>1, <1>2 DEF Lists
    <3>2. q # parent[p]
      BY <3>1, <2>4, <1>3 DEF ParentHolds
    <3> QED BY <3>1, <3>2, <1>cut, <1>rest
  <2> QED BY <2>1, <2>2, <2>3, <2>4, <1>cut, <1>member DEF Lists
<1>10. Counts'
  <2>1. ASSUME NEW q \in Proc, pc'[q] = "destroy_child"
        PROVE  /\ arg'[q] \in Range(children'[q])
               /\ ws'[arg'[q]].reference_count = 0 /\ pc'[arg'[q]] # "destroy_own"
    <3>1. q # p /\ pc[q] = "destroy_child" /\ arg'[q] = arg[q] /\ arg[q] \in Proc
      BY <2>1, <1>1, <1>2 DEF Types
    <3>2. /\ arg[q] \in Range(children[q]) /\ pc[arg[q]] # "destroy_own"
          /\ ws[arg[q]].reference_count = 0
      BY <3>1, <1>1 DEF Counts
    <3> QED BY <3>1, <3>2, <1>1, <1>kept, <1>cut, <1>rest, <1>6
  <2>2. ASSUME NEW d \in Proc, Live(d)', ws'[d].reference_count = 0
        PROVE  \/ pc'[d] = "destroy_own"
               \/ pc'[parent'[d]] = "destroy_child" /\ arg'[parent'[d]] = d
    <3>1. d # p /\ Live(d) /\ ws[d].reference_count = 0 /\ parent[d] \in Proc
      BY <2>2, <1>live, <1>kept DEF Types
    <3>2. pc[d] = "destroy_own" \/ (pc[parent[d]] = "destroy_child" /\ arg[parent[d]] = d)
      BY <3>1, <1>1 DEF Counts
    <3> QED BY <3>1, <3>2, <1>1, <1>2
  <2>3. \A d \in Proc : Live(d)' => ws'[d].reference_count = Holders(d)'
    BY <1>1, <1>live, <1>kept, <1>7 DEF Counts
  <2>4. \A d \in Proc : d # Root /\ ChildHolds(d)' => Live(d)'
    BY <1>1, <1>3, <1>live, <1>6 DEF Counts
  <2>5. ASSUME NEW d \in Proc, pc'[d] = "destroy_own"
        PROVE  Live(d)' /\ ws'[d].reference_count = 0
    <3>1. pc[d] = "destroy_own" /\ d # p
      BY <2>5, <1>6
    <3>2. Live(d) /\ ws[d].reference_count = 0
      BY <3>1, <1>1 DEF Counts
    <3> QED BY <3>1, <3>2, <1>live, <1>kept
  <2> QED BY <2>1, <2>2, <2>3, <2>4, <2>5 DEF Counts
<1>11. Signals'
  <2>1. \A d \in Proc : /\ Gone(d) => Gone(d)'
                        /\ pc'[d] \in {"load", "loaded", "load_failed"} =>
                             pc[d] \in {"load", "loaded", "load_failed"}
    BY <1>1, <1>2 DEF Gone
  <2> QED BY <2>1, <1>1, <1>kept DEF Signals
<1>12. Waits'
  <2>1. \A d \in waited : d # p
    BY <1>1, <1>3 DEF Waits, Live
  <2>2. pc'[parent[p]] \in Loop \cup {"dying", "freed"}
    BY <1>2, <1>3 DEF ParentHolds, Loop
  <2>3. \A d \in Proc : pc[parent[d]] \in Loop \cup {"dying", "freed"} =>
                         pc'[parent[d]] \in Loop \cup {"dying", "freed"}
    BY <1>1, <1>2 DEF Types, Loop
  <2> QED BY <2>1, <2>2, <2>3, <1>1, <1>kept, <1>freed DEF Waits, Types
<1> QED BY <1>5, <1>8, <1>9, <1>10, <1>11, <1>12
-----------------------------------------------------------------------------
\* The parent's decrement was the last: it frees the child's wait_status.
LEMMA DestroyChildIInv ==
  ASSUME IInv, NEW p \in Proc, destroy_child(p) PROVE IInv'
<1> USE DEF IInv, Sound
<1>0. PICK c : c = arg[p]
  OBVIOUS
<1>1. /\ stopped = "no" /\ pc[p] = "destroy_child" /\ Destroy(c) /\ Goto(p, "loop")
      /\ UNCHANGED <<arg, todo, parent, final, waited>>
  BY <1>0 DEF destroy_child, At
<1>2. pc'[p] = "loop" /\ pc' \in [Proc -> PCs] /\ \A q \in Proc \ {p} : pc'[q] = pc[q]
  BY <1>1, GotoFacts DEF PCs
<1>3. /\ c \in Proc /\ Live(c) /\ parent[c] = p /\ c # p
      /\ ~ChildHolds(c) /\ c \notin Range(todo[p]) /\ pc[c] # "destroy_own"
  <2>1. /\ c \in Proc /\ c \in Range(children[p]) /\ ws[c].reference_count = 0
        /\ pc[c] # "destroy_own"
    BY <1>0, <1>1 DEF Counts, Types
  <2>2. Live(c) /\ parent[c] = p /\ c # p
    BY <1>1, <2>1 DEF Lists, Live, Tree
  <2>3. Holders(c) = 0
    BY <1>1, <2>1, <2>2 DEF Counts
  <2>4. ~ChildHolds(c) /\ ~ParentHolds(c)
    BY <2>3 DEF Holders
  <2>5. c \notin Range(todo[p])
    BY <2>2, <2>4, <1>1 DEF ParentHolds
  <2> QED BY <2>1, <2>2, <2>4, <2>5
<1>4. Destroyed(c)
  BY <1>1, <1>3, DestroyFacts
<1>typed. /\ ws' \in [Proc -> WaitStatuses \cup {None}] /\ children' \in [Proc -> Seq(Proc)]
          /\ stopped' \in {"no", "ws", "page"}
  BY <1>4 DEF Destroyed
<1>live. ~Live(c)' /\ \A d \in Proc \ {c} : Live(d)' <=> Live(d)
  BY <1>4 DEF Destroyed
<1>kept. \A d \in Proc : /\ ws'[d] # None <=> ws[d] # None
                         /\ ws'[d].reference_count = ws[d].reference_count
                         /\ ws'[d].dead = ws[d].dead
                         /\ ws'[d].done_loading = ws[d].done_loading
                         /\ ws'[d].exit_status = ws[d].exit_status
  BY <1>4 DEF Destroyed
<1>freed. ~ws'[c].allocated /\ \A d \in Proc \ {c} : ws'[d].allocated = ws[d].allocated
  BY <1>4 DEF Destroyed
<1>cut. \A q \in Proc : /\ Distinct(children'[q])
                        /\ Range(children'[q]) = Range(children[q]) \ {c}
  BY <1>4 DEF Destroyed
<1>rest. \A q \in Proc \ {parent[c]} : children'[q] = children[q]
  BY <1>4 DEF Destroyed
<1>member. \A q, d \in Proc : d \in Range(children'[q]) <=> Live(d)' /\ parent'[d] = q
  BY <1>4 DEF Destroyed
<1>5. Types'
  BY <1>1, <1>2, <1>typed DEF Types
<1>6. \A d \in Proc : /\ ChildHolds(d)' <=> ChildHolds(d)
                      /\ pc'[d] = "unborn" <=> pc[d] = "unborn"
                      /\ pc'[d] = "destroy_own" => pc[d] = "destroy_own" /\ d # c
  BY <1>1, <1>2, <1>3 DEF ChildHolds
<1>7. \A d \in Proc : Holders(d)' = Holders(d)
  <2>1. \A d \in Proc : ParentHolds(d)' <=> ParentHolds(d)
    BY <1>1, <1>2 DEF ParentHolds, Types
  <2> QED BY <2>1, <1>6 DEF Holders
<1>8. Tree'
  <2>1. pc'[Root] \in {"user", "exec", "wait"}
    BY RootProc, <1>1, <1>2 DEF Tree
  <2> QED BY <2>1, <1>1, <1>kept, <1>6, TreeStep
<1>9. Lists'
  <2>1. \A q \in Proc : Distinct(todo'[q])
    BY <1>1 DEF Lists
  <2>2. \A q \in Proc : pc'[q] \notin Loop => todo'[q] = <<>>
    BY <1>1, <1>2 DEF Lists, Loop
  <2>3. ASSUME NEW q \in Proc PROVE Range(todo'[q]) \subseteq Range(children'[q])
    <3>1. todo'[q] = todo[q] /\ Range(todo[q]) \subseteq Range(children[q])
      BY <1>1 DEF Lists
    <3>2. CASE q = p
      BY <3>1, <3>2, <1>3, <1>cut, <1>rest
    <3>3. CASE q # p
      BY <3>1, <3>3, <1>3, <1>cut, <1>rest
    <3> QED BY <3>2, <3>3
  <2>4. \A q \in Proc : pc'[q] \in {"exec", "wait"} => arg'[q] \in Range(children'[q])
    BY <1>1, <1>2, <1>3, <1>cut, <1>rest DEF Lists
  <2> QED BY <2>1, <2>2, <2>3, <2>4, <1>cut, <1>member DEF Lists
<1>10. Counts'
  <2>1. ASSUME NEW q \in Proc, pc'[q] = "destroy_child"
        PROVE  /\ arg'[q] \in Range(children'[q])
               /\ ws'[arg'[q]].reference_count = 0 /\ pc'[arg'[q]] # "destroy_own"
    <3>1. q # p /\ pc[q] = "destroy_child" /\ arg'[q] = arg[q] /\ arg[q] \in Proc
      BY <2>1, <1>1, <1>2 DEF Types
    <3>2. /\ arg[q] \in Range(children[q]) /\ pc[arg[q]] # "destroy_own"
          /\ ws[arg[q]].reference_count = 0
      BY <3>1, <1>1 DEF Counts
    <3> QED BY <3>1, <3>2, <1>3, <1>kept, <1>cut, <1>rest, <1>6
  <2>2. ASSUME NEW d \in Proc, Live(d)', ws'[d].reference_count = 0
        PROVE  \/ pc'[d] = "destroy_own"
               \/ pc'[parent'[d]] = "destroy_child" /\ arg'[parent'[d]] = d
    <3>1. d # c /\ Live(d) /\ ws[d].reference_count = 0 /\ parent[d] \in Proc
      BY <2>2, <1>live, <1>kept DEF Types
    <3>2. pc[d] = "destroy_own" \/ (pc[parent[d]] = "destroy_child" /\ arg[parent[d]] = d)
      BY <3>1, <1>1 DEF Counts
    <3>3. parent[d] = p => arg[parent[d]] # d
      BY <3>1, <1>0
    <3> QED BY <3>1, <3>2, <3>3, <1>1, <1>2
  <2>3. \A d \in Proc : Live(d)' => ws'[d].reference_count = Holders(d)'
    BY <1>1, <1>live, <1>kept, <1>7 DEF Counts
  <2>4. \A d \in Proc : d # Root /\ ChildHolds(d)' => Live(d)'
    BY <1>1, <1>3, <1>live, <1>6 DEF Counts
  <2>5. ASSUME NEW d \in Proc, pc'[d] = "destroy_own"
        PROVE  Live(d)' /\ ws'[d].reference_count = 0
    <3>1. pc[d] = "destroy_own" /\ d # c
      BY <2>5, <1>6
    <3>2. Live(d) /\ ws[d].reference_count = 0
      BY <3>1, <1>1 DEF Counts
    <3> QED BY <3>1, <3>2, <1>live, <1>kept
  <2> QED BY <2>1, <2>2, <2>3, <2>4, <2>5 DEF Counts
<1>11. Signals'
  <2>1. \A d \in Proc : /\ Gone(d) => Gone(d)'
                        /\ pc'[d] \in {"load", "loaded", "load_failed"} =>
                             pc[d] \in {"load", "loaded", "load_failed"}
    BY <1>1, <1>2 DEF Gone
  <2> QED BY <2>1, <1>1, <1>kept DEF Signals
<1>12. Waits'
  <2>1. \A d \in waited : d # c
    BY <1>1, <1>3 DEF Waits, Live
  <2>2. \A d \in Proc : pc[parent[d]] \in Loop \cup {"dying", "freed"} =>
                         pc'[parent[d]] \in Loop \cup {"dying", "freed"}
    BY <1>1, <1>2 DEF Types, Loop
  <2>3. pc'[parent[c]] \in Loop
    BY <1>2, <1>3 DEF Loop
  <2> QED BY <2>1, <2>2, <2>3, <1>1, <1>kept, <1>freed DEF Waits, Types
<1> QED BY <1>5, <1>8, <1>9, <1>10, <1>11, <1>12
-----------------------------------------------------------------------------
\* What a decrement of c's reference count, and nothing else, does to ws.
LEMMA DecrementFacts ==
  ASSUME Types, NEW c \in Proc, ws[c] \in WaitStatuses, ws[c].reference_count > 0,
         ws' = [ws EXCEPT ![c].reference_count = @ - 1]
  PROVE  /\ ws' \in [Proc -> WaitStatuses \cup {None}]
         /\ ws'[c].reference_count = ws[c].reference_count - 1
         /\ \A d \in Proc : /\ ws'[d] # None <=> ws[d] # None
                            /\ Live(d)' <=> Live(d)
                            /\ ws'[d].allocated = ws[d].allocated
                            /\ ws'[d].dead = ws[d].dead
                            /\ ws'[d].done_loading = ws[d].done_loading
                            /\ ws'[d].exit_status = ws[d].exit_status
         /\ \A d \in Proc \ {c} : ws'[d] = ws[d]
<1>1. /\ ws'[c] = [ws[c] EXCEPT !.reference_count = @ - 1]
      /\ \A d \in Proc \ {c} : ws'[d] = ws[d]
  BY DEF Types
<1>2. /\ ws'[c] \in WaitStatuses /\ ws'[c].reference_count = ws[c].reference_count - 1
      /\ ws'[c].allocated = ws[c].allocated
      /\ ws'[c].dead = ws[c].dead /\ ws'[c].done_loading = ws[c].done_loading
      /\ ws'[c].exit_status = ws[c].exit_status
  BY <1>1 DEF WaitStatuses
<1>3. ws' \in [Proc -> WaitStatuses \cup {None}]
  BY <1>2 DEF Types
<1>4. \A d \in Proc : /\ ws'[d] # None <=> ws[d] # None
                      /\ ws'[d].allocated = ws[d].allocated
                      /\ ws'[d].dead = ws[d].dead
                      /\ ws'[d].done_loading = ws[d].done_loading
                      /\ ws'[d].exit_status = ws[d].exit_status
  BY <1>1, <1>2, NotNone
<1>5. \A d \in Proc : Live(d)' <=> Live(d)
  BY <1>4 DEF Live
<1> QED BY <1>1, <1>2, <1>3, <1>4, <1>5

\* process_exit gives up the process's own reference.
LEMMA DecrementOwnIInv ==
  ASSUME IInv, NEW p \in Proc, decrement_own(p) PROVE IInv'
<1> USE DEF IInv, Sound
<1>0. PICK l \in {"destroy_own", "up_dead"} :
        l = (IF ws[p].reference_count = 1 THEN "destroy_own" ELSE "up_dead")
  OBVIOUS
<1>1. /\ stopped = "no" /\ pc[p] = "exit"
      /\ ws' = [ws EXCEPT ![p].reference_count = @ - 1]
      /\ stopped' \in {"no", "ws"} /\ Goto(p, l)
      /\ UNCHANGED <<arg, todo, children, parent, final, waited>>
  BY <1>0 DEF decrement_own, At
<1>2. pc'[p] = l /\ pc' \in [Proc -> PCs] /\ \A q \in Proc \ {p} : pc'[q] = pc[q]
  BY <1>1, GotoFacts DEF PCs
<1>3. /\ p # Root /\ ChildHolds(p) /\ Live(p) /\ ws[p] \in WaitStatuses
      /\ ws[p].reference_count = Holders(p) /\ parent[p] \in Proc \ {p}
  BY <1>1, RootProc DEF Types, Tree, Counts, Live, ChildHolds
<1>4. ws[p].reference_count = 1 + (IF ParentHolds(p) THEN 1 ELSE 0)
  BY <1>3 DEF Holders
<1>5. /\ ws' \in [Proc -> WaitStatuses \cup {None}]
      /\ ws'[p].reference_count = ws[p].reference_count - 1
      /\ \A d \in Proc : /\ ws'[d] # None <=> ws[d] # None
                         /\ Live(d)' <=> Live(d)
                         /\ ws'[d].allocated = ws[d].allocated
                         /\ ws'[d].dead = ws[d].dead
                         /\ ws'[d].done_loading = ws[d].done_loading
                         /\ ws'[d].exit_status = ws[d].exit_status
      /\ \A d \in Proc \ {p} : ws'[d] = ws[d]
  <2>1. ws[p].reference_count > 0
    BY <1>4
  <2> QED BY <1>1, <1>3, <2>1, DecrementFacts
<1>6. Types'
  BY <1>1, <1>2, <1>5 DEF Types
<1>7. \A d \in Proc : /\ ChildHolds(d)' <=> ChildHolds(d) /\ d # p
                      /\ pc'[d] = "unborn" <=> pc[d] = "unborn"
                      /\ pc'[d] = "destroy_child" <=> pc[d] = "destroy_child"
                      /\ d # p => (pc'[d] = "destroy_own" <=> pc[d] = "destroy_own")
  BY <1>1, <1>2 DEF ChildHolds
<1>8. \A d \in Proc : ParentHolds(d)' <=> ParentHolds(d)
  BY <1>1, <1>2 DEF ParentHolds, Types
<1>9. /\ Holders(p)' = ws'[p].reference_count
      /\ \A d \in Proc \ {p} : Holders(d)' = Holders(d)
      /\ ws'[p].reference_count = 0 <=> l = "destroy_own"
  <2>1. Holders(p)' = (IF ParentHolds(p) THEN 1 ELSE 0)
    BY <1>7, <1>8 DEF Holders
  <2>2. ws'[p].reference_count = (IF ParentHolds(p) THEN 1 ELSE 0)
    BY <1>4, <1>5
  <2>3. \A d \in Proc \ {p} : Holders(d)' = Holders(d)
    BY <1>7, <1>8 DEF Holders
  <2>4. ws'[p].reference_count = 0 <=> l = "destroy_own"
    BY <1>0, <1>4, <2>2
  <2> QED BY <2>1, <2>2, <2>3, <2>4
<1>10. Tree'
  <2>1. pc'[Root] \in {"user", "exec", "wait"}
    BY RootProc, <1>1, <1>2, <1>3 DEF Tree
  <2> QED BY <2>1, <1>1, <1>5, <1>7, TreeStep
<1>11. Lists'
  <2>1. \A q \in Proc : pc'[q] \notin Loop => todo'[q] = <<>>
    BY <1>1, <1>2 DEF Lists, Loop
  <2>2. \A q \in Proc : pc'[q] \in {"exec", "wait"} => arg'[q] \in Range(children'[q])
    BY <1>1, <1>2 DEF Lists
  <2> QED BY <2>1, <2>2, <1>1, <1>5 DEF Lists
<1>12. Counts'
  <2>1. ASSUME NEW q \in Proc, pc'[q] = "destroy_child"
        PROVE  /\ arg'[q] \in Range(children'[q])
               /\ ws'[arg'[q]].reference_count = 0 /\ pc'[arg'[q]] # "destroy_own"
    <3>1. pc[q] = "destroy_child" /\ arg'[q] = arg[q] /\ arg[q] \in Proc
      BY <2>1, <1>1, <1>7 DEF Types
    <3>2. /\ arg[q] \in Range(children[q]) /\ pc[arg[q]] # "destroy_own"
          /\ ws[arg[q]].reference_count = 0
      BY <3>1, <1>1 DEF Counts
    <3>3. arg[q] # p
      BY <3>2, <1>4
    <3> QED BY <3>1, <3>2, <3>3, <1>1, <1>5, <1>7
  <2>2. ASSUME NEW d \in Proc, Live(d)', ws'[d].reference_count = 0
        PROVE  \/ pc'[d] = "destroy_own"
               \/ pc'[parent'[d]] = "destroy_child" /\ arg'[parent'[d]] = d
    <3>1. CASE d = p
      BY <3>1, <2>2, <1>2, <1>9
    <3>2. CASE d # p
      <4>1. Live(d) /\ ws[d].reference_count = 0 /\ parent[d] \in Proc
        BY <3>2, <2>2, <1>5 DEF Types
      <4>2. pc[d] = "destroy_own" \/ (pc[parent[d]] = "destroy_child" /\ arg[parent[d]] = d)
        BY <4>1, <1>1 DEF Counts
      <4> QED BY <4>1, <4>2, <3>2, <1>1, <1>7
    <3> QED BY <3>1, <3>2
  <2>3. \A d \in Proc : Live(d)' => ws'[d].reference_count = Holders(d)'
    BY <1>1, <1>5, <1>9 DEF Counts
  <2>4. \A d \in Proc : d # Root /\ ChildHolds(d)' => Live(d)'
    BY <1>1, <1>5, <1>7 DEF Counts
  <2>5. ASSUME NEW d \in Proc, pc'[d] = "destroy_own"
        PROVE  Live(d)' /\ ws'[d].reference_count = 0
    <3>1. CASE d = p
      BY <3>1, <2>5, <1>2, <1>3, <1>5, <1>9
    <3>2. CASE d # p
      <4>1. Live(d) /\ ws[d].reference_count = 0
        BY <3>2, <2>5, <1>1, <1>7 DEF Counts
      <4> QED BY <4>1, <3>2, <1>5
    <3> QED BY <3>1, <3>2
  <2> QED BY <2>1, <2>2, <2>3, <2>4, <2>5 DEF Counts
<1>13. Signals'
  <2>1. \A d \in Proc : /\ Gone(d) => Gone(d)'
                        /\ pc'[d] \in {"load", "loaded", "load_failed"} =>
                             pc[d] \in {"load", "loaded", "load_failed"}
    BY <1>1, <1>2 DEF Gone
  <2> QED BY <2>1, <1>1, <1>5 DEF Signals
<1>14. Waits'
  <2>1. \A d \in Proc : pc[parent[d]] \in Loop \cup {"dying", "freed"} =>
                         pc'[parent[d]] \in Loop \cup {"dying", "freed"}
    BY <1>1, <1>2 DEF Types, Loop
  <2>2. \A d \in waited : ws'[d] # None /\ ~ws'[d].allocated
    BY <1>1, <1>5 DEF Waits, Types
  <2>3. \A d \in Proc : ws'[d] # None /\ ~ws'[d].allocated =>
          d \in waited \/ pc'[parent[d]] \in Loop \cup {"dying", "freed"}
    BY <2>1, <1>1, <1>5 DEF Waits
  <2> QED BY <2>2, <2>3, <1>1 DEF Waits
<1> QED BY <1>6, <1>10, <1>11, <1>12, <1>13, <1>14

\* The process ups dead on its own wait_status, which may be gone by now.
LEMMA UpDeadIInv ==
  ASSUME IInv, NEW p \in Proc, sema_up_dead(p) PROVE IInv'
<1> USE DEF IInv, Sound
<1>1. /\ stopped = "no" /\ pc[p] = "up_dead" /\ Goto(p, "loop")
      /\ ws' = [ws EXCEPT ![p].dead = @ + 1] /\ stopped' \in {"no", "ws"}
      /\ todo' = [todo EXCEPT ![p] = children[p]]
      /\ UNCHANGED <<arg, children, parent, final, waited>>
  BY DEF sema_up_dead, At
<1>2. /\ pc'[p] = "loop" /\ pc' \in [Proc -> PCs] /\ \A q \in Proc \ {p} : pc'[q] = pc[q]
      /\ todo' \in [Proc -> Seq(Proc)] /\ todo'[p] = children[p]
      /\ \A q \in Proc \ {p} : todo'[q] = todo[q]
  BY <1>1, GotoFacts DEF Types, PCs
<1>3. /\ p # Root /\ ws[p] # None /\ ws[p] \in WaitStatuses /\ ~ChildHolds(p)
      /\ ws[p].dead = 0 /\ ws[p].exit_status = final[p] /\ parent[p] \in Proc \ {p}
  <2>1. p # Root /\ ws[p] # None /\ ws[p] \in WaitStatuses /\ parent[p] \in Proc \ {p}
    BY <1>1, RootProc DEF Types, Tree
  <2>2. ~Gone(p) /\ ~ChildHolds(p)
    BY <1>1 DEF Gone, ChildHolds
  <2> QED BY <2>1, <2>2, <1>1 DEF Signals, WaitStatuses
<1>4. /\ ws'[p] = [ws[p] EXCEPT !.dead = @ + 1]
      /\ \A d \in Proc \ {p} : ws'[d] = ws[d]
  BY <1>1 DEF Types
<1>5. /\ ws'[p] \in WaitStatuses
      /\ ws'[p].reference_count = ws[p].reference_count
      /\ ws'[p].allocated = ws[p].allocated
      /\ ws'[p].done_loading = ws[p].done_loading
      /\ ws'[p].exit_status = ws[p].exit_status
  BY <1>3, <1>4 DEF WaitStatuses
<1>6. /\ ws' \in [Proc -> WaitStatuses \cup {None}]
      /\ \A d \in Proc : /\ ws'[d] # None <=> ws[d] # None
                         /\ Live(d)' <=> Live(d)
                         /\ ws'[d].allocated = ws[d].allocated
                         /\ ws'[d].reference_count = ws[d].reference_count
  <2>1. ws' \in [Proc -> WaitStatuses \cup {None}]
    BY <1>1, <1>5 DEF Types
  <2>2. \A d \in Proc : /\ ws'[d] # None <=> ws[d] # None
                        /\ ws'[d].allocated = ws[d].allocated
                        /\ ws'[d].reference_count = ws[d].reference_count
    BY <1>3, <1>4, <1>5, NotNone
  <2> QED BY <2>1, <2>2 DEF Live
<1>7. Types'
  BY <1>1, <1>2, <1>6 DEF Types
<1>8. \A d \in Proc : /\ ChildHolds(d)' <=> ChildHolds(d)
                      /\ pc'[d] = "unborn" <=> pc[d] = "unborn"
                      /\ pc'[d] = "destroy_own" <=> pc[d] = "destroy_own"
                      /\ pc'[d] = "destroy_child" <=> pc[d] = "destroy_child"
  BY <1>1, <1>2 DEF ChildHolds
<1>9. \A d \in Proc : Live(d) => Holders(d)' = Holders(d)
  <2>1. \A d \in Proc : parent[d] # p => (ParentHolds(d)' <=> ParentHolds(d))
    BY <1>1, <1>2 DEF ParentHolds, Types
  <2>2. \A d \in Proc : Live(d) /\ parent[d] = p => ParentHolds(d)' /\ ParentHolds(d)
    BY <1>1, <1>2 DEF ParentHolds, Lists
  <2> QED BY <2>1, <2>2, <1>8 DEF Holders
<1>10. Tree'
  <2>1. pc'[Root] \in {"user", "exec", "wait"}
    BY RootProc, <1>1, <1>2, <1>3 DEF Tree
  <2> QED BY <2>1, <1>1, <1>6, <1>8, TreeStep
<1>11. Lists'
  <2>1. \A q \in Proc : Distinct(todo'[q]) /\ Range(todo'[q]) \subseteq Range(children'[q])
    BY <1>1, <1>2 DEF Lists
  <2>2. \A q \in Proc : pc'[q] \notin Loop => todo'[q] = <<>>
    BY <1>1, <1>2 DEF Lists, Loop
  <2>3. \A q \in Proc : pc'[q] \in {"exec", "wait"} => arg'[q] \in Range(children'[q])
    BY <1>1, <1>2 DEF Lists
  <2> QED BY <2>1, <2>2, <2>3, <1>1, <1>6 DEF Lists
<1>12. Counts'
  BY <1>1, <1>6, <1>8, <1>9 DEF Counts, Types
<1>13. Signals'
  <2>1. ASSUME NEW d \in Proc, ws'[d] # None
        PROVE  /\ ws'[d].dead > 0 => Gone(d)'
               /\ ws'[d].done_loading > 0 => pc'[d] \notin {"load", "loaded", "load_failed"}
               /\ ws'[d].exit_status = final'[d]
    <3>1. CASE d = p
      BY <3>1, <1>1, <1>2, <1>3, <1>5 DEF Gone
    <3>2. CASE d # p
      <4>1. ws'[d] = ws[d] /\ pc'[d] = pc[d] /\ final'[d] = final[d]
        BY <3>2, <1>1, <1>2, <1>4
      <4> QED BY <4>1, <2>1, <1>1 DEF Signals, Gone
    <3> QED BY <3>1, <3>2
  <2> QED BY <2>1 DEF Signals
<1>14. Waits'
  <2>1. \A d \in Proc : pc[parent[d]] \in Loop \cup {"dying", "freed"} =>
                         pc'[parent[d]] \in Loop \cup {"dying", "freed"}
    BY <1>1, <1>2 DEF Types, Loop
  <2> QED BY <2>1, <1>1, <1>6 DEF Waits, Types
<1> QED BY <1>7, <1>10, <1>11, <1>12, <1>13, <1>14

\* The exit loop gives up the reference to the next child's wait_status.
LEMMA DecrementChildIInv ==
  ASSUME IInv, NEW p \in Proc, decrement_child(p) PROVE IInv'
<1> USE DEF IInv, Sound
<1>0. PICK c : c = Head(todo[p])
  OBVIOUS
<1>1. PICK l \in {"destroy_child", "loop"} :
        l = (IF ws[c].reference_count = 1 THEN "destroy_child" ELSE "loop")
  OBVIOUS
<1>2. /\ stopped = "no" /\ pc[p] = "loop" /\ todo[p] # <<>>
      /\ ws' = [ws EXCEPT ![c].reference_count = @ - 1]
      /\ stopped' \in {"no", "ws"} /\ Goto(p, l)
      /\ todo' = [todo EXCEPT ![p] = Tail(@)] /\ arg' = [arg EXCEPT ![p] = c]
      /\ UNCHANGED <<children, parent, final, waited>>
  BY <1>0, <1>1 DEF decrement_child, At
<1>3. /\ c \in Proc /\ c \in Range(todo[p]) /\ Tail(todo[p]) \in Seq(Proc)
      /\ Distinct(Tail(todo[p])) /\ c \notin Range(Tail(todo[p]))
      /\ Range(todo[p]) = Range(Tail(todo[p])) \cup {c}
  <2>1. todo[p] \in Seq(Proc) /\ Distinct(todo[p])
    BY <1>2 DEF Types, Lists
  <2> QED BY <1>0, <1>2, <2>1, PopFrontFacts
<1>4. /\ pc'[p] = l /\ pc' \in [Proc -> PCs] /\ \A q \in Proc \ {p} : pc'[q] = pc[q]
      /\ todo' \in [Proc -> Seq(Proc)] /\ todo'[p] = Tail(todo[p])
      /\ \A q \in Proc \ {p} : todo'[q] = todo[q]
      /\ arg' \in [Proc -> Proc] /\ arg'[p] = c /\ \A q \in Proc \ {p} : arg'[q] = arg[q]
  BY <1>2, <1>3, GotoFacts DEF Types, PCs
<1>5. /\ Live(c) /\ parent[c] = p /\ c # p /\ ws[c] \in WaitStatuses
      /\ c \in Range(children[p]) /\ ParentHolds(c)
      /\ ws[c].reference_count = 1 + (IF ChildHolds(c) THEN 1 ELSE 0)
  <2>1. c \in Range(children[p]) /\ Live(c) /\ parent[c] = p
    BY <1>2, <1>3 DEF Lists
  <2>2. c # p /\ ws[c] \in WaitStatuses
    BY <2>1, <1>2, <1>3 DEF Tree, Live, Types
  <2>3. ParentHolds(c)
    BY <2>1, <1>2, <1>3 DEF ParentHolds
  <2>4. ws[c].reference_count = Holders(c)
    BY <2>1, <1>2, <1>3 DEF Counts
  <2> QED BY <2>1, <2>2, <2>3, <2>4 DEF Holders
<1>6. /\ ws' \in [Proc -> WaitStatuses \cup {None}]
      /\ ws'[c].reference_count = ws[c].reference_count - 1
      /\ \A d \in Proc : /\ ws'[d] # None <=> ws[d] # None
                         /\ Live(d)' <=> Live(d)
                         /\ ws'[d].allocated = ws[d].allocated
                         /\ ws'[d].dead = ws[d].dead
                         /\ ws'[d].done_loading = ws[d].done_loading
                         /\ ws'[d].exit_status = ws[d].exit_status
      /\ \A d \in Proc \ {c} : ws'[d] = ws[d]
  <2>1. ws[c].reference_count > 0
    BY <1>5
  <2> QED BY <1>2, <1>3, <1>5, <2>1, DecrementFacts
<1>7. Types'
  BY <1>2, <1>4, <1>6 DEF Types
<1>8. \A d \in Proc : /\ ChildHolds(d)' <=> ChildHolds(d)
                      /\ pc'[d] = "unborn" <=> pc[d] = "unborn"
                      /\ pc'[d] = "destroy_own" <=> pc[d] = "destroy_own"
  BY <1>2, <1>4 DEF ChildHolds
<1>9. ~ParentHolds(c)' /\ \A d \in Proc \ {c} : ParentHolds(d)' <=> ParentHolds(d)
  <2>1. ~ParentHolds(c)'
    BY <1>2, <1>3, <1>4, <1>5 DEF ParentHolds
  <2>2. \A d \in Proc \ {c} : parent[d] = p => (ParentHolds(d)' <=> ParentHolds(d))
    BY <1>2, <1>3, <1>4 DEF ParentHolds
  <2>3. \A d \in Proc \ {c} : parent[d] # p => (ParentHolds(d)' <=> ParentHolds(d))
    BY <1>2, <1>4 DEF ParentHolds, Types
  <2> QED BY <2>1, <2>2, <2>3
<1>10. /\ Holders(c)' = ws'[c].reference_count
       /\ \A d \in Proc \ {c} : Holders(d)' = Holders(d)
       /\ ws'[c].reference_count = 0 <=> l = "destroy_child"
  <2>1. Holders(c)' = (IF ChildHolds(c) THEN 1 ELSE 0)
    BY <1>3, <1>8, <1>9 DEF Holders
  <2>2. ws'[c].reference_count = (IF ChildHolds(c) THEN 1 ELSE 0)
    BY <1>5, <1>6
  <2>3. \A d \in Proc \ {c} : Holders(d)' = Holders(d)
    BY <1>8, <1>9 DEF Holders
  <2>4. ws'[c].reference_count = 0 <=> l = "destroy_child"
    BY <1>1, <1>5, <2>2
  <2> QED BY <2>1, <2>2, <2>3, <2>4
<1>11. Tree'
  <2>1. pc'[Root] \in {"user", "exec", "wait"}
    BY RootProc, <1>2, <1>4 DEF Tree
  <2> QED BY <2>1, <1>2, <1>6, <1>8, TreeStep
<1>12. Lists'
  <2>1. \A q \in Proc : Distinct(todo'[q]) /\ Range(todo'[q]) \subseteq Range(children'[q])
    <3>1. Distinct(todo'[p]) /\ Range(todo'[p]) \subseteq Range(children'[p])
      BY <1>2, <1>3, <1>4 DEF Lists
    <3>2. \A q \in Proc \ {p} : Distinct(todo'[q]) /\ Range(todo'[q]) \subseteq Range(children'[q])
      BY <1>2, <1>4 DEF Lists
    <3> QED BY <3>1, <3>2
  <2>2. \A q \in Proc : pc'[q] \notin Loop => todo'[q] = <<>>
    BY <1>2, <1>4 DEF Lists, Loop
  <2>3. \A q \in Proc : pc'[q] \in {"exec", "wait"} => arg'[q] \in Range(children'[q])
    BY <1>2, <1>4 DEF Lists
  <2> QED BY <2>1, <2>2, <2>3, <1>2, <1>6 DEF Lists
<1>13. Counts'
  <2>1. pc[c] # "destroy_own"
    BY <1>2, <1>3, <1>5 DEF Counts
  <2>2. ASSUME NEW q \in Proc, pc'[q] = "destroy_child"
        PROVE  /\ arg'[q] \in Range(children'[q])
               /\ ws'[arg'[q]].reference_count = 0 /\ pc'[arg'[q]] # "destroy_own"
    <3>1. CASE q = p
      BY <3>1, <2>1, <2>2, <1>2, <1>3, <1>4, <1>5, <1>8, <1>10
    <3>2. CASE q # p
      <4>1. pc[q] = "destroy_child" /\ arg'[q] = arg[q] /\ arg[q] \in Proc
        BY <3>2, <2>2, <1>4 DEF Types
      <4>2. /\ arg[q] \in Range(children[q]) /\ pc[arg[q]] # "destroy_own"
            /\ ws[arg[q]].reference_count = 0
        BY <4>1, <1>2 DEF Counts
      <4>3. arg[q] # c
        BY <4>2, <1>5
      <4> QED BY <4>1, <4>2, <4>3, <1>2, <1>6, <1>8
    <3> QED BY <3>1, <3>2
  <2>3. ASSUME NEW d \in Proc, Live(d)', ws'[d].reference_count = 0
        PROVE  \/ pc'[d] = "destroy_own"
               \/ pc'[parent'[d]] = "destroy_child" /\ arg'[parent'[d]] = d
    <3>1. CASE d = c
      BY <3>1, <2>3, <1>2, <1>4, <1>5, <1>10
    <3>2. CASE d # c
      <4>1. Live(d) /\ ws[d].reference_count = 0 /\ parent[d] \in Proc
        BY <3>2, <2>3, <1>6 DEF Types
      <4>2. pc[d] = "destroy_own" \/ (pc[parent[d]] = "destroy_child" /\ arg[parent[d]] = d)
        BY <4>1, <1>2 DEF Counts
      <4> QED BY <4>1, <4>2, <1>2, <1>4, <1>8
    <3> QED BY <3>1, <3>2
  <2>4. \A d \in Proc : Live(d)' => ws'[d].reference_count = Holders(d)'
    BY <1>2, <1>6, <1>10 DEF Counts
  <2>5. \A d \in Proc : d # Root /\ ChildHolds(d)' => Live(d)'
    BY <1>2, <1>6, <1>8 DEF Counts
  <2>6. ASSUME NEW d \in Proc, pc'[d] = "destroy_own"
        PROVE  Live(d)' /\ ws'[d].reference_count = 0
    <3>1. pc[d] = "destroy_own" /\ d # c
      BY <2>1, <2>6, <1>8
    <3>2. Live(d) /\ ws[d].reference_count = 0
      BY <3>1, <1>2 DEF Counts
    <3> QED BY <3>1, <3>2, <1>6
  <2> QED BY <2>2, <2>3, <2>4, <2>5, <2>6 DEF Counts
<1>14. Signals'
  <2>1. \A d \in Proc : /\ Gone(d) => Gone(d)'
                        /\ pc'[d] \in {"load", "loaded", "load_failed"} =>
                             pc[d] \in {"load", "loaded", "load_failed"}
    BY <1>2, <1>4 DEF Gone
  <2> QED BY <2>1, <1>2, <1>6 DEF Signals
<1>15. Waits'
  <2>1. \A d \in Proc : pc[parent[d]] \in Loop \cup {"dying", "freed"} =>
                         pc'[parent[d]] \in Loop \cup {"dying", "freed"}
    BY <1>2, <1>4 DEF Types, Loop
  <2>2. \A d \in waited : ws'[d] # None /\ ~ws'[d].allocated
    BY <1>2, <1>6 DEF Waits, Types
  <2>3. \A d \in Proc : ws'[d] # None /\ ~ws'[d].allocated =>
          d \in waited \/ pc'[parent[d]] \in Loop \cup {"dying", "freed"}
    BY <2>1, <1>2, <1>6 DEF Waits
  <2> QED BY <2>2, <2>3, <1>2 DEF Waits
<1> QED BY <1>7, <1>11, <1>12, <1>13, <1>14, <1>15

\* The thread is done, and later its page is freed.
LEMMA ThreadExitIInv ==
  ASSUME IInv, NEW p \in Proc, thread_exit(p) PROVE IInv'
<1> USE DEF IInv, Sound
<1>1. PICK l \in {"dying", "freed"} :
        /\ Goto(p, l) /\ pc[p] \in {"loop", "dying"} /\ stopped = "no"
        /\ todo[p] = <<>>
        /\ UNCHANGED <<arg, todo, ws, children, parent, stopped, final, waited>>
  BY DEF thread_exit, At, Lists, Loop
<1>2. pc'[p] = l /\ pc' \in [Proc -> PCs] /\ \A q \in Proc \ {p} : pc'[q] = pc[q]
  BY <1>1, GotoFacts DEF PCs
<1>3. Types'
  BY <1>1, <1>2 DEF Types
<1>4. \A d \in Proc : /\ ChildHolds(d)' <=> ChildHolds(d)
                      /\ Live(d)' <=> Live(d)
                      /\ \A m \in {"unborn", "destroy_own", "destroy_child", "exec", "wait"} :
                           pc'[d] = m <=> pc[d] = m
  BY <1>1, <1>2 DEF ChildHolds, Live
<1>5. \A d \in Proc : Holders(d)' = Holders(d)
  <2>1. \A d \in Proc : ParentHolds(d)' <=> ParentHolds(d)
    <3>1. Range(todo[p]) = {}
      BY <1>1, EmptyFacts
    <3> QED BY <3>1, <1>1, <1>2 DEF ParentHolds, Types
  <2> QED BY <2>1, <1>4 DEF Holders
<1>6. Tree'
  <2>1. pc'[Root] \in {"user", "exec", "wait"}
    BY RootProc, <1>1, <1>2 DEF Tree
  <2>2. \A d \in Proc : pc'[d] = "unborn" <=> pc[d] = "unborn"
    BY <1>4
  <2> QED BY <2>1, <2>2, <1>1, TreeStep
<1>7. Lists'
  <2>1. \A q \in Proc : pc'[q] \notin Loop => todo'[q] = <<>>
    BY <1>1, <1>2 DEF Lists
  <2>2. \A q \in Proc : pc'[q] \in {"exec", "wait"} => arg'[q] \in Range(children'[q])
    BY <1>1, <1>4 DEF Lists
  <2> QED BY <2>1, <2>2, <1>1, <1>4 DEF Lists
<1>8. Counts'
  <2>1. \A d \in Proc : /\ pc'[d] = "destroy_own" <=> pc[d] = "destroy_own"
                        /\ pc'[d] = "destroy_child" <=> pc[d] = "destroy_child"
    BY <1>4
  <2> QED BY <2>1, <1>1, <1>4, <1>5 DEF Counts, Types
<1>9. Signals'
  <2>1. \A d \in Proc : /\ Gone(d) => Gone(d)'
                        /\ pc'[d] \in {"load", "loaded", "load_failed"} =>
                             pc[d] \in {"load", "loaded", "load_failed"}
    BY <1>1, <1>2 DEF Gone
  <2> QED BY <2>1, <1>1 DEF Signals
<1>10. Waits'
  <2>1. \A d \in Proc : pc[parent[d]] \in Loop \cup {"dying", "freed"} =>
                         pc'[parent[d]] \in Loop \cup {"dying", "freed"}
    BY <1>1, <1>2 DEF Types, Loop
  <2> QED BY <2>1, <1>1 DEF Waits
<1> QED BY <1>3, <1>6, <1>7, <1>8, <1>9, <1>10

\* process_execute creates a child that has yet to load, or fails.
LEMMA ExecuteIInv ==
  ASSUME IInv, NEW p \in Proc, process_execute(p) PROVE IInv'
<1> USE DEF IInv, Sound
<1>1. /\ stopped = "no" /\ pc[p] = "user"
      /\ UNCHANGED <<todo, stopped, final, waited>>
  BY DEF process_execute, At
<1>2. CASE UNCHANGED <<ws, children, parent, pc, arg>>
  BY <1>1, <1>2, StutterIInv
<1>3. ASSUME NEW c \in Proc, c # Root, pc[c] = "unborn",
             ws' = [ws EXCEPT ![c] = NewWaitStatus],
             children' = [children EXCEPT ![p] = <<c>> \o @],
             parent' = [parent EXCEPT ![c] = p],
             pc' = [pc EXCEPT ![p] = "exec", ![c] = "load"],
             arg' = [arg EXCEPT ![p] = c]
      PROVE  IInv'
  <2>1. c # p /\ ws[c] = None /\ parent[c] = c /\ final[c] = 0 /\ ~Live(c)
    BY <1>1, <1>3 DEF Tree, Live
  <2>2. /\ pc'[p] = "exec" /\ pc'[c] = "load" /\ pc' \in [Proc -> PCs]
        /\ \A q \in Proc \ {p, c} : pc'[q] = pc[q]
    BY <1>3, <2>1 DEF Types, PCs
  <2>3. arg' \in [Proc -> Proc] /\ arg'[p] = c /\ \A q \in Proc \ {p} : arg'[q] = arg[q]
    BY <1>3 DEF Types
  <2>4. /\ parent' \in [Proc -> Proc] /\ parent'[c] = p
        /\ \A d \in Proc \ {c} : parent'[d] = parent[d]
    BY <1>3 DEF Types
  <2>5. /\ ws' \in [Proc -> WaitStatuses \cup {None}] /\ ws'[c] = NewWaitStatus
        /\ \A d \in Proc \ {c} : ws'[d] = ws[d]
    BY <1>3, NotNone DEF Types
  <2>6. Live(c)' /\ \A d \in Proc \ {c} : Live(d)' <=> Live(d)
    <3>1. NewWaitStatus # None
      BY NotNone
    <3>2. NewWaitStatus.allocated
      BY DEF NewWaitStatus
    <3> QED BY <3>1, <3>2, <2>5 DEF Live
  <2>7. \A q \in Proc : c \notin Range(children[q])
    BY <1>1, <2>1 DEF Lists
  <2>8. /\ children' \in [Proc -> Seq(Proc)]
        /\ Distinct(children'[p]) /\ Range(children'[p]) = Range(children[p]) \cup {c}
        /\ \A q \in Proc \ {p} : children'[q] = children[q]
    <3>1. children[p] \in Seq(Proc) /\ Distinct(children[p]) /\ c \notin Range(children[p])
      BY <1>1, <2>7 DEF Types, Lists
    <3>2. /\ <<c>> \o children[p] \in Seq(Proc) /\ Distinct(<<c>> \o children[p])
          /\ Range(<<c>> \o children[p]) = Range(children[p]) \cup {c}
      BY <3>1, PushFrontFacts
    <3>3. children'[p] = <<c>> \o children[p]
      BY <1>3 DEF Types
    <3> QED BY <1>3, <3>2, <3>3 DEF Types
  <2>9. \A d \in Proc \ {c} : parent[d] \in Proc \ {c}
    BY <1>1, <1>3 DEF Types, Tree
  <2>10. Types'
    BY <1>1, <2>2, <2>3, <2>4, <2>5, <2>8 DEF Types
  <2>11. Tree'
    <3>1. \A d \in Proc : ws'[d] # None <=> d # Root /\ pc'[d] # "unborn"
      BY <1>1, <1>3, <2>2, <2>5, NotNone DEF Tree
    <3>2. pc'[Root] \in {"user", "exec", "wait"} /\ parent'[Root] = Root
      BY <1>1, <1>3, <2>2, <2>4, RootProc DEF Tree
    <3>3. \A d \in Proc : pc'[d] = "unborn" => parent'[d] = d /\ final'[d] = 0
      BY <1>1, <2>2, <2>4 DEF Tree
    <3>4. ASSUME NEW d \in Proc, ws'[d] # None PROVE parent'[d] # d /\ pc'[parent'[d]] # "unborn"
      <4>1. CASE d = c
        BY <4>1, <2>1, <2>2, <2>4
      <4>2. CASE d # c
        <5>1. parent[d] # d /\ pc[parent[d]] # "unborn" /\ parent'[d] = parent[d]
          BY <4>2, <3>4, <1>1, <2>4, <2>5 DEF Tree
        <5> QED BY <5>1, <4>2, <2>2, <2>9
      <4> QED BY <4>1, <4>2
    <3> QED BY <3>1, <3>2, <3>3, <3>4 DEF Tree
  <2>12. Lists'
    <3>1. \A q \in Proc : Distinct(children'[q]) /\ Distinct(todo'[q])
      BY <1>1, <2>8 DEF Lists
    <3>2. ASSUME NEW q \in Proc, NEW d \in Proc
          PROVE  d \in Range(children'[q]) <=> Live(d)' /\ parent'[d] = q
      <4>1. CASE d = c
        BY <4>1, <2>4, <2>6, <2>7, <2>8
      <4>2. CASE d # c
        <5>1. d \in Range(children'[q]) <=> d \in Range(children[q])
          BY <4>2, <2>8
        <5> QED BY <5>1, <4>2, <1>1, <2>4, <2>6 DEF Lists
      <4> QED BY <4>1, <4>2
    <3>3. \A q \in Proc : Range(todo'[q]) \subseteq Range(children'[q])
      BY <1>1, <2>8 DEF Lists
    <3>4. ASSUME NEW q \in Proc, pc'[q] \notin Loop PROVE todo'[q] = <<>>
      <4>1. pc[q] \notin Loop
        BY <3>4, <1>1, <1>3, <2>2 DEF Loop
      <4> QED BY <4>1, <1>1 DEF Lists
    <3>5. ASSUME NEW q \in Proc, pc'[q] \in {"exec", "wait"} PROVE arg'[q] \in Range(children'[q])
      <4>1. CASE q = p
        BY <4>1, <2>3, <2>8
      <4>2. CASE q # p
        <5>1. pc[q] \in {"exec", "wait"} /\ arg'[q] = arg[q] /\ children'[q] = children[q]
          BY <4>2, <3>5, <2>2, <2>3, <2>8
        <5> QED BY <5>1, <1>1 DEF Lists
      <4> QED BY <4>1, <4>2
    <3> QED BY <3>1, <3>2, <3>3, <3>4, <3>5 DEF Lists
  <2>13. \A d \in Proc \ {c} : Holders(d)' = Holders(d) /\ (ChildHolds(d)' <=> ChildHolds(d))
    <3>1. \A d \in Proc \ {c} : ChildHolds(d)' <=> ChildHolds(d)
      BY <1>1, <2>2 DEF ChildHolds
    <3>2. \A d \in Proc \ {c} : ParentHolds(d)' <=> ParentHolds(d)
      BY <1>1, <2>2, <2>4, <2>9 DEF ParentHolds
    <3> QED BY <3>1, <3>2 DEF Holders
  <2>14. Holders(c)' = 2
    <3>1. ChildHolds(c)' /\ ParentHolds(c)'
      BY <2>2, <2>4 DEF ChildHolds, ParentHolds
    <3> QED BY <3>1 DEF Holders
  <2>15. Counts'
    <3>1. ws'[c].reference_count = 2
      BY <2>5 DEF NewWaitStatus
    <3>2. \A d \in Proc : Live(d)' => ws'[d].reference_count = Holders(d)'
      BY <3>1, <1>1, <2>5, <2>6, <2>13, <2>14 DEF Counts
    <3>3. \A d \in Proc : d # Root /\ ChildHolds(d)' => Live(d)'
      BY <1>1, <2>6, <2>13 DEF Counts
    <3>4. \A d \in Proc : pc'[d] = "destroy_own" => Live(d)' /\ ws'[d].reference_count = 0
      BY <1>1, <2>2, <2>5, <2>6 DEF Counts
    <3>5. ASSUME NEW q \in Proc, pc'[q] = "destroy_child"
          PROVE  /\ arg'[q] \in Range(children'[q])
                 /\ ws'[arg'[q]].reference_count = 0 /\ pc'[arg'[q]] # "destroy_own"
      <4>1. /\ q \notin {p, c} /\ pc[q] = "destroy_child" /\ arg'[q] = arg[q] /\ arg[q] \in Proc
            /\ children'[q] = children[q]
        BY <3>5, <2>2, <2>3, <2>8 DEF Types
      <4>2. /\ arg[q] \in Range(children[q])
            /\ ws[arg[q]].reference_count = 0 /\ pc[arg[q]] # "destroy_own"
        BY <4>1, <1>1 DEF Counts
      <4>3. arg[q] # c
        BY <4>2, <2>7
      <4> QED BY <4>1, <4>2, <4>3, <2>2, <2>5
    <3>6. ASSUME NEW d \in Proc, Live(d)', ws'[d].reference_count = 0
          PROVE  \/ pc'[d] = "destroy_own"
                 \/ pc'[parent'[d]] = "destroy_child" /\ arg'[parent'[d]] = d
      <4>1. d # c /\ Live(d) /\ ws[d].reference_count = 0
        BY <3>6, <3>1, <2>5, <2>6
      <4>2. pc[d] = "destroy_own" \/ (pc[parent[d]] = "destroy_child" /\ arg[parent[d]] = d)
        BY <4>1, <1>1 DEF Counts
      <4> QED BY <4>1, <4>2, <1>1, <2>2, <2>3, <2>4, <2>9
    <3> QED BY <3>2, <3>3, <3>4, <3>5, <3>6 DEF Counts
  <2>16. Signals'
    <3>1. ASSUME NEW d \in Proc, ws'[d] # None
          PROVE  /\ ws'[d].dead > 0 => Gone(d)'
                 /\ ws'[d].done_loading > 0 => pc'[d] \notin {"load", "loaded", "load_failed"}
                 /\ ws'[d].exit_status = final'[d]
      <4>1. CASE d = c
        BY <4>1, <1>1, <2>1, <2>5 DEF NewWaitStatus
      <4>2. CASE d # c
        <5>1. /\ ws'[d] = ws[d] /\ final'[d] = final[d] /\ (Gone(d) => Gone(d)')
              /\ pc'[d] \in {"load", "loaded", "load_failed"} =>
                   pc[d] \in {"load", "loaded", "load_failed"}
          BY <4>2, <1>1, <2>2, <2>5 DEF Gone
        <5> QED BY <5>1, <3>1, <1>1 DEF Signals
      <4> QED BY <4>1, <4>2
    <3> QED BY <3>1 DEF Signals
  <2>17. Waits'
    <3>1. \A d \in waited' : ws'[d] # None /\ ~ws'[d].allocated
      BY <1>1, <2>1, <2>5 DEF Waits, Types
    <3>2. ASSUME NEW d \in Proc, ws'[d] # None, ~ws'[d].allocated
          PROVE  d \in waited' \/ pc'[parent'[d]] \in Loop \cup {"dying", "freed"}
      <4>1. d # c /\ ws'[d] = ws[d]
        BY <3>2, <2>5 DEF NewWaitStatus
      <4>2. d \in waited \/ pc[parent[d]] \in Loop \cup {"dying", "freed"}
        BY <4>1, <3>2, <1>1 DEF Waits
      <4> QED BY <4>1, <4>2, <1>1, <2>2, <2>4, <2>9 DEF Loop
    <3> QED BY <3>1, <3>2 DEF Waits
  <2> QED BY <2>10, <2>11, <2>12, <2>15, <2>16, <2>17
<1> QED BY <1>2, <1>3 DEF process_execute
-----------------------------------------------------------------------------
\* Every step preserves the inductive invariant.
LEMMA StepIInv == IInv /\ [Next]_vars => IInv'
<1> SUFFICES ASSUME IInv, [Next]_vars PROVE IInv'
  OBVIOUS
<1>1. CASE UNCHANGED vars
  BY <1>1, StutterIInv DEF vars
<1>2. ASSUME NEW p \in Proc,
             process_execute(p) \/ process_wait(p) \/ thread_exit_with_status(p) \/ Run(p)
      PROVE  IInv'
  <2>1. CASE process_execute(p)
    BY <2>1, ExecuteIInv
  <2>2. CASE process_wait(p)
    BY <2>2, WaitIInv
  <2>3. CASE thread_exit_with_status(p)
    BY <2>3, ExitIInv
  <2>4. CASE process_execute_return(p)
    BY <2>4, ExecReturnIInv
  <2>5. CASE load(p)
    BY <2>5, LoadIInv
  <2>6. CASE start_process(p)
    BY <2>6, StartIInv
  <2>7. CASE process_wait_return(p)
    BY <2>7, WaitReturnIInv
  <2>8. CASE decrement_own(p)
    BY <2>8, DecrementOwnIInv
  <2>9. CASE destroy_own(p)
    BY <2>9, DestroyOwnIInv
  <2>10. CASE sema_up_dead(p)
    BY <2>10, UpDeadIInv
  <2>11. CASE decrement_child(p)
    BY <2>11, DecrementChildIInv
  <2>12. CASE destroy_child(p)
    BY <2>12, DestroyChildIInv
  <2>13. CASE thread_exit(p)
    BY <2>13, ThreadExitIInv
  <2>14. CASE start_process_panic(p)
    BY <2>14, PanicIInv
  <2> QED BY <1>2, <2>1, <2>2, <2>3, <2>4, <2>5, <2>6, <2>7, <2>8, <2>9, <2>10, <2>11,
             <2>12, <2>13, <2>14 DEF Run
<1> QED BY <1>1, <1>2 DEF Next

\* The inductive invariant holds of every reachable state.
LEMMA Invariance == Spec => []IInv
<1> QED BY InitIInv, StepIInv, PTL DEF Spec
-----------------------------------------------------------------------------
\* In every order in which parents and children run, wait and exit, the reference
\* count of an allocated wait_status is the number of processes that still refer
\* to it.
THEOREM RefCountsTheorem == Spec => []RefCounts
<1>1. IInv => RefCounts
  <2> SUFFICES ASSUME IInv PROVE RefCounts
    OBVIOUS
  <2>1. TypeOK
    <3>1. \A p \in Proc : Range(todo[p]) \subseteq Proc /\ Range(children[p]) \subseteq Proc
      <4>1. \A p \in Proc : todo[p] \in Seq(Proc) /\ children[p] \in Seq(Proc)
        BY DEF IInv, Types
      <4> QED BY <4>1, RangeFacts
    <3>2. \A p \in Proc : {Range(todo[p]), Range(children[p])} \subseteq SUBSET Proc
      BY <3>1
    <3> QED BY <3>2 DEF IInv, Types, TypeOK
  <2>2. ASSUME stopped = "no", NEW c \in Proc, ws[c] # None, ws[c].allocated
        PROVE  ws[c].reference_count = Holders(c)
    BY <2>2 DEF IInv, Sound, Counts, Live
  <2> QED BY <2>1, <2>2 DEF RefCounts
<1> QED BY <1>1, Invariance, PTL

\* A wait_status is freed once its parent and its child are both dead.
THEOREM NoLeakTheorem == Spec => []NoLeak
<1>1. IInv => NoLeak
  <2> SUFFICES ASSUME IInv, stopped = "no", NEW c \in Proc, ws[c] # None,
                      pc[c] \in {"dying", "freed"}, pc[parent[c]] \in {"dying", "freed"},
                      ws[c].allocated
               PROVE  FALSE
    BY DEF NoLeak
  <2>1. ~ChildHolds(c) /\ ~ParentHolds(c)
    BY DEF ChildHolds, ParentHolds
  <2>2. Live(c) /\ ws[c].reference_count = Holders(c)
    BY DEF IInv, Sound, Counts, Live
  <2>3. ws[c].reference_count = 0
    BY <2>1, <2>2 DEF Holders
  <2> QED BY <2>2, <2>3 DEF IInv, Sound, Counts
<1> QED BY <1>1, Invariance, PTL

\* Only the two calls return something.
LEMMA Returns ==
  ASSUME NEW p \in Proc, ret' # None,
         process_execute(p) \/ process_wait(p) \/ thread_exit_with_status(p) \/ Run(p)
  PROVE  \/ ret' = [call |-> "exec", by |-> p, of |-> p, value |-> TID_ERROR]
         \/ process_execute_return(p) \/ process_wait(p) \/ process_wait_return(p)
<1>1. /\ ~load(p) /\ ~start_process_panic(p) /\ ~start_process(p)
      /\ ~decrement_own(p) /\ ~destroy_own(p) /\ ~sema_up_dead(p)
  BY DEF load, start_process_panic, start_process, decrement_own, destroy_own, sema_up_dead
<1>2. ~decrement_child(p) /\ ~destroy_child(p) /\ ~thread_exit(p) /\ ~thread_exit_with_status(p)
  BY DEF decrement_child, destroy_child, thread_exit, thread_exit_with_status
<1>3. process_execute(p) => ret' = [call |-> "exec", by |-> p, of |-> p, value |-> TID_ERROR]
  BY DEF process_execute
<1> QED BY <1>1, <1>2, <1>3 DEF Run

\* process_wait returns the exit status of a child, after its death and once, and
\* -1 to anyone else and ever after.
THEOREM WaitContractTheorem == Spec => WaitContract
<1> DEFINE Promise(r) ==
      IF parent[r.of] = r.by /\ r.of \notin waited
        THEN Gone(r.of) /\ r.value = final[r.of]
        ELSE r.value = -1
<1>1. ASSUME IInv, NEW p \in Proc, process_wait_return(p) PROVE Promise(ret')
  <2>0. PICK c : c = arg[p]
    OBVIOUS
  <2>1. /\ stopped = "no" /\ pc[p] = "wait" /\ ws[c].dead > 0
        /\ ret' = [call |-> "wait", by |-> p, of |-> c, value |-> ws[c].exit_status]
    BY <1>1, <2>0 DEF process_wait_return, At
  <2>2. c \in Proc /\ Live(c) /\ parent[c] = p
    BY <1>1, <2>0, <2>1 DEF IInv, Sound, Types, Lists
  <2>3. c \notin waited
    BY <1>1, <2>1, <2>2 DEF IInv, Sound, Waits, Live
  <2>4. Gone(c) /\ ws[c].exit_status = final[c]
    BY <1>1, <2>1, <2>2 DEF IInv, Sound, Signals, Live
  <2> QED BY <2>1, <2>2, <2>3, <2>4
<1>2. ASSUME IInv, NEW p \in Proc, process_wait(p), ret' # None PROVE Promise(ret')
  <2>1. PICK c \in Proc \ {p, Root} :
          /\ c \notin Range(children[p]) /\ pc[p] = "user" /\ stopped = "no"
          /\ ret' = [call |-> "wait", by |-> p, of |-> c, value |-> -1]
    BY <1>2 DEF process_wait, At
  <2>2. CASE parent[c] = p
    <3>1. ws[c] # None
      BY <1>2, <2>1, <2>2 DEF IInv, Sound, Tree
    <3>2. ~ws[c].allocated
      BY <1>2, <2>1, <2>2, <3>1 DEF IInv, Sound, Lists, Live
    <3>3. c \in waited
      BY <1>2, <2>1, <2>2, <3>1, <3>2 DEF IInv, Sound, Waits, Loop
    <3> QED BY <2>1, <3>3
  <2>3. CASE parent[c] # p
    BY <2>1, <2>3
  <2> QED BY <2>2, <2>3
<1>3. IInv /\ [Next]_vars => [ret' # None /\ ret'.call = "wait" => Promise(ret')]_vars
  <2> SUFFICES ASSUME IInv, Next, ret' # None, ret'.call = "wait" PROVE Promise(ret')
    OBVIOUS
  <2>1. PICK p \in Proc :
          process_execute(p) \/ process_wait(p) \/ thread_exit_with_status(p) \/ Run(p)
    BY DEF Next
  <2>2. process_wait(p) \/ process_wait_return(p)
    <3>1. ~process_execute_return(p)
      BY DEF process_execute_return
    <3>2. ret' # [call |-> "exec", by |-> p, of |-> p, value |-> TID_ERROR]
      OBVIOUS
    <3> QED BY <2>1, <3>1, <3>2, Returns
  <2> QED BY <2>2, <1>1, <1>2
<1> QED BY <1>3, Invariance, PTL DEF Spec, WaitContract

\* process_execute returns a child's tid after the child has reported how its load
\* went, and TID_ERROR exactly when the load failed.
THEOREM ExecContractTheorem == Spec => ExecContract
<1> DEFINE Promise(r) == /\ pc[r.of] \notin {"unborn", "load", "loaded", "load_failed"}
                         /\ r.value = TID_ERROR <=> ws[r.of].load_error
<1>1. ASSUME IInv, NEW p \in Proc, process_execute_return(p) PROVE Promise(ret')
  <2>0. PICK c : c = arg[p]
    OBVIOUS
  <2>1. /\ stopped = "no" /\ pc[p] = "exec" /\ ws[c].done_loading > 0
        /\ ret' = [call |-> "exec", by |-> p, of |-> c,
                   value |-> IF ws[c].load_error THEN TID_ERROR ELSE 0]
    BY <1>1, <2>0 DEF process_execute_return, At
  <2>2. c \in Proc /\ ws[c] # None
    BY <1>1, <2>0, <2>1 DEF IInv, Sound, Types, Lists, Live
  <2>3. pc[c] \notin {"unborn", "load", "loaded", "load_failed"}
    BY <1>1, <2>1, <2>2 DEF IInv, Sound, Signals, Tree
  <2>4. ret'.of = c /\ ret'.value = (IF ws[c].load_error THEN TID_ERROR ELSE 0)
    BY <2>1
  <2>5. ws[c].load_error \in BOOLEAN
    BY <1>1, <2>2 DEF IInv, Types, WaitStatuses
  <2> QED BY <2>3, <2>4, <2>5 DEF TID_ERROR
<1>2. IInv /\ [Next]_vars =>
        [ret' # None /\ ret'.call = "exec" /\ ret'.of # ret'.by => Promise(ret')]_vars
  <2> SUFFICES ASSUME IInv, Next, ret' # None, ret'.call = "exec", ret'.of # ret'.by
               PROVE  Promise(ret')
    OBVIOUS
  <2>1. PICK p \in Proc :
          process_execute(p) \/ process_wait(p) \/ thread_exit_with_status(p) \/ Run(p)
    BY DEF Next
  <2>2. process_execute_return(p)
    <3>1. ~process_wait(p) /\ ~process_wait_return(p)
      BY DEF process_wait, process_wait_return
    <3>2. ret' # [call |-> "exec", by |-> p, of |-> p, value |-> TID_ERROR]
      OBVIOUS
    <3> QED BY <2>1, <3>1, <3>2, Returns
  <2> QED BY <2>2, <1>1
<1> QED BY <1>2, Invariance, PTL DEF Spec, ExecContract
=============================================================================

----------------------------- MODULE MCProcess -----------------------------
(***************************************************************************)
(* Processes: parents and children, and the loading of programs.  A        *)
(* behaviour is of one of them, which part says; the other stays as it     *)
(* begins.                                                                 *)
(*                                                                         *)
(* WaitStatus: the kernel's main thread and three processes, which may     *)
(* form any tree.                                                          *)
(***************************************************************************)
EXTENDS WaitStatus, TLC

CONSTANTS proc1, proc2, PGSIZE, PtSize, UserPages, Word, Jobs     \* Exec

VARIABLES part,
          job, kfree, ufree, pd, pds, pts, mem, cur, active, th, panic   \* Exec

spaces == <<job, kfree, ufree, pd, pds, pts, mem, cur, active, th, panic>>
all == <<part, vars, spaces>>

X == INSTANCE Exec WITH Proc <- {proc1, proc2}

ASSUME ExecAssumption == X!ExecConstants

-----------------------------------------------------------------------------
(* Exec: pages of two bytes, page tables of two entries and six user       *)
(* pages: addresses 0..11 are the user's, 12..15 the kernel's.             *)

Image(phdrs, args) ==
  [present |-> TRUE, good |-> TRUE, length |-> 4, phdrs |-> phdrs, args |-> args]
Segment(offset, vaddr, filesz, memsz, writable) ==
  [type |-> "load", offset |-> offset, vaddr |-> vaddr, filesz |-> filesz, memsz |-> memsz,
   writable |-> writable]
Other(type) == [Segment(0, 0, 0, 0, FALSE) EXCEPT !.type = type]
Alone(im) == proc1 :> im
Job(image, kpool, upool) == [image |-> image, kpool |-> kpool, upool |-> upool]

\* Every shape of one segment, with memory to spare.
Shapes ==
  {Job(Alone(Image(<<Segment(o, a, f, m, x)>>, 1)), 4, 6) :
     o \in 0..5, a \in 0..15, f \in 0..4, m \in 0..5, x \in BOOLEAN}

\* Two segments that may touch, overlap or meet the stack, and little memory.
Pairs ==
  {Job(Alone(Image(<<Other("ignored"), Segment(0, a, 3, 3, FALSE), Segment(0, u, 1, m, TRUE)>>, 2)),
       k, n) : a \in {2, 4, 6}, u \in {2, 4, 6, 8}, m \in {1, 3}, k \in 0..4, n \in 0..5}

\* Files that are refused.
Refused ==
  {Job(Alone([Image(<<>>, 1) EXCEPT !.present = x, !.good = y]), 2, 2) : x, y \in BOOLEAN}
    \cup {Job(Alone(Image(<<Other("refused")>>, 1)), 2, 2)}

\* Arguments longer than the stack's page, with and without a page below it.
LongArgs == {Job(Alone(Image(<<Segment(0, a, 2, 2, TRUE)>>, n)), 4, 3) : a \in {4, 8}, n \in 2..4}

\* Two processes that compete for frames.
Two == {Job(proc1 :> Image(<<Segment(0, 4, 2, 4, TRUE)>>, 1)
              @@ proc2 :> Image(<<Segment(2, 2, 1, 1, FALSE)>>, 1), k, n) : k \in 3..6, n \in 3..5}

MCJobs == Shapes \cup Pairs \cup Refused \cup LongArgs \cup Two

-----------------------------------------------------------------------------
Nothing == Job(Alone(Image(<<>>, 1)), 2, 2)

MCInit ==
  \/ part = "wait" /\ Init /\ X!Init /\ job = Nothing
  \/ part = "exec" /\ Init /\ X!Init

MCNext ==
  \/ part = "wait" /\ Next /\ UNCHANGED <<part, spaces>>
  \/ part = "exec" /\ X!Next /\ UNCHANGED <<part, vars>>

\* The fairness of WaitStatus.
MCFairness == \A p \in Proc : WF_all(part = "wait" /\ Run(p) /\ UNCHANGED <<part, spaces>>)

MCSpec == MCInit /\ [][MCNext]_all /\ MCFairness

-----------------------------------------------------------------------------
\* Exec: every frame is free or has one use (load, process_exit, pagedir.c).
FramesAccounted == X!FramesAccounted

\* Exec: CR3 never holds a freed directory (process_activate, process_exit).
ActiveDirectory == X!ActiveDirectory

\* Exec: a program that starts is the one in the file (load, load_segment).
ImageLoaded == X!ImageLoaded
=============================================================================

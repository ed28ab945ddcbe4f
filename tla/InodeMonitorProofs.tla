------------------------- MODULE InodeMonitorProofs -------------------------
(***************************************************************************)
(* Proofs about InodeMonitor, for every finite set of threads and every    *)
(* number of operations.  Exclusion and NoLostWakeup are not inductive:    *)
(* both need that the counters and queues of struct inode agree with where *)
(* the threads are (Bookkeeping), and Exclusion that the two active        *)
(* counters never both count somebody (OneSided).                          *)
(***************************************************************************)
EXTENDS InodeMonitor, FiniteSetTheorems, SequenceTheorems, TLAPS

OneSided == active_writers = 0 \/ (active_writers = 1 /\ active_readers = 0)

IInv == TypeOK /\ Bookkeeping /\ OneSided /\ NoLostWakeup
-----------------------------------------------------------------------------
\* What cond_wait's list_push_back does to a queue of waiters.
LEMMA AppendFacts ==
  ASSUME NEW S, NEW q \in Seq(S), NEW x \in S, Distinct(q), x \notin Elems(q)
  PROVE  /\ Append(q, x) \in Seq(S)
         /\ Append(q, x) # <<>>
         /\ Elems(Append(q, x)) = Elems(q) \cup {x}
         /\ Distinct(Append(q, x))
  <1>1. /\ Append(q, x) \in Seq(S) /\ Len(q) \in Nat
        /\ Len(Append(q, x)) = Len(q) + 1
        /\ \A i \in 1..Len(q) : Append(q, x)[i] = q[i]
        /\ Append(q, x)[Len(q) + 1] = x
    OBVIOUS
  <1>2. Append(q, x) # <<>>
    BY <1>1
  <1>3. Elems(Append(q, x)) = Elems(q) \cup {x}
    BY <1>1 DEF Elems
  <1>4. Distinct(Append(q, x))
    BY <1>1 DEF Elems, Distinct
  <1> QED
    BY <1>1, <1>2, <1>3, <1>4

\* What cond_signal's list_pop_front does to a nonempty queue of waiters.
LEMMA PopFacts ==
  ASSUME NEW S, NEW q \in Seq(S), q # <<>>, Distinct(q)
  PROVE  /\ Tail(q) \in Seq(S)
         /\ Head(q) \in Elems(q)
         /\ Elems(Tail(q)) = Elems(q) \ {Head(q)}
         /\ Distinct(Tail(q))
  <1>1. /\ Tail(q) \in Seq(S) /\ Len(q) \in Nat \ {0}
        /\ Len(Tail(q)) = Len(q) - 1
        /\ \A i \in 1..Len(q) - 1 : Tail(q)[i] = q[i + 1]
        /\ Head(q) = q[1]
    BY HeadTailProperties, EmptySeq
  <1>2. Head(q) \in Elems(q)
    BY <1>1 DEF Elems
  <1>3. Elems(Tail(q)) \subseteq Elems(q) \ {Head(q)}
    BY <1>1 DEF Elems, Distinct
  <1>4. Elems(q) \ {Head(q)} \subseteq Elems(Tail(q))
    <2> SUFFICES ASSUME NEW x \in Elems(q), x # Head(q)
                 PROVE  x \in Elems(Tail(q))
      OBVIOUS
    <2>1. PICK i \in 1..Len(q) : x = q[i]
      BY DEF Elems
    <2>2. i - 1 \in 1..Len(Tail(q)) /\ Tail(q)[i - 1] = x
      BY <1>1, <2>1
    <2> QED
      BY <2>2 DEF Elems
  <1>5. Distinct(Tail(q))
    BY <1>1 DEF Distinct
  <1> QED
    BY <1>1, <1>2, <1>3, <1>4, <1>5

\* A queue is empty when nobody is on it.
LEMMA EmptyFacts ==
  ASSUME NEW S, NEW q \in Seq(S)
  PROVE  /\ q = <<>> <=> Elems(q) = {}
         /\ <<>> \in Seq(S) /\ Elems(<<>>) = {} /\ Distinct(<<>>)
  <1>1. q # <<>> => Len(q) \in Nat \ {0}
    BY EmptySeq
  <1>2. q # <<>> => q[1] \in Elems(q)
    BY <1>1 DEF Elems
  <1>3. <<>> \in Seq(S) /\ Len(<<>>) = 0
    BY EmptySeq
  <1>4. Elems(<<>>) = {} /\ Distinct(<<>>)
    BY <1>3 DEF Elems, Distinct
  <1> QED
    BY <1>2, <1>3, <1>4

\* The threads at one place are finitely many.
LEMMA CountFacts ==
  ASSUME NEW p
  PROVE  /\ IsFiniteSet(At(p))
         /\ Cardinality(At(p)) \in Nat
         /\ Cardinality(At(p)) = 0 <=> At(p) = {}
  <1>1. At(p) \in SUBSET Thread
    BY DEF At
  <1>2. IsFiniteSet(At(p))
    BY <1>1, ThreadFinite, FS_Subset
  <1> QED
    BY <1>2, FS_CardinalityType, FS_EmptySet

\* A thread that goes from place q to place p leaves one set of threads and
\* joins the other; all other places keep theirs.
LEMMA MoveFacts ==
  ASSUME NEW t \in Thread, NEW p \in PCs, NEW q \in PCs, p # q,
         pc \in [Thread -> PCs], pc[t] = q, Goto(t, p)
  PROVE  /\ pc' \in [Thread -> PCs]
         /\ At(p)' = At(p) \cup {t}
         /\ At(q)' = At(q) \ {t}
         /\ \A r \in PCs \ {p, q} : At(r)' = At(r)
         /\ Cardinality(At(p)') = Cardinality(At(p)) + 1
         /\ Cardinality(At(q)') = Cardinality(At(q)) - 1
  <1>1. pc' = [pc EXCEPT ![t] = p]
    BY DEF Goto
  <1>2. /\ pc' \in [Thread -> PCs]
        /\ At(p)' = At(p) \cup {t}
        /\ At(q)' = At(q) \ {t}
        /\ \A r \in PCs \ {p, q} : At(r)' = At(r)
    BY <1>1 DEF At
  <1>3. t \notin At(p) /\ t \in At(q)
    BY DEF At
  <1>4. Cardinality(At(p) \cup {t}) = Cardinality(At(p)) + 1
    BY <1>3, CountFacts, FS_AddElement
  <1>5. Cardinality(At(q) \ {t}) = Cardinality(At(q)) - 1
    BY <1>3, CountFacts, FS_RemoveElement
  <1> QED
    BY <1>2, <1>4, <1>5

\* A thread that stays where it is moves nobody.
LEMMA StayFacts ==
  ASSUME NEW t \in Thread, pc \in [Thread -> PCs], Goto(t, pc[t])
  PROVE  pc' = pc
  BY DEF Goto
-----------------------------------------------------------------------------
USE DEF PCs

LEMMA InitIInv == Init => IInv
  <1> SUFFICES ASSUME Init PROVE IInv
    OBVIOUS
  <1>1. /\ At("reading") = {} /\ At("writing") = {}
        /\ At("r_wait") = {} /\ At("w_wait") = {}
    BY DEF Init, At
  <1>2. Cardinality({}) = 0
    BY FS_EmptySet
  <1>3. <<>> \in Seq(Thread)
    BY EmptySeq
  <1>4. /\ Elems(ok_to_read) = {} /\ Distinct(ok_to_read)
        /\ Elems(ok_to_write) = {} /\ Distinct(ok_to_write)
    BY <1>3, EmptyFacts, Zenon DEF Init
  <1>5. TypeOK
    BY MaxOpsNat DEF Init, TypeOK
  <1>6. Bookkeeping
    BY <1>1, <1>2, <1>4 DEF Init, Bookkeeping
  <1> QED
    BY <1>5, <1>6 DEF Init, IInv, OneSided, NoLostWakeup

\* Facts about one state that every step below starts from.
LEMMA IInvFacts ==
  ASSUME IInv
  PROVE  /\ pc \in [Thread -> PCs]
         /\ active_readers \in Nat /\ active_writers \in Nat
         /\ waiting_readers \in Nat /\ waiting_writers \in Nat
         /\ \A t \in At("r_wait") : waiting_readers > 0
         /\ \A t \in At("w_wait") : waiting_writers > 0
         /\ \A t \in At("reading") : active_readers > 0 /\ active_writers = 0
         /\ \A t \in At("writing") : active_writers = 1 /\ active_readers = 0
         /\ ok_to_read # <<>> => waiting_readers > 0
         /\ ok_to_write # <<>> => waiting_writers > 0
  <1>1. TypeOK /\ Bookkeeping /\ OneSided
    BY DEF IInv
  <1>2. ok_to_read # <<>> => At("r_wait") # {}
    BY <1>1, EmptyFacts DEF TypeOK, Bookkeeping
  <1>3. ok_to_write # <<>> => At("w_wait") # {}
    BY <1>1, EmptyFacts DEF TypeOK, Bookkeeping
  <1> QED
    BY <1>1, <1>2, <1>3, CountFacts DEF TypeOK, Bookkeeping, OneSided

\* reader_checkin and the reader's wake-up share the loop of reader_checkin:
\* whatever place the thread comes from, it ends asleep or inside.
LEMMA ReaderCheckinStep ==
  ASSUME IInv, NEW t \in Thread, reader_checkin(t)
  PROVE  IInv'
  <1>1. /\ TypeOK /\ Bookkeeping /\ OneSided /\ NoLostWakeup
        /\ pc[t] = "out" /\ t \notin signalled
        /\ t \notin Elems(ok_to_read) /\ t \notin Elems(ok_to_write)
    BY DEF IInv, reader_checkin, StartOp, Bookkeeping, At
  <1>2. signalled' = signalled /\ ops' \in [Thread -> 0..MaxOps]
    BY <1>1, MaxOpsNat DEF reader_checkin, StartOp, TypeOK
  <1>3. CASE /\ active_writers + waiting_writers > 0
             /\ waiting_readers' = waiting_readers + 1
             /\ ok_to_read' = Append(ok_to_read, t)
             /\ Goto(t, "r_wait")
             /\ UNCHANGED <<active_readers, active_writers, waiting_writers, ok_to_write>>
    <2>1. /\ pc' \in [Thread -> PCs]
          /\ At("r_wait")' = At("r_wait") \cup {t}
          /\ \A r \in {"w_wait", "reading", "writing"} : At(r)' = At(r)
          /\ Cardinality(At("r_wait")') = Cardinality(At("r_wait")) + 1
      BY <1>1, <1>3, MoveFacts DEF TypeOK
    <2>2. /\ ok_to_read' \in Seq(Thread)
          /\ Elems(ok_to_read') = Elems(ok_to_read) \cup {t}
          /\ Distinct(ok_to_read')
      <3>1. ok_to_read \in Seq(Thread) /\ Distinct(ok_to_read)
        BY <1>1 DEF TypeOK, Bookkeeping
      <3> QED
        BY <1>1, <1>3, <3>1, AppendFacts
    <2>3. TypeOK'
      BY <1>1, <1>2, <1>3, <2>1, <2>2 DEF TypeOK
    <2>4. Bookkeeping'
      BY <1>1, <1>2, <1>3, <2>1, <2>2 DEF Bookkeeping
    <2>5. NoLostWakeup'
      <3>1. \A u \in signalled : pc'[u] = pc[u]
        BY <1>1, <1>3 DEF Goto, TypeOK
      <3> QED
        BY <1>1, <1>2, <1>3, <3>1 DEF NoLostWakeup
    <2> QED
      BY <1>1, <1>3, <2>3, <2>4, <2>5 DEF IInv, OneSided
  <1>4. CASE /\ active_writers + waiting_writers = 0
             /\ waiting_readers' = waiting_readers
             /\ active_readers' = active_readers + 1
             /\ Goto(t, "reading")
             /\ UNCHANGED <<active_writers, waiting_writers, ok_to_read, ok_to_write>>
    <2>1. /\ pc' \in [Thread -> PCs]
          /\ At("reading")' = At("reading") \cup {t}
          /\ \A r \in {"w_wait", "r_wait", "writing"} : At(r)' = At(r)
          /\ Cardinality(At("reading")') = Cardinality(At("reading")) + 1
      BY <1>1, <1>4, MoveFacts DEF TypeOK
    <2>2. active_writers = 0
      BY <1>1, <1>4 DEF TypeOK
    <2>3. TypeOK'
      BY <1>1, <1>2, <1>4, <2>1 DEF TypeOK
    <2>4. Bookkeeping'
      BY <1>1, <1>2, <1>4, <2>1 DEF Bookkeeping
    <2>5. NoLostWakeup'
      <3>1. active_readers' + active_writers' > 0
        BY <1>1, <1>4 DEF TypeOK
      <3> QED
        BY <1>1, <1>2, <1>4, <3>1 DEF NoLostWakeup
    <2> QED
      BY <1>4, <2>2, <2>3, <2>4, <2>5 DEF IInv, OneSided
  <1> QED
    BY <1>3, <1>4 DEF reader_checkin, ReaderTest

LEMMA ReaderWakeupStep ==
  ASSUME IInv, NEW t \in Thread, reader_wakeup(t)
  PROVE  IInv'
  <1>1. /\ TypeOK /\ Bookkeeping /\ OneSided /\ NoLostWakeup
        /\ pc[t] = "r_wait" /\ t \in signalled /\ t \in At("r_wait")
        /\ t \notin Elems(ok_to_read) /\ t \notin Elems(ok_to_write)
    BY DEF IInv, reader_wakeup, Wake, Bookkeeping, At
  <1>2. /\ signalled' = signalled \ {t} /\ ops' = ops
        /\ waiting_readers \in Nat /\ waiting_readers - 1 \in Nat
    BY <1>1, IInvFacts DEF reader_wakeup, Wake
  <1>3. CASE /\ active_writers + waiting_writers > 0
             /\ waiting_readers' = waiting_readers - 1 + 1
             /\ ok_to_read' = Append(ok_to_read, t)
             /\ Goto(t, "r_wait")
             /\ UNCHANGED <<active_readers, active_writers, waiting_writers, ok_to_write>>
    <2>1. pc' = pc /\ \A p \in PCs : At(p)' = At(p)
      BY <1>1, <1>3, StayFacts DEF TypeOK, At
    <2>2. /\ ok_to_read' \in Seq(Thread)
          /\ Elems(ok_to_read') = Elems(ok_to_read) \cup {t}
          /\ Distinct(ok_to_read')
      <3>1. ok_to_read \in Seq(Thread) /\ Distinct(ok_to_read)
        BY <1>1 DEF TypeOK, Bookkeeping
      <3> QED
        BY <1>1, <1>3, <3>1, AppendFacts
    <2>3. waiting_readers' = waiting_readers
      BY <1>2, <1>3
    <2>4. TypeOK'
      BY <1>1, <1>2, <1>3, <2>1, <2>2, <2>3 DEF TypeOK
    <2>5. Bookkeeping'
      <3>1. t \notin At("w_wait")
        BY <1>1 DEF At
      <3> QED
        BY <1>1, <1>2, <1>3, <2>1, <2>2, <2>3, <3>1 DEF Bookkeeping
    <2>6. NoLostWakeup'
      BY <1>1, <1>2, <1>3, <2>1 DEF NoLostWakeup
    <2> QED
      BY <1>1, <1>3, <2>4, <2>5, <2>6 DEF IInv, OneSided
  <1>4. CASE /\ active_writers + waiting_writers = 0
             /\ waiting_readers' = waiting_readers - 1
             /\ active_readers' = active_readers + 1
             /\ Goto(t, "reading")
             /\ UNCHANGED <<active_writers, waiting_writers, ok_to_read, ok_to_write>>
    <2>1. /\ pc' \in [Thread -> PCs]
          /\ At("reading")' = At("reading") \cup {t}
          /\ At("r_wait")' = At("r_wait") \ {t}
          /\ \A r \in {"w_wait", "writing"} : At(r)' = At(r)
          /\ Cardinality(At("reading")') = Cardinality(At("reading")) + 1
          /\ Cardinality(At("r_wait")') = Cardinality(At("r_wait")) - 1
      BY <1>1, <1>4, MoveFacts DEF TypeOK
    <2>2. active_writers = 0 /\ active_readers' + active_writers' > 0
      BY <1>1, <1>4 DEF TypeOK
    <2>3. TypeOK'
      BY <1>1, <1>2, <1>4, <2>1 DEF TypeOK
    <2>4. Bookkeeping'
      <3>1. t \notin At("w_wait")
        BY <1>1 DEF At
      <3> QED
        BY <1>1, <1>2, <1>4, <2>1, <3>1 DEF Bookkeeping
    <2>5. NoLostWakeup'
      BY <1>1, <1>4, <2>2 DEF NoLostWakeup
    <2> QED
      BY <1>4, <2>2, <2>3, <2>4, <2>5 DEF IInv, OneSided
  <1> QED
    BY <1>3, <1>4 DEF reader_wakeup, ReaderTest

LEMMA WriterCheckinStep ==
  ASSUME IInv, NEW t \in Thread, writer_checkin(t)
  PROVE  IInv'
  <1>1. /\ TypeOK /\ Bookkeeping /\ OneSided /\ NoLostWakeup
        /\ pc[t] = "out" /\ t \notin signalled
        /\ t \notin Elems(ok_to_read) /\ t \notin Elems(ok_to_write)
    BY DEF IInv, writer_checkin, StartOp, Bookkeeping, At
  <1>2. signalled' = signalled /\ ops' \in [Thread -> 0..MaxOps]
    BY <1>1, MaxOpsNat DEF writer_checkin, StartOp, TypeOK
  <1>3. CASE /\ active_writers + active_readers > 0
             /\ waiting_writers' = waiting_writers + 1
             /\ ok_to_write' = Append(ok_to_write, t)
             /\ Goto(t, "w_wait")
             /\ UNCHANGED <<active_readers, active_writers, waiting_readers, ok_to_read>>
    <2>1. /\ pc' \in [Thread -> PCs]
          /\ At("w_wait")' = At("w_wait") \cup {t}
          /\ \A r \in {"r_wait", "reading", "writing"} : At(r)' = At(r)
          /\ Cardinality(At("w_wait")') = Cardinality(At("w_wait")) + 1
      BY <1>1, <1>3, MoveFacts DEF TypeOK
    <2>2. /\ ok_to_write' \in Seq(Thread)
          /\ Elems(ok_to_write') = Elems(ok_to_write) \cup {t}
          /\ Distinct(ok_to_write')
      <3>1. ok_to_write \in Seq(Thread) /\ Distinct(ok_to_write)
        BY <1>1 DEF TypeOK, Bookkeeping
      <3> QED
        BY <1>1, <1>3, <3>1, AppendFacts
    <2>3. TypeOK'
      BY <1>1, <1>2, <1>3, <2>1, <2>2 DEF TypeOK
    <2>4. Bookkeeping'
      BY <1>1, <1>2, <1>3, <2>1, <2>2 DEF Bookkeeping
    <2>5. NoLostWakeup'
      <3>1. active_readers' + active_writers' > 0 /\ active_writers' + waiting_writers' > 0
        BY <1>1, <1>3 DEF TypeOK
      <3> QED
        BY <3>1 DEF NoLostWakeup
    <2> QED
      BY <1>1, <1>3, <2>3, <2>4, <2>5 DEF IInv, OneSided
  <1>4. CASE /\ active_writers + active_readers = 0
             /\ waiting_writers' = waiting_writers
             /\ active_writers' = active_writers + 1
             /\ Goto(t, "writing")
             /\ UNCHANGED <<active_readers, waiting_readers, ok_to_read, ok_to_write>>
    <2>1. /\ pc' \in [Thread -> PCs]
          /\ At("writing")' = At("writing") \cup {t}
          /\ \A r \in {"w_wait", "r_wait", "reading"} : At(r)' = At(r)
          /\ Cardinality(At("writing")') = Cardinality(At("writing")) + 1
      BY <1>1, <1>4, MoveFacts DEF TypeOK
    <2>2. active_writers' = 1 /\ active_readers' = 0
      BY <1>1, <1>4 DEF TypeOK
    <2>3. TypeOK'
      BY <1>1, <1>2, <1>4, <2>1 DEF TypeOK
    <2>4. Bookkeeping'
      BY <1>1, <1>2, <1>4, <2>1 DEF Bookkeeping
    <2>5. NoLostWakeup'
      BY <1>4, <2>2, <2>3 DEF NoLostWakeup, TypeOK
    <2> QED
      BY <2>2, <2>3, <2>4, <2>5 DEF IInv, OneSided
  <1> QED
    BY <1>3, <1>4 DEF writer_checkin, WriterTest

LEMMA WriterWakeupStep ==
  ASSUME IInv, NEW t \in Thread, writer_wakeup(t)
  PROVE  IInv'
  <1>1. /\ TypeOK /\ Bookkeeping /\ OneSided /\ NoLostWakeup
        /\ pc[t] = "w_wait" /\ t \in signalled /\ t \in At("w_wait")
        /\ t \notin Elems(ok_to_read) /\ t \notin Elems(ok_to_write)
    BY DEF IInv, writer_wakeup, Wake, Bookkeeping, At
  <1>2. /\ signalled' = signalled \ {t} /\ ops' = ops
        /\ waiting_writers \in Nat /\ waiting_writers - 1 \in Nat
        /\ t \notin At("r_wait")
    BY <1>1, IInvFacts DEF writer_wakeup, Wake, At
  <1>3. CASE /\ active_writers + active_readers > 0
             /\ waiting_writers' = waiting_writers - 1 + 1
             /\ ok_to_write' = Append(ok_to_write, t)
             /\ Goto(t, "w_wait")
             /\ UNCHANGED <<active_readers, active_writers, waiting_readers, ok_to_read>>
    <2>1. pc' = pc /\ \A p \in PCs : At(p)' = At(p)
      BY <1>1, <1>3, StayFacts DEF TypeOK, At
    <2>2. /\ ok_to_write' \in Seq(Thread)
          /\ Elems(ok_to_write') = Elems(ok_to_write) \cup {t}
          /\ Distinct(ok_to_write')
      <3>1. ok_to_write \in Seq(Thread) /\ Distinct(ok_to_write)
        BY <1>1 DEF TypeOK, Bookkeeping
      <3> QED
        BY <1>1, <1>3, <3>1, AppendFacts
    <2>3. waiting_writers' = waiting_writers
      BY <1>2, <1>3
    <2>4. TypeOK'
      BY <1>1, <1>2, <1>3, <2>1, <2>2, <2>3 DEF TypeOK
    <2>5. Bookkeeping'
      BY <1>1, <1>2, <1>3, <2>1, <2>2, <2>3 DEF Bookkeeping
    <2>6. NoLostWakeup'
      <3>1. active_readers' + active_writers' > 0
        BY <1>1, <1>3 DEF TypeOK
      <3> QED
        BY <1>1, <1>3, <2>3, <3>1 DEF NoLostWakeup
    <2> QED
      BY <1>1, <1>3, <2>4, <2>5, <2>6 DEF IInv, OneSided
  <1>4. CASE /\ active_writers + active_readers = 0
             /\ waiting_writers' = waiting_writers - 1
             /\ active_writers' = active_writers + 1
             /\ Goto(t, "writing")
             /\ UNCHANGED <<active_readers, waiting_readers, ok_to_read, ok_to_write>>
    <2>1. /\ pc' \in [Thread -> PCs]
          /\ At("writing")' = At("writing") \cup {t}
          /\ At("w_wait")' = At("w_wait") \ {t}
          /\ \A r \in {"r_wait", "reading"} : At(r)' = At(r)
          /\ Cardinality(At("writing")') = Cardinality(At("writing")) + 1
          /\ Cardinality(At("w_wait")') = Cardinality(At("w_wait")) - 1
      BY <1>1, <1>4, MoveFacts DEF TypeOK
    <2>2. active_writers' = 1 /\ active_readers' = 0
      BY <1>1, <1>4 DEF TypeOK
    <2>3. TypeOK'
      BY <1>1, <1>2, <1>4, <2>1 DEF TypeOK
    <2>4. Bookkeeping'
      BY <1>1, <1>2, <1>4, <2>1 DEF Bookkeeping
    <2>5. NoLostWakeup'
      BY <1>4, <2>2, <2>3 DEF NoLostWakeup, TypeOK
    <2> QED
      BY <2>2, <2>3, <2>4, <2>5 DEF IInv, OneSided
  <1> QED
    BY <1>3, <1>4 DEF writer_wakeup, WriterTest

\* A writer that cond_signal pops is signalled and still waiting.
LEMMA SignalFacts ==
  ASSUME IInv, SignalWriter, waiting_writers > 0
  PROVE  /\ ok_to_write' \in Seq(Thread) /\ Distinct(ok_to_write')
         /\ signalled' \subseteq Thread
         /\ Elems(ok_to_write') = At("w_wait") \ signalled'
         /\ Elems(ok_to_read) = At("r_wait") \ signalled'
         /\ signalled' \subseteq At("r_wait") \cup At("w_wait")
         /\ \E u \in signalled' : u \in At("w_wait")
  <1>1. /\ ok_to_write \in Seq(Thread) /\ Distinct(ok_to_write)
        /\ signalled \subseteq Thread
        /\ Elems(ok_to_read) = At("r_wait") \ signalled
        /\ Elems(ok_to_write) = At("w_wait") \ signalled
        /\ signalled \subseteq At("r_wait") \cup At("w_wait")
        /\ At("r_wait") \cap At("w_wait") = {}
    BY DEF IInv, TypeOK, Bookkeeping, At
  <1>2. CASE ok_to_write = <<>>
    <2>1. Elems(ok_to_write) = {}
      BY <1>1, <1>2, EmptyFacts
    <2>2. At("w_wait") # {}
      BY CountFacts DEF IInv, Bookkeeping
    <2>3. ok_to_write' = ok_to_write /\ signalled' = signalled
      BY <1>2 DEF SignalWriter
    <2> QED
      BY <1>1, <2>1, <2>2, <2>3
  <1>3. CASE ok_to_write # <<>>
    <2>1. ok_to_write' = Tail(ok_to_write) /\ signalled' = signalled \cup {Head(ok_to_write)}
      BY <1>3 DEF SignalWriter
    <2>2. /\ Tail(ok_to_write) \in Seq(Thread)
          /\ Head(ok_to_write) \in Elems(ok_to_write)
          /\ Elems(Tail(ok_to_write)) = Elems(ok_to_write) \ {Head(ok_to_write)}
          /\ Distinct(Tail(ok_to_write))
      BY <1>1, <1>3, PopFacts
    <2>3. Head(ok_to_write) \in Thread
      BY <1>1, <2>2 DEF At
    <2> QED
      BY <1>1, <2>1, <2>2, <2>3
  <1> QED
    BY <1>2, <1>3

LEMMA ReaderCheckoutStep ==
  ASSUME IInv, NEW t \in Thread, reader_checkout(t)
  PROVE  IInv'
  <1>1. /\ TypeOK /\ Bookkeeping /\ OneSided /\ NoLostWakeup
        /\ pc[t] = "reading" /\ t \in At("reading")
        /\ active_readers' = active_readers - 1
        /\ UNCHANGED <<active_writers, waiting_readers, waiting_writers, ok_to_read, ops>>
    BY DEF IInv, reader_checkout, At
  <1>2. active_readers \in Nat \ {0} /\ active_writers = 0
    BY <1>1, CountFacts DEF Bookkeeping, OneSided
  <1>3. /\ pc' \in [Thread -> PCs]
        /\ At("reading")' = At("reading") \ {t}
        /\ \A r \in {"r_wait", "w_wait", "writing"} : At(r)' = At(r)
        /\ Cardinality(At("reading")') = Cardinality(At("reading")) - 1
    BY <1>1, MoveFacts DEF TypeOK, reader_checkout
  <1>4. /\ ok_to_write' \in Seq(Thread) /\ Distinct(ok_to_write')
        /\ signalled' \subseteq Thread
        /\ Elems(ok_to_write') = At("w_wait") \ signalled'
        /\ Elems(ok_to_read) = At("r_wait") \ signalled'
        /\ signalled' \subseteq At("r_wait") \cup At("w_wait")
        /\ \/ active_readers' > 0
           \/ waiting_writers = 0 /\ ok_to_write' = ok_to_write
           \/ \E u \in signalled' : u \in At("w_wait")
    <2>1. CASE active_readers' = 0 /\ waiting_writers > 0
      BY <2>1, SignalFacts DEF reader_checkout
    <2>2. CASE ~(active_readers' = 0 /\ waiting_writers > 0)
      <3>1. ok_to_write' = ok_to_write /\ signalled' = signalled
        BY <2>2 DEF reader_checkout
      <3>2. active_readers' > 0 \/ waiting_writers = 0
        BY <1>1, <1>2, <2>2 DEF TypeOK
      <3> QED
        BY <1>1, <3>1, <3>2 DEF TypeOK, Bookkeeping
    <2> QED
      BY <2>1, <2>2
  <1>5. TypeOK'
    BY <1>1, <1>2, <1>3, <1>4 DEF TypeOK
  <1>6. Bookkeeping'
    BY <1>1, <1>3, <1>4 DEF Bookkeeping
  <1>7. NoLostWakeup'
    <2>1. ok_to_read' # <<>> => active_writers' + waiting_writers' > 0
      BY <1>1 DEF NoLostWakeup
    <2>2. CASE active_readers' > 0
      BY <1>1, <1>2, <2>1, <2>2 DEF NoLostWakeup
    <2>3. CASE waiting_writers = 0 /\ ok_to_write' = ok_to_write
      <3>1. ok_to_write = <<>>
        BY <1>1, <2>3, IInvFacts, CountFacts, EmptyFacts DEF Bookkeeping, TypeOK
      <3> QED
        BY <2>1, <2>3, <3>1 DEF NoLostWakeup
    <2>4. CASE \E u \in signalled' : u \in At("w_wait")
      <3>1. PICK u \in signalled' : u \in At("w_wait")
        BY <2>4
      <3>2. u \in At("w_wait")'
        BY <1>3, <3>1
      <3>3. pc'[u] = "w_wait"
        BY <3>2 DEF At
      <3> QED
        BY <2>1, <3>1, <3>3 DEF NoLostWakeup
    <2> QED
      BY <1>4, <2>2, <2>3, <2>4
  <1> QED
    BY <1>1, <1>2, <1>5, <1>6, <1>7 DEF IInv, OneSided

LEMMA WriterCheckoutStep ==
  ASSUME IInv, NEW t \in Thread, writer_checkout(t)
  PROVE  IInv'
  <1>1. /\ TypeOK /\ Bookkeeping /\ OneSided /\ NoLostWakeup
        /\ pc[t] = "writing" /\ t \in At("writing")
        /\ active_writers' = active_writers - 1
        /\ UNCHANGED <<active_readers, waiting_readers, waiting_writers, ops>>
    BY DEF IInv, writer_checkout, At
  <1>2. active_writers = 1 /\ active_readers = 0 /\ active_writers' = 0
    BY <1>1, IInvFacts
  <1>3. /\ pc' \in [Thread -> PCs]
        /\ At("writing")' = At("writing") \ {t}
        /\ \A r \in {"r_wait", "w_wait", "reading"} : At(r)' = At(r)
        /\ Cardinality(At("writing")') = Cardinality(At("writing")) - 1
    BY <1>1, MoveFacts DEF TypeOK, writer_checkout
  <1>4. /\ ok_to_read \in Seq(Thread) /\ ok_to_write \in Seq(Thread)
        /\ Distinct(ok_to_read) /\ Distinct(ok_to_write)
        /\ signalled \subseteq Thread
        /\ Elems(ok_to_read) = At("r_wait") \ signalled
        /\ Elems(ok_to_write) = At("w_wait") \ signalled
        /\ signalled \subseteq At("r_wait") \cup At("w_wait")
        /\ At("r_wait") \cap At("w_wait") = {}
        /\ At("r_wait") \subseteq Thread
    BY <1>1 DEF TypeOK, Bookkeeping, At
  <1>5. /\ ok_to_read' \in Seq(Thread) /\ ok_to_write' \in Seq(Thread)
        /\ Distinct(ok_to_read') /\ Distinct(ok_to_write')
        /\ signalled' \subseteq Thread
        /\ Elems(ok_to_read') = At("r_wait") \ signalled'
        /\ Elems(ok_to_write') = At("w_wait") \ signalled'
        /\ signalled' \subseteq At("r_wait") \cup At("w_wait")
        /\ \/ waiting_writers > 0 /\ \E u \in signalled' : u \in At("w_wait")
           \/ ok_to_read' = <<>> /\ ok_to_write' = <<>>
    <2>1. CASE waiting_writers > 0 /\ SignalWriter /\ ok_to_read' = ok_to_read
      BY <1>4, <2>1, SignalFacts
    <2>2. CASE /\ waiting_writers = 0 /\ waiting_readers > 0
               /\ BroadcastReaders /\ ok_to_write' = ok_to_write
      <3>1. ok_to_write = <<>>
        BY <1>1, <2>2, IInvFacts
      <3>2. ok_to_read' = <<>> /\ signalled' = signalled \cup Elems(ok_to_read)
        BY <2>2 DEF BroadcastReaders
      <3>3. ok_to_read' \in Seq(Thread) /\ Elems(ok_to_read') = {} /\ Distinct(ok_to_read')
        BY <1>4, <3>2, EmptyFacts
      <3>4. Elems(ok_to_write') = At("w_wait") \ signalled'
        BY <1>4, <2>2, <3>2
      <3> QED
        BY <1>4, <2>2, <3>1, <3>2, <3>3, <3>4
    <2>3. CASE /\ waiting_writers = 0 /\ waiting_readers = 0
               /\ UNCHANGED <<ok_to_read, ok_to_write, signalled>>
      BY <1>1, <1>4, <2>3, IInvFacts
    <2> QED
      BY <2>1, <2>2, <2>3 DEF writer_checkout
  <1>6. TypeOK'
    BY <1>1, <1>2, <1>3, <1>5 DEF TypeOK
  <1>7. Bookkeeping'
    BY <1>1, <1>3, <1>5 DEF Bookkeeping
  <1>8. NoLostWakeup'
    <2>1. CASE waiting_writers > 0 /\ \E u \in signalled' : u \in At("w_wait")
      <3>1. active_writers' + waiting_writers' > 0
        BY <1>1, <1>2, <2>1 DEF TypeOK
      <3>2. PICK u \in signalled' : u \in At("w_wait")
        BY <2>1
      <3>3. u \in At("w_wait")'
        BY <1>3, <3>2
      <3>4. pc'[u] = "w_wait"
        BY <3>3 DEF At
      <3> QED
        BY <3>1, <3>2, <3>4 DEF NoLostWakeup
    <2>2. CASE ok_to_read' = <<>> /\ ok_to_write' = <<>>
      BY <2>2 DEF NoLostWakeup
    <2> QED
      BY <1>5, <2>1, <2>2
  <1> QED
    BY <1>2, <1>6, <1>7, <1>8 DEF IInv, OneSided
-----------------------------------------------------------------------------
\* IInv is inductive: every step of the monitor preserves it.
LEMMA NextIInv == IInv /\ [Next]_vars => IInv'
  <1> SUFFICES ASSUME IInv, [Next]_vars PROVE IInv'
    OBVIOUS
  <1>1. CASE Next
    BY <1>1, ReaderCheckinStep, ReaderWakeupStep, ReaderCheckoutStep,
       WriterCheckinStep, WriterWakeupStep, WriterCheckoutStep DEF Next, Run
  <1>2. CASE UNCHANGED vars
    <2>1. UNCHANGED <<active_readers, active_writers, waiting_readers,
                      waiting_writers, ok_to_read, ok_to_write, signalled, pc, ops>>
      BY <1>2 DEF vars, counters
    <2> QED
      BY <2>1 DEF IInv, TypeOK, Bookkeeping, OneSided, NoLostWakeup, At
  <1> QED
    BY <1>1, <1>2

LEMMA AlwaysIInv == Spec => []IInv
  BY InitIInv, NextIInv, PTL DEF Spec

\* The counters never go below zero and the queues only ever hold threads,
\* whatever the number of threads and the order of the four monitor calls.
THEOREM TypeCorrect == Spec => []TypeOK
  <1>1. IInv => TypeOK
    BY DEF IInv
  <1> QED
    BY <1>1, AlwaysIInv, PTL

\* The counters and wait queues of struct inode always agree with where the
\* threads are, across sleeping, signalling and waking up.
THEOREM CountersAgree == Spec => []Bookkeeping
  <1>1. IInv => Bookkeeping
    BY DEF IInv
  <1> QED
    BY <1>1, AlwaysIInv, PTL

\* What inode_write_at relies on: a thread between writer_checkin and
\* writer_checkout is alone in the inode.
THEOREM WriterAlone == Spec => []Exclusion
  <1>1. ASSUME IInv PROVE Exclusion
    <2> SUFFICES ASSUME NEW t \in Thread, NEW u \in Thread, pc[t] = "writing",
                        pc[u] \in {"reading", "writing"}
                 PROVE  t = u
      BY DEF Exclusion
    <2>1. t \in At("writing") /\ active_writers = 1 /\ active_readers = 0
      BY <1>1, IInvFacts DEF At
    <2>2. u \notin At("reading")
      BY <1>1, <2>1, IInvFacts
    <2>3. u \in At("writing")
      BY <2>2 DEF At
    <2>4. Cardinality(At("writing")) = 1
      BY <1>1, <2>1 DEF IInv, Bookkeeping
    <2>5. \E x : At("writing") = {x}
      BY <2>4, CountFacts, FS_Singleton
    <2> QED
      BY <2>1, <2>3, <2>5
  <1>2. IInv => Exclusion
    BY <1>1
  <1> QED
    BY <1>2, AlwaysIInv, PTL

\* No thread sleeps in reader_checkin or writer_checkin unless some thread is
\* inside, or on its way in, whose check-out will wake a sleeper.
THEOREM NoWakeupLost == Spec => []NoLostWakeup
  <1>1. IInv => NoLostWakeup
    BY DEF IInv
  <1> QED
    BY <1>1, AlwaysIInv, PTL

\* Step by step, the monitor does what a reader/writer lock does: check-ins
\* that find the way free and check-outs are the lock's steps, everything a
\* thread does to go to sleep or wake up is invisible.
LEMMA StepRefines ==
  ASSUME IInv, [Next]_vars
  PROVE  [Abstract!Next]_(Abstract!rwVars)
  <1>1. CASE UNCHANGED vars
    BY <1>1 DEF vars, Abstract!rwVars, At
  <1>2. CASE Next
    <2>1. PICK t \in Thread : reader_checkin(t) \/ writer_checkin(t) \/ Run(t)
      BY <1>2 DEF Next
    <2>2. pc \in [Thread -> PCs] /\ TypeOK /\ Bookkeeping
      BY DEF IInv, TypeOK
    <2>3. CASE /\ pc[t] \in {"out", "r_wait"}
               /\ active_writers + waiting_writers = 0 /\ Goto(t, "reading")
      <3>1. At("writing") = {}
        BY <2>2, <2>3, CountFacts DEF TypeOK, Bookkeeping
      <3>2. t \notin At("reading")
        BY <2>3 DEF At
      <3>3. At("reading")' = At("reading") \cup {t} /\ At("writing")' = At("writing")
        BY <2>2, <2>3 DEF Goto, At
      <3> QED
        BY <3>1, <3>2, <3>3 DEF Abstract!Next, Abstract!BeginRead
    <2>4. CASE /\ pc[t] \in {"out", "w_wait"}
               /\ active_writers + active_readers = 0 /\ Goto(t, "writing")
      <3>1. At("writing") = {} /\ At("reading") = {}
        <4>1. active_writers = 0 /\ active_readers = 0
          BY <2>2, <2>4 DEF TypeOK
        <4> QED
          BY <2>2, <4>1, CountFacts DEF Bookkeeping
      <3>2. At("writing")' = At("writing") \cup {t} /\ At("reading")' = At("reading")
        BY <2>2, <2>4 DEF Goto, At
      <3> QED
        BY <3>1, <3>2 DEF Abstract!Next, Abstract!BeginWrite
    <2>5. CASE pc[t] = "reading" /\ Goto(t, "out")
      <3>1. /\ t \in At("reading")
            /\ At("reading")' = At("reading") \ {t} /\ At("writing")' = At("writing")
        BY <2>2, <2>5 DEF Goto, At
      <3> QED
        BY <3>1 DEF Abstract!Next, Abstract!EndRead
    <2>6. CASE pc[t] = "writing" /\ Goto(t, "out")
      <3>1. /\ t \in At("writing")
            /\ At("writing")' = At("writing") \ {t} /\ At("reading")' = At("reading")
        BY <2>2, <2>6 DEF Goto, At
      <3> QED
        BY <3>1 DEF Abstract!Next, Abstract!EndWrite
    <2>7. CASE /\ pc[t] \in {"out", "r_wait", "w_wait"}
               /\ Goto(t, "r_wait") \/ Goto(t, "w_wait")
      <3>1. At("reading")' = At("reading") /\ At("writing")' = At("writing")
        BY <2>2, <2>7 DEF Goto, At
      <3> QED
        BY <3>1 DEF Abstract!rwVars
    <2> QED
      BY <2>1, <2>3, <2>4, <2>5, <2>6, <2>7
      DEF Run, reader_checkin, reader_wakeup, reader_checkout, writer_checkin,
          writer_wakeup, writer_checkout, ReaderTest, WriterTest, StartOp
  <1> QED
    BY <1>1, <1>2

\* The monitor of inode.c implements the reader/writer lock of RWLock.tla.
THEOREM Refinement == Spec => ImplementsRWLock
  <1>1. Init => Abstract!Init
    BY DEF Init, Abstract!Init, At
  <1>2. IInv /\ [Next]_vars => [Abstract!Next]_(Abstract!rwVars)
    BY StepRefines
  <1> QED
    BY <1>1, <1>2, AlwaysIInv, PTL DEF Spec, ImplementsRWLock, Abstract!Spec
=============================================================================

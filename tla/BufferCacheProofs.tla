------------------------- MODULE BufferCacheProofs -------------------------
(***************************************************************************)
(* Proofs about the buffer cache, for every number of threads, sectors and *)
(* cache elements.                                                         *)
(*                                                                         *)
(* RightSector, ReadsWritten and FlushDurable are not inductive.  That a   *)
(* thread has the right sector rests on who holds which lock (Locking) and *)
(* on the shape of the list (ListShape); that it reads what was written,   *)
(* on what every element and every sector of the disk hold meanwhile       *)
(* (Coherence); that the flush makes it durable, on which elements the     *)
(* flush has still to visit (Flushing).                                    *)
(***************************************************************************)
EXTENDS BufferCache, ListLemmas, TLAPS

Listed == Range(buffer_cache)

\* Threads between get_cached_sector and lock_release (&cs->sector_lock).
Has(t) == pc[t] \in {"have", "copy2", "copied"}

\* The halves t has still to copy.
Pending(t) ==
  CASE pc[t] = "have" -> Written(op[t].kind)
    [] pc[t] = "copy2" -> Written(op[t].kind) \ {1}
    [] OTHER -> {}

Flushes == pc[Flusher] \in {"flush", "clear"}

\* The list is a sequence of different elements numbered from 1, each caching a
\* sector that no other caches.
ListShape ==
  /\ Distinct(buffer_cache)
  /\ \A i \in Listed : i <= Len(buffer_cache) /\ sector_idx[i] \in Sector
  /\ \A i, j \in Listed : i # j => sector_idx[i] # sector_idx[j]
  /\ \A i \in Slot \ Listed : ~dirty[i]

\* What a thread at each place holds and knows.
Locking ==
  /\ pc[Flusher] \in {"idle", "flush", "clear", "off"}
  /\ Flushes => buffer_cache_lock = Flusher
  /\ \A t \in Thread :
       /\ pc[t] \in {"idle", "search", "found", "evict", "have", "copy2", "copied"}
       /\ pc[t] # "idle" => op[t].sector \in Sector
       /\ pc[t] \in {"copy2", "copied"} => op[t].kind # "read"
       /\ pc[t] \in {"found", "evict"} \/ Has(t) => slot[t] \in Listed
       /\ pc[t] = "evict" => /\ buffer_cache_lock = t
                             /\ \A i \in Listed : sector_idx[i] # op[t].sector
       /\ Has(t) => sector_lock[slot[t]] = t /\ sector_idx[slot[t]] = op[t].sector

\* Where the contents of a sector are.
Coherence ==
  /\ \A i \in Listed, h \in Half :
       \/ data[i][h] = Expected(sector_idx[i])[h]
       \/ \E t \in Thread :
            /\ Has(t) /\ slot[t] = i /\ h \in Pending(t)
            /\ pc[Flusher] = "idle" \/ sector_idx[i] \in touched
  /\ \A i \in Listed :
       /\ ~dirty[i] /\ sector_idx[i] \notin touched
       /\ pc[Flusher] = "idle" => sector_idx[i] \notin BeingWritten
       => disk[sector_idx[i]] = Expected(sector_idx[i])
  /\ \A s \in Sector :
       (\A i \in Listed : sector_idx[i] # s) => disk[s] = Expected(s)

\* What write_all_dirty_sectors has done and has still to do.
Flushing ==
  /\ pc[Flusher] = "idle" => touched = {}
  /\ Flushes => \A i \in Range(flush) : i \in Listed
  /\ pc[Flusher] # "idle" =>
       \A i \in Listed : dirty[i] /\ sector_idx[i] \notin touched =>
         Flushes /\ i \in Range(flush)
  /\ pc[Flusher] = "clear" =>
       /\ flush # <<>>
       /\ sector_idx[Head(flush)] \notin touched =>
            disk[sector_idx[Head(flush)]] = Expected(sector_idx[Head(flush)])

IInv == TypeOK /\ ListShape /\ Locking /\ Coherence /\ Flushing
-----------------------------------------------------------------------------

\* What a request may write.
LEMMA WrittenFacts ==
  /\ Written("read") = {} /\ Written("write") = Half /\ Written("partial") = {1}
  /\ Half = {1, 2}
  /\ \A k \in Kind : Written(k) \subseteq Half /\ (k # "read" => 1 \in Written(k))
  BY DEF Written, Half, Kind

\* Most leaves are for Zenon, some for SMT, a few take Zenon longer.
USE CacheAssumption, ZenonT(5), SMTT(20), ZenonT(60)

\* The invariant holds when the cache has just been created or filled by reads.
LEMMA InitIInv == Init => IInv
<1> SUFFICES ASSUME Init PROVE IInv
  OBVIOUS
<1>1. PICK n \in {0, CacheSize} :
        /\ buffer_cache = [i \in 1..n |-> i]
        /\ sector_idx = [i \in Slot |-> IF i <= n THEN i ELSE NoSector]
        /\ data = [i \in Slot |-> [h \in Half |-> IF i <= n THEN "initial" ELSE Zero]]
  BY DEF Init
<1>2. n \in Nat /\ n <= CacheSize /\ 1..n \subseteq Slot
  BY DEF Slot
<1>3. buffer_cache \in Seq(Slot) /\ Len(buffer_cache) = n /\ Distinct(buffer_cache)
  BY <1>1, <1>2 DEF Distinct
<1>4. Listed = 1..n
  BY <1>1, <1>2 DEF Listed, Range
<1>5. TypeOK
  BY <1>1, <1>2, <1>3 DEF Init, TypeOK, Slot, Sector, Content, NoRequest, Kind, Half, NoSector
<1>6. ListShape
  <2>1. \A i \in 1..n : i \in Slot /\ i <= n /\ i \in Sector /\ sector_idx[i] = i
    BY <1>1, <1>2 DEF Slot, Sector
  <2>2. \A i \in Slot : ~dirty[i]
    BY DEF Init
  <2> QED BY <2>1, <2>2, <1>3, <1>4 DEF ListShape
<1>7. Locking
  BY DEF Init, Locking, Has, Flushes
<1>8. \A s \in Sector : disk[s] = Expected(s)
  BY DEF Init, Expected
<1>9. \A i \in Listed : data[i] = Expected(sector_idx[i])
  <2> TAKE i \in Listed
  <2>1. i \in Slot /\ i <= n /\ sector_idx[i] \in Sector
    BY <1>2, <1>4, <1>6 DEF ListShape
  <2>2. data[i] = [h \in Half |-> "initial"]
    BY <2>1, <1>1
  <2>3. disk[sector_idx[i]] = [h \in Half |-> "initial"]
    BY <2>1 DEF Init
  <2> QED BY <2>1, <2>2, <2>3, <1>8
<1>10. Coherence
  BY <1>6, <1>8, <1>9 DEF Coherence, ListShape
<1>11. Flushing
  BY DEF Init, Flushing, Flushes
<1> QED BY <1>5, <1>6, <1>7, <1>10, <1>11 DEF IInv

\* t may put slot i in front of the rest of the list for the sector it asks for:
\* nobody uses the slot and no slot of the list caches the sector.
Fillable(t, i, rest) ==
  /\ On /\ pc[t] \in {"search", "evict"} /\ ~Flushes
  /\ \A j \in Listed : sector_idx[j] # op[t].sector
  /\ Distinct(rest) /\ Range(rest) = Listed \ {i} /\ Len(rest) < CacheSize
  /\ \A j \in Listed \cup {i} : j <= Len(rest) + 1
  /\ \A u \in Thread : Has(u) => slot[u] # i
  /\ \A u \in Thread \ {t} : pc[u] # "evict"

\* t fills slot i, which nobody uses: IInv is preserved whether the slot is new
\* (get_cached_sector with room) or was the last of the list (evict).
LEMMA FillIInv ==
  ASSUME IInv, NEW t \in Thread, NEW i \in Slot, NEW rest \in Seq(Slot),
         Fillable(t, i, rest), Fill(t, i, rest), buffer_cache_lock' = None,
         UNCHANGED <<op, ops, flush, latest, touched>>
  PROVE  IInv'
<1> DEFINE s == op[t].sector
           k == op[t].kind
<1> USE DEF IInv
<1>1. s \in Sector /\ k \in Kind /\ op' = op /\ op[t] \in [kind : Kind, sector : Sector \cup {NoSector}]
  BY DEF Locking, TypeOK, Fillable
<1>2. pc[Flusher] = "idle" /\ touched = {} /\ touched' = {}
  BY DEF Locking, Flushing, Flushes, On, Fillable
<1>3. /\ buffer_cache' \in Seq(Slot) /\ Len(buffer_cache') = Len(rest) + 1
      /\ Listed' = Listed \cup {i} /\ Distinct(buffer_cache')
  <2>1. buffer_cache' = <<i>> \o rest /\ i \notin Range(rest)
    BY DEF Fill, Fillable
  <2> QED BY <2>1, PushFrontFacts DEF Listed, Fillable
<1>4. /\ Listed \subseteq Slot /\ Listed' \subseteq Slot
  BY <1>3, RangeFacts DEF Listed, TypeOK
<1>5. /\ sector_idx'[i] = s
      /\ \A j \in Slot \ {i} : /\ sector_idx'[j] = sector_idx[j] /\ data'[j] = data[j]
                               /\ dirty'[j] = dirty[j] /\ sector_lock'[j] = sector_lock[j]
      /\ dirty'[i] = FALSE /\ sector_lock'[i] = t
  BY DEF Fill, TypeOK
<1>6. /\ pc'[t] = "have" /\ slot'[t] = i
      /\ \A u \in Thread \ {t} : pc'[u] = pc[u] /\ slot'[u] = slot[u]
      /\ pc'[Flusher] = "idle"
  BY <1>2 DEF Fill, Goto, TypeOK
<1>7. \A u \in Thread \ {t} : (Has(u) <=> Has(u)') /\ Pending(u)' = Pending(u)
  BY <1>1, <1>6 DEF Has, Pending
<1>8. ~Has(t) /\ Has(t)'
  BY <1>6 DEF Has, Fillable
\* The disk after the old sector of the slot has been written back.
<1>9. ASSUME NEW r \in Sector, \A j \in Listed \ {i} : sector_idx[j] # r
      PROVE  disk'[r] = Expected(r)
  <2>1. CASE i \in Listed /\ sector_idx[i] = r
    <3>1. data[i] = Expected(r)
      <4>1. \A h \in Half : data[i][h] = Expected(r)[h]
        BY <2>1, <1>4 DEF Coherence, Fillable
      <4>2. data[i] \in [Half -> Content]
        BY DEF TypeOK
      <4> QED BY <4>1, <4>2 DEF Expected
    <3>2. CASE dirty[i]
      BY <3>1, <3>2, <2>1 DEF Fill, TypeOK
    <3>3. CASE ~dirty[i]
      <4>1. r \notin BeingWritten
        BY <2>1 DEF BeingWritten, Locking, ListShape, Has, Fillable
      <4>2. disk[r] = Expected(r)
        BY <4>1, <3>3, <2>1, <1>2 DEF Coherence
      <4> QED BY <4>2, <3>3 DEF Fill
    <3> QED BY <3>2, <3>3
  <2>2. CASE ~(i \in Listed /\ sector_idx[i] = r)
    <3>1. \A j \in Listed : sector_idx[j] # r
      BY <2>2, <1>9
    <3>2. disk[r] = Expected(r)
      BY <3>1 DEF Coherence
    <3>3. dirty[i] => sector_idx[i] # r
      BY <3>1 DEF ListShape
    <3> QED BY <3>2, <3>3 DEF Fill, TypeOK
  <2> QED BY <2>1, <2>2
<1>10. \A j \in Listed \ {i} : disk'[sector_idx[j]] = disk[sector_idx[j]]
  <2> TAKE j \in Listed \ {i}
  <2>1. dirty[i] => i \in Listed /\ sector_idx[i] # sector_idx[j]
    BY DEF ListShape
  <2>2. sector_idx[j] \in Sector
    BY DEF ListShape
  <2> QED BY <2>1, <2>2 DEF Fill, TypeOK
<1>11. \A r \in Sector \ {s} : Expected(r)' = Expected(r)
  BY <1>1 DEF Expected, Fill, TypeOK
<1>12. TypeOK'
  <2>1. disk' \in [Sector -> [Half -> Content]]
    BY DEF Fill, TypeOK
  <2>2. data' \in [Slot -> [Half -> Content]]
    BY <2>1, <1>1 DEF Fill, TypeOK, Content
  <2>3. zeroed' \in [Sector -> SUBSET Half]
    BY <1>1 DEF Fill, TypeOK
  <2>4. /\ sector_idx' \in [Slot -> Sector \cup {NoSector}]
        /\ dirty' \in [Slot -> BOOLEAN]
        /\ sector_lock' \in [Slot -> Thread \cup {None}]
        /\ slot' \in [Thread -> Slot]
    BY <1>1 DEF Fill, TypeOK
  <2>5. pc' \in [Thread \cup {Flusher} ->
               {"idle", "search", "found", "evict", "have", "copy2", "copied",
                "flush", "clear", "off"}]
    BY DEF Fill, TypeOK, Goto
  <2>6. Len(buffer_cache') <= CacheSize
    BY <1>3 DEF Fillable
  <2> QED BY <2>1, <2>2, <2>3, <2>4, <2>5, <2>6, <1>3 DEF TypeOK
<1>13. ListShape'
  <2>1. \A j \in Listed' : j <= Len(buffer_cache') /\ sector_idx'[j] \in Sector
    BY <1>1, <1>3, <1>4, <1>5 DEF ListShape, Fillable
  <2>2. \A j, l \in Listed' : j # l => sector_idx'[j] # sector_idx'[l]
    BY <1>3, <1>4, <1>5 DEF ListShape, Fillable
  <2>3. \A j \in Slot \ Listed' : ~dirty'[j]
    BY <1>3, <1>5 DEF ListShape
  <2> QED BY <2>1, <2>2, <2>3, <1>3 DEF ListShape
<1>14. Locking'
  <2>1. pc'[Flusher] \in {"idle", "flush", "clear", "off"} /\ ~Flushes'
    BY <1>6 DEF Flushes
  <2>2. ASSUME NEW u \in Thread
        PROVE  /\ pc'[u] \in {"idle", "search", "found", "evict", "have", "copy2", "copied"}
               /\ pc'[u] # "idle" => op'[u].sector \in Sector
               /\ pc'[u] \in {"copy2", "copied"} => op'[u].kind # "read"
               /\ pc'[u] \in {"found", "evict"} \/ Has(u)' => slot'[u] \in Listed'
               /\ pc'[u] = "evict" => /\ buffer_cache_lock' = u
                                      /\ \A j \in Listed' : sector_idx'[j] # op'[u].sector
               /\ Has(u)' => sector_lock'[slot'[u]] = u /\ sector_idx'[slot'[u]] = op'[u].sector
    <3>1. CASE u = t
      BY <3>1, <1>1, <1>3, <1>5, <1>6
    <3>2. CASE u # t
      <4>1. slot[u] \in Slot
        BY DEF TypeOK
      <4>2. Has(u) => slot[u] \in Listed /\ sector_lock[slot[u]] = u /\ sector_idx[slot[u]] = op[u].sector
        BY DEF Locking
      <4>3. Has(u)' => sector_lock'[slot'[u]] = u /\ sector_idx'[slot'[u]] = op'[u].sector
        BY <3>2, <4>1, <4>2, <1>1, <1>5, <1>6, <1>7 DEF Fillable
      <4>4. pc[u] \in {"found", "evict"} \/ Has(u) => slot[u] \in Listed
        BY DEF Locking
      <4>5. pc'[u] \in {"found", "evict"} \/ Has(u)' => slot'[u] \in Listed'
        BY <4>4, <3>2, <1>3, <1>6, <1>7
      <4> QED BY <3>2, <4>3, <4>5, <1>1, <1>6 DEF Locking, Fillable
    <3> QED BY <3>1, <3>2
  <2> QED BY <2>1, <2>2 DEF Locking
<1>15. disk'[s] = Expected(s)
  BY <1>1, <1>9 DEF Fillable
<1>16. ASSUME k = "read" PROVE data'[i] = disk'[s] /\ Expected(s)' = Expected(s)
  BY <1>16, <1>1 DEF Fill, TypeOK, Expected
<1>17. ASSUME k # "read", NEW h \in Half \ Written(k)
       PROVE  data'[i][h] = Zero /\ Expected(s)'[h] = Zero
  BY <1>17, <1>1 DEF Fill, TypeOK, Expected
<1>18. Coherence'
  <2>1. ASSUME NEW j \in Listed', NEW h \in Half
        PROVE  \/ data'[j][h] = Expected(sector_idx[j])'[h]
               \/ \E u \in Thread :
                    /\ Has(u)' /\ slot'[u] = j /\ h \in Pending(u)'
                    /\ pc'[Flusher] = "idle" \/ sector_idx'[j] \in touched'
    <3>1. CASE j = i
      <4>1. CASE k = "read"
        BY <3>1, <4>1, <1>5, <1>15, <1>16
      <4>2. CASE k # "read" /\ h \in Written(k)
        BY <3>1, <4>2, <1>1, <1>6, <1>8 DEF Pending
      <4>3. CASE k # "read" /\ h \notin Written(k)
        BY <3>1, <4>3, <1>5, <1>17
      <4> QED BY <4>1, <4>2, <4>3
    <3>2. CASE j # i
      <4>1. j \in Listed /\ sector_idx'[j] = sector_idx[j] /\ data'[j] = data[j]
            /\ sector_idx[j] \in Sector \ {s}
        BY <3>2, <1>3, <1>4, <1>5 DEF ListShape, Fillable
      <4>2. Expected(sector_idx[j])' = Expected(sector_idx[j])
        BY <4>1, <1>11
      <4>3. \/ data[j][h] = Expected(sector_idx[j])[h]
            \/ \E u \in Thread : Has(u) /\ slot[u] = j /\ h \in Pending(u)
        BY <4>1 DEF Coherence
      <4> QED BY <4>1, <4>2, <4>3, <1>6, <1>7, <1>8
    <3> QED BY <3>1, <3>2
  <2>2. ASSUME NEW j \in Listed', ~dirty'[j], sector_idx'[j] \notin BeingWritten'
        PROVE  disk'[sector_idx'[j]] = Expected(sector_idx[j])'
    <3>1. CASE j = i
      <4>1. k = "read"
        BY <2>2, <3>1, <1>1, <1>5, <1>6, <1>8 DEF BeingWritten, Has
      <4> QED BY <3>1, <4>1, <1>5, <1>15, <1>16
    <3>2. CASE j # i
      <4>1. j \in Listed /\ sector_idx'[j] = sector_idx[j] /\ ~dirty[j]
            /\ sector_idx[j] \in Sector \ {s}
        BY <2>2, <3>2, <1>3, <1>4, <1>5 DEF ListShape, Fillable
      <4>2. sector_idx[j] \notin BeingWritten
        BY <2>2, <4>1, <1>1, <1>6, <1>7, <1>8 DEF BeingWritten, Has
      <4>3. disk[sector_idx[j]] = Expected(sector_idx[j])
        BY <4>1, <4>2, <1>2 DEF Coherence
      <4> QED BY <3>2, <4>1, <4>3, <1>10, <1>11
    <3> QED BY <3>1, <3>2
  <2>3. ASSUME NEW r \in Sector, \A j \in Listed' : sector_idx'[j] # r
        PROVE  disk'[r] = Expected(r)'
    <3>1. r # s /\ \A j \in Listed \ {i} : sector_idx[j] # r
      BY <2>3, <1>3, <1>4, <1>5
    <3> QED BY <3>1, <1>9, <1>11
  <2> QED BY <2>1, <2>2, <2>3, <1>6 DEF Coherence
<1>19. Flushing'
  BY <1>2, <1>6 DEF Flushing, Flushes
<1> QED BY <1>12, <1>13, <1>14, <1>18, <1>19

\* What a step of t leaves alone for the other threads and the flusher.
LEMMA GotoFacts ==
  ASSUME TypeOK, NEW t \in Thread, NEW l, Goto(t, l)
  PROVE  /\ pc'[t] = l
         /\ \A u \in (Thread \cup {Flusher}) \ {t} : pc'[u] = pc[u]
         /\ pc'[Flusher] = pc[Flusher] /\ Flushes' = Flushes
         /\ l \in {"idle", "search", "found", "evict", "have", "copy2", "copied"} =>
              pc' \in [Thread \cup {Flusher} ->
                        {"idle", "search", "found", "evict", "have", "copy2", "copied",
                         "flush", "clear", "off"}]
  BY DEF Goto, TypeOK, Flushes

\* A request is made.
LEMMA CallIInv == ASSUME IInv, NEW t \in Thread, call(t) PROVE IInv'
<1> USE DEF IInv
<1>1. PICK k \in Kind, s \in Sector : op' = [op EXCEPT ![t] = [kind |-> k, sector |-> s]]
  BY DEF call
<1>2. /\ pc[t] = "idle" /\ pc'[t] = "search" /\ pc'[Flusher] = pc[Flusher]
      /\ \A u \in Thread \ {t} : pc'[u] = pc[u] /\ op'[u] = op[u]
      /\ op'[t].sector \in Sector /\ op' \in [Thread -> [kind : Kind, sector : Sector \cup {NoSector}]]
  BY <1>1, GotoFacts DEF call, TypeOK
<1>3. \A u \in Thread : Has(u)' = Has(u) /\ Pending(u)' = Pending(u)
  <2>1. Has(t)' = Has(t) /\ Pending(t)' = Pending(t)
    BY <1>2 DEF Has, Pending
  <2>2. \A u \in Thread \ {t} : Has(u)' = Has(u) /\ Pending(u)' = Pending(u)
    BY <1>2 DEF Has, Pending
  <2> QED BY <2>1, <2>2
<1>4. UNCHANGED <<disk, buffer_cache, sector_idx, data, dirty, sector_lock,
                  buffer_cache_lock, slot, flush, latest, zeroed, touched>>
  BY DEF call
<1>5. Listed' = Listed /\ BeingWritten' = BeingWritten /\ \A r \in Sector : Expected(r)' = Expected(r)
  <2>1. \A u \in Thread : (pc'[u] \in {"have", "copy2", "copied"} /\ op'[u].kind # "read")
                          <=> (pc[u] \in {"have", "copy2", "copied"} /\ op[u].kind # "read")
    BY <1>2
  <2>2. BeingWritten' = BeingWritten
    BY <2>1, <1>2 DEF BeingWritten
  <2> QED BY <2>2, <1>4 DEF Listed, Expected
<1>6. TypeOK'
  <2>1. Goto(t, "search") /\ ops' \in 0..MaxOps
    BY DEF call, TypeOK
  <2>2. pc' \in [Thread \cup {Flusher} ->
                        {"idle", "search", "found", "evict", "have", "copy2", "copied",
                         "flush", "clear", "off"}]
    BY <2>1, GotoFacts
  <2> QED BY <1>2, <1>4, <2>1, <2>2 DEF TypeOK
<1>7. ListShape'
  BY <1>4, <1>5 DEF ListShape
<1>8. Locking'
  <2>1. Flushes' = Flushes
    BY <1>2 DEF Flushes
  <2>2. pc'[t] = "search" /\ ~Has(t)'
    BY <1>2, <1>3 DEF Has
  <2> QED BY <1>2, <1>3, <1>4, <1>5, <2>1, <2>2 DEF Locking
<1>9. Coherence'
  BY <1>2, <1>3, <1>4, <1>5 DEF Coherence, ListShape
<1>10. Flushing'
  BY <1>2, <1>4, <1>5 DEF Flushing, Flushes, Expected
<1> QED BY <1>6, <1>7, <1>8, <1>9, <1>10

\* The three outcomes of a search.
LEMMA SearchIInv == ASSUME IInv, NEW t \in Thread, get_cached_sector(t) PROVE IInv'
<1> USE DEF IInv
<1>1. /\ On /\ pc[t] = "search" /\ buffer_cache_lock = None
      /\ UNCHANGED <<op, ops, flush, latest, touched>>
  BY DEF get_cached_sector
<1>2. ~Flushes /\ \A u \in Thread : pc[u] # "evict"
  BY <1>1 DEF Locking
<1>3. Listed \subseteq Slot
  BY RangeFacts DEF Listed, TypeOK
<1>4. ASSUME \A i \in Listed : sector_idx[i] # op[t].sector,
             Len(buffer_cache) < CacheSize,
             Fill(t, Len(buffer_cache) + 1, buffer_cache),
             UNCHANGED buffer_cache_lock
      PROVE  IInv'
  <2> DEFINE i == Len(buffer_cache) + 1
  <2>1. i \in Slot /\ i \notin Listed /\ buffer_cache \in Seq(Slot)
    BY <1>3, <1>4 DEF Slot, ListShape, TypeOK
  <2>2. \A j \in Listed \cup {i} : j <= Len(buffer_cache) + 1
    BY <1>3, <2>1 DEF ListShape, Slot
  <2>3. \A u \in Thread : Has(u) => slot[u] # i
    BY <2>1 DEF Locking
  <2>4. Range(buffer_cache) = Listed \ {i} /\ Distinct(buffer_cache)
    BY <2>1 DEF Listed, ListShape
  <2> HIDE DEF i
  <2>5. Fill(t, i, buffer_cache)
    BY <1>4 DEF i
  <2>6. Fillable(t, i, buffer_cache)
    BY <1>1, <1>2, <1>4, <2>2, <2>3, <2>4 DEF Fillable
  <2> QED BY <1>1, <1>4, <2>1, <2>5, <2>6, FillIInv
<1>5. ASSUME NEW l \in {"found", "evict"}, Goto(t, l),
             NEW i \in Listed, slot' = [slot EXCEPT ![t] = i],
             buffer_cache_lock' = IF l = "evict" THEN t ELSE buffer_cache_lock,
             l = "evict" => \A j \in Listed : sector_idx[j] # op[t].sector,
             UNCHANGED <<disk, buffer_cache, sector_idx, data, dirty, sector_lock, zeroed>>
      PROVE  IInv'
  <2>1. /\ pc'[t] = l /\ pc'[Flusher] = pc[Flusher] /\ slot'[t] = i
        /\ \A u \in Thread \ {t} : pc'[u] = pc[u] /\ slot'[u] = slot[u]
    BY <1>5, GotoFacts DEF TypeOK
  <2>2. \A u \in Thread : Has(u)' = Has(u) /\ Pending(u)' = Pending(u) /\ (Has(u) => slot'[u] = slot[u])
    BY <1>1, <2>1 DEF Has, Pending
  <2>3. Listed' = Listed /\ BeingWritten' = BeingWritten /\ \A s \in Sector : Expected(s)' = Expected(s)
    <3>1. \A u \in Thread : (pc'[u] \in {"have", "copy2", "copied"} /\ op'[u].kind # "read")
                            <=> (pc[u] \in {"have", "copy2", "copied"} /\ op[u].kind # "read")
      BY <1>1, <2>1
    <3>2. BeingWritten' = BeingWritten
      BY <3>1, <1>1 DEF BeingWritten
    <3> QED BY <3>2, <1>1, <1>5 DEF Listed, Expected
  <2>4. TypeOK'
    <3>1. pc' \in [Thread \cup {Flusher} ->
                        {"idle", "search", "found", "evict", "have", "copy2", "copied",
                         "flush", "clear", "off"}]
      BY <1>5, GotoFacts
    <3>2. slot' \in [Thread -> Slot] /\ buffer_cache_lock' \in Thread \cup {Flusher, None}
      BY <1>3, <1>5 DEF TypeOK
    <3> QED BY <1>1, <1>5, <3>1, <3>2 DEF TypeOK
  <2>5. ListShape'
    BY <1>5, <2>3 DEF ListShape
  <2>6. Locking'
    <3>1. ~Flushes' /\ pc'[Flusher] \in {"idle", "flush", "clear", "off"}
      BY <1>2, <2>1 DEF Flushes, Locking
    <3>2. ASSUME NEW u \in Thread
          PROVE  /\ pc'[u] \in {"idle", "search", "found", "evict", "have", "copy2", "copied"}
                 /\ pc'[u] # "idle" => op'[u].sector \in Sector
                 /\ pc'[u] \in {"copy2", "copied"} => op'[u].kind # "read"
                 /\ pc'[u] \in {"found", "evict"} \/ Has(u)' => slot'[u] \in Listed'
                 /\ pc'[u] = "evict" => /\ buffer_cache_lock' = u
                                        /\ \A j \in Listed' : sector_idx'[j] # op'[u].sector
                 /\ Has(u)' => sector_lock'[slot'[u]] = u /\ sector_idx'[slot'[u]] = op'[u].sector
      <4>1. CASE u = t
        BY <4>1, <1>1, <1>5, <2>1, <2>2, <2>3 DEF Locking, Has
      <4>2. CASE u # t
        BY <4>2, <1>1, <1>2, <1>5, <2>1, <2>2, <2>3 DEF Locking
      <4> QED BY <4>1, <4>2
    <3> QED BY <3>1, <3>2 DEF Locking
  <2>7. Coherence'
    BY <1>1, <1>5, <2>1, <2>2, <2>3 DEF Coherence, ListShape
  <2>8. Flushing'
    BY <1>1, <1>2, <1>5, <2>1, <2>3 DEF Flushing, Flushes
  <2> QED BY <2>4, <2>5, <2>6, <2>7, <2>8
<1>6. CASE \E i \in Listed :
             /\ sector_idx[i] = op[t].sector
             /\ slot' = [slot EXCEPT ![t] = i]
             /\ Goto(t, "found")
             /\ UNCHANGED <<disk, buffer_cache, sector_idx, data, dirty, sector_lock,
                            buffer_cache_lock, zeroed>>
  BY <1>5, <1>6
<1>7. CASE /\ \A i \in Listed : sector_idx[i] # op[t].sector
           /\ Len(buffer_cache) = CacheSize
           /\ slot' = [slot EXCEPT ![t] = buffer_cache[Len(buffer_cache)]]
           /\ buffer_cache_lock' = t
           /\ Goto(t, "evict")
           /\ UNCHANGED <<disk, buffer_cache, sector_idx, data, dirty, sector_lock, zeroed>>
  <2>1. buffer_cache[Len(buffer_cache)] \in Listed
    <3>1. Len(buffer_cache) \in 1..Len(buffer_cache) /\ buffer_cache \in Seq(Slot)
      BY <1>7 DEF TypeOK
    <3> QED BY <3>1, RangeFacts DEF Listed
  <2> QED BY <2>1, <1>5, <1>7
<1> QED BY <1>4, <1>6, <1>7 DEF get_cached_sector, Listed

\* The last element of the list is reused.
LEMMA EvictIInv == ASSUME IInv, NEW t \in Thread, evict(t) PROVE IInv'
<1> USE DEF IInv
<1> DEFINE i == slot[t]
           rest == list_remove(buffer_cache, i)
<1>1. /\ On /\ pc[t] = "evict" /\ sector_lock[i] = None /\ Fill(t, i, rest)
      /\ buffer_cache_lock' = None /\ UNCHANGED <<op, ops, flush, latest, touched>>
  BY DEF evict
<1>2. /\ buffer_cache_lock = t /\ i \in Listed /\ i \in Slot
      /\ \A j \in Listed : sector_idx[j] # op[t].sector
  BY <1>1 DEF Locking, TypeOK
<1>3. ~Flushes /\ \A u \in Thread \ {t} : pc[u] # "evict"
  BY <1>2 DEF Locking
<1>4. \A u \in Thread : Has(u) => slot[u] # i
  BY <1>1 DEF Locking
<1>5. /\ rest \in Seq(Slot) /\ Len(rest) = Len(buffer_cache) - 1 /\ Len(buffer_cache) \in Nat
      /\ Range(rest) = Listed \ {i} /\ Distinct(rest)
  BY <1>2, RemoveFacts DEF Listed, ListShape, TypeOK
<1> HIDE DEF i, rest
<1>6. Len(rest) < CacheSize /\ \A j \in Listed \cup {i} : j <= Len(rest) + 1
  BY <1>2, <1>5 DEF TypeOK, ListShape
<1>7. Fillable(t, i, rest)
  BY <1>1, <1>2, <1>3, <1>4, <1>5, <1>6 DEF Fillable
<1> QED BY <1>1, <1>2, <1>5, <1>7, FillIInv

\* A step of t that changes only its place and, for slot[t], the lock.
LEMMA RecheckIInv == ASSUME IInv, NEW t \in Thread, recheck(t) PROVE IInv'
<1> USE DEF IInv
<1>1. /\ On /\ pc[t] = "found" /\ sector_lock[slot[t]] = None
      /\ UNCHANGED <<disk, buffer_cache, sector_idx, data, dirty, buffer_cache_lock, op,
                     slot, ops, flush, latest, zeroed, touched>>
  BY DEF recheck
<1>2. slot[t] \in Listed /\ slot[t] \in Slot /\ op[t].sector \in Sector
  BY <1>1 DEF Locking, TypeOK
<1>3. Listed' = Listed /\ \A s \in Sector : Expected(s)' = Expected(s)
  BY <1>1 DEF Listed, Expected
<1>4. \A u \in Thread : Has(u) => u # t /\ slot[u] # slot[t]
  BY <1>1 DEF Locking, Has
<1>5. ASSUME NEW l \in {"search", "have"}, Goto(t, l),
             l = "have" => sector_idx[slot[t]] = op[t].sector,
             sector_lock' = IF l = "have" THEN [sector_lock EXCEPT ![slot[t]] = t] ELSE sector_lock
      PROVE  IInv'
  <2>1. /\ pc'[t] = l /\ pc'[Flusher] = pc[Flusher] /\ Flushes' = Flushes
        /\ \A u \in Thread \ {t} : pc'[u] = pc[u]
    BY <1>5, GotoFacts
  <2>2. \A u \in Thread \ {t} : Has(u)' = Has(u) /\ Pending(u)' = Pending(u)
    BY <1>1, <2>1 DEF Has, Pending
  <2>3. TypeOK'
    <3>1. pc' \in [Thread \cup {Flusher} ->
                        {"idle", "search", "found", "evict", "have", "copy2", "copied",
                         "flush", "clear", "off"}]
      BY <1>5, GotoFacts
    <3>2. sector_lock' \in [Slot -> Thread \cup {None}]
      BY <1>5 DEF TypeOK
    <3> QED BY <1>1, <3>1, <3>2 DEF TypeOK
  <2>4. ListShape'
    BY <1>1, <1>3 DEF ListShape
  <2>5. Locking'
    <3>1. ASSUME NEW u \in Thread
          PROVE  /\ pc'[u] \in {"idle", "search", "found", "evict", "have", "copy2", "copied"}
                 /\ pc'[u] # "idle" => op'[u].sector \in Sector
                 /\ pc'[u] \in {"copy2", "copied"} => op'[u].kind # "read"
                 /\ pc'[u] \in {"found", "evict"} \/ Has(u)' => slot'[u] \in Listed'
                 /\ pc'[u] = "evict" => /\ buffer_cache_lock' = u
                                        /\ \A j \in Listed' : sector_idx'[j] # op'[u].sector
                 /\ Has(u)' => sector_lock'[slot'[u]] = u /\ sector_idx'[slot'[u]] = op'[u].sector
      <4>1. CASE u = t
        BY <4>1, <1>1, <1>2, <1>3, <1>5, <2>1 DEF Has, TypeOK
      <4>2. CASE u # t
        <5>1. Has(u) => sector_lock'[slot[u]] = u /\ sector_idx[slot[u]] = op[u].sector
          BY <1>4, <1>5 DEF Locking, TypeOK
        <5> QED BY <4>2, <5>1, <1>1, <1>3, <2>1, <2>2 DEF Locking
      <4> QED BY <4>1, <4>2
    <3> QED BY <3>1, <2>1, <1>1 DEF Locking
  <2>6. BeingWritten \subseteq BeingWritten'
    BY <1>1, <2>1 DEF BeingWritten
  <2>7. Coherence'
    <3>1. ASSUME NEW j \in Listed', NEW h \in Half
          PROVE  \/ data'[j][h] = Expected(sector_idx[j])'[h]
                 \/ \E u \in Thread :
                      /\ Has(u)' /\ slot'[u] = j /\ h \in Pending(u)'
                      /\ pc'[Flusher] = "idle" \/ sector_idx'[j] \in touched'
      BY <1>1, <1>3, <1>4, <2>1, <2>2 DEF Coherence, ListShape
    <3> QED BY <3>1, <1>1, <1>3, <2>1, <2>6 DEF Coherence, ListShape
  <2>8. Flushing'
    <3>1. pc'[Flusher] = "clear" => sector_idx[Head(flush)] \in Sector
      BY <2>1, PopFrontFacts DEF Flushing, TypeOK, ListShape, Flushes
    <3> QED BY <1>1, <1>3, <2>1, <3>1 DEF Flushing
  <2> QED BY <2>3, <2>4, <2>5, <2>7, <2>8
<1>6. CASE /\ sector_idx[slot[t]] = op[t].sector
           /\ sector_lock' = [sector_lock EXCEPT ![slot[t]] = t]
           /\ Goto(t, "have")
  BY <1>5, <1>6
<1>7. CASE Goto(t, "search") /\ UNCHANGED sector_lock
  BY <1>5, <1>7
<1> QED BY <1>6, <1>7 DEF recheck
-----------------------------------------------------------------------------
\* The element the flush is at, in the middle of a round, caches a sector.
LEMMA ClearFacts ==
  ASSUME IInv, pc[Flusher] = "clear"
  PROVE  sector_idx[Head(flush)] \in Sector
  BY PopFrontFacts DEF IInv, Flushing, TypeOK, ListShape, Flushes

\* A reader, or a writer that has copied everything, returns; a writer sets dirty.
LEMMA ReturnIInv ==
  ASSUME IInv, NEW t \in Thread, Return(t),
         pc[t] \in {"have", "copied"}, pc[t] = "have" => op[t].kind = "read",
         dirty' = IF pc[t] = "copied" THEN [dirty EXCEPT ![slot[t]] = TRUE] ELSE dirty,
         touched' = IF pc[t] = "copied" /\ pc[Flusher] # "idle"
                      THEN touched \cup {op[t].sector} ELSE touched,
         UNCHANGED <<disk, buffer_cache, sector_idx, data, buffer_cache_lock, ops, flush,
                     latest, zeroed>>
  PROVE  IInv'
<1> USE DEF IInv
<1> DEFINE s == op[t].sector
<1>1. /\ slot[t] \in Listed /\ slot[t] \in Slot /\ s \in Sector /\ Has(t)
      /\ sector_idx[slot[t]] = s /\ sector_lock[slot[t]] = t
  BY DEF Locking, TypeOK, Has
<1>2. /\ pc'[t] = "idle" /\ pc'[Flusher] = pc[Flusher] /\ Flushes' = Flushes
      /\ \A u \in Thread \ {t} : pc'[u] = pc[u]
      /\ pc' \in [Thread \cup {Flusher} ->
                   {"idle", "search", "found", "evict", "have", "copy2", "copied",
                    "flush", "clear", "off"}]
  BY GotoFacts DEF Return
<1>3. /\ \A u \in Thread \ {t} : op'[u] = op[u] /\ slot'[u] = slot[u]
      /\ \A i \in Slot \ {slot[t]} : sector_lock'[i] = sector_lock[i] /\ dirty'[i] = dirty[i]
      /\ pc[t] = "copied" => dirty'[slot[t]] = TRUE
      /\ pc[t] = "have" => dirty' = dirty
  BY <1>1 DEF Return, TypeOK
<1>4. Listed' = Listed /\ \A r \in Sector : Expected(r)' = Expected(r)
  BY DEF Listed, Expected
<1>5. \A u \in Thread \ {t} : Has(u)' = Has(u) /\ Pending(u)' = Pending(u)
  BY <1>2, <1>3 DEF Has, Pending
<1>6. ~Has(t)' /\ Pending(t) = {}
  BY <1>2, WrittenFacts DEF Has, Pending
<1>7. \A u \in Thread \ {t} : Has(u) => slot[u] # slot[t] /\ op[u].sector # s
  BY <1>1 DEF Locking, ListShape
<1>8. TypeOK'
  <2>1. /\ sector_lock' \in [Slot -> Thread \cup {None}]
        /\ op' \in [Thread -> [kind : Kind, sector : Sector \cup {NoSector}]]
        /\ slot' \in [Thread -> Slot]
    BY DEF Return, TypeOK, NoRequest, Kind, Slot
  <2>2. dirty' \in [Slot -> BOOLEAN] /\ touched' \in SUBSET Sector
    BY <1>1 DEF TypeOK
  <2> QED BY <2>1, <2>2, <1>2 DEF TypeOK
<1>9. ListShape'
  BY <1>1, <1>3, <1>4 DEF ListShape
<1>10. Locking'
  <2>1. ASSUME NEW u \in Thread
        PROVE  /\ pc'[u] \in {"idle", "search", "found", "evict", "have", "copy2", "copied"}
               /\ pc'[u] # "idle" => op'[u].sector \in Sector
               /\ pc'[u] \in {"copy2", "copied"} => op'[u].kind # "read"
               /\ pc'[u] \in {"found", "evict"} \/ Has(u)' => slot'[u] \in Listed'
               /\ pc'[u] = "evict" => /\ buffer_cache_lock' = u
                                      /\ \A j \in Listed' : sector_idx'[j] # op'[u].sector
               /\ Has(u)' => sector_lock'[slot'[u]] = u /\ sector_idx'[slot'[u]] = op'[u].sector
    <3>1. CASE u = t
      BY <3>1, <1>2, <1>6
    <3>2. CASE u # t
      <4>1. Has(u) => sector_lock'[slot[u]] = u /\ sector_idx[slot[u]] = op[u].sector
        BY <3>2, <1>3, <1>7 DEF Locking, TypeOK
      <4> QED BY <3>2, <4>1, <1>2, <1>3, <1>4, <1>5 DEF Locking
    <3> QED BY <3>1, <3>2
  <2> QED BY <2>1, <1>2 DEF Locking
<1>11. \A r \in BeingWritten : r \in BeingWritten' \/ (r = s /\ pc[t] = "copied")
  <2> TAKE r \in BeingWritten
  <2>1. PICK u \in Thread :
          r = op[u].sector /\ pc[u] \in {"have", "copy2", "copied"} /\ op[u].kind # "read"
    BY DEF BeingWritten
  <2>2. CASE u = t
    BY <2>1, <2>2
  <2>3. CASE u # t
    <3>1. pc'[u] = pc[u] /\ op'[u] = op[u]
      BY <2>3, <1>2, <1>3
    <3> QED BY <2>1, <3>1 DEF BeingWritten
  <2> QED BY <2>2, <2>3
<1>12. Coherence'
  <2>1. ASSUME NEW j \in Listed', NEW h \in Half
        PROVE  \/ data'[j][h] = Expected(sector_idx[j])'[h]
               \/ \E u \in Thread :
                    /\ Has(u)' /\ slot'[u] = j /\ h \in Pending(u)'
                    /\ pc'[Flusher] = "idle" \/ sector_idx'[j] \in touched'
    <3>1. j \in Listed /\ sector_idx[j] \in Sector
      BY <1>4 DEF ListShape
    <3>2. CASE data[j][h] = Expected(sector_idx[j])[h]
      BY <3>1, <3>2, <1>4
    <3>3. CASE \E u \in Thread : /\ Has(u) /\ slot[u] = j /\ h \in Pending(u)
                                 /\ pc[Flusher] = "idle" \/ sector_idx[j] \in touched
      BY <3>3, <1>2, <1>3, <1>5, <1>6
    <3> QED BY <3>1, <3>2, <3>3 DEF Coherence
  <2>2. ASSUME NEW j \in Listed', ~dirty'[j], sector_idx'[j] \notin touched',
               pc'[Flusher] = "idle" => sector_idx'[j] \notin BeingWritten'
        PROVE  disk'[sector_idx'[j]] = Expected(sector_idx[j])'
    <3>1. j \in Listed /\ j \in Slot /\ sector_idx[j] \in Sector
      BY <1>4, RangeFacts DEF Listed, ListShape, TypeOK
    <3>2. sector_idx[j] \notin touched /\ ~dirty[j]
      BY <2>2, <3>1, <1>3
    <3>3. ~(sector_idx[j] = s /\ pc[t] = "copied")
      <4>1. \A k \in Listed : sector_idx[k] = sector_idx[j] => k = j
        BY <3>1 DEF ListShape
      <4>2. sector_idx[j] = s => j = slot[t]
        BY <4>1, <1>1
      <4> QED BY <2>2, <4>2, <1>3
    <3>4. pc[Flusher] = "idle" => sector_idx[j] \notin BeingWritten
      BY <2>2, <3>3, <1>2, <1>11
    <3> QED BY <3>1, <3>2, <3>4, <1>4 DEF Coherence
  <2>3. \A r \in Sector : (\A j \in Listed' : sector_idx'[j] # r) => disk'[r] = Expected(r)'
    BY <1>4 DEF Coherence
  <2> QED BY <2>1, <2>2, <2>3 DEF Coherence
<1>13. Flushing'
  <2>1. pc'[Flusher] = "idle" => touched' = {}
    BY <1>2 DEF Flushing
  <2>2. ASSUME pc'[Flusher] # "idle", NEW i \in Listed', dirty'[i], sector_idx'[i] \notin touched'
        PROVE  Flushes' /\ i \in Range(flush')
    <3>1. i \in Listed /\ i \in Slot
      BY <1>4, RangeFacts DEF Listed, TypeOK
    <3>2. dirty[i] /\ sector_idx[i] \notin touched
      BY <2>2, <3>1, <1>1, <1>2, <1>3
    <3> QED BY <2>2, <3>1, <3>2, <1>2 DEF Flushing
  <2>3. pc'[Flusher] = "clear" => sector_idx[Head(flush)] \in Sector
    BY <1>2, ClearFacts
  <2> QED BY <2>1, <2>2, <2>3, <1>2, <1>4 DEF Flushing
<1> QED BY <1>8, <1>9, <1>10, <1>12, <1>13

\* cache_read returns.
LEMMA ReadIInv == ASSUME IInv, NEW t \in Thread, cache_read(t) PROVE IInv'
  BY ReturnIInv DEF cache_read

\* cache_write sets dirty and returns.
LEMMA DoneIInv == ASSUME IInv, NEW t \in Thread, cache_write_done(t) PROVE IInv'
<1>1. touched' = IF pc[Flusher] # "idle" THEN touched \cup {op[t].sector} ELSE touched
  BY DEF cache_write_done, Touch
<1> QED BY <1>1, ReturnIInv DEF cache_write_done

\* A writer copies one half into its element.
LEMMA CopyIInv == ASSUME IInv, NEW t \in Thread, cache_write_copy(t) PROVE IInv'
<1> USE DEF IInv
<1>0. PICK s, W : s = op[t].sector /\ W = Written(op[t].kind)
  OBVIOUS
<1>1. PICK h \in Half :
        /\ CopyHalf(t, h)
        /\ \/ h = 1 /\ pc[t] = "have" /\ op[t].kind # "read" /\ Goto(t, "copy2")
           \/ h = 2 /\ pc[t] = "copy2" /\ Goto(t, "copied")
  BY WrittenFacts DEF cache_write_copy
<1>2. UNCHANGED <<disk, buffer_cache, sector_idx, dirty, sector_lock, buffer_cache_lock,
                  op, slot, ops, flush>>
  BY DEF cache_write_copy
<1>3. /\ slot[t] \in Listed /\ slot[t] \in Slot /\ s \in Sector /\ Has(t)
      /\ sector_idx[slot[t]] = s /\ sector_lock[slot[t]] = t
      /\ op[t].kind # "read" /\ op[t].kind \in Kind
  BY <1>0, <1>1 DEF Locking, TypeOK, Has
<1>4. /\ pc'[t] \in {"copy2", "copied"} /\ (h = 1 <=> pc'[t] = "copy2")
      /\ pc'[Flusher] = pc[Flusher] /\ Flushes' = Flushes
      /\ \A u \in Thread \ {t} : pc'[u] = pc[u]
      /\ pc' \in [Thread \cup {Flusher} ->
                   {"idle", "search", "found", "evict", "have", "copy2", "copied",
                    "flush", "clear", "off"}]
  BY <1>1, GotoFacts
<1>5. Listed' = Listed
  BY <1>2 DEF Listed
<1>6. /\ \A i \in Slot \ {slot[t]} : data'[i] = data[i]
      /\ \A g \in Half \ {h} : data'[slot[t]][g] = data[slot[t]][g]
      /\ h \in W => data'[slot[t]][h] = t
      /\ h \notin W => data' = data
  BY <1>0, <1>1, <1>3 DEF CopyHalf, TypeOK
<1>7. /\ \A r \in Sector \ {s} : latest'[r] = latest[r] /\ zeroed'[r] = zeroed[r]
      /\ \A g \in Half \ {h} : latest'[s][g] = latest[s][g] /\ (g \in zeroed'[s] <=> g \in zeroed[s])
      /\ h \in W => latest'[s][h] = t /\ h \notin zeroed'[s]
      /\ h \notin W => latest' = latest /\ zeroed' = zeroed
  BY <1>0, <1>1, <1>3 DEF CopyHalf, TypeOK
<1>8. /\ \A r \in Sector \ {s} : Expected(r)' = Expected(r)
      /\ \A g \in Half \ {h} : Expected(s)'[g] = Expected(s)[g]
      /\ h \in W => Expected(s)'[h] = t
      /\ h \notin W => Expected(s)' = Expected(s)
  BY <1>7 DEF Expected
<1>9. /\ touched \subseteq touched' /\ (pc[Flusher] = "idle" => touched' = touched)
      /\ pc[Flusher] # "idle" => s \in touched'
      /\ touched' \in SUBSET Sector
  BY <1>0, <1>1, <1>3 DEF CopyHalf, Touch, TypeOK
<1>10. \A u \in Thread \ {t} : Has(u)' = Has(u) /\ Pending(u)' = Pending(u)
  BY <1>2, <1>4 DEF Has, Pending
<1>11. Has(t)'
  BY <1>4 DEF Has
<1>12. \A u \in Thread \ {t} : Has(u) => slot[u] # slot[t]
  BY <1>3 DEF Locking
<1>13. \A g \in Pending(t) : g # h => g \in Pending(t)'
  <2>1. CASE h = 1
    <3>1. Pending(t) = W /\ Pending(t)' = W \ {1}
      BY <2>1, <1>0, <1>1, <1>2, <1>4 DEF Pending
    <3> QED BY <2>1, <3>1
  <2>2. CASE h = 2
    <3>1. Pending(t) \subseteq Half \ {1}
      BY <2>2, <1>1, <1>3, WrittenFacts DEF Pending
    <3> QED BY <2>2, <3>1, WrittenFacts
  <2> QED BY <2>1, <2>2, <1>1
<1>14. BeingWritten' = BeingWritten /\ s \in BeingWritten
  BY <1>0, <1>1, <1>2, <1>3, <1>4 DEF BeingWritten
<1>15. TypeOK'
  <2> t \in Content
    BY DEF Content
  <2>1. data' \in [Slot -> [Half -> Content]]
    <3>1. [data[slot[t]] EXCEPT ![h] = t] \in [Half -> Content]
      BY <1>3 DEF TypeOK
    <3>2. data' = data \/ data' = [data EXCEPT ![slot[t]] = [data[slot[t]] EXCEPT ![h] = t]]
      BY <1>1 DEF CopyHalf
    <3> QED BY <3>1, <3>2, <1>3 DEF TypeOK
  <2>2. latest' \in [Sector -> [Half -> Content]]
    <3>1. [latest[s] EXCEPT ![h] = t] \in [Half -> Content]
      BY <1>3 DEF TypeOK
    <3>2. latest' = latest \/ latest' = [latest EXCEPT ![s] = [latest[s] EXCEPT ![h] = t]]
      BY <1>0, <1>1 DEF CopyHalf
    <3> QED BY <3>1, <3>2, <1>3 DEF TypeOK
  <2>3. zeroed' \in [Sector -> SUBSET Half]
    BY <1>0, <1>1, <1>3 DEF CopyHalf, TypeOK
  <2> QED BY <2>1, <2>2, <2>3, <1>2, <1>4, <1>9 DEF TypeOK
<1>16. ListShape'
  BY <1>2, <1>5 DEF ListShape
<1>17. Locking'
  <2>1. ASSUME NEW u \in Thread
        PROVE  /\ pc'[u] \in {"idle", "search", "found", "evict", "have", "copy2", "copied"}
               /\ pc'[u] # "idle" => op'[u].sector \in Sector
               /\ pc'[u] \in {"copy2", "copied"} => op'[u].kind # "read"
               /\ pc'[u] \in {"found", "evict"} \/ Has(u)' => slot'[u] \in Listed'
               /\ pc'[u] = "evict" => /\ buffer_cache_lock' = u
                                      /\ \A j \in Listed' : sector_idx'[j] # op'[u].sector
               /\ Has(u)' => sector_lock'[slot'[u]] = u /\ sector_idx'[slot'[u]] = op'[u].sector
    <3>1. CASE u = t
      BY <3>1, <1>0, <1>2, <1>3, <1>4, <1>5
    <3>2. CASE u # t
      BY <3>2, <1>2, <1>4, <1>5, <1>10 DEF Locking
    <3> QED BY <3>1, <3>2
  <2> QED BY <2>1, <1>2, <1>4 DEF Locking
<1>18. Coherence'
  <2>1. ASSUME NEW j \in Listed', NEW g \in Half
        PROVE  \/ data'[j][g] = Expected(sector_idx[j])'[g]
               \/ \E u \in Thread :
                    /\ Has(u)' /\ slot'[u] = j /\ g \in Pending(u)'
                    /\ pc'[Flusher] = "idle" \/ sector_idx'[j] \in touched'
    <3>1. /\ j \in Listed /\ j \in Slot /\ sector_idx[j] \in Sector /\ sector_idx' = sector_idx
      BY <1>2, <1>5, RangeFacts DEF Listed, ListShape, TypeOK
    <3>2. \/ data[j][g] = Expected(sector_idx[j])[g]
          \/ \E u \in Thread : /\ Has(u) /\ slot[u] = j /\ g \in Pending(u)
                               /\ pc[Flusher] = "idle" \/ sector_idx[j] \in touched
      BY <3>1 DEF Coherence
    <3>3. CASE j = slot[t]
      <4>1. CASE g = h /\ h \in W
        BY <3>1, <3>3, <4>1, <1>3, <1>6, <1>8
      <4>2. CASE g = h /\ h \notin W
        <5>1. h \notin Pending(t)
          BY <4>2, <1>0, <1>1 DEF Pending
        <5>2. data[j][g] = Expected(sector_idx[j])[g]
          BY <3>2, <3>3, <4>2, <5>1, <1>12
        <5> QED BY <3>1, <3>3, <4>2, <5>2, <1>3, <1>6, <1>8
      <4>3. CASE g # h
        <5>1. CASE data[j][g] = Expected(sector_idx[j])[g]
          BY <3>1, <3>3, <4>3, <5>1, <1>3, <1>6, <1>8
        <5>2. CASE /\ g \in Pending(t)
                   /\ pc[Flusher] = "idle" \/ sector_idx[j] \in touched
          BY <3>1, <3>3, <4>3, <5>2, <1>2, <1>4, <1>9, <1>11, <1>13
        <5> QED BY <5>1, <5>2, <3>2, <3>3, <1>12
      <4> QED BY <4>1, <4>2, <4>3
    <3>4. CASE j # slot[t]
      <4>1. sector_idx[j] # s /\ data'[j] = data[j]
        BY <3>1, <3>4, <1>3, <1>6 DEF ListShape
      <4>2. Expected(sector_idx[j])' = Expected(sector_idx[j])
        BY <3>1, <4>1, <1>8
      <4> QED BY <3>1, <3>2, <3>4, <4>1, <4>2, <1>2, <1>4, <1>9, <1>10
    <3> QED BY <3>3, <3>4
  <2>2. ASSUME NEW j \in Listed', ~dirty'[j], sector_idx'[j] \notin touched',
               pc'[Flusher] = "idle" => sector_idx'[j] \notin BeingWritten'
        PROVE  disk'[sector_idx'[j]] = Expected(sector_idx[j])'
    <3>1. /\ j \in Listed /\ sector_idx[j] \in Sector /\ sector_idx' = sector_idx
      BY <1>2, <1>5 DEF ListShape
    <3>2. sector_idx[j] # s
      BY <2>2, <3>1, <1>4, <1>9, <1>14
    <3>3. Expected(sector_idx[j])' = Expected(sector_idx[j])
      BY <3>1, <3>2, <1>8
    <3> QED BY <2>2, <3>1, <3>3, <1>2, <1>4, <1>9, <1>14 DEF Coherence
  <2>3. \A r \in Sector : (\A j \in Listed' : sector_idx'[j] # r) => disk'[r] = Expected(r)'
    BY <1>2, <1>3, <1>5, <1>8 DEF Coherence
  <2> QED BY <2>1, <2>2, <2>3 DEF Coherence
<1>19. Flushing'
  <2>1. pc'[Flusher] = "idle" => touched' = {}
    BY <1>4, <1>9 DEF Flushing
  <2>2. pc'[Flusher] # "idle" =>
          \A i \in Listed' : dirty'[i] /\ sector_idx'[i] \notin touched' =>
            Flushes' /\ i \in Range(flush')
    BY <1>2, <1>4, <1>5, <1>9 DEF Flushing
  <2>3. pc'[Flusher] = "clear" =>
          /\ flush' # <<>>
          /\ sector_idx'[Head(flush')] \notin touched' =>
               disk'[sector_idx'[Head(flush')]] = Expected(sector_idx[Head(flush)])'
    <3> SUFFICES ASSUME pc'[Flusher] = "clear", sector_idx[Head(flush)] \notin touched'
                 PROVE  disk[sector_idx[Head(flush)]] = Expected(sector_idx[Head(flush)])'
      BY <1>2, <1>4 DEF Flushing
    <3>1. sector_idx[Head(flush)] \in Sector \ {s} /\ sector_idx[Head(flush)] \notin touched
      BY <1>4, <1>9, ClearFacts
    <3> QED BY <3>1, <1>2, <1>4, <1>8 DEF Flushing
  <2>4. Flushes' => \A i \in Range(flush') : i \in Listed'
    BY <1>2, <1>4, <1>5 DEF Flushing
  <2> QED BY <2>1, <2>2, <2>3, <2>4 DEF Flushing
<1> QED BY <1>15, <1>16, <1>17, <1>18, <1>19

\* A step of the flusher does not move the threads, or what Locking says of them.
LEMMA FlusherFacts ==
  ASSUME IInv, \A u \in Thread : pc'[u] = pc[u],
         UNCHANGED <<buffer_cache, sector_idx, sector_lock, op, slot, latest, zeroed>>
  PROVE  /\ Listed' = Listed /\ Listed \subseteq Slot
         /\ \A u \in Thread : Has(u)' = Has(u) /\ Pending(u)' = Pending(u)
         /\ BeingWritten' = BeingWritten
         /\ \A r \in Sector : Expected(r)' = Expected(r)
         /\ /\ (\A u \in Thread : pc[u] # "evict") \/ buffer_cache_lock' = buffer_cache_lock
            /\ Flushes' => buffer_cache_lock' = Flusher
            /\ pc'[Flusher] \in {"idle", "flush", "clear", "off"}
            => Locking'
<1> USE DEF IInv
<1>1. Listed' = Listed /\ Listed \subseteq Slot
  BY RangeFacts DEF Listed, TypeOK
<1>2. \A u \in Thread : Has(u)' = Has(u) /\ Pending(u)' = Pending(u)
  BY DEF Has, Pending
<1>3. BeingWritten' = BeingWritten
  BY DEF BeingWritten
<1>4. \A r \in Sector : Expected(r)' = Expected(r)
  BY DEF Expected
<1>5. ASSUME (\A u \in Thread : pc[u] # "evict") \/ buffer_cache_lock' = buffer_cache_lock,
             Flushes' => buffer_cache_lock' = Flusher,
             pc'[Flusher] \in {"idle", "flush", "clear", "off"}
      PROVE  Locking'
  BY <1>1, <1>2, <1>5 DEF Locking
<1> QED BY <1>1, <1>2, <1>3, <1>4, <1>5

\* write_all_dirty_sectors begins.
LEMMA FlushStartIInv == ASSUME IInv, flush_start PROVE IInv'
<1> USE DEF IInv
<1>1. /\ pc[Flusher] = "idle" /\ buffer_cache_lock = None /\ buffer_cache_lock' = Flusher
      /\ flush' = buffer_cache /\ touched' = BeingWritten /\ touched = {}
      /\ UNCHANGED <<disk, buffer_cache, sector_idx, data, dirty, sector_lock, op, slot,
                     ops, latest, zeroed>>
  BY DEF flush_start, Flushing
<1>2. pc'[Flusher] = "flush" /\ Flushes' /\ \A u \in Thread : pc'[u] = pc[u]
  BY DEF flush_start, Goto, TypeOK, Flushes
<1>3. \A u \in Thread : pc[u] # "evict"
  BY <1>1 DEF Locking
<1>4. /\ Listed' = Listed /\ Listed \subseteq Slot
      /\ \A u \in Thread : Has(u)' = Has(u) /\ Pending(u)' = Pending(u)
      /\ \A r \in Sector : Expected(r)' = Expected(r)
      /\ Locking'
  BY <1>1, <1>2, <1>3, FlusherFacts
<1>5. TypeOK'
  <2>1. BeingWritten \in SUBSET Sector
    BY DEF BeingWritten, Locking
  <2>2. pc' \in [Thread \cup {Flusher} ->
                   {"idle", "search", "found", "evict", "have", "copy2", "copied",
                    "flush", "clear", "off"}]
    BY DEF flush_start, Goto, TypeOK
  <2> QED BY <2>1, <2>2, <1>1 DEF TypeOK
<1>6. ListShape'
  BY <1>1, <1>4 DEF ListShape
<1>7. Coherence'
  <2>1. ASSUME NEW j \in Listed', NEW h \in Half
        PROVE  \/ data'[j][h] = Expected(sector_idx[j])'[h]
               \/ \E u \in Thread :
                    /\ Has(u)' /\ slot'[u] = j /\ h \in Pending(u)'
                    /\ pc'[Flusher] = "idle" \/ sector_idx'[j] \in touched'
    <3>1. j \in Listed /\ sector_idx[j] \in Sector
      BY <1>4 DEF ListShape
    <3>2. CASE data[j][h] = Expected(sector_idx[j])[h]
      BY <3>1, <3>2, <1>1, <1>4
    <3>3. ASSUME NEW u \in Thread, Has(u), slot[u] = j, h \in Pending(u)
          PROVE  sector_idx[j] \in touched'
      <4>1. op[u].kind # "read" /\ sector_idx[j] = op[u].sector
        BY <3>3, WrittenFacts DEF Pending, Locking
      <4> QED BY <3>3, <4>1, <1>1 DEF BeingWritten, Has
    <3>4. CASE data[j][h] # Expected(sector_idx[j])[h]
      <4>1. PICK u \in Thread : Has(u) /\ slot[u] = j /\ h \in Pending(u)
        BY <3>1, <3>4 DEF Coherence
      <4> QED BY <4>1, <3>3, <1>1, <1>4
    <3> QED BY <3>2, <3>4
  <2>2. \A j \in Listed : sector_idx[j] \in Sector
    BY DEF ListShape
  <2> QED BY <2>1, <2>2, <1>1, <1>2, <1>4 DEF Coherence
<1>8. Flushing'
  BY <1>1, <1>2, <1>4 DEF Flushing, Listed
<1> QED BY <1>4, <1>5, <1>6, <1>7, <1>8

\* One round of the flush: the element is dirty and is written, or it is clean
\* and skipped, or, written, it is marked clean.
LEMMA FlushSectorIInv == ASSUME IInv, flush_sector PROVE IInv'
<1> USE DEF IInv
<1>0. PICK i : i = Head(flush)
  OBVIOUS
<1>1. /\ flush # <<>> /\ pc[Flusher] \in {"flush", "clear"}
      /\ UNCHANGED <<buffer_cache, sector_idx, data, sector_lock, buffer_cache_lock, op,
                     slot, ops, latest, zeroed, touched>>
  BY DEF flush_sector
<1>2. /\ i \in Listed /\ i \in Slot /\ sector_idx[i] \in Sector
      /\ Tail(flush) \in Seq(Slot) /\ Range(flush) = Range(Tail(flush)) \cup {i}
  <2>1. /\ i \in Range(flush) /\ i \in Slot
        /\ Tail(flush) \in Seq(Slot) /\ Range(flush) = Range(Tail(flush)) \cup {i}
    BY <1>0, <1>1, PopFrontFacts DEF TypeOK
  <2> QED BY <2>1, <1>1 DEF Flushing, Flushes, ListShape
<1>3. /\ \A u \in Thread : pc'[u] = pc[u]
      /\ pc' \in [Thread \cup {Flusher} ->
                   {"idle", "search", "found", "evict", "have", "copy2", "copied",
                    "flush", "clear", "off"}]
  BY DEF flush_sector, Goto, TypeOK
<1>4. pc'[Flusher] \in {"flush", "clear"} /\ Flushes /\ Flushes' /\ buffer_cache_lock' = Flusher
  BY <1>1 DEF flush_sector, Goto, TypeOK, Flushes, Locking
<1>5. /\ Listed' = Listed /\ Listed \subseteq Slot
      /\ \A u \in Thread : Has(u)' = Has(u) /\ Pending(u)' = Pending(u)
      /\ \A r \in Sector : Expected(r)' = Expected(r)
      /\ Locking'
  BY <1>1, <1>3, <1>4, FlusherFacts
<1>6. \A j \in Listed : j # i => sector_idx[j] # sector_idx[i] /\ sector_idx[j] \in Sector
  BY <1>2 DEF ListShape
\* An element nobody is writing holds what its sector should.
<1>7. sector_idx[i] \notin touched => data[i] = Expected(sector_idx[i])
  <2>1. sector_idx[i] \notin touched => \A h \in Half : data[i][h] = Expected(sector_idx[i])[h]
    BY <1>1, <1>2 DEF Coherence
  <2>2. data[i] \in [Half -> Content]
    BY <1>2 DEF TypeOK
  <2> QED BY <2>1, <2>2 DEF Expected
<1>8. \A j \in Listed', h \in Half :
        \/ data'[j][h] = Expected(sector_idx[j])'[h]
        \/ \E u \in Thread :
             /\ Has(u)' /\ slot'[u] = j /\ h \in Pending(u)'
             /\ pc'[Flusher] = "idle" \/ sector_idx'[j] \in touched'
  BY <1>1, <1>2, <1>5, <1>6 DEF Coherence
<1>9. CASE /\ pc[Flusher] = "flush" /\ dirty[i]
           /\ disk' = [disk EXCEPT ![sector_idx[i]] = data[i]]
           /\ Goto(Flusher, "clear")
           /\ UNCHANGED <<dirty, flush>>
  <2>1. /\ disk'[sector_idx[i]] = data[i]
        /\ \A r \in Sector \ {sector_idx[i]} : disk'[r] = disk[r]
        /\ disk' \in [Sector -> [Half -> Content]]
    BY <1>2, <1>9 DEF TypeOK
  <2>2. TypeOK'
    BY <2>1, <1>1, <1>3, <1>9 DEF TypeOK
  <2>3. ListShape'
    BY <1>1, <1>5, <1>9 DEF ListShape
  <2>4. Coherence'
    <3>1. ASSUME NEW j \in Listed', ~dirty'[j], sector_idx'[j] \notin touched'
          PROVE  disk'[sector_idx'[j]] = Expected(sector_idx[j])'
      <4>1. j \in Listed /\ j # i /\ ~dirty[j] /\ sector_idx[j] \notin touched
        BY <3>1, <1>1, <1>5, <1>9
      <4>2. disk[sector_idx[j]] = Expected(sector_idx[j])
        BY <4>1, <1>1 DEF Coherence
      <4> QED BY <4>1, <4>2, <2>1, <1>1, <1>5, <1>6
    <3>2. \A r \in Sector : (\A j \in Listed' : sector_idx'[j] # r) => disk'[r] = Expected(r)'
      BY <2>1, <1>1, <1>2, <1>5 DEF Coherence
    <3> QED BY <3>1, <3>2, <1>8 DEF Coherence
  <2>5. Flushing'
    <3>1. sector_idx'[i] \notin touched' => disk'[sector_idx'[i]] = Expected(sector_idx[i])'
      BY <2>1, <1>1, <1>2, <1>5, <1>7
    <3> QED BY <3>1, <1>0, <1>1, <1>4, <1>5, <1>9 DEF Flushing
  <2> QED BY <2>2, <2>3, <2>4, <2>5, <1>5
<1>10. CASE /\ pc'[Flusher] = "flush" /\ flush' = Tail(flush) /\ UNCHANGED disk
            /\ dirty' \in [Slot -> BOOLEAN] /\ ~dirty'[i]
            /\ \A j \in Slot \ {i} : dirty'[j] = dirty[j]
            /\ sector_idx[i] \notin touched => disk[sector_idx[i]] = Expected(sector_idx[i])
  <2>1. TypeOK'
    BY <1>1, <1>2, <1>3, <1>10 DEF TypeOK
  <2>2. ListShape'
    BY <1>1, <1>2, <1>5, <1>10 DEF ListShape
  <2>3. Coherence'
    <3>1. ASSUME NEW j \in Listed', ~dirty'[j], sector_idx'[j] \notin touched'
          PROVE  disk'[sector_idx'[j]] = Expected(sector_idx[j])'
      <4>1. CASE j = i
        BY <4>1, <3>1, <1>1, <1>2, <1>5, <1>10
      <4>2. CASE j # i
        <5>1. j \in Listed /\ ~dirty[j] /\ sector_idx[j] \notin touched
          BY <3>1, <4>2, <1>1, <1>5, <1>10
        <5>2. disk[sector_idx[j]] = Expected(sector_idx[j])
          BY <5>1, <1>1 DEF Coherence
        <5> QED BY <5>1, <5>2, <4>2, <1>1, <1>5, <1>6, <1>10
      <4> QED BY <4>1, <4>2
    <3>2. \A r \in Sector : (\A j \in Listed' : sector_idx'[j] # r) => disk'[r] = Expected(r)'
      BY <1>1, <1>5, <1>10 DEF Coherence
    <3> QED BY <3>1, <3>2, <1>8 DEF Coherence
  <2>4. Flushing'
    <3>1. ASSUME NEW j \in Listed', dirty'[j], sector_idx'[j] \notin touched'
          PROVE  j \in Range(flush')
      <4>1. j \in Listed /\ j # i /\ dirty[j] /\ sector_idx[j] \notin touched
        BY <3>1, <1>1, <1>5, <1>10
      <4>2. j \in Range(flush)
        BY <4>1, <1>1 DEF Flushing
      <4> QED BY <4>1, <4>2, <1>2, <1>10
    <3>2. \A j \in Range(flush') : j \in Listed'
      BY <1>2, <1>4, <1>5, <1>10 DEF Flushing
    <3> QED BY <3>1, <3>2, <1>4, <1>10 DEF Flushing
  <2> QED BY <2>1, <2>2, <2>3, <2>4, <1>5
<1>11. CASE /\ pc[Flusher] = "flush" /\ ~dirty[i]
            /\ flush' = Tail(flush)
            /\ UNCHANGED <<disk, dirty, pc>>
  <2>1. sector_idx[i] \notin touched => disk[sector_idx[i]] = Expected(sector_idx[i])
    BY <1>2, <1>11 DEF Coherence
  <2> QED BY <2>1, <1>10, <1>11 DEF TypeOK
<1>12. CASE /\ pc[Flusher] = "clear"
            /\ dirty' = [dirty EXCEPT ![i] = FALSE]
            /\ flush' = Tail(flush)
            /\ Goto(Flusher, "flush")
            /\ UNCHANGED disk
  <2>1. sector_idx[i] \notin touched => disk[sector_idx[i]] = Expected(sector_idx[i])
    BY <1>0, <1>12 DEF Flushing
  <2>2. pc'[Flusher] = "flush"
    BY <1>12 DEF Goto, TypeOK
  <2>3. /\ dirty' \in [Slot -> BOOLEAN] /\ ~dirty'[i]
        /\ \A j \in Slot \ {i} : dirty'[j] = dirty[j]
    BY <1>2, <1>12 DEF TypeOK
  <2> QED BY <2>1, <2>2, <2>3, <1>10, <1>12
<1> QED BY <1>0, <1>9, <1>11, <1>12 DEF flush_sector

\* The flush is over and the machine is switched off.
LEMMA FlushEndIInv == ASSUME IInv, flush_end PROVE IInv'
<1> USE DEF IInv
<1>1. /\ pc[Flusher] = "flush" /\ flush = <<>> /\ buffer_cache_lock' = None
      /\ UNCHANGED <<disk, buffer_cache, sector_idx, data, dirty, sector_lock, op, slot,
                     ops, flush, latest, zeroed, touched>>
  BY DEF flush_end
<1>2. pc'[Flusher] = "off" /\ ~Flushes' /\ Flushes /\ \A u \in Thread : pc'[u] = pc[u]
  BY <1>1 DEF flush_end, Goto, TypeOK, Flushes
<1>3. buffer_cache_lock = Flusher /\ \A u \in Thread : pc[u] # "evict"
  BY <1>2 DEF Locking
<1>4. /\ Listed' = Listed /\ Listed \subseteq Slot
      /\ \A u \in Thread : Has(u)' = Has(u) /\ Pending(u)' = Pending(u)
      /\ \A r \in Sector : Expected(r)' = Expected(r)
      /\ Locking'
  BY <1>1, <1>2, <1>3, FlusherFacts
<1>5. TypeOK'
  <2>1. pc' \in [Thread \cup {Flusher} ->
                   {"idle", "search", "found", "evict", "have", "copy2", "copied",
                    "flush", "clear", "off"}]
    BY DEF flush_end, Goto, TypeOK
  <2> QED BY <2>1, <1>1 DEF TypeOK
<1>6. ListShape'
  BY <1>1, <1>4 DEF ListShape
<1>7. Coherence'
  <2>1. \A j \in Listed : sector_idx[j] \in Sector
    BY DEF ListShape
  <2>2. \A j \in Listed : Expected(sector_idx[j])' = Expected(sector_idx[j])
    BY <2>1, <1>1, <1>4
  <2>3. \A j \in Listed', h \in Half :
          \/ data'[j][h] = Expected(sector_idx[j])'[h]
          \/ \E u \in Thread :
               /\ Has(u)' /\ slot'[u] = j /\ h \in Pending(u)'
               /\ pc'[Flusher] = "idle" \/ sector_idx'[j] \in touched'
    BY <2>1, <2>2, <1>1, <1>2, <1>4 DEF Coherence, Flushes
  <2>4. \A j \in Listed' :
          ~dirty'[j] /\ sector_idx'[j] \notin touched'
          => disk'[sector_idx'[j]] = Expected(sector_idx[j])'
    BY <2>1, <2>2, <1>1, <1>2, <1>4 DEF Coherence, Flushes
  <2>5. \A r \in Sector : (\A j \in Listed' : sector_idx'[j] # r) => disk'[r] = Expected(r)'
    BY <1>1, <1>4 DEF Coherence
  <2> QED BY <2>3, <2>4, <2>5, <1>1, <1>2 DEF Coherence
<1>8. Flushing'
  <2>1. Range(flush) = {}
    BY <1>1, EmptyFacts
  <2>2. \A i \in Listed : dirty[i] => sector_idx[i] \in touched
    BY <1>1, <2>1 DEF Flushing
  <2> QED BY <2>2, <1>1, <1>2, <1>4 DEF Flushing
<1> QED BY <1>4, <1>5, <1>6, <1>7, <1>8
-----------------------------------------------------------------------------
\* Every step of the cache preserves the invariant.
LEMMA StepIInv == IInv /\ [Next]_vars => IInv'
<1> SUFFICES ASSUME IInv, [Next]_vars PROVE IInv'
  OBVIOUS
<1>1. CASE \E t \in Thread : call(t) \/ Run(t)
  <2> PICK t \in Thread : call(t) \/ Run(t)
    BY <1>1
  <2> QED BY CallIInv, SearchIInv, EvictIInv, RecheckIInv, ReadIInv, CopyIInv, DoneIInv DEF Run
<1>2. CASE flush_start
  BY <1>2, FlushStartIInv
<1>3. CASE RunFlusher
  BY <1>3, FlushSectorIInv, FlushEndIInv DEF RunFlusher
<1>4. CASE UNCHANGED vars
  <2> USE <1>4 DEF vars
  <2>1. TypeOK'
    BY DEF IInv, TypeOK
  <2>2. ListShape' /\ Locking'
    BY DEF IInv, ListShape, Locking, Listed, Has, Flushes
  <2>3. Coherence'
    BY DEF IInv, Coherence, Listed, Has, Pending, Expected, BeingWritten
  <2>4. Flushing'
    BY DEF IInv, Flushing, Flushes, Listed, Expected
  <2> QED BY <2>1, <2>2, <2>3, <2>4 DEF IInv
<1> QED BY <1>1, <1>2, <1>3, <1>4 DEF Next

\* The invariant holds in every reachable state of the cache.
THEOREM Invariance == Spec => []IInv
  BY InitIInv, StepIInv, PTL DEF Spec

\* get_cached_sector gives a thread the sector it asked for, locked and listed,
\* and no sector is cached twice: for any number of threads, any size of the
\* cache and any disk larger than it.
THEOREM RightSectorTheorem == Spec => []RightSector
<1>1. IInv => RightSector
  <2> SUFFICES ASSUME IInv PROVE RightSector
    OBVIOUS
  <2>1. TypeOK
    BY DEF IInv
  <2>2. \A i, j \in 1..Len(buffer_cache) :
          i # j => sector_idx[buffer_cache[i]] # sector_idx[buffer_cache[j]]
    BY <2>1, RangeFacts DEF IInv, ListShape, Distinct, Listed, TypeOK
  <2>3. \A t \in Thread : pc[t] \in {"have", "copy2", "copied"} =>
          /\ sector_lock[slot[t]] = t
          /\ slot[t] \in Range(buffer_cache)
          /\ sector_idx[slot[t]] = op[t].sector
    BY DEF IInv, Locking, Has, Listed
  <2> QED BY <2>1, <2>2, <2>3 DEF RightSector
<1> QED BY <1>1, Invariance, PTL

\* A cache_read copies what was last written, up to the zeroing of a partial
\* write that missed: no eviction loses a write, no reload brings back stale data.
THEOREM ReadsWrittenTheorem == Spec => []ReadsWritten
<1>1. IInv => ReadsWritten
  <2> SUFFICES ASSUME IInv, NEW t \in Thread, pc[t] = "have", op[t].kind = "read"
               PROVE  data[slot[t]] = Expected(op[t].sector)
    BY DEF ReadsWritten
  <2>1. /\ slot[t] \in Listed /\ slot[t] \in Slot /\ sector_idx[slot[t]] = op[t].sector
        /\ \A u \in Thread : Has(u) /\ slot[u] = slot[t] => u = t
    BY DEF IInv, Locking, Has, TypeOK
  <2>2. Pending(t) = {}
    BY WrittenFacts DEF Pending
  <2>3. \A h \in Half : data[slot[t]][h] = Expected(op[t].sector)[h]
    BY <2>1, <2>2 DEF IInv, Coherence
  <2>4. data[slot[t]] \in [Half -> Content]
    BY <2>1 DEF IInv, TypeOK
  <2> QED BY <2>3, <2>4 DEF Expected
<1> QED BY <1>1, Invariance, PTL

\* After write_all_dirty_sectors every sector nobody wrote during the flush is on
\* the disk as last written.
THEOREM FlushDurableTheorem == Spec => []FlushDurable
<1>1. IInv => FlushDurable
  <2> SUFFICES ASSUME IInv, pc[Flusher] = "off", NEW s \in Sector \ touched
               PROVE  disk[s] = Expected(s)
    BY DEF FlushDurable
  <2>1. CASE \E i \in Listed : sector_idx[i] = s
    BY <2>1 DEF IInv, Coherence, Flushing, Flushes
  <2>2. CASE \A i \in Listed : sector_idx[i] # s
    BY <2>2 DEF IInv, Coherence
  <2> QED BY <2>1, <2>2
<1> QED BY <1>1, Invariance, PTL
=============================================================================

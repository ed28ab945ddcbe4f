----------------------------- MODULE HashTable -----------------------------
(***************************************************************************)
(* The hash table of lib/kernel/hash.c.  A bucket is a sequence (what a    *)
(* linked list implements, KernelList); every operation may change the     *)
(* number of buckets, and the allocation that needs may fail.              *)
(***************************************************************************)
EXTENDS Integers, Sequences, FiniteSets, SequencesExt, CLang

CONSTANTS
  HashElem,              \* hash elements
  KeyOf,                 \* HashElem -> Nat: what less compares
  HashOf,                \* HashElem -> Nat: the hash function, a function of the key
  MinBuckets,            \* 4 in hash_init and rehash, a power of 2
  BEST_ELEMS_PER_BUCKET  \* 2

ASSUME HashAssumption ==
  /\ KeyOf \in [HashElem -> Nat] /\ HashOf \in [HashElem -> Nat]
  /\ \A e, f \in HashElem : KeyOf[e] = KeyOf[f] => HashOf[e] = HashOf[f]
  /\ \E k \in 0..10 : MinBuckets = 2^k
  /\ BEST_ELEMS_PER_BUCKET \in Nat \ {0}

VARIABLES
  buckets,     \* h->buckets: a sequence of sequences
  elem_cnt,
  iter,        \* hash_iterator: bucket number and position, 0 before the first
  visited,     \* what hash_next has returned since hash_first
  ret          \* a call that has just returned: [fn, e, value]; Ready between two

hashVars == <<buckets, elem_cnt, iter, visited, ret>>

bucket_cnt == Len(buckets)
turn_off_least_1bit(x) == x - (CHOOSE b \in {2^k : k \in 0..10} : x % b = 0 /\ x % (2 * b) # 0)
is_power_of_2(x) == x # 0 /\ turn_off_least_1bit(x) = 0

\* The number of the bucket of cnt that e belongs in; cnt is a power of 2.
find_bucket(e, cnt) == (HashOf[e] % cnt) + 1

find_elem(b, e) ==
  LET i == SelectInSeq(b, LAMBDA x : KeyOf[x] = KeyOf[e]) IN IF i = 0 THEN NULL ELSE b[i]

insert_elem(bs, e) == [bs EXCEPT ![find_bucket(e, Len(bs))] = <<e>> \o @]
remove_elem(bs, e) == [bs EXCEPT ![find_bucket(e, Len(bs))] = Remove(@, e)]

\* The number of buckets rehash wants for cnt elements.
BucketsFor(cnt) ==
  LET best == cnt \div BEST_ELEMS_PER_BUCKET
  IN  While(LAMBDA n : ~is_power_of_2(n), turn_off_least_1bit,
            IF best < MinBuckets THEN MinBuckets ELSE best, 10)

\* Each element of the old buckets, in order, pushed to the front of its new one.
Moved(bs, n) == [i \in 1..n |-> Reverse(SelectSeq(FlattenSeq(bs), LAMBDA e : find_bucket(e, n) = i))]

\* Mutant of rehash: the count of buckets changes although malloc failed.
rehash_unchecked(bs, cnt) ==
  \/ buckets' = Moved(bs, BucketsFor(cnt))
  \/ buckets' = [i \in 1..BucketsFor(cnt) |-> IF i <= Len(bs) THEN bs[i] ELSE <<>>]

\* rehash: bs are the buckets and cnt the count its caller leaves.
rehash(bs, cnt) ==
  \/ buckets' = IF BucketsFor(cnt) = Len(bs) THEN bs ELSE Moved(bs, BucketsFor(cnt))
  \/ BucketsFor(cnt) # Len(bs) /\ buckets' = bs        \* malloc failed

NoIteration == iter' = <<0, 0>> /\ visited' = <<>>

Ready == [fn |-> "none", e |-> NULL, value |-> NULL]
Answer(fn, e, value) == ret = Ready /\ ret' = [fn |-> fn, e |-> e, value |-> value]

HashInit ==
  /\ buckets = [i \in 1..MinBuckets |-> <<>>] /\ elem_cnt = 0
  /\ iter = <<0, 0>> /\ visited = <<>> /\ ret = Ready

hash_insert(new) ==
  LET old == find_elem(buckets[find_bucket(new, bucket_cnt)], new)
      bs == IF old = NULL THEN insert_elem(buckets, new) ELSE buckets
  IN  /\ Answer("insert", new, old) /\ NoIteration
      /\ elem_cnt' = IF old = NULL THEN elem_cnt + 1 ELSE elem_cnt
      /\ rehash(bs, elem_cnt')

\* Mutant of hash_replace: the element that is replaced stays in its bucket.
hash_replace_keeping(new) ==
  LET old == find_elem(buckets[find_bucket(new, bucket_cnt)], new)
  IN  /\ Answer("replace", new, old) /\ NoIteration
      /\ elem_cnt' = IF old = NULL THEN elem_cnt + 1 ELSE elem_cnt
      /\ rehash(insert_elem(buckets, new), elem_cnt')

hash_replace(new) ==
  LET old == find_elem(buckets[find_bucket(new, bucket_cnt)], new)
      bs == IF old = NULL THEN buckets ELSE remove_elem(buckets, old)
  IN  /\ Answer("replace", new, old) /\ NoIteration
      /\ elem_cnt' = IF old = NULL THEN elem_cnt + 1 ELSE elem_cnt
      /\ rehash(insert_elem(bs, new), elem_cnt')

hash_find(e) ==
  /\ Answer("find", e, find_elem(buckets[find_bucket(e, bucket_cnt)], e))
  /\ UNCHANGED <<buckets, elem_cnt, iter, visited>>

hash_delete(e) ==
  LET found == find_elem(buckets[find_bucket(e, bucket_cnt)], e) IN
  /\ Answer("delete", e, found) /\ NoIteration
  /\ \/ /\ found # NULL
        /\ elem_cnt' = elem_cnt - 1
        /\ rehash(remove_elem(buckets, found), elem_cnt - 1)
     \/ found = NULL /\ UNCHANGED <<buckets, elem_cnt>>

hash_clear ==
  /\ Answer("clear", NULL, NULL) /\ NoIteration
  /\ buckets' = [i \in 1..bucket_cnt |-> <<>>] /\ elem_cnt' = 0

hash_first ==
  /\ Answer("first", NULL, NULL)
  /\ iter' = <<1, 0>> /\ visited' = <<>>
  /\ UNCHANGED <<buckets, elem_cnt>>

\* Past the end of a bucket, go to the first element of the next nonempty one.
hash_next ==
  LET skip == While(LAMBDA i : i[1] <= bucket_cnt /\ i[2] > Len(buckets[i[1]]),
                    LAMBDA i : <<i[1] + 1, 1>>, <<iter[1], iter[2] + 1>>, bucket_cnt)
      found == IF skip[1] > bucket_cnt THEN NULL ELSE buckets[skip[1]][skip[2]]
  IN  /\ iter[1] \in 1..bucket_cnt
      /\ Answer("next", NULL, found)
      /\ iter' = skip
      /\ visited' = IF found = NULL THEN visited ELSE Append(visited, found)
      /\ UNCHANGED <<buckets, elem_cnt>>

\* The action is called for every element, bucket by bucket.
hash_apply ==
  /\ Answer("apply", NULL, NULL)
  /\ visited' = FlattenSeq(buckets) /\ iter' = <<bucket_cnt + 1, 1>>
  /\ UNCHANGED <<buckets, elem_cnt>>

\* The caller is ready for the next call.
Answered == ret # Ready /\ ret' = Ready /\ UNCHANGED <<buckets, elem_cnt, iter, visited>>

HashNext ==
  \/ \E e \in HashElem :
       /\ e \notin UNION {Range(buckets[i]) : i \in 1..bucket_cnt}
       /\ hash_insert(e) \/ hash_replace(e)
  \/ \E e \in HashElem : hash_find(e) \/ hash_delete(e)
  \/ hash_clear \/ hash_first \/ hash_next \/ hash_apply \/ Answered

HashSpecification == HashInit /\ [][HashNext]_hashVars
-----------------------------------------------------------------------------
Elements == UNION {Range(buckets[i]) : i \in 1..bucket_cnt}
Equals(S, e) == {x \in S : KeyOf[x] = KeyOf[e]}

\* Whether or not rehash got its memory: every element is in the bucket its
\* hash names, so that it is found; it is there once; elem_cnt counts them; the
\* number of buckets is a power of 2, as the mask in find_bucket needs; and an
\* iteration that is not disturbed visits every element exactly once.
BucketsConsistent ==
  /\ \A i \in 1..bucket_cnt : \A e \in Range(buckets[i]) : find_bucket(e, bucket_cnt) = i
  /\ elem_cnt = Len(FlattenSeq(buckets)) /\ elem_cnt = Cardinality(Elements)
  /\ is_power_of_2(bucket_cnt)
  /\ iter[1] > bucket_cnt => Len(visited) = elem_cnt /\ Range(visited) = Elements

\* What a call of fn with argument e makes of the set c: the set d after it and
\* the value r returned.  v is what the iteration had visited.
SetCall(fn, e, c, d, r, v) ==
  LET equal == Equals(c, e)
      answered == equal = IF r = NULL THEN {} ELSE {r}
  IN  CASE fn = "insert" -> answered /\ d = IF equal = {} THEN c \cup {e} ELSE c
        [] fn = "replace" -> answered /\ d = (c \ equal) \cup {e}
        [] fn = "find" -> answered /\ d = c
        [] fn = "delete" -> answered /\ d = c \ equal
        [] fn = "clear" -> d = {}
        [] fn = "next" -> d = c /\ IF r = NULL THEN v = c ELSE r \in c \ v
        [] fn \in {"first", "apply", "none"} -> d = c

\* The table behaves as a set of elements with distinct keys, call by call:
\* hash_insert, hash_replace, hash_find and hash_delete return the element equal
\* to their argument, NULL exactly if there is none, and insert leaves the set
\* alone then, replace puts its argument in that element's place and delete
\* removes it; hash_next returns an element that the iteration has not returned
\* yet, NULL exactly if there is none.
BehavesAsSet ==
  [][\E c \in {Elements}, d \in {Elements'} :
       /\ SetCall(ret'.fn, ret'.e, c, d, ret'.value, Range(visited))
       /\ \A e \in d : Equals(d, e) = {e}]_hashVars
=============================================================================

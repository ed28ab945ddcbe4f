----------------------------- MODULE KernelList -----------------------------
(***************************************************************************)
(* The doubly linked lists of lib/kernel/list.c, at the level of their     *)
(* links: memory maps the address of every list_elem to its prev and next  *)
(* pointers, and every function is a transformation of the memory.  A      *)
(* removed element keeps its stale links, as in the code.                  *)
(***************************************************************************)
EXTENDS Integers, Sequences, FiniteSets, CLang

CONSTANTS
  Elem,      \* addresses of list_elems that are inside some struct
  List,      \* numbers of the lists; a list has its own two list_elems
  Keys       \* what less functions compare: functions from Elem to Nat

ASSUME ListAssumption ==
  /\ IsFiniteSet(Elem) /\ Elem \subseteq Nat \ {0} /\ List \subseteq Nat \ {0}
  /\ Keys \subseteq [Elem -> Nat]

list_head(l) == -2 * l
list_tail(l) == -2 * l - 1
Node == Elem \cup {list_head(l) : l \in List} \cup {list_tail(l) : l \in List}

\* A memory is [prev, next : Node -> Node \cup {NULL}, ok : no ASSERT failed].
ASSERT(m, p) == [m EXCEPT !.ok = @ /\ p]
\* The less function for key k, an argument of the functions that compare.
less(k, a, b) == k[a] < k[b]
MaxIterations == Cardinality(Elem) + 1

is_interior(m, e) == e # NULL /\ m.prev[e] # NULL /\ m.next[e] # NULL
is_tail(m, e) == e # NULL /\ m.prev[e] # NULL /\ m.next[e] = NULL

list_init(m, l) ==
  [m EXCEPT !.prev[list_head(l)] = NULL, !.next[list_head(l)] = list_tail(l),
            !.prev[list_tail(l)] = list_head(l), !.next[list_tail(l)] = NULL]
list_begin(m, l) == m.next[list_head(l)]
list_end(l) == list_tail(l)
list_rbegin(m, l) == m.prev[list_tail(l)]
list_empty(m, l) == list_begin(m, l) = list_end(l)

list_insert(m, before, e) ==
  [ASSERT(m, is_interior(m, before) \/ is_tail(m, before)) EXCEPT
     !.prev[e] = m.prev[before], !.next[e] = before,
     !.next[m.prev[before]] = e, !.prev[before] = e]

list_splice(m, before, first, last) ==
  LET l == m.prev[last]
      n == ASSERT(m, is_interior(m, before) \/ is_tail(m, before))
      cut == [ASSERT(n, (is_interior(m, last) \/ is_tail(m, last))
                        /\ is_interior(m, first) /\ is_interior(m, l)) EXCEPT
                !.next[m.prev[first]] = m.next[l], !.prev[m.next[l]] = m.prev[first]]
  IN  IF first = last THEN n
      ELSE [cut EXCEPT !.prev[first] = cut.prev[before], !.next[l] = before,
                       !.next[cut.prev[before]] = first, !.prev[before] = l]

list_push_front(m, l, e) == list_insert(m, list_begin(m, l), e)
list_push_back(m, l, e) == list_insert(m, list_end(l), e)

\* list_remove, which returns the element that followed (m.next[e]).
list_remove(m, e) ==
  [ASSERT(m, is_interior(m, e)) EXCEPT
     !.next[m.prev[e]] = m.next[e], !.prev[m.next[e]] = m.prev[e]]

list_front(m, l) == list_begin(m, l)
list_back(m, l) == list_rbegin(m, l)
list_pop_front(m, l) == list_remove(ASSERT(m, ~list_empty(m, l)), list_front(m, l))
list_pop_back(m, l) == list_remove(ASSERT(m, ~list_empty(m, l)), list_back(m, l))

list_size(m, l) ==
  While(LAMBDA s : s.e # list_end(l), LAMBDA s : [e |-> m.next[s.e], cnt |-> s.cnt + 1],
        [e |-> list_begin(m, l), cnt |-> 0], MaxIterations).cnt

list_reverse(m, l) ==
  LET flip(s) == LET n == [s.m EXCEPT !.prev[s.e] = s.m.next[s.e], !.next[s.e] = s.m.prev[s.e]]
                 IN  [m |-> n, e |-> n.prev[s.e]]
      r == While(LAMBDA s : s.e # list_end(l), flip,
                 [m |-> m, e |-> list_begin(m, l)], MaxIterations).m
      \* The two swaps at the ends.
      q == [r EXCEPT !.next[list_head(l)] = r.prev[list_tail(l)],
                     !.prev[list_tail(l)] = r.next[list_head(l)]]
      first == q.next[list_head(l)]   last == q.prev[list_tail(l)]
  IN  IF list_empty(m, l) THEN m
      ELSE [q EXCEPT !.prev[first] = q.next[last], !.next[last] = q.prev[first]]

is_sorted(k, m, a, b) ==
  \/ a = b
  \/ While(LAMBDA s : s.a # b /\ s.ok,
           LAMBDA s : [a |-> m.next[s.a], ok |-> ~less(k, s.a, m.prev[s.a])],
           [a |-> m.next[a], ok |-> TRUE], MaxIterations).ok

find_end_of_run(k, m, a, b) ==
  DoWhile(LAMBDA x : x # b /\ ~less(k, x, m.prev[x]), LAMBDA x : m.next[x], a, MaxIterations)

\* Mutant of inplace_merge: an equal element of the second run goes first.
inplace_merge_unstable(k, m, from, mid, to) ==
  LET step(s) ==
        IF less(k, s.a0, s.a1b0) THEN [s EXCEPT !.a0 = s.m.next[s.a0]]
        ELSE LET n == s.m.next[s.a1b0]
             IN  [s EXCEPT !.a1b0 = n, !.m = list_splice(s.m, s.a0, s.m.prev[n], n)]
  IN  While(LAMBDA s : s.a0 # s.a1b0 /\ s.a1b0 # to, step,
            [m |-> ASSERT(m, is_sorted(k, m, from, mid) /\ is_sorted(k, m, mid, to)),
             a0 |-> from, a1b0 |-> mid], 2 * MaxIterations).m

inplace_merge(k, m, from, mid, to) ==
  LET step(s) ==
        IF ~less(k, s.a1b0, s.a0) THEN [s EXCEPT !.a0 = s.m.next[s.a0]]
        ELSE LET n == s.m.next[s.a1b0]
             IN  [s EXCEPT !.a1b0 = n, !.m = list_splice(s.m, s.a0, s.m.prev[n], n)]
  IN  While(LAMBDA s : s.a0 # s.a1b0 /\ s.a1b0 # to, step,
            [m |-> ASSERT(m, is_sorted(k, m, from, mid) /\ is_sorted(k, m, mid, to)),
             a0 |-> from, a1b0 |-> mid], 2 * MaxIterations).m

list_sort(m, l, k) ==
  LET end == list_end(l)
      merge_two(s) ==
        LET a1b0 == find_end_of_run(k, s.m, s.a0, end)
            b1 == find_end_of_run(k, s.m, a1b0, end)
        IN  IF a1b0 = end THEN [s EXCEPT !.a0 = end, !.runs = @ + 1]
            ELSE [m |-> inplace_merge(k, s.m, s.a0, a1b0, b1), a0 |-> b1, runs |-> s.runs + 1]
      pass(s) == While(LAMBDA t : t.a0 # end, merge_two,
                       [m |-> s.m, a0 |-> list_begin(s.m, l), runs |-> 0], MaxIterations)
      r == DoWhile(LAMBDA s : s.runs > 1, pass, [m |-> m], MaxIterations).m
  IN  ASSERT(r, is_sorted(k, r, list_begin(r, l), end))

list_insert_ordered(m, l, e, k) ==
  list_insert(m, While(LAMBDA x : x # list_end(l) /\ ~less(k, e, x), LAMBDA x : m.next[x],
                       list_begin(m, l), MaxIterations), e)

\* duplicates is a list or NULL.
list_unique(m, l, duplicates, k) ==
  LET step(s) ==
        LET next == s.m.next[s.elem]
            cut == list_remove(s.m, next)
        IN
        IF ~less(k, s.elem, next) /\ ~less(k, next, s.elem)
          THEN [s EXCEPT !.m = IF duplicates = NULL THEN cut ELSE list_push_back(cut, duplicates, next)]
          ELSE [s EXCEPT !.elem = next]
  IN  IF list_empty(m, l) THEN m
      ELSE While(LAMBDA s : s.m.next[s.elem] # list_end(l), step,
                 [m |-> m, elem |-> list_begin(m, l)], MaxIterations).m

\* The loop of list_max and list_min: better is the test on the best so far.
Extremum(m, l, better(_, _)) ==
  LET step(s) == [e |-> m.next[s.e], best |-> IF better(s.best, s.e) THEN s.e ELSE s.best]
      first == list_begin(m, l)
  IN  IF first = list_end(l) THEN first
      ELSE While(LAMBDA s : s.e # list_end(l), step,
                 [e |-> m.next[first], best |-> first], MaxIterations).best
list_max(m, l, k) == Extremum(m, l, LAMBDA max, e : less(k, max, e))
list_min(m, l, k) == Extremum(m, l, LAMBDA min, e : less(k, e, min))
-----------------------------------------------------------------------------
VARIABLES
  memory,
  result     \* a call that has just returned: the function, its list, its other
             \* arguments and the value; NoCall between two calls

listVars == <<memory, result>>

\* The elements met from the head on; a list has at most all the elements.
Forward(l) ==
  While(LAMBDA s : s.e \in Elem, LAMBDA s : [e |-> memory.next[s.e], seq |-> Append(s.seq, s.e)],
        [e |-> list_begin(memory, l), seq |-> <<>>], MaxIterations).seq
Members(l) == {Forward(l)[i] : i \in DOMAIN Forward(l)}
Unlinked == Elem \ UNION {Members(l) : l \in List}
KeysSorted(l, k) == \A i, j \in DOMAIN Forward(l) : i < j => k[Forward(l)[i]] <= k[Forward(l)[j]]

NoCall == [fn |-> "none", list |-> 0, arg |-> <<>>, value |-> NULL]

\* Every list is empty; an element's links are whatever, here null.
ListInit ==
  /\ memory = [prev |-> [n \in Node |-> IF \E l \in List : n = list_tail(l) THEN n + 1 ELSE NULL],
               next |-> [n \in Node |-> IF \E l \in List : n = list_head(l) THEN n - 1 ELSE NULL],
               ok |-> TRUE]
  /\ result = NoCall

Call(fn, l, arg, m, value) ==
  /\ result = NoCall
  /\ memory' = m /\ result' = [fn |-> fn, list |-> l, arg |-> arg, value |-> value]

Insertion ==
  \E l \in List, e \in Unlinked :
    \/ Call("push_front", l, <<e>>, list_push_front(memory, l, e), NULL)
    \/ Call("push_back", l, <<e>>, list_push_back(memory, l, e), NULL)
    \/ \E b \in Members(l) : Call("insert", l, <<e, b>>, list_insert(memory, b, e), NULL)
    \/ \E k \in Keys : /\ KeysSorted(l, k)
                       /\ Call("insert_ordered", l, <<e, k>>, list_insert_ordered(memory, l, e, k), NULL)

Removal ==
  \E l \in List :
    \/ \E e \in Members(l) : Call("remove", l, <<e>>, list_remove(memory, e), memory.next[e])
    \/ /\ ~list_empty(memory, l)
       /\ \/ Call("pop_front", l, <<>>, list_pop_front(memory, l), list_front(memory, l))
          \/ Call("pop_back", l, <<>>, list_pop_back(memory, l), list_back(memory, l))

\* The elements i..j-1 of list k go before the p-th element, or the end, of list l.
Splicing ==
  \E l, k \in List : \E p \in 1..Len(Forward(l)) + 1, i, j \in 1..Len(Forward(k)) + 1 :
    LET at(x, n) == IF n \in DOMAIN Forward(x) THEN Forward(x)[n] ELSE list_end(x) IN
    /\ l # k /\ i <= j
    /\ Call("splice", l, <<k, p, i, j>>, list_splice(memory, at(l, p), at(k, i), at(k, j)), NULL)

WholeList ==
  \E l \in List :
    \/ Call("init", l, <<>>, list_init(memory, l), NULL)
    \/ Call("reverse", l, <<>>, list_reverse(memory, l), NULL)
    \/ \E k \in Keys :
         \/ Call("sort", l, <<k>>, list_sort(memory, l, k), NULL)
         \/ \E d \in (List \ {l}) \cup {NULL} : Call("unique", l, <<k, d>>, list_unique(memory, l, d, k), NULL)

Query ==
  \E l \in List :
    \/ Call("size", l, <<>>, memory, list_size(memory, l))
    \/ \E k \in Keys : \/ Call("max", l, <<k>>, memory, list_max(memory, l, k))
                       \/ Call("min", l, <<k>>, memory, list_min(memory, l, k))

\* The caller is ready for the next call.
Returned == result # NoCall /\ result' = NoCall /\ UNCHANGED memory

ListNext == Insertion \/ Removal \/ Splicing \/ WholeList \/ Query \/ Returned

ListSpecification == ListInit /\ [][ListNext]_listVars
-----------------------------------------------------------------------------
\* The links of list l agree in both directions.
WellFormed(l) ==
  LET path == <<list_head(l)>> \o Forward(l) \o <<list_tail(l)>> IN
  /\ memory.prev[list_head(l)] = NULL /\ memory.next[list_tail(l)] = NULL
  /\ \A i \in 1..Len(path) - 1 :
       memory.next[path[i]] = path[i + 1] /\ memory.prev[path[i + 1]] = path[i]

\* A list stands for the sequence of its elements as long as its links agree and
\* no ASSERT of list.c (list_sort's own checks of its result and of the runs it
\* merges among them) has failed.
Sequences_ == INSTANCE ListSpec WITH
  contents <- [l \in List |-> IF memory.ok /\ WellFormed(l) THEN Forward(l) ELSE <<NULL>>],
  call <- result, End <- list_end

\* The linked lists implement sequences: every function of list.c leaves links
\* that agree in both directions, changes the sequences as ListSpec says for
\* the call that was made, and returns what it should; list_sort is stable and
\* list_max and list_min return the earliest of equals.
ImplementsSequences == Sequences_!Spec
=============================================================================

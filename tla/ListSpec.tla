------------------------------ MODULE ListSpec ------------------------------
(***************************************************************************)
(* What lib/kernel/list.h promises: a list is a sequence of elements, and  *)
(* no element is twice in a list or in two lists.  call is the call that   *)
(* has just returned: the function, its list, its other arguments and the  *)
(* value; End(l) stands for list_end (l).                                  *)
(***************************************************************************)
EXTENDS Integers, Sequences, SequencesExt

CONSTANTS Elem, List, End(_), NoCall

VARIABLES contents, call

vars == <<contents, call>>
Nothing == 0

\* Every operation is a relation between the lists before (c) and after (d), the
\* list (l) and the other arguments (x) and the value returned (r).  The argument
\* of a function that compares is the key.
Unlinked(c, e) == e \in Elem /\ \A l \in List : e \notin Range(c[l])
Become(c, d, l, s) == d = [c EXCEPT ![l] = s]
Position(s, e) == CHOOSE i \in DOMAIN s : s[i] = e
At(l, s, i) == IF i \in DOMAIN s THEN s[i] ELSE End(l)
Sorted(k, s) == \A i, j \in DOMAIN s : i < j => k[s[i]] <= k[s[j]]

\* t has the elements of s ordered by key, those with equal keys as in s.
StablySorted(k, s, t) ==
  /\ Len(t) = Len(s) /\ Range(t) = Range(s)
  /\ \A i, j \in DOMAIN t : i < j =>
       k[t[i]] < k[t[j]] \/ (k[t[i]] = k[t[j]] /\ Position(s, t[i]) < Position(s, t[j]))

\* The positions of the elements whose key differs from that of the one before.
FirstOfRun(k, s) == {i \in DOMAIN s : i = 1 \/ k[s[i]] # k[s[i - 1]]}
AtPositions(s, P) ==
  LET pick[i \in 0..Len(s)] ==
        IF i = 0 THEN <<>> ELSE IF i \in P THEN Append(pick[i - 1], s[i]) ELSE pick[i - 1]
  IN  pick[Len(s)]

\* r is the earliest element of s that no other is better than.
IsBest(s, r, Better(_, _)) ==
  \E i \in DOMAIN s : /\ r = s[i]
                     /\ \A j \in DOMAIN s : ~Better(s[j], s[i]) /\ (j < i => Better(s[i], s[j]))

Insert(c, d, l, e, p) == Unlinked(c, e) /\ Become(c, d, l, InsertAt(c[l], p, e))

InsertOrdered(c, d, l, e, k) ==
  /\ Unlinked(c, e) /\ Sorted(k, c[l])
  /\ Become(c, d, l, SelectSeq(c[l], LAMBDA x : k[x] <= k[e]) \o <<e>>
                     \o SelectSeq(c[l], LAMBDA x : k[x] > k[e]))

Delete(c, d, l, i) == i \in DOMAIN c[l] /\ Become(c, d, l, RemoveAt(c[l], i))

\* Elements i..j-1 of list m go in front of position p of list l.
Splice(c, d, l, m, p, i, j) ==
  LET s == c[l]   t == c[m] IN
  /\ l # m /\ i <= j /\ j <= Len(t) + 1 /\ p <= Len(s) + 1
  /\ d = [c EXCEPT ![l] = SubSeq(s, 1, p - 1) \o SubSeq(t, i, j - 1) \o SubSeq(s, p, Len(s)),
                   ![m] = SubSeq(t, 1, i - 1) \o SubSeq(t, j, Len(t))]

SortList(c, d, l, k) == StablySorted(k, c[l], d[l]) /\ Become(c, d, l, d[l])

\* The duplicates go to the end of list m, unless that is Nothing.
Unique(c, d, l, k, m) ==
  LET first == FirstOfRun(k, c[l])
      rest == AtPositions(c[l], DOMAIN c[l] \ first)
  IN  d = [x \in List |-> IF x = l THEN AtPositions(c[l], first)
                          ELSE IF x = m THEN c[x] \o rest ELSE c[x]]

Step(fn, l, c, d, x, r) ==
  CASE fn = "init" -> Become(c, d, l, <<>>) /\ r = Nothing
    [] fn = "push_front" -> Insert(c, d, l, x[1], 1) /\ r = Nothing
    [] fn = "push_back" -> Insert(c, d, l, x[1], Len(c[l]) + 1) /\ r = Nothing
    [] fn = "insert" -> x[2] \in Range(c[l]) /\ Insert(c, d, l, x[1], Position(c[l], x[2])) /\ r = Nothing
    [] fn = "insert_ordered" -> InsertOrdered(c, d, l, x[1], x[2]) /\ r = Nothing
    [] fn = "remove" -> LET i == Position(c[l], x[1]) IN Delete(c, d, l, i) /\ r = At(l, c[l], i + 1)
    [] fn = "pop_front" -> Delete(c, d, l, 1) /\ r = c[l][1]
    [] fn = "pop_back" -> Delete(c, d, l, Len(c[l])) /\ r = c[l][Len(c[l])]
    [] fn = "splice" -> Splice(c, d, l, x[1], x[2], x[3], x[4]) /\ r = Nothing
    [] fn = "reverse" -> Become(c, d, l, Reverse(c[l])) /\ r = Nothing
    [] fn = "sort" -> SortList(c, d, l, x[1]) /\ r = Nothing
    [] fn = "unique" -> Unique(c, d, l, x[1], x[2]) /\ r = Nothing
    [] fn = "size" -> d = c /\ r = Len(c[l])
    [] fn = "max" -> d = c /\ IF c[l] = <<>> THEN r = End(l)
                              ELSE IsBest(c[l], r, LAMBDA a, b : x[1][a] > x[1][b])
    [] fn = "min" -> d = c /\ IF c[l] = <<>> THEN r = End(l)
                              ELSE IsBest(c[l], r, LAMBDA a, b : x[1][a] < x[1][b])

Init == contents = [l \in List |-> <<>>] /\ call = NoCall
Next ==
  \/ /\ call = NoCall /\ call' # NoCall
     /\ \E c \in {contents}, d \in {contents'}, q \in {call'} : Step(q.fn, q.list, c, d, q.arg, q.value)
  \/ call # NoCall /\ call' = NoCall /\ UNCHANGED contents
Spec == Init /\ [][Next]_vars
=============================================================================

----------------------------- MODULE ListLemmas -----------------------------
(***************************************************************************)
(* What the list operations of lib/kernel/list.c do to a list without      *)
(* repetitions, seen as a sequence: used by the proofs of every module     *)
(* that keeps such a list.                                                 *)
(***************************************************************************)
EXTENDS ListOps, TLAPS

\* The elements of a sequence are the values at its positions.
LEMMA RangeFacts ==
  ASSUME NEW S, NEW q \in Seq(S)
  PROVE  /\ Range(q) \subseteq S
         /\ \A n \in 1..Len(q) : q[n] \in Range(q)
         /\ \A i \in Range(q) : \E n \in 1..Len(q) : q[n] = i
         /\ q = <<>> <=> Range(q) = {}
         /\ Len(q) \in Nat
<1>1. DOMAIN q = 1..Len(q) /\ Len(q) \in Nat /\ \A n \in 1..Len(q) : q[n] \in S
  OBVIOUS
<1>2. q = <<>> <=> Len(q) = 0
  OBVIOUS
<1>3. Len(q) = 0 <=> 1..Len(q) = {}
  BY <1>1
<1>4. Range(q) = {q[n] : n \in 1..Len(q)}
  BY <1>1 DEF Range
<1> QED BY <1>1, <1>2, <1>3, <1>4

\* The empty list.
LEMMA EmptyFacts == /\ \A S : <<>> \in Seq(S)
                    /\ Len(<<>>) = 0 /\ Range(<<>>) = {} /\ Distinct(<<>>)
  BY DEF Range, Distinct

\* Membership, in the form the proofs below use it.
LEMMA Member ==
  ASSUME NEW S, NEW q \in Seq(S)
  PROVE  \A x : x \in Range(q) <=> \E n \in 1..Len(q) : q[n] = x
  BY DEF Range

\* list_push_front of an element.
LEMMA PushFrontFacts ==
  ASSUME NEW S, NEW q \in Seq(S), NEW i \in S
  PROVE  /\ <<i>> \o q \in Seq(S)
         /\ Len(<<i>> \o q) = Len(q) + 1
         /\ Range(<<i>> \o q) = Range(q) \cup {i}
         /\ Distinct(q) /\ i \notin Range(q) => Distinct(<<i>> \o q)
<1> DEFINE p == <<i>> \o q
<1>1. p \in Seq(S) /\ Len(p) = Len(q) + 1 /\ Len(q) \in Nat
  OBVIOUS
<1>2. p[1] = i /\ \A n \in 1..Len(q) : p[n + 1] = q[n]
  OBVIOUS
<1> HIDE DEF p
<1>3. \A n \in 1..Len(p) : n = 1 \/ (n - 1 \in 1..Len(q) /\ p[n] = q[n - 1])
  BY <1>1, <1>2
<1>4. 1 \in 1..Len(p) /\ \A n \in 1..Len(q) : n + 1 \in 1..Len(p)
  BY <1>1
<1>5. \A x : x \in Range(q) <=> \E n \in 1..Len(q) : q[n] = x
  BY Member
<1>6. \A x : x \in Range(p) <=> \E n \in 1..Len(p) : p[n] = x
  BY <1>1, Member
<1>7. Range(p) \subseteq Range(q) \cup {i}
  BY <1>2, <1>3, <1>5, <1>6
<1>8. Range(q) \cup {i} \subseteq Range(p)
  BY <1>2, <1>4, <1>5, <1>6
<1>9. ASSUME Distinct(q), i \notin Range(q) PROVE Distinct(p)
  <2> SUFFICES ASSUME NEW m \in 1..Len(p), NEW n \in 1..Len(p), m < n
               PROVE  p[m] # p[n]
    BY <1>1 DEF Distinct
  <2>1. n - 1 \in 1..Len(q) /\ p[n] = q[n - 1]
    BY <1>1, <1>3
  <2>2. CASE m = 1
    BY <2>1, <2>2, <1>2, <1>5, <1>9
  <2>3. CASE m # 1
    BY <2>1, <2>3, <1>1, <1>3, <1>9 DEF Distinct
  <2> QED BY <2>2, <2>3
<1> QED BY <1>1, <1>7, <1>8, <1>9 DEF p

\* list_push_back of an element.
LEMMA PushBackFacts ==
  ASSUME NEW S, NEW q \in Seq(S), NEW i \in S
  PROVE  /\ Append(q, i) \in Seq(S)
         /\ Len(Append(q, i)) = Len(q) + 1
         /\ Range(Append(q, i)) = Range(q) \cup {i}
         /\ Distinct(q) /\ i \notin Range(q) => Distinct(Append(q, i))
<1> DEFINE p == Append(q, i)
<1>1. p \in Seq(S) /\ Len(p) = Len(q) + 1 /\ Len(q) \in Nat
  OBVIOUS
<1>2. p[Len(q) + 1] = i /\ \A n \in 1..Len(q) : p[n] = q[n]
  OBVIOUS
<1> HIDE DEF p
<1>3. \A n \in 1..Len(p) : n = Len(q) + 1 \/ n \in 1..Len(q)
  BY <1>1
<1>4. Len(q) + 1 \in 1..Len(p) /\ \A n \in 1..Len(q) : n \in 1..Len(p)
  BY <1>1
<1>5. \A x : x \in Range(q) <=> \E n \in 1..Len(q) : q[n] = x
  BY Member
<1>6. \A x : x \in Range(p) <=> \E n \in 1..Len(p) : p[n] = x
  BY <1>1, Member
<1>7. Range(p) \subseteq Range(q) \cup {i}
  BY <1>2, <1>3, <1>5, <1>6
<1>8. Range(q) \cup {i} \subseteq Range(p)
  BY <1>2, <1>4, <1>5, <1>6
<1>9. ASSUME Distinct(q), i \notin Range(q) PROVE Distinct(p)
  <2> SUFFICES ASSUME NEW m \in 1..Len(p), NEW n \in 1..Len(p), m < n
               PROVE  p[m] # p[n]
    BY <1>1 DEF Distinct
  <2>1. m \in 1..Len(q) /\ p[m] = q[m]
    BY <1>1, <1>2, <1>3
  <2>2. CASE n = Len(q) + 1
    BY <2>1, <2>2, <1>2, <1>5, <1>9
  <2>3. CASE n # Len(q) + 1
    BY <2>1, <2>3, <1>1, <1>2, <1>3, <1>9 DEF Distinct
  <2> QED BY <2>2, <2>3
<1> QED BY <1>1, <1>7, <1>8, <1>9 DEF p

\* list_pop_front of a list that is not empty.
LEMMA PopFrontFacts ==
  ASSUME NEW S, NEW q \in Seq(S), q # <<>>
  PROVE  /\ Head(q) \in Range(q) /\ Head(q) \in S
         /\ Tail(q) \in Seq(S) /\ Len(Tail(q)) = Len(q) - 1
         /\ Range(q) = Range(Tail(q)) \cup {Head(q)}
         /\ Distinct(q) => Distinct(Tail(q)) /\ Head(q) \notin Range(Tail(q))
<1> DEFINE r == Tail(q)
<1>1. r \in Seq(S) /\ Len(r) = Len(q) - 1 /\ Len(q) \in Nat /\ Len(q) > 0
  OBVIOUS
<1>2. Head(q) = q[1] /\ Head(q) \in S /\ \A n \in 1..Len(r) : r[n] = q[n + 1]
  OBVIOUS
<1> HIDE DEF r
<1>3. \A n \in 1..Len(q) : n = 1 \/ (n - 1 \in 1..Len(r) /\ q[n] = r[n - 1])
  BY <1>1, <1>2
<1>4. 1 \in 1..Len(q) /\ \A n \in 1..Len(r) : n + 1 \in 1..Len(q) /\ n + 1 # 1
  BY <1>1
<1>5. \A x : x \in Range(q) <=> \E n \in 1..Len(q) : q[n] = x
  BY Member
<1>6. \A x : x \in Range(r) <=> \E n \in 1..Len(r) : r[n] = x
  BY <1>1, Member
<1>7. Range(r) \cup {Head(q)} \subseteq Range(q)
  BY <1>2, <1>4, <1>5, <1>6
<1>8. Range(q) \subseteq Range(r) \cup {Head(q)}
  BY <1>2, <1>3, <1>5, <1>6
<1>9. ASSUME Distinct(q) PROVE Distinct(r) /\ Head(q) \notin Range(r)
  <2>1. Distinct(r)
    BY <1>1, <1>2, <1>4, <1>9 DEF Distinct
  <2>2. \A n \in 1..Len(r) : r[n] # q[1]
    BY <1>1, <1>2, <1>4, <1>9 DEF Distinct
  <2> QED BY <2>1, <2>2, <1>2, <1>6
<1> QED BY <1>1, <1>2, <1>7, <1>8, <1>9 DEF r

\* list_remove of an element.
LEMMA RemoveFacts ==
  ASSUME NEW S, NEW q \in Seq(S), Distinct(q), NEW e \in Range(q)
  PROVE  /\ list_remove(q, e) \in Seq(S)
         /\ Len(list_remove(q, e)) = Len(q) - 1
         /\ Range(list_remove(q, e)) = Range(q) \ {e}
         /\ Distinct(list_remove(q, e))
<1> DEFINE k == CHOOSE m \in DOMAIN q : q[m] = e
<1>0. k \in 1..Len(q) /\ q[k] = e
  BY RangeFacts
<1> HIDE DEF k
<1> DEFINE a == SubSeq(q, 1, k - 1)
           b == SubSeq(q, k + 1, Len(q))
           r == a \o b
<1>1. Len(q) \in Nat /\ k \in Nat /\ 1 <= k /\ k <= Len(q)
  BY <1>0
<1>2. /\ a \in Seq(S) /\ Len(a) = k - 1
      /\ \A n \in 1..(k - 1) : a[n] = q[n]
  BY <1>1
<1>3. /\ b \in Seq(S) /\ Len(b) = Len(q) - k
      /\ \A n \in 1..(Len(q) - k) : b[n] = q[k + n]
  BY <1>1
<1>4. list_remove(q, e) = r
  BY DEF list_remove, k
<1> HIDE DEF a, b
<1>5. r \in Seq(S) /\ Len(r) = Len(a) + Len(b)
  BY <1>2, <1>3
<1>6. \A n \in 1..(Len(a) + Len(b)) : r[n] = IF n <= Len(a) THEN a[n] ELSE b[n - Len(a)]
  <2>1. a \in Seq(S) /\ b \in Seq(S)
    BY <1>2, <1>3
  <2> QED BY <2>1
<1> HIDE DEF r
<1>7. Len(r) = Len(q) - 1
  BY <1>1, <1>2, <1>3, <1>5
<1>8. \A n \in 1..Len(r) : r[n] = IF n < k THEN q[n] ELSE q[n + 1]
  <2> SUFFICES ASSUME NEW n \in 1..Len(r)
               PROVE  r[n] = IF n < k THEN q[n] ELSE q[n + 1]
    OBVIOUS
  <2>1. n \in 1..(Len(a) + Len(b)) /\ n \in Nat /\ 1 <= n /\ n <= Len(q) - 1
    BY <1>1, <1>5, <1>7
  <2>2. CASE n < k
    BY <2>1, <2>2, <1>1, <1>2, <1>6
  <2>3. CASE ~(n < k)
    <3>1. r[n] = b[n - (k - 1)] /\ n - (k - 1) \in 1..(Len(q) - k)
      BY <2>1, <2>3, <1>1, <1>2, <1>6
    <3>2. k + (n - (k - 1)) = n + 1
      BY <2>1, <1>1
    <3> QED BY <3>1, <3>2, <2>3, <1>3
  <2> QED BY <2>2, <2>3
<1>9. \A n \in 1..Len(r) : /\ n < k => n \in 1..Len(q) /\ n # k /\ r[n] = q[n]
                           /\ ~(n < k) => n + 1 \in 1..Len(q) /\ n + 1 # k /\ r[n] = q[n + 1]
  BY <1>1, <1>7, <1>8
<1>10. \A n \in 1..Len(q) : /\ n < k => n \in 1..Len(r) /\ r[n] = q[n]
                            /\ n > k => n - 1 \in 1..Len(r) /\ r[n - 1] = q[n]
  BY <1>1, <1>7, <1>8
<1>11. \A x : x \in Range(q) <=> \E n \in 1..Len(q) : q[n] = x
  BY Member
<1>12. \A x : x \in Range(r) <=> \E n \in 1..Len(r) : r[n] = x
  BY <1>5, Member
<1>13. Distinct(r)
  <2> SUFFICES ASSUME NEW m \in 1..Len(r), NEW n \in 1..Len(r), m < n
               PROVE  r[m] # r[n]
    BY <1>7, <1>1 DEF Distinct
  <2> QED BY <1>1, <1>7, <1>9 DEF Distinct
<1>14. Range(r) \subseteq Range(q) \ {e}
  <2>1. \A n \in 1..Len(r) : r[n] \in Range(q) /\ r[n] # e
    BY <1>0, <1>9, <1>11 DEF Distinct
  <2> QED BY <2>1, <1>12
<1>15. Range(q) \ {e} \subseteq Range(r)
  <2>1. \A n \in 1..Len(q) : n # k => q[n] \in Range(r)
    BY <1>1, <1>10, <1>12
  <2> QED BY <2>1, <1>0, <1>11
<1> QED BY <1>4, <1>5, <1>7, <1>13, <1>14, <1>15
=============================================================================

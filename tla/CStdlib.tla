------------------------------- MODULE CStdlib -------------------------------
(***************************************************************************)
(* The computing functions of lib/: stdlib.c (atoi, heap sort, binary      *)
(* search), arithmetic.c (64-bit division from 32-bit division), random.c, *)
(* and the calibration loop of devices/timer.c.  Widths are constants: a   *)
(* half word of arithmetic.c has HalfBits bits, a power of 2, for 32, and  *)
(* the generator of random.c has RcSize cells for 256.                     *)
(***************************************************************************)
EXTENDS CString, FiniteSets

CONSTANTS HalfBits, RcSize

isdigit(c) == c \in 48..57

\* Decimal digits from position i on, read as the loops of stdlib.c and stdio.c do.
Digits(s, i) ==
  While(LAMBDA x : isdigit(at(s, x.i)),
        LAMBDA x : [i |-> x.i + 1, v |-> x.v * 10 + at(s, x.i) - 48], [i |-> i, v |-> 0], Len(s))

\* The value is accumulated as a negative number.
atoi(s) ==
  LET first == Scan(0, LAMBDA i : ~isspace(at(s, i)), Len(s))
      signed == at(s, first) \in {43, 45}
      value == -Digits(s, IF signed THEN first + 1 ELSE first).v
  IN  IF at(s, first) = 45 THEN value ELSE -value

-----------------------------------------------------------------------------
(* stdlib.c: arrays have indexes from 1, as heapify counts                 *)

do_swap(a, i, j) == [a EXCEPT ![i] = a[j], ![j] = a[i]]
do_compare(a, i, j) == a[i] - a[j]

heapify(array, i0, cnt) ==
  LET larger(a, i) ==
        LET left == 2 * i
            right == 2 * i + 1
            max == IF left <= cnt /\ do_compare(a, left, i) > 0 THEN left ELSE i
        IN  IF right <= cnt /\ do_compare(a, right, max) > 0 THEN right ELSE max
  IN  While(LAMBDA x : larger(x.a, x.i) # x.i,
            LAMBDA x : [a |-> do_swap(x.a, x.i, larger(x.a, x.i)), i |-> larger(x.a, x.i)],
            [a |-> array, i |-> i0], cnt).a

sort(array) ==
  LET cnt == Len(array)
      heap == While(LAMBDA x : x.i > 0,
                    LAMBDA x : [a |-> heapify(x.a, x.i, cnt), i |-> x.i - 1],
                    [a |-> array, i |-> cnt \div 2], cnt).a
  IN  While(LAMBDA x : x.i > 1,
            LAMBDA x : [a |-> heapify(do_swap(x.a, 1, x.i), 1, x.i - 1), i |-> x.i - 1],
            [a |-> heap, i |-> cnt], cnt).a

\* The index of a match, from 0, or NotFound.
binary_search(key, array) ==
  LET middle(x) == x.first + (x.last - x.first) \div 2
      probe(x) == key - at(array, middle(x))
      end == While(LAMBDA x : x.first < x.last /\ probe(x) # 0,
                   LAMBDA x : IF probe(x) < 0 THEN [x EXCEPT !.last = middle(x)]
                              ELSE [x EXCEPT !.first = middle(x) + 1],
                   [first |-> 0, last |-> Len(array)], Len(array))
  IN  IF end.first < end.last THEN middle(end) ELSE NotFound

-----------------------------------------------------------------------------
(* arithmetic.c                                                            *)

Half == 2 ^ HalfBits
Full == Half * Half
Trap == -1                            \* the divide error of DIVL

divl(n, d) == IF n \div d < Half THEN n \div d ELSE Trap

\* Halves the step from HalfBits / 2 down to 1.
nlz(x0) ==
  While(LAMBDA y : y.step > 0,
        LAMBDA y : LET small == y.x < 2 ^ (HalfBits - y.step)
                   IN  [n |-> IF small THEN y.n + y.step ELSE y.n,
                        x |-> IF small THEN y.x * 2 ^ y.step ELSE y.x,
                        step |-> y.step \div 2],
        [n |-> 0, x |-> x0, step |-> HalfBits \div 2], HalfBits).n

\* Mutant of udiv64: the estimate is not corrected.
udiv64_estimate(n, d) ==
  IF d < Half
  THEN LET low == divl(Half * ((n \div Half) % d) + (n % Half), d)
       IN  IF low = Trap THEN Trap ELSE low + Half * ((n \div Half) \div d)
  ELSE IF n < d THEN 0
  ELSE LET s == nlz(d \div Half)
           est == divl(n \div 2, ((d * 2 ^ s) % Full) \div Half)
       IN  IF est = Trap THEN Trap ELSE est \div 2 ^ (HalfBits - 1 - s)

udiv64(n, d) ==
  IF d < Half
  THEN LET low == divl(Half * ((n \div Half) % d) + (n % Half), d)
       IN  IF low = Trap THEN Trap ELSE low + Half * ((n \div Half) \div d)
  ELSE IF n < d THEN 0
  ELSE LET s == nlz(d \div Half)
           est == divl(n \div 2, ((d * 2 ^ s) % Full) \div Half)
           q == est \div 2 ^ (HalfBits - 1 - s)
       IN  IF est = Trap THEN Trap
           ELSE IF (n - (q - 1) * d) % Full < d THEN (q - 1) % Full ELSE q

\* The result type is the half width.
umod64(n, d) == (n - d * udiv64(n, d)) % Half

Signed(x, modulus) == LET y == x % modulus IN IF 2 * y >= modulus THEN y - modulus ELSE y
sdiv64(n, d) ==
  LET q == udiv64(IF n >= 0 THEN n ELSE -n, IF d >= 0 THEN d ELSE -d)
  IN  IF (n < 0) = (d < 0) THEN Signed(q, Full) ELSE Signed(-q, Full)
smod64(n, d) == Signed(n - d * sdiv64(n, d), Half)

-----------------------------------------------------------------------------
(* random.c                                                                *)

swap_byte(s, i, j) == [s EXCEPT ![i] = s[j], ![j] = s[i]]

random_init(seed) ==
  LET mixed == While(LAMBDA x : x.i < RcSize,
                     LAMBDA x : LET j == (x.j + x.s[x.i] + at(seed, x.i % Len(seed))) % RcSize
                                IN  [i |-> x.i + 1, j |-> j, s |-> swap_byte(x.s, x.i, j)],
                     [i |-> 0, j |-> 0, s |-> [k \in 0..RcSize - 1 |-> k]], RcSize)
  IN  [s |-> mixed.s, i |-> 0, j |-> 0]

random_bytes(state, size) ==
  While(LAMBDA x : Len(x.buf) < size,
        LAMBDA x : LET i == (x.i + 1) % RcSize
                       j == (x.j + x.s[i]) % RcSize
                       s == swap_byte(x.s, i, j)
                   IN  [s |-> s, i |-> i, j |-> j, buf |-> Append(x.buf, s[(s[i] + s[j]) % RcSize])],
        [s |-> state.s, i |-> state.i, j |-> state.j, buf |-> <<>>], size)

-----------------------------------------------------------------------------
(* devices/timer.c: loops is the number of iterations that fit in a tick   *)

too_many_loops(n, loops) == n > loops

timer_calibrate(loops) ==
  LET high == While(LAMBDA n : ~too_many_loops(n * 2, loops), LAMBDA n : n * 2, 2 ^ 10, 16)
  IN  While(LAMBDA x : x.bit # high \div 2 ^ 10,
            LAMBDA x : [bit |-> x.bit \div 2,
                        n |-> IF too_many_loops(x.n + x.bit, loops) THEN x.n ELSE x.n + x.bit],
            [bit |-> high \div 2, n |-> high], 16).n
=============================================================================

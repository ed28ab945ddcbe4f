------------------------------- MODULE Bitmap -------------------------------
(***************************************************************************)
(* The bitmap of lib/kernel/bitmap.c: an array of ELEM_BITS-bit elements.  *)
(* A bitmap is [bit_cnt, bits], bits the set of <<element, position>> pairs*)
(* that are 1; the last element may have positions beyond bit_cnt.         *)
(***************************************************************************)
EXTENDS Integers, FiniteSets, FiniteSetsExt, CLang

CONSTANT ELEM_BITS      \* bits in an elem_type

BITMAP_ERROR == -1      \* (size_t) -1

elem_idx(bit_idx) == bit_idx \div ELEM_BITS
bit_mask(bit_idx) == bit_idx % ELEM_BITS
BitAt(bit_idx) == <<elem_idx(bit_idx), bit_mask(bit_idx)>>
elems_for(bit_cnt) == DIV_ROUND_UP(bit_cnt, ELEM_BITS)
\* The positions of the last element that are in use.
last_mask(b) == IF b.bit_cnt % ELEM_BITS # 0 THEN 0..(b.bit_cnt % ELEM_BITS) - 1
                ELSE 0..ELEM_BITS - 1

bitmap_create(bit_cnt) == [bit_cnt |-> bit_cnt, bits |-> {}]

bitmap_mark(b, i) == [b EXCEPT !.bits = @ \cup {BitAt(i)}]
bitmap_reset(b, i) == [b EXCEPT !.bits = @ \ {BitAt(i)}]
bitmap_flip(b, i) == IF BitAt(i) \in b.bits THEN bitmap_reset(b, i) ELSE bitmap_mark(b, i)
bitmap_set(b, i, value) == IF value THEN bitmap_mark(b, i) ELSE bitmap_reset(b, i)
bitmap_test(b, i) == BitAt(i) \in b.bits

\* The loop that sets the bits one by one; i only ever names bits of b.
bitmap_set_multiple(b, start, cnt, value) ==
  LET range == {BitAt(i) : i \in start..start + cnt - 1}
  IN  [b EXCEPT !.bits = IF value THEN @ \cup range ELSE @ \ range]
bitmap_set_all(b, value) == bitmap_set_multiple(b, 0, b.bit_cnt, value)

bitmap_count(b, start, cnt, value) ==
  Cardinality({i \in start..start + cnt - 1 : bitmap_test(b, i) = value})
bitmap_contains(b, start, cnt, value) ==
  \E i \in start..start + cnt - 1 : bitmap_test(b, i) = value
bitmap_any(b, start, cnt) == bitmap_contains(b, start, cnt, TRUE)
bitmap_none(b, start, cnt) == ~bitmap_contains(b, start, cnt, TRUE)
bitmap_all(b, start, cnt) == ~bitmap_contains(b, start, cnt, FALSE)

bitmap_scan(b, start, cnt, value) ==
  LET found == {i \in start..b.bit_cnt - cnt : ~bitmap_contains(b, i, cnt, ~value)}
  IN  IF cnt <= b.bit_cnt /\ found # {} THEN Min(found) ELSE BITMAP_ERROR

\* The bitmap after bitmap_scan_and_flip; it returns what bitmap_scan returns.
bitmap_scan_and_flip(b, start, cnt, value) ==
  LET idx == bitmap_scan(b, start, cnt, value)
  IN  IF idx = BITMAP_ERROR THEN b ELSE bitmap_set_multiple(b, idx, cnt, ~value)

\* The elements as bitmap_write stores them, and the bitmap bitmap_read makes
\* of what a file holds: the unused positions of the last element are masked.
bitmap_write(b) == b.bits
bitmap_read(b, stored) ==
  [b EXCEPT !.bits = {x \in stored : x[1] = elems_for(b.bit_cnt) - 1 => x[2] \in last_mask(b)}]
=============================================================================

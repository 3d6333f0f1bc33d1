------------------------------- MODULE Bitmap -------------------------------
(***************************************************************************)
(* lib/kernel/bitmap.c: an array of bits kept in elements of ELEM_BITS     *)
(* bits.  A bitmap is [bit_cnt, bits]; an element is the set of its bits   *)
(* that are 1.                                                             *)
(***************************************************************************)
EXTENDS Naturals

CONSTANT
  ELEM_BITS  \* bits in an elem_type, 32 in the code

ASSUME BitmapAssumption == ELEM_BITS \in Nat \ {0}

elem_idx(i) == i \div ELEM_BITS

bit_mask(i) == {i % ELEM_BITS}

elem_cnt(n) == (n + ELEM_BITS - 1) \div ELEM_BITS

bitmap_mark(b, i) == [b EXCEPT !.bits[elem_idx(i)] = @ \cup bit_mask(i)]
bitmap_reset(b, i) == [b EXCEPT !.bits[elem_idx(i)] = @ \ bit_mask(i)]

bitmap_set(b, i, value) == IF value THEN bitmap_mark(b, i) ELSE bitmap_reset(b, i)

bitmap_test(b, i) == b.bits[elem_idx(i)] \cap bit_mask(i) # {}

bitmap_set_multiple(b, start, cnt, value) ==
  LET Set[k \in 0 .. cnt] == IF k = 0 THEN b ELSE bitmap_set(Set[k - 1], start + k - 1, value)
  IN  Set[cnt]

bitmap_create(n) ==
  [bit_cnt |-> n, bits |-> [k \in 0 .. elem_cnt(n) - 1 |-> {}]]

bitmap_contains(b, start, cnt, value) ==
  \E k \in start .. start + cnt - 1 : bitmap_test(b, k) = value

bitmap_all(b, start, cnt) == ~bitmap_contains(b, start, cnt, FALSE)

\* SIZE_MAX in the code: no index of a bitmap.
BITMAP_ERROR == 2147483647

\* The first group of cnt bits at or after start that are all value.
bitmap_scan(b, start, cnt, value) ==
  LET groups == IF cnt <= b.bit_cnt
                THEN {i \in start .. b.bit_cnt - cnt : ~bitmap_contains(b, i, cnt, ~value)}
                ELSE {}
  IN  IF groups = {} THEN BITMAP_ERROR ELSE CHOOSE i \in groups : \A j \in groups : i <= j

\* The bitmap that bitmap_scan_and_flip() leaves; it returns what bitmap_scan()
\* does.
bitmap_scan_and_flip(b, start, cnt, value) ==
  LET i == bitmap_scan(b, start, cnt, value)
  IN  IF i = BITMAP_ERROR THEN b ELSE bitmap_set_multiple(b, i, cnt, ~value)
=============================================================================

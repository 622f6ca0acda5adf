------------------------------- MODULE Memmem -------------------------------
(***************************************************************************)
(* memmem of musl (memmem.c).  Haystack h and needle n are sequences of    *)
(* bytes; a result is an offset into the haystack, or -1 for a null        *)
(* pointer.  Byte i of the code is element i + 1.  Needles of two to four  *)
(* bytes are compared as one word, longer ones by two-way search.          *)
(***************************************************************************)
EXTENDS Integers, Sequences, FiniteSets

at(s, i) == s[i + 1]
larger(a, b) == IF a > b THEN a ELSE b

\* memchr: the first place of byte b.
memchr(h, b) ==
  LET places == {i \in 0 .. Len(h) - 1 : at(h, i) = b}
  IN  IF places = {} THEN -1 ELSE CHOOSE i \in places : \A j \in places : i <= j

\* The word of l bytes of twobyte_memmem, threebyte_memmem or fourbyte_memmem is
\* the sequence of its bytes, the highest first; a word of three bytes is the upper
\* part of four.
shl8(w) == Append(Tail(w), 0)
or_byte(w, b) == [w EXCEPT ![Len(w)] = @ + b]  \* the lowest byte is 0
word(s, l) == IF l = 3 THEN Append(SubSeq(s, 1, l), 0) ELSE SubSeq(s, 1, l)
shifted_in(hw, l, b) == IF l = 3 THEN shl8(or_byte(hw, b)) ELSE or_byte(shl8(hw), b)

\* Their loop, once bytes o .. o + l - 1 of the haystack are in hw.
RECURSIVE word_memmem(_, _, _, _, _)
word_memmem(h, nw, l, hw, o) ==
  IF hw = nw THEN o
  ELSE IF o + l = Len(h) THEN -1
  ELSE word_memmem(h, nw, l, shifted_in(hw, l, at(h, o + l)), o + 1)

\* The maximal suffix of n by one order of the bytes, and its period:
\* x is [ip, jp, k, p].
RECURSIVE suffix_loop(_, _, _)
suffix_loop(n, opposite, x) ==
  LET a == at(n, x.ip + x.k)
      b == at(n, x.jp + x.k)
      greater == IF opposite THEN a < b ELSE a > b
  IN  IF x.jp + x.k >= Len(n) THEN x
      ELSE suffix_loop(n, opposite,
             CASE a = b /\ x.k = x.p -> [x EXCEPT !.jp = @ + x.p, !.k = 1]
               [] a = b /\ x.k # x.p -> [x EXCEPT !.k = @ + 1]
               [] a # b /\ greater   -> [x EXCEPT !.jp = @ + x.k, !.k = 1, !.p = x.jp + x.k - x.ip]
               [] OTHER              -> [ip |-> x.jp, jp |-> x.jp + 1, k |-> 1, p |-> 1])

max_suffix(n, opposite) ==
  suffix_loop(n, opposite, [ip |-> -1, jp |-> 0, k |-> 1, p |-> 1])

\* Where the needle is split, its period, and how much of a match is remembered.
critical(n) ==
  LET l == Len(n)
      x == max_suffix(n, FALSE)
      y == max_suffix(n, TRUE)
      ms == larger(x.ip, y.ip)
      p == IF y.ip > x.ip THEN y.p ELSE x.p
      periodic == SubSeq(n, 1, ms + 1) = SubSeq(n, p + 1, p + ms + 1)
  IN  [ms |-> ms, p |-> IF periodic THEN p ELSE larger(ms, l - ms - 1) + 1,
       mem0 |-> IF periodic THEN l - p ELSE 0]

\* shift[b]: one more than the last place of b in the needle, 0 if it is not there.
shift(n, b) ==
  LET places == {i \in 0 .. Len(n) - 1 : at(n, i) = b}
  IN  IF places = {} THEN 0 ELSE 1 + (CHOOSE i \in places : \A j \in places : j <= i)

\* The first place from k on, or the last before k, where needle and window differ.
RECURSIVE right_half(_, _, _, _)
right_half(h, n, o, k) ==
  IF k < Len(n) /\ at(n, k) = at(h, o + k) THEN right_half(h, n, o, k + 1) ELSE k

RECURSIVE left_half(_, _, _, _, _)
left_half(h, n, o, k, mem) ==
  IF k > mem /\ at(n, k - 1) = at(h, o + k - 1) THEN left_half(h, n, o, k - 1, mem) ELSE k

\* Mutant: what was remembered of the last window is not given up after a shift.
mem_after_shift_kept(mem) == mem
mem_after_shift(mem) == 0

RECURSIVE twoway_search(_, _, _, _, _)
twoway_search(h, n, c, o, mem) ==
  LET l == Len(n)
      k == l - shift(n, at(h, o + l - 1))
      r == right_half(h, n, o, larger(c.ms + 1, mem))
  IN  IF Len(h) - o < l THEN -1
      ELSE IF k > 0
      THEN twoway_search(h, n, c, o + (IF k < l THEN larger(k, mem) ELSE l), mem_after_shift(mem))
      ELSE IF r < l THEN twoway_search(h, n, c, o + r - c.ms, 0)
      ELSE IF left_half(h, n, o, c.ms + 1, mem) <= mem THEN o
      ELSE twoway_search(h, n, c, o + c.p, c.mem0)

memmem(h, n) ==
  LET i == memchr(h, at(n, 0))
      rest == SubSeq(h, i + 1, Len(h))
      l == Len(n)
      found == IF l <= 4 THEN word_memmem(rest, word(n, l), l, word(rest, l), 0)
               ELSE twoway_search(rest, n, critical(n), 0, 0)
  IN  IF n = << >> THEN 0
      ELSE IF Len(h) < l THEN -1
      ELSE IF i = -1 \/ l = 1 THEN i
      ELSE IF Len(rest) < l THEN -1
      ELSE IF found = -1 THEN -1 ELSE i + found
-----------------------------------------------------------------------------
\* The first place where n occurs in h.
first_occurrence(h, n) ==
  LET places == {o \in 0 .. Len(h) - Len(n) : SubSeq(h, o + 1, o + Len(n)) = n}
  IN  IF places = {} THEN -1 ELSE CHOOSE o \in places : \A q \in places : o <= q
=============================================================================

----------------------------- MODULE Smoothsort -----------------------------
(***************************************************************************)
(* qsort of musl (qsort.c): smoothsort.  An array is a function on         *)
(* 0 .. n - 1 and an element is one unit wide.  p, the orders of the heaps, *)
(* is two words, the low one first; its size_t is scaled down.             *)
(***************************************************************************)
EXTENDS Integers, Sequences, FiniteSets

CONSTANT WORD_BITS  \* bits of a size_t, 64 in the code

WORD_MOD == 2 ^ WORD_BITS

\* The Leonardo numbers computed before sorting: up to the first not below the size.
RECURSIVE leonardo(_, _)
leonardo(lp, size) ==
  LET i == Cardinality(DOMAIN lp)
      x == lp[i - 2] + lp[i - 1] + 1
      l == [j \in 0 .. i |-> IF j = i THEN x ELSE lp[j]]
  IN  IF x < size THEN leonardo(l, size) ELSE l

\* a_ctz_64, to which no bit set is all bits clear.
RECURSIVE ntz(_)
ntz(x) == IF x = 0 THEN WORD_BITS ELSE IF x % 2 = 1 THEN 0 ELSE 1 + ntz(x \div 2)

pntz(p) ==
  LET low == ntz((p[1] - 1) % WORD_MOD)
      high == WORD_BITS + ntz(p[2])
  IN  IF low # 0 THEN low ELSE IF high # WORD_BITS THEN high ELSE 0

shl(p, n) ==
  IF n >= WORD_BITS THEN <<0, (p[1] * 2 ^ (n - WORD_BITS)) % WORD_MOD>>
  ELSE <<(p[1] * 2 ^ n) % WORD_MOD,
         ((p[2] * 2 ^ n) % WORD_MOD) + (p[1] \div 2 ^ (WORD_BITS - n))>>

shr(p, n) ==
  IF n >= WORD_BITS THEN <<p[2] \div 2 ^ (n - WORD_BITS), 0>>
  ELSE <<(p[1] \div 2 ^ n) + ((p[2] * 2 ^ (WORD_BITS - n)) % WORD_MOD), p[2] \div 2 ^ n>>

\* The elements at the places ar move up by one place, the first to the last.
cycle(s, ar) ==
  [j \in DOMAIN s |->
     IF \E i \in DOMAIN ar : ar[i] = j
     THEN LET i == CHOOSE i \in DOMAIN ar : ar[i] = j
          IN  s[ar[IF i = Len(ar) THEN 1 ELSE i + 1]]
     ELSE s[j]]

\* Mutant: the right child is preferred whatever it holds.
prefers_left_never(s, lf, rt) == FALSE
prefers_left(s, lf, rt) == s[lf] >= s[rt]

\* The places below head through which its element x sinks.
RECURSIVE sift_path(_, _, _, _, _)
sift_path(s, lp, x, head, pshift) ==
  LET rt == head - 1
      lf == head - 1 - lp[pshift - 2]
  IN  IF pshift <= 1 THEN << >>
      ELSE IF x >= s[lf] /\ x >= s[rt] THEN << >>
      ELSE IF prefers_left(s, lf, rt)
      THEN <<lf>> \o sift_path(s, lp, x, lf, pshift - 1)
      ELSE <<rt>> \o sift_path(s, lp, x, rt, pshift - 2)

sift(s, lp, head, pshift) == cycle(s, <<head>> \o sift_path(s, lp, s[head], head, pshift))

\* The loop of trinkle over the roots to the left: w is [ar, head, p, pshift, trusty].
RECURSIVE trinkle_walk(_, _, _)
trinkle_walk(s, lp, w) ==
  LET stepson == w.head - lp[w.pshift]
      rt == w.head - 1
      lf == w.head - 1 - lp[w.pshift - 2]
      trail == pntz(w.p)
  IN  IF w.p = <<1, 0>> THEN w
      ELSE IF s[stepson] <= s[w.ar[1]] THEN w
      ELSE IF ~w.trusty /\ w.pshift > 1 /\ (s[rt] >= s[stepson] \/ s[lf] >= s[stepson]) THEN w
      ELSE trinkle_walk(s, lp, [ar |-> Append(w.ar, stepson), head |-> stepson,
                                p |-> shr(w.p, trail), pshift |-> w.pshift + trail,
                                trusty |-> FALSE])

trinkle(s, lp, head, p, pshift, trusty) ==
  LET w == trinkle_walk(s, lp, [ar |-> <<head>>, head |-> head, p |-> p, pshift |-> pshift,
                                trusty |-> trusty])
  IN  IF w.trusty THEN s ELSE sift(cycle(s, w.ar), lp, w.head, w.pshift)

orlow(p) == IF p[1] % 2 = 1 THEN p ELSE <<p[1] + 1, p[2]>>
xor7(p) == <<p[1] - (p[1] % 8) + (7 - (p[1] % 8)), p[2]>>

\* The first loop of qsort: q is [s, head, p, pshift].
RECURSIVE build(_, _, _)
build(lp, high, q) ==
  IF q.head >= high THEN q
  ELSE LET joins == q.p[1] % 4 = 3
           s == IF ~joins /\ lp[q.pshift - 1] >= high - q.head
                THEN trinkle(q.s, lp, q.head, q.p, q.pshift, FALSE)
                ELSE sift(q.s, lp, q.head, q.pshift)
           p == CASE joins -> shr(q.p, 2)
                  [] q.pshift = 1 -> shl(q.p, 1)
                  [] OTHER -> shl(q.p, q.pshift - 1)
           pshift == IF joins THEN q.pshift + 2 ELSE IF q.pshift = 1 THEN 0 ELSE 1
       IN  build(lp, high, [s |-> s, head |-> q.head + 1, p |-> orlow(p), pshift |-> pshift])

\* The second loop, which takes the heaps apart from the right.
RECURSIVE drain(_, _)
drain(lp, q) ==
  IF q.pshift = 1 /\ q.p = <<1, 0>> THEN q.s
  ELSE IF q.pshift <= 1
  THEN drain(lp, [q EXCEPT !.p = shr(@, pntz(@)), !.pshift = @ + pntz(q.p), !.head = @ - 1])
  ELSE LET ps == q.pshift - 2
           p1 == shr(xor7(shl(q.p, 2)), 1)
           s1 == trinkle(q.s, lp, q.head - lp[ps] - 1, p1, ps + 1, TRUE)
           p2 == orlow(shl(p1, 1))
           s2 == trinkle(s1, lp, q.head - 1, p2, ps, TRUE)
       IN  drain(lp, [s |-> s2, head |-> q.head - 1, p |-> p2, pshift |-> ps])

qsort(s) ==
  LET size == Cardinality(DOMAIN s)
      lp == leonardo([j \in 0 .. 1 |-> 1], size)
      q == build(lp, size - 1, [s |-> s, head |-> 0, p |-> <<1, 0>>, pshift |-> 1])
  IN  IF size = 0 THEN s
      ELSE drain(lp, [q EXCEPT !.s = trinkle(@, lp, q.head, q.p, q.pshift, FALSE)])
-----------------------------------------------------------------------------
occurrences(s, x) == Cardinality({j \in DOMAIN s : s[j] = x})

sorted(s, r) ==
  /\ DOMAIN r = DOMAIN s
  /\ \A i, j \in DOMAIN r : i < j => r[i] <= r[j]
  /\ \A i \in DOMAIN s : occurrences(r, s[i]) = occurrences(s, s[i])
=============================================================================

------------------------------ MODULE GranInfo ------------------------------
(***************************************************************************)
(* mm_graninfo.c: gran_dump walks the granule allocation table and reports *)
(* the number of free granules and the longest free run, reading runs out  *)
(* of 32-bit words by table lookup on nibbles and by combining halves.     *)
(* A word is the set of its one bits.                                      *)
(***************************************************************************)
EXTENDS Integers, Sequences, FiniteSets, FiniteSetsExt

\* struct valinfo_s: free bits, free bits at the low end, at the high end when
\* the value is not all free, and the longest run that touches neither end.
valinfo(nfree, nlsfree, nmsfree, mxfree) ==
  [nfree |-> nfree, nlsfree |-> nlsfree, nmsfree |-> nmsfree, mxfree |-> mxfree]

g_1bit_info == <<<<1, 1, 0, 0>>, <<0, 0, 0, 0>>>>

g_2bit_info == <<<<2, 2, 0, 0>>, <<1, 0, 1, 0>>, <<1, 1, 0, 0>>, <<0, 0, 0, 0>>>>

g_3bit_info ==
  <<<<3, 3, 0, 0>>, <<2, 0, 2, 0>>, <<2, 1, 1, 0>>, <<1, 0, 1, 0>>,
    <<2, 2, 0, 0>>, <<1, 0, 0, 1>>, <<1, 1, 0, 0>>, <<0, 0, 0, 0>>>>

g_4bit_info ==
  <<<<4, 4, 0, 0>>, <<3, 0, 3, 0>>, <<3, 1, 2, 0>>, <<2, 0, 2, 0>>,
    <<3, 2, 1, 0>>, <<2, 0, 1, 1>>, <<2, 1, 1, 0>>, <<1, 0, 1, 0>>,
    <<3, 3, 0, 0>>, <<2, 0, 0, 2>>, <<2, 1, 0, 1>>, <<1, 0, 0, 1>>,
    <<2, 2, 0, 0>>, <<1, 0, 0, 1>>, <<1, 1, 0, 0>>, <<0, 0, 0, 0>>>>

g_info_table == <<g_1bit_info, g_2bit_info, g_3bit_info, g_4bit_info>>

low(value, n) == value \cap (0 .. n - 1)
high(value, n) == {b - n : b \in {c \in value : c >= n}}

\* The number whose one bits are the members of value.
number(value) == SumSet({2 ^ b : b \in value})

gran_nibble_info(value, nbits) ==
  LET e == g_info_table[nbits][number(low(value, nbits)) + 1]
  IN  valinfo(e[1], e[2], e[3], e[4])

\* Mutant: the run across the two pieces is left out.
gran_info_combine_short(msinfo, msbits, lsinfo, lsbits) ==
  [lsinfo EXCEPT
     !.nfree   = @ + msinfo.nfree,
     !.nmsfree = IF msinfo.nlsfree = msbits THEN @ + msbits ELSE msinfo.nmsfree,
     !.mxfree  = Max({@, msinfo.mxfree})]

gran_info_combine(msinfo, msbits, lsinfo, lsbits) ==
  LET msfree  == msinfo.nlsfree = msbits
      lsfree  == lsinfo.nlsfree = lsbits
      midfree == IF ~ lsfree /\ ~ msfree THEN lsinfo.nmsfree + msinfo.nlsfree ELSE 0
  IN  valinfo(lsinfo.nfree + msinfo.nfree,
              lsinfo.nlsfree + (IF lsfree THEN msinfo.nlsfree ELSE 0),
              CASE msfree /\ lsfree   -> 0
                [] msfree /\ ~ lsfree -> lsinfo.nmsfree + msbits
                [] OTHER              -> msinfo.nmsfree,
              Max({lsinfo.mxfree, midfree, msinfo.mxfree}))

\* "Some allocated": the low half, then the high half if nbits reaches it.
halves(value, nbits, half, Info(_, _)) ==
  IF nbits <= half
  THEN Info(low(value, half), nbits)
  ELSE gran_info_combine(Info(high(value, half), nbits - half), nbits - half,
                         Info(low(value, half), half), half)

\* The common shape of gran_byte_info and gran_hword_info.
piece_info(value, nbits, half, Info(_, _)) ==
  LET v == low(value, nbits)
  IN  CASE v = {}             -> valinfo(nbits, nbits, 0, 0)
        [] v = 0 .. nbits - 1 -> valinfo(0, 0, 0, 0)
        [] OTHER              -> halves(v, nbits, half, Info)

gran_byte_info(value, nbits) == piece_info(value, nbits, 4, gran_nibble_info)
gran_hword_info(value, nbits) == piece_info(value, nbits, 8, gran_byte_info)
word_info(value, nbits) == halves(value, nbits, 16, gran_hword_info)

\* The loop over the entries of gat: info has the totals, mxfree is the free run
\* that reaches granidx.  In a mixed word nlsfree < nbits.
RECURSIVE gran_dump_from(_, _, _, _, _)
gran_dump_from(gat, ngranules, granidx, info, mxfree) ==
  LET nbits == IF granidx + 32 > ngranules THEN ngranules - granidx ELSE 32
      value == low(gat[granidx \div 32 + 1], nbits)
      hwinfo == word_info(value, nbits)
      rest(i, m) == gran_dump_from(gat, ngranules, granidx + 32, i, m)
  IN  CASE granidx >= ngranules  -> [info EXCEPT !.mxfree = Max({@, mxfree})]
        [] granidx < ngranules /\ value = 0 .. nbits - 1 ->
             rest([info EXCEPT !.mxfree = Max({@, mxfree})], 0)
        [] granidx < ngranules /\ value = {} ->
             rest([info EXCEPT !.nfree = @ + nbits], mxfree + nbits)
        [] OTHER ->
             rest([nfree  |-> info.nfree + hwinfo.nfree,
                   mxfree |-> Max({info.mxfree, mxfree + hwinfo.nlsfree, hwinfo.mxfree})],
                  hwinfo.nmsfree)

gran_dump(gat, ngranules) ==
  gran_dump_from(gat, ngranules, 0, [nfree |-> 0, mxfree |-> 0], 0)
-----------------------------------------------------------------------------
free_granules(gat, ngranules) == {g \in 0 .. ngranules - 1 : (g % 32) \notin gat[g \div 32 + 1]}

\* Length of the longest interval of integers inside s.
longest_run(s) ==
  LET first == {g \in s : g - 1 \notin s}
      after(g) == Min({h \in g + 1 .. 64 : h \notin s})
  IN  Max({0} \cup {after(g) - g : g \in first})
=============================================================================

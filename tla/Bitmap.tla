------------------------------- MODULE Bitmap -------------------------------
(***************************************************************************)
(* libutils: the loops of bitmap_set, bitmap_clear, _find_next_bit and     *)
(* find_first_bit, word by word.  A word is the set of its one bits, a map *)
(* a function from 0 .. n - 1 to words.                                    *)
(***************************************************************************)
EXTENDS Integers, FiniteSetsExt

CONSTANT BITS_PER_LONG

ASSUME BitmapAssumption == BITS_PER_LONG \in Nat \ {0}

Word == 0 .. BITS_PER_LONG - 1

BIT_WORD(b) == b \div BITS_PER_LONG

\* Mutant: off by one.
BITMAP_FIRST_WORD_MASK_after(start) == {b \in Word : b > start % BITS_PER_LONG}
BITMAP_FIRST_WORD_MASK(start) == {b \in Word : b >= start % BITS_PER_LONG}
BITMAP_LAST_WORD_MASK(nbits) ==
  IF nbits % BITS_PER_LONG = 0 THEN Word
  ELSE {b \in Word : b < nbits % BITS_PER_LONG}

change(set, w, m) == IF set THEN w \cup m ELSE w \ m

\* The loop of bitmap_set and bitmap_clear: len bits are left, todo of them, those
\* of mask, in word p; the range ends at size.
RECURSIVE modify_words(_, _, _, _, _, _, _)
modify_words(set, map, p, len, todo, mask, size) ==
  IF len - todo >= 0
  THEN modify_words(set, [map EXCEPT ![p] = change(set, @, mask)], p + 1, len - todo,
                    BITS_PER_LONG, Word, size)
  ELSE IF len = 0 THEN map
  ELSE [map EXCEPT ![p] = change(set, @, mask \cap BITMAP_LAST_WORD_MASK(size))]

modify(set, map, start, len) ==
  modify_words(set, map, BIT_WORD(start), len, BITS_PER_LONG - (start % BITS_PER_LONG),
               BITMAP_FIRST_WORD_MASK(start), start + len)

bitmap_set(map, start, len) == modify(TRUE, map, start, len)
bitmap_clear(map, start, len) == modify(FALSE, map, start, len)

\* min(start + __ffs(tmp), nbits), where start is the first bit of word i.
ffs(i, tmp, nbits) == Min({i * BITS_PER_LONG + Min(tmp), nbits})

\* The loop of the searches over the words: tmp is what is left of word i.
RECURSIVE search_words(_, _, _, _)
search_words(words, i, tmp, nbits) ==
  IF tmp # {} THEN ffs(i, tmp, nbits)
  ELSE IF (i + 1) * BITS_PER_LONG >= nbits THEN nbits
  ELSE search_words(words, i + 1, words[i + 1], nbits)

inverted(map) == [i \in DOMAIN map |-> Word \ map[i]]
both(map, other) == [i \in DOMAIN map |-> map[i] \cap other[i]]

_find_next_bit(words, nbits, start) ==
  IF start >= nbits THEN nbits
  ELSE search_words(words, BIT_WORD(start),
                    words[BIT_WORD(start)] \cap BITMAP_FIRST_WORD_MASK(start), nbits)

find_next_bit(map, nbits, start) == _find_next_bit(map, nbits, start)
find_next_zero_bit(map, nbits, start) == _find_next_bit(inverted(map), nbits, start)
find_next_and_bit(map, other, nbits, start) == _find_next_bit(both(map, other), nbits, start)

find_first(words, nbits) == IF nbits = 0 THEN nbits ELSE search_words(words, 0, words[0], nbits)
find_first_bit(map, nbits) == find_first(map, nbits)
find_first_zero_bit(map, nbits) == find_first(inverted(map), nbits)
-----------------------------------------------------------------------------
ones(m) == UNION {{i * BITS_PER_LONG + b : b \in m[i]} : i \in DOMAIN m}

\* The first of some bits from start on and below nbits, or nbits.
first_of(bits, nbits, start) ==
  Min({nbits} \union {b \in bits : start <= b /\ b < nbits})
=============================================================================

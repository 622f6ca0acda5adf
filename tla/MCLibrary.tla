----------------------------- MODULE MCLibrary -----------------------------
(* A clock of 4 ticks and 8 "nanoseconds" per second and a counter of 32   *)
(* values; maps of three words of three bits; heaps that end inside the    *)
(* first word, at its end and inside the second.                           *)
EXTENDS Library

MCSleepCalls ==
  [fn : {"sleep"}, start : 0 .. 31, req : [tv_sec : 0 .. 2, tv_nsec : 0 .. 7], elapsed : 0 .. 15]

MCMaps == {m \in [0 .. 2 -> SUBSET (0 .. 2)] : m[1] \in {{}, {1}, 0 .. 2}}

NoMap == [i \in 0 .. 2 |-> {}]

MCBitmapCalls ==
  {c \in [fn : {"bitmap_set", "bitmap_clear"}, map : MCMaps, other : {NoMap},
          nbits : 0 .. 9, start : 0 .. 8] : c.start + c.nbits <= 9}
  \cup [fn : {"find_next_bit", "find_next_zero_bit"}, map : MCMaps, other : {NoMap},
        nbits : 0 .. 9, start : 0 .. 9]
  \cup [fn : {"find_next_and_bit"}, map : MCMaps,
        other : {[i \in 0 .. 2 |-> {0, 2}], [i \in 0 .. 2 |-> {i}]},
        nbits : {4, 7, 9}, start : 0 .. 9]
  \cup [fn : {"find_first_bit", "find_first_zero_bit"}, map : MCMaps, other : {NoMap},
        nbits : 0 .. 9, start : {0}]

\* Words of at most two runs of ones, with ends at and next to the boundaries.
MCEnds == {0, 1, 3, 4, 7, 8, 15, 16, 23, 24, 31}

MCWords ==
  {a .. b : a \in MCEnds, b \in MCEnds}
    \cup {0 .. a \cup b .. 31 : a \in MCEnds, b \in MCEnds}
    \cup {{b \in 0 .. 31 : b % 3 = 0}, {b \in 0 .. 31 : b % 5 < 2}}

MCSeconds == {{}, 0 .. 31, {0}, {31}, 3 .. 20, {b \in 0 .. 31 : b % 2 = 0}}

MCDumpCalls ==
  [fn : {"gran_dump"}, gat : MCWords \X MCSeconds, ngranules : {3, 8, 13, 30, 32, 33, 50, 64}]

\* Arrays with heaps of one to fifteen elements.
MCArrays ==
  UNION ({[0 .. n - 1 -> 0 .. 2] : n \in 0 .. 7} \cup {[0 .. n - 1 -> 0 .. 1] : n \in {9, 11}})
    \cup {[i \in 0 .. n - 1 |-> (i * a + b) % n] : n \in {16, 19}, a \in 1 .. 15, b \in 0 .. 9}

MCSortCalls == [fn : {"qsort"}, base : MCArrays]

Bytes(n) == [1 .. n -> 0 .. 1]

MCSearchCalls ==
  [fn : {"memmem"}, h : UNION {Bytes(n) : n \in {0, 3, 6}}, n : UNION {Bytes(n) : n \in 0 .. 4}]
    \cup [fn : {"memmem"}, h : Bytes(11), n : Bytes(5)]
    \cup [fn : {"memmem"}, h : Bytes(10), n : Bytes(6)]
=============================================================================

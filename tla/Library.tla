------------------------------ MODULE Library ------------------------------
(***************************************************************************)
(* The algorithms of the kernel's libraries and of musl, one call at a     *)
(* time, against what they are meant to compute.  A call is [fn, ...] with *)
(* its arguments; result is Nil until it returns.  A search tree is the    *)
(* result of all the tsearch and tdelete calls made on it.                 *)
(***************************************************************************)
EXTENDS Ticks, Bitmap, GranInfo, Smoothsort, Memmem, Tsearch

CONSTANTS
  SleepCalls,   \* of [fn, start, req, elapsed]: a sleeper looked at after a time
  BitmapCalls,  \* of [fn, map, other, nbits, start]
  DumpCalls,    \* of [fn, gat, ngranules]
  SortCalls,    \* of [fn, base]
  SearchCalls,  \* of [fn, h, n]
  Keys          \* of the search tree

ASSUME LibraryAssumption ==
  \A c \in SleepCalls : sleep_ticks(c.req) < TICKS_MOD \div 2 /\ c.elapsed < TICKS_MOD \div 2

VARIABLES call, result

vars == <<call, result>>

TreeCall == [fn |-> "tree"]

Init ==
  /\ \/ call \in SleepCalls \/ call \in BitmapCalls \/ call \in DumpCalls
     \/ call \in SortCalls \/ call \in SearchCalls \/ call = TreeCall
  /\ result = Nil

returns(fn, value) == call.fn = fn /\ result = Nil /\ result' = value /\ UNCHANGED call

\* sched_pending_check on a sleeper.
sleep_check ==
  returns("sleep", is_due(nanosleep_readytime(call.start, call.req),
                          (call.start + call.elapsed) % TICKS_MOD))

bitmap_call ==
  \/ returns("bitmap_set", bitmap_set(call.map, call.start, call.nbits))
  \/ returns("bitmap_clear", bitmap_clear(call.map, call.start, call.nbits))
  \/ returns("find_next_bit", find_next_bit(call.map, call.nbits, call.start))
  \/ returns("find_next_zero_bit", find_next_zero_bit(call.map, call.nbits, call.start))
  \/ returns("find_next_and_bit", find_next_and_bit(call.map, call.other, call.nbits, call.start))
  \/ returns("find_first_bit", find_first_bit(call.map, call.nbits))
  \/ returns("find_first_zero_bit", find_first_zero_bit(call.map, call.nbits))

dump_call == returns("gran_dump", gran_dump(call.gat, call.ngranules))
sort_call == returns("qsort", qsort(call.base))
search_call == returns("memmem", memmem(call.h, call.n))

tree_call ==
  /\ call.fn = "tree"
  /\ \E k \in Keys : result' \in {tsearch(result, k), tdelete(result, k)}
  /\ UNCHANGED call

Next == sleep_check \/ bitmap_call \/ dump_call \/ sort_call \/ search_call \/ tree_call

Spec == Init /\ [][Next]_vars
-----------------------------------------------------------------------------
returned(fns) == call.fn \in fns /\ result # Nil

\* Wherever the counter stands at the call of sys_nanosleep, and across its wrap, the
\* signed difference in sched_pending_check makes the task due exactly when more than
\* the computed number of ticks has passed.
DueIsElapsed == returned({"sleep"}) => (result <=> call.elapsed > sleep_ticks(call.req))

NS_PER_S == KILO * KILO * KILO

\* k_time.h: the timespec represents seconds and nanoseconds, so a sleeper sleeps at
\* least that long.  Compared in ticks times nanoseconds.
RequestIsCovered ==
  returned({"sleep"}) /\ result =>
    call.elapsed * NS_PER_S >= (call.req.tv_sec * NS_PER_S + call.req.tv_nsec) * TIMER_CLOCK_HZ

\* bitmap_set and bitmap_clear change exactly the bits from start on, and the searches
\* return the first bit of their kind from start on and below nbits, or nbits, whether
\* or not these lie on word boundaries and whatever the last word holds beyond nbits.
BitmapCallsExact ==
  LET old == ones(call.map)
      all == 0 .. Cardinality(DOMAIN call.map) * BITS_PER_LONG - 1
      range == call.start .. call.start + call.nbits - 1
  IN  /\ returned({"bitmap_set"}) => ones(result) = old \cup range
      /\ returned({"bitmap_clear"}) => ones(result) = old \ range
      /\ returned({"find_next_bit", "find_first_bit"}) =>
           result = first_of(old, call.nbits, call.start)
      /\ returned({"find_next_zero_bit", "find_first_zero_bit"}) =>
           result = first_of(all \ old, call.nbits, call.start)
      /\ returned({"find_next_and_bit"}) =>
           result = first_of(old \cap ones(call.other), call.nbits, call.start)

\* gran_dump reports the number of free granules and the longest run of them, although
\* it puts runs together from pieces of four, eight, sixteen and 32 bits.
DumpReportsHeap ==
  returned({"gran_dump"}) =>
    LET free == free_granules(call.gat, call.ngranules)
    IN  result = [nfree |-> Cardinality(free), mxfree |-> longest_run(free)]

\* qsort returns the elements of its array in order, through every order of heaps it
\* builds and takes apart.
SortsArray == returned({"qsort"}) => sorted(call.base, result)

\* memmem finds the first occurrence of the needle, also where the two-way search skips
\* over part of the haystack or over what it remembers of it.
FindsNeedle == returned({"memmem"}) => result = first_occurrence(call.h, call.n)

\* Every tsearch and tdelete leaves a tree that is ordered and balanced and whose nodes
\* have their heights, although balancing stops at the first ancestor whose height is
\* unchanged; and it adds or removes one key at most.
TreeStaysBalanced ==
  [][call.fn = "tree" =>
       /\ is_avl(result')
       /\ \E k \in Keys : keys(result') \in {keys(result) \union {k}, keys(result) \ {k}}]_vars
=============================================================================

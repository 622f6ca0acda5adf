------------------------------ MODULE GranAlloc ------------------------------
(***************************************************************************)
(* mm_gran.c: the granule allocation table (one bit per granule, in words  *)
(* of W bits) and the search of gran_alloc through it, one action per      *)
(* iteration of its two loops.  A word is the set of its one bits.  The    *)
(* kernel runs with interrupts masked, so nothing interleaves with the     *)
(* search; the steps are there because the search is what can go wrong.    *)
(*                                                                         *)
(* Two reads of memory the code never wrote are choices here: the table    *)
(* itself (gran_initialize does not clear it) and the word after the       *)
(* table's last entry, which the search shifts in.                         *)
(***************************************************************************)
EXTENDS Integers, FiniteSetsExt

CONSTANTS
  W,          \* bits in a table entry (32)
  Shifts,     \* strides the search tries before 1 (16, 8, 4, 2)
  NGRANULES,  \* gran->ngranules
  Sizes,      \* request sizes, in granules
  Tables,     \* contents the table's memory may have at boot
  JunkWords   \* contents the word after the table may have

Bits == 0 .. W - 1
Granules == 0 .. NGRANULES - 1

\* SIZEOF_GAT
NENTRIES == (NGRANULES + W - 1) \div W
Entries == 0 .. NENTRIES - 1

ASSUME GranAssumption ==
  /\ W \in Nat \ {0}
  /\ Shifts \subseteq 1 .. W - 1
  /\ NGRANULES \in Nat \ {0}
  /\ Sizes \subseteq Nat
  /\ Tables \subseteq [Entries -> SUBSET Bits]
  /\ JunkWords \subseteq SUBSET Bits
  /\ JunkWords # {}

NULL == -1

VARIABLES
  gat,      \* gran->gat
  lost,     \* history: granules marked in gat at boot
  blocks,   \* <<first granule, length>> of the allocations callers hold
  call,     \* ngranules of the call in progress, 0 if none
  pc,       \* "idle", "entry" (outer loop head), "bit" (inner loop head)
  granidx, bitidx, curr, next,  \* locals of gran_alloc
  alloc,    \* local: candidate address, as a granule number
  ret,      \* result of the last call
  halted    \* an assertion failed: halt()

search == <<granidx, bitidx, curr, next, alloc>>
vars == <<gat, lost, blocks, call, pc, search, ret, halted>>

marked == {g \in Granules : (g % W) \in gat[g \div W]}

run(g, n) == g .. g + n - 1
-----------------------------------------------------------------------------
\* Mutant: a block that crosses into the next entry is marked in the first only.
gatmask_one_entry(granno, n, i) ==
  IF i = granno \div W THEN {b \in Bits : b >= granno % W /\ b < (granno % W) + n} ELSE {}

\* The bits gran_mark_allocated and gran_free touch in entry i: up to the end
\* of the first entry, and the rest in the second.
gatmask(granno, n, i) ==
  LET gatidx == granno \div W
      gatbit == granno % W
      avail  == W - gatbit
  IN  CASE n > avail /\ i = gatidx      -> gatbit .. W - 1
        [] n > avail /\ i = gatidx + 1  -> 0 .. n - avail - 1
        [] n <= avail /\ i = gatidx     -> gatbit .. gatbit + n - 1
        [] OTHER                        -> {}

\* Mutant: asserts that the whole first entry is clear.
gran_mark_allocated_whole(granno, n) ==
  /\ halted' = (gat[granno \div W] # {})
  /\ gat' = [i \in Entries |-> gat[i] \cup gatmask(granno, n, i)]

gran_mark_allocated(granno, n) ==
  /\ halted' = \E i \in Entries : gat[i] \cap gatmask(granno, n, i) # {}
  /\ gat' = [i \in Entries |-> gat[i] \cup gatmask(granno, n, i)]

shift_right(word, s) == {b - s : b \in {c \in word : c >= s}}

\* curr = (curr >> shift) | (next << (32 - shift))
shift_in(word, above, s) ==
  shift_right(word, s) \cup {b + (W - s) : b \in {c \in above : c < s}}

\* Mutant: tests one bit of each stride instead of all of them.
stride_skipping(word) ==
  LET full == {s \in Shifts : s - 1 \in word}
  IN  IF full = {} THEN 1 ELSE Max(full)

\* The cascade of tests on the low half, quarter, ... of curr.
stride(word) ==
  LET full == {s \in Shifts : 0 .. s - 1 \subseteq word}
  IN  IF full = {} THEN 1 ELSE Max(full)
-----------------------------------------------------------------------------
\* gran_initialize: the table is whatever the memory held.
Init ==
  /\ gat \in Tables
  /\ lost = marked
  /\ blocks = {}
  /\ call = 0
  /\ pc = "idle"
  /\ granidx = 0 /\ bitidx = 0 /\ curr = {} /\ next = {} /\ alloc = 0
  /\ ret = NULL
  /\ halted = FALSE

\* gran_alloc up to its loops.
Call(n) ==
  /\ pc = "idle"
  /\ ~ halted
  /\ halted' = (n > W)
  /\ call' = IF n > W THEN 0 ELSE n
  /\ pc' = IF n > W \/ n = 0 THEN "idle" ELSE "entry"
  /\ ret' = NULL
  /\ UNCHANGED <<gat, lost, blocks, search>>

\* The locals go out of scope.
Return(result) ==
  /\ pc' = "idle"
  /\ call' = 0
  /\ ret' = result
  /\ granidx' = 0 /\ bitidx' = 0 /\ curr' = {} /\ next' = {} /\ alloc' = 0

NotFound ==
  /\ pc = "entry"
  /\ granidx >= NGRANULES
  /\ Return(NULL)
  /\ UNCHANGED <<gat, lost, blocks, halted>>

NextEntry ==
  /\ granidx' = granidx + W
  /\ pc' = "entry"
  /\ UNCHANGED <<gat, lost, blocks, call, bitidx, curr, next, alloc, ret, halted>>

\* Mutant: break instead of continue.
SkipEntryBreak ==
  /\ pc = "entry"
  /\ granidx < NGRANULES
  /\ gat[granidx \div W] = Bits
  /\ Return(NULL)
  /\ UNCHANGED <<gat, lost, blocks, halted>>

\* continue: no free granule in the entry.
SkipEntry ==
  /\ pc = "entry"
  /\ granidx < NGRANULES
  /\ gat[granidx \div W] = Bits
  /\ NextEntry

\* Load the entry and the one after it, which past the end is not the table's.
LoadEntry ==
  /\ pc = "entry"
  /\ granidx < NGRANULES
  /\ LET gatidx == granidx \div W
     IN  /\ gat[gatidx] # Bits
         /\ curr' = gat[gatidx]
         /\ next' \in IF gatidx + 1 \in Entries THEN {gat[gatidx + 1]} ELSE JunkWords
  /\ bitidx' = 0
  /\ alloc' = granidx
  /\ pc' = "bit"
  /\ UNCHANGED <<gat, lost, blocks, call, granidx, ret, halted>>

\* Condition of the inner loop.
room == bitidx < W /\ granidx + bitidx + call <= NGRANULES

\* The inner loop ends, by its condition or by the break.
LeaveEntry ==
  /\ pc = "bit"
  /\ ~ room \/ curr = Bits
  /\ NextEntry

at_candidate ==
  /\ pc = "bit"
  /\ room
  /\ curr # Bits

candidate_free == stride(curr) = 1 /\ 0 .. call - 1 \subseteq Bits \ curr

Found ==
  /\ at_candidate
  /\ candidate_free
  /\ gran_mark_allocated(alloc, call)
  /\ blocks' = blocks \cup {<<alloc, call>>}
  /\ Return(alloc)
  /\ UNCHANGED lost

Advance ==
  /\ at_candidate
  /\ ~ candidate_free
  /\ LET shift == stride(curr)
     IN  /\ alloc' = alloc + shift
         /\ curr' = shift_in(curr, next, shift)
         /\ next' = shift_right(next, shift)
         /\ bitidx' = bitidx + shift
  /\ UNCHANGED <<gat, lost, blocks, call, pc, granidx, ret, halted>>

\* gran_free, of a block its caller holds.  The last result is forgotten.
Free(b) ==
  /\ pc = "idle"
  /\ ~ halted
  /\ b \in blocks
  /\ halted' = \E i \in Entries : ~ (gatmask(b[1], b[2], i) \subseteq gat[i])
  /\ gat' = [i \in Entries |-> gat[i] \ gatmask(b[1], b[2], i)]
  /\ blocks' = blocks \ {b}
  /\ ret' = NULL
  /\ UNCHANGED <<lost, call, pc, search>>

Step == NotFound \/ SkipEntry \/ LoadEntry \/ LeaveEntry \/ Found \/ Advance

Next ==
  \/ \E n \in Sizes : Call(n)
  \/ Step
  \/ \E b \in blocks : Free(b)

Spec == Init /\ [][Next]_vars

\* A call runs to its return: nothing preempts the kernel.
FairSpec == Spec /\ WF_vars(Step)
-----------------------------------------------------------------------------
TypeOK ==
  /\ gat \in [Entries -> SUBSET Bits]
  /\ lost \subseteq Granules
  /\ blocks \subseteq Granules \X (1 .. W)
  /\ call \in 0 .. W
  /\ pc \in {"idle", "entry", "bit"}
  /\ granidx \in 0 .. NENTRIES * W
  /\ bitidx \in 0 .. 2 * W
  /\ curr \subseteq Bits
  /\ next \subseteq Bits
  /\ alloc \in 0 .. NGRANULES + W
  /\ ret \in Granules \cup {NULL}
  /\ halted \in BOOLEAN

\* Blocks in callers' hands never share a granule, stay inside the heap, avoid
\* what the table showed as taken at boot, and account for every marked bit:
\* gran_alloc and gran_free neither hand out memory twice nor leak any.
BlocksPartition ==
  /\ \A b \in blocks : run(b[1], b[2]) \subseteq Granules \ lost
  /\ \A b, c \in blocks : b # c => run(b[1], b[2]) \cap run(c[1], c[2]) = {}
  /\ marked = lost \cup UNION {run(b[1], b[2]) : b \in blocks}

\* Only a request over W granules can fail an assertion: the asserts of
\* gran_mark_allocated and gran_free never do.
AssertsHold == [][halted' => \E n \in Sizes : n > W /\ Call(n)]_vars

\* curr is the window of the table at the candidate, and every run that
\* starts before the candidate has been ruled out.  The search may stride
\* over positions, and shift in foreign bits, without passing a fit.
SearchExact ==
  pc = "bit" =>
    /\ alloc = granidx + bitidx
    /\ bitidx < W =>
         \A b \in Bits :
           alloc + b < NGRANULES => (b \in curr <=> alloc + b \in marked)
    /\ \A g \in 0 .. alloc - 1 : ~ (run(g, call) \subseteq Granules \ marked)

\* The comment on the read of the next entry: all ones at the last entry, so
\* that nothing can be allocated past it.
LastEntryShiftsInOnes ==
  pc = "bit" /\ bitidx = 0 /\ granidx \div W = NENTRIES - 1 => next = Bits

\* The allocator as its callers see it.
G == INSTANCE Gran WITH used <- marked, MaxRun <- W

\* Every call returns the lowest run that fits, and NULL only when none does;
\* and it does return.
FirstFit == G!FairSpec
=============================================================================

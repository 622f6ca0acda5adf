--------------------------- MODULE GranAllocProofs ---------------------------
(***************************************************************************)
(* Machine-checked proofs about GranAlloc, for any width of the table's    *)
(* entries, any heap, any strides, any requests and any junk in the memory *)
(* the code reads without having written it.                               *)
(***************************************************************************)
EXTENDS GranAlloc, WellFoundedInduction, TLAPS

\* The granule of bit 0 of entry i.
base(i) == W * i

fits(g, n) == run(g, n) \subseteq Granules \ marked

\* next is what remains of the following entry.
UpcomingExact ==
  pc = "bit" =>
    \A c \in Bits :
      c < W - bitidx /\ alloc + W + c < NGRANULES => (c \in next <=> alloc + W + c \in marked)

Typed ==
  /\ gat \in [Entries -> SUBSET Bits]
  /\ lost \subseteq Granules
  /\ blocks \subseteq Granules \X (1 .. W)
  /\ call \in 0 .. W
  /\ pc \in {"idle", "entry", "bit"}
  /\ granidx \in Nat
  /\ bitidx \in Nat
  /\ alloc \in Nat
  /\ curr \subseteq Bits
  /\ next \subseteq Bits
  /\ halted \in BOOLEAN

\* A call in progress wants at least one granule and has not returned.
Calling ==
  /\ call = 0 <=> pc = "idle"
  /\ pc # "idle" => ret = NULL /\ ~ halted
  /\ pc = "idle" => granidx = 0

\* The outer loop stands at an entry, and nothing before it fits.
Passed ==
  /\ \E k \in Nat : granidx = base(k)
  /\ pc = "entry" => \A g \in 0 .. granidx - 1 : ~ fits(g, call)

IInv == Typed /\ Calling /\ BlocksPartition /\ Passed /\ SearchExact /\ UpcomingExact
-----------------------------------------------------------------------------
(* Granules, entries and bits.                                             *)

LEMMA BaseFacts ==
  ASSUME NEW i \in Nat
  PROVE  base(i) \in Nat /\ base(i + 1) = base(i) + W /\ base(0) = 0
BY GranAssumption DEF base

LEMMA BaseMonotone ==
  ASSUME NEW i \in Nat, NEW j \in Nat, i < j
  PROVE  base(i) + W <= base(j)
<1>1. PICK d \in Nat : j = i + 1 + d
  <2>1. j - i - 1 \in Nat /\ j = i + 1 + (j - i - 1)
    OBVIOUS
  <2> QED BY <2>1
<1>2. W * j = W * i + W + W * d
  BY <1>1, GranAssumption
<1>3. W * d \in Nat /\ W * i \in Nat /\ W * j \in Nat
  BY GranAssumption
<1> QED BY <1>2, <1>3, GranAssumption DEF base

\* Every granule is a bit of an entry.
LEMMA DivMod ==
  ASSUME NEW g \in Nat
  PROVE  g \div W \in Nat /\ g % W \in Bits /\ g = base(g \div W) + (g % W)
<1>1. g % W \in 0 .. W - 1
  BY GranAssumption
<1>2. g \div W \in Int
  BY GranAssumption
<1>3. g = W * (g \div W) + (g % W)
  BY GranAssumption
<1>4. g \div W \in Nat
  <2> DEFINE q == g \div W
  <2> DEFINE r == g % W
  <2>1. q \in Int /\ r \in 0 .. W - 1 /\ g = W * q + r
    BY <1>1, <1>2, <1>3
  <2> HIDE DEF q, r
  <2>2. SUFFICES ASSUME q < 0 PROVE FALSE
    BY <2>1 DEF q
  <2>3. W * q <= - W
    BY <2>1, <2>2, GranAssumption
  <2> QED BY <2>1, <2>3, GranAssumption
<1> QED BY <1>1, <1>3, <1>4 DEF base, Bits

\* Of one entry only, and of one bit of it.
LEMMA Place ==
  ASSUME NEW i \in Nat, NEW b \in Bits
  PROVE  (base(i) + b) \div W = i /\ (base(i) + b) % W = b
<1> DEFINE g == base(i) + b
<1> DEFINE q == g \div W
<1> DEFINE r == g % W
<1>1. g \in Nat /\ b \in 0 .. W - 1
  BY BaseFacts, GranAssumption DEF Bits
<1>2. q \in Nat /\ r \in 0 .. W - 1 /\ base(i) + b = base(q) + r
  BY <1>1, DivMod DEF Bits
<1> HIDE DEF q, r
<1>3. base(i) \in Nat /\ base(q) \in Nat
  BY <1>2, BaseFacts
<1>4. ~ (i < q)
  BY <1>1, <1>2, <1>3, BaseMonotone, GranAssumption
<1>5. ~ (q < i)
  BY <1>1, <1>2, <1>3, BaseMonotone, GranAssumption
<1>6. q = i
  BY <1>2, <1>4, <1>5
<1>7. r = b
  BY <1>1, <1>2, <1>3, <1>6, GranAssumption
<1> QED BY <1>6, <1>7 DEF q, r

\* SIZEOF_GAT gives the table an entry for every granule and no more.
LEMMA EntriesCover ==
  ASSUME NEW i \in Nat
  PROVE  i \in Entries <=> base(i) < NGRANULES
<1> DEFINE q == (NGRANULES + W - 1) \div W
<1> DEFINE r == (NGRANULES + W - 1) % W
<1>1. NGRANULES + W - 1 \in Nat
  BY GranAssumption
<1>2. q \in Nat /\ r \in 0 .. W - 1 /\ NGRANULES + W - 1 = base(q) + r
  BY <1>1, DivMod DEF Bits
<1>3. NENTRIES = q
  BY DEF NENTRIES
<1> HIDE DEF q, r
<1>4. base(i) \in Nat /\ base(q) \in Nat
  BY <1>2, BaseFacts
<1>5. i < q => base(i) < NGRANULES
  BY <1>2, <1>4, BaseMonotone, GranAssumption
<1>6. q < i => base(i) >= NGRANULES
  BY <1>2, <1>4, BaseMonotone, GranAssumption
<1>7. q = i => base(i) >= NGRANULES
  BY <1>2, <1>4, GranAssumption
<1> QED BY <1>2, <1>3, <1>4, <1>5, <1>6, <1>7, GranAssumption DEF Entries

\* The masks of gran_mark_allocated and gran_free are the run they stand for.
LEMMA MaskIsRun ==
  ASSUME NEW granno \in Nat, NEW n \in 1 .. W, NEW i \in Nat, NEW b \in Bits
  PROVE  b \in gatmask(granno, n, i) <=> base(i) + b \in run(granno, n)
<1> DEFINE q == granno \div W
<1> DEFINE r == granno % W
<1>1. q \in Nat /\ r \in 0 .. W - 1 /\ granno = base(q) + r
  BY DivMod DEF Bits
<1>2. b \in gatmask(granno, n, i) <=>
        \/ n > W - r /\ i = q /\ b >= r
        \/ n > W - r /\ i = q + 1 /\ b <= n - (W - r) - 1
        \/ n <= W - r /\ i = q /\ b >= r /\ b <= r + n - 1
  BY <1>1, GranAssumption DEF gatmask, Bits
<1> HIDE DEF q, r
<1>3. base(i) \in Nat /\ base(q) \in Nat /\ base(q + 1) = base(q) + W
  BY <1>1, BaseFacts
<1>4. base(i) + b \in run(granno, n) <=>
        base(i) + b >= base(q) + r /\ base(i) + b <= base(q) + r + n - 1
  BY <1>1, <1>3, GranAssumption DEF run, Bits
<1>5. CASE i = q
  BY <1>1, <1>2, <1>3, <1>4, <1>5, GranAssumption DEF Bits
<1>6. CASE i = q + 1
  BY <1>1, <1>2, <1>3, <1>4, <1>6, GranAssumption DEF Bits
<1>7. CASE i < q
  <2>1. base(i) + W <= base(q)
    BY <1>1, <1>7, BaseMonotone
  <2> QED BY <2>1, <1>1, <1>2, <1>3, <1>4, <1>7, GranAssumption DEF Bits
<1>8. CASE i > q + 1
  <2>1. base(q + 1) + W <= base(i)
    BY <1>1, <1>8, BaseMonotone
  <2> QED BY <2>1, <1>1, <1>2, <1>3, <1>4, <1>8, GranAssumption DEF Bits
<1> QED BY <1>1, <1>5, <1>6, <1>7, <1>8
-----------------------------------------------------------------------------
(* What the operations do to the set of marked granules.                   *)

\* A granule is marked if its bit is.
LEMMA MarkedBit ==
  ASSUME NEW i \in Nat, NEW b \in Bits, base(i) + b < NGRANULES
  PROVE  base(i) + b \in marked <=> b \in gat[i]
<1>1. base(i) + b \in Granules
  BY BaseFacts, GranAssumption DEF Bits, Granules
<1> QED BY <1>1, Place DEF marked

LEMMA GranulePlace ==
  ASSUME NEW g \in Granules
  PROVE  /\ g \in Nat /\ g \div W \in Entries /\ g % W \in Bits
         /\ g = base(g \div W) + (g % W)
<1>1. g \in Nat /\ g < NGRANULES
  BY GranAssumption DEF Granules
<1>2. g \div W \in Nat /\ g % W \in Bits /\ g = base(g \div W) + (g % W)
  BY <1>1, DivMod
<1>3. base(g \div W) \in Nat
  BY <1>2, BaseFacts
<1>4. base(g \div W) < NGRANULES
  BY <1>1, <1>2, <1>3, GranAssumption DEF Bits
<1> QED BY <1>1, <1>2, <1>4, EntriesCover

\* The masks, granule by granule.
LEMMA MaskedGranule ==
  ASSUME NEW g \in Granules, NEW granno \in Nat, NEW n \in 1 .. W
  PROVE  (g % W) \in gatmask(granno, n, g \div W) <=> g \in run(granno, n)
<1>1. g \div W \in Nat /\ g % W \in Bits /\ g = base(g \div W) + (g % W)
  BY GranulePlace, GranAssumption DEF Entries
<1> QED BY <1>1, MaskIsRun

LEMMA MaskInBits ==
  ASSUME NEW granno \in Nat, NEW n \in 1 .. W, NEW i
  PROVE  gatmask(granno, n, i) \subseteq Bits
<1>1. granno % W \in 0 .. W - 1
  BY DivMod DEF Bits
<1> QED BY <1>1, GranAssumption DEF gatmask, Bits

LEMMA MarkAddsRun ==
  ASSUME NEW granno \in Nat, NEW n \in 1 .. W, run(granno, n) \subseteq Granules,
         gat \in [Entries -> SUBSET Bits],
         gat' = [i \in Entries |-> gat[i] \cup gatmask(granno, n, i)]
  PROVE  marked' = marked \cup run(granno, n)
<1>1. ASSUME NEW g \in Granules
      PROVE  (g % W) \in gat'[g \div W] <=> (g % W) \in gat[g \div W] \/ g \in run(granno, n)
  BY <1>1, GranulePlace, MaskedGranule
<1> QED BY <1>1 DEF marked, Granules

LEMMA FreeRemovesRun ==
  ASSUME NEW granno \in Nat, NEW n \in 1 .. W,
         gat \in [Entries -> SUBSET Bits],
         gat' = [i \in Entries |-> gat[i] \ gatmask(granno, n, i)]
  PROVE  marked' = marked \ run(granno, n)
<1>1. ASSUME NEW g \in Granules
      PROVE  (g % W) \in gat'[g \div W] <=> (g % W) \in gat[g \div W] /\ g \notin run(granno, n)
  BY <1>1, GranulePlace, MaskedGranule
<1> QED BY <1>1 DEF marked, Granules

\* A masked bit is the bit of a granule of the run.
LEMMA MaskedBit ==
  ASSUME NEW granno \in Nat, NEW n \in 1 .. W, run(granno, n) \subseteq Granules,
         NEW i \in Entries, NEW b \in gatmask(granno, n, i)
  PROVE  \E g \in run(granno, n) : g \in marked <=> b \in gat[i]
<1>1. i \in Nat /\ b \in Bits
  BY MaskInBits, GranAssumption DEF Entries
<1>2. base(i) + b \in run(granno, n)
  BY <1>1, MaskIsRun
<1>3. base(i) + b < NGRANULES
  BY <1>2, GranAssumption DEF Granules
<1>4. base(i) + b \in marked <=> b \in gat[i]
  BY <1>1, <1>3, MarkedBit
<1> QED BY <1>2, <1>4

\* A stride moves on by at least one bit and at most an entry, over bits that are all ones.
LEMMA StrideFacts ==
  ASSUME NEW word
  PROVE  /\ stride(word) \in 1 .. W
         /\ stride(word) = 1 \/ 0 .. stride(word) - 1 \subseteq word
<1> DEFINE full == {s \in Shifts : 0 .. s - 1 \subseteq word}
<1>0. \A s \in Shifts : s \in 1 .. W /\ W - s \in Nat
  BY GranAssumption
<1>1. CASE full = {}
  BY <1>1, GranAssumption DEF stride
<1>2. CASE full # {}
  <2> DEFINE low == {W - s : s \in full}
  <2>1. low \in SUBSET Nat /\ low # {}
    <3>1. \A s \in full : W - s \in Nat
      BY <1>0
    <3> HIDE DEF full
    <3> QED BY <1>2, <3>1
  <2>2. PICK x \in low : \A y \in low : ~ (<<y, x>> \in OpToRel(<, Nat))
    BY <2>1, NatLessThanWellFounded, WFMin, Zenon
  <2>3. PICK s \in full : x = W - s
    BY <2>2
  <2>4. \A u \in full : s >= u
    <3> SUFFICES ASSUME NEW u \in full PROVE ~ (W - u < W - s)
      BY GranAssumption
    <3>1. <<W - u, W - s>> \notin OpToRel(<, Nat)
      BY <2>2, <2>3
    <3>2. W - u \in Nat /\ W - s \in Nat
      BY <2>1
    <3> QED BY <3>1, <3>2 DEF OpToRel
  <2>5. Max(full) \in full
    BY <2>4 DEF Max
  <2>6. stride(word) \in full
    BY <1>2, <2>5 DEF stride
  <2>7. stride(word) \in Shifts /\ 0 .. stride(word) - 1 \subseteq word
    BY <2>6
  <2>8. stride(word) \in 1 .. W
    BY ONLY <2>7, <1>0
  <2> QED BY <2>7, <2>8
<1> QED BY <1>1, <1>2
-----------------------------------------------------------------------------
(* The search.                                                             *)

\* A run that leaves the heap or meets a marked granule does not fit.
LEMMA NoFit ==
  ASSUME NEW g \in Nat, NEW n \in 1 .. W, NEW h \in run(g, n), h \in marked \/ h >= NGRANULES
  PROVE  ~ fits(g, n)
BY GranAssumption DEF fits, Granules, run

\* The candidate gran_alloc takes is free.
LEMMA CandidateFits ==
  ASSUME Typed, Calling, SearchExact, at_candidate, candidate_free
  PROVE  /\ call \in 1 .. W /\ alloc \in Granules
         /\ fits(alloc, call) /\ \A h \in 0 .. alloc - 1 : ~ fits(h, call)
<1>1. call \in 1 .. W /\ alloc \in Nat /\ alloc + call <= NGRANULES /\ bitidx < W
  BY GranAssumption DEF Typed, Calling, SearchExact, at_candidate, room
<1>2. ASSUME NEW g \in run(alloc, call)
      PROVE  g \in Granules \ marked
  <2>1. g - alloc \in 0 .. call - 1 /\ g < NGRANULES /\ g \in Nat
    BY <1>1, <1>2, GranAssumption DEF run
  <2>2. g - alloc \in Bits /\ g - alloc \notin curr
    BY <2>1 DEF candidate_free
  <2>3. alloc + (g - alloc) = g
    BY <1>1, <2>1
  <2>4. g \notin marked
    BY <1>1, <2>1, <2>2, <2>3 DEF SearchExact, at_candidate
  <2> QED BY <2>1, <2>4, GranAssumption DEF Granules
<1>3. alloc \in Granules
  BY <1>1, GranAssumption DEF Granules
<1>4. \A h \in 0 .. alloc - 1 : ~ fits(h, call)
  BY DEF SearchExact, at_candidate, fits
<1> QED BY <1>1, <1>2, <1>3, <1>4 DEF fits

\* The positions an advance strides over do not fit.
LEMMA AdvancePassesNoFit ==
  ASSUME Typed, Calling, SearchExact, at_candidate, ~ candidate_free,
         NEW g \in alloc .. alloc + stride(curr) - 1
  PROVE  ~ fits(g, call)
<1>1. call \in 1 .. W /\ alloc \in Nat /\ alloc + call <= NGRANULES /\ bitidx < W /\ curr \subseteq Bits
  BY GranAssumption DEF Typed, Calling, SearchExact, at_candidate, room
<1>2. stride(curr) \in 1 .. W /\ (stride(curr) = 1 \/ 0 .. stride(curr) - 1 \subseteq curr)
  BY StrideFacts
<1>3. \A b \in curr : alloc + b \in marked \/ alloc + b >= NGRANULES
  BY <1>1, GranAssumption DEF SearchExact, at_candidate, Bits
<1>4. g \in Nat /\ g - alloc \in 0 .. stride(curr) - 1 /\ alloc + (g - alloc) = g
  BY <1>1, <1>2, GranAssumption
<1>5. CASE 0 .. stride(curr) - 1 \subseteq curr
  <2>1. g \in marked \/ g >= NGRANULES
    BY <1>3, <1>4, <1>5
  <2>2. g \in run(g, call)
    BY <1>1, <1>4, GranAssumption DEF run
  <2> QED BY <1>1, <1>4, <2>1, <2>2, NoFit
<1>6. CASE stride(curr) = 1
  <2>1. PICK b \in 0 .. call - 1 : b \in curr
    BY <1>1, <1>6, GranAssumption DEF candidate_free, Bits
  <2>2. alloc + b \in run(g, call) /\ g = alloc
    BY <1>1, <1>4, <1>6, GranAssumption DEF run
  <2> QED BY <1>1, <1>3, <1>4, <2>1, <2>2, NoFit
<1> QED BY <1>2, <1>5, <1>6

\* Nor do those up to the next entry when the inner loop ends.
LEMMA LeavePassesNoFit ==
  ASSUME Typed, Calling, SearchExact, pc = "bit", ~ room \/ curr = Bits,
         NEW g \in 0 .. granidx + W - 1
  PROVE  ~ fits(g, call)
<1>1. /\ call \in 1 .. W /\ alloc \in Nat /\ granidx \in Nat /\ bitidx \in Nat
      /\ alloc = granidx + bitidx /\ W \in Nat /\ NGRANULES \in Nat /\ g \in Nat
  BY GranAssumption DEF Typed, Calling, SearchExact
<1>2. CASE g < alloc
  BY <1>1, <1>2 DEF SearchExact, fits
<1>3. CASE g >= alloc
  <2>1. bitidx < W /\ g - alloc \in Bits /\ alloc + (g - alloc) = g
    BY <1>1, <1>3 DEF Bits
  <2>2. CASE curr = Bits
    <3>1. g \in marked \/ g >= NGRANULES
      BY <1>1, <2>1, <2>2 DEF SearchExact
    <3>2. g \in run(g, call)
      BY <1>1 DEF run
    <3> QED BY <1>1, <3>1, <3>2, NoFit
  <2>3. CASE ~ room
    <3>1. alloc + call > NGRANULES
      BY <1>1, <2>1, <2>3 DEF room
    <3>2. g + call - 1 \in run(g, call) /\ g + call - 1 >= NGRANULES
      BY <1>1, <1>3, <3>1 DEF run
    <3> QED BY <1>1, <3>2, NoFit
  <2> QED BY <2>2, <2>3
<1> QED BY <1>1, <1>2, <1>3

\* Nor do those of an entry with no free granule.
LEMMA SkipPassesNoFit ==
  ASSUME Typed, Calling, Passed, pc = "entry", granidx < NGRANULES, gat[granidx \div W] = Bits,
         NEW g \in 0 .. granidx + W - 1
  PROVE  ~ fits(g, call)
<1>1. PICK k \in Nat : granidx = base(k)
  BY DEF Passed
<1>2. /\ call \in 1 .. W /\ granidx \in Nat /\ W \in Nat \ {0} /\ NGRANULES \in Nat /\ g \in Nat
  BY GranAssumption DEF Typed, Calling
<1>3. CASE g < granidx
  BY <1>2, <1>3 DEF Passed
<1>4. CASE g >= granidx
  <2>1. g - granidx \in Bits /\ base(k) + (g - granidx) = g
    BY <1>1, <1>2, <1>4 DEF Bits
  <2>2. granidx \div W = k
    <3>1. 0 \in Bits /\ base(k) + 0 = granidx
      BY <1>1, <1>2 DEF Bits
    <3> QED BY <3>1, Place
  <2>3. g \in marked \/ g >= NGRANULES
    BY <1>2, <2>1, <2>2, MarkedBit
  <2>4. g \in run(g, call)
    BY <1>2 DEF run
  <2> QED BY <1>2, <2>3, <2>4, NoFit
<1> QED BY <1>2, <1>3, <1>4
-----------------------------------------------------------------------------
(* IInv is inductive.                                                      *)

LEMMA InitIInv == Init => IInv
<1> SUFFICES ASSUME Init PROVE IInv
  OBVIOUS
<1>1. Typed
  <2>1. gat \in [Entries -> SUBSET Bits] /\ lost \subseteq Granules
    BY GranAssumption DEF Init, marked
  <2>2. call \in 0 .. W /\ granidx \in Nat /\ bitidx \in Nat /\ alloc \in Nat
    BY GranAssumption DEF Init
  <2>3. blocks \subseteq Granules \X (1 .. W) /\ curr \subseteq Bits /\ next \subseteq Bits
    BY DEF Init
  <2>4. halted \in BOOLEAN /\ pc \in {"idle", "entry", "bit"}
    BY DEF Init
  <2> QED BY <2>1, <2>2, <2>3, <2>4 DEF Typed
<1>2. BlocksPartition
  BY DEF Init, BlocksPartition
<1>3. Passed
  <2>1. granidx = base(0)
    BY BaseFacts DEF Init
  <2> QED BY <2>1 DEF Passed, Init
<1> QED BY <1>1, <1>2, <1>3 DEF Init, IInv, Calling, SearchExact, UpcomingExact

\* A step that leaves the table and the blocks alone.
LEMMA SameBlocks ==
  ASSUME BlocksPartition, UNCHANGED <<gat, lost, blocks>>
  PROVE  BlocksPartition' /\ marked' = marked
<1>1. marked' = marked
  BY DEF marked
<1> QED BY <1>1 DEF BlocksPartition

\* Outside the inner loop there is no window.
LEMMA NoWindow ==
  ASSUME pc' # "bit"
  PROVE  SearchExact' /\ UpcomingExact'
BY DEF SearchExact, UpcomingExact

LEMMA CallKeeps ==
  ASSUME IInv, NEW n \in Sizes, Call(n)
  PROVE  IInv'
<1>1. BlocksPartition'
  BY SameBlocks DEF Call, IInv
<1>2. n \in Nat
  BY GranAssumption
<1>3. Typed'
  BY <1>2, GranAssumption DEF IInv, Typed, Call, search
<1>4. Calling'
  BY <1>2, GranAssumption DEF IInv, Call, Calling, search
<1>5. Passed'
  <2>1. granidx' = 0 /\ base(0) = 0
    BY BaseFacts DEF IInv, Call, Calling, search
  <2> QED BY <2>1 DEF Passed
<1>6. SearchExact' /\ UpcomingExact'
  BY NoWindow DEF Call
<1> QED BY <1>1, <1>3, <1>4, <1>5, <1>6 DEF IInv

\* What Return leaves behind.
LEMMA ReturnKeeps ==
  ASSUME NEW result, Return(result)
  PROVE  /\ Calling' /\ Passed' /\ SearchExact' /\ UpcomingExact'
         /\ call' \in 0 .. W /\ pc' \in {"idle", "entry", "bit"}
         /\ granidx' \in Nat /\ bitidx' \in Nat /\ alloc' \in Nat
         /\ curr' \subseteq Bits /\ next' \subseteq Bits
<1>1. SearchExact' /\ UpcomingExact'
  BY NoWindow DEF Return
<1>2. Passed'
  <2>1. granidx' = 0 /\ base(0) = 0 /\ pc' = "idle"
    BY BaseFacts DEF Return
  <2> QED BY <2>1 DEF Passed
<1> QED BY <1>1, <1>2, GranAssumption DEF Return, Calling

LEMMA NotFoundKeeps ==
  ASSUME IInv, NotFound
  PROVE  IInv'
<1>1. BlocksPartition'
  BY SameBlocks DEF NotFound, IInv
<1>2. Return(NULL)
  BY DEF NotFound
<1>3. Typed'
  BY <1>2, ReturnKeeps DEF IInv, Typed, NotFound
<1> QED BY <1>1, <1>2, <1>3, ReturnKeeps DEF IInv

LEMMA NextEntryKeeps ==
  ASSUME IInv, NextEntry, pc # "idle", \A g \in 0 .. granidx + W - 1 : ~ fits(g, call)
  PROVE  IInv'
<1>1. BlocksPartition' /\ marked' = marked
  BY SameBlocks DEF NextEntry, IInv
<1>2. Typed'
  BY GranAssumption DEF IInv, Typed, NextEntry
<1>3. Calling'
  BY DEF IInv, Calling, NextEntry
<1>4. Passed'
  <2>1. PICK k \in Nat : granidx = base(k)
    BY DEF IInv, Passed
  <2>2. granidx' = base(k + 1) /\ k + 1 \in Nat
    BY <2>1, BaseFacts DEF NextEntry
  <2>3. granidx' = granidx + W /\ call' = call
    BY DEF NextEntry
  <2>4. ASSUME NEW g \in 0 .. granidx' - 1 PROVE ~ fits(g, call)'
    <3>1. g \in 0 .. granidx + W - 1
      BY <2>3, GranAssumption DEF IInv, Typed
    <3>2. fits(g, call)' <=> fits(g, call)
      BY <1>1, <2>3 DEF fits
    <3> QED BY <3>1, <3>2
  <2> QED BY <2>2, <2>4 DEF Passed
<1>5. SearchExact' /\ UpcomingExact'
  BY NoWindow DEF NextEntry
<1> QED BY <1>1, <1>2, <1>3, <1>4, <1>5 DEF IInv

LEMMA SkipEntryKeeps ==
  ASSUME IInv, SkipEntry
  PROVE  IInv'
BY NextEntryKeeps, SkipPassesNoFit DEF IInv, SkipEntry

LEMMA LeaveEntryKeeps ==
  ASSUME IInv, LeaveEntry
  PROVE  IInv'
BY NextEntryKeeps, LeavePassesNoFit DEF IInv, LeaveEntry
LEMMA LoadEntryKeeps ==
  ASSUME IInv, LoadEntry
  PROVE  IInv'
<1>1. BlocksPartition' /\ marked' = marked
  BY SameBlocks DEF LoadEntry, IInv
<1>2. PICK k \in Nat : granidx = base(k)
  BY DEF IInv, Passed
<1>3. granidx \in Nat /\ granidx < NGRANULES /\ W \in Nat \ {0} /\ NGRANULES \in Nat
  BY GranAssumption DEF IInv, Typed, LoadEntry
<1>4. granidx \div W = k
  <2>1. 0 \in Bits /\ base(k) + 0 = granidx
    BY <1>2, <1>3 DEF Bits
  <2> QED BY <2>1, Place
<1>5. /\ curr' = gat[k] /\ bitidx' = 0 /\ alloc' = granidx /\ pc' = "bit"
      /\ next' \in IF k + 1 \in Entries THEN {gat[k + 1]} ELSE JunkWords
      /\ UNCHANGED <<gat, lost, blocks, call, granidx, ret, halted>> /\ pc = "entry"
  BY <1>4 DEF LoadEntry
<1>6. k \in Entries
  BY <1>2, <1>3, EntriesCover
<1>7. Typed'
  <2>1. curr' \subseteq Bits
    BY <1>5, <1>6 DEF IInv, Typed
  <2>2. next' \subseteq Bits
    BY <1>5, GranAssumption DEF IInv, Typed
  <2> QED BY <1>3, <1>5, <2>1, <2>2 DEF IInv, Typed
<1>8. Calling'
  BY <1>5 DEF IInv, Calling
<1>9. Passed'
  BY <1>2, <1>5 DEF Passed
<1>10. SearchExact'
  <2>1. alloc' = granidx' + bitidx'
    BY <1>3, <1>5
  <2>2. ASSUME NEW b \in Bits, alloc' + b < NGRANULES
        PROVE  b \in curr' <=> alloc' + b \in marked'
    BY <1>1, <1>2, <1>5, <2>2, MarkedBit
  <2>3. ASSUME NEW g \in 0 .. alloc' - 1
        PROVE  ~ (run(g, call') \subseteq Granules \ marked')
    BY <1>1, <1>5, <2>3 DEF IInv, Passed, fits
  <2> QED BY <2>1, <2>2, <2>3 DEF SearchExact
<1>11. UpcomingExact'
  <2> SUFFICES ASSUME NEW c \in Bits, alloc' + W + c < NGRANULES
               PROVE  c \in next' <=> alloc' + W + c \in marked'
    BY DEF UpcomingExact
  <2>1. alloc' + W + c = base(k + 1) + c /\ k + 1 \in Nat /\ base(k + 1) \in Nat /\ c \in Nat
    BY <1>2, <1>3, <1>5, BaseFacts DEF Bits
  <2>2. base(k + 1) < NGRANULES
    BY <1>3, <2>1
  <2>3. k + 1 \in Entries
    BY <2>1, <2>2, EntriesCover
  <2>4. next' = gat[k + 1]
    BY <1>5, <2>3
  <2>5. base(k + 1) + c \in marked <=> c \in gat[k + 1]
    BY <2>1, MarkedBit
  <2> QED BY <1>1, <2>1, <2>4, <2>5
<1> QED BY <1>1, <1>7, <1>8, <1>9, <1>10, <1>11 DEF IInv

\* What the shifts do to a bit.
LEMMA ShiftedBit ==
  ASSUME NEW word \in SUBSET Bits, NEW above \in SUBSET Bits, NEW s \in 1 .. W, NEW b \in Bits
  PROVE  /\ b \in shift_right(word, s) <=> b + s \in word
         /\ b \in shift_in(word, above, s) <=>
              IF b + s < W THEN b + s \in word ELSE b + s - W \in above
         /\ shift_right(word, s) \subseteq Bits
         /\ shift_in(word, above, s) \subseteq Bits
<1>0. W \in Nat \ {0} /\ b \in Int /\ s \in Int /\ 0 <= b /\ b < W
  BY GranAssumption DEF Bits
<1>1. ASSUME NEW a \in Int, a >= 0
      PROVE  a \in shift_right(word, s) <=> a + s \in word
  <2>1. ASSUME a \in shift_right(word, s) PROVE a + s \in word
    <3>1. PICK c \in word : a = c - s
      BY <2>1 DEF shift_right
    <3>2. c = a + s
      BY <3>1, <1>0 DEF Bits
    <3> QED BY <3>2
  <2>2. ASSUME a + s \in word PROVE a \in shift_right(word, s)
    <3>1. a + s >= s /\ a = (a + s) - s
      BY <1>0, <1>1
    <3> QED BY <2>2, <3>1 DEF shift_right
  <2> QED BY <2>1, <2>2
<1>2. shift_right(word, s) \subseteq Bits
  BY <1>0 DEF shift_right, Bits
<1> DEFINE top == {d + (W - s) : d \in {c \in above : c < s}}
<1>4. top \subseteq Bits /\ \A a \in top : a >= W - s
  BY <1>0 DEF Bits
<1>5. b \in top <=> b + s - W \in above /\ b + s >= W
  <2>1. ASSUME b \in top PROVE b + s - W \in above /\ b + s >= W
    <3>1. PICK d \in above : b = d + (W - s)
      BY <2>1
    <3>2. d = b + s - W /\ d \in Nat
      BY <3>1, <1>0 DEF Bits
    <3> QED BY <3>2, <1>0
  <2>2. ASSUME b + s - W \in above, b + s >= W PROVE b \in top
    <3>1. b + s - W < s /\ b = (b + s - W) + (W - s)
      BY <1>0
    <3> QED BY <2>2, <3>1
  <2> QED BY <2>1, <2>2
<1>6. shift_in(word, above, s) = shift_right(word, s) \cup top
  BY DEF shift_in
<1>7. b + s \in word => b + s < W
  BY <1>0 DEF Bits
<1> HIDE DEF top
<1>8. b \in shift_right(word, s) <=> b + s \in word
  BY <1>0, <1>1
<1>9. b \in shift_in(word, above, s) <=>
        IF b + s < W THEN b + s \in word ELSE b + s - W \in above
  <2>1. CASE b + s < W
    <3>1. ~ (b + s >= W)
      BY <1>0, <2>1
    <3> QED BY <2>1, <3>1, <1>5, <1>6, <1>8
  <2>2. CASE ~ (b + s < W)
    <3>1. b + s >= W
      BY <1>0, <2>2
    <3> QED BY <2>2, <3>1, <1>5, <1>6, <1>7, <1>8
  <2> QED BY <2>1, <2>2
<1> QED BY <1>2, <1>4, <1>6, <1>8, <1>9
LEMMA AdvanceKeeps ==
  ASSUME IInv, Advance
  PROVE  IInv'
<1> DEFINE s == stride(curr)
<1>1. BlocksPartition' /\ marked' = marked
  BY SameBlocks DEF Advance, IInv
<1>2. s \in 1 .. W
  BY StrideFacts
<1>3. /\ alloc' = alloc + s /\ curr' = shift_in(curr, next, s)
      /\ next' = shift_right(next, s) /\ bitidx' = bitidx + s
      /\ UNCHANGED <<gat, lost, blocks, call, pc, granidx, ret, halted>>
      /\ at_candidate /\ ~ candidate_free /\ pc = "bit" /\ bitidx < W
  BY DEF Advance, at_candidate, room
<1>4. /\ curr \in SUBSET Bits /\ next \in SUBSET Bits
      /\ alloc \in Nat /\ bitidx \in Nat /\ granidx \in Nat /\ W \in Nat \ {0}
      /\ NGRANULES \in Nat /\ alloc = granidx + bitidx /\ call \in 0 .. W
  BY <1>3, GranAssumption DEF IInv, Typed, SearchExact
<1>5. \A g \in alloc .. alloc + s - 1 : ~ fits(g, call)
  BY <1>3, AdvancePassesNoFit DEF IInv
<1> HIDE DEF s
<1>6. Typed'
  <2>1. 0 \in Bits
    BY <1>4 DEF Bits
  <2>2. curr' \subseteq Bits /\ next' \subseteq Bits
    BY <1>2, <1>3, <1>4, <2>1, ShiftedBit
  <2>3. alloc' \in Nat /\ bitidx' \in Nat
    BY <1>2, <1>3, <1>4
  <2> QED BY <1>3, <2>2, <2>3 DEF IInv, Typed
<1>7. Calling'
  BY <1>3 DEF IInv, Calling
<1>8. Passed'
  BY <1>3 DEF IInv, Passed
<1>9. SearchExact'
  <2>1. alloc' = granidx' + bitidx'
    BY <1>2, <1>3, <1>4
  <2>2. ASSUME bitidx' < W, NEW b \in Bits, alloc' + b < NGRANULES
        PROVE  b \in curr' <=> alloc' + b \in marked'
    <3>1. b \in Nat /\ b < W
      BY <1>4 DEF Bits
    <3>2. b \in curr' <=> IF b + s < W THEN b + s \in curr ELSE b + s - W \in next
      BY <1>2, <1>3, <1>4, ShiftedBit
    <3>3. CASE b + s < W
      <4>1. b + s \in Bits /\ alloc + (b + s) = alloc' + b
        BY <1>2, <1>3, <1>4, <3>1, <3>3 DEF Bits
      <4>2. alloc + (b + s) < NGRANULES
        BY <2>2, <4>1
      <4>3. b + s \in curr <=> alloc + (b + s) \in marked
        BY <1>3, <4>1, <4>2 DEF IInv, SearchExact
      <4> QED BY <1>1, <3>2, <3>3, <4>1, <4>3
    <3>4. CASE ~ (b + s < W)
      <4> DEFINE c == b + s - W
      <4>1. c \in Bits /\ c < W - bitidx /\ alloc + W + c = alloc' + b
        BY <1>2, <1>3, <1>4, <2>2, <3>1, <3>4 DEF Bits
      <4>2. alloc + W + c < NGRANULES
        BY <2>2, <4>1
      <4>3. c \in next <=> alloc + W + c \in marked
        BY <1>3, <4>1, <4>2 DEF IInv, UpcomingExact
      <4> QED BY <1>1, <3>2, <3>4, <4>1, <4>3
    <3> QED BY <3>3, <3>4
  <2>3. ASSUME NEW g \in 0 .. alloc' - 1
        PROVE  ~ (run(g, call') \subseteq Granules \ marked')
    <3>1. g \in 0 .. alloc - 1 \/ g \in alloc .. alloc + s - 1
      BY <1>2, <1>3, <1>4, <2>3
    <3>2. CASE g \in 0 .. alloc - 1
      BY <1>1, <1>3, <3>2 DEF IInv, SearchExact
    <3>3. CASE g \in alloc .. alloc + s - 1
      BY <1>1, <1>3, <1>5, <3>3 DEF fits
    <3> QED BY <3>1, <3>2, <3>3
  <2> QED BY <2>1, <2>2, <2>3 DEF SearchExact
<1>10. UpcomingExact'
  <2> SUFFICES ASSUME NEW c \in Bits, c < W - bitidx', alloc' + W + c < NGRANULES
               PROVE  c \in next' <=> alloc' + W + c \in marked'
    BY DEF UpcomingExact
  <2>1. c \in Nat /\ c < W
    BY <1>4 DEF Bits
  <2>2. c \in next' <=> c + s \in next
    BY <1>2, <1>3, <1>4, ShiftedBit
  <2>3. c + s \in Bits /\ c + s < W - bitidx /\ alloc + W + (c + s) = alloc' + W + c
    BY <1>2, <1>3, <1>4, <2>1 DEF Bits
  <2>4. alloc + W + (c + s) < NGRANULES
    BY <2>3
  <2>5. c + s \in next <=> alloc + W + (c + s) \in marked
    BY <1>3, <2>3, <2>4 DEF IInv, UpcomingExact
  <2> QED BY <1>1, <2>2, <2>3, <2>5
<1> QED BY <1>1, <1>6, <1>7, <1>8, <1>9, <1>10 DEF IInv
\* gran_mark_allocated of a candidate adds its run, and its assertions hold.
LEMMA FoundFacts ==
  ASSUME IInv, Found
  PROVE  /\ marked' = marked \cup run(alloc, call)
         /\ ~ halted'
         /\ gat' \in [Entries -> SUBSET Bits]
<1>1. /\ call \in 1 .. W /\ alloc \in Granules /\ alloc \in Nat
      /\ run(alloc, call) \subseteq Granules \ marked
  BY CandidateFits DEF IInv, Typed, Found, fits
<1>2. gat \in [Entries -> SUBSET Bits]
  BY DEF IInv, Typed
<1>3. gat' = [i \in Entries |-> gat[i] \cup gatmask(alloc, call, i)]
  BY DEF Found, gran_mark_allocated
<1>4. marked' = marked \cup run(alloc, call)
  BY <1>1, <1>2, <1>3, MarkAddsRun
<1>5. \A i \in Entries : gat[i] \cap gatmask(alloc, call, i) = {}
  <2> SUFFICES ASSUME NEW i \in Entries, NEW b \in gatmask(alloc, call, i), b \in gat[i]
               PROVE  FALSE
    OBVIOUS
  <2>1. PICK g \in run(alloc, call) : g \in marked <=> b \in gat[i]
    BY <1>1, MaskedBit
  <2> QED BY <1>1, <2>1
<1>6. ~ halted'
  BY <1>5 DEF Found, gran_mark_allocated
<1>7. \A i \in Entries : gatmask(alloc, call, i) \subseteq Bits
  BY <1>1, MaskInBits
<1> QED BY <1>2, <1>3, <1>4, <1>6, <1>7

LEMMA FoundKeeps ==
  ASSUME IInv, Found
  PROVE  IInv'
<1>1. Return(alloc) /\ lost' = lost /\ blocks' = blocks \cup {<<alloc, call>>}
  BY DEF Found
<1>2. /\ call \in 1 .. W /\ alloc \in Granules
      /\ run(alloc, call) \subseteq Granules \ marked
  BY CandidateFits DEF IInv, Found, fits
<1>3. marked' = marked \cup run(alloc, call) /\ ~ halted' /\ gat' \in [Entries -> SUBSET Bits]
  BY FoundFacts
<1>4. halted' \in BOOLEAN
  BY DEF Found, gran_mark_allocated
<1>5. blocks' \subseteq Granules \X (1 .. W)
  BY <1>1, <1>2 DEF IInv, Typed
<1>6. Typed'
  <2>1. lost' \subseteq Granules
    BY <1>1 DEF IInv, Typed
  <2> QED BY <1>1, <1>3, <1>4, <1>5, <2>1, ReturnKeeps DEF Typed
<1>7. BlocksPartition'
  <2> DEFINE new == <<alloc, call>>
  <2>1. run(new[1], new[2]) = run(alloc, call)
    OBVIOUS
  <2>2. \A b \in blocks : run(b[1], b[2]) \subseteq Granules \ lost /\ run(b[1], b[2]) \subseteq marked
    BY DEF IInv, BlocksPartition
  <2>3. lost \subseteq marked /\ marked = lost \cup UNION {run(b[1], b[2]) : b \in blocks}
    BY DEF IInv, BlocksPartition
  <2>4. \A b \in blocks' : run(b[1], b[2]) \subseteq Granules \ lost'
    BY <1>1, <1>2, <2>1, <2>2, <2>3
  <2>5. \A b, c \in blocks' : b # c => run(b[1], b[2]) \cap run(c[1], c[2]) = {}
    <3> SUFFICES ASSUME NEW b \in blocks', NEW c \in blocks', b # c
                 PROVE  run(b[1], b[2]) \cap run(c[1], c[2]) = {}
      OBVIOUS
    <3>1. CASE b \in blocks /\ c \in blocks
      BY <3>1 DEF IInv, BlocksPartition
    <3>2. CASE b = new /\ c \in blocks
      BY <1>2, <2>1, <2>2, <3>2
    <3>3. CASE c = new /\ b \in blocks
      BY <1>2, <2>1, <2>2, <3>3
    <3> QED BY <1>1, <3>1, <3>2, <3>3
  <2>6. marked' = lost' \cup UNION {run(b[1], b[2]) : b \in blocks'}
    BY <1>1, <1>3, <2>1, <2>3
  <2> QED BY <2>4, <2>5, <2>6 DEF BlocksPartition, run
<1> QED BY <1>1, <1>6, <1>7, ReturnKeeps DEF IInv

\* gran_free takes the block's run away, and its assertions hold.
LEMMA FreeFacts ==
  ASSUME IInv, NEW b \in blocks, Free(b)
  PROVE  /\ marked' = marked \ run(b[1], b[2])
         /\ ~ halted'
         /\ gat' \in [Entries -> SUBSET Bits]
<1>1. b[1] \in Nat /\ b[2] \in 1 .. W
  BY GranAssumption DEF IInv, Typed, Granules
<1>2. run(b[1], b[2]) \subseteq Granules /\ run(b[1], b[2]) \subseteq marked
  BY DEF IInv, BlocksPartition
<1>3. gat \in [Entries -> SUBSET Bits]
  BY DEF IInv, Typed
<1>4. gat' = [i \in Entries |-> gat[i] \ gatmask(b[1], b[2], i)]
  BY DEF Free
<1>5. marked' = marked \ run(b[1], b[2])
  BY <1>1, <1>3, <1>4, FreeRemovesRun
<1>6. \A i \in Entries : gatmask(b[1], b[2], i) \subseteq gat[i]
  <2> SUFFICES ASSUME NEW i \in Entries, NEW x \in gatmask(b[1], b[2], i)
               PROVE  x \in gat[i]
    OBVIOUS
  <2>1. PICK g \in run(b[1], b[2]) : g \in marked <=> x \in gat[i]
    BY <1>1, <1>2, MaskedBit
  <2> QED BY <1>2, <2>1
<1>7. ~ halted'
  BY <1>6 DEF Free
<1> QED BY <1>3, <1>4, <1>5, <1>7

LEMMA FreeKeeps ==
  ASSUME IInv, NEW b \in blocks, Free(b)
  PROVE  IInv'
<1>1. marked' = marked \ run(b[1], b[2]) /\ ~ halted' /\ gat' \in [Entries -> SUBSET Bits]
  BY FreeFacts
<1>2. /\ blocks' = blocks \ {b} /\ pc = "idle" /\ pc' = pc /\ lost' = lost
      /\ call' = call /\ UNCHANGED search
  BY DEF Free
<1>3. halted' \in BOOLEAN
  BY DEF Free
<1>4. Typed'
  BY <1>1, <1>2, <1>3 DEF IInv, Typed, search
<1>5. Calling'
  BY <1>2 DEF IInv, Calling, search
<1>6. Passed'
  BY <1>2 DEF IInv, Passed, search
<1>7. SearchExact' /\ UpcomingExact'
  BY <1>2, NoWindow
<1>8. BlocksPartition'
  <2>1. \A c \in blocks' : run(c[1], c[2]) \subseteq Granules \ lost'
    BY <1>2 DEF IInv, BlocksPartition
  <2>2. \A c, d \in blocks' : c # d => run(c[1], c[2]) \cap run(d[1], d[2]) = {}
    BY <1>2 DEF IInv, BlocksPartition
  <2>3. \A c \in blocks' : run(c[1], c[2]) \cap run(b[1], b[2]) = {}
    BY <1>2 DEF IInv, BlocksPartition
  <2>4. lost \cap run(b[1], b[2]) = {}
    BY DEF IInv, BlocksPartition
  <2>5. marked = lost \cup UNION {run(c[1], c[2]) : c \in blocks}
    BY DEF IInv, BlocksPartition
  <2>6. UNION {run(c[1], c[2]) : c \in blocks}
          = run(b[1], b[2]) \cup UNION {run(c[1], c[2]) : c \in blocks'}
    BY <1>2
  <2>7. marked' = lost' \cup UNION {run(c[1], c[2]) : c \in blocks'}
    BY <1>1, <1>2, <2>3, <2>4, <2>5, <2>6
  <2> QED BY <2>1, <2>2, <2>7 DEF BlocksPartition, run
<1> QED BY <1>4, <1>5, <1>6, <1>7, <1>8 DEF IInv
LEMMA NextIInv == IInv /\ [Next]_vars => IInv'
<1> SUFFICES ASSUME IInv, [Next]_vars PROVE IInv'
  OBVIOUS
<1>1. ASSUME NEW n \in Sizes, Call(n) PROVE IInv'
  BY <1>1, CallKeeps
<1>2. CASE Step
  BY <1>2, NotFoundKeeps, SkipEntryKeeps, LoadEntryKeeps, LeaveEntryKeeps, FoundKeeps,
     AdvanceKeeps DEF Step
<1>3. ASSUME NEW b \in blocks, Free(b) PROVE IInv'
  BY <1>3, FreeKeeps
<1>4. CASE UNCHANGED vars
  <2>1. marked' = marked
    BY <1>4 DEF vars, marked
  <2>2. Typed' /\ Calling'
    BY <1>4 DEF vars, search, IInv, Typed, Calling
  <2>3. BlocksPartition'
    BY <1>4, SameBlocks DEF vars, IInv
  <2>4. Passed'
    BY <1>4, <2>1 DEF vars, search, IInv, Passed, fits
  <2>5. SearchExact' /\ UpcomingExact'
    BY <1>4, <2>1 DEF vars, search, IInv, SearchExact, UpcomingExact
  <2> QED BY <2>2, <2>3, <2>4, <2>5 DEF IInv
<1> QED BY <1>1, <1>2, <1>3, <1>4 DEF Next

THEOREM Invariance == Spec => []IInv
BY InitIInv, NextIInv, PTL DEF Spec

\* gran_alloc never hands out a granule twice, and gran_alloc and gran_free
\* lose none, whatever the table held at boot.
THEOREM HeapPartitioned == Spec => []BlocksPartition
BY Invariance, PTL DEF IInv

\* The window and the strides of gran_alloc's search pass no run that fits,
\* whatever the word after the table holds.
THEOREM SearchIsExact == Spec => []SearchExact
BY Invariance, PTL DEF IInv

\* The assertions of gran_mark_allocated and gran_free hold: only a request
\* over W granules halts.
THEOREM NoAssertFails == Spec => AssertsHold
<1>1. ASSUME IInv, [Next]_vars
      PROVE  [halted' => \E n \in Sizes : n > W /\ Call(n)]_vars
  <2>1. ASSUME NEW n \in Sizes, Call(n), halted' PROVE n > W
    BY <2>1 DEF Call
  <2>2. ASSUME NEW b \in blocks, Free(b) PROVE ~ halted'
    BY <1>1, <2>2, FreeFacts
  <2>3. CASE Step
    <3>1. pc # "idle"
      BY <2>3 DEF Step, NotFound, SkipEntry, LoadEntry, LeaveEntry, Found, Advance, at_candidate
    <3>2. ~ halted
      BY <1>1, <3>1 DEF IInv, Calling
    <3>3. CASE Found
      BY <1>1, <3>3, FoundFacts
    <3>4. CASE NotFound \/ SkipEntry \/ LoadEntry \/ LeaveEntry \/ Advance
      BY <3>2, <3>4 DEF NotFound, SkipEntry, LoadEntry, LeaveEntry, Advance, NextEntry
    <3> QED BY <2>3, <3>3, <3>4 DEF Step
  <2> QED BY <1>1, <2>1, <2>2, <2>3 DEF Next
<1> QED BY <1>1, Invariance, PTL DEF Spec, AssertsHold

\* gran_alloc as callers see it: every call returns the lowest run that fits,
\* and NULL only when none does.
THEOREM ImplementsGran == Spec => G!Spec
<1>1. Init => G!Init
  BY DEF Init, G!Init, NULL, G!NULL, marked, Granules, G!Granules
<1>2. ASSUME IInv, [Next]_vars
      PROVE  [G!Next]_(G!vars)
  <2>1. ASSUME NEW n \in Sizes, Call(n) PROVE G!Call(n)
    <3>1. call = 0
      BY <1>2, <2>1 DEF IInv, Calling, Call
    <3>2. marked' = marked
      BY <2>1 DEF Call, marked
    <3> QED BY <2>1, <3>1, <3>2 DEF Call, G!Call, NULL, G!NULL
  <2>2. CASE NotFound
    <3>1. marked' = marked
      BY <2>2 DEF NotFound, marked
    <3>2. call # 0 /\ ret = NULL
      BY <1>2, <2>2 DEF IInv, Calling, NotFound
    <3>3. \A g \in Granules : ~ fits(g, call)
      BY <1>2, <2>2, GranAssumption DEF IInv, Typed, Passed, NotFound, Granules
    <3>4. G!ReturnNull
      BY <2>2, <3>1, <3>2, <3>3
      DEF NotFound, Return, G!ReturnNull, G!fits, G!run, G!Granules, fits, run, Granules
    <3> QED BY <3>4 DEF G!Next
  <2>3. CASE Found
    <3>1. /\ alloc \in Granules /\ fits(alloc, call)
          /\ \A h \in 0 .. alloc - 1 : ~ fits(h, call)
      BY <1>2, <2>3, CandidateFits DEF IInv, Found
    <3>2. marked' = marked \cup run(alloc, call) /\ ~ halted'
      BY <1>2, <2>3, FoundFacts
    <3>3. call # 0 /\ ~ halted
      BY <1>2, <2>3 DEF IInv, Calling, Found, at_candidate
    <3>4. halted' = halted
      BY <1>2, <2>3, <3>2, <3>3 DEF IInv, Typed, Found, gran_mark_allocated
    <3>5. call' = 0 /\ ret' = alloc /\ lost' = lost /\ blocks' = blocks \cup {<<alloc, call>>}
      BY <2>3 DEF Found, Return
    <3>6. G!ReturnBlock
      BY <3>1, <3>2, <3>3, <3>4, <3>5
      DEF G!ReturnBlock, G!fits, G!run, G!Granules, fits, run, Granules
    <3> QED BY <3>6 DEF G!Next
  <2>4. CASE SkipEntry \/ LoadEntry \/ LeaveEntry \/ Advance
    <3>1. UNCHANGED <<gat, lost, blocks, call, ret, halted>>
      BY <2>4 DEF SkipEntry, LoadEntry, LeaveEntry, Advance, NextEntry
    <3>2. marked' = marked
      BY <3>1 DEF marked
    <3> QED BY <3>1, <3>2 DEF G!vars
  <2>5. ASSUME NEW b \in blocks, Free(b) PROVE G!Free(b)
    <3>1. marked' = marked \ run(b[1], b[2]) /\ ~ halted'
      BY <1>2, <2>5, FreeFacts
    <3>2. call = 0 /\ ~ halted
      BY <1>2, <2>5 DEF IInv, Calling, Free
    <3>3. halted' = halted
      BY <1>2, <2>5, <3>1, <3>2 DEF IInv, Typed, Free
    <3> QED BY <2>5, <3>1, <3>2, <3>3 DEF Free, G!Free, G!run, run, NULL, G!NULL
  <2>6. CASE UNCHANGED vars
    BY <2>6 DEF vars, G!vars, marked
  <2> QED BY <1>2, <2>1, <2>2, <2>3, <2>4, <2>5, <2>6 DEF Next, Step, G!Next
<1> QED BY <1>1, <1>2, Invariance, PTL DEF Spec, G!Spec
=============================================================================

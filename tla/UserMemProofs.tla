---------------------------- MODULE UserMemProofs ----------------------------
(***************************************************************************)
(* Machine-checked proofs about UserMem, for every sequence of brk, mmap   *)
(* and accesses with any arguments, aligned or not and with any hints, and *)
(* for every size of pages, heap and address space.                        *)
(***************************************************************************)
EXTENDS UserMem, SequenceTheorems, TLAPS

Entry == [f : Int, writable : BOOLEAN, executable : BOOLEAN]
Area == [vm_start : Int, vm_end : Int, vm_prot : Prots, found : BOOLEAN]

MemTypeOK ==
  /\ brk \in Nat
  /\ vmas \in Seq(Area)
  /\ map \in [Pages -> Entry \cup {Unmapped}]
  /\ tlb \in [Pages -> Entry \cup {Unmapped}]
  /\ used \in 0 .. NGRANULES

\* What is mapped or cached was handed out before.
HandedOut ==
  \A p \in Pages : /\ map[p] # Unmapped => map[p].f \in 0 .. used - 1
                   /\ tlb[p] # Unmapped => tlb[p].f \in 0 .. used - 1

\* A granule that the TLB reaches from one page is mapped at no other, and where it
\* is still mapped the TLB holds that very entry.
CachedPrivate ==
  \A p, q \in Pages :
    tlb[p] # Unmapped /\ map[q] # Unmapped /\ map[q].f = tlb[p].f => p = q /\ map[q] = tlb[p]

\* The inductive invariant.
IInv == MemTypeOK /\ HandedOut /\ FramesNotShared /\ CachedPrivate

\* A quotient of a natural number is one.
LEMMA DivNat ==
  ASSUME NEW a \in Nat, NEW b \in Nat \ {0}
  PROVE  a \div b \in Nat
<1>1. a \div b \in Int
  OBVIOUS
<1> QED BY <1>1

\* The number of granules of a request.
LEMMA GranulesNat ==
  ASSUME NEW size \in Nat
  PROVE  granules(size) \in Nat /\ PAGE_ALIGN(size) \in Nat
<1>1. PAGE_SIZE \in Nat \ {0}
  BY UserMemAssumption
<1>2. size + PAGE_SIZE - 1 \in Nat
  BY <1>1
<1>3. (size + PAGE_SIZE - 1) \div PAGE_SIZE \in Nat
  BY <1>1, <1>2, DivNat
<1>4. PAGE_ALIGN(size) \in Nat
  BY <1>1, <1>3 DEF PAGE_ALIGN
<1> QED BY <1>1, <1>4, DivNat DEF granules

LEMMA PagesInt == Pages \subseteq Int
  BY UserMemAssumption DEF Pages

LEMMA InitInv == Init => IInv
<1> SUFFICES ASSUME Init PROVE IInv
  OBVIOUS
<1>1. MemTypeOK
  BY UserMemAssumption DEF Init, MemTypeOK
<1> QED BY <1>1, UserMemAssumption DEF Init, IInv, HandedOut, FramesNotShared, CachedPrivate

\* as_map of granules that nobody has had replaces entries by entries to new granules,
\* each at one page.
LEMMA MapKeeps ==
  ASSUME IInv, NEW v \in Int, NEW size \in Nat, NEW g \in Nat, NEW prot,
         used <= g, g + granules(size) <= NGRANULES,
         map' = as_map(v, size, g, prot), used' = g + granules(size), tlb' = tlb,
         brk' \in Nat, vmas' \in Seq(Area)
  PROVE  IInv'
<1> DEFINE first == v \div PAGE_SIZE
<1> DEFINE new == {p \in Pages : p \in first .. first + granules(size) - 1}
<1>0. /\ first \in Int /\ granules(size) \in Nat /\ NGRANULES \in Nat /\ Pages \subseteq Int
      /\ used \in Nat
  BY UserMemAssumption, GranulesNat, PagesInt DEF IInv, MemTypeOK
<1>1. \A p \in Pages :
        /\ p \in new => /\ map'[p] \in Entry /\ map'[p].f = g + (p - first)
                        /\ map'[p].f \in g .. g + granules(size) - 1
        /\ p \notin new => map'[p] = map[p]
  <2> SUFFICES ASSUME NEW p \in Pages
               PROVE  /\ p \in new => /\ map'[p] \in Entry /\ map'[p].f = g + (p - first)
                                      /\ map'[p].f \in g .. g + granules(size) - 1
                      /\ p \notin new => map'[p] = map[p]
    OBVIOUS
  <2>1. map'[p] = IF p \in first .. first + granules(size) - 1
                  THEN as_map_entry(g + (p - first), prot) ELSE map[p]
    BY DEF as_map
  <2>2. CASE p \in new
    <3>1. map'[p] = as_map_entry(g + (p - first), prot)
      BY <2>1, <2>2
    <3>2. p \in Int /\ g \in Int /\ p >= first /\ p <= first + granules(size) - 1
      BY <1>0, <2>2
    <3> HIDE DEF first
    <3>3. g + (p - first) \in g .. g + granules(size) - 1 /\ g + (p - first) \in Int
      BY ONLY <1>0, <3>2
    <3> QED BY <2>2, <3>1, <3>3 DEF as_map_entry, Entry
  <2>3. CASE p \notin new
    BY <2>1, <2>3
  <2> QED BY <2>2, <2>3
<1>2. map' \in [Pages -> Entry \cup {Unmapped}]
  <2>1. \A p \in Pages : map'[p] \in Entry \cup {Unmapped}
    BY <1>1 DEF IInv, MemTypeOK
  <2>2. map' = [p \in Pages |-> map'[p]]
    BY DEF as_map
  <2> QED BY <2>1, <2>2
<1> HIDE DEF first, new
<1> DEFINE n == granules(size)
<1>7. /\ \A p \in Pages : p \in new => map'[p].f \in Int /\ map'[p].f >= g /\ map'[p].f < g + n
      /\ \A p, q \in Pages : p \in new /\ q \in new /\ map'[p].f = map'[q].f => p = q
  <2>1. ASSUME NEW p \in Pages, p \in new
        PROVE  /\ map'[p].f \in Int /\ map'[p].f >= g /\ map'[p].f < g + n
               /\ map'[p].f = g + (p - first) /\ p \in Int
    <3>1. map'[p].f = g + (p - first) /\ map'[p].f \in g .. g + n - 1 /\ p \in Int /\ g \in Int
      BY <1>0, <1>1, <2>1
    <3>2. n \in Int
      BY <1>0
    <3> HIDE DEF n
    <3> QED BY ONLY <3>1, <3>2
  <2>2. ASSUME NEW p \in Pages, NEW q \in Pages, p \in new, q \in new, map'[p].f = map'[q].f
        PROVE  p = q
    <3>1. g + (p - first) = g + (q - first) /\ p \in Int /\ q \in Int
      BY <2>1, <2>2
    <3> QED BY <1>0, <3>1
  <2> QED BY <2>1, <2>2
<1>8. \A p \in Pages :
        /\ map[p] # Unmapped => map[p].f \in Int /\ map[p].f >= 0 /\ map[p].f < used
        /\ tlb[p] # Unmapped => tlb[p].f \in Int /\ tlb[p].f >= 0 /\ tlb[p].f < used
  <2>1. used \in Int /\ \A x \in 0 .. used - 1 : x \in Int /\ x >= 0 /\ x < used
    BY ONLY <1>0
  <2>2. HandedOut
    BY DEF IInv
  <2> QED BY ONLY <2>1, <2>2 DEF HandedOut
<1>9. n \in Nat /\ used \in Nat /\ g \in Nat /\ used <= g /\ used' = g + n /\ tlb' = tlb
  BY <1>0
<1> HIDE DEF n
<1>10. \A p \in Pages : p \notin new => map'[p] = map[p]
  BY <1>1
<1>3. MemTypeOK'
  BY <1>0, <1>2 DEF IInv, MemTypeOK
<1>4. HandedOut'
  <2> SUFFICES ASSUME NEW p \in Pages
               PROVE  /\ map'[p] # Unmapped => map'[p].f \in 0 .. used' - 1
                      /\ tlb[p] # Unmapped => tlb[p].f \in 0 .. used' - 1
    BY <1>9 DEF HandedOut
  <2>1. CASE p \in new
    BY ONLY <1>7, <1>8, <1>9, <2>1
  <2>2. CASE p \notin new
    BY ONLY <1>8, <1>9, <1>10, <2>2
  <2> QED BY <2>1, <2>2
<1>5. FramesNotShared'
  <2> SUFFICES ASSUME NEW p \in Pages, NEW q \in Pages, map'[p] # Unmapped, map'[q] # Unmapped,
                      map'[p].f = map'[q].f
               PROVE  p = q
    BY <1>0 DEF FramesNotShared
  <2>1. CASE p \in new /\ q \in new
    BY <1>7, <2>1
  <2>2. CASE p \in new /\ q \notin new
    BY <1>7, <1>8, <1>9, <1>10, <2>2
  <2>3. CASE p \notin new /\ q \in new
    BY <1>7, <1>8, <1>9, <1>10, <2>3
  <2>4. CASE p \notin new /\ q \notin new
    BY <1>10, <2>4 DEF IInv, FramesNotShared
  <2> QED BY <2>1, <2>2, <2>3, <2>4
<1>6. CachedPrivate'
  <2> SUFFICES ASSUME NEW p \in Pages, NEW q \in Pages, tlb[p] # Unmapped, map'[q] # Unmapped,
                      map'[q].f = tlb[p].f
               PROVE  p = q /\ map'[q] = tlb[p]
    BY DEF CachedPrivate
  <2>1. CASE q \in new
    BY <1>7, <1>8, <1>9, <2>1
  <2>2. CASE q \notin new
    BY <1>10, <2>2 DEF IInv, CachedPrivate
  <2> QED BY <2>1, <2>2
<1> QED BY <1>3, <1>4, <1>5, <1>6 DEF IInv

\* Steps that hand out granules without mapping them, or change no memory.
LEMMA QuietKeeps ==
  ASSUME IInv, map' = map, tlb' = tlb, used' \in used .. NGRANULES, brk' \in Nat, vmas' \in Seq(Area)
  PROVE  IInv'
<1>1. used \in Nat /\ NGRANULES \in Nat
  BY UserMemAssumption DEF IInv, MemTypeOK
<1>2. MemTypeOK' /\ HandedOut'
  BY <1>1 DEF IInv, MemTypeOK, HandedOut
<1> QED BY <1>1, <1>2 DEF IInv, FramesNotShared, CachedPrivate

LEMMA BrkKeeps ==
  ASSUME IInv, NEW b \in Breaks, sys_brk_moves(b) \/ sys_brk_grows(b)
  PROVE  IInv'
<1>0. /\ b \in Nat /\ brk \in Nat /\ vmas \in Seq(Area) /\ used \in 0 .. NGRANULES
      /\ NGRANULES \in Nat
  BY UserMemAssumption DEF IInv, MemTypeOK
<1>1. CASE sys_brk_moves(b)
  BY <1>0, <1>1, QuietKeeps DEF sys_brk_moves
<1>2. CASE sys_brk_grows(b)
  <2> DEFINE size == to_int(b - brk)
  <2>1. size \in Int /\ size > 0
    BY <1>0, <1>2, UserMemAssumption DEF sys_brk_grows, to_int
  <2>2. granules(size) \in Nat
    BY <2>1, GranulesNat
  <2>3. CASE calloc_stops(size, used) = "no"
    <3>1. used + granules(size) <= NGRANULES
      BY <1>0, <2>2, <2>3, UserMemAssumption DEF calloc_stops
    <3>2. CASE pt_map_stops(brk) = "no"
      <4>1. /\ map' = as_map(brk, size, used, {"R", "W"}) /\ used' = used + granules(size)
            /\ tlb' = tlb /\ vmas' = vmas /\ brk' = b
        BY <1>2, <2>3, <3>2 DEF sys_brk_grows
      <4> HIDE DEF size
      <4> QED BY <1>0, <2>1, <3>1, <4>1, MapKeeps
    <3>3. CASE pt_map_stops(brk) # "no"
      <4>1. map' = map /\ tlb' = tlb /\ vmas' = vmas /\ brk' = brk /\ used' = used + granules(size)
        BY <1>2, <2>3, <3>3 DEF sys_brk_grows
      <4> HIDE DEF size
      <4> QED BY <1>0, <2>2, <3>1, <4>1, QuietKeeps
    <3> QED BY <3>2, <3>3
  <2>4. CASE calloc_stops(size, used) # "no"
    <3>1. map' = map /\ tlb' = tlb /\ vmas' = vmas /\ brk' = brk /\ used' = used
      BY <1>2, <2>4 DEF sys_brk_grows
    <3> QED BY <1>0, <3>1, QuietKeeps
  <2> QED BY <2>3, <2>4
<1> QED BY <1>1, <1>2

LEMMA MmapKeeps ==
  ASSUME IInv, NEW h \in Hints, NEW l \in Lengths, NEW prot \in Prots, sys_mmap(h, l, prot)
  PROVE  IInv'
<1> DEFINE len == PAGE_ALIGN(l)
<1> DEFINE addr == IF h = 0 THEN find_free_vma(len) ELSE PAGE_ALIGN(h)
<1> DEFINE vma == [vm_start |-> addr, vm_end |-> addr + len, vm_prot |-> prot, found |-> h = 0]
<1>0. /\ h \in Nat /\ l \in Nat /\ brk \in Nat /\ used \in 0 .. NGRANULES /\ NGRANULES \in Nat
      /\ vmas \in Seq(Area) /\ mmap_base \in Nat
  BY UserMemAssumption DEF IInv, MemTypeOK
<1>1. len \in Nat /\ granules(len) \in Nat /\ granules(1) \in Nat /\ PAGE_ALIGN(h) \in Nat
  BY <1>0, GranulesNat
<1>2. addr \in Int
  <2>1. vmas # << >> => Head(vmas) \in Area
    BY <1>0, HeadTailProperties
  <2>2. find_free_vma(len) \in Int
    <3>1. vmas # << >> => Head(vmas).vm_start \in Int
      BY <2>1 DEF Area
    <3> HIDE DEF len
    <3> QED BY <1>0, <1>1, <3>1 DEF find_free_vma
  <2> QED BY <1>1, <2>2
<1>3. vma \in Area
  <2> HIDE DEF addr, len
  <2>1. addr + len \in Int
    BY <1>1, <1>2
  <2> QED BY <1>2, <2>1 DEF Area
<1>4. <<vma>> \o vmas \in Seq(Area)
  <2> HIDE DEF vma
  <2>1. <<vma>> \in Seq(Area)
    BY <1>3
  <2> QED BY <1>0, <2>1, ConcatProperties
<1>5. CASE calloc_stops(1, used) # "no"
  <2>1. map' = map /\ tlb' = tlb /\ vmas' = vmas /\ brk' = brk /\ used' = used
    BY <1>5 DEF sys_mmap
  <2> QED BY <1>0, <2>1, QuietKeeps
<1>6. CASE calloc_stops(1, used) = "no"
  <2>1. vmas' = <<vma>> \o vmas /\ brk' = brk /\ tlb' = tlb
    BY <1>6 DEF sys_mmap
  <2>2. used + 1 <= NGRANULES
    <3>1. granules(1) = 1
      <4>1. PAGE_SIZE \in Nat \ {0}
        BY UserMemAssumption
      <4>2. PAGE_ALIGN(1) = PAGE_SIZE
        BY <4>1 DEF PAGE_ALIGN
      <4> QED BY <4>1, <4>2 DEF granules
    <3> QED BY <1>0, <1>6, <3>1, UserMemAssumption DEF calloc_stops
  <2>3. CASE calloc_stops(len, used + 1) = "no"
    <3>1. used + 1 + granules(len) <= NGRANULES
      BY <1>0, <1>1, <2>3, UserMemAssumption DEF calloc_stops
    <3>2. map' = as_map(addr, len, used + 1, prot) /\ used' = used + 1 + granules(len)
      BY <1>6, <2>3 DEF sys_mmap
    <3>3. vmas' \in Seq(Area) /\ brk' \in Nat /\ used + 1 \in Nat /\ used <= used + 1
      BY <1>0, <1>4, <2>1
    <3> HIDE DEF addr, len, vma
    <3> QED BY <1>1, <1>2, <2>1, <3>1, <3>2, <3>3, MapKeeps
  <2>4. CASE calloc_stops(len, used + 1) # "no"
    <3>1. map' = map /\ used' = used + 1
      BY <1>6, <2>4 DEF sys_mmap
    <3>2. vmas' \in Seq(Area) /\ brk' \in Nat /\ used' \in used .. NGRANULES
      BY <1>0, <1>4, <2>1, <2>2, <3>1
    <3> QED BY <2>1, <3>1, <3>2, QuietKeeps
  <2> QED BY <2>3, <2>4
<1> QED BY <1>5, <1>6

\* The TLB takes what is mapped, and may lose it.
LEMMA TlbKeeps == ASSUME IInv, NEW p \in Pages, walk(p) \/ evict(p) PROVE IInv'
<1>1. CASE walk(p)
  <2> USE <1>1 DEF walk
  <2>1. MemTypeOK' /\ HandedOut' /\ FramesNotShared'
    BY DEF IInv, MemTypeOK, HandedOut, FramesNotShared
  <2>2. CachedPrivate'
    BY DEF IInv, MemTypeOK, CachedPrivate, FramesNotShared
  <2> QED BY <2>1, <2>2 DEF IInv
<1>2. CASE evict(p)
  BY <1>2 DEF evict, IInv, MemTypeOK, HandedOut, FramesNotShared, CachedPrivate
<1> QED BY <1>1, <1>2

LEMMA NextInv == IInv /\ [Next]_vars => IInv'
<1> SUFFICES ASSUME IInv, [Next]_vars PROVE IInv'
  OBVIOUS
<1>1. ASSUME UNCHANGED <<brk, vmas, map, used, tlb>> PROVE IInv'
  BY <1>1 DEF IInv, MemTypeOK, HandedOut, FramesNotShared, CachedPrivate
<1>2. CASE UNCHANGED vars
  BY <1>1, <1>2 DEF vars
<1>3. CASE no_effect
  BY <1>1, <1>3 DEF no_effect, vars
<1>4. ASSUME NEW p \in Pages, do_page_fault(p) PROVE IInv'
  BY <1>1, <1>4 DEF do_page_fault
<1> QED BY <1>2, <1>3, <1>4, BrkKeeps, MmapKeeps, TlbKeeps DEF Next

\* Whatever a program passes to brk and mmap, and however its accesses fill the TLB in
\* between: no granule is ever mapped at two pages, and a translation that pt_map has
\* replaced without a flush still leads to a granule that nothing else maps.
THEOREM GranulesPrivate == Spec => [](FramesNotShared /\ CachedPrivate)
<1>1. IInv => FramesNotShared /\ CachedPrivate
  BY DEF IInv
<1> QED BY <1>1, InitInv, NextInv, PTL DEF Spec
=============================================================================

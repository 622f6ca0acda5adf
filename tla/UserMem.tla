------------------------------ MODULE UserMem ------------------------------
(***************************************************************************)
(* mmap.c, fault.c and addrspace.c's as_map: the memory of a user task     *)
(* under brk, mmap and its own accesses.                                   *)
(*                                                                         *)
(* Addresses are numbers with PAGE_SIZE of them to a page.  The page table *)
(* is the map PageTable implements; its own granules are not counted.      *)
(* Nothing here ever frees a granule, so gran_alloc's blocks follow one    *)
(* another.  A kernel assertion, k_memset of a NULL block and PANIC all    *)
(* stop the system; stop says which.                                       *)
(***************************************************************************)
EXTENDS Integers, Sequences

CONSTANTS
  PAGE_SIZE,
  start_brk,     \* mm->start_brk, page aligned by populate_segments
  mmap_base,     \* mm->mmap_base, the bottom of the stack
  NGRANULES,     \* granules left in the heap
  MAX_GRANULES,  \* what gran_alloc accepts: 32 in the code
  INT_MAX_1,     \* INT_MAX + 1
  Breaks,        \* arguments of brk
  Hints,         \* start arguments of mmap, 0 for none
  Lengths,       \* len arguments of mmap
  Prots,         \* prot arguments of mmap, subsets of {"R", "W", "X"}
  Unmapped

ASSUME UserMemAssumption ==
  /\ PAGE_SIZE \in Nat \ {0}
  /\ start_brk \in Nat /\ start_brk % PAGE_SIZE = 0
  /\ mmap_base \in Nat /\ mmap_base % PAGE_SIZE = 0
  /\ NGRANULES \in Nat
  /\ start_brk + NGRANULES * PAGE_SIZE < mmap_base
  /\ MAX_GRANULES \in Nat \ {0}
  /\ INT_MAX_1 \in Nat /\ MAX_GRANULES * PAGE_SIZE < INT_MAX_1
  /\ Breaks \subseteq Nat /\ Hints \subseteq Nat /\ Lengths \subseteq Nat
  /\ \A b \in Breaks : b < mmap_base
  /\ \A h \in Hints, l \in Lengths : h + l < mmap_base
  /\ Prots \subseteq SUBSET {"R", "W", "X"}

Pages == 0 .. mmap_base \div PAGE_SIZE - 1

VARIABLES
  brk,    \* mm->brk
  vmas,   \* mm->link_head, the newest first: [vm_start, vm_end, vm_prot] and
          \* whether find_free_vma chose the place
  map,    \* page table: page -> [f, writable, executable] or Unmapped
  used,   \* granules handed out by gran_alloc
  tlb,    \* what the MMU holds for the task's ASID
  stop    \* "no", or what stopped the system

vars == <<brk, vmas, map, used, tlb, stop>>

Init ==
  /\ brk = start_brk
  /\ vmas = << >>
  /\ map = [p \in Pages |-> Unmapped]
  /\ used = 0
  /\ tlb = [p \in Pages |-> Unmapped]
  /\ stop = "no"

-----------------------------------------------------------------------------
PAGE_ALIGN(a) == ((a + PAGE_SIZE - 1) \div PAGE_SIZE) * PAGE_SIZE
granules(size) == PAGE_ALIGN(size) \div PAGE_SIZE

\* The conversion of an unsigned long to int.
to_int(x) == ((x + INT_MAX_1) % (2 * INT_MAX_1)) - INT_MAX_1

\* as_map's attributes: PTE_RDONLY is set for PROT_READ and cleared again for
\* PROT_WRITE, PTE_UXN is cleared for PROT_EXEC.  Every page is readable, and
\* without PROT_READ writable.
as_map_entry(f, prot) ==
  [f |-> f,
   writable |-> ~("R" \in prot /\ "W" \notin prot),
   executable |-> "X" \in prot]

\* Mutant: one page too many.
as_map_beyond(v, size, f, prot) ==
  LET first == v \div PAGE_SIZE
  IN  [p \in Pages |-> IF p \in first .. first + granules(size)
                       THEN as_map_entry(f + (p - first), prot)
                       ELSE map[p]]

\* as_map of [v, v + size) to the granules from f on.
as_map(v, size, f, prot) ==
  LET first == v \div PAGE_SIZE
  IN  [p \in Pages |-> IF p \in first .. first + granules(size) - 1
                       THEN as_map_entry(f + (p - first), prot)
                       ELSE map[p]]

\* Why mmap_calloc followed by as_map at v would stop the kernel, if it would.
calloc_stops(size, taken) ==
  IF granules(size) > MAX_GRANULES THEN "gran_alloc assertion"
  ELSE IF taken + granules(size) > NGRANULES THEN "no memory"
  ELSE "no"

pt_map_stops(v) == IF v % PAGE_SIZE # 0 THEN "pt_map assertion" ELSE "no"

-----------------------------------------------------------------------------
\* Mutant: a lowered break gives its pages back, without a TLB flush.
sys_brk_moves_frees(b) ==
  /\ stop = "no"
  /\ b >= start_brk
  /\ to_int(b - brk) <= 0
  /\ brk' = b
  /\ map' = IF vmas # << >> THEN map
            ELSE [p \in Pages |-> IF p * PAGE_SIZE >= b THEN Unmapped ELSE map[p]]
  /\ used' = IF vmas # << >> THEN used ELSE used - granules(brk - b)
  /\ UNCHANGED <<vmas, tlb, stop>>

\* sys_brk that moves the break without mapping: not above the old one, or so
\* far above it that the int is negative.
sys_brk_moves(b) ==
  /\ stop = "no"
  /\ b >= start_brk
  /\ to_int(b - brk) <= 0
  /\ brk' = b
  /\ UNCHANGED <<vmas, map, used, tlb, stop>>

\* Mutant: the new part of the heap is mapped after the break was moved.
sys_brk_grows_late(b) ==
  LET heap_size == to_int(b - brk)
  IN  /\ stop = "no"
      /\ b >= start_brk
      /\ heap_size > 0
      /\ calloc_stops(heap_size, used) = "no"
      /\ brk' = b
      /\ map' = as_map(b, heap_size, used, {"R", "W"})
      /\ used' = used + granules(heap_size)
      /\ UNCHANGED <<vmas, tlb, stop>>

\* sys_brk that maps the new part of the heap at the old break.
sys_brk_grows(b) ==
  LET heap_size == to_int(b - brk)
      stops == IF calloc_stops(heap_size, used) # "no" THEN calloc_stops(heap_size, used)
               ELSE pt_map_stops(brk)
  IN  /\ stop = "no"
      /\ b >= start_brk
      /\ heap_size > 0
      /\ stop' = stops
      /\ brk' = IF stops = "no" THEN b ELSE brk
      /\ map' = IF stops = "no" THEN as_map(brk, heap_size, used, {"R", "W"}) ELSE map
      /\ used' = IF calloc_stops(heap_size, used) = "no" THEN used + granules(heap_size)
                 ELSE used
      /\ UNCHANGED <<vmas, tlb>>

\* Mutant: the list is not looked at.
find_free_vma_base(len) == mmap_base - len

\* Where do_mmap puts an area without a hint: below the first of the list.
find_free_vma(len) ==
  IF vmas = << >> THEN mmap_base - len ELSE Head(vmas).vm_start - len

\* sys_mmap and do_mmap with valid flags: the area's descriptor takes a
\* granule, is listed, and then its memory is allocated and mapped.
sys_mmap(start, length, prot) ==
  LET len == PAGE_ALIGN(length)
      addr == IF start = 0 THEN find_free_vma(len) ELSE PAGE_ALIGN(start)
      vma == [vm_start |-> addr, vm_end |-> addr + len, vm_prot |-> prot,
              found |-> start = 0]
      region == used + 1
      stops == calloc_stops(len, region)
  IN  /\ stop = "no"
      /\ length # 0
      /\ IF calloc_stops(1, used) # "no"
         THEN /\ stop' = calloc_stops(1, used)
              /\ UNCHANGED <<vmas, map, used>>
         ELSE /\ vmas' = <<vma>> \o vmas
              /\ stop' = stops
              /\ map' = IF stops = "no" THEN as_map(addr, len, region, prot) ELSE map
              /\ used' = IF stops = "no" THEN region + granules(len) ELSE region
      /\ UNCHANGED <<brk, tlb>>

\* Calls that return without a change: brk below start_brk, mmap with len 0 or
\* flags that are neither private nor shared, and every munmap.
no_effect == stop = "no" /\ UNCHANGED vars

\* An access by the program, or a speculative one: the MMU walks the table
\* and keeps what it finds.
walk(p) ==
  /\ stop = "no"
  /\ map[p] # Unmapped
  /\ tlb[p] = Unmapped
  /\ tlb' = [tlb EXCEPT ![p] = map[p]]
  /\ UNCHANGED <<brk, vmas, map, used, stop>>

\* The TLB may drop an entry at any time.
evict(p) ==
  /\ stop = "no"
  /\ tlb[p] # Unmapped
  /\ tlb' = [tlb EXCEPT ![p] = Unmapped]
  /\ UNCHANGED <<brk, vmas, map, used, stop>>

in_heap(p) == start_brk <= p * PAGE_SIZE /\ p * PAGE_SIZE < brk

\* do_page_fault outside the heap returns to lel_sync_traps' PANIC.  Inside
\* the heap it reschedules and the access is made again: no change.
do_page_fault(p) ==
  /\ stop = "no"
  /\ map[p] = Unmapped
  /\ tlb[p] = Unmapped
  /\ ~in_heap(p)
  /\ stop' = "panic"
  /\ UNCHANGED <<brk, vmas, map, used, tlb>>

Next ==
  \/ \E b \in Breaks : sys_brk_moves(b) \/ sys_brk_grows(b)
  \/ \E h \in Hints, l \in Lengths, prot \in Prots : sys_mmap(h, l, prot)
  \/ no_effect
  \/ \E p \in Pages : walk(p) \/ evict(p) \/ do_page_fault(p)

Spec == Init /\ [][Next]_vars

-----------------------------------------------------------------------------
\* Types of the variables; granules are never handed out beyond the heap.
TypeOK ==
  /\ brk \in Nat
  /\ \A i \in DOMAIN vmas : /\ vmas[i].vm_start \in Nat
                            /\ vmas[i].vm_end \in Nat
                            /\ vmas[i].vm_prot \in Prots
  /\ used \in 0 .. NGRANULES
  /\ \A p \in Pages : /\ map[p] = Unmapped \/ map[p].f \in 0 .. used - 1
                      /\ tlb[p] = Unmapped \/ tlb[p].f \in 0 .. NGRANULES - 1
  /\ stop \in {"no", "gran_alloc assertion", "no memory", "pt_map assertion", "panic"}

\* Every page below the break is mapped and writable, however brk went up and
\* down and with areas mapped in between.  An access to the heap therefore
\* never faults, and do_page_fault's endless retry is never taken.
HeapMapped ==
  \A p \in Pages : in_heap(p) => map[p] # Unmapped /\ map[p].writable

\* No granule is reachable from two pages, nor one the heap does not have: brk that maps part of the heap
\* again uses new granules, and an area's memory is not its descriptor's.
FramesNotShared ==
  /\ used <= NGRANULES
  /\ \A p, q \in Pages : /\ map[p] # Unmapped /\ map[q] # Unmapped
                         /\ map[p].f = map[q].f
                         => p = q

\* Areas do not overlap each other, the heap or the stack.
AreasDisjoint ==
  \A i \in DOMAIN vmas :
    /\ vmas[i].vm_end <= mmap_base
    /\ brk <= vmas[i].vm_start
    /\ \A j \in DOMAIN vmas \ {i} : \/ vmas[i].vm_end <= vmas[j].vm_start
                                    \/ vmas[j].vm_end <= vmas[i].vm_start

\* Memory is handed out once: as addresses to one area, the heap or the stack,
\* and as granules to one page.
MemoryDisjoint == FramesNotShared /\ AreasDisjoint

\* do_mmap's comment: find_free_vma finds a suitable place, that is one above
\* the program and its heap's start that no area listed before has taken.
FoundAreaIsFree ==
  \A i \in DOMAIN vmas : vmas[i].found =>
    /\ start_brk <= vmas[i].vm_start
    /\ \A j \in DOMAIN vmas : i < j => \/ vmas[i].vm_end <= vmas[j].vm_start
                                     \/ vmas[j].vm_end <= vmas[i].vm_start

in_area(p, i) == p * PAGE_SIZE \in vmas[i].vm_start .. vmas[i].vm_end - 1

\* The pages of the areas are mapped.
AreasMapped == stop = "no" => \A i \in DOMAIN vmas, p \in Pages : in_area(p, i) => map[p] # Unmapped

\* What the program may use: the heap and its areas.
held(p) == in_heap(p) \/ \E i \in DOMAIN vmas : in_area(p, i)

\* What the program holds is mapped, and as long as it holds a page no call
\* changes the granule behind it or the access to it: not a break that falls
\* and rises elsewhere, nor an area placed next to it, whatever its access.
MemoryKept ==
  /\ [](HeapMapped /\ AreasMapped)
  /\ [][\A p \in Pages : held(p) /\ held(p)' => map'[p] = map[p]]_vars

\* The access to an area is the one mmap was asked for, which sys_dumpvma lists.
AreaAccessAsAsked ==
  stop = "no" =>
    \A i \in DOMAIN vmas, p \in Pages : in_area(p, i) =>
      /\ map[p].writable <=> "W" \in vmas[i].vm_prot
      /\ map[p].executable <=> "X" \in vmas[i].vm_prot

\* pt_map writes over live entries without a TLB flush when the break falls and
\* rises again.  A cached translation that is out of date is nevertheless
\* harmless to the rest: it is never of a page of an area, and its granule is
\* not mapped anywhere else.
StaleTlbIsPrivate ==
  \A p \in Pages :
    tlb[p] \notin {Unmapped, map[p]} =>
      /\ \A i \in DOMAIN vmas : ~ in_area(p, i)
      /\ \A q \in Pages : map[q] # Unmapped => map[q].f # tlb[p].f

\* pt_map's assertion that the address it maps is page aligned.
MappingsAligned == stop # "pt_map assertion"
============================================================================

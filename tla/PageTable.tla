----------------------------- MODULE PageTable -----------------------------
(***************************************************************************)
(* pagetable.c: pt_map, pmd_map and pte_map with the three levels of the   *)
(* build (PGD, PMD, PTE), and addrspace.c's pt_calloc.                     *)
(*                                                                         *)
(* Addresses are page numbers; a table has PTRS entries and a section is   *)
(* PTRS pages.  pmd_map's loop turns once per PMD entry; one turn is one   *)
(* action here, preceded by an action for each table it has to allocate.   *)
(* A table just allocated holds old data until k_memset clears it.         *)
(***************************************************************************)
EXTENDS Integers, FiniteSets

CONSTANTS
  PTRS,       \* PTRS_PER_PMD, PTRS_PER_PTE
  PTRS_PGD,   \* PTRS_PER_PGD
  Tables,     \* granules the heap can give to tables
  Spaces,     \* for each page table the calls of pt_map made on it, [v, p, n, attr]
  Attrs,
  Unmapped

ASSUME PageTableAssumption ==
  /\ PTRS \in Nat /\ PTRS >= 2
  /\ PTRS_PGD \in Nat \ {0}
  /\ IsFiniteSet(Tables)
  /\ \A r \in UNION Spaces : /\ r.v \in Nat /\ r.p \in Nat
                             /\ r.n \in Nat \ {0}
                             /\ r.attr \in Attrs
                             /\ r.v + r.n <= PTRS_PGD * PTRS * PTRS

Requests == UNION Spaces
Pages == 0 .. PTRS_PGD * PTRS * PTRS - 1
Slots == 0 .. PTRS - 1

None == [kind |-> "none"]
TableAt(t) == [kind |-> "table", t |-> t]
Sect(p, attr) == [kind |-> "sect", p |-> p, attr |-> attr]
Page(p, attr) == [kind |-> "page", p |-> p, attr |-> attr]

VARIABLES
  pgd,      \* the PGD: each entry None or a PMD table
  mem,      \* contents of the granules used, or to be used, as tables
  free,     \* granules not allocated yet
  issued,   \* calls made so far
  area,     \* the rest of the call in progress: vaddr, paddr, pages to end
  halted,   \* an allocation failed: k_memset or the assert stopped the kernel
  wild      \* pte_map wrote entries into a section it took for a table

vars == <<pgd, mem, free, issued, area, halted, wild>>

Garbage == Page(0, CHOOSE a \in Attrs : TRUE)

Init ==
  /\ pgd = [i \in 0 .. PTRS_PGD - 1 |-> None]
  /\ mem = [t \in Tables |-> [i \in Slots |-> Garbage]]
  /\ free = Tables
  /\ issued = {}
  /\ area = {}
  /\ halted = FALSE
  /\ wild = FALSE

-----------------------------------------------------------------------------
pgd_index(v) == v \div (PTRS * PTRS)
pmd_index(v) == (v \div PTRS) % PTRS
pte_index(v) == v % PTRS

\* Pages from a's address to the end of its PMD entry or of the area.
step(a) ==
  LET next == (a.v \div PTRS + 1) * PTRS
  IN  (IF next < a.v + a.n THEN next ELSE a.v + a.n) - a.v

\* Mutant: the end of the step is left out of the test.
section_aligned_start(a) == a.v % PTRS = 0 /\ a.p % PTRS = 0

\* (vaddr | next | paddr) has no bit below the section size.
section_aligned(a) ==
  /\ a.v % PTRS = 0
  /\ (a.v + step(a)) % PTRS = 0
  /\ a.p % PTRS = 0

advance(a) ==
  IF step(a) = a.n THEN {}
  ELSE {[a EXCEPT !.v = @ + step(a), !.p = @ + step(a), !.n = @ - step(a)]}

\* The PMD entry that covers v, when its PMD table exists.
pmd_entry(v) == mem[pgd[pgd_index(v)].t][pmd_index(v)]

has_pmd(v) == pgd[pgd_index(v)] # None

\* Mutant: the table is not cleared.
pt_alloc_dirty(t) == mem

pt_calloc(t) == [mem EXCEPT ![t] = [i \in Slots |-> None]]

-----------------------------------------------------------------------------
\* The next call on this page table.
pt_map(r) ==
  /\ ~halted
  /\ area = {}
  /\ r \notin issued
  /\ \E space \in Spaces : issued \cup {r} \subseteq space
  /\ issued' = issued \cup {r}
  /\ area' = {r}
  /\ UNCHANGED <<pgd, mem, free, halted, wild>>

\* pmd_map: no PMD table under this PGD entry.
alloc_pmd(a) ==
  /\ ~halted
  /\ ~has_pmd(a.v)
  /\ free # {}
  /\ LET t == CHOOSE t \in free : TRUE
     IN  /\ mem' = pt_calloc(t)
         /\ pgd' = [pgd EXCEPT ![pgd_index(a.v)] = TableAt(t)]
         /\ free' = free \ {t}
  /\ UNCHANGED <<issued, area, halted, wild>>

\* pte_map: no PTE table under this PMD entry.
alloc_pte(a) ==
  /\ ~halted
  /\ has_pmd(a.v)
  /\ ~section_aligned(a)
  /\ pmd_entry(a.v) = None
  /\ free # {}
  /\ LET t == CHOOSE t \in free : TRUE
         new == pt_calloc(t)
     IN  /\ mem' = [new EXCEPT ![pgd[pgd_index(a.v)].t][pmd_index(a.v)] = TableAt(t)]
         /\ free' = free \ {t}
  /\ UNCHANGED <<pgd, issued, area, halted, wild>>

alloc_fails(a) ==
  /\ ~halted
  /\ free = {}
  /\ \/ ~has_pmd(a.v)
     \/ ~section_aligned(a) /\ pmd_entry(a.v) = None
  /\ halted' = TRUE
  /\ UNCHANGED <<pgd, mem, free, issued, area, wild>>

map_section(a) ==
  /\ ~halted
  /\ has_pmd(a.v)
  /\ section_aligned(a)
  /\ mem' = [mem EXCEPT ![pgd[pgd_index(a.v)].t][pmd_index(a.v)] =
               Sect((a.p \div PTRS) * PTRS, a.attr)]
  /\ area' = advance(a)
  /\ UNCHANGED <<pgd, free, issued, halted, wild>>

\* pte_map's loop up to next.  It tests only that the PMD entry is not zero:
\* under a section it would take the section's memory for the PTE table.
map_pages(a) ==
  /\ ~halted
  /\ has_pmd(a.v)
  /\ ~section_aligned(a)
  /\ pmd_entry(a.v) # None
  /\ LET e == pmd_entry(a.v)
         first == pte_index(a.v)
     IN  /\ wild' = (wild \/ e.kind # "table")
         /\ mem' = IF e.kind # "table" THEN mem
                   ELSE [mem EXCEPT ![e.t] =
                           [i \in Slots |-> IF i \in first .. first + step(a) - 1
                                            THEN Page(a.p + (i - first), a.attr)
                                            ELSE @[i]]]
  /\ area' = advance(a)
  /\ UNCHANGED <<pgd, free, issued, halted>>

Work(a) ==
  \/ alloc_pmd(a)
  \/ alloc_pte(a)
  \/ alloc_fails(a)
  \/ map_section(a)
  \/ map_pages(a)

Next ==
  \/ \E r \in Requests : pt_map(r)
  \/ \E a \in area : Work(a)

\* The loops of one call run without interruption.
Spec == Init /\ [][Next]_vars /\ WF_vars(\E a \in area : Work(a))
-----------------------------------------------------------------------------
\* The state's types: tables, the rest of the area in progress, the flags.
TypeOK ==
  /\ \A i \in DOMAIN pgd : pgd[i] = None \/ \E t \in Tables : pgd[i] = TableAt(t)
  /\ \A t \in Tables : \A i \in Slots :
       \/ mem[t][i] \in {None} \cup {TableAt(u) : u \in Tables}
       \/ mem[t][i].kind \in {"sect", "page"} /\ mem[t][i].attr \in Attrs
  /\ free \subseteq Tables
  /\ issued \subseteq Requests
  /\ Cardinality(area) <= 1
  /\ \A a \in area : a.n > 0 /\ a.v \in Pages /\ a.v + a.n - 1 \in Pages

\* The MMU's walk of the three levels.
translate(v) ==
  IF ~has_pmd(v) THEN Unmapped
  ELSE LET e == pmd_entry(v)
       IN  CASE e.kind = "sect" -> [p |-> e.p + pte_index(v), attr |-> e.attr]
             [] e.kind = "table" /\ mem[e.t][pte_index(v)].kind = "page" ->
                  [p |-> mem[e.t][pte_index(v)].p, attr |-> mem[e.t][pte_index(v)].attr]
             [] OTHER -> Unmapped

\* The slots that refer to table t, in the PGD and in the PMD tables it names.
PmdTables == {pgd[i].t : i \in {j \in DOMAIN pgd : pgd[j] # None}}
RefsTo(t) ==
  {<<"pgd", i>> : i \in {j \in DOMAIN pgd : pgd[j] = TableAt(t)}}
  \cup {s \in PmdTables \X Slots : mem[s[1]][s[2]] = TableAt(t)}

\* Every table hangs from at most one entry and a free granule from none, so
\* that writing one entry never changes what another address reaches, however
\* pt_calloc's granules are interleaved between PMD and PTE tables.
TablesSeparate ==
  \A t \in Tables : /\ Cardinality(RefsTo(t)) <= 1
                    /\ t \in free => RefsTo(t) = {}

\* pte_map never takes a section for a PTE table, although nothing but the
\* shape of the areas the kernel maps keeps it from doing so.
NoWriteIntoSection == ~wild

\* Writing an entry of a table changes what one address reaches and nothing
\* else: tables are not shared, and no section is written as if it were one.
TablesIntact == TablesSeparate /\ NoWriteIntoSection

PM == INSTANCE PageMap WITH map <- [v \in Pages |-> translate(v)]

\* What the MMU reads from the tables is the abstract map at every step: a
\* call maps its pages to its frames with its attributes, in order, by sections
\* where it can, touches no other page, and ends.
MapsAsAsked == PM!FairSpec
============================================================================

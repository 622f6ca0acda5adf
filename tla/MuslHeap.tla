------------------------------ MODULE MuslHeap ------------------------------
(***************************************************************************)
(* mallocng on this kernel: the system calls by which alloc_meta and       *)
(* alloc_group get their memory, answered by UserMem.                      *)
(***************************************************************************)
EXTENDS UserMem

CONSTANTS
  Needed,   \* lengths alloc_group and malloc ask mmap for
  NSLOTS    \* metas of a meta area

VARIABLES
  ctx,  \* the fields of malloc_context: [brk, avail_meta_count]
  at    \* "ready", or where alloc_meta is: "brk", "brk guard" or "guard"

heapvars == <<vars, ctx, at>>

HeapInit ==
  /\ Init
  /\ ctx = [brk |-> 0, avail_meta_count |-> 0]
  /\ at = "ready"

\* alloc_meta without a meta left; the first time it asks brk(0) where the heap
\* starts and rounds the answer up.
alloc_meta_none ==
  /\ at = "ready" /\ ctx.avail_meta_count = 0
  /\ ctx' = IF ctx.brk = 0 THEN [ctx EXCEPT !.brk = PAGE_ALIGN(brk)] ELSE ctx
  /\ at' = IF ctx.brk = 0 THEN "brk guard" ELSE "brk"
  /\ no_effect

\* brk(new): one page for a meta area, two the first time.
alloc_meta_brk ==
  LET guard == at = "brk guard"
      new == ctx.brk + (IF guard THEN 2 ELSE 1) * PAGE_SIZE
  IN  /\ at \in {"brk", "brk guard"}
      /\ sys_brk_grows(new)
      /\ ctx' = IF guard THEN ctx
                ELSE [brk |-> new, avail_meta_count |-> NSLOTS]
      /\ at' = IF guard THEN "guard" ELSE "ready"

\* The guard page: MAP_FIXED with PROT_NONE over the first page of the heap.
alloc_meta_guard ==
  /\ at = "guard"
  /\ sys_mmap(ctx.brk, PAGE_SIZE, {})
  /\ ctx' = [brk |-> ctx.brk + 2 * PAGE_SIZE, avail_meta_count |-> NSLOTS]
  /\ at' = "ready"

\* alloc_group, and malloc from MMAP_THRESHOLD on: a meta and a mapping.
alloc_group(needed) ==
  /\ at = "ready" /\ ctx.avail_meta_count > 0
  /\ sys_mmap(0, needed, {"R", "W"})
  /\ ctx' = [ctx EXCEPT !.avail_meta_count = @ - 1]
  /\ UNCHANGED at

HeapNext ==
  \/ alloc_meta_none
  \/ alloc_meta_brk
  \/ alloc_meta_guard
  \/ \E needed \in Needed : alloc_group(needed)

HeapSpec == HeapInit /\ [][HeapNext]_heapvars
=============================================================================

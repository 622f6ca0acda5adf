------------------------------- MODULE Malloc -------------------------------
(***************************************************************************)
(* mallocng, musl's allocator, under several threads.  A meta describes a  *)
(* group of slots of one size class; avail_mask and freed_mask say which   *)
(* slots are free.  malloc and the slow path of free run under the lock;   *)
(* free's fast path reads both masks and changes freed_mask with a         *)
(* compare-and-swap and no lock.  So locked code may see freed_mask grow   *)
(* between any two of its reads, and the fast path may run between any two *)
(* of its stores.                                                          *)
(*                                                                         *)
(* Masks are sets of slots, rings are sequences whose head comes first.    *)
(* Sizes are abstract: a class says where its groups live and which slot   *)
(* counts they may have; the heuristics on usage and bounces are choices.  *)
(* The lock is a holder.                                                   *)
(***************************************************************************)
EXTENDS Integers, Sequences, FiniteSets

CONSTANTS
  Threads,
  Classes,    \* size classes below 48
  Homes,      \* class -> where its groups may live: Mapped or a larger class
  Metas,
  Bounds,     \* [nmeta: how many metas the meta areas have room for,
              \*  counts: class -> slot counts alloc_group may choose]
  Mapped,     \* a group in pages of its own (maplen # 0)
  Huge,       \* size class 63: an allocation that is a mapping
  NoMeta,
  NoThread

ASSUME MallocAssumption ==
  /\ Homes \in [Classes -> SUBSET (Classes \cup {Mapped})]
  /\ \A b \in Bounds : /\ b.nmeta \in 1 .. Cardinality(Metas)
                        /\ b.counts \in [Classes -> SUBSET (Nat \ {0})]
  /\ Huge \notin Classes /\ Mapped \notin Classes
  /\ NoThread \notin Threads

Zeroed == [sc |-> "none"]   \* *m = (struct meta){0}

VARIABLES
  bounds,   \* never changes
  meta,     \* meta -> [sc, mem, last_idx, active_idx, avail, freed] or Zeroed
  active,   \* ctx.active: class -> ring
  live,     \* slots the program holds: <<meta, index>>
  lock,     \* holder of the malloc lock, or NoThread
  pc,       \* thread -> where it is
  reg,      \* thread -> g, i: the slot it frees; freed: what it read;
            \* mask: what activate_group took out of freed_mask; todo: metas
            \* of the groups it has freed
  stack,    \* thread -> alloc_slot's calls: <<[sc, m]>>, innermost first
  crashed   \* an assert failed

vars == <<bounds, meta, active, live, lock, pc, reg, stack, crashed>>

NoReg == [g |-> NoMeta, i |-> 0, freed |-> {}, mask |-> {}, todo |-> {}]

Init ==
  /\ bounds \in Bounds
  /\ meta = [m \in Metas |-> Zeroed]
  /\ active = [c \in Classes |-> << >>]
  /\ live = {}
  /\ lock = NoThread
  /\ pc = [t \in Threads |-> "idle"]
  /\ reg = [t \in Threads |-> NoReg]
  /\ stack = [t \in Threads |-> << >>]
  /\ crashed = FALSE

-----------------------------------------------------------------------------
slots(m) == 0 .. meta[m].last_idx
act(m) == 0 .. meta[m].active_idx
first(mask) == CHOOSE i \in mask : \A j \in mask : i <= j

on_ring(m) == \E c \in Classes : \E k \in DOMAIN active[c] : active[c][k] = m

rotate(ring) == Append(Tail(ring), Head(ring))
dequeue(ring, m) == SelectSeq(ring, LAMBDA x : x # m)
queue(ring, m) == Append(ring, m)

goto(t, label) == pc' = [pc EXCEPT ![t] = label]
assert(b) == crashed' = (crashed \/ ~b)

\* Metas in use, those alloc_group holds for a group it is making included.
used_metas ==
  {m \in Metas : \/ meta[m] # Zeroed
                 \/ \E t \in Threads : \E k \in DOMAIN stack[t] : stack[t][k].m = m}

\* alloc_meta: a freed meta, or a new one of the meta areas.
alloc_meta(m) == m \notin used_metas /\ Cardinality(used_metas) < bounds.nmeta

\* Mutant: a concurrent free between the read and the write is overwritten.
activate_group_lost(m, freed) ==
  [mask |-> freed \cap act(m), freed |-> freed \ act(m)]

\* activate_group up to its store: the loop ends with a compare-and-swap that
\* succeeds, so what the caller had read of freed_mask does not matter.
activate_group(m, freed) ==
  [mask |-> meta[m].freed \cap act(m), freed |-> meta[m].freed \ act(m)]

-----------------------------------------------------------------------------
\* malloc of a class: under the lock, the first available slot of the active
\* group; the write of avail_mask is the only step other threads can see.
malloc_fast(t, sc) ==
  /\ pc[t] = "idle" /\ lock = NoThread
  /\ active[sc] # << >>
  /\ LET g == Head(active[sc])
         i == first(meta[g].avail)
     IN  /\ meta[g].avail # {}
         /\ meta' = [meta EXCEPT ![g].avail = @ \ {i}]
         /\ live' = live \cup {<<g, i>>}
  /\ UNCHANGED <<active, lock, pc, reg, stack, crashed>>

\* malloc that has to call alloc_slot.
malloc_slow(t, sc) ==
  /\ pc[t] = "idle" /\ lock = NoThread
  /\ active[sc] # << >> => meta[Head(active[sc])].avail = {}
  /\ lock' = t
  /\ stack' = [stack EXCEPT ![t] = <<[sc |-> sc, m |-> NoMeta]>>]
  /\ goto(t, "try_avail")
  /\ UNCHANGED <<meta, active, live, reg, crashed>>

\* malloc from MMAP_THRESHOLD on.
malloc_huge(t) ==
  /\ pc[t] = "idle" /\ lock = NoThread
  /\ \E m \in Metas :
       /\ alloc_meta(m)
       /\ meta' = [meta EXCEPT ![m] = [sc |-> Huge, mem |-> Mapped, last_idx |-> 0,
                                       active_idx |-> 0, avail |-> {}, freed |-> {}]]
       /\ live' = live \cup {<<m, 0>>}
  /\ UNCHANGED <<active, lock, pc, reg, stack, crashed>>

-----------------------------------------------------------------------------
sc_of(t) == Head(stack[t]).sc

\* try_avail with a slot at hand, or with the first half of the search: the
\* exhausted head leaves the ring, or the next group becomes the head.
try_avail(t) ==
  LET ring == active[sc_of(t)]
      m == Head(ring)
  IN  /\ pc[t] = "try_avail"
      /\ IF ring = << >>
         THEN goto(t, "alloc_group") /\ UNCHANGED <<meta, active, reg>>
         ELSE IF meta[m].avail # {}
         THEN /\ meta' = [meta EXCEPT ![m].avail = @ \ {first(@)}]
              /\ reg' = [reg EXCEPT ![t].i = first(meta[m].avail)]
              /\ goto(t, "got")
              /\ UNCHANGED active
         ELSE LET rest == IF meta[m].freed = {} THEN dequeue(ring, m) ELSE rotate(ring)
              IN  /\ active' = [active EXCEPT ![sc_of(t)] = rest]
                  /\ goto(t, IF rest = << >> THEN "alloc_group" ELSE "try_freed")
                  /\ UNCHANGED <<meta, reg>>
      /\ UNCHANGED <<live, lock, stack, crashed>>

\* try_avail reads freed_mask, skips a fully free group, and makes room in a
\* group that is not fully active when it is the only one.
try_freed(t) ==
  LET ring0 == active[sc_of(t)]
      ring == IF meta[Head(ring0)].freed = slots(Head(ring0)) THEN rotate(ring0)
              ELSE ring0
      m == Head(ring)
      dry == meta[m].freed \cap act(m) = {}
  IN  /\ pc[t] = "try_freed"
      /\ IF dry /\ Len(ring) = 1
         THEN \E idx \in act(m) \cup slots(m) :
                /\ idx > meta[m].active_idx \/ idx = meta[m].last_idx
                /\ meta' = [meta EXCEPT ![m].active_idx = idx]
                /\ reg' = [reg EXCEPT ![t].freed = meta[m].freed]
                /\ active' = [active EXCEPT ![sc_of(t)] = ring]
         ELSE LET turned == IF dry THEN rotate(ring) ELSE ring
              IN  /\ active' = [active EXCEPT ![sc_of(t)] = turned]
                  /\ reg' = [reg EXCEPT ![t].freed = meta[Head(turned)].freed]
                  /\ UNCHANGED meta
      /\ goto(t, "activate")
      /\ UNCHANGED <<live, lock, stack, crashed>>

\* activate_group's compare-and-swap.
try_activate(t) ==
  LET m == Head(active[sc_of(t)])
      new == activate_group(m, reg[t].freed)
  IN  /\ pc[t] = "activate"
      /\ assert(meta[m].avail = {})
      /\ meta' = [meta EXCEPT ![m].freed = new.freed]
      /\ reg' = [reg EXCEPT ![t] = [NoReg EXCEPT !.mask = new.mask]]
      /\ goto(t, "store")
      /\ UNCHANGED <<active, live, lock, stack>>

\* activate_group's store of avail_mask; try_avail's assertion.
try_store(t) ==
  /\ pc[t] = "store"
  /\ meta' = [meta EXCEPT ![Head(active[sc_of(t)])].avail = reg[t].mask]
  /\ assert(reg[t].mask # {})
  /\ goto(t, "take")
  /\ UNCHANGED <<active, live, lock, reg, stack>>

\* The end of try_avail: a second store, without the first slot.
try_take(t) ==
  LET i == first(reg[t].mask)
  IN  /\ pc[t] = "take"
      /\ reg[t].mask # {}
      /\ meta' = [meta EXCEPT ![Head(active[sc_of(t)])].avail = reg[t].mask \ {i}]
      /\ reg' = [reg EXCEPT ![t] = [NoReg EXCEPT !.i = i]]
      /\ goto(t, "got")
      /\ UNCHANGED <<active, live, lock, stack, crashed>>

-----------------------------------------------------------------------------
group(sc, mem, cnt, active_idx) ==
  [sc |-> sc, mem |-> mem, last_idx |-> cnt - 1, active_idx |-> active_idx,
   avail |-> 1 .. active_idx, freed |-> (active_idx + 1) .. (cnt - 1)]

\* alloc_group in pages of its own, and alloc_slot's end: slot 0 is taken
\* (avail_mask--) and the group is queued.
alloc_group_mapped(t) ==
  LET sc == sc_of(t)
  IN  /\ pc[t] = "alloc_group"
      /\ Mapped \in Homes[sc]
      /\ \E m \in Metas, cnt \in bounds.counts[sc] : \E idx \in 0 .. cnt - 1 :
           /\ alloc_meta(m)
           /\ meta' = [meta EXCEPT ![m] = group(sc, Mapped, cnt, idx)]
           /\ active' = [active EXCEPT ![sc] = queue(@, m)]
           /\ assert(~on_ring(m))
      /\ reg' = [reg EXCEPT ![t].i = 0]
      /\ goto(t, "got")
      /\ UNCHANGED <<live, lock, stack>>

\* alloc_group in a slot of a larger class: alloc_slot calls itself.
alloc_group_nests(t) ==
  /\ pc[t] = "alloc_group"
  /\ \E m \in Metas, home \in Homes[sc_of(t)] \ {Mapped} :
       /\ alloc_meta(m)
       /\ stack' = [stack EXCEPT ![t] =
            <<[sc |-> home, m |-> NoMeta]>> \o [@ EXCEPT ![1].m = m]]
  /\ goto(t, "try_avail")
  /\ UNCHANGED <<meta, active, live, lock, reg, crashed>>

\* alloc_meta or mmap fails: alloc_slot returns -1, every alloc_group on the
\* way gives its meta back with free_meta and malloc returns 0.
alloc_fails(t) ==
  /\ pc[t] = "alloc_group"
  /\ stack' = [stack EXCEPT ![t] = << >>]
  /\ lock' = NoThread
  /\ goto(t, "idle")
  /\ UNCHANGED <<meta, active, live, reg, crashed>>

\* alloc_slot returns an index; its caller takes the group from the head of the
\* ring.  malloc hands the slot out; alloc_group builds its group in it.
got(t) ==
  LET g == Head(active[sc_of(t)])
      i == reg[t].i
      caller == stack[t][2]
  IN  /\ pc[t] = "got"
      /\ reg' = [reg EXCEPT ![t] = NoReg]
      /\ IF Len(stack[t]) = 1
         THEN /\ live' = live \cup {<<g, i>>}
              /\ lock' = NoThread
              /\ stack' = [stack EXCEPT ![t] = << >>]
              /\ goto(t, "idle")
              /\ UNCHANGED <<meta, active, crashed>>
         ELSE /\ \E cnt \in bounds.counts[caller.sc] :
                   meta' = [meta EXCEPT ![caller.m] =
                              group(caller.sc, <<g, i>>, cnt, cnt - 1)]
              /\ active' = [active EXCEPT ![caller.sc] = queue(@, caller.m)]
              /\ assert(~on_ring(caller.m))
              /\ stack' = [stack EXCEPT ![t] = Tail(@)]
              /\ UNCHANGED <<live, lock, pc>>

-----------------------------------------------------------------------------
\* free of a slot some thread got from malloc; get_meta's assertions.
free_start(t, s) ==
  /\ pc[t] = "idle"
  /\ live' = live \ {s}
  /\ reg' = [reg EXCEPT ![t] = [NoReg EXCEPT !.g = s[1], !.i = s[2]]]
  /\ assert(/\ meta[s[1]] # Zeroed
            /\ s[2] \notin meta[s[1]].avail \cup meta[s[1]].freed)
  /\ goto(t, "read_freed")
  /\ UNCHANGED <<meta, active, lock, stack>>

free_read_freed(t) ==
  /\ pc[t] = "read_freed"
  /\ reg' = [reg EXCEPT ![t].freed = meta[reg[t].g].freed]
  /\ goto(t, "read_avail")
  /\ UNCHANGED <<meta, active, live, lock, stack, crashed>>

\* Mutant: the first slot to be freed goes the fast way too.
free_is_trivial_first(g, freed, mask, i) == mask \cup {i} # slots(g)

\* Neither the first nor the last slot of the group to be freed.
free_is_trivial(g, freed, mask, i) == freed # {} /\ mask \cup {i} # slots(g)

free_read_avail(t) ==
  LET r == reg[t]
      mask == r.freed \cup meta[r.g].avail
  IN  /\ pc[t] = "read_avail"
      /\ assert(r.i \notin mask)
      /\ goto(t, IF free_is_trivial(r.g, r.freed, mask, r.i) THEN "cas" ELSE "wrlock")
      /\ UNCHANGED <<meta, active, live, lock, reg, stack>>

free_cas(t) ==
  LET r == reg[t]
  IN  /\ pc[t] = "cas"
      /\ IF meta[r.g].freed = r.freed
         THEN /\ meta' = [meta EXCEPT ![r.g].freed = @ \cup {r.i}]
              /\ reg' = [reg EXCEPT ![t] = NoReg]
              /\ goto(t, "idle")
         ELSE goto(t, "read_freed") /\ UNCHANGED <<meta, reg>>
      /\ UNCHANGED <<active, live, lock, stack, crashed>>

free_lock(t) ==
  /\ pc[t] = "wrlock" /\ lock = NoThread
  /\ lock' = t
  /\ reg' = [reg EXCEPT ![t].freed = {}]
  /\ goto(t, "nontrivial")
  /\ UNCHANGED <<meta, active, live, stack, crashed>>

-----------------------------------------------------------------------------
\* okay_to_free where it does not depend on the usage of the class.
always_freed(g) ==
  \/ meta[g].sc = Huge
  \/ meta[g].mem # Mapped
  \/ ~on_ring(g)
  \/ Len(active[meta[g].sc]) > 1

\* free_group: the group's own slot is freed in turn, unless it is mapped.
free_group(t, g) ==
  LET done == [reg[t] EXCEPT !.mask = {}, !.todo = @ \cup {g}]
  IN  /\ reg' = [reg EXCEPT ![t] =
            IF meta[g].mem = Mapped THEN done
            ELSE [done EXCEPT !.g = meta[g].mem[1], !.i = meta[g].mem[2]]]
      /\ goto(t, IF meta[g].mem = Mapped THEN "unlock" ELSE "nontrivial")

\* nontrivial_free of the last slot of a group: the group leaves its ring, and
\* activate_group begins with the next one if there is a new head.
nontrivial_free_group(t) ==
  LET g == reg[t].g
      sc == meta[g].sc
      rest == dequeue(active[sc], g)
      next == Head(rest)
      activate_new == on_ring(g) /\ Head(active[sc]) = g /\ rest # << >>
      new == activate_group(next, meta[next].freed)
  IN  /\ pc[t] = "nontrivial"
      /\ meta[g].freed \cup meta[g].avail \cup {reg[t].i} = slots(g)
      /\ active' = IF on_ring(g) THEN [active EXCEPT ![sc] = rest] ELSE active
      /\ IF activate_new
         THEN /\ assert(meta[next].avail = {})
              /\ meta' = [meta EXCEPT ![next].freed = new.freed]
              /\ reg' = [reg EXCEPT ![t].mask = new.mask]
              /\ goto(t, "store_next")
         ELSE /\ free_group(t, g)
              /\ UNCHANGED <<meta, crashed>>
      /\ UNCHANGED <<live, lock, stack>>

\* activate_group's store of avail_mask; the group is freed.
nontrivial_store(t) ==
  LET g == reg[t].g
  IN  /\ pc[t] = "store_next"
      /\ meta' = [meta EXCEPT ![Head(active[meta[g].sc])].avail = reg[t].mask]
      /\ free_group(t, g)
      /\ UNCHANGED <<active, live, lock, stack, crashed>>

\* Mutant: the group is queued even when it still is the head.
requeued_always(g, sc, mask) ==
  IF mask = {} THEN queue(active[sc], g) ELSE active[sc]

\* The ring after nontrivial_free of the first slot of a full group.
requeued(g, sc, mask) ==
  IF mask = {} /\ (active[sc] = << >> \/ Head(active[sc]) # g)
  THEN queue(active[sc], g) ELSE active[sc]

\* nontrivial_free that keeps the group.
nontrivial_free_slot(t) ==
  LET g == reg[t].g
      sc == meta[g].sc
      mask == meta[g].freed \cup meta[g].avail
  IN  /\ pc[t] = "nontrivial"
      /\ mask \cup {reg[t].i} # slots(g) \/ ~always_freed(g)
      /\ assert(mask = {} => /\ sc # Huge
                             /\ requeued(g, sc, mask) # active[sc] => ~on_ring(g))
      /\ active' = [active EXCEPT ![sc] = requeued(g, sc, mask)]
      /\ goto(t, "or")
      /\ UNCHANGED <<meta, live, lock, reg, stack>>

nontrivial_free_or(t) ==
  /\ pc[t] = "or"
  /\ meta' = [meta EXCEPT ![reg[t].g].freed = @ \cup {reg[t].i}]
  /\ goto(t, "unlock")
  /\ UNCHANGED <<active, live, lock, reg, stack, crashed>>

\* free_meta of every group that was freed, and the end.
free_unlock(t) ==
  /\ pc[t] = "unlock"
  /\ meta' = [m \in Metas |-> IF m \in reg[t].todo THEN Zeroed ELSE meta[m]]
  /\ reg' = [reg EXCEPT ![t] = NoReg]
  /\ lock' = NoThread
  /\ goto(t, "idle")
  /\ UNCHANGED <<active, live, stack, crashed>>

malloc(t) ==
  \/ \E sc \in Classes : malloc_fast(t, sc) \/ malloc_slow(t, sc)
  \/ malloc_huge(t)
  \/ try_avail(t)
  \/ try_freed(t)
  \/ try_activate(t)
  \/ try_store(t)
  \/ try_take(t)
  \/ alloc_group_mapped(t)
  \/ alloc_group_nests(t)
  \/ alloc_fails(t)
  \/ got(t)

free(t) ==
  \/ \E s \in live : free_start(t, s)
  \/ free_read_freed(t)
  \/ free_read_avail(t)
  \/ free_cas(t)
  \/ free_lock(t)
  \/ nontrivial_free_group(t)
  \/ nontrivial_store(t)
  \/ nontrivial_free_slot(t)
  \/ nontrivial_free_or(t)
  \/ free_unlock(t)

Next ==
  /\ \E t \in Threads : malloc(t) \/ free(t)
  /\ UNCHANGED bounds

Spec == Init /\ [][Next]_vars

-----------------------------------------------------------------------------
\* Slots on their way: from freed_mask to avail_mask, taken by alloc_slot, being
\* freed, or home of a group.
Activating(t) ==
  Head(active[IF pc[t] = "store" THEN sc_of(t) ELSE meta[reg[t].g].sc])
Moving == UNION {{Activating(t)} \X reg[t].mask :
                   t \in {u \in Threads : pc[u] \in {"store", "store_next"}}}
Taken == {<<Head(active[sc_of(t)]), reg[t].i>> : t \in {u \in Threads : pc[u] = "got"}}
Freeing == {<<reg[t].g, reg[t].i>> :
              t \in {u \in Threads : pc[u] \in {"read_freed", "read_avail", "cas",
                                                "wrlock", "nontrivial", "store_next", "or"}}}
Dying == UNION {reg[t].todo : t \in Threads}
Groups == {m \in Metas : meta[m] # Zeroed} \ Dying
Nested == {meta[m].mem : m \in {n \in Groups : meta[n].mem # Mapped}}

One(b) == IF b THEN 1 ELSE 0
Places(m, i) ==
  One(<<m, i>> \in live) + One(<<m, i>> \in Moving) + One(<<m, i>> \in Taken)
  + One(<<m, i>> \in Freeing) + One(<<m, i>> \in Nested)
  + One(i \in meta[m].avail) + One(i \in meta[m].freed)

\* malloc's contract: every slot of every group is in exactly one place - held
\* by the program, on its way in, out or from one mask to the other, the home of
\* a nested group, available or freed - and every slot the program holds is of a
\* group that exists.  No slot is handed out twice, none is lost by a free that
\* runs without the lock between two steps of activate_group, and no group is
\* freed under a slot in use.
SlotsAccounted ==
  /\ \A m \in Groups : \A i \in slots(m) : Places(m, i) = 1
  /\ \A s \in live \cup Moving \cup Taken \cup Freeing \cup Nested :
       s[1] \in Groups /\ s[2] \in slots(s[1])

\* None of mallocng's assertions fails: activate_group is called on a group with
\* no available slot and finds one, a queued meta is on no ring, and freed slots
\* were in use.
NoCrash == ~crashed

\* While nobody has the lock, a group with a free slot is on the ring of its
\* class, so that its slots will be used again; behind the head, a ring only
\* has groups with freed slots and none available.
FreeSlotsReachable ==
  lock = NoThread =>
    /\ \A m \in Groups :
         meta[m].avail \cup meta[m].freed # {} =>
           meta[m].sc # Huge /\ \E k \in DOMAIN active[meta[m].sc] : active[meta[m].sc][k] = m
    /\ \A c \in Classes : \A k \in DOMAIN active[c] :
         /\ active[c][k] \in Groups
         /\ \A j \in DOMAIN active[c] : active[c][j] = active[c][k] => j = k
         /\ k > 1 => meta[active[c][k]].avail = {} /\ meta[active[c][k]].freed # {}
=============================================================================

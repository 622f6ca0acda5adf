-------------------------------- MODULE Asid --------------------------------
(***************************************************************************)
(* task.c: address space identifiers.  task_switch gives the incoming user *)
(* task an ASID of the current generation, writes TTBR0 and, when the      *)
(* ASIDs ran out and a new generation began, flushes the TLB.              *)
(*                                                                         *)
(* task->asid is the generation (high bits) and the index (low asid_bits)  *)
(* of the code's integer; NoAsid is its initial 0.  Each task has its own  *)
(* thread group and page table, as task_create and task_set_tgid leave it. *)
(*                                                                         *)
(* The index goes to the top of TTBR0: of [63:48] an 8-bit index fills the *)
(* upper half and a 16-bit one the whole.  TCR_EL1.AS is never set, so the *)
(* hardware reads the lower half only, [55:48], whatever the CPU has.      *)
(* The MMU walks the table in TTBR0 at any time, on behalf of the task or  *)
(* speculatively, and marks what it caches with the ASID it reads there.   *)
(***************************************************************************)
EXTENDS Integers, FiniteSetsExt

CONSTANTS
  UserTasks,       \* TASK_TYPE_USER tasks
  Idle,            \* the one TASK_TYPE_KERNEL task
  HW_ASIDS,        \* values of TTBR0[55:48], 2^8; twice the bits are 2^16
  MaxGeneration    \* bound; the code's u32 arithmetic wraps at 2^(32 - asid_bits)

ASSUME AsidAssumption ==
  /\ Idle \notin UserTasks
  /\ HW_ASIDS \in Nat
  /\ HW_ASIDS >= 2
  /\ MaxGeneration \in Nat \ {0}

NoAsid == [gen |-> 0, idx |-> 0]

VARIABLES
  NUM_USER_ASIDS,   \* 1 << asid_bits, by the CPU's ID register; set once
  asid,             \* task->asid
  asid_generation,
  asid_bitmap,      \* set of one bits
  cur_idx,          \* static of check_and_switch_context
  b_tlb_flush,
  current,          \* g_current_task
  switching,        \* inside task_switch, TTBR0 written
  ttbr0,            \* whose page table, and the value of bits [63:48]
  tlb               \* cached translations: the TTBR0 they were walked from

vars == <<NUM_USER_ASIDS, asid, asid_generation, asid_bitmap, cur_idx, b_tlb_flush, current,
          switching, ttbr0, tlb>>

Indices == 0 .. NUM_USER_ASIDS - 1
Tags == 0 .. HW_ASIDS * HW_ASIDS - 1

\* get_cpu_asid_bits: 8 or 16.
get_cpu_asid_bits == {HW_ASIDS, HW_ASIDS * HW_ASIDS}

\* Mutant: the index is shifted as if it had 8 bits.
ttbr_tag_8_bits(a) == (a * HW_ASIDS) % (HW_ASIDS * HW_ASIDS)

\* Bits [63:48] of asid << (BITS_PER_LONG - asid_bits); the generation, above
\* the index, is shifted out.
ttbr_tag(a) == IF NUM_USER_ASIDS = HW_ASIDS THEN a * HW_ASIDS ELSE a

\* The ASID the hardware takes from them: bits [55:48], as TCR_EL1 is set up.
hw_asid(tag) == tag % HW_ASIDS

\* find_next_zero_bit(asid_bitmap, NUM_USER_ASIDS, from)
find_next_zero_bit(map, from) ==
  Min({i \in from .. NUM_USER_ASIDS - 1 : i \notin map} \cup {NUM_USER_ASIDS})

\* asid_initialize; idle runs.  TTBR0 holds the identity map of the boot.
Init ==
  /\ NUM_USER_ASIDS \in get_cpu_asid_bits
  /\ asid = [t \in UserTasks |-> NoAsid]
  /\ asid_generation = 1
  /\ asid_bitmap = {}
  /\ cur_idx = 1
  /\ b_tlb_flush = FALSE
  /\ current = Idle
  /\ switching = FALSE
  /\ ttbr0 = [owner |-> Idle, tag |-> 0]
  /\ tlb = {}

\* task_switch is entered for a task other than the current one.
Enter(t) ==
  /\ ~ switching
  /\ current # t
  /\ current' = t
  /\ switching' = TRUE
  /\ UNCHANGED <<NUM_USER_ASIDS, tlb>>

\* as_switch, for a user task.
as_switch(t, a) == ttbr0' = [owner |-> t, tag |-> ttbr_tag(a)]

\* check_and_switch_context returns 0 for a kernel task, and as_switch does
\* nothing for it: TTBR0 keeps the previous user task's table.
SwitchToIdle ==
  /\ Enter(Idle)
  /\ UNCHANGED <<asid, asid_generation, asid_bitmap, cur_idx, b_tlb_flush, ttbr0>>

current_generation(t) == asid[t].gen = asid_generation

\* The task's ASID is of this generation.
KeepAsid(t) ==
  /\ Enter(t)
  /\ current_generation(t)
  /\ as_switch(t, asid[t].idx)
  /\ UNCHANGED <<asid, asid_generation, asid_bitmap, cur_idx, b_tlb_flush>>

\* test_and_set_bit of the index the task had in an older generation.
reusable(t) == asid[t] # NoAsid /\ asid[t].idx \notin asid_bitmap

\* newasid is returned, and not stored in the task.
ReuseIndex(t) ==
  /\ Enter(t)
  /\ ~ current_generation(t)
  /\ reusable(t)
  /\ asid_bitmap' = asid_bitmap \cup {asid[t].idx}
  /\ as_switch(t, asid[t].idx)
  /\ UNCHANGED <<asid, asid_generation, cur_idx, b_tlb_flush>>

\* The tail of check_and_switch_context.
take(t, a, map, generation) ==
  /\ asid_bitmap' = map \cup {a}
  /\ asid' = [asid EXCEPT ![t] = [gen |-> generation, idx |-> a]]
  /\ cur_idx' = a
  /\ as_switch(t, a)

next_free == find_next_zero_bit(asid_bitmap, cur_idx)

NewAsid(t) ==
  /\ Enter(t)
  /\ ~ current_generation(t)
  /\ ~ reusable(t)
  /\ next_free < NUM_USER_ASIDS
  /\ take(t, next_free, asid_bitmap, asid_generation)
  /\ UNCHANGED <<asid_generation, b_tlb_flush>>

\* Mutant: a new generation without the flush flag.
NewGenerationQuiet(t) ==
  /\ Enter(t)
  /\ ~ current_generation(t)
  /\ ~ reusable(t)
  /\ next_free >= NUM_USER_ASIDS
  /\ asid_generation < MaxGeneration
  /\ asid_generation' = asid_generation + 1
  /\ take(t, find_next_zero_bit({}, 1), {}, asid_generation')
  /\ UNCHANGED b_tlb_flush

\* No index left: a new generation.
NewGeneration(t) ==
  /\ Enter(t)
  /\ ~ current_generation(t)
  /\ ~ reusable(t)
  /\ next_free >= NUM_USER_ASIDS
  /\ asid_generation < MaxGeneration
  /\ asid_generation' = asid_generation + 1
  /\ b_tlb_flush' = TRUE
  /\ take(t, find_next_zero_bit({}, 1), {}, asid_generation')

\* The rest of task_switch, after as_switch.
FinishSwitch ==
  /\ switching
  /\ switching' = FALSE
  /\ tlb' = IF b_tlb_flush THEN {} ELSE tlb
  /\ b_tlb_flush' = FALSE
  /\ UNCHANGED <<NUM_USER_ASIDS, asid, asid_generation, asid_bitmap, cur_idx,
                 current, ttbr0>>

\* The MMU caches a translation of the table in TTBR0.
TlbFill ==
  /\ tlb' = tlb \cup {ttbr0}
  /\ UNCHANGED <<NUM_USER_ASIDS, asid, asid_generation, asid_bitmap, cur_idx,
                 b_tlb_flush, current, switching, ttbr0>>

Next ==
  \/ SwitchToIdle
  \/ \E t \in UserTasks :
       KeepAsid(t) \/ ReuseIndex(t) \/ NewAsid(t) \/ NewGeneration(t)
  \/ FinishSwitch
  \/ TlbFill

Spec == Init /\ [][Next]_vars
-----------------------------------------------------------------------------
TypeOK ==
  /\ NUM_USER_ASIDS \in get_cpu_asid_bits
  /\ asid \in [UserTasks -> [gen : 0 .. MaxGeneration, idx : Indices]]
  /\ asid_generation \in 1 .. MaxGeneration
  /\ asid_bitmap \subseteq Indices
  /\ cur_idx \in 1 .. NUM_USER_ASIDS - 1
  /\ b_tlb_flush \in BOOLEAN
  /\ current \in UserTasks \cup {Idle}
  /\ switching \in BOOLEAN
  /\ ttbr0 \in [owner : UserTasks \cup {Idle}, tag : Tags]
  /\ tlb \subseteq [owner : UserTasks \cup {Idle}, tag : Tags]

\* Two tasks never hold the same ASID of the current generation, nor one that
\* is not marked in the bitmap, nor the kernel's ASID 0.
AsidsUnique ==
  \A t \in UserTasks : current_generation(t) =>
    /\ asid[t].idx \in asid_bitmap \ {0}
    /\ \A u \in UserTasks \ {t} : asid[u] # asid[t]

\* No two tasks hold the same ASID.  Outside task_switch a user task runs on
\* its own table, and no other task's translation has been cached since the
\* last flush under the value that TTBR0 now has in [63:48], across reuse of
\* old indices, generations and speculative walks of the outgoing task's table.
TagsUnshared ==
  /\ AsidsUnique
  /\ ~ switching /\ current # Idle =>
       /\ ttbr0.owner = current
       /\ \A e \in tlb : e.tag = ttbr0.tag => e.owner = current

\* The running user task finds no other task's translation in the TLB.
NoForeignHit ==
  ~ switching /\ current # Idle =>
    \A e \in tlb : hw_asid(e.tag) = hw_asid(ttbr0.tag) => e.owner = current

\* What of this the hardware sees: with 16-bit ASIDs, and as long as the
\* generation has used no index that 8 bits cannot hold, the running task
\* finds no other's translation in the TLB.  Beyond that, and with 8-bit ASIDs
\* for any two tasks, NoForeignHit fails: bits [55:48] do not tell them apart.
IsolationBelow256 ==
  NUM_USER_ASIDS # HW_ASIDS /\ asid_bitmap \subseteq 0 .. HW_ASIDS - 1
    => NoForeignHit

\* The comment on the first test: a task whose ASID is of the current
\* generation needs no other.  So within a generation a task that ran under
\* an ASID is never switched to under a different one.
AsidKeptInGeneration ==
  ~ switching =>
    \A e \in tlb : e.owner = ttbr0.owner => e.tag = ttbr0.tag
=============================================================================

----------------------------- MODULE AsidProofs -----------------------------
(***************************************************************************)
(* Machine-checked proofs about Asid, for any number of user tasks, ASIDs  *)
(* and generations.                                                        *)
(***************************************************************************)
EXTENDS Asid, WellFoundedInduction, TLAPS

\* A non-empty set of naturals has a least element, which Min returns.
LEMMA MinProperties ==
  ASSUME NEW S \in SUBSET Nat, S # {}
  PROVE  Min(S) \in S /\ \A y \in S : Min(S) <= y
<1>1. PICK x \in S : \A y \in S : ~ (<<y, x>> \in OpToRel(<, Nat))
  BY NatLessThanWellFounded, WFMin, Zenon
<1>2. \A y \in S : x <= y
  <2> SUFFICES ASSUME NEW y \in S PROVE ~ (y < x)
    OBVIOUS
  <2>1. <<y, x>> \notin OpToRel(<, Nat)
    BY <1>1
  <2> QED BY <2>1 DEF OpToRel
<1> QED BY <1>2 DEF Min

\* find_next_zero_bit returns a clear bit at or above its start, or the size.
LEMMA NextZeroBit ==
  ASSUME NUM_USER_ASIDS \in Nat, NEW map, NEW from \in 1 .. NUM_USER_ASIDS - 1
  PROVE  /\ find_next_zero_bit(map, from) \in from .. NUM_USER_ASIDS
         /\ find_next_zero_bit(map, from) < NUM_USER_ASIDS
              => find_next_zero_bit(map, from) \notin map
<1> DEFINE S == {i \in from .. NUM_USER_ASIDS - 1 : i \notin map} \cup {NUM_USER_ASIDS}
<1>1. S \in SUBSET Nat /\ S # {}
  BY AsidAssumption
<1>2. Min(S) \in S
  BY <1>1, MinProperties
<1>3. find_next_zero_bit(map, from) = Min(S)
  BY DEF find_next_zero_bit
<1> QED BY <1>2, <1>3, AsidAssumption

\* There are at least two ASIDs, and no more than there are values of [63:48].
LEMMA SomeAsids ==
  ASSUME NUM_USER_ASIDS \in get_cpu_asid_bits
  PROVE  NUM_USER_ASIDS \in Nat /\ NUM_USER_ASIDS >= 2
<1>1. HW_ASIDS * HW_ASIDS \in Nat /\ HW_ASIDS * HW_ASIDS >= 2
  BY AsidAssumption
<1> QED BY <1>1, AsidAssumption DEF get_cpu_asid_bits

\* Different indices are written to TTBR0 as different values, and 0 as 0.
LEMMA TagsDiffer ==
  ASSUME NUM_USER_ASIDS \in get_cpu_asid_bits, NEW i \in Indices, NEW j \in Indices
  PROVE  /\ ttbr_tag(i) \in Tags
         /\ ttbr_tag(i) = ttbr_tag(j) => i = j
<1>0. i \in Nat /\ j \in Nat /\ HW_ASIDS \in Nat /\ HW_ASIDS >= 2
      /\ i < NUM_USER_ASIDS /\ j < NUM_USER_ASIDS
  BY SomeAsids, AsidAssumption DEF Indices
<1>1. CASE NUM_USER_ASIDS = HW_ASIDS
  <2>1. ASSUME NEW x \in Nat, NEW y \in Nat, x < y PROVE x * HW_ASIDS < y * HW_ASIDS
    BY <2>1, <1>0
  <2>2. i * HW_ASIDS \in Nat /\ i * HW_ASIDS < HW_ASIDS * HW_ASIDS
    BY <1>0, <1>1, <2>1
  <2>3. i * HW_ASIDS = j * HW_ASIDS => i = j
    <3>1. i < j => i * HW_ASIDS < j * HW_ASIDS
      BY <1>0, <2>1
    <3>2. j < i => j * HW_ASIDS < i * HW_ASIDS
      BY <1>0, <2>1
    <3>3. j * HW_ASIDS \in Nat
      BY <1>0
    <3> QED BY <1>0, <2>2, <3>1, <3>2, <3>3
  <2>4. HW_ASIDS * HW_ASIDS \in Nat
    BY <1>0
  <2> QED BY <1>1, <2>2, <2>3, <2>4 DEF ttbr_tag, Tags
<1>2. CASE NUM_USER_ASIDS # HW_ASIDS
  BY <1>0, <1>2 DEF ttbr_tag, Tags, get_cpu_asid_bits
<1> QED BY <1>1, <1>2

LEMMA ZeroTag == ttbr_tag(0) = 0 /\ 0 \in Tags
<1>1. 0 * HW_ASIDS = 0 /\ HW_ASIDS * HW_ASIDS \in Nat /\ HW_ASIDS * HW_ASIDS >= 2
  BY AsidAssumption
<1> QED BY <1>1 DEF ttbr_tag, Tags

-----------------------------------------------------------------------------
\* What may be cached now that a later walk of the tables must not contradict:
\* before a pending flush only the table in TTBR0 counts.
seen == (IF b_tlb_flush THEN {} ELSE tlb) \cup {ttbr0}

\* Translations under a tag belong to one task, the one that holds the ASID if
\* any does; ASIDs in use are marked in the bitmap, and 0 is the boot's.
SeenSafe ==
  /\ \A e \in seen : \/ e.owner = Idle /\ e.tag = ttbr_tag(0)
                     \/ /\ e.owner \in UserTasks
                        /\ \E i \in asid_bitmap \ {0} : e.tag = ttbr_tag(i)
  /\ \A e, f \in seen : e.tag = f.tag => e.owner = f.owner
  /\ \A e \in seen, u \in UserTasks :
       current_generation(u) /\ ttbr_tag(asid[u].idx) = e.tag => e.owner = u

HeldSafe ==
  /\ \A u \in UserTasks : asid[u].gen <= asid_generation
  /\ \A u \in UserTasks : asid[u] # NoAsid => asid[u].idx # 0
  /\ \A u \in UserTasks : current_generation(u) => asid[u].idx \in asid_bitmap
  /\ \A u, w \in UserTasks : current_generation(u) /\ current_generation(w) /\ asid[u].idx = asid[w].idx => u = w

\* The inductive invariant.
IInv ==
  /\ TypeOK
  /\ HeldSafe
  /\ SeenSafe
  /\ b_tlb_flush => switching
  /\ current # Idle => ttbr0.owner = current

LEMMA InitInv == Init => IInv
<1> SUFFICES ASSUME Init PROVE IInv
  OBVIOUS
<1>0. NUM_USER_ASIDS \in get_cpu_asid_bits /\ NUM_USER_ASIDS \in Nat /\ NUM_USER_ASIDS >= 2
  BY SomeAsids DEF Init
<1>1. TypeOK
  <2>1. 0 \in Indices /\ 1 \in 1 .. NUM_USER_ASIDS - 1 /\ 1 \in 1 .. MaxGeneration
    BY <1>0, AsidAssumption DEF Indices
  <2>2. NoAsid \in [gen : 0 .. MaxGeneration, idx : Indices]
    BY <2>1, AsidAssumption DEF NoAsid
  <2>3. [owner |-> Idle, tag |-> 0] \in [owner : UserTasks \cup {Idle}, tag : Tags]
    BY ZeroTag
  <2> QED BY <1>0, <2>1, <2>2, <2>3 DEF Init, TypeOK
<1>2. HeldSafe
  BY DEF Init, HeldSafe, current_generation, NoAsid
<1>3. SeenSafe
  BY AsidAssumption, ZeroTag DEF Init, SeenSafe, seen, current_generation, NoAsid
<1> QED BY <1>1, <1>2, <1>3 DEF Init, IInv

\* The switch to the idle task leaves the tables as they are.
LEMMA IdleKeeps == IInv /\ SwitchToIdle => IInv'
<1> SUFFICES ASSUME IInv, SwitchToIdle PROVE IInv'
  OBVIOUS
<1> USE DEF SwitchToIdle, Enter, IInv
<1>1. TypeOK'
  BY DEF TypeOK, Indices
<1>2. HeldSafe' /\ SeenSafe'
  BY DEF HeldSafe, current_generation, SeenSafe, seen, ttbr_tag
<1> QED BY <1>1, <1>2

\* A walk of t's table under the tag of index a keeps what is cached safe, when
\* all that is cached under this tag is t's and a is t's in this generation or
\* nobody's.
LEMMA SwitchSeen ==
  ASSUME NEW t \in UserTasks, NEW a \in Indices, IInv,
         NUM_USER_ASIDS' = NUM_USER_ASIDS,
         ttbr0' = [owner |-> t, tag |-> ttbr_tag(a)],
         asid_bitmap' \subseteq Indices,
         asid_bitmap \subseteq asid_bitmap', a \in asid_bitmap', a # 0,
         seen' \subseteq seen \cup {ttbr0'},
         \A e \in seen : e.tag = ttbr_tag(a) => e.owner = t,
         \A u \in UserTasks : asid'[u].idx \in Indices,
         \A u \in UserTasks \ {t} : asid'[u] = asid[u],
         \A u \in UserTasks \ {t} : current_generation(u)' => current_generation(u) /\ asid[u].idx # a,
         current_generation(t)' =>
           \/ asid'[t].idx = a
           \/ current_generation(t) /\ asid'[t] = asid[t]
  PROVE  SeenSafe'
<1>0. NUM_USER_ASIDS \in get_cpu_asid_bits
  BY DEF IInv, TypeOK
<1>1. \A i \in Indices : ttbr_tag(i)' = ttbr_tag(i)
  BY DEF ttbr_tag
<1>2. \A i, j \in Indices : ttbr_tag(i) = ttbr_tag(j) => i = j
  BY <1>0, TagsDiffer
<1>3. ttbr0'.owner = t /\ ttbr0'.tag = ttbr_tag(a)
  OBVIOUS
<1>4. ttbr_tag(0)' = ttbr_tag(0)
  BY DEF ttbr_tag
<1>5. ASSUME NEW e \in seen'
      PROVE  \/ e.owner = Idle /\ e.tag = ttbr_tag(0)'
             \/ /\ e.owner \in UserTasks
                /\ \E i \in (asid_bitmap \ {0})' : e.tag = ttbr_tag(i)'
  <2>1. CASE e \in seen
    <3>1. CASE e.owner = Idle /\ e.tag = ttbr_tag(0)
      BY <3>1, <1>4
    <3>2. CASE e.owner \in UserTasks /\ \E i \in asid_bitmap \ {0} : e.tag = ttbr_tag(i)
      <4>1. PICK i \in asid_bitmap \ {0} : e.tag = ttbr_tag(i)
        BY <3>2
      <4>2. i \in Indices /\ i \in (asid_bitmap \ {0})'
        BY <4>1 DEF IInv, TypeOK
      <4> QED BY <3>2, <4>1, <4>2, <1>1
    <3> QED BY <2>1, <3>1, <3>2 DEF IInv, SeenSafe
  <2>2. CASE e = ttbr0'
    <3>1. a \in (asid_bitmap \ {0})'
      OBVIOUS
    <3> QED BY <2>2, <1>1, <1>3, <3>1
  <2> QED BY <2>1, <2>2
<1>6. ASSUME NEW e \in seen', NEW f \in seen', e.tag = f.tag
      PROVE  e.owner = f.owner
  BY <1>3, <1>6 DEF IInv, SeenSafe
<1>7. ASSUME NEW e \in seen', NEW u \in UserTasks,
             current_generation(u)', ttbr_tag(asid[u].idx)' = e.tag
      PROVE  e.owner = u
  <2>1. asid'[u].idx \in Indices /\ ttbr_tag(asid'[u].idx) = e.tag
    BY <1>1, <1>7
  <2>2. CASE u = t
    <3>1. CASE asid'[t].idx = a
      BY <1>3, <2>1, <2>2, <3>1
    <3>2. CASE current_generation(t) /\ asid'[t] = asid[t]
      <4>1. \A x \in seen : ttbr_tag(asid[t].idx) = x.tag => x.owner = t
        BY <3>2 DEF IInv, SeenSafe
      <4> QED BY <1>3, <2>1, <2>2, <3>2, <4>1
    <3> QED BY <1>7, <2>2, <3>1, <3>2
  <2>3. CASE u # t
    <3>1. current_generation(u) /\ asid'[u] = asid[u] /\ asid[u].idx # a
      BY <1>7, <2>3
    <3>2. e # ttbr0'
      BY <1>2, <1>3, <2>1, <3>1
    <3>3. e \in seen
      BY <3>2
    <3> QED BY <2>1, <3>1, <3>3 DEF IInv, SeenSafe
  <2> QED BY <2>2, <2>3
<1> QED BY <1>5, <1>6, <1>7 DEF SeenSafe

\* A task that holds an ASID of this generation gets its own table back.
LEMMA KeepKeeps == ASSUME NEW t \in UserTasks, IInv, KeepAsid(t) PROVE IInv'
<1> DEFINE a == asid[t].idx
<1> USE DEF KeepAsid, Enter, as_switch
<1>0. /\ a \in Indices /\ a \in asid_bitmap /\ a # 0
      /\ ~ b_tlb_flush
      /\ ttbr_tag(a) \in Tags
  <2>1. asid[t] # NoAsid
    BY DEF IInv, TypeOK, current_generation, NoAsid
  <2>2. a \in Indices /\ NUM_USER_ASIDS \in get_cpu_asid_bits
    BY DEF IInv, TypeOK
  <2> QED BY <2>1, <2>2, TagsDiffer DEF IInv, HeldSafe
<1>1. TypeOK'
  BY <1>0 DEF IInv, TypeOK, Indices
<1>2. HeldSafe'
  BY DEF IInv, HeldSafe, current_generation
<1>3. SeenSafe'
  <2>1. seen' \subseteq seen \cup {ttbr0'}
    BY <1>0 DEF seen
  <2>2. \A e \in seen : e.tag = ttbr_tag(a) => e.owner = t
    BY DEF IInv, SeenSafe
  <2>3. \A u \in UserTasks : current_generation(u)' = current_generation(u)
    BY DEF current_generation
  <2>4. \A u \in UserTasks \ {t} : current_generation(u) => asid[u].idx # a
    BY DEF IInv, HeldSafe
  <2>5. asid_bitmap \subseteq Indices /\ \A u \in UserTasks : asid[u].idx \in Indices
    BY DEF IInv, TypeOK
  <2> HIDE DEF a
  <2>6. ttbr0' = [owner |-> t, tag |-> ttbr_tag(a)]
    BY DEF a
  <2> QED BY <1>0, <2>1, <2>2, <2>3, <2>4, <2>5, <2>6, SwitchSeen
<1> QED BY <1>0, <1>1, <1>2, <1>3, AsidAssumption DEF IInv

\* What is cached under the tag of an index that the bitmap does not mark:
\* nothing.
LEMMA UnmarkedUnseen ==
  ASSUME IInv, NEW a \in Indices \ {0}, a \notin asid_bitmap
  PROVE  \A e \in seen : e.tag # ttbr_tag(a)
<1>1. NUM_USER_ASIDS \in get_cpu_asid_bits /\ asid_bitmap \subseteq Indices
  BY DEF IInv, TypeOK
<1>2. 0 \in Indices
  BY <1>1, SomeAsids DEF Indices
<1>3. \A i \in Indices : ttbr_tag(i) = ttbr_tag(a) => i = a
  BY <1>1, TagsDiffer
<1> QED BY <1>1, <1>2, <1>3 DEF IInv, SeenSafe

\* A task that takes back the index it had before: no cached translation has it.
LEMMA ReuseKeeps == ASSUME NEW t \in UserTasks, IInv, ReuseIndex(t) PROVE IInv'
<1> DEFINE a == asid[t].idx
<1> USE DEF ReuseIndex, Enter, as_switch
<1>0. /\ a \in Indices \ {0} /\ a \notin asid_bitmap
      /\ ~ b_tlb_flush
      /\ ttbr_tag(a) \in Tags
  <2>1. a \in Indices /\ NUM_USER_ASIDS \in get_cpu_asid_bits
    BY DEF IInv, TypeOK
  <2> QED BY <2>1, TagsDiffer DEF IInv, HeldSafe, reusable
<1>1. TypeOK'
  BY <1>0 DEF IInv, TypeOK, Indices
<1>4. \A u \in UserTasks : current_generation(u)' = current_generation(u)
  BY DEF current_generation
<1>2. HeldSafe'
  BY <1>4 DEF IInv, HeldSafe
<1>3. SeenSafe'
  <2>1. seen' \subseteq seen \cup {ttbr0'}
    BY <1>0 DEF seen
  <2>2. \A e \in seen : e.tag # ttbr_tag(a)
    BY <1>0, UnmarkedUnseen
  <2>4. \A u \in UserTasks : current_generation(u) => asid[u].idx # a
    BY <1>0 DEF IInv, HeldSafe
  <2>5. asid_bitmap \subseteq Indices /\ \A u \in UserTasks : asid[u].idx \in Indices
    BY DEF IInv, TypeOK
  <2>6. /\ ttbr0' = [owner |-> t, tag |-> ttbr_tag(a)]
        /\ asid_bitmap' = asid_bitmap \cup {a}
    OBVIOUS
  <2> HIDE DEF a
  <2> QED BY <1>0, <1>4, <2>1, <2>2, <2>4, <2>5, <2>6, SwitchSeen
<1> QED BY <1>0, <1>1, <1>2, <1>3, AsidAssumption DEF IInv

\* take of an index that is marked neither in the old nor in the new bitmap.
LEMMA NewKeeps == ASSUME NEW t \in UserTasks, IInv, NewAsid(t) PROVE IInv'
<1> DEFINE a == next_free
<1> USE DEF NewAsid, Enter, as_switch, take
<1>0. /\ a \in 1 .. NUM_USER_ASIDS - 1 /\ a \notin asid_bitmap
      /\ a \in Indices \ {0}
      /\ ~ b_tlb_flush
      /\ ttbr_tag(a) \in Tags
  <2>1. cur_idx \in 1 .. NUM_USER_ASIDS - 1 /\ NUM_USER_ASIDS \in get_cpu_asid_bits
    BY DEF IInv, TypeOK
  <2>2. NUM_USER_ASIDS \in Nat
    BY <2>1, SomeAsids
  <2>3. a \in 1 .. NUM_USER_ASIDS - 1 /\ a \notin asid_bitmap
    BY <2>1, <2>2, NextZeroBit DEF next_free
  <2>4. a \in Indices \ {0}
    BY <2>2, <2>3 DEF Indices
  <2> QED BY <2>1, <2>3, <2>4, TagsDiffer DEF IInv
<1>5. /\ asid' = [asid EXCEPT ![t] = [gen |-> asid_generation, idx |-> a]]
      /\ asid_bitmap' = asid_bitmap \cup {a}
      /\ ttbr0' = [owner |-> t, tag |-> ttbr_tag(a)]
      /\ cur_idx' = a
      /\ asid \in [UserTasks -> [gen : 0 .. MaxGeneration, idx : Indices]]
      /\ asid_generation \in 1 .. MaxGeneration
      /\ asid_bitmap \subseteq Indices
      /\ NUM_USER_ASIDS' = NUM_USER_ASIDS /\ Indices' = Indices
  BY DEF IInv, TypeOK, Indices
<1> HIDE DEF a
<1>1. TypeOK'
  <2>1. [gen |-> asid_generation, idx |-> a] \in [gen : 0 .. MaxGeneration, idx : Indices]
    BY <1>0, <1>5, AsidAssumption
  <2> QED BY <1>0, <1>5, <2>1 DEF IInv, TypeOK
<1>4. /\ asid'[t] = [gen |-> asid_generation, idx |-> a]
      /\ \A u \in UserTasks \ {t} : asid'[u] = asid[u] /\ current_generation(u)' = current_generation(u)
  BY <1>5 DEF current_generation
<1>6. \A u \in UserTasks : current_generation(u) => asid[u].idx # a
  BY <1>0 DEF IInv, HeldSafe
<1>2. HeldSafe'
  BY <1>0, <1>4, <1>5, <1>6, AsidAssumption DEF IInv, HeldSafe
<1>3. SeenSafe'
  <2>1. seen' \subseteq seen \cup {ttbr0'}
    BY <1>0 DEF seen
  <2>2. \A e \in seen : e.tag # ttbr_tag(a)
    BY <1>0, UnmarkedUnseen
  <2>3. \A u \in UserTasks : asid'[u].idx \in Indices
    BY <1>0, <1>4, <1>5
  <2>4. asid'[t].idx = a
    BY <1>4
  <2> QED BY <1>0, <1>4, <1>5, <1>6, <2>1, <2>2, <2>3, <2>4, SwitchSeen
<1> QED BY <1>0, <1>1, <1>2, <1>3, AsidAssumption DEF IInv

\* A new generation: no task holds an ASID of it but t, and what is cached will
\* be flushed before task_switch returns.
LEMMA GenerationKeeps == ASSUME NEW t \in UserTasks, IInv, NewGeneration(t) PROVE IInv'
<1> DEFINE a == find_next_zero_bit({}, 1)
<1> DEFINE g == asid_generation + 1
<1> USE DEF NewGeneration, Enter, as_switch, take
<1>9. NUM_USER_ASIDS \in get_cpu_asid_bits /\ NUM_USER_ASIDS \in Nat /\ NUM_USER_ASIDS >= 2
  BY SomeAsids DEF IInv, TypeOK
<1>0. /\ a \in 1 .. NUM_USER_ASIDS
      /\ asid_generation \in 1 .. MaxGeneration
      /\ asid \in [UserTasks -> [gen : 0 .. MaxGeneration, idx : Indices]]
  BY <1>9, NextZeroBit, AsidAssumption DEF IInv, TypeOK
<1>7. a = 1
  <2> DEFINE S == {i \in 1 .. NUM_USER_ASIDS - 1 : i \notin {}} \cup {NUM_USER_ASIDS}
  <2>1. S \in SUBSET Nat /\ S # {} /\ 1 \in S
    BY <1>9
  <2>2. Min(S) \in S /\ Min(S) <= 1
    BY <2>1, MinProperties
  <2>3. a = Min(S)
    BY DEF find_next_zero_bit
  <2> QED BY <1>9, <2>2, <2>3
<1>8. g \in 1 .. MaxGeneration /\ a \in Indices /\ a \in 1 .. NUM_USER_ASIDS - 1
  BY <1>0, <1>7, <1>9, AsidAssumption DEF Indices
<1>6. ttbr_tag(a) \in Tags
  BY <1>8, <1>9, TagsDiffer
<1>5. /\ asid' = [asid EXCEPT ![t] = [gen |-> g, idx |-> a]]
      /\ asid_bitmap' = {a}
      /\ ttbr0' = [owner |-> t, tag |-> ttbr_tag(a)]
      /\ cur_idx' = a
      /\ asid_generation' = g
      /\ NUM_USER_ASIDS' = NUM_USER_ASIDS /\ Indices' = Indices
      /\ ttbr_tag(1)' = ttbr_tag(a)
  BY <1>7 DEF Indices, ttbr_tag
<1>10. /\ tlb' = tlb /\ current' = t /\ switching' = TRUE /\ b_tlb_flush' = TRUE
  OBVIOUS
<1> HIDE DEF a, g, NewGeneration
<1>1. TypeOK'
  <2>1. [gen |-> g, idx |-> a] \in [gen : 0 .. MaxGeneration, idx : Indices]
    BY <1>0, <1>8, AsidAssumption
  <2> QED BY <1>0, <1>5, <1>6, <1>8, <1>9, <1>10, <2>1 DEF IInv, TypeOK
<1>4. /\ asid'[t] = [gen |-> g, idx |-> a]
      /\ \A u \in UserTasks \ {t} : asid'[u] = asid[u] /\ asid[u].gen <= asid_generation /\ ~ current_generation(u)'
  <2>1. \A u \in UserTasks : asid[u].gen <= asid_generation /\ asid[u].gen \in Int
    BY <1>0, AsidAssumption DEF IInv, HeldSafe
  <2> QED BY <1>0, <1>5, <2>1 DEF current_generation, g
<1>2. HeldSafe'
  <2>1. \A u \in UserTasks : asid'[u].gen <= g
    BY <1>0, <1>4, <1>8, AsidAssumption DEF g
  <2> QED BY <1>4, <1>5, <1>7, <2>1 DEF IInv, HeldSafe
<1>3. SeenSafe'
  <2>1. seen' = {ttbr0'}
    BY <1>10 DEF seen
  <2>2. ttbr0'.owner = t /\ ttbr0'.tag = ttbr_tag(1)'
    BY <1>5
  <2>3. 1 \in (asid_bitmap \ {0})'
    BY <1>5, <1>7
  <2> QED BY <1>4, <2>1, <2>2, <2>3 DEF SeenSafe
<1> QED BY <1>1, <1>2, <1>3, <1>5, <1>10, AsidAssumption DEF IInv

LEMMA FinishKeeps == IInv /\ FinishSwitch => IInv'
<1> SUFFICES ASSUME IInv, FinishSwitch PROVE IInv'
  OBVIOUS
<1> USE DEF FinishSwitch, IInv
<1>1. TypeOK'
  BY DEF TypeOK, Indices
<1>2. HeldSafe'
  BY DEF HeldSafe, current_generation
<1>3. SeenSafe'
  <2>1. seen' = seen
    BY DEF seen
  <2> QED BY <2>1 DEF SeenSafe, current_generation, ttbr_tag
<1> QED BY <1>1, <1>2, <1>3

LEMMA FillKeeps == IInv /\ TlbFill => IInv'
<1> SUFFICES ASSUME IInv, TlbFill PROVE IInv'
  OBVIOUS
<1> USE DEF TlbFill, IInv
<1>1. TypeOK'
  BY DEF TypeOK, Indices
<1>2. HeldSafe'
  BY DEF HeldSafe, current_generation
<1>3. SeenSafe'
  <2>1. seen' = seen
    BY DEF seen
  <2> QED BY <2>1 DEF SeenSafe, current_generation, ttbr_tag
<1> QED BY <1>1, <1>2, <1>3

LEMMA NextInv == IInv /\ [Next]_vars => IInv'
<1> SUFFICES ASSUME IInv, [Next]_vars PROVE IInv'
  OBVIOUS
<1>1. CASE UNCHANGED vars
  BY <1>1 DEF vars, IInv, TypeOK, Indices, HeldSafe, current_generation, SeenSafe, seen, ttbr_tag
<1>2. CASE Next
  BY <1>2, IdleKeeps, KeepKeeps, ReuseKeeps, NewKeeps, GenerationKeeps, FinishKeeps, FillKeeps
     DEF Next
<1> QED BY <1>1, <1>2

\* However many tasks share however few ASIDs, task_switch never lets two of
\* them use one value of TTBR0[63:48] between two flushes: outside it a user task
\* runs on its own table, nothing cached under its value is another's, and no
\* two tasks hold the same ASID.
THEOREM TagsStayUnshared == Spec => []TagsUnshared
<1>1. IInv => TagsUnshared
  <2> SUFFICES ASSUME IInv PROVE TagsUnshared
    OBVIOUS
  <2>1. AsidsUnique
    <3>1. \A t \in UserTasks : asid[t].gen = asid_generation => asid[t] # NoAsid
      BY DEF IInv, TypeOK, NoAsid
    <3> QED BY <3>1 DEF IInv, HeldSafe, AsidsUnique, current_generation
  <2>2. ~ switching /\ current # Idle =>
          /\ ttbr0.owner = current
          /\ \A e \in tlb : e.tag = ttbr0.tag => e.owner = current
    BY DEF IInv, SeenSafe, seen
  <2> QED BY <2>1, <2>2 DEF TagsUnshared
<1> QED BY <1>1, InitInv, NextInv, PTL DEF Spec

\* What the hardware makes of it: with 16-bit ASIDs the running task finds no
\* other's translation in the TLB while the generation has used only indices
\* that bits [55:48] can hold.
THEOREM IsolatedBelow256 == Spec => []IsolationBelow256
<1>1. IInv => IsolationBelow256
  <2> SUFFICES ASSUME IInv, NUM_USER_ASIDS # HW_ASIDS,
                      asid_bitmap \subseteq 0 .. HW_ASIDS - 1,
                      ~ switching, current # Idle,
                      NEW e \in tlb, hw_asid(e.tag) = hw_asid(ttbr0.tag)
               PROVE  e.owner = current
    BY DEF IsolationBelow256, NoForeignHit
  <2>1. \A x \in 0 .. HW_ASIDS - 1 : x % HW_ASIDS = x
    BY AsidAssumption
  <2>2. \A f \in seen : f.tag \in 0 .. HW_ASIDS - 1
    BY AsidAssumption DEF IInv, SeenSafe, ttbr_tag
  <2>3. e \in seen /\ ttbr0 \in seen
    BY DEF IInv, seen
  <2>4. e.tag = ttbr0.tag
    BY <2>1, <2>2, <2>3 DEF hw_asid
  <2> QED BY <2>3, <2>4 DEF IInv, SeenSafe
<1> QED BY <1>1, InitInv, NextInv, PTL DEF Spec
=============================================================================

-------------------------------- MODULE Gran --------------------------------
(***************************************************************************)
(* What the granule allocator promises: a heap of NGRANULES granules, of   *)
(* which gran_alloc(n) hands out the lowest run of n that is free, or NULL *)
(* when there is none, and gran_free takes a block back.  No table, no     *)
(* words, no search.  GranAlloc implements it.                             *)
(***************************************************************************)
EXTENDS Integers

CONSTANTS
  NGRANULES,  \* gran->ngranules
  MaxRun,     \* granules in the largest request accepted (32)
  Sizes       \* request sizes, in granules

NULL == -1

Granules == 0 .. NGRANULES - 1

VARIABLES
  used,    \* granules that are not free
  lost,    \* granules that were never free: the table's memory at boot
  blocks,  \* <<first granule, length>> of the allocations callers hold
  call,    \* size being searched for; 0 when no call is in progress
  ret,     \* result of the last call
  halted   \* an assertion failed: halt()

vars == <<used, lost, blocks, call, ret, halted>>

run(g, n) == g .. g + n - 1

fits(g, n) == run(g, n) \subseteq Granules \ used

Init ==
  /\ lost \in SUBSET Granules
  /\ used = lost
  /\ blocks = {}
  /\ call = 0
  /\ ret = NULL
  /\ halted = FALSE

Call(n) ==
  /\ call = 0
  /\ ~ halted
  /\ halted' = (n > MaxRun)
  /\ call' = IF n > MaxRun THEN 0 ELSE n
  /\ ret' = NULL
  /\ UNCHANGED <<used, lost, blocks>>

ReturnBlock ==
  /\ call # 0
  /\ \E g \in Granules :
       /\ fits(g, call)
       /\ \A h \in 0 .. g - 1 : ~ fits(h, call)
       /\ used' = used \cup run(g, call)
       /\ blocks' = blocks \cup {<<g, call>>}
       /\ ret' = g
  /\ call' = 0
  /\ UNCHANGED <<lost, halted>>

ReturnNull ==
  /\ call # 0
  /\ \A g \in Granules : ~ fits(g, call)
  /\ call' = 0
  /\ UNCHANGED <<used, lost, blocks, ret, halted>>

Free(b) ==
  /\ call = 0
  /\ ~ halted
  /\ b \in blocks
  /\ used' = used \ run(b[1], b[2])
  /\ blocks' = blocks \ {b}
  /\ ret' = NULL
  /\ UNCHANGED <<lost, call, halted>>

Next ==
  \/ \E n \in Sizes : Call(n)
  \/ ReturnBlock
  \/ ReturnNull
  \/ \E b \in blocks : Free(b)

Spec == Init /\ [][Next]_vars

FairSpec == Spec /\ WF_vars(ReturnBlock \/ ReturnNull)
=============================================================================

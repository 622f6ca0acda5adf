------------------------------ MODULE MCMalloc ------------------------------
(* Two classes: groups of small slots live in a slot of a large group.     *)
EXTENDS Malloc, TLC

MCHomes == [c \in {"small", "large"} |-> IF c = "small" THEN {"large"} ELSE {Mapped}]

\* Three groups, where a nested group has slots to free without the lock; and
\* two, where a mapped group that is not fully active has.
MCBounds ==
  LET counts(small, large) ==
        [c \in {"small", "large"} |-> IF c = "small" THEN small ELSE large]
  IN  {[nmeta |-> 3, counts |-> counts({3}, {2})],
       [nmeta |-> 2, counts |-> counts({2}, {1, 3})]}

MCSymmetry == Permutations(Threads) \cup Permutations(Metas)
=============================================================================

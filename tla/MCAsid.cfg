\* Five tasks share the ASIDs 1, 2 and 3, or have 1 to 15, of which the hardware
\* tells only 0 to 3 apart.
SPECIFICATION Spec
CONSTANTS
  t1 = t1
  t2 = t2
  t3 = t3
  t4 = t4
  t5 = t5
  Idle = Idle
  UserTasks <- MCTasks
  HW_ASIDS = 4
  MaxGeneration = 4
SYMMETRY MCSymmetry
INVARIANTS
  TagsUnshared
  IsolationBelow256

\* Pages of two addresses; the heap starts at 2, the stack at 20.  A page-aligned
\* break that goes up and down within the range of an int, areas without hints.
SPECIFICATION Spec
CONSTANTS
  PAGE_SIZE = 2
  start_brk = 2
  mmap_base = 20
  NGRANULES = 7
  MAX_GRANULES = 2
  INT_MAX_1 = 32
  Breaks = {0, 2, 4, 6}
  Hints = {0}
  Lengths = {1, 4}
  Prots = {{}, {"R"}, {"R", "W", "X"}}
  Unmapped = Unmapped
INVARIANTS
  MemoryDisjoint
  StaleTlbIsPrivate
PROPERTY
  MemoryKept
CHECK_DEADLOCK FALSE

\* The program's image is the three pages below start_brk.
SPECIFICATION HeapSpec
CONSTANTS
  PAGE_SIZE = 2
  start_brk = 6
  mmap_base = 30
  NGRANULES = 10
  MAX_GRANULES = 2
  INT_MAX_1 = 32
  Breaks = {}
  Hints = {}
  Lengths = {}
  Prots = {{}, {"R", "W"}}
  Unmapped = Unmapped
  Needed = {2, 4}
  NSLOTS = 2
INVARIANT
  FoundAreaIsFree
CHECK_DEADLOCK FALSE

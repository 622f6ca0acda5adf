\* Three entries of eight bits with two granules of the heap in the last, runs
\* across entries, a request above the limit.  halt() is final, so the system
\* may stop.
SPECIFICATION FairSpec
CONSTANTS
  W = 8
  Shifts = {4, 2}
  NGRANULES = 18
  Sizes = {0, 3, 5, 8, 9}
  Tables <- MCTables
  JunkWords <- MCJunk
INVARIANTS
  BlocksPartition
  SearchExact
PROPERTIES
  AssertsHold
  FirstFit
CHECK_DEADLOCK FALSE

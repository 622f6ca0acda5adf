SPECIFICATION Spec
CONSTANTS
  TIMER_CLOCK_HZ = 4
  KILO = 2
  TICKS_MOD = 32
  BITS_PER_LONG = 3
  WORD_BITS = 4
  Nil = Nil
  SleepCalls <- MCSleepCalls
  BitmapCalls <- MCBitmapCalls
  DumpCalls <- MCDumpCalls
  SortCalls <- MCSortCalls
  SearchCalls <- MCSearchCalls
  Keys = {1, 2, 3, 4, 5, 6, 7, 8, 9}
INVARIANTS
  DueIsElapsed
  BitmapCallsExact
  DumpReportsHeap
  SortsArray
  FindsNeedle
PROPERTY TreeStaysBalanced
CHECK_DEADLOCK FALSE

SPECIFICATION Spec
CONSTANTS
  Threads <- MCThreads
  None = None
  INT_MIN <- MCIntMin
  SPINS = 1
  SEM_VALUE_MAX = 2
  WRITER = 5
  limit = 2
  EBUSY = 16
  EBUSY_WAITS <- MCEbusyWaits
  Scenarios <- MCScenarios
INVARIANTS LockCongestion Excludes SemCount OnceRunsOnce BarrierTogether StackWordsLive
PROPERTY CallsReturn

SPECIFICATION FairSpec
CONSTANTS
  a = a
  b = b
  c = c
  idle_task = idle
  UserTasks = {a, b, c}
  CONFIG_MAX_TASK_PRIORITY = 16
  sched_priority <- MCPriorityMixed
  Requests <- MCRequests
  MaxClock = 6
  TIMER_CLOCK_HZ = 2
  KILO = 10
  TICKS_MOD = 16
INVARIANTS
  QueueIntegrity
  BitmapExact
  HighestPriorityRuns
  NoEarlyResume
PROPERTIES
  SleeperWakes
  RoundRobin

\* Two user tasks with programs of three positions.
SPECIFICATION FairSpec
CONSTANTS
  Users = {u1, u2}
  Idle = Idle
  Timer = Timer
  Other = Other
  Spurious = Spurious
  Boot = Boot
  Handled = {"brk"}
  Unhandled = {"unknown"}
  Results = {0, 7}
  ENOSYS = 38
  Positions = 3
INVARIANTS
  RegistersKept
  InterruptsEnded
PROPERTY
  TimerKeepsInterrupting

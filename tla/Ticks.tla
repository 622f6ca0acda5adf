-------------------------------- MODULE Ticks --------------------------------
(***************************************************************************)
(* Tick arithmetic of the kernel: how sys_nanosleep turns a timespec into  *)
(* an absolute wake-up time and how sched_pending_check compares it with   *)
(* the free-running counter.  ticks_t is unsigned and wraps at TICKS_MOD   *)
(* (2^64 in the code); the comparison is on the signed difference.         *)
(***************************************************************************)
EXTENDS Integers

CONSTANTS
  TIMER_CLOCK_HZ,  \* counter frequency, ticks per second (62500000)
  KILO,            \* the divisor ULL(1000) of the TICKS_PER_* macros
  TICKS_MOD        \* number of values of ticks_t (2^64)

ASSUME TicksAssumption ==
  /\ TIMER_CLOCK_HZ \in Nat \ {0}
  /\ KILO \in Nat \ {0}
  /\ TICKS_MOD \in Nat \ {0}
  /\ TICKS_MOD % 2 = 0

\* generic_timer.h: all divisions are integer divisions.
TICKS_PER_S == TIMER_CLOCK_HZ
TICKS_PER_NS == ((TIMER_CLOCK_HZ \div KILO) \div KILO) \div KILO

\* The relative part of the expression in sys_nanosleep.
sleep_ticks(req) == req.tv_sec * TICKS_PER_S + req.tv_nsec * TICKS_PER_NS

\* current->readytime as assigned by sys_nanosleep at counter value clk.
nanosleep_readytime(clk, req) == (clk + sleep_ticks(req)) % TICKS_MOD

\* Mutant: the difference is left unsigned.
remain_ticks_unsigned(readytime, clk) == (readytime - clk) % TICKS_MOD

\* int64_t remain_ticks = readytime - get_current_time();
remain_ticks(readytime, clk) ==
  LET d == (readytime - clk) % TICKS_MOD
  IN  IF d < TICKS_MOD \div 2 THEN d ELSE d - TICKS_MOD

\* Mutant: off by one.
is_due_at_once(readytime, clk) == remain_ticks(readytime, clk) <= 0

\* The test of sched_pending_check.
is_due(readytime, clk) == remain_ticks(readytime, clk) < 0
=============================================================================

----------------------------- MODULE MCScheduler -----------------------------
(***************************************************************************)
(* Instances of Scheduler for TLC.  Two rows of priorities are enough to   *)
(* exercise both levels of the bitmap; idle_task has the last priority, as *)
(* in idle_task_initialize.                                                *)
(***************************************************************************)
EXTENDS Scheduler, TLC

CONSTANTS a, b, c

\* One second is two ticks; the clock is slower than a tick per nanosecond,
\* as 62.5 MHz is.
MCRequests == [tv_sec : {0, 1}, tv_nsec : {0}]

\* Two tasks that take turns, and one below them in another row.
MCPriorityMixed == (idle_task :> 15) @@ (a :> 3) @@ (b :> 3) @@ (c :> 10)
=============================================================================

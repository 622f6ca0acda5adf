-------------------------------- MODULE Once --------------------------------
(***************************************************************************)
(* pthread_once (pthread_once.c).  A call may be made by a thread that is  *)
(* cancelled inside init: its cleanup handler undoes the start.  own is 1  *)
(* while a thread is in init, and 2 once pthread_once has returned to it.  *)
(***************************************************************************)
EXTENDS Futex

\* The unlocked look of __pthread_once.
once(t) ==
  /\ runs(t, "once")
  /\ IF mem.control = 2
     THEN Gain(t, "once", "idle", mem, NoReg, 2)
     ELSE Step(t, "once", "once_cas", mem, reg[t])

\* Mutant: a thread that finds another one in init starts as well.
once_may_start_too == mem.control \in {0, 1}
once_may_start == mem.control = 0

once_full(t) ==
  /\ runs(t, "once_cas")
  /\ \/ /\ once_may_start
        /\ Gain(t, "once_cas", "once_init", Set("control", 1), reg[t], 1)
     \/ /\ mem.control = 1
        /\ Step(t, "once_cas", "once_mark", mem, reg[t])
     \/ /\ mem.control = 3
        /\ Step(t, "once_cas", "wait", mem, [reg[t] EXCEPT !.l = "control", !.v = 3, !.to = "once_cas"])
     \/ /\ mem.control = 2
        /\ Gain(t, "once_cas", "idle", mem, NoReg, 2)

once_mark(t) ==
  Step(t, "once_mark", "wait", IF mem.control = 1 THEN Set("control", 3) ELSE mem,
       [reg[t] EXCEPT !.l = "control", !.v = 3, !.to = "once_cas"])

\* init runs to its end (n is 1 in a call that is cancelled).
once_done(t) ==
  /\ runs(t, "once_init")
  /\ reg[t].n = 0
  /\ Step(t, "once_init", "once_ran", [mem EXCEPT !.inits = @ + 1], reg[t])

once_swap(t) ==
  Gain(t, "once_ran", IF mem.control = 3 THEN "once_wake" ELSE "idle",
       Set("control", 2), NoReg, 2)

\* The thread is cancelled in init.
once_undo(t) ==
  /\ runs(t, "once_init")
  /\ reg[t].n = 1
  /\ Gain(t, "once_init", IF mem.control = 3 THEN "once_wake" ELSE "idle",
          Set("control", 0), NoReg, 0)

once_wake(t) == __wake(t, "once_wake", "idle", "control", Cardinality(Threads), NoReg)

OnceStep(t) ==
  \/ once(t) \/ once_full(t) \/ once_mark(t) \/ once_done(t) \/ once_swap(t)
  \/ once_undo(t) \/ once_wake(t)

\* pthread_once lets one thread into init at a time, runs it to its end once, and
\* returns to nobody before that.
OnceRunsOnce ==
  has("control") =>
    /\ mem.inits <= 1
    /\ \A t, u \in Threads : own[t] = 1 /\ own[u] = 1 => t = u
    /\ \A t \in Threads : own[t] = 2 => mem.inits = 1
=============================================================================

-------------------------------- MODULE Sem --------------------------------
(***************************************************************************)
(* Semaphores (sem_trywait.c, sem_timedwait.c, sem_post.c): a count that   *)
(* is -1 instead of 0 once a waiter may sleep, and a count of waiters.     *)
(* own is the tokens a thread has taken less those it has posted.          *)
(***************************************************************************)
EXTENDS Futex

CONSTANT SEM_VALUE_MAX  \* the largest value of a semaphore

\* The value read decides whether the waiters are read as well.
sem_trywait(t) ==
  LET v == mem.val IN
  Step(t, "sem_wait", IF v <= 0 THEN "sem_inc" ELSE IF v = 1 THEN "sem_look" ELSE "sem_take",
       mem, [reg[t] EXCEPT !.v = IF v <= 0 THEN 0 ELSE v])

sem_trywait_waiters(t) ==
  Step(t, "sem_look", "sem_take", mem, [reg[t] EXCEPT !.w = One(mem.waiters # 0)])

sem_trywait_cas(t) ==
  /\ runs(t, "sem_take")
  /\ IF mem.val = reg[t].v
     THEN Gain(t, "sem_take", "idle", Set("val", reg[t].v - 1 - reg[t].w), NoReg, own[t] + 1)
     ELSE Step(t, "sem_take", "sem_wait", mem, kept(reg[t]))

sem_wait_inc(t) ==
  Step(t, "sem_inc", "sem_mark", Set("waiters", mem.waiters + 1), reg[t])

sem_wait_mark(t) ==
  Step(t, "sem_mark", "sem_sleep", IF mem.val = 0 THEN Set("val", -1) ELSE mem, reg[t])

sem_wait_sleep(t) == timedwait(t, "sem_sleep", "sem_dec", "val", -1, reg[t])

sem_wait_dec(t) ==
  Step(t, "sem_dec", IF reg[t].e # 0 THEN "idle" ELSE "sem_wait",
       Set("waiters", mem.waiters - 1), IF reg[t].e # 0 THEN NoReg ELSE reg[t])

sem_post_val(t) ==
  Step(t, "sem_post", "sem_post_waiters", mem, [reg[t] EXCEPT !.v = mem.val])

sem_post_waiters(t) ==
  /\ runs(t, "sem_post_waiters")
  /\ IF reg[t].v = SEM_VALUE_MAX
     THEN Step(t, "sem_post_waiters", "idle", mem, NoReg)
     ELSE Step(t, "sem_post_waiters", "sem_post_cas", mem, [reg[t] EXCEPT !.w = mem.waiters])

\* Mutant: the marked zero counts as one less than zero.
posted_marked(v) == v + 1
posted(v) == v + 1 + One(v < 0)

sem_post_cas(t) ==
  /\ runs(t, "sem_post_cas")
  /\ IF mem.val = reg[t].v
     THEN Gain(t, "sem_post_cas", IF reg[t].v < 0 \/ reg[t].w # 0 THEN "sem_wake" ELSE "idle",
               Set("val", posted(reg[t].v)), NoReg, own[t] - 1)
     ELSE Step(t, "sem_post_cas", "sem_post", mem, kept(reg[t]))

sem_post_wake(t) == __wake(t, "sem_wake", "idle", "val", 1, NoReg)

SemStep(t) ==
  \/ sem_trywait(t) \/ sem_trywait_waiters(t) \/ sem_trywait_cas(t)
  \/ sem_wait_inc(t) \/ sem_wait_mark(t) \/ sem_wait_sleep(t) \/ sem_wait_dec(t)
  \/ sem_post_val(t) \/ sem_post_waiters(t) \/ sem_post_cas(t) \/ sem_post_wake(t)
=============================================================================

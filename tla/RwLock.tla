------------------------------- MODULE RwLock -------------------------------
(***************************************************************************)
(* Read-write locks (pthread_rwlock_*.c).  The word holds a count in its   *)
(* low bits, of readers or WRITER, and above them one bit that says that a *)
(* thread may sleep.  own is 1 for a reader and 2 for the writer.          *)
(***************************************************************************)
EXTENDS Futex

CONSTANT WRITER  \* the count that stands for a writer (0x7fffffff)

ASSUME RwLockAssumption ==
  IsFiniteSet(Threads) /\ WRITER \in Nat /\ WRITER > Cardinality(Threads) + 1

waits(x) == x > WRITER
cnt(x) == IF waits(x) THEN x - (WRITER + 1) ELSE x
marked(x) == cnt(x) + WRITER + 1

tryrdlock(t) ==
  LET x == mem.rw IN
  Step(t, "rdlock",
       IF cnt(x) = WRITER THEN "rd_busy" ELSE IF cnt(x) = WRITER - 1 THEN "idle" ELSE "rd_cas",
       mem, [reg[t] EXCEPT !.v = IF cnt(x) = WRITER THEN 0 ELSE x])

tryrdlock_cas(t) ==
  /\ runs(t, "rd_cas")
  /\ IF mem.rw = reg[t].v
     THEN Gain(t, "rd_cas", "idle", Set("rw", reg[t].v + 1), NoReg, 1)
     ELSE Step(t, "rd_cas", "rdlock", mem, kept(reg[t]))

trywrlock(t) ==
  /\ runs(t, "wrlock")
  /\ IF mem.rw = 0
     THEN Gain(t, "wrlock", "idle", Set("rw", WRITER), NoReg, 2)
     ELSE Step(t, "wrlock", "wr_busy", mem, reg[t])

\* The lock is read again; only what still keeps the caller out is waited for.
rd_busy(t) ==
  Step(t, "rd_busy", IF cnt(mem.rw) # WRITER THEN "rdlock" ELSE "rw_inc",
       mem, [reg[t] EXCEPT !.v = mem.rw, !.to = "rdlock"])

wr_busy(t) ==
  Step(t, "wr_busy", IF mem.rw = 0 THEN "wrlock" ELSE "rw_inc",
       mem, [reg[t] EXCEPT !.v = mem.rw, !.to = "wrlock"])

rw_inc(t) == Step(t, "rw_inc", "rw_mark", Set("waiters", mem.waiters + 1), reg[t])

rw_mark(t) ==
  Step(t, "rw_mark", "rw_sleep",
       IF mem.rw = reg[t].v THEN Set("rw", marked(mem.rw)) ELSE mem, reg[t])

rw_sleep(t) == timedwait(t, "rw_sleep", "rw_dec", "rw", marked(reg[t].v), kept(reg[t]))

rw_dec(t) ==
  Step(t, "rw_dec", IF reg[t].e # 0 THEN "idle" ELSE reg[t].to,
       Set("waiters", mem.waiters - 1), IF reg[t].e # 0 THEN NoReg ELSE reg[t])

rwlock_unlock(t) ==
  Step(t, "rwunlock", "rwunlock_look", mem, [reg[t] EXCEPT !.v = mem.rw])

rwlock_unlock_waiters(t) ==
  Step(t, "rwunlock_look", "rwunlock_cas", mem, [reg[t] EXCEPT !.w = mem.waiters])

\* Mutant: a reader leaves a lock it shares free.
unlocked_shared(x) == 0
unlocked(x) == IF cnt(x) \in {WRITER, 1} THEN 0 ELSE x - 1

rwlock_unlock_cas(t) ==
  LET r == reg[t] IN
  /\ runs(t, "rwunlock_cas")
  /\ IF mem.rw = r.v
     THEN Gain(t, "rwunlock_cas",
               IF unlocked(r.v) = 0 /\ (r.w # 0 \/ waits(r.v)) THEN "rwunlock_wake" ELSE "idle",
               Set("rw", unlocked(r.v)), r, 0)
     ELSE Step(t, "rwunlock_cas", "rwunlock", mem, kept(r))

rwlock_unlock_wake(t) == __wake(t, "rwunlock_wake", "idle", "rw", cnt(reg[t].v), NoReg)

RwStep(t) ==
  \/ tryrdlock(t) \/ tryrdlock_cas(t) \/ trywrlock(t) \/ rd_busy(t) \/ wr_busy(t)
  \/ rw_inc(t) \/ rw_mark(t) \/ rw_sleep(t) \/ rw_dec(t)
  \/ rwlock_unlock(t) \/ rwlock_unlock_waiters(t) \/ rwlock_unlock_cas(t)
  \/ rwlock_unlock_wake(t)
=============================================================================

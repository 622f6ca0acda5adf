------------------------------ MODULE LockWord ------------------------------
(***************************************************************************)
(* __lock and __unlock (__lock.c): one int that holds a lock flag, its     *)
(* sign bit, and the number of threads inside the critical section.        *)
(***************************************************************************)
EXTENDS Futex

CONSTANTS
  INT_MIN,  \* the flag: below minus the number of threads
  SPINS     \* tries of the first loop (10 in the code)

ASSUME LockWordAssumption ==
  /\ IsFiniteSet(Threads)
  /\ INT_MIN \in Int /\ INT_MIN < -Cardinality(Threads)
  /\ SPINS \in Nat

\* The congestion count of a value the lock was seen locked with, less the holder.
current(x) == IF x < 0 THEN x - (INT_MIN + 1) ELSE x

lock_fast(t) ==
  /\ runs(t, "lock")
  /\ IF mem.lock = 0
     THEN Gain(t, "lock", "idle", Set("lock", INT_MIN + 1), NoReg, 1)
     ELSE Step(t, "lock", "lock_spin", mem, [reg[t] EXCEPT !.v = mem.lock, !.n = SPINS])

lock_spin(t) ==
  LET cur == current(reg[t].v) IN
  /\ runs(t, "lock_spin")
  /\ reg[t].n > 0
  /\ IF mem.lock = cur
     THEN Gain(t, "lock_spin", "idle", Set("lock", INT_MIN + cur + 1), NoReg, 1)
     ELSE Step(t, "lock_spin", "lock_spin", mem,
               [reg[t] EXCEPT !.v = mem.lock, !.n = @ - 1])

\* Mutant: a thread goes on to wait without counting itself.
lock_enter_uncounted(t) ==
  /\ runs(t, "lock_spin")
  /\ reg[t].n = 0
  /\ Step(t, "lock_spin", "lock_loop", mem, [reg[t] EXCEPT !.v = mem.lock])

lock_enter(t) ==
  /\ runs(t, "lock_spin")
  /\ reg[t].n = 0
  /\ Step(t, "lock_spin", "lock_loop", Set("lock", mem.lock + 1),
          [reg[t] EXCEPT !.v = mem.lock + 1])

lock_wait(t) ==
  /\ runs(t, "lock_loop")
  /\ reg[t].v < 0
  /\ futex_wait(t, "lock_loop", "lock_loop", "lock", reg[t].v,
                [reg[t] EXCEPT !.v = current(@)])

lock_cas(t) ==
  /\ runs(t, "lock_loop")
  /\ reg[t].v >= 0
  /\ IF mem.lock = reg[t].v
     THEN Gain(t, "lock_loop", "idle", Set("lock", INT_MIN + reg[t].v), NoReg, 1)
     ELSE Step(t, "lock_loop", "lock_loop", mem, [reg[t] EXCEPT !.v = mem.lock])

unlock_wakes(old) == old # INT_MIN + 1

unlock(t) ==
  /\ runs(t, "unlock")
  /\ IF mem.lock < 0
     THEN Gain(t, "unlock", IF unlock_wakes(mem.lock) THEN "unlock_wake" ELSE "idle",
               Set("lock", mem.lock - (INT_MIN + 1)), NoReg, 0)
     ELSE Gain(t, "unlock", "idle", mem, NoReg, 0)

unlock_wake(t) == __wake(t, "unlock_wake", "idle", "lock", 1, NoReg)

LockStep(t) ==
  \/ lock_fast(t) \/ lock_spin(t) \/ lock_enter(t) \/ lock_wait(t) \/ lock_cas(t)
  \/ unlock(t) \/ unlock_wake(t)

\* The threads that have added themselves to the count.
inside == {t \in Threads : own[t] = 1 \/ pc[t] = "lock_loop"}

\* The word of __lock is what the comment above it says: its count is the number
\* of threads inside the critical section, holder included, its flag says whether
\* one holds it, and the value the main loop compares with counts the thread itself.
LockCongestion ==
  has("lock") =>
    /\ mem.lock = Cardinality(inside) + (IF \E t \in Threads : own[t] = 1 THEN INT_MIN ELSE 0)
    /\ \A t \in Threads : pc[t] = "lock_loop" /\ reg[t].v >= 0 => reg[t].v > 0
    /\ \A t \in Threads : pc[t] = "lock_spin" => current(reg[t].v) >= 0
=============================================================================

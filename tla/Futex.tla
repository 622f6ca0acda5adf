------------------------------- MODULE Futex -------------------------------
(***************************************************************************)
(* What musl's synchronisation objects are built from: threads, words of   *)
(* memory and futex waits (__wait.c, __timedwait.c, pthread_impl.h).  One  *)
(* step of a thread is one access to shared memory or one system call.     *)
(*                                                                         *)
(* The system call is external.  FUTEX_WAIT sleeps if the word still has   *)
(* the value it is given, and may return early; on this repository's       *)
(* kernel, which answers -ENOSYS, it always does.                          *)
(***************************************************************************)
EXTENDS Integers, Sequences, FiniteSets

CONSTANTS Threads, None

VARIABLES
  mem,     \* the words of the object in use
  asleep,  \* thread -> address it sleeps on, or None
  pc,      \* thread -> next step, "idle" between calls
  reg,     \* thread -> its local variables
  own,     \* thread -> what it has got from the object
  todo     \* thread -> calls it still will make

futexvars == <<mem, asleep, pc, reg, own, todo>>

NoReg == [v |-> 0, w |-> 0, e |-> 0, n |-> 0, p |-> None, first |-> None,
          l |-> None, to |-> "idle", ret |-> "idle", timed |-> 0]

\* The locals once the values read for a compare-and-swap are dead.
kept(r) == [r EXCEPT !.v = 0, !.w = 0]

\* The word of a structure on the stack of thread t; thread names are strings.
stack(f, t) == f \o t

Set(a, v) == [mem EXCEPT ![a] = v]
runs(t, label) == pc[t] = label /\ asleep[t] = None
One(b) == IF b THEN 1 ELSE 0

\* A step of thread t: the words become m and its locals r.
Step(t, from, to, m, r) ==
  /\ runs(t, from)
  /\ pc' = [pc EXCEPT ![t] = to]
  /\ mem' = m
  /\ reg' = [reg EXCEPT ![t] = r]
  /\ UNCHANGED <<asleep, own, todo>>

\* The same for a step by which t gets or gives back something.
Gain(t, from, to, m, r, o) ==
  /\ runs(t, from)
  /\ pc' = [pc EXCEPT ![t] = to]
  /\ mem' = m
  /\ reg' = [reg EXCEPT ![t] = r]
  /\ own' = [own EXCEPT ![t] = o]
  /\ UNCHANGED <<asleep, todo>>

futex_wait(t, from, to, a, val, r) ==
  /\ runs(t, from)
  /\ pc' = [pc EXCEPT ![t] = to]
  /\ reg' = [reg EXCEPT ![t] = r]
  /\ asleep' = IF mem[a] = val THEN [asleep EXCEPT ![t] = a] ELSE asleep
  /\ UNCHANGED <<mem, own, todo>>

\* __timedwait: a deadline that has passed (timed is 0 without one, 1 before it and
\* 2 after it) is an error at once.
timedwait(t, from, to, a, val, r) ==
  IF reg[t].timed = 2
  THEN Step(t, from, to, mem, [r EXCEPT !.e = 1])
  ELSE futex_wait(t, from, to, a, val, r)

\* __wait(reg.l, reg.p, reg.v), which goes on at reg.to.  Its spinning is one
\* look at the two words; a waiters counter of None is a null pointer.
wait_spin(t) ==
  LET r == reg[t] IN
  Step(t, "wait",
       IF r.p # None /\ mem[r.p] # 0 THEN "wait_inc"
       ELSE IF mem[r.l] # r.v THEN r.to
       ELSE IF r.p # None THEN "wait_inc" ELSE "wait_loop",
       mem, r)

wait_inc(t) ==
  Step(t, "wait_inc", "wait_loop", Set(reg[t].p, mem[reg[t].p] + 1), reg[t])

wait_loop(t) ==
  /\ runs(t, "wait_loop")
  /\ IF mem[reg[t].l] = reg[t].v
     THEN futex_wait(t, "wait_loop", "wait_loop", reg[t].l, reg[t].v, reg[t])
     ELSE Step(t, "wait_loop", IF reg[t].p = None THEN reg[t].to ELSE "wait_dec",
               mem, reg[t])

wait_dec(t) ==
  Step(t, "wait_dec", reg[t].to, Set(reg[t].p, mem[reg[t].p] - 1), reg[t])

__wait(t) == wait_spin(t) \/ wait_inc(t) \/ wait_loop(t) \/ wait_dec(t)

sleepers(a) == {t \in Threads : asleep[t] = a}

\* The sleepers a wake of up to n may choose.
woken(a, n) ==
  {W \in SUBSET sleepers(a) :
     Cardinality(W) = IF n < Cardinality(sleepers(a)) THEN n ELSE Cardinality(sleepers(a))}

__wake(t, from, to, a, n, r) ==
  /\ runs(t, from)
  /\ pc' = [pc EXCEPT ![t] = to]
  /\ reg' = [reg EXCEPT ![t] = r]
  /\ \E W \in woken(a, n) :
       asleep' = [u \in Threads |-> IF u \in W THEN None ELSE asleep[u]]
  /\ UNCHANGED <<mem, own, todo>>

\* FUTEX_REQUEUE of one sleeper from a to b.
futex_requeue(t, from, to, a, b, r) ==
  /\ runs(t, from)
  /\ pc' = [pc EXCEPT ![t] = to]
  /\ reg' = [reg EXCEPT ![t] = r]
  /\ \E W \in woken(a, 1) :
       asleep' = [u \in Threads |-> IF u \in W THEN b ELSE asleep[u]]
  /\ UNCHANGED <<mem, own, todo>>

\* A wait returns early: -ENOSYS, or EINTR.  EINTR is an error to sem_timedwait
\* once the program has installed a signal handler that interrupts; the other
\* callers wait again.
futex_returns(t) ==
  /\ asleep[t] # None
  /\ asleep' = [asleep EXCEPT ![t] = None]
  /\ \/ UNCHANGED reg
     \/ pc[t] = "sem_dec" /\ reg' = [reg EXCEPT ![t].e = 1]
  /\ UNCHANGED <<mem, pc, own, todo>>

\* The deadline of a call passes: a wait with that deadline, which is followed by one
\* of these steps, returns ETIMEDOUT.
deadline_passes(t) ==
  LET late == asleep[t] # None /\ pc[t] \in {"sem_dec", "rw_dec", "cw_woken"} IN
  /\ reg[t].timed = 1
  /\ asleep' = IF late THEN [asleep EXCEPT ![t] = None] ELSE asleep
  /\ reg' = [reg EXCEPT ![t].timed = 2, ![t].e = One(late)]
  /\ UNCHANGED <<mem, pc, own, todo>>
-----------------------------------------------------------------------------
\* The words say which object is in use.
has(w) == w \in DOMAIN mem

\* A lock excludes: the holder of a __lock or of a mutex, and the writer of a
\* read-write lock, hold it alone, whatever order the compare-and-swaps come in.
Excludes ==
  \A t, u \in Threads :
    t # u /\ own[t] = (IF has("rw") THEN 2 ELSE 1) /\ (has("lock") \/ has("rw") \/ has("m_lock"))
      => own[u] = 0
=============================================================================

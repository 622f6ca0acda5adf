------------------------------ MODULE CondVar ------------------------------
(***************************************************************************)
(* Mutexes of the normal type (pthread_mutex_*.c) and condition variables  *)
(* of one process (pthread_cond_timedwait.c).  A waiter's node lives on    *)
(* its stack: the words stack(field, thread); so does the count ref of a      *)
(* signalling thread.  own is 1 for the thread that holds the mutex.       *)
(***************************************************************************)
EXTENDS Futex

CONSTANTS EBUSY, EBUSY_WAITS  \* a locked mutex, without and with its sign bit

\* Locals with which t enters lock(l) or unlock(l) and goes on at label.
sub(r, l, label) == [r EXCEPT !.l = l, !.to = label]
back(r) == [r EXCEPT !.l = None, !.to = "idle"]

(***************************************************************************)
(* pthread_mutex_lock and pthread_mutex_unlock, which go on at reg.ret.    *)
(***************************************************************************)
mutex_trylock(t) ==
  /\ runs(t, "mx_lock")
  /\ IF mem.m_lock = 0
     THEN Gain(t, "mx_lock", reg[t].ret, Set("m_lock", EBUSY), kept(reg[t]), 1)
     ELSE Step(t, "mx_lock", "mx_busy", mem, reg[t])

mutex_busy(t) ==
  Step(t, "mx_busy", IF mem.m_lock = 0 THEN "mx_lock" ELSE "mx_inc", mem,
       [reg[t] EXCEPT !.v = mem.m_lock])

mutex_inc(t) == Step(t, "mx_inc", "mx_mark", Set("m_waiters", mem.m_waiters + 1), reg[t])

mutex_mark(t) ==
  Step(t, "mx_mark", "mx_sleep",
       IF mem.m_lock = reg[t].v THEN Set("m_lock", EBUSY_WAITS) ELSE mem, kept(reg[t]))

mutex_sleep(t) == futex_wait(t, "mx_sleep", "mx_dec", "m_lock", EBUSY_WAITS, reg[t])

mutex_dec(t) == Step(t, "mx_dec", "mx_lock", Set("m_waiters", mem.m_waiters - 1), kept(reg[t]))

mutex_unlock(t) ==
  Step(t, "mx_unlock", "mx_swap", mem, [reg[t] EXCEPT !.w = mem.m_waiters])

\* Mutant: only the count of waiters that was read is believed.
mutex_wakes_counted(t) == reg[t].w # 0
mutex_wakes(t) == reg[t].w # 0 \/ mem.m_lock = EBUSY_WAITS

mutex_swap(t) ==
  Gain(t, "mx_swap", IF mutex_wakes(t) THEN "mx_wake" ELSE reg[t].ret,
       Set("m_lock", 0), kept(reg[t]), 0)

mutex_wake(t) == __wake(t, "mx_wake", reg[t].ret, "m_lock", 1, reg[t])

MutexStep(t) ==
  \/ mutex_trylock(t) \/ mutex_busy(t) \/ mutex_inc(t) \/ mutex_mark(t) \/ mutex_sleep(t)
  \/ mutex_dec(t) \/ mutex_unlock(t) \/ mutex_swap(t) \/ mutex_wake(t)

(***************************************************************************)
(* The static lock(l) and unlock(l): 0 free, 1 locked, 2 locked and a      *)
(* thread may sleep.                                                       *)
(***************************************************************************)
lk_try(t) ==
  Step(t, "lk", IF mem[reg[t].l] = 0 THEN reg[t].to ELSE "lk_mark",
       IF mem[reg[t].l] = 0 THEN Set(reg[t].l, 1) ELSE mem,
       IF mem[reg[t].l] = 0 THEN back(reg[t]) ELSE reg[t])

lk_mark(t) ==
  Step(t, "lk_mark", "lk_wait", IF mem[reg[t].l] = 1 THEN Set(reg[t].l, 2) ELSE mem, reg[t])

lk_wait(t) ==
  /\ runs(t, "lk_wait")
  /\ IF mem[reg[t].l] = 2
     THEN futex_wait(t, "lk_wait", "lk_wait", reg[t].l, 2, reg[t])
     ELSE Step(t, "lk_wait", "lk_again", mem, reg[t])

lk_again(t) ==
  Step(t, "lk_again", IF mem[reg[t].l] = 0 THEN reg[t].to ELSE "lk_wait",
       IF mem[reg[t].l] = 0 THEN Set(reg[t].l, 2) ELSE mem,
       IF mem[reg[t].l] = 0 THEN back(reg[t]) ELSE reg[t])

ul_swap(t) ==
  Step(t, "ul", IF mem[reg[t].l] = 2 THEN "ul_wake" ELSE reg[t].to, Set(reg[t].l, 0),
       IF mem[reg[t].l] = 2 THEN reg[t] ELSE back(reg[t]))

ul_wake(t) == __wake(t, "ul_wake", reg[t].to, reg[t].l, 1, back(reg[t]))

LkStep(t) ==
  \/ lk_try(t) \/ lk_mark(t) \/ lk_wait(t) \/ lk_again(t)
  \/ ul_swap(t) \/ ul_wake(t)
(***************************************************************************)
(* pthread_cond_timedwait.  The caller holds the mutex; it goes on at      *)
(* "cond_returned" with the mutex held, e is 1 if the wait timed out.      *)
(***************************************************************************)
WAITING  == 0
SIGNALED == 1
LEAVING  == 2

\* The locals of a thread that enters pthread_cond_timedwait, at "lk".
cond_entry(r) == [sub(NoReg, "c_lock", "cw_insert") EXCEPT !.timed = r.timed]

cond_insert(t) ==
  LET h == mem.c_head
      m == [mem EXCEPT ![stack("barrier", t)] = 2, ![stack("state", t)] = WAITING,
                       ![stack("next", t)] = h, ![stack("prev", t)] = None,
                       ![stack("notify", t)] = None,
                       !.c_head = t, !.c_tail = IF @ = None THEN t ELSE @]
  IN Step(t, "cw_insert", "ul",
          IF mem.c_tail = None THEN m ELSE [m EXCEPT ![stack("prev", h)] = t],
          [sub(reg[t], "c_lock", "mx_unlock") EXCEPT !.ret = "cw_sleep"])

cond_sleep(t) == timedwait(t, "cw_sleep", "cw_woken", stack("barrier", t), 2, reg[t])

cond_woken(t) ==
  Step(t, "cw_woken", IF mem[stack("barrier", t)] = 2 /\ reg[t].e = 0 THEN "cw_sleep" ELSE "cw_leave",
       mem, reg[t])

leaves(t) == mem[stack("state", t)] = WAITING

cond_leave(t) ==
  /\ runs(t, "cw_leave")
  /\ IF leaves(t)
     THEN Step(t, "cw_leave", "lk", Set(stack("state", t), LEAVING), sub(reg[t], "c_lock", "cw_unlink"))
     ELSE Step(t, "cw_leave", "lk", mem,
               [sub(reg[t], stack("barrier", t), "mx_lock") EXCEPT !.ret = "cw_relocked"])

cond_unlink(t) ==
  LET p == mem[stack("prev", t)]
      x == mem[stack("next", t)]
  IN Step(t, "cw_unlink", "ul",
          [a \in DOMAIN mem |->
             CASE a = "c_head" /\ mem[a] = t -> x
               [] p # None /\ a = stack("next", p) /\ mem.c_head # t -> x
               [] a = "c_tail" /\ mem[a] = t -> p
               [] x # None /\ a = stack("prev", x) /\ mem.c_tail # t -> p
               [] OTHER -> mem[a]],
          sub(reg[t], "c_lock", "cw_notify"))

cond_notify(t) ==
  LET u == mem[stack("notify", t)]
      r == [reg[t] EXCEPT !.ret = "cw_done"] IN
  /\ runs(t, "cw_notify")
  /\ IF u = None THEN Step(t, "cw_notify", "mx_lock", mem, r)
     ELSE Step(t, "cw_notify", IF mem[stack("ref", u)] = 1 THEN "cw_notify_wake" ELSE "mx_lock",
               Set(stack("ref", u), mem[stack("ref", u)] - 1), [r EXCEPT !.p = u])

cond_notify_wake(t) ==
  __wake(t, "cw_notify_wake", "mx_lock", stack("ref", reg[t].p), 1, reg[t])

\* The waiters of a broadcast count as one waiter of the mutex, from the first
\* one that has relocked it to the last.
cond_relocked(t) ==
  Step(t, "cw_relocked", IF mem[stack("prev", t)] # None THEN "cw_read" ELSE "cw_last",
       IF mem[stack("next", t)] = None THEN Set("m_waiters", mem.m_waiters + 1) ELSE mem, reg[t])

cond_last(t) ==
  Step(t, "cw_last", "cw_done", Set("m_waiters", mem.m_waiters - 1), reg[t])

cond_read(t) == Step(t, "cw_read", "cw_mark", mem, [reg[t] EXCEPT !.v = mem.m_lock])

cond_mark(t) ==
  Step(t, "cw_mark", "cw_next",
       IF reg[t].v = EBUSY /\ mem.m_lock = reg[t].v THEN Set("m_lock", EBUSY_WAITS) ELSE mem,
       kept(reg[t]))

\* unlock_requeue of the next waiter's barrier.
cond_next(t) ==
  Step(t, "cw_next", "cw_requeue", Set(stack("barrier", mem[stack("prev", t)]), 0),
       [reg[t] EXCEPT !.p = mem[stack("prev", t)]])

cond_requeue(t) ==
  futex_requeue(t, "cw_requeue", "cw_done", stack("barrier", reg[t].p), "m_lock", reg[t])

\* The call returns, and its node is gone.
cond_done(t) ==
  Step(t, "cw_done", "cond_returned",
       [a \in DOMAIN mem |-> IF a \in {stack(f, t) : f \in {"barrier", "state"}} THEN 0
                             ELSE IF a \in {stack(f, t) : f \in {"prev", "next", "notify"}} THEN None
                             ELSE mem[a]],
       [NoReg EXCEPT !.e = reg[t].e, !.timed = reg[t].timed])

CondStep(t) ==
  \/ cond_insert(t) \/ cond_sleep(t) \/ cond_woken(t) \/ cond_leave(t)
  \/ cond_unlink(t) \/ cond_notify(t) \/ cond_notify_wake(t) \/ cond_relocked(t)
  \/ cond_last(t) \/ cond_read(t) \/ cond_mark(t) \/ cond_next(t) \/ cond_requeue(t)
  \/ cond_done(t)

(***************************************************************************)
(* __private_cond_signal of reg.n waiters.                                  *)
(***************************************************************************)
signal_enter(t) ==
  Step(t, "signal", "lk", Set(stack("ref", t), 0),
       [sub(NoReg, "c_lock", "sg_tail") EXCEPT !.n = reg[t].n])

signal_tail(t) == Step(t, "sg_tail", "sg_walk", mem, [reg[t] EXCEPT !.p = mem.c_tail])

signal_walk(t) ==
  LET r == reg[t]
      p == r.p
      r2 == [r EXCEPT !.p = mem[stack("prev", p)]] IN
  /\ runs(t, "sg_walk")
  /\ IF r.n = 0 \/ p = None THEN Step(t, "sg_walk", "sg_split", mem, r)
     ELSE IF mem[stack("state", p)] = WAITING
     THEN Step(t, "sg_walk", "sg_walk", Set(stack("state", p), SIGNALED),
               [r2 EXCEPT !.n = @ - 1, !.first = IF @ = None THEN p ELSE @])
     ELSE Step(t, "sg_walk", "sg_walk",
               [mem EXCEPT ![stack("ref", t)] = @ + 1, ![stack("notify", p)] = t], r2)

signal_split(t) ==
  LET p == reg[t].p
      x == mem[stack("next", p)]
      m == [mem EXCEPT !.c_tail = p] IN
  Step(t, "sg_split", "ul",
       IF p = None THEN [m EXCEPT !.c_head = None]
       ELSE IF x = None THEN m
       ELSE [m EXCEPT ![stack("prev", x)] = None, ![stack("next", p)] = None],
       sub([reg[t] EXCEPT !.n = 0, !.p = None], "c_lock", "sg_wait"))

signal_wait(t) ==
  LET cur == mem[stack("ref", t)] IN
  /\ runs(t, "sg_wait")
  /\ IF cur # 0 THEN futex_wait(t, "sg_wait", "sg_wait", stack("ref", t), cur, reg[t])
     ELSE IF reg[t].first = None THEN Step(t, "sg_wait", "signalled", mem, NoReg)
     ELSE Step(t, "sg_wait", "ul", mem, sub(reg[t], stack("barrier", reg[t].first), "signalled"))

SignalStep(t) ==
  \/ signal_enter(t) \/ signal_tail(t) \/ signal_walk(t) \/ signal_split(t) \/ signal_wait(t)
=============================================================================

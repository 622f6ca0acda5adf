------------------------------ MODULE Barrier ------------------------------
(***************************************************************************)
(* pthread_barrier_wait for a barrier of one process                       *)
(* (pthread_barrier_wait.c).  The first thread of a round owns the round's *)
(* instance, which lives on its stack: the words stack(field, owner).  own is *)
(* the number of rounds a thread has left.                                 *)
(***************************************************************************)
EXTENDS Futex

CONSTANT limit  \* _b_limit: the threads of a round less one

ASSUME BarrierAssumption == limit \in Nat \ {0}

\* while (a_swap(&b->_b_lock, 1)) __wait(&b->_b_lock, &b->_b_waiters, 1, 1);
barrier_lock(t) ==
  LET r == [reg[t] EXCEPT !.l = "b_lock", !.p = "b_waiters", !.v = 1, !.to = "barrier"] IN
  /\ runs(t, "barrier")
  /\ IF mem.b_lock = 0
     THEN Step(t, "barrier", "barrier_in", Set("b_lock", 1), NoReg)
     ELSE Step(t, "barrier", "wait", mem, r)

\* The first thread makes an instance, the others count themselves in it.
barrier_own(t) ==
  /\ runs(t, "barrier_in")
  /\ mem.b_inst = None
  /\ Step(t, "barrier_in", "barrier_open",
          [a \in DOMAIN mem |-> IF a = "b_inst" THEN t
                                ELSE IF a \in {stack(f, t) : f \in {"count", "last", "waiters", "finished"}}
                                THEN 0 ELSE mem[a]],
          [reg[t] EXCEPT !.first = t, !.to = "barrier_inc"])

\* Mutant: the round is full one thread early.
full_early(n) == n = limit - 1
full(n) == n = limit

barrier_join(t) ==
  LET o == mem.b_inst
      n == mem[stack("count", o)] + 1 IN
  /\ runs(t, "barrier_in")
  /\ o # None
  /\ Step(t, "barrier_in", "barrier_open",
          [mem EXCEPT ![stack("count", o)] = n, !.b_inst = IF full(n) THEN None ELSE o],
          [reg[t] EXCEPT !.first = o, !.to = IF full(n) THEN "barrier_last" ELSE "wait"])

\* Where every path unlocks the barrier, and wakes one waiter if there are some.
barrier_open(t) ==
  Step(t, "barrier_open", "barrier_open_look", Set("b_lock", 0), reg[t])

\* A thread that is neither first nor last goes on to wait for last.
joined(t) ==
  IF reg[t].to = "wait"
  THEN [reg[t] EXCEPT !.l = stack("last", reg[t].first), !.p = stack("waiters", reg[t].first),
                      !.v = 0, !.to = "barrier_out"]
  ELSE reg[t]

barrier_open_look(t) ==
  /\ runs(t, "barrier_open_look")
  /\ IF mem.b_waiters # 0
     THEN Step(t, "barrier_open_look", "barrier_open_wake", mem, reg[t])
     ELSE Step(t, "barrier_open_look", reg[t].to, mem, joined(t))

barrier_open_wake(t) == __wake(t, "barrier_open_wake", reg[t].to, "b_lock", 1, joined(t))

\* The owner: a_inc(&inst->finished), then it sleeps while that is 1.
barrier_inc(t) ==
  Step(t, "barrier_inc", "barrier_finish",
       Set(stack("finished", t), mem[stack("finished", t)] + 1), reg[t])

barrier_finish(t) ==
  /\ runs(t, "barrier_finish")
  /\ IF mem[stack("finished", t)] = 1
     THEN futex_wait(t, "barrier_finish", "barrier_finish", stack("finished", t), 1, reg[t])
     ELSE Gain(t, "barrier_finish", "idle", mem, NoReg, own[t] + 1)

\* The last thread in opens the round, unless it is the only one to join.
barrier_last(t) ==
  Step(t, "barrier_last", "barrier_last_look", Set(stack("last", reg[t].first), 1), reg[t])

barrier_last_look(t) ==
  Step(t, "barrier_last_look",
       IF mem[stack("waiters", reg[t].first)] # 0 THEN "barrier_last_wake" ELSE "barrier_out",
       mem, reg[t])

barrier_last_wake(t) ==
  __wake(t, "barrier_last_wake", "barrier_out", stack("last", reg[t].first),
         Cardinality(Threads), reg[t])

\* Mutant: the first thread out, not the last, tells the owner.
last_out_first(n) == n = limit
last_out(n) == n = 1

barrier_out(t) ==
  LET a == stack("count", reg[t].first) IN
  /\ runs(t, "barrier_out")
  /\ IF last_out(mem[a])
     THEN Step(t, "barrier_out", "barrier_tell", Set(a, mem[a] - 1), reg[t])
     ELSE Gain(t, "barrier_out", "idle", Set(a, mem[a] - 1), NoReg, own[t] + 1)

barrier_tell(t) ==
  LET a == stack("finished", reg[t].first) IN
  /\ runs(t, "barrier_tell")
  /\ IF mem[a] # 0
     THEN Gain(t, "barrier_tell", "barrier_wake", Set(a, mem[a] + 1), reg[t], own[t] + 1)
     ELSE Gain(t, "barrier_tell", "idle", Set(a, 1), NoReg, own[t] + 1)

barrier_wake(t) ==
  __wake(t, "barrier_wake", "idle", stack("finished", reg[t].first), 1, NoReg)

BarrierStep(t) ==
  \/ barrier_lock(t) \/ barrier_own(t) \/ barrier_join(t) \/ barrier_open(t)
  \/ barrier_open_look(t) \/ barrier_open_wake(t) \/ barrier_inc(t) \/ barrier_finish(t)
  \/ barrier_last(t) \/ barrier_last_look(t) \/ barrier_last_wake(t)
  \/ barrier_out(t) \/ barrier_tell(t) \/ barrier_wake(t)
=============================================================================

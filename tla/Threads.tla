------------------------------ MODULE Threads ------------------------------
(***************************************************************************)
(* Threads that call musl's synchronisation objects.  A scenario gives the *)
(* words of one object and the calls each thread makes on it; the threads  *)
(* interleave at every access to shared memory.                            *)
(***************************************************************************)
EXTENDS LockWord, Sem, RwLock, Once, Barrier, CondVar, FiniteSetsExt

CONSTANT Scenarios  \* of [mem, calls: thread -> sequence of calls]

Init ==
  \E s \in Scenarios :
    /\ mem = s.mem
    /\ todo = s.calls
    /\ asleep = [t \in Threads |-> None]
    /\ pc = [t \in Threads |-> "idle"]
    /\ reg = [t \in Threads |-> NoReg]
    /\ own = [t \in Threads |-> 0]

\* A thread makes its next call.  One whose lock attempt has failed has nothing
\* to unlock.
call(t) ==
  /\ runs(t, "idle")
  /\ todo[t] # << >>
  /\ LET c == Head(todo[t]) IN
     pc' = [pc EXCEPT ![t] = IF c.at = "rwunlock" /\ own[t] = 0 THEN "idle" ELSE c.at]
  /\ reg' = [reg EXCEPT ![t] = [NoReg EXCEPT !.timed = Head(todo[t]).timed,
                                             !.n = Head(todo[t]).n,
                                             !.ret = Head(todo[t]).ret]]
  /\ todo' = [todo EXCEPT ![t] = Tail(@)]
  /\ UNCHANGED <<mem, asleep, own>>

(***************************************************************************)
(* The users of a condition variable: a consumer waits until there is a    *)
(* token and takes it, or gives up at its deadline; a producer puts one    *)
(* and signals after unlocking, or puts two and broadcasts before.         *)
(***************************************************************************)
consume(t) ==
  /\ runs(t, "cond_returned")
  /\ \/ /\ mem.tokens > 0
        /\ Step(t, "cond_returned", "mx_unlock", Set("tokens", mem.tokens - 1), NoReg)
     \/ /\ mem.tokens = 0 /\ reg[t].e = 1
        /\ Step(t, "cond_returned", "mx_unlock", mem, NoReg)
     \/ /\ mem.tokens = 0 /\ reg[t].e = 0
        /\ Step(t, "cond_returned", "lk", mem, cond_entry(reg[t]))

put_one(t) ==
  Step(t, "put_one", "mx_unlock", Set("tokens", mem.tokens + 1),
       [reg[t] EXCEPT !.ret = "signal", !.n = 1])

put_two(t) ==
  Step(t, "put_two", "signal", Set("tokens", mem.tokens + 2), [NoReg EXCEPT !.n = -1])

signalled(t) ==
  Step(t, "signalled", IF own[t] = 1 THEN "mx_unlock" ELSE "idle", mem, NoReg)

ClientStep(t) == consume(t) \/ put_one(t) \/ put_two(t) \/ signalled(t)

ThreadStep(t) ==
  \/ call(t)
  \/ has("lock") /\ LockStep(t)
  \/ has("val") /\ SemStep(t)
  \/ has("rw") /\ RwStep(t)
  \/ has("control") /\ (OnceStep(t) \/ __wait(t))
  \/ has("b_lock") /\ (BarrierStep(t) \/ __wait(t))
  \/ has("m_lock") /\ (MutexStep(t) \/ LkStep(t) \/ CondStep(t) \/ SignalStep(t) \/ ClientStep(t))

Finished == \A t \in Threads : pc[t] = "idle" /\ todo[t] = << >>

Next ==
  \/ \E t \in Threads : ThreadStep(t) \/ futex_returns(t) \/ deadline_passes(t)
  \/ Finished /\ UNCHANGED futexvars

Spec ==
  /\ Init /\ [][Next]_futexvars
  /\ \A t \in Threads : WF_futexvars(ThreadStep(t)) /\ WF_futexvars(deadline_passes(t))
-----------------------------------------------------------------------------
\* No token of a semaphore is made or lost: its value, with -1 for a zero that has
\* waiters, and what the threads have taken add up to the value it started with.
SemCount ==
  has("val") => (IF mem.val < 0 THEN 0 ELSE mem.val) + MapThenSumSet(LAMBDA t : own[t], Threads)
                  = mem.val0

\* No thread leaves a round of a barrier before every thread has entered it.
BarrierTogether ==
  has("b_lock") =>
    \A t, u \in Threads : own[t] <= own[u] + One(pc[u] \notin {"idle", "barrier_wake"})

in_cond_wait(t) == reg[t].ret \in {"cw_sleep", "cw_relocked", "cw_done"}
in_signal(t) == pc[t] \in {"sg_tail", "sg_walk", "sg_split", "sg_wait"} \/ reg[t].to = "sg_wait"
owns_instance(t) ==
  reg[t].first = t /\ pc[t] \in {"barrier_open", "barrier_open_look", "barrier_open_wake",
                                 "barrier_inc", "barrier_finish"}

\* Words on another thread's stack are used only while that thread is still in the
\* call they belong to: the instance of a barrier's round, the nodes a signal walks
\* and releases, the next node of a broadcast, and the count a leaving waiter lowers.
StackWordsLive ==
  \A t \in Threads :
    /\ has("b_lock") /\ reg[t].first # None /\ pc[t] # "barrier_wake"
         => owns_instance(reg[t].first)
    /\ pc[t] \in {"sg_walk", "sg_split"} /\ reg[t].p # None => in_cond_wait(reg[t].p)
    /\ has("m_lock") /\ reg[t].first # None /\ pc[t] \in {"sg_wait", "ul"}
         => in_cond_wait(reg[t].first)
    /\ pc[t] \in {"cw_relocked", "cw_read", "cw_mark", "cw_next"} /\ mem[stack("prev", t)] # None
         => in_cond_wait(mem[stack("prev", t)])
    /\ pc[t] = "cw_notify" /\ mem[stack("notify", t)] # None => in_signal(mem[stack("notify", t)])

\* Every call returns, in every scenario: no wake-up is lost, however a futex wait,
\* a time-out or a cancellation falls between the steps of the others.
CallsReturn == <>Finished
=============================================================================

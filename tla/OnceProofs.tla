----------------------------- MODULE OnceProofs -----------------------------
(***************************************************************************)
(* Machine-checked proofs about Once, for any set of threads that call     *)
(* pthread_once over and over, cancelled in init or not.                   *)
(***************************************************************************)
EXTENDS Once, TLAPS

OnceInit ==
  /\ mem = [control |-> 0, inits |-> 0]
  /\ asleep = [t \in Threads |-> None]
  /\ pc = [t \in Threads |-> "idle"]
  /\ reg = [t \in Threads |-> NoReg]
  /\ own = [t \in Threads |-> 0]
  /\ todo = [t \in Threads |-> << >>]

\* A call; n is 1 if its thread would be cancelled in init.
once_call(t) ==
  /\ runs(t, "idle")
  /\ pc' = [pc EXCEPT ![t] = "once"]
  /\ \E n \in {0, 1} : reg' = [reg EXCEPT ![t] = [NoReg EXCEPT !.n = n]]
  /\ UNCHANGED <<mem, asleep, own, todo>>

OnceNext ==
  \E t \in Threads : once_call(t) \/ OnceStep(t) \/ __wait(t) \/ futex_returns(t)

OnceSpec == OnceInit /\ [][OnceNext]_futexvars
-----------------------------------------------------------------------------
Labels == {"idle", "once", "once_cas", "once_mark", "once_init", "once_ran", "once_wake",
           "wait", "wait_loop"}

Locals == [v : {0, 3}, w : {0}, e : {0}, n : {0, 1}, p : {None}, first : {None},
           l : {None, "control"}, to : {"idle", "once_cas"}, ret : {"idle"}, timed : {0}]

OnceTypeOK ==
  /\ mem \in [control : {0, 1, 2, 3}, inits : {0, 1}]
  /\ pc \in [Threads -> Labels]
  /\ own \in [Threads -> {0, 1, 2}]
  /\ reg \in [Threads -> Locals]

\* Where a thread is says whether it is in init, whether init has run, and what it
\* waits for.
ThreadOK(t) ==
  /\ own[t] = 1 <=> pc[t] \in {"once_init", "once_ran"}
  /\ own[t] = 1 => mem.control \in {1, 3}
  /\ own[t] = 2 => mem.control = 2
  /\ pc[t] = "once_init" => mem.inits = 0
  /\ pc[t] = "once_ran" => mem.inits = 1
  /\ pc[t] \in {"wait", "wait_loop"} =>
       reg[t].l = "control" /\ reg[t].to = "once_cas"

\* The inductive invariant.
IInv ==
  /\ OnceTypeOK
  /\ \A t \in Threads : ThreadOK(t)
  /\ \A t, u \in Threads : own[t] = 1 /\ own[u] = 1 => t = u
  /\ mem.control = 0 => mem.inits = 0
  /\ mem.control = 2 => mem.inits = 1

LEMMA InitInv == OnceInit => IInv
<1> SUFFICES ASSUME OnceInit PROVE IInv
  OBVIOUS
<1>1. OnceTypeOK
  BY DEF OnceInit, OnceTypeOK, Labels, Locals, NoReg
<1> QED BY <1>1 DEF OnceInit, IInv, ThreadOK

\* A step of t that changes neither the words nor what t has.
LEMMA Undisturbed ==
  ASSUME NEW t \in Threads, IInv, OnceTypeOK', mem' = mem, own' = own, ThreadOK(t)',
         \A u \in Threads \ {t} : pc'[u] = pc[u] /\ reg'[u] = reg[u]
  PROVE  IInv'
<1>1. ASSUME NEW u \in Threads PROVE ThreadOK(u)'
  BY DEF IInv, ThreadOK
<1> QED BY <1>1 DEF IInv

\* Only one thread is in init, so the others know nothing of control but that it
\* is not 2, if they know anything.
LEMMA StepKeeps ==
  ASSUME NEW t \in Threads, IInv, OnceTypeOK',
         NEW c \in {0, 1, 2, 3}, NEW i \in {0, 1}, mem' = [control |-> c, inits |-> i],
         ThreadOK(t)', own[t] = 1 \/ (mem.control = 0 /\ c = 1 /\ i = 0),
         \A u \in Threads \ {t} : pc'[u] = pc[u] /\ reg'[u] = reg[u] /\ own'[u] = own[u],
         c = 0 => i = 0, c = 2 => i = 1
  PROVE  IInv'
<1>1. \A u \in Threads \ {t} : own[u] = 0
  BY DEF IInv, OnceTypeOK, ThreadOK
<1>2. ASSUME NEW u \in Threads PROVE ThreadOK(u)'
  <2>1. CASE u = t
    BY <2>1
  <2>2. CASE u # t
    BY <1>1, <2>2 DEF IInv, ThreadOK
  <2> QED BY <2>1, <2>2
<1>3. \A u, w \in Threads : own'[u] = 1 /\ own'[w] = 1 => u = w
  BY <1>1
<1> QED BY <1>2, <1>3 DEF IInv

\* Steps between calls and looks at control that find nothing to do.
LEMMA CallKeeps == ASSUME NEW t \in Threads, IInv, once_call(t) PROVE IInv'
<1> USE DEF once_call, runs
<1>1. PICK n \in {0, 1} : reg' = [reg EXCEPT ![t] = [NoReg EXCEPT !.n = n]]
  OBVIOUS
<1>2. [NoReg EXCEPT !.n = n] \in Locals
  BY DEF NoReg, Locals
<1>3. OnceTypeOK'
  BY <1>1, <1>2 DEF IInv, OnceTypeOK, Labels
<1>4. ThreadOK(t)' /\ \A u \in Threads \ {t} : pc'[u] = pc[u] /\ reg'[u] = reg[u]
  BY <1>1 DEF IInv, OnceTypeOK, ThreadOK
<1> QED BY <1>3, <1>4, Undisturbed

LEMMA ReturnKeeps == ASSUME NEW t \in Threads, IInv, futex_returns(t) PROVE IInv'
<1>1. pc[t] # "sem_dec"
  BY DEF IInv, OnceTypeOK, Labels
<1>2. UNCHANGED <<mem, pc, reg, own>>
  BY <1>1 DEF futex_returns
<1> QED BY <1>2 DEF IInv, OnceTypeOK, ThreadOK

LEMMA WakeKeeps == ASSUME NEW t \in Threads, IInv, once_wake(t) PROVE IInv'
<1> USE DEF once_wake, __wake, runs
<1>1. NoReg \in Locals
  BY DEF NoReg, Locals
<1>2. OnceTypeOK'
  BY <1>1 DEF IInv, OnceTypeOK, Labels
<1>3. ThreadOK(t)' /\ \A u \in Threads \ {t} : pc'[u] = pc[u] /\ reg'[u] = reg[u]
  BY DEF IInv, OnceTypeOK, ThreadOK
<1> QED BY <1>2, <1>3, Undisturbed

\* __wait on control, which has no count of waiters: t only moves.
LEMMA WaitKeeps == ASSUME NEW t \in Threads, IInv, __wait(t) PROVE IInv'
<1> USE DEF runs
<1>0. /\ reg[t] \in Locals /\ reg[t].p = None
      /\ pc[t] \notin {"wait_inc", "wait_dec"}
      /\ pc[t] \in {"wait", "wait_loop"} => reg[t].l = "control" /\ reg[t].to = "once_cas"
      /\ reg \in [Threads -> Locals] /\ pc \in [Threads -> Labels]
  BY DEF IInv, OnceTypeOK, Locals, Labels, ThreadOK
<1>1. /\ pc[t] \in {"wait", "wait_loop"}
      /\ mem' = mem /\ own' = own /\ reg' = [reg EXCEPT ![t] = reg[t]]
      /\ \E l \in {"once_cas", "wait_loop"} : pc' = [pc EXCEPT ![t] = l]
  <2>1. CASE wait_spin(t)
    BY <1>0, <2>1 DEF wait_spin, Step
  <2>2. CASE wait_loop(t)
    BY <1>0, <2>2 DEF wait_loop, Step, futex_wait
  <2>3. CASE wait_inc(t) \/ wait_dec(t)
    BY <1>0, <2>3 DEF wait_inc, wait_dec, Step
  <2> QED BY <2>1, <2>2, <2>3 DEF __wait
<1>2. PICK l \in {"once_cas", "wait_loop"} : pc' = [pc EXCEPT ![t] = l]
  BY <1>1
<1>3. reg' = reg
  BY <1>0, <1>1
<1>4. OnceTypeOK'
  BY <1>1, <1>2, <1>3 DEF IInv, OnceTypeOK, Labels
<1>5. ThreadOK(t)' /\ \A u \in Threads \ {t} : pc'[u] = pc[u] /\ reg'[u] = reg[u]
  BY <1>0, <1>1, <1>2, <1>3 DEF IInv, OnceTypeOK, ThreadOK
<1> QED BY <1>1, <1>4, <1>5, Undisturbed

\* once returns to a caller that finds control at 2.
LEMMA FoundDone ==
  ASSUME NEW t \in Threads, IInv, NEW from, mem.control = 2, pc[t] = from,
         from \notin {"once_init", "once_ran"},
         Gain(t, from, "idle", mem, NoReg, 2)
  PROVE  IInv'
<1> USE DEF Gain
<1>1. NoReg \in Locals
  BY DEF NoReg, Locals
<1>2. OnceTypeOK'
  BY <1>1 DEF IInv, OnceTypeOK, Labels
<1>3. /\ mem' = mem /\ pc'[t] = "idle" /\ own'[t] = 2
      /\ \A u \in Threads \ {t} : pc'[u] = pc[u] /\ reg'[u] = reg[u] /\ own'[u] = own[u]
  BY DEF IInv, OnceTypeOK
<1>4. ASSUME NEW u \in Threads PROVE ThreadOK(u)'
  BY <1>3 DEF IInv, ThreadOK
<1> QED BY <1>2, <1>3, <1>4 DEF IInv

\* The unlocked look at control, which is 2 only after init has run.
LEMMA LookKeeps == ASSUME NEW t \in Threads, IInv, once(t) PROVE IInv'
<1> USE DEF once, runs
<1>1. CASE mem.control = 2
  BY <1>1, FoundDone
<1>2. CASE mem.control # 2
  <2>1. OnceTypeOK'
    BY <1>2 DEF Step, IInv, OnceTypeOK, Labels
  <2>2. ThreadOK(t)' /\ \A u \in Threads \ {t} : pc'[u] = pc[u] /\ reg'[u] = reg[u]
    BY <1>2 DEF Step, IInv, OnceTypeOK, ThreadOK
  <2> QED BY <1>2, <2>1, <2>2, Undisturbed DEF Step
<1> QED BY <1>1, <1>2

LEMMA CasKeeps == ASSUME NEW t \in Threads, IInv, once_full(t) PROVE IInv'
<1>0. pc[t] = "once_cas" /\ reg[t] \in Locals
  BY DEF once_full, runs, IInv, OnceTypeOK
<1>1. CASE once_may_start /\ Gain(t, "once_cas", "once_init", Set("control", 1), reg[t], 1)
  <2> USE <1>1 DEF Gain, Set, once_may_start
  <2>1. mem' = [control |-> 1, inits |-> 0] /\ mem.control = 0
    BY DEF IInv, OnceTypeOK
  <2>2. OnceTypeOK'
    BY <1>0, <2>1 DEF IInv, OnceTypeOK, Labels
  <2>3. /\ ThreadOK(t)'
        /\ \A u \in Threads \ {t} : pc'[u] = pc[u] /\ reg'[u] = reg[u] /\ own'[u] = own[u]
    BY <2>1 DEF IInv, OnceTypeOK, ThreadOK
  <2> QED BY ONLY IInv, <2>1, <2>2, <2>3, StepKeeps
<1>2. CASE Step(t, "once_cas", "once_mark", mem, reg[t])
  <2>1. OnceTypeOK'
    BY <1>0, <1>2 DEF Step, IInv, OnceTypeOK, Labels
  <2>2. ThreadOK(t)' /\ \A u \in Threads \ {t} : pc'[u] = pc[u] /\ reg'[u] = reg[u]
    BY <1>0, <1>2 DEF Step, IInv, OnceTypeOK, ThreadOK
  <2> QED BY <1>2, <2>1, <2>2, Undisturbed DEF Step
<1>3. CASE Step(t, "once_cas", "wait", mem,
                [reg[t] EXCEPT !.l = "control", !.v = 3, !.to = "once_cas"])
  <2> DEFINE r == [reg[t] EXCEPT !.l = "control", !.v = 3, !.to = "once_cas"]
  <2>1. r \in Locals /\ r.l = "control" /\ r.to = "once_cas"
    BY ONLY <1>0 DEF Locals
  <2>2. Step(t, "once_cas", "wait", mem, r)
    BY <1>3
  <2> HIDE DEF r
  <2>3. OnceTypeOK'
    BY <2>1, <2>2 DEF Step, IInv, OnceTypeOK, Labels
  <2>4. ThreadOK(t)' /\ \A u \in Threads \ {t} : pc'[u] = pc[u] /\ reg'[u] = reg[u]
    BY <1>0, <2>1, <2>2 DEF Step, IInv, OnceTypeOK, ThreadOK
  <2> QED BY <2>2, <2>3, <2>4, Undisturbed DEF Step
<1>4. CASE mem.control = 2 /\ Gain(t, "once_cas", "idle", mem, NoReg, 2)
  BY <1>0, <1>4, FoundDone
<1> QED BY <1>1, <1>2, <1>3, <1>4 DEF once_full

\* The mark that there are waiters: control goes from 1 to 3 and to nothing else.
LEMMA MarkKeeps == ASSUME NEW t \in Threads, IInv, once_mark(t) PROVE IInv'
<1> DEFINE r == [reg[t] EXCEPT !.l = "control", !.v = 3, !.to = "once_cas"]
<1> DEFINE m == IF mem.control = 1 THEN Set("control", 3) ELSE mem
<1>0. /\ pc[t] = "once_mark" /\ reg[t] \in Locals
      /\ Step(t, "once_mark", "wait", m, r)
  BY DEF once_mark, Step, runs, IInv, OnceTypeOK
<1>1. r \in Locals /\ r.l = "control" /\ r.to = "once_cas"
  BY ONLY <1>0 DEF Locals
<1>2. /\ m \in [control : {0, 1, 2, 3}, inits : {0, 1}]
      /\ m.inits = mem.inits
      /\ m.control \in {1, 3} <=> mem.control \in {1, 3}
      /\ m.control \in {0, 2} => m.control = mem.control
      /\ mem.control \in {0, 2} => m.control = mem.control
  BY DEF Set, IInv, OnceTypeOK
<1> HIDE DEF r, m
<1>3. OnceTypeOK'
  BY <1>0, <1>1, <1>2 DEF Step, IInv, OnceTypeOK, Labels
<1>4. /\ mem' = m /\ own' = own /\ pc'[t] = "wait" /\ reg'[t] = r
      /\ \A u \in Threads \ {t} : pc'[u] = pc[u] /\ reg'[u] = reg[u]
  BY <1>0 DEF Step, IInv, OnceTypeOK
<1>5. ASSUME NEW u \in Threads PROVE ThreadOK(u)'
  BY <1>0, <1>1, <1>2, <1>4 DEF IInv, ThreadOK
<1> QED BY <1>2, <1>3, <1>4, <1>5 DEF IInv

\* init has run: only the thread in it knew that it had not.
LEMMA DoneKeeps == ASSUME NEW t \in Threads, IInv, once_done(t) PROVE IInv'
<1> USE DEF once_done, Step, runs
<1>0. own[t] = 1 /\ mem.control \in {1, 3} /\ mem.inits = 0 /\ reg[t] \in Locals
  BY DEF IInv, ThreadOK, OnceTypeOK
<1>1. mem' = [control |-> mem.control, inits |-> 1]
  BY <1>0 DEF IInv, OnceTypeOK
<1>2. OnceTypeOK'
  BY <1>0, <1>1 DEF IInv, OnceTypeOK, Labels
<1>3. /\ ThreadOK(t)'
      /\ \A u \in Threads \ {t} : pc'[u] = pc[u] /\ reg'[u] = reg[u] /\ own'[u] = own[u]
  BY <1>0, <1>1 DEF IInv, OnceTypeOK, ThreadOK
<1> QED BY ONLY IInv, <1>0, <1>1, <1>2, <1>3, StepKeeps

LEMMA SwapKeeps == ASSUME NEW t \in Threads, IInv, once_swap(t) PROVE IInv'
<1> USE DEF once_swap, Gain, Set, runs
<1>0. own[t] = 1 /\ mem.inits = 1 /\ NoReg \in Locals
  BY DEF IInv, ThreadOK, OnceTypeOK, NoReg, Locals
<1>1. mem' = [control |-> 2, inits |-> 1]
  BY <1>0 DEF IInv, OnceTypeOK
<1>2. OnceTypeOK'
  BY <1>0, <1>1 DEF IInv, OnceTypeOK, Labels
<1>3. /\ ThreadOK(t)'
      /\ \A u \in Threads \ {t} : pc'[u] = pc[u] /\ reg'[u] = reg[u] /\ own'[u] = own[u]
  BY <1>0, <1>1 DEF IInv, OnceTypeOK, ThreadOK
<1> QED BY ONLY IInv, <1>0, <1>1, <1>2, <1>3, StepKeeps

\* Cancellation in init puts control back to 0, which nobody else contradicts.
LEMMA UndoKeeps == ASSUME NEW t \in Threads, IInv, once_undo(t) PROVE IInv'
<1> USE DEF once_undo, Gain, Set, runs
<1>0. own[t] = 1 /\ mem.inits = 0 /\ NoReg \in Locals
  BY DEF IInv, ThreadOK, OnceTypeOK, NoReg, Locals
<1>1. mem' = [control |-> 0, inits |-> 0]
  BY <1>0 DEF IInv, OnceTypeOK
<1>2. OnceTypeOK'
  BY <1>0, <1>1 DEF IInv, OnceTypeOK, Labels
<1>3. /\ ThreadOK(t)'
      /\ \A u \in Threads \ {t} : pc'[u] = pc[u] /\ reg'[u] = reg[u] /\ own'[u] = own[u]
  BY <1>0, <1>1 DEF IInv, OnceTypeOK, ThreadOK
<1> QED BY ONLY IInv, <1>0, <1>1, <1>2, <1>3, StepKeeps

LEMMA NextInv == IInv /\ [OnceNext]_futexvars => IInv'
<1> SUFFICES ASSUME IInv, [OnceNext]_futexvars PROVE IInv'
  OBVIOUS
<1>1. CASE UNCHANGED futexvars
  BY <1>1 DEF futexvars, IInv, OnceTypeOK, ThreadOK
<1>2. CASE OnceNext
  BY <1>2, CallKeeps, LookKeeps, CasKeeps, MarkKeeps, DoneKeeps, SwapKeeps, UndoKeeps,
     WakeKeeps, WaitKeeps, ReturnKeeps DEF OnceNext, OnceStep
<1> QED BY <1>1, <1>2

\* However many threads call pthread_once, and however many of them are cancelled in
\* init: one is in init at a time, init runs to its end once, and pthread_once
\* returns to nobody before that.
THEOREM OnceIsOnce == OnceSpec => []OnceRunsOnce
<1>1. IInv => OnceRunsOnce
  BY DEF IInv, OnceTypeOK, ThreadOK, OnceRunsOnce
<1> QED BY <1>1, InitInv, NextInv, PTL DEF OnceSpec
=============================================================================

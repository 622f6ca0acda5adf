--------------------------- MODULE LockWordProofs ---------------------------
(***************************************************************************)
(* Machine-checked proofs about LockWord, for any finite number of threads *)
(* that lock and unlock over and over, and any number of spins.            *)
(***************************************************************************)
EXTENDS LockWord, FiniteSetTheorems, TLAPS

LockInit ==
  /\ mem = [lock |-> 0]
  /\ asleep = [t \in Threads |-> None]
  /\ pc = [t \in Threads |-> "idle"]
  /\ reg = [t \in Threads |-> NoReg]
  /\ own = [t \in Threads |-> 0]
  /\ todo = [t \in Threads |-> << >>]

\* A thread calls __unlock if it holds the lock and __lock if it does not.
lock_call(t) ==
  /\ runs(t, "idle")
  /\ pc' = [pc EXCEPT ![t] = IF own[t] = 1 THEN "unlock" ELSE "lock"]
  /\ UNCHANGED <<mem, asleep, reg, own, todo>>

LockNext == \E t \in Threads : lock_call(t) \/ LockStep(t) \/ futex_returns(t)

LockSpec == LockInit /\ [][LockNext]_futexvars
-----------------------------------------------------------------------------
Labels == {"idle", "lock", "lock_spin", "lock_loop", "unlock", "unlock_wake"}

Locals == [v : Int, w : {0}, e : {0}, n : Nat, p : {None}, first : {None}, l : {None},
           to : {"idle"}, ret : {"idle"}, timed : {0}]

LockTypeOK ==
  /\ mem \in [lock : Int]
  /\ pc \in [Threads -> Labels]
  /\ reg \in [Threads -> Locals]
  /\ own \in [Threads -> {0, 1}]

held == \E t \in Threads : own[t] = 1

\* Where a thread can be with the lock, and what it may remember of the word:
\* values seen by a thread inside count that thread, and the holder if it saw one.
ThreadOK(t) ==
  /\ own[t] = 1 => pc[t] \in {"idle", "unlock"}
  /\ pc[t] = "unlock" => own[t] = 1
  /\ pc[t] = "lock_spin" => current(reg[t].v) >= 0
  /\ pc[t] = "lock_loop" => \/ reg[t].v >= 1
                            \/ reg[t].v < 0 /\ reg[t].v >= INT_MIN + 2

OneHolder == \A t, u \in Threads : own[t] = 1 /\ own[u] = 1 => t = u

CountOK == mem.lock = Cardinality(inside) + (IF held THEN INT_MIN ELSE 0)

\* The inductive invariant.
IInv ==
  /\ LockTypeOK
  /\ \A t \in Threads : ThreadOK(t)
  /\ OneHolder
  /\ CountOK

\* The sign of the word says whether the lock is held, and the count how many
\* threads are inside.
LEMMA WordMeans ==
  ASSUME IInv
  PROVE  /\ IsFiniteSet(inside)
         /\ Cardinality(inside) \in Nat
         /\ mem.lock \in Int /\ INT_MIN \in Int /\ INT_MIN < 0
         /\ held <=> mem.lock < 0
         /\ held => mem.lock = Cardinality(inside) + INT_MIN /\ Cardinality(inside) >= 1
         /\ ~ held => mem.lock = Cardinality(inside)
         /\ \A t \in inside : /\ Cardinality(inside) >= 1
                              /\ held /\ own[t] = 0 => Cardinality(inside) >= 2
<1>1. inside \subseteq Threads
  BY DEF inside
<1>2. /\ IsFiniteSet(inside)
      /\ Cardinality(inside) \in Nat
      /\ Cardinality(Threads) \in Nat
      /\ Cardinality(inside) <= Cardinality(Threads)
  BY <1>1, LockWordAssumption, FS_Subset, FS_CardinalityType
<1>3. \A t \in inside : /\ Cardinality(inside) >= 1
                        /\ Cardinality(inside \ {t}) = Cardinality(inside) - 1
                        /\ Cardinality(inside \ {t}) \in Nat
                        /\ IsFiniteSet(inside \ {t})
  <2> TAKE t \in inside
  <2>1. /\ IsFiniteSet(inside \ {t})
        /\ Cardinality(inside \ {t}) = Cardinality(inside) - 1
    BY <1>2, FS_RemoveElement
  <2>2. Cardinality(inside \ {t}) \in Nat
    BY <2>1, FS_CardinalityType
  <2> QED BY <1>2, <2>1, <2>2
<1>4. ASSUME NEW t \in inside, held, own[t] = 0
      PROVE  Cardinality(inside) >= 2
  <2>1. PICK u \in Threads : own[u] = 1
    BY <1>4 DEF held
  <2>2. u \in inside \ {t}
    BY <2>1, <1>4 DEF inside
  <2>3. Cardinality(inside \ {t}) # 0
    BY <2>2, <1>3, FS_EmptySet
  <2> QED BY <2>3, <1>2, <1>3
<1>5. held => Cardinality(inside) >= 1
  BY <1>3 DEF held, inside
<1>6. mem.lock \in Int
  BY DEF IInv, LockTypeOK
<1>7. CASE held
  <2>1. mem.lock = Cardinality(inside) + INT_MIN
    BY <1>7 DEF IInv, CountOK
  <2> QED BY <1>2, <1>3, <1>4, <1>5, <1>6, <1>7, <2>1, LockWordAssumption
<1>8. CASE ~ held
  <2>1. mem.lock = Cardinality(inside)
    BY <1>2, <1>8 DEF IInv, CountOK
  <2>2. mem.lock \in Nat /\ INT_MIN \in Int /\ INT_MIN < 0
    BY <1>2, <2>1, LockWordAssumption
  <2>3. ~ (mem.lock < 0)
    BY <2>2
  <2> QED BY <1>2, <1>3, <1>6, <1>8, <2>1, <2>2, <2>3
<1> QED BY <1>7, <1>8

LEMMA InitInv == LockInit => IInv
<1> SUFFICES ASSUME LockInit PROVE IInv
  OBVIOUS
<1>1. LockTypeOK
  BY DEF LockInit, LockTypeOK, Labels, Locals, NoReg
<1>2. (\A t \in Threads : ThreadOK(t)) /\ OneHolder
  BY DEF LockInit, ThreadOK, OneHolder
<1>3. inside = {} /\ ~ held
  BY DEF LockInit, inside, held
<1> QED BY <1>1, <1>2, <1>3, FS_EmptySet DEF IInv, CountOK, LockInit

\* The steps that leave the word, the holder and the threads inside alone.
LEMMA Undisturbed ==
  ASSUME IInv, LockTypeOK', mem' = mem, own' = own, NEW t \in Threads, ThreadOK(t)',
         pc[t] = "lock_loop" <=> pc'[t] = "lock_loop",
         \A u \in Threads \ {t} : pc'[u] = pc[u] /\ reg'[u] = reg[u]
  PROVE  IInv'
<1>1. inside' = inside /\ held' = held
  BY DEF inside, held
<1>2. ASSUME NEW u \in Threads PROVE ThreadOK(u)'
  BY DEF IInv, ThreadOK
<1> QED BY <1>1, <1>2 DEF IInv, CountOK, OneHolder

LEMMA CallKeeps == ASSUME NEW t \in Threads, IInv, lock_call(t) PROVE IInv'
<1> USE DEF lock_call, runs
<1>1. LockTypeOK'
  BY DEF IInv, LockTypeOK, Labels
<1>2. ThreadOK(t)' /\ pc[t] # "lock_loop" /\ pc'[t] # "lock_loop"
  BY DEF IInv, LockTypeOK, ThreadOK
<1>3. \A u \in Threads \ {t} : pc'[u] = pc[u] /\ reg'[u] = reg[u]
  BY DEF IInv, LockTypeOK
<1> QED BY <1>1, <1>2, <1>3, Undisturbed

\* futex_returns and the wake of __unlock move a thread only.
LEMMA ReturnKeeps == ASSUME NEW t \in Threads, IInv, futex_returns(t) PROVE IInv'
<1>1. pc[t] # "sem_dec"
  BY DEF IInv, LockTypeOK, Labels
<1>2. UNCHANGED <<mem, pc, reg, own>>
  BY <1>1 DEF futex_returns
<1> QED BY <1>2 DEF IInv, LockTypeOK, ThreadOK, OneHolder, CountOK, inside, held

LEMMA WakeKeeps == ASSUME NEW t \in Threads, IInv, unlock_wake(t) PROVE IInv'
<1> USE DEF unlock_wake, __wake, runs
<1>1. LockTypeOK'
  BY DEF IInv, LockTypeOK, Labels, Locals, NoReg
<1>2. ThreadOK(t)' /\ pc[t] # "lock_loop" /\ pc'[t] # "lock_loop"
  BY DEF IInv, LockTypeOK, ThreadOK
<1>3. \A u \in Threads \ {t} : pc'[u] = pc[u] /\ reg'[u] = reg[u]
  BY DEF IInv, LockTypeOK
<1> QED BY <1>1, <1>2, <1>3, Undisturbed

\* Before FUTEX_WAIT the value is replaced by what it will be unlocked.
LEMMA WaitKeeps == ASSUME NEW t \in Threads, IInv, lock_wait(t) PROVE IInv'
<1> USE DEF lock_wait, futex_wait, runs
<1>0. reg[t].v \in Int /\ INT_MIN \in Int
  BY LockWordAssumption DEF IInv, LockTypeOK, Locals
<1>1. LockTypeOK'
  BY <1>0 DEF IInv, LockTypeOK, Labels, Locals, current
<1>2. ThreadOK(t)' /\ pc'[t] = "lock_loop"
  BY <1>0 DEF IInv, LockTypeOK, ThreadOK, current, Locals
<1>3. \A u \in Threads \ {t} : pc'[u] = pc[u] /\ reg'[u] = reg[u]
  BY DEF IInv, LockTypeOK
<1> QED BY <1>1, <1>2, <1>3, Undisturbed

\* A thread takes a lock that nobody holds and counts itself if it had not.
LEMMA Taken ==
  ASSUME NEW t \in Threads, IInv, ~ held,
         NEW from, Gain(t, from, "idle", Set("lock", INT_MIN + Cardinality(inside \cup {t})), NoReg, 1)
  PROVE  IInv'
<1> USE DEF Gain, Set
<1>0. Cardinality(inside \cup {t}) \in Int /\ INT_MIN \in Int
  BY WordMeans, FS_AddElement, FS_CardinalityType, LockWordAssumption
<1>1. LockTypeOK' /\ mem'.lock = INT_MIN + Cardinality(inside \cup {t})
  BY <1>0 DEF IInv, LockTypeOK, Labels, Locals, NoReg
<1>2. /\ own'[t] = 1 /\ pc'[t] = "idle"
      /\ \A u \in Threads \ {t} : own'[u] = own[u] /\ pc'[u] = pc[u] /\ reg'[u] = reg[u]
  BY DEF IInv, LockTypeOK
<1>3. inside' = inside \cup {t} /\ held'
  BY <1>2 DEF inside, held
<1>4. OneHolder'
  BY <1>2 DEF held, OneHolder
<1>5. ASSUME NEW u \in Threads PROVE ThreadOK(u)'
  BY <1>2 DEF IInv, ThreadOK
<1> QED BY <1>0, <1>1, <1>3, <1>4, <1>5 DEF IInv, CountOK

LEMMA FastKeeps == ASSUME NEW t \in Threads, IInv, lock_fast(t) PROVE IInv'
<1> USE DEF lock_fast, runs
<1>1. CASE mem.lock = 0
  <2>1. ~ held /\ Cardinality(inside) = 0
    BY <1>1, WordMeans
  <2>2. inside \cup {t} = {t}
    BY <2>1, WordMeans, FS_EmptySet
  <2>3. Cardinality(inside \cup {t}) = 1
    BY <2>2, FS_Singleton
  <2> QED BY <1>1, <2>1, <2>3, Taken
<1>2. CASE mem.lock # 0
  <2> USE <1>2 DEF Step
  <2>0. mem.lock \in Int /\ INT_MIN \in Int /\ current(mem.lock) >= 0
    BY WordMeans DEF current
  <2> DEFINE r == [reg[t] EXCEPT !.v = mem.lock, !.n = SPINS]
  <2>4. r \in Locals /\ r.v = mem.lock
    <3>1. reg[t] \in Locals /\ SPINS \in Nat
      BY LockWordAssumption DEF IInv, LockTypeOK
    <3>2. mem.lock \in Int
      BY <2>0
    <3> QED BY ONLY <3>1, <3>2 DEF Locals
  <2>5. mem' = mem /\ own' = own /\ pc' = [pc EXCEPT ![t] = "lock_spin"] /\ reg' = [reg EXCEPT ![t] = r]
    OBVIOUS
  <2> HIDE DEF r
  <2>1. LockTypeOK'
    BY <2>4, <2>5 DEF IInv, LockTypeOK, Labels
  <2>2. ThreadOK(t)' /\ pc[t] # "lock_loop" /\ pc'[t] # "lock_loop"
    BY <2>0, <2>4, <2>5 DEF IInv, LockTypeOK, ThreadOK
  <2>3. \A u \in Threads \ {t} : pc'[u] = pc[u] /\ reg'[u] = reg[u]
    BY DEF IInv, LockTypeOK
  <2> QED BY <2>1, <2>2, <2>3, Undisturbed DEF Step
<1> QED BY <1>1, <1>2

LEMMA SpinKeeps == ASSUME NEW t \in Threads, IInv, lock_spin(t) PROVE IInv'
<1> DEFINE cur == current(reg[t].v)
<1> USE DEF lock_spin, runs
<1>0. /\ reg[t].v \in Int /\ cur \in Int /\ cur >= 0 /\ pc[t] = "lock_spin"
      /\ reg[t].n \in Nat \ {0} /\ own[t] # 1
  BY LockWordAssumption DEF IInv, LockTypeOK, Locals, current, ThreadOK
<1>1. CASE mem.lock = cur
  <2>1. ~ held /\ Cardinality(inside) = cur
    BY <1>0, <1>1, WordMeans
  <2>4. t \notin inside /\ IsFiniteSet(inside)
    BY <1>0, WordMeans DEF inside
  <2>2. Cardinality(inside \cup {t}) = cur + 1
    BY ONLY <2>1, <2>4, FS_AddElement
  <2>3. INT_MIN + Cardinality(inside \cup {t}) = INT_MIN + cur + 1
    BY <1>0, <2>2, LockWordAssumption
  <2> QED BY <1>1, <2>1, <2>3, Taken
<1>2. CASE mem.lock # cur
  <2> USE <1>2 DEF Step
  <2>0. mem.lock \in Int /\ INT_MIN \in Int /\ current(mem.lock) >= 0
    BY WordMeans DEF current
  <2> DEFINE r == [reg[t] EXCEPT !.v = mem.lock, !.n = @ - 1]
  <2>4. r \in Locals /\ r.v = mem.lock
    <3>1. reg[t] \in Locals /\ reg[t].n - 1 \in Nat
      BY <1>0 DEF IInv, LockTypeOK
    <3>2. mem.lock \in Int
      BY <2>0
    <3> QED BY ONLY <3>1, <3>2 DEF Locals
  <2>5. mem' = mem /\ own' = own /\ pc' = [pc EXCEPT ![t] = "lock_spin"] /\ reg' = [reg EXCEPT ![t] = r]
    OBVIOUS
  <2> HIDE DEF r
  <2>1. LockTypeOK'
    BY <2>4, <2>5 DEF IInv, LockTypeOK, Labels
  <2>2. ThreadOK(t)' /\ pc[t] # "lock_loop" /\ pc'[t] # "lock_loop"
    BY <2>0, <2>4, <2>5 DEF IInv, LockTypeOK, ThreadOK
  <2>3. \A u \in Threads \ {t} : pc'[u] = pc[u] /\ reg'[u] = reg[u]
    BY DEF IInv, LockTypeOK
  <2> QED BY <2>1, <2>2, <2>3, Undisturbed DEF Step
<1> QED BY <1>1, <1>2

\* A thread that has spun in vain adds itself to the count.
LEMMA EnterKeeps == ASSUME NEW t \in Threads, IInv, lock_enter(t) PROVE IInv'
<1> USE DEF lock_enter, runs, Step, Set
<1>0. /\ mem.lock \in Int /\ INT_MIN \in Int /\ pc[t] = "lock_spin" /\ own[t] # 1
      /\ t \notin inside
  BY LockWordAssumption DEF IInv, LockTypeOK, ThreadOK, inside
<1>1. LockTypeOK' /\ mem'.lock = mem.lock + 1
  BY <1>0 DEF IInv, LockTypeOK, Labels, Locals
<1>2. /\ own' = own /\ pc'[t] = "lock_loop" /\ reg'[t].v = mem.lock + 1
      /\ \A u \in Threads \ {t} : pc'[u] = pc[u] /\ reg'[u] = reg[u]
  BY DEF IInv, LockTypeOK, Locals
<1>3. inside' = inside \cup {t} /\ held' = held
  BY <1>2 DEF inside, held
<1>4. Cardinality(inside') = Cardinality(inside) + 1 /\ Cardinality(inside) \in Nat
  BY <1>0, <1>3, WordMeans, FS_AddElement
<1>5. CountOK'
  BY <1>0, <1>1, <1>3, <1>4 DEF IInv, CountOK
<1>6. ThreadOK(t)'
  <2>1. mem.lock + 1 >= 1 \/ (mem.lock + 1 < 0 /\ mem.lock + 1 >= INT_MIN + 2)
    <3>1. CASE held
      <4>1. Cardinality(inside) <= Cardinality(Threads) - 1 /\ Cardinality(Threads) \in Nat
        <5>1. inside \subseteq Threads \ {t} /\ t \in Threads
          BY <1>0 DEF inside
        <5>2. /\ IsFiniteSet(Threads \ {t})
              /\ Cardinality(Threads \ {t}) = Cardinality(Threads) - 1
          BY <5>1, LockWordAssumption, FS_RemoveElement
        <5>3. Cardinality(inside) <= Cardinality(Threads \ {t})
          BY <5>1, <5>2, FS_Subset
        <5> QED BY <5>2, <5>3, LockWordAssumption, FS_CardinalityType
      <4> QED BY <1>0, <1>4, <3>1, <4>1, WordMeans, LockWordAssumption
    <3>2. CASE ~ held
      BY <1>4, <3>2, WordMeans
    <3> QED BY <3>1, <3>2
  <2> QED BY <1>0, <1>2, <2>1 DEF ThreadOK
<1>7. ASSUME NEW u \in Threads PROVE ThreadOK(u)'
  BY <1>2, <1>6 DEF IInv, ThreadOK
<1> QED BY <1>1, <1>2, <1>5, <1>7 DEF IInv, OneHolder

\* The main loop: the compare-and-swap takes the lock or learns its new value.
LEMMA CasKeeps == ASSUME NEW t \in Threads, IInv, lock_cas(t) PROVE IInv'
<1> USE DEF lock_cas, runs
<1>0. /\ reg[t].v \in Int /\ reg[t].v >= 1 /\ pc[t] = "lock_loop" /\ own[t] = 0
      /\ t \in inside /\ reg[t] \in Locals
  BY DEF IInv, LockTypeOK, Locals, ThreadOK, inside
<1>1. CASE mem.lock = reg[t].v
  <2>1. ~ held /\ Cardinality(inside) = reg[t].v
    BY <1>0, <1>1, WordMeans
  <2>2. inside \cup {t} = inside
    BY <1>0
  <2> QED BY <1>0, <1>1, <2>1, <2>2, Taken
<1>2. CASE mem.lock # reg[t].v
  <2> USE <1>2 DEF Step
  <2> DEFINE r == [reg[t] EXCEPT !.v = mem.lock]
  <2>0. mem.lock \in Int /\ INT_MIN \in Int
    BY WordMeans
  <2>4. r \in Locals /\ r.v = mem.lock
    BY ONLY <1>0, <2>0 DEF Locals
  <2>5. /\ mem' = mem /\ own' = own
        /\ pc' = [pc EXCEPT ![t] = "lock_loop"] /\ reg' = [reg EXCEPT ![t] = r]
    OBVIOUS
  <2> HIDE DEF r
  <2>6. mem.lock >= 1 \/ (mem.lock < 0 /\ mem.lock >= INT_MIN + 2)
    BY <1>0, <2>0, WordMeans
  <2>1. LockTypeOK'
    BY <2>4, <2>5 DEF IInv, LockTypeOK, Labels
  <2>2. ThreadOK(t)' /\ pc'[t] = "lock_loop"
    BY <1>0, <2>4, <2>5, <2>6 DEF IInv, LockTypeOK, ThreadOK
  <2>3. \A u \in Threads \ {t} : pc'[u] = pc[u] /\ reg'[u] = reg[u]
    BY <2>5 DEF IInv, LockTypeOK
  <2> QED BY <1>0, <2>1, <2>2, <2>3, <2>5, Undisturbed
<1> QED BY <1>1, <1>2

\* __unlock clears the flag and takes the caller off the count.
LEMMA UnlockKeeps == ASSUME NEW t \in Threads, IInv, unlock(t) PROVE IInv'
<1> USE DEF unlock, runs
<1>0. own[t] = 1 /\ held /\ t \in inside
  BY DEF IInv, ThreadOK, held, inside
<1>1. /\ mem.lock < 0 /\ mem.lock = Cardinality(inside) + INT_MIN
      /\ mem.lock \in Int /\ INT_MIN \in Int
      /\ IsFiniteSet(inside) /\ Cardinality(inside) \in Nat
  BY <1>0, WordMeans
<1>2. PICK to \in {"unlock_wake", "idle"} :
        Gain(t, "unlock", to, Set("lock", mem.lock - (INT_MIN + 1)), NoReg, 0)
  BY <1>1
<1> USE DEF Gain, Set
<1>3. LockTypeOK' /\ mem'.lock = mem.lock - (INT_MIN + 1)
  BY <1>1, <1>2 DEF IInv, LockTypeOK, Labels, Locals, NoReg
<1>4. /\ own'[t] = 0 /\ pc'[t] = to
      /\ \A u \in Threads \ {t} : own'[u] = own[u] /\ pc'[u] = pc[u] /\ reg'[u] = reg[u]
  BY <1>2 DEF IInv, LockTypeOK
<1>5. inside' = inside \ {t}
  BY <1>4 DEF inside
<1>6. ~ held' /\ OneHolder'
  BY <1>0, <1>4 DEF IInv, OneHolder, held
<1>7. Cardinality(inside') = Cardinality(inside) - 1
  BY <1>0, <1>1, <1>5, FS_RemoveElement
<1>8. CountOK'
  BY <1>1, <1>3, <1>6, <1>7 DEF CountOK
<1>9. ASSUME NEW u \in Threads PROVE ThreadOK(u)'
  BY <1>4 DEF IInv, ThreadOK
<1> QED BY <1>3, <1>6, <1>8, <1>9 DEF IInv

LEMMA NextInv == IInv /\ [LockNext]_futexvars => IInv'
<1> SUFFICES ASSUME IInv, [LockNext]_futexvars PROVE IInv'
  OBVIOUS
<1>1. CASE UNCHANGED futexvars
  BY <1>1 DEF futexvars, IInv, LockTypeOK, ThreadOK, OneHolder, CountOK, inside, held
<1>2. CASE LockNext
  BY <1>2, CallKeeps, FastKeeps, SpinKeeps, EnterKeeps, WaitKeeps, CasKeeps, UnlockKeeps,
     WakeKeeps, ReturnKeeps DEF LockNext, LockStep
<1> QED BY <1>1, <1>2

\* __lock excludes: however many threads lock and unlock, one holds the lock at a time.
THEOREM LockExcludes == LockSpec => []Excludes
<1>1. IInv => Excludes
  BY DEF IInv, LockTypeOK, OneHolder, Excludes, has
<1> QED BY <1>1, InitInv, NextInv, PTL DEF LockSpec

\* The word of __lock counts the threads inside the critical section and its sign
\* says whether one holds it, at every step of any number of threads.
THEOREM LockCounts == LockSpec => []LockCongestion
<1>1. IInv => LockCongestion
  <2> SUFFICES ASSUME IInv PROVE LockCongestion
    OBVIOUS
  <2>1. \A t \in Threads : reg[t].v \in Int
    BY DEF IInv, LockTypeOK, Locals
  <2>2. \A t \in Threads : pc[t] = "lock_loop" /\ reg[t].v >= 0 => reg[t].v > 0
    BY <2>1 DEF IInv, ThreadOK
  <2>3. mem.lock = Cardinality(inside) + (IF \E t \in Threads : own[t] = 1 THEN INT_MIN ELSE 0)
    BY DEF IInv, CountOK, held
  <2> QED BY <2>2, <2>3 DEF IInv, ThreadOK, LockCongestion
<1> QED BY <1>1, InitInv, NextInv, PTL DEF LockSpec
=============================================================================

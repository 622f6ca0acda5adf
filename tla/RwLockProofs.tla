---------------------------- MODULE RwLockProofs ----------------------------
(***************************************************************************)
(* Machine-checked proofs about RwLock, for any finite number of threads   *)
(* that lock, for reading or writing, with or without a deadline, and      *)
(* unlock over and over.                                                   *)
(***************************************************************************)
EXTENDS RwLock, FiniteSetTheorems, TLAPS

RwInit ==
  /\ mem = [rw |-> 0, waiters |-> 0]
  /\ asleep = [t \in Threads |-> None]
  /\ pc = [t \in Threads |-> "idle"]
  /\ reg = [t \in Threads |-> NoReg]
  /\ own = [t \in Threads |-> 0]
  /\ todo = [t \in Threads |-> << >>]

\* A thread that has the lock unlocks it; one that has not, or was refused, tries.
rw_call(t) ==
  /\ runs(t, "idle")
  /\ \E f \in (IF own[t] = 0 THEN {"rdlock", "wrlock"} ELSE {"rwunlock"}) :
       pc' = [pc EXCEPT ![t] = f]
  /\ \E d \in {0, 1} : reg' = [reg EXCEPT ![t] = [NoReg EXCEPT !.timed = d]]
  /\ UNCHANGED <<mem, asleep, own, todo>>

RwNext ==
  \E t \in Threads : rw_call(t) \/ RwStep(t) \/ futex_returns(t) \/ deadline_passes(t)

RwSpec == RwInit /\ [][RwNext]_futexvars
-----------------------------------------------------------------------------
Unlocking == {"rwunlock", "rwunlock_look", "rwunlock_cas"}

Labels == {"idle", "rdlock", "rd_cas", "wrlock", "rd_busy", "wr_busy", "rw_inc", "rw_mark",
           "rw_sleep", "rw_dec", "rwunlock_wake"} \cup Unlocking

\* The values of the word.
Word == 0 .. 2 * WRITER + 1

Locals == [v : Word, w : Int, e : {0, 1}, n : {0}, p : {None}, first : {None}, l : {None},
           to : {"idle", "rdlock", "wrlock"}, ret : {"idle"}, timed : {0, 1, 2}]

RwTypeOK ==
  /\ mem \in [rw : Word, waiters : Int]
  /\ pc \in [Threads -> Labels]
  /\ reg \in [Threads -> Locals]
  /\ own \in [Threads -> {0, 1, 2}]

readers == {t \in Threads : own[t] = 1}
written == \E t \in Threads : own[t] = 2

\* Where a thread can be with the lock.  A word that is marked is not free: what a
\* thread compares with before it marks or counts itself was not.
ThreadOK(t) ==
  /\ own[t] # 0 => pc[t] \in Unlocking \cup {"idle"}
  /\ pc[t] \in Unlocking => own[t] # 0
  /\ pc[t] = "rd_cas" => cnt(reg[t].v) < WRITER - 1
  /\ pc[t] \in {"rw_inc", "rw_mark"} => cnt(reg[t].v) # 0

WriterAlone == \A t, u \in Threads : t # u /\ own[t] = 2 => own[u] = 0

CountOK == cnt(mem.rw) = IF written THEN WRITER ELSE Cardinality(readers)

\* The inductive invariant.
IInv ==
  /\ RwTypeOK
  /\ \A t \in Threads : ThreadOK(t)
  /\ WriterAlone
  /\ CountOK
  /\ mem.rw # WRITER + 1

\* The count and the mark of a word.
LEMMA CountFacts ==
  ASSUME NEW x \in Word
  PROVE  /\ cnt(x) \in 0 .. WRITER
         /\ marked(x) \in Word /\ cnt(marked(x)) = cnt(x)
         /\ x # WRITER + 1 => (cnt(x) = 0 <=> x = 0)
         /\ cnt(x) # 0 => marked(x) # WRITER + 1
         /\ cnt(x) < WRITER => x + 1 \in Word /\ cnt(x + 1) = cnt(x) + 1 /\ x + 1 # WRITER + 1
         /\ cnt(x) > 1 => x - 1 \in Word /\ cnt(x - 1) = cnt(x) - 1 /\ x - 1 # WRITER + 1
  BY RwLockAssumption DEF Word, cnt, waits, marked

\* The count tells a writer from readers, and how many of these there are.
LEMMA WordMeans ==
  ASSUME IInv
  PROVE  /\ IsFiniteSet(readers)
         /\ Cardinality(readers) \in Nat
         /\ Cardinality(readers) < WRITER - 1
         /\ WRITER \in Nat
         /\ cnt(mem.rw) \in 0 .. WRITER
         /\ written <=> cnt(mem.rw) = WRITER
         /\ ~ written => cnt(mem.rw) = Cardinality(readers)
         /\ cnt(mem.rw) = 0 => readers = {} /\ ~ written
<1>1. readers \subseteq Threads
  BY DEF readers
<1>2. /\ IsFiniteSet(readers)
      /\ Cardinality(readers) \in Nat
      /\ Cardinality(Threads) \in Nat
      /\ Cardinality(readers) <= Cardinality(Threads)
  BY <1>1, RwLockAssumption, FS_Subset, FS_CardinalityType
<1>3. Cardinality(readers) < WRITER - 1 /\ WRITER \in Nat /\ WRITER > 1
  BY <1>2, RwLockAssumption
<1>4. cnt(mem.rw) \in 0 .. WRITER
  BY CountFacts DEF IInv, RwTypeOK
<1>5. CASE written
  <2>1. cnt(mem.rw) = WRITER
    BY <1>5 DEF IInv, CountOK
  <2> QED BY <1>2, <1>3, <1>4, <1>5, <2>1
<1>6. CASE ~ written
  <2>1. cnt(mem.rw) = Cardinality(readers)
    BY <1>6 DEF IInv, CountOK
  <2>2. cnt(mem.rw) # WRITER
    BY <1>2, <1>3, <2>1
  <2>3. cnt(mem.rw) = 0 => readers = {}
    BY <1>2, <2>1, FS_EmptySet
  <2> QED BY <1>2, <1>3, <1>4, <1>6, <2>1, <2>2, <2>3
<1> QED BY <1>5, <1>6

LEMMA InitInv == RwInit => IInv
<1> SUFFICES ASSUME RwInit PROVE IInv
  OBVIOUS
<1>1. 0 \in Word /\ cnt(0) = 0 /\ 0 # WRITER + 1
  BY RwLockAssumption DEF Word, cnt, waits
<1>2. RwTypeOK
  BY <1>1 DEF RwInit, RwTypeOK, Labels, Locals, NoReg
<1>3. (\A t \in Threads : ThreadOK(t)) /\ WriterAlone
  BY DEF RwInit, ThreadOK, WriterAlone, Unlocking
<1>4. readers = {} /\ ~ written
  BY DEF RwInit, readers, written
<1> QED BY <1>1, <1>2, <1>3, <1>4, FS_EmptySet DEF IInv, CountOK, RwInit

\* The steps that change neither the count nor who has the lock.
LEMMA Undisturbed ==
  ASSUME NEW t \in Threads, IInv, RwTypeOK', own' = own, ThreadOK(t)',
         cnt(mem'.rw) = cnt(mem.rw), mem'.rw # WRITER + 1,
         \A u \in Threads \ {t} : pc'[u] = pc[u] /\ reg'[u] = reg[u]
  PROVE  IInv'
<1>1. readers' = readers /\ written' = written /\ cnt(mem.rw)' = cnt(mem.rw)
  BY DEF readers, written, cnt, waits
<1>2. ASSUME NEW u \in Threads PROVE ThreadOK(u)'
  BY DEF IInv, ThreadOK, cnt, waits
<1> QED BY <1>1, <1>2 DEF IInv, CountOK, WriterAlone

\* A thread moves to another label with new locals.
LEMMA Moved ==
  ASSUME NEW t \in Threads, IInv, NEW to \in Labels, NEW r \in Locals,
         NEW m \in [rw : Word, waiters : Int],
         mem' = m, own' = own, pc' = [pc EXCEPT ![t] = to], reg' = [reg EXCEPT ![t] = r],
         cnt(m.rw) = cnt(mem.rw), m.rw # WRITER + 1,
         own[t] # 0 => to \in Unlocking \cup {"idle"},
         to \in Unlocking => own[t] # 0,
         to = "rd_cas" => cnt(r.v) < WRITER - 1,
         to \in {"rw_inc", "rw_mark"} => cnt(r.v) # 0
  PROVE  IInv'
<1>1. RwTypeOK'
  BY DEF IInv, RwTypeOK
<1>2. /\ pc'[t] = to /\ reg'[t] = r
      /\ \A u \in Threads \ {t} : pc'[u] = pc[u] /\ reg'[u] = reg[u]
  BY DEF IInv, RwTypeOK
<1>3. ThreadOK(t)'
  BY <1>2 DEF ThreadOK, cnt, waits
<1> QED BY <1>1, <1>2, <1>3, Undisturbed

\* What every step starts from.
LEMMA Known ==
  ASSUME NEW t \in Threads, IInv
  PROVE  /\ mem \in [rw : Word, waiters : Int] /\ mem.rw \in Word /\ mem.rw # WRITER + 1
         /\ reg[t] \in Locals /\ reg[t].v \in Word
         /\ NoReg \in Locals /\ kept(reg[t]) \in Locals
         /\ \A x \in Word : [reg[t] EXCEPT !.v = x] \in Locals
                            /\ [reg[t] EXCEPT !.v = x].v = x
         /\ own[t] # 0 <=> pc[t] \in Unlocking \/ (pc[t] = "idle" /\ own[t] # 0)
         /\ own[t] \in {0, 1, 2}
<1>1. 0 \in Word
  BY RwLockAssumption DEF Word
<1>2. reg[t] \in Locals /\ mem \in [rw : Word, waiters : Int] /\ own[t] \in {0, 1, 2}
  BY DEF IInv, RwTypeOK
<1>3. NoReg \in Locals
  BY <1>1 DEF NoReg, Locals
<1>4. kept(reg[t]) \in Locals
  <2>1. \A x \in Word, y \in Int : [reg[t] EXCEPT !.v = x, !.w = y] \in Locals
    BY ONLY <1>2 DEF Locals
  <2>2. 0 \in Int
    OBVIOUS
  <2> QED BY ONLY <1>1, <2>1, <2>2, Zenon DEF kept
<1>5. ASSUME NEW x \in Word
      PROVE  [reg[t] EXCEPT !.v = x] \in Locals /\ [reg[t] EXCEPT !.v = x].v = x
  BY ONLY <1>2, <1>5 DEF Locals
<1>6. own[t] # 0 <=> pc[t] \in Unlocking \/ (pc[t] = "idle" /\ own[t] # 0)
  BY DEF IInv, ThreadOK
<1>7. mem.rw \in Word /\ mem.rw # WRITER + 1 /\ reg[t].v \in Word
  BY <1>2 DEF IInv, Locals
<1> QED BY <1>2, <1>3, <1>4, <1>5, <1>6, <1>7

LEMMA CallKeeps == ASSUME NEW t \in Threads, IInv, rw_call(t) PROVE IInv'
<1>1. PICK f \in {"rdlock", "wrlock", "rwunlock"} :
        pc' = [pc EXCEPT ![t] = f] /\ (f \in Unlocking <=> own[t] # 0)
  BY DEF rw_call, Unlocking
<1>2. PICK d \in {0, 1} : reg' = [reg EXCEPT ![t] = [NoReg EXCEPT !.timed = d]]
  BY DEF rw_call
<1>3. [NoReg EXCEPT !.timed = d] \in Locals
  BY RwLockAssumption DEF NoReg, Locals, Word
<1>4. f \in Labels /\ f \notin {"rd_cas", "rw_inc", "rw_mark"} /\ mem' = mem /\ own' = own
  BY DEF Labels, Unlocking, rw_call
<1>5. mem \in [rw : Word, waiters : Int] /\ mem.rw # WRITER + 1
  BY Known
<1> QED BY ONLY IInv, <1>1, <1>2, <1>3, <1>4, <1>5, Moved

LEMMA ReturnKeeps == ASSUME NEW t \in Threads, IInv, futex_returns(t) PROVE IInv'
<1>1. pc[t] # "sem_dec"
  BY DEF IInv, RwTypeOK, Labels, Unlocking
<1>2. UNCHANGED <<mem, pc, reg, own>>
  BY <1>1 DEF futex_returns
<1> QED BY <1>2 DEF IInv, RwTypeOK, ThreadOK, WriterAlone, CountOK, readers, written, cnt, waits

\* The deadline only changes what the call will return.
LEMMA DeadlineKeeps == ASSUME NEW t \in Threads, IInv, deadline_passes(t) PROVE IInv'
<1> DEFINE late == asleep[t] # None /\ pc[t] \in {"sem_dec", "rw_dec", "cw_woken"}
<1> DEFINE r == [reg[t] EXCEPT !.timed = 2, !.e = One(late)]
<1>1. reg[t] \in Locals /\ One(late) \in {0, 1} /\ reg \in [Threads -> Locals]
  BY DEF IInv, RwTypeOK, One
<1>2. reg' = [reg EXCEPT ![t] = r] /\ mem' = mem /\ own' = own /\ pc' = pc
  BY <1>1 DEF deadline_passes
<1>3. r \in Locals /\ r.v = reg[t].v
  <2> HIDE DEF late
  <2> QED BY ONLY <1>1 DEF Locals
<1> HIDE DEF r
<1>4. pc[t] \in Labels /\ pc' = [pc EXCEPT ![t] = pc[t]]
  BY <1>2 DEF IInv, RwTypeOK
<1>5. ThreadOK(t)
  BY DEF IInv
<1>6. mem \in [rw : Word, waiters : Int] /\ mem.rw # WRITER + 1
  BY Known
<1> QED BY ONLY IInv, <1>2, <1>3, <1>4, <1>5, <1>6, Moved DEF ThreadOK

\* tryrdlock and trywrlock look at the word, and go on where it lets them.
LEMMA TryReadKeeps == ASSUME NEW t \in Threads, IInv, tryrdlock(t) PROVE IInv'
<1> DEFINE x == mem.rw
<1> DEFINE r == [reg[t] EXCEPT !.v = IF cnt(x) = WRITER THEN 0 ELSE x]
<1> DEFINE to == IF cnt(x) = WRITER THEN "rd_busy"
                 ELSE IF cnt(x) = WRITER - 1 THEN "idle" ELSE "rd_cas"
<1>1. Step(t, "rdlock", to, mem, r)
  BY DEF tryrdlock
<1>2. (IF cnt(x) = WRITER THEN 0 ELSE x) \in Word
  BY Known, RwLockAssumption DEF Word
<1>3. /\ r \in Locals
      /\ r.v = IF cnt(x) = WRITER THEN 0 ELSE x
  BY <1>2, Known
<1>4. to \in Labels /\ (to = "rd_cas" => cnt(r.v) < WRITER - 1)
      /\ to \notin Unlocking \cup {"rw_inc", "rw_mark"}
  BY <1>3, WordMeans DEF Labels, Unlocking
<1>5. /\ mem \in [rw : Word, waiters : Int] /\ mem.rw # WRITER + 1
      /\ own[t] = 0
  BY <1>1, Known DEF Step, runs, Unlocking
<1> HIDE DEF r, to
<1> QED BY ONLY IInv, <1>1, <1>3, <1>4, <1>5, Moved DEF Step

LEMMA BusyKeeps == ASSUME NEW t \in Threads, IInv, rd_busy(t) \/ wr_busy(t) PROVE IInv'
<1>1. PICK to \in {"rdlock", "wrlock", "rw_inc"}, f \in {"rdlock", "wrlock"},
           from \in {"rd_busy", "wr_busy"} :
        /\ Step(t, from, to, mem, [reg[t] EXCEPT !.v = mem.rw, !.to = f])
        /\ to = "rw_inc" => cnt(mem.rw) # 0
  <2>1. CASE rd_busy(t)
    <3>1. cnt(mem.rw) = WRITER => cnt(mem.rw) # 0
      BY RwLockAssumption, FS_CardinalityType
    <3> QED BY <2>1, <3>1 DEF rd_busy
  <2>2. CASE wr_busy(t)
    <3>1. mem.rw # 0 => cnt(mem.rw) # 0
      BY Known, CountFacts
    <3> QED BY <2>2, <3>1 DEF wr_busy
  <2> QED BY <2>1, <2>2
<1> DEFINE r == [reg[t] EXCEPT !.v = mem.rw, !.to = f]
<1>2. r \in Locals /\ r.v = mem.rw
  <2>1. reg[t] \in Locals /\ mem.rw \in Word
    BY Known
  <2> QED BY ONLY <2>1, f \in {"rdlock", "wrlock"} DEF Locals
<1>3. /\ mem \in [rw : Word, waiters : Int] /\ mem.rw # WRITER + 1
      /\ own[t] = 0 /\ to \in Labels /\ to \notin Unlocking \cup {"rd_cas", "rw_mark"}
  BY <1>1, Known DEF Step, runs, Unlocking, Labels
<1>4. Step(t, from, to, mem, r) /\ (to = "rw_inc" => cnt(r.v) # 0)
  BY <1>1, <1>2
<1> HIDE DEF r
<1> QED BY ONLY IInv, <1>2, <1>3, <1>4, Moved DEF Step

\* The count of waiters, and the mark on a word that is not free.
LEMMA IncKeeps == ASSUME NEW t \in Threads, IInv, rw_inc(t) PROVE IInv'
<1> DEFINE m == Set("waiters", mem.waiters + 1)
<1>1. Step(t, "rw_inc", "rw_mark", m, reg[t]) /\ pc[t] = "rw_inc"
  BY DEF rw_inc, Step, runs
<1>2. /\ m \in [rw : Word, waiters : Int] /\ m.rw = mem.rw /\ m.rw # WRITER + 1
      /\ own[t] = 0 /\ reg[t] \in Locals
      /\ "rw_mark" \in Labels /\ "rw_mark" \notin Unlocking
  BY <1>1, Known DEF Set, Unlocking, Labels
<1>3. cnt(reg[t].v) # 0
  BY <1>1 DEF IInv, ThreadOK
<1> HIDE DEF m
<1> QED BY ONLY IInv, <1>1, <1>2, <1>3, Moved DEF Step

LEMMA MarkKeeps == ASSUME NEW t \in Threads, IInv, rw_mark(t) PROVE IInv'
<1> DEFINE m == IF mem.rw = reg[t].v THEN Set("rw", marked(mem.rw)) ELSE mem
<1>1. Step(t, "rw_mark", "rw_sleep", m, reg[t]) /\ pc[t] = "rw_mark"
  BY DEF rw_mark, Step, runs
<1>2. cnt(reg[t].v) # 0
  BY <1>1 DEF IInv, ThreadOK
<1>3. /\ m \in [rw : Word, waiters : Int] /\ cnt(m.rw) = cnt(mem.rw) /\ m.rw # WRITER + 1
  <2>1. CASE mem.rw = reg[t].v
    <3>1. /\ marked(mem.rw) \in Word /\ cnt(marked(mem.rw)) = cnt(mem.rw)
          /\ marked(mem.rw) # WRITER + 1
      BY <1>2, <2>1, Known, CountFacts
    <3>2. m \in [rw : Word, waiters : Int] /\ m.rw = marked(mem.rw)
      BY <2>1, <3>1, Known DEF Set
    <3> QED BY <3>1, <3>2
  <2>2. CASE mem.rw # reg[t].v
    BY <2>2, Known
  <2> QED BY <2>1, <2>2
<1>4. /\ own[t] = 0 /\ reg[t] \in Locals
      /\ "rw_sleep" \in Labels /\ "rw_sleep" \notin Unlocking
  BY <1>1, Known DEF Unlocking, Labels
<1> HIDE DEF m
<1> QED BY ONLY IInv, <1>1, <1>3, <1>4, Moved DEF Step

\* The wait itself, with or without a deadline, and what follows it.
LEMMA SleepKeeps == ASSUME NEW t \in Threads, IInv, rw_sleep(t) PROVE IInv'
<1> DEFINE k == kept(reg[t])
<1>1. PICK r \in {k, [k EXCEPT !.e = 1]} :
        /\ pc[t] = "rw_sleep" /\ mem' = mem /\ own' = own
        /\ pc' = [pc EXCEPT ![t] = "rw_dec"] /\ reg' = [reg EXCEPT ![t] = r]
  BY DEF rw_sleep, timedwait, Step, futex_wait, runs
<1>2. k \in Locals
  BY Known
<1>3. r \in Locals
  <2> HIDE DEF k
  <2>1. [k EXCEPT !.e = 1] \in Locals
    BY ONLY <1>2 DEF Locals
  <2> QED BY <1>2, <2>1
<1>4. /\ mem \in [rw : Word, waiters : Int] /\ mem.rw # WRITER + 1 /\ own[t] = 0
      /\ "rw_dec" \in Labels /\ "rw_dec" \notin Unlocking
  BY <1>1, Known DEF Unlocking, Labels
<1> QED BY ONLY IInv, <1>1, <1>3, <1>4, Moved

LEMMA DecKeeps == ASSUME NEW t \in Threads, IInv, rw_dec(t) PROVE IInv'
<1> DEFINE m == Set("waiters", mem.waiters - 1)
<1>1. PICK to \in {"idle", "rdlock", "wrlock"}, r \in {NoReg, reg[t]} :
        pc[t] = "rw_dec" /\ Step(t, "rw_dec", to, m, r)
  BY DEF rw_dec, Step, runs, IInv, RwTypeOK, Locals
<1>2. /\ m \in [rw : Word, waiters : Int] /\ m.rw = mem.rw /\ m.rw # WRITER + 1
      /\ own[t] = 0 /\ r \in Locals
      /\ to \in Labels /\ to \notin Unlocking \cup {"rd_cas", "rw_inc", "rw_mark"}
  BY <1>1, Known DEF Set, Unlocking, Labels
<1> HIDE DEF m
<1> QED BY ONLY IInv, <1>1, <1>2, Moved DEF Step

\* rwlock_unlock reads the word and the count of waiters.
LEMMA LookKeeps ==
  ASSUME NEW t \in Threads, IInv, rwlock_unlock(t) \/ rwlock_unlock_waiters(t)
  PROVE  IInv'
<1>1. PICK to \in Unlocking, r \in {[reg[t] EXCEPT !.v = mem.rw], [reg[t] EXCEPT !.w = mem.waiters]} :
        /\ pc[t] \in Unlocking /\ mem' = mem /\ own' = own
        /\ pc' = [pc EXCEPT ![t] = to] /\ reg' = [reg EXCEPT ![t] = r]
  BY DEF rwlock_unlock, rwlock_unlock_waiters, Step, runs, Unlocking
<1>2. r \in Locals
  <2>1. reg[t] \in Locals /\ mem.rw \in Word /\ mem.waiters \in Int
    BY Known
  <2>2. [reg[t] EXCEPT !.v = mem.rw] \in Locals
    BY Known
  <2>3. [reg[t] EXCEPT !.w = mem.waiters] \in Locals
    BY ONLY <2>1 DEF Locals
  <2> QED BY <2>2, <2>3
<1>3. /\ mem \in [rw : Word, waiters : Int] /\ mem.rw # WRITER + 1 /\ own[t] # 0
      /\ to \in Labels /\ to \notin {"rd_cas", "rw_inc", "rw_mark"}
  BY <1>1, Known DEF Unlocking, Labels
<1> QED BY ONLY IInv, <1>1, <1>2, <1>3, Moved

LEMMA WakeKeeps == ASSUME NEW t \in Threads, IInv, rwlock_unlock_wake(t) PROVE IInv'
<1>1. /\ mem' = mem /\ own' = own
      /\ pc' = [pc EXCEPT ![t] = "idle"] /\ reg' = [reg EXCEPT ![t] = NoReg]
  BY DEF rwlock_unlock_wake, __wake
<1>2. /\ mem \in [rw : Word, waiters : Int] /\ mem.rw # WRITER + 1 /\ NoReg \in Locals
      /\ "idle" \in Labels /\ "idle" \notin Unlocking
  BY Known DEF Unlocking, Labels
<1> QED BY ONLY IInv, <1>1, <1>2, Moved

\* A step by which t gets the lock or gives it back: what has to be shown of it.
LEMMA Changed ==
  ASSUME NEW t \in Threads, IInv, NEW from, NEW to \in {"idle", "rwunlock_wake"},
         NEW r \in Locals, NEW o \in {0, 1, 2}, NEW x \in Word,
         Gain(t, from, to, Set("rw", x), r, o),
         o # 0 => to = "idle", x # WRITER + 1,
         (CountOK /\ WriterAlone)'
  PROVE  IInv'
<1> USE DEF Gain, Set
<1>1. RwTypeOK' /\ mem'.rw = x
  BY DEF IInv, RwTypeOK, Labels
<1>2. /\ own'[t] = o /\ pc'[t] = to
      /\ \A u \in Threads \ {t} : own'[u] = own[u] /\ pc'[u] = pc[u] /\ reg'[u] = reg[u]
  BY DEF IInv, RwTypeOK
<1>3. ThreadOK(t)'
  BY <1>2 DEF ThreadOK, Unlocking
<1>4. ASSUME NEW u \in Threads PROVE ThreadOK(u)'
  BY <1>2, <1>3 DEF IInv, ThreadOK, cnt, waits
<1> QED BY <1>1, <1>4 DEF IInv

LEMMA Owners ==
  ASSUME NEW t \in Threads, IInv, NEW from, NEW to, NEW r, NEW o \in {0, 1, 2}, NEW x \in Word,
         Gain(t, from, to, Set("rw", x), r, o)
  PROVE  own'[t] = o /\ mem'.rw = x /\ \A u \in Threads \ {t} : own'[u] = own[u]
  BY DEF Gain, Set, IInv, RwTypeOK

\* The compare-and-swap of tryrdlock finds the word it read, so the count it read is
\* that of the readers now, and no writer can have come in between.
LEMMA ReadKeeps == ASSUME NEW t \in Threads, IInv, tryrdlock_cas(t) PROVE IInv'
<1>0. pc[t] = "rd_cas" /\ own[t] = 0 /\ cnt(reg[t].v) < WRITER - 1 /\ reg[t].v \in Word
  BY Known DEF tryrdlock_cas, runs, IInv, ThreadOK, Unlocking
<1>1. CASE mem.rw = reg[t].v
  <2> DEFINE x == reg[t].v + 1
  <2>1. Gain(t, "rd_cas", "idle", Set("rw", x), NoReg, 1)
    BY <1>1 DEF tryrdlock_cas
  <2>2. cnt(reg[t].v) \in 0 .. WRITER /\ WRITER \in Nat
    BY <1>0, CountFacts, RwLockAssumption
  <2>3. x \in Word /\ cnt(x) = cnt(mem.rw) + 1 /\ x # WRITER + 1
    BY <1>0, <1>1, <2>2, CountFacts
  <2>4. ~ written /\ cnt(mem.rw) = Cardinality(readers) /\ IsFiniteSet(readers)
    BY <1>0, <1>1, <2>2, WordMeans
  <2> HIDE DEF x
  <2>5. own'[t] = 1 /\ mem'.rw = x /\ \A u \in Threads \ {t} : own'[u] = own[u]
    BY <2>1, <2>3, Owners
  <2>6. ~ written'
    BY <2>4, <2>5 DEF written
  <2>7. t \notin readers
    BY <1>0 DEF readers
  <2>8. Cardinality(readers') = Cardinality(readers) + 1
    <3>1. readers' = readers \cup {t}
      BY <2>5 DEF readers
    <3> QED BY <2>4, <2>7, <3>1, FS_AddElement
  <2>9. CountOK'
    BY <2>3, <2>4, <2>5, <2>6, <2>8 DEF CountOK, cnt, waits
  <2>10. WriterAlone'
    BY <2>6 DEF WriterAlone, written
  <2>11. NoReg \in Locals
    BY Known
  <2> QED BY <2>1, <2>3, <2>9, <2>10, <2>11, Changed
<1>2. CASE mem.rw # reg[t].v
  <2>1. Step(t, "rd_cas", "rdlock", mem, kept(reg[t]))
    BY <1>2 DEF tryrdlock_cas
  <2>2. /\ mem \in [rw : Word, waiters : Int] /\ mem.rw # WRITER + 1 /\ kept(reg[t]) \in Locals
        /\ "rdlock" \in Labels /\ "rdlock" \notin Unlocking
    BY Known DEF Unlocking, Labels
  <2> QED BY ONLY IInv, <1>0, <2>1, <2>2, Moved DEF Step
<1> QED BY <1>1, <1>2

\* trywrlock takes a word that is 0, which nobody has.
LEMMA WriteKeeps == ASSUME NEW t \in Threads, IInv, trywrlock(t) PROVE IInv'
<1>0. pc[t] = "wrlock" /\ own[t] = 0 /\ NoReg \in Locals /\ reg[t] \in Locals
  BY Known DEF trywrlock, runs, Unlocking
<1>1. CASE mem.rw = 0
  <2>1. Gain(t, "wrlock", "idle", Set("rw", WRITER), NoReg, 2)
    BY <1>1 DEF trywrlock
  <2>2. WRITER \in Word /\ cnt(WRITER) = WRITER /\ WRITER # WRITER + 1 /\ cnt(0) = 0
    BY RwLockAssumption DEF Word, cnt, waits
  <2>3. readers = {} /\ ~ written
    BY <1>1, <2>2, WordMeans
  <2>4. /\ own'[t] = 2 /\ mem'.rw = WRITER
        /\ \A u \in Threads \ {t} : own'[u] = own[u]
    BY <2>1, <2>2, Owners
  <2>5. \A u \in Threads \ {t} : own[u] = 0
    BY <2>3 DEF readers, written, IInv, RwTypeOK
  <2>6. WriterAlone' /\ written'
    BY <2>4, <2>5 DEF WriterAlone, written
  <2>7. CountOK'
    BY <2>2, <2>4, <2>6 DEF CountOK, cnt, waits
  <2> QED BY <1>0, <2>1, <2>2, <2>6, <2>7, Changed
<1>2. CASE mem.rw # 0
  <2>1. Step(t, "wrlock", "wr_busy", mem, reg[t])
    BY <1>2 DEF trywrlock
  <2>2. /\ mem \in [rw : Word, waiters : Int] /\ mem.rw # WRITER + 1
        /\ "wr_busy" \in Labels /\ "wr_busy" \notin Unlocking
    BY Known DEF Unlocking, Labels
  <2> QED BY ONLY IInv, <1>0, <2>1, <2>2, Moved DEF Step
<1> QED BY <1>1, <1>2

\* The writer, or the last reader, leaves 0; another reader leaves one reader less.
LEMMA UnlockKeeps == ASSUME NEW t \in Threads, IInv, rwlock_unlock_cas(t) PROVE IInv'
<1>0. /\ pc[t] = "rwunlock_cas" /\ own[t] \in {1, 2} /\ own[t] # 0
      /\ reg[t] \in Locals /\ mem.rw \in Word
  BY Known DEF rwlock_unlock_cas, runs, Unlocking
<1>1. CASE mem.rw = reg[t].v
  <2> DEFINE x == unlocked(mem.rw)
  <2>1. PICK to \in {"idle", "rwunlock_wake"} :
          Gain(t, "rwunlock_cas", to, Set("rw", x), reg[t], 0)
    BY <1>1 DEF rwlock_unlock_cas
  <2>2. 0 \in Word /\ cnt(0) = 0 /\ 0 # WRITER + 1 /\ WRITER \in Nat /\ WRITER > 1
    BY RwLockAssumption, FS_CardinalityType DEF Word, cnt, waits
  <2>3. cnt(mem.rw) \in 0 .. WRITER /\ cnt(mem.rw) # 0
    BY <1>0, <2>2, WordMeans DEF readers, written
  <2>4. x \in Word /\ x # WRITER + 1
    <3>1. CASE cnt(mem.rw) \in {WRITER, 1}
      BY <2>2, <3>1 DEF unlocked
    <3>2. CASE cnt(mem.rw) \notin {WRITER, 1}
      <4>1. cnt(mem.rw) > 1 /\ x = mem.rw - 1
        BY <2>2, <2>3, <3>2 DEF unlocked
      <4> QED BY <1>0, <4>1, CountFacts
    <3> QED BY <3>1, <3>2
  <2>5. own'[t] = 0 /\ mem'.rw = x /\ \A u \in Threads \ {t} : own'[u] = own[u]
    BY <2>1, <2>4, Owners
  <2>6. ~ written'
    BY <1>0, <2>5 DEF written, IInv, WriterAlone
  <2>7. cnt(x) = Cardinality(readers \ {t})
    <3>1. CASE own[t] = 2
      <4>1. written /\ readers \ {t} = {}
        BY <3>1 DEF written, readers, IInv, WriterAlone
      <4>2. cnt(mem.rw) = WRITER
        BY <4>1, WordMeans
      <4> QED BY <2>2, <4>1, <4>2, FS_EmptySet DEF unlocked
    <3>2. CASE own[t] = 1
      <4>1. ~ written /\ t \in readers
        BY <3>2 DEF written, readers, IInv, WriterAlone
      <4>2. /\ cnt(mem.rw) = Cardinality(readers) /\ cnt(mem.rw) # WRITER
            /\ IsFiniteSet(readers)
        BY <4>1, WordMeans
      <4>3. Cardinality(readers \ {t}) = cnt(mem.rw) - 1
        BY <4>1, <4>2, FS_RemoveElement
      <4>4. CASE cnt(mem.rw) = 1
        BY <2>2, <4>3, <4>4 DEF unlocked
      <4>5. CASE cnt(mem.rw) # 1
        BY <1>0, <2>3, <4>2, <4>3, <4>5, CountFacts DEF unlocked
      <4> QED BY <4>4, <4>5
    <3> QED BY <1>0, <3>1, <3>2
  <2> HIDE DEF x
  <2>8. CountOK'
    <3>1. readers' = readers \ {t}
      BY <2>5 DEF readers
    <3> QED BY <2>5, <2>6, <2>7, <3>1 DEF CountOK, cnt, waits
  <2>9. WriterAlone'
    BY <2>6 DEF WriterAlone, written
  <2> QED BY <1>0, <2>1, <2>4, <2>8, <2>9, Changed
<1>2. CASE mem.rw # reg[t].v
  <2>1. Step(t, "rwunlock_cas", "rwunlock", mem, kept(reg[t]))
    BY <1>2 DEF rwlock_unlock_cas
  <2>2. /\ mem \in [rw : Word, waiters : Int] /\ mem.rw # WRITER + 1 /\ kept(reg[t]) \in Locals
        /\ "rwunlock" \in Labels /\ "rwunlock" \in Unlocking
    BY Known DEF Unlocking, Labels
  <2> QED BY ONLY IInv, <1>0, <2>1, <2>2, Moved DEF Step
<1> QED BY <1>1, <1>2

LEMMA NextInv == IInv /\ [RwNext]_futexvars => IInv'
<1> SUFFICES ASSUME IInv, [RwNext]_futexvars PROVE IInv'
  OBVIOUS
<1>1. CASE UNCHANGED futexvars
  BY <1>1 DEF futexvars, IInv, RwTypeOK, ThreadOK, WriterAlone, CountOK, readers, written, cnt, waits
<1>2. CASE RwNext
  BY <1>2, CallKeeps, TryReadKeeps, ReadKeeps, WriteKeeps, BusyKeeps, IncKeeps, MarkKeeps,
     SleepKeeps, DecKeeps, LookKeeps, UnlockKeeps, WakeKeeps, ReturnKeeps, DeadlineKeeps
     DEF RwNext, RwStep
<1> QED BY <1>1, <1>2

\* A read-write lock excludes: whoever locks, times out and unlocks in whatever order,
\* a writer has the lock alone.
THEOREM RwExcludes == RwSpec => []Excludes
<1>1. IInv => Excludes
  BY DEF IInv, RwTypeOK, WriterAlone, Excludes, has
<1> QED BY <1>1, InitInv, NextInv, PTL DEF RwSpec
=============================================================================

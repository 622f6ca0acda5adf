--------------------------- MODULE SchedulerProofs ---------------------------
(***************************************************************************)
(* Machine-checked proofs about Scheduler, for every set of tasks, every   *)
(* assignment of priorities, every set of requests and every clock bound   *)
(* that satisfy the assumptions.                                           *)
(***************************************************************************)
EXTENDS Scheduler, TLAPS

\* The provers have more than their default time for a leaf.
USE SMTT(15), ZenonT(30)

-----------------------------------------------------------------------------
(* Queues.                                                                 *)

\* The length and the elements of a sequence.
LEMMA QueueIs ==
  ASSUME NEW S, NEW q \in Seq(S)
  PROVE  /\ Len(q) \in Nat /\ DOMAIN q = 1 .. Len(q)
         /\ q # <<>> => Len(q) # 0
         /\ \A i \in 1 .. Len(q) : q[i] \in S
OBVIOUS

\* The elements of a concatenation.
LEMMA ConcatIs ==
  ASSUME NEW S, NEW s \in Seq(S), NEW u \in Seq(S)
  PROVE  /\ s \o u \in Seq(S)
         /\ Len(s \o u) = Len(s) + Len(u)
         /\ \A i \in 1 .. Len(s) + Len(u) : (s \o u)[i] = IF i <= Len(s) THEN s[i] ELSE u[i - Len(s)]
OBVIOUS

\* A queue is empty exactly when it has no element.
LEMMA EmptyQueue ==
  ASSUME NEW S, NEW q \in Seq(S)
  PROVE  q = <<>> <=> Range(q) = {}
<1>1. Len(q) \in Nat /\ DOMAIN q = 1 .. Len(q)
  BY QueueIs
<1>2. CASE q = <<>>
  BY <1>2 DEF Range
<1>3. CASE q # <<>>
  <2>1. Len(q) \in Nat \ {0}
    BY <1>3, QueueIs
  <2>2. q[1] \in Range(q)
    BY <2>1, <1>1 DEF Range
  <2> QED BY <2>2, <1>3
<1> QED BY <1>2, <1>3

\* The elements of a queue of S are in S.
LEMMA QueueElements ==
  ASSUME NEW S, NEW q \in Seq(S)
  PROVE  Range(q) \subseteq S
<1>1. DOMAIN q = 1 .. Len(q) /\ \A i \in 1 .. Len(q) : q[i] \in S
  BY QueueIs
<1> QED BY <1>1 DEF Range

\* list_add_tail of an unlinked entry adds it and keeps entries distinct.
LEMMA AppendQueue ==
  ASSUME NEW S, NEW q \in Seq(S), NEW t \in S
  PROVE  /\ list_add_tail(q, t) \in Seq(S)
         /\ list_add_tail(q, t) # <<>>
         /\ Len(list_add_tail(q, t)) = Len(q) + 1
         /\ Range(list_add_tail(q, t)) = Range(q) \cup {t}
         /\ \A i \in DOMAIN q : list_add_tail(q, t)[i] = q[i]
         /\ IsInjective(q) /\ t \notin Range(q) => IsInjective(list_add_tail(q, t))
<1> DEFINE r == list_add_tail(q, t)
<1>0. r \in Seq(S) /\ Len(r) = Len(q) + 1
  BY DEF list_add_tail
<1>1. /\ Len(q) \in Nat
      /\ DOMAIN q = 1 .. Len(q)
      /\ r \in Seq(S)
      /\ r # <<>>
      /\ DOMAIN r = 1 .. Len(q) + 1
      /\ Len(r) = Len(q) + 1
      /\ \A i \in 1 .. Len(q) : r[i] = q[i]
      /\ r[Len(q) + 1] = t
  <2>1. Len(q) \in Nat /\ DOMAIN q = 1 .. Len(q) /\ DOMAIN r = 1 .. Len(q) + 1
    BY <1>0, QueueIs
  <2>2. r # <<>>
    BY <1>0, <2>1
  <2>3. (\A i \in 1 .. Len(q) : r[i] = q[i]) /\ r[Len(q) + 1] = t
    BY <2>1 DEF list_add_tail
  <2> QED BY <1>0, <2>1, <2>2, <2>3
<1> HIDE DEF r
<1>2. Range(r) = Range(q) \cup {t}
  <2>1. ASSUME NEW x \in Range(r) PROVE x \in Range(q) \cup {t}
    <3>1. PICK i \in 1 .. Len(q) + 1 : x = r[i]
      BY <1>1 DEF Range
    <3>2. CASE i = Len(q) + 1
      BY <3>1, <3>2, <1>1
    <3>3. CASE i \in 1 .. Len(q)
      BY <3>1, <3>3, <1>1 DEF Range
    <3> QED BY <3>1, <3>2, <3>3, <1>1
  <2>2. ASSUME NEW x \in Range(q) PROVE x \in Range(r)
    <3>1. PICK i \in 1 .. Len(q) : x = q[i]
      BY <1>1 DEF Range
    <3> QED BY <3>1, <1>1 DEF Range
  <2>3. t \in Range(r)
    BY <1>1 DEF Range
  <2> QED BY <2>1, <2>2, <2>3
<1>3. ASSUME IsInjective(q), t \notin Range(q) PROVE IsInjective(r)
  <2> SUFFICES ASSUME NEW i \in 1 .. Len(q) + 1, NEW j \in 1 .. Len(q) + 1, r[i] = r[j]
               PROVE  i = j
    BY <1>1 DEF IsInjective
  <2>1. \A k \in 1 .. Len(q) : q[k] # t
    BY <1>1, <1>3 DEF Range
  <2> QED BY <2>1, <1>1, <1>3 DEF IsInjective
<1> QED BY <1>1, <1>2, <1>3 DEF r

\* remove_at, by position.
LEMMA RemoveQueue ==
  ASSUME NEW S, NEW q \in Seq(S), NEW k \in 1 .. Len(q)
  PROVE  /\ remove_at(q, k) \in Seq(S)
         /\ Len(remove_at(q, k)) = Len(q) - 1
         /\ \A i \in 1 .. Len(q) - 1 :
              remove_at(q, k)[i] = IF i < k THEN q[i] ELSE q[i + 1]
<1>1. Len(q) \in Nat /\ \A i \in 1 .. Len(q) : q[i] \in S
  BY QueueIs
<1> DEFINE l == SubSeq(q, 1, k - 1)
           r == SubSeq(q, k + 1, Len(q))
<1>2. l \in Seq(S) /\ Len(l) = k - 1 /\ \A i \in 1 .. k - 1 : l[i] = q[i]
  BY <1>1
<1>3. r \in Seq(S) /\ Len(r) = Len(q) - k /\ \A i \in 1 .. Len(q) - k : r[i] = q[k + i]
  BY <1>1
<1>4. remove_at(q, k) = l \o r
  BY DEF remove_at
<1> HIDE DEF l, r
<1>5. /\ l \o r \in Seq(S)
      /\ Len(l \o r) = Len(l) + Len(r)
      /\ \A i \in 1 .. Len(l) + Len(r) : (l \o r)[i] = IF i <= Len(l) THEN l[i] ELSE r[i - Len(l)]
  BY <1>2, <1>3, ConcatIs, Zenon
<1>6. ASSUME NEW i \in 1 .. Len(q) - 1
      PROVE  (l \o r)[i] = IF i < k THEN q[i] ELSE q[i + 1]
  <2>1. CASE i < k
    BY <2>1, <1>1, <1>2, <1>3, <1>5
  <2>2. CASE ~ (i < k)
    <3>1. i - (k - 1) \in 1 .. Len(q) - k /\ ~ (i <= k - 1) /\ i \in 1 .. Len(l) + Len(r)
      BY <2>2, <1>1, <1>2, <1>3
    <3>2. (l \o r)[i] = r[i - (k - 1)]
      BY <3>1, <1>2, <1>5
    <3>3. r[i - (k - 1)] = q[k + (i - (k - 1))]
      BY <3>1, <1>3, Zenon
    <3>4. k + (i - (k - 1)) = i + 1
      BY <1>1
    <3> QED BY <2>2, <3>2, <3>3, <3>4
  <2> QED BY <2>1, <2>2, Zenon
<1> QED BY <1>1, <1>2, <1>3, <1>4, <1>5, <1>6

\* list_del takes exactly that entry off a queue and keeps the order of the
\* ones before it.
LEMMA DelQueue ==
  ASSUME NEW S, NEW q \in Seq(S), IsInjective(q), NEW t
  PROVE  /\ list_del(q, t) \in Seq(S)
         /\ IsInjective(list_del(q, t))
         /\ Range(list_del(q, t)) = Range(q) \ {t}
         /\ \A k \in DOMAIN q : q[k] = t =>
              /\ Len(list_del(q, t)) = Len(q) - 1
              /\ \A i \in DOMAIN q : i < k => list_del(q, t)[i] = q[i]
<1>1. Len(q) \in Nat /\ DOMAIN q = 1 .. Len(q)
  BY QueueIs
<1>2. CASE t \notin Range(q)
  BY <1>2 DEF list_del, Range
<1>3. CASE t \in Range(q)
  <2>1. PICK k \in 1 .. Len(q) : q[k] = t
    BY <1>1, <1>3 DEF Range
  <2>2. \A i \in 1 .. Len(q) : q[i] = t => i = k
    BY <1>1, <2>1 DEF IsInjective
  <2>3. list_del(q, t) = remove_at(q, k)
    <3>1. (CHOOSE i \in DOMAIN q : q[i] = t) = k
      BY <1>1, <2>1, <2>2
    <3> QED BY <1>3, <3>1, Zenon DEF list_del
  <2> DEFINE r == remove_at(q, k)
  <2>4. /\ r \in Seq(S)
        /\ Len(r) = Len(q) - 1
        /\ DOMAIN r = 1 .. Len(q) - 1
        /\ \A i \in 1 .. Len(q) - 1 : r[i] = IF i < k THEN q[i] ELSE q[i + 1]
    BY RemoveQueue, QueueIs
  <2> HIDE DEF r
  <2>5. IsInjective(r)
    <3> SUFFICES ASSUME NEW i \in 1 .. Len(q) - 1, NEW j \in 1 .. Len(q) - 1, r[i] = r[j]
                 PROVE  i = j
      BY <2>4 DEF IsInjective
    <3> DEFINE f(n) == IF n < k THEN n ELSE n + 1
    <3>1. f(i) \in 1 .. Len(q) /\ f(j) \in 1 .. Len(q) /\ r[i] = q[f(i)] /\ r[j] = q[f(j)]
      BY <1>1, <2>1, <2>4
    <3>2. f(i) = f(j)
      BY <3>1, <1>1, Zenon DEF IsInjective
    <3> QED BY <3>2, <1>1
  <2>6. Range(r) = Range(q) \ {t}
    <3>1. ASSUME NEW x \in Range(r) PROVE x \in Range(q) /\ x # t
      <4>1. PICK i \in 1 .. Len(q) - 1 : x = r[i]
        BY ONLY <2>4, Zenon DEF Range
      <4>2. PICK j \in 1 .. Len(q) : x = q[j] /\ j # k
        BY <4>1, <1>1, <2>4
      <4> QED BY <4>2, <1>1, <2>2 DEF Range
    <3>2. ASSUME NEW x \in Range(q), x # t PROVE x \in Range(r)
      <4>1. PICK j \in 1 .. Len(q) : x = q[j]
        BY <1>1 DEF Range
      <4>2. j # k
        BY <4>1, <3>2, <2>1
      <4>3. \E i \in 1 .. Len(q) - 1 : r[i] = q[j]
        <5>1. CASE j < k
          BY <5>1, <1>1, <2>1, <2>4
        <5>2. CASE j > k
          <6>1. j - 1 \in 1 .. Len(q) - 1 /\ ~ (j - 1 < k) /\ (j - 1) + 1 = j
            BY <5>2, <1>1, <2>1
          <6> QED BY ONLY <6>1, <2>4, Zenon
        <5> QED BY <5>1, <5>2, <4>2, <1>1, <2>1
      <4> QED BY ONLY <4>1, <4>3, <2>4, Zenon DEF Range
    <3> QED BY <3>1, <3>2
  <2>7. \A i \in 1 .. Len(q) : i < k => r[i] = q[i]
    BY <1>1, <2>1, <2>4
  <2> QED BY <1>1, <2>1, <2>2, <2>3, <2>4, <2>5, <2>6, <2>7 DEF r
<1> QED BY <1>2, <1>3
-----------------------------------------------------------------------------
(* The priority bitmap.                                                    *)

\* The shape of the constants that the provers need over and over.
LEMMA ConstantFacts ==
  /\ idle_task \in Tasks /\ UserTasks \subseteq Tasks
  /\ \A t \in Tasks : sched_priority[t] \in Priorities
  /\ Rows \subseteq 0 .. 7
  /\ MaxClock \in Nat /\ MaxClock >= 1
BY SchedulerAssumption DEF Tasks, Priorities, Rows

\* A priority is a row and a column of the bitmap, and back.
LEMMA RowColumn ==
  /\ \A p \in Priorities : /\ p \div 8 \in Rows
                            /\ p % 8 \in Columns
                            /\ p = (p \div 8) * 8 + (p % 8)
  /\ \A r \in Rows, c \in Columns : /\ r * 8 + c \in Priorities
                                     /\ (r * 8 + c) \div 8 = r
                                     /\ (r * 8 + c) % 8 = c
<1> DEFINE N == CONFIG_MAX_TASK_PRIORITY
<1>1. N \in {8, 16, 24, 32, 40, 48, 56, 64}
  BY SchedulerAssumption
<1>2. N \in Nat /\ (N \div 8) * 8 = N /\ N \div 8 \in Nat
  BY <1>1
<1> HIDE DEF N
<1>3. ASSUME NEW p \in 0 .. N - 1
      PROVE  /\ p \div 8 \in 0 .. (N \div 8) - 1
             /\ p % 8 \in 0 .. 7
             /\ p = (p \div 8) * 8 + (p % 8)
  BY <1>2
<1>4. ASSUME NEW r \in 0 .. (N \div 8) - 1, NEW c \in 0 .. 7
      PROVE  /\ r * 8 + c \in 0 .. N - 1
             /\ (r * 8 + c) \div 8 = r
             /\ (r * 8 + c) % 8 = c
  BY <1>2
<1> QED BY <1>3, <1>4 DEF N, Priorities, Rows, Columns

\* A higher row, or the same row and a higher column, is a higher priority.
LEMMA PriorityOrder ==
  ASSUME NEW p \in Priorities, NEW r \in Rows, NEW c \in Columns,
         \/ r < p \div 8
         \/ r = p \div 8 /\ c <= p % 8
  PROVE  r * 8 + c <= p
<1>1. p \div 8 \in Rows /\ p % 8 \in Columns /\ p = (p \div 8) * 8 + (p % 8)
  BY RowColumn
<1>2. r \in 0 .. 7 /\ p \div 8 \in 0 .. 7
  BY <1>1, ConstantFacts, Zenon
<1> QED BY <1>1, <1>2 DEF Columns

\* The lookup table yields the lowest bit of a byte that is not zero.
LEMMA PriorityMapIsLowest ==
  ASSUME NEW byte \in SUBSET (0 .. 7), byte # {}
  PROVE  /\ g_priority_map(byte) \in byte
         /\ \A c \in byte : g_priority_map(byte) <= c
<1>1. \E b \in byte : \A c \in byte : b <= c
  <2>1. CASE 0 \in byte
    BY <2>1
  <2>2. CASE 0 \notin byte /\ 1 \in byte
    BY <2>2
  <2>3. CASE {0, 1} \cap byte = {} /\ 2 \in byte
    BY <2>3
  <2>4. CASE {0, 1, 2} \cap byte = {} /\ 3 \in byte
    BY <2>4
  <2>5. CASE {0, 1, 2, 3} \cap byte = {} /\ 4 \in byte
    BY <2>5
  <2>6. CASE {0, 1, 2, 3, 4} \cap byte = {} /\ 5 \in byte
    BY <2>6
  <2>7. CASE {0, 1, 2, 3, 4, 5} \cap byte = {} /\ 6 \in byte
    BY <2>7
  <2>8. CASE {0, 1, 2, 3, 4, 5, 6} \cap byte = {} /\ 7 \in byte
    BY <2>8
  <2>9. \E k \in {0, 1, 2, 3, 4, 5, 6, 7} : k \in byte
    <3>1. PICK k \in byte : TRUE
      BY Zenon
    <3>2. k \in 0 .. 7
      BY <3>1
    <3>3. k \in {0, 1, 2, 3, 4, 5, 6, 7}
      BY <3>2
    <3> QED BY <3>3
  <2> QED BY <2>1, <2>2, <2>3, <2>4, <2>5, <2>6, <2>7, <2>8, <2>9
<1> QED BY <1>1, Zenon DEF g_priority_map
-----------------------------------------------------------------------------
(* Time.                                                                   *)

\* What x % m is, without the division.
LEMMA ModIs ==
  ASSUME NEW m \in Nat \ {0}, NEW x \in Int
  PROVE  \E r \in 0 .. m - 1, q \in Int : r = x % m /\ x = m * q + r
<1>1. x % m \in 0 .. m - 1 /\ x \div m \in Int
  OBVIOUS
<1>2. x % m = x - m * (x \div m)
  BY Z3
<1>3. PICK q \in Int, r \in 0 .. m - 1 : r = x % m /\ r = x - m * q
  BY <1>1, <1>2
<1>4. m * q \in Int
  OBVIOUS
<1>5. x = m * q + r
  BY ONLY <1>3, <1>4, x \in Int, r \in Int
<1> QED BY <1>3, <1>5, Zenon

\* x % m when x is at most one m out of range.
LEMMA ModOf ==
  ASSUME NEW m \in Nat \ {0}, NEW x \in Int, NEW k \in {-1, 0, 1}, x + m * k \in 0 .. m - 1
  PROVE  x % m = x + m * k
<1>1. CASE k = 0
  BY <1>1
<1>2. CASE k = 1
  BY <1>2
<1>3. CASE k = -1
  BY <1>3
<1> QED BY <1>1, <1>2, <1>3

\* A multiple of m that is less than two m away from 0.
LEMMA SmallMultiple ==
  ASSUME NEW m \in Nat \ {0}, NEW k \in Int, m * k < 2 * m, m * k > - (2 * m)
  PROVE  k \in {-1, 0, 1}
<1>1. k >= 2 => m * k >= m * 2
  OBVIOUS
<1>2. k <= -2 => m * k <= m * (-2)
  OBVIOUS
<1> QED BY <1>1, <1>2

\* The test of sched_pending_check, in terms of the unsigned difference.
LEMMA DueIs ==
  ASSUME NEW a, NEW b
  PROVE  LET d == (a - b) % TICKS_MOD
         IN  is_due(a, b) <=> (IF d < TICKS_MOD \div 2 THEN d ELSE d - TICKS_MOD) < 0
BY DEF is_due, remain_ticks

\* Wherever the free-running counter stands at the call of sys_nanosleep, and however often it
\* wraps until then, the test of sched_pending_check says that the sleeper is due exactly when
\* more ticks than sys_nanosleep computed have passed, as long as the two numbers are not half
\* the counter's range apart.
THEOREM SleepEndsOnTime ==
  ASSUME NEW c \in 0 .. TICKS_MOD - 1, NEW req \in [tv_sec : Nat, tv_nsec : Nat], NEW elapsed \in Nat,
         sleep_ticks(req) - elapsed < TICKS_MOD \div 2,
         elapsed - sleep_ticks(req) <= TICKS_MOD \div 2
  PROVE  is_due(nanosleep_readytime(c, req), (c + elapsed) % TICKS_MOD) <=> elapsed > sleep_ticks(req)
<1> DEFINE m == TICKS_MOD
           h == TICKS_MOD \div 2
           s == sleep_ticks(req)
<1>1. m \in Nat \ {0} /\ h \in Nat /\ m = 2 * h
  BY TicksAssumption
<1>2. s \in Int
  <2>1. TICKS_PER_S \in Int /\ TICKS_PER_NS \in Int
    BY TicksAssumption DEF TICKS_PER_S, TICKS_PER_NS
  <2> QED BY <2>1 DEF sleep_ticks
<1>3. c \in Int /\ s - elapsed < h /\ elapsed - s <= h
  BY <1>1
<1> HIDE DEF m, h, s
<1>4. c + s \in Int /\ c + elapsed \in Int
  BY <1>2, <1>3
<1>5. PICK x \in 0 .. m - 1, q1 \in Int : x = (c + s) % m /\ c + s = m * q1 + x
  BY <1>1, <1>4, ModIs, Zenon
<1>6. PICK y \in 0 .. m - 1, q2 \in Int : y = (c + elapsed) % m /\ c + elapsed = m * q2 + y
  BY <1>1, <1>4, ModIs, Zenon
<1>7. PICK k \in Int : s - elapsed = m * k + (x - y)
  <2>1. q1 - q2 \in Int /\ m * (q1 - q2) = m * q1 - m * q2
    BY <1>1
  <2>2. m * q1 \in Int /\ m * q2 \in Int
    BY <1>1
  <2>3. s - elapsed = m * (q1 - q2) + (x - y)
    BY <1>2, <1>3, <1>5, <1>6, <2>1, <2>2
  <2> QED BY <2>1, <2>3
<1>8. k \in {-1, 0, 1}
  <2>1. m * k \in Int /\ x \in Int /\ y \in Int
    BY <1>1, <1>5, <1>6
  <2>2. m * k < 2 * m /\ m * k > - (2 * m)
    BY <1>1, <1>2, <1>3, <1>5, <1>6, <1>7, <2>1
  <2> QED BY <1>1, <2>2, SmallMultiple
<1> DEFINE d == (x - y) % m
<1>9. d = IF elapsed > s THEN s - elapsed + m ELSE s - elapsed
  <2>1. x - y \in Int /\ s - elapsed \in Int
    BY <1>2, <1>5, <1>6
  <2>2. PICK j \in {-1, 0, 1} : /\ (x - y) + m * j \in 0 .. m - 1
                                /\ (x - y) + m * j = IF elapsed > s THEN s - elapsed + m ELSE s - elapsed
    <3>1. CASE k = 0
      <4>1. x - y = s - elapsed
        BY <3>1, <1>1, <1>2, <1>5, <1>6, <1>7
      <4>2. (x - y) + m * 0 = x - y /\ (x - y) + m * 1 = x - y + m
        BY <1>1, <1>5, <1>6
      <4> QED BY <1>1, <1>2, <1>3, <4>1, <4>2
    <3>2. CASE k = 1
      <4>1. x - y = s - elapsed - m
        BY <3>2, <1>1, <1>2, <1>5, <1>6, <1>7
      <4>2. elapsed <= s /\ (x - y) + m * 1 = x - y + m
        BY <1>1, <1>2, <1>3, <1>5, <1>6, <4>1
      <4> QED BY <1>1, <1>2, <1>3, <4>1, <4>2
    <3>3. CASE k = -1
      <4>1. x - y = s - elapsed + m
        BY <3>3, <1>1, <1>2, <1>5, <1>6, <1>7
      <4>2. elapsed > s /\ (x - y) + m * 0 = x - y
        BY <1>1, <1>2, <1>3, <1>5, <1>6, <4>1
      <4> QED BY <1>1, <1>2, <1>3, <4>1, <4>2
    <3> QED BY <1>8, <3>1, <3>2, <3>3
  <2>3. (x - y) % m = (x - y) + m * j
    BY <1>1, <2>1, <2>2, ModOf, Zenon
  <2> QED BY <2>2, <2>3
<1>10. is_due(x, y) <=> (IF d < h THEN d ELSE d - m) < 0
  BY DueIs DEF m, h
<1>11. x = nanosleep_readytime(c, req) /\ y = (c + elapsed) % TICKS_MOD
  BY <1>5, <1>6 DEF nanosleep_readytime, m, s
<1> HIDE DEF d
<1>12. (IF d < h THEN d ELSE d - m) < 0 <=> elapsed > s
  BY <1>1, <1>2, <1>3, <1>9
<1> QED BY <1>10, <1>11, <1>12 DEF s

\* In range, the modular difference of sched_pending_check is the order of
\* the two times.
LEMMA DueIsPast ==
  ASSUME NEW rt \in Nat, NEW c \in Nat, rt < MaxClock, c <= MaxClock
  PROVE  is_due(rt, c) <=> rt < c
<1> DEFINE T == TICKS_MOD
           h == TICKS_MOD \div 2
<1>1. T \in Nat /\ T > 0 /\ T % 2 = 0
  BY TicksAssumption
<1>2. h \in Nat /\ T = 2 * h
  BY <1>1
<1>3. rt < h /\ c < h
  BY SchedulerAssumption, <1>2
<1> HIDE DEF T, h
<1>4. CASE rt >= c
  <2>1. (rt - c) % T = rt - c
    BY <1>1, <1>2, <1>3, <1>4
  <2> QED BY <2>1, <1>1, <1>2, <1>3, <1>4 DEF is_due, remain_ticks, T, h
<1>5. CASE rt < c
  <2>1. (rt - c) % T = rt - c + T
    BY <1>1, <1>2, <1>3, <1>5
  <2> QED BY <2>1, <1>1, <1>2, <1>3, <1>5 DEF is_due, remain_ticks, T, h
<1> QED BY <1>4, <1>5

\* In range, sys_nanosleep computes the sum it means to.
LEMMA ReadytimeInRange ==
  ASSUME NEW c \in Nat, NEW req \in Requests, c + sleep_ticks(req) < MaxClock
  PROVE  /\ nanosleep_readytime(c, req) = c + sleep_ticks(req)
         /\ nanosleep_readytime(c, req) \in Nat
         /\ nanosleep_readytime(c, req) < MaxClock
<1>1. req.tv_sec \in Nat /\ req.tv_nsec \in Nat
  BY SchedulerAssumption
<1>2. TICKS_PER_S \in Nat
  BY TicksAssumption DEF TICKS_PER_S
<1>3. TICKS_PER_NS \in Nat
  <2>1. ASSUME NEW m \in Nat, NEW n \in Nat \ {0} PROVE m \div n \in Nat
    BY <2>1
  <2> QED BY <2>1, TicksAssumption DEF TICKS_PER_NS
<1>4. sleep_ticks(req) \in Nat
  <2>1. ASSUME NEW m \in Nat, NEW n \in Nat PROVE m * n \in Nat
    BY <2>1
  <2>2. req.tv_sec * TICKS_PER_S \in Nat /\ req.tv_nsec * TICKS_PER_NS \in Nat
    BY <2>1, <1>1, <1>2, <1>3
  <2> QED BY <2>2 DEF sleep_ticks
<1> DEFINE s == c + sleep_ticks(req)
<1>5. s \in Nat /\ s < MaxClock
  BY <1>4
<1>6. TICKS_MOD \in Nat /\ s < TICKS_MOD /\ TICKS_MOD > 0
  BY <1>5, SchedulerAssumption, TicksAssumption
<1> HIDE DEF s
<1>7. s % TICKS_MOD = s
  BY <1>5, <1>6
<1> QED BY <1>5, <1>7 DEF nanosleep_readytime, s
-----------------------------------------------------------------------------
(* What the operations on the bitmap and the queues do.                    *)

\* The group byte summarises the rows.
GroupExact ==
  \A r \in Rows : r \in g_priority_group <=> g_priority_bitmap[r] # {}

BitsType ==
  /\ g_priority_bitmap \in [Rows -> SUBSET Columns]
  /\ g_priority_group \in SUBSET Rows

\* Two priorities have the same row and column only if they are the same.
LEMMA SameBit ==
  ASSUME NEW p \in Priorities, NEW q \in Priorities,
         p \div 8 = q \div 8, p % 8 = q % 8
  PROVE  p = q
<1>1. p = (p \div 8) * 8 + (p % 8) /\ q = (q \div 8) * 8 + (q % 8)
  BY RowColumn
<1> QED BY <1>1

\* set_priority_bits sets the bit of p and no other.
LEMMA SetBits ==
  ASSUME BitsType, GroupExact, NEW p \in Priorities, set_priority_bits(p)
  PROVE  /\ BitsType'
         /\ GroupExact'
         /\ \A q \in Priorities : bit_is_set(q)' <=> (bit_is_set(q) \/ q = p)
<1>1. p \div 8 \in Rows /\ p % 8 \in Columns
  BY RowColumn
<1>2. BitsType'
  BY <1>1 DEF BitsType, set_priority_bits
<1>3. GroupExact'
  BY <1>1 DEF BitsType, GroupExact, set_priority_bits
<1>4. ASSUME NEW q \in Priorities
      PROVE  bit_is_set(q)' <=> (bit_is_set(q) \/ q = p)
  <2>1. q \div 8 \in Rows /\ q % 8 \in Columns
    BY RowColumn
  <2>2. bit_is_set(q)' <=> (bit_is_set(q) \/ (q \div 8 = p \div 8 /\ q % 8 = p % 8))
    BY <1>1, <2>1 DEF BitsType, set_priority_bits, bit_is_set
  <2> QED BY <2>2, SameBit
<1> QED BY <1>2, <1>3, <1>4

\* clear_priority_bits clears the bit of p if its queue is empty, and no other.
LEMMA ClearBits ==
  ASSUME BitsType, GroupExact, NEW p \in Priorities, NEW ready, clear_priority_bits(p, ready)
  PROVE  /\ BitsType'
         /\ GroupExact'
         /\ \A q \in Priorities :
              bit_is_set(q)' <=> (bit_is_set(q) /\ ~ (q = p /\ ready = <<>>))
<1>1. p \div 8 \in Rows /\ p % 8 \in Columns
  BY RowColumn
<1>2. CASE ready # <<>>
  BY <1>2 DEF clear_priority_bits, bits, BitsType, GroupExact, bit_is_set
<1>3. CASE ready = <<>>
  <2>1. BitsType'
    BY <1>1, <1>3 DEF BitsType, clear_priority_bits
  <2>2. GroupExact'
    BY <1>1, <1>3 DEF BitsType, GroupExact, clear_priority_bits
  <2>3. ASSUME NEW q \in Priorities
        PROVE  bit_is_set(q)' <=> (bit_is_set(q) /\ q # p)
    <3>1. q \div 8 \in Rows /\ q % 8 \in Columns
      BY RowColumn
    <3>2. bit_is_set(q)' <=> (bit_is_set(q) /\ ~ (q \div 8 = p \div 8 /\ q % 8 = p % 8))
      BY <1>1, <1>3, <3>1 DEF BitsType, clear_priority_bits, bit_is_set
    <3> QED BY <3>2, SameBit
  <2> QED BY <2>1, <2>2, <2>3, <1>3
<1> QED BY <1>2, <1>3

\* The ready queues after one of them has been replaced.
LEMMA ReplaceQueue ==
  ASSUME g_readytorun \in [Priorities -> Seq(Tasks)],
         NEW p \in Priorities, NEW r \in Seq(Tasks),
         g_readytorun' = [g_readytorun EXCEPT ![p] = r]
  PROVE  /\ g_readytorun' \in [Priorities -> Seq(Tasks)]
         /\ g_readytorun'[p] = r
         /\ \A q \in Priorities : q # p => g_readytorun'[q] = g_readytorun[q]
OBVIOUS

\* What sched_attach does to a task that is on no ready queue.
AttachEffect(t) ==
  /\ g_readytorun' \in [Priorities -> Seq(Tasks)]
  /\ task_state' \in [Tasks -> TaskStates]
  /\ \A u \in Tasks : task_state'[u] = IF u = t THEN "READYTORUN" ELSE task_state[u]
  /\ BitsType' /\ GroupExact'
  /\ \A q \in Priorities :
       /\ IsInjective(g_readytorun'[q])
       /\ Range(g_readytorun'[q]) = IF q = sched_priority[t]
                                    THEN Range(g_readytorun[q]) \cup {t}
                                    ELSE Range(g_readytorun[q])
       /\ g_readytorun'[q] = <<>> <=> (g_readytorun[q] = <<>> /\ q # sched_priority[t])
       /\ bit_is_set(q)' <=> (bit_is_set(q) \/ q = sched_priority[t])

\* sched_attach puts a task at the tail of its own ready queue and sets its bit.
LEMMA AttachFacts ==
  ASSUME TypeOK, GroupExact, NEW t \in Tasks, sched_attach(t),
         \A q \in Priorities : IsInjective(g_readytorun[q]),
         \A q \in Priorities : t \notin Range(g_readytorun[q])
  PROVE  AttachEffect(t)
<1> DEFINE p == sched_priority[t]
           queue == g_readytorun[p]
           r == list_add_tail(queue, t)
<1>1. p \in Priorities
  BY ConstantFacts
<1>2. g_readytorun \in [Priorities -> Seq(Tasks)] /\ BitsType
  BY DEF TypeOK, BitsType
<1>3. queue \in Seq(Tasks) /\ IsInjective(queue) /\ t \notin Range(queue)
  BY <1>1, <1>2
<1>4. r \in Seq(Tasks) /\ IsInjective(r) /\ Range(r) = Range(queue) \cup {t} /\ r # <<>>
  <2> HIDE DEF queue
  <2> QED BY <1>3, AppendQueue
<1>5. g_readytorun' = [g_readytorun EXCEPT ![p] = r]
  BY DEF sched_attach
<1>6. task_state' = [task_state EXCEPT ![t] = "READYTORUN"] /\ set_priority_bits(p)
  BY DEF sched_attach
<1> HIDE DEF r, p
<1>7. /\ g_readytorun' \in [Priorities -> Seq(Tasks)]
      /\ g_readytorun'[p] = r
      /\ \A q \in Priorities : q # p => g_readytorun'[q] = g_readytorun[q]
  BY <1>1, <1>2, <1>4, <1>5, ReplaceQueue
<1>8. /\ BitsType' /\ GroupExact'
      /\ \A q \in Priorities : bit_is_set(q)' <=> (bit_is_set(q) \/ q = p)
  BY <1>1, <1>2, <1>6, SetBits
<1>9. /\ task_state' \in [Tasks -> TaskStates]
      /\ \A u \in Tasks : task_state'[u] = IF u = t THEN "READYTORUN" ELSE task_state[u]
  BY <1>6 DEF TypeOK, TaskStates
<1> QED BY <1>4, <1>7, <1>8, <1>9 DEF p, AttachEffect

\* Handing a task over to a ready queue keeps every task on one queue.
LEMMA AttachIntegrity ==
  ASSUME TypeOK, QueueIntegrity, StateMatchesQueue,
         NEW t \in Tasks, AttachEffect(t),
         g_pendingtasks' \in Seq(Tasks), IsInjective(g_pendingtasks'),
         Range(g_pendingtasks') = Range(g_pendingtasks) \ {t}
  PROVE  QueueIntegrity' /\ StateMatchesQueue'
<1> USE DEF AttachEffect
<1>1. sched_priority[t] \in Priorities
  BY ConstantFacts
<1>2. /\ Range(g_pendingtasks') \subseteq Tasks
      /\ \A q \in Priorities : Range(g_readytorun[q]) \subseteq Tasks
      /\ \A q \in Priorities : Range(g_readytorun'[q]) \subseteq Tasks
  BY QueueElements, Zenon DEF TypeOK
<1>3. ASSUME NEW q \in Priorities
      PROVE  /\ IsInjective(g_readytorun'[q])
             /\ Range(g_readytorun'[q]) \cap Range(g_pendingtasks') = {}
             /\ \A u \in Range(g_readytorun'[q]) :
                  /\ task_state'[u] = "READYTORUN"
                  /\ sched_priority[u] = q
  BY <1>2 DEF QueueIntegrity, StateMatchesQueue
<1>4. \A u \in Range(g_pendingtasks') : task_state'[u] \in {"RUNNING", "SLEEPING"}
  BY <1>2 DEF StateMatchesQueue
<1>5. ASSUME NEW u \in Tasks, Activated(u)'
      PROVE  u \in Range(g_pendingtasks') \cup Range(g_readytorun'[sched_priority[u]])
  <2>1. sched_priority[u] \in Priorities
    BY ConstantFacts
  <2>2. CASE u = t
    BY <1>1, <2>2, Zenon
  <2>3. CASE u # t
    BY <2>1, <2>3, <1>5 DEF QueueIntegrity, Activated
  <2> QED BY <2>2, <2>3
<1>6. QueueIntegrity'
  BY <1>3, <1>4, <1>5 DEF QueueIntegrity, Activated
<1> QED BY <1>3, <1>4, <1>6 DEF StateMatchesQueue
-----------------------------------------------------------------------------
(* The inductive invariant: initial states and one lemma per action.       *)

\* After sched_init only idle_task is activated, and its bit is the only one.
LEMMA InitInv == Init => IInv
<1> SUFFICES ASSUME Init PROVE IInv
  OBVIOUS
<1> DEFINE p == sched_priority[idle_task]
<1>1. p \in Priorities /\ idle_task \in Tasks /\ p \div 8 \in Rows /\ p % 8 \in Columns
  BY ConstantFacts, RowColumn DEF Tasks
<1>2. /\ Range(<<idle_task>>) = {idle_task} /\ IsInjective(<<idle_task>>)
      /\ <<idle_task>> \in Seq(Tasks) /\ <<idle_task>> # <<>>
      /\ Range(<<>>) = {} /\ IsInjective(<<>>) /\ <<>> \in Seq(Tasks)
  BY <1>1 DEF Range, IsInjective
<1>3. TypeOK
  BY <1>1, <1>2, ConstantFacts DEF Init, sched_init, initial_bitmap, TypeOK, TaskStates
<1>4. \A q \in Priorities : g_readytorun[q] = IF q = p THEN <<idle_task>> ELSE <<>>
  BY DEF Init, sched_init
<1>5. g_pendingtasks = <<>> /\ g_current_task = idle_task /\ pc = "boot"
  BY DEF Init, sched_init
<1>6. \A t \in Tasks : task_state[t] = IF t = idle_task THEN "READYTORUN" ELSE "INACTIVE"
  BY DEF Init, sched_init
<1>7. \A t \in Tasks : readytime[t] = 0
  BY DEF Init
<1>8. clk = 1
  BY DEF Init
<1>9. \A q \in Priorities : bit_is_set(q) <=> q = p
  <2> TAKE q \in Priorities
  <2>1. q \div 8 \in Rows
    BY RowColumn
  <2>2. bit_is_set(q) <=> (q \div 8 = p \div 8 /\ q % 8 = p % 8)
    BY <2>1 DEF Init, sched_init, initial_bitmap, bit_is_set
  <2> QED BY <1>1, <2>2, SameBit
<1>10. GroupExact
  BY <1>1 DEF Init, sched_init, initial_bitmap, GroupExact
<1> HIDE DEF p
<1>11. QueueIntegrity
  BY <1>1, <1>2, <1>4, <1>5, <1>6 DEF QueueIntegrity, Activated, p
<1>12. BitmapFindsReady /\ StaleBitIsRunner
  BY <1>2, <1>4, <1>9, <1>10 DEF BitmapFindsReady, StaleBitIsRunner, GroupExact
<1>13. SingleRunner /\ HighestPriorityRuns /\ NoEarlyResume /\ PassedOverIsAsleep
  BY <1>5, <1>6 DEF SingleRunner, HighestPriorityRuns, NoEarlyResume, PassedOverIsAsleep
<1>14. StateMatchesQueue
  BY <1>1, <1>2, <1>4, <1>5, <1>6 DEF StateMatchesQueue
<1>15. AwakeIsDue /\ IdleNeverSleeps /\ BootState
  BY <1>1, <1>5, <1>6, <1>7, <1>8, ConstantFacts DEF AwakeIsDue, IdleNeverSleeps, BootState
<1> QED BY <1>3, <1>11, <1>12, <1>13, <1>14, <1>15 DEF IInv

\* The counter advancing disturbs only what compares with it.
LEMMA TickInv == IInv /\ Tick => IInv'
<1> SUFFICES ASSUME IInv, Tick PROVE IInv'
  OBVIOUS
<1>1. TypeOK /\ AwakeIsDue /\ NoEarlyResume
  BY DEF IInv
<1>2. clk \in 1 .. MaxClock /\ clk' = clk + 1 /\ clk < MaxClock /\ MaxClock \in Nat
  BY <1>1, ConstantFacts DEF TypeOK, Tick
<1>3. TypeOK'
  BY <1>1, <1>2 DEF TypeOK, Tick, queues, bits
<1>4. AwakeIsDue' /\ NoEarlyResume'
  BY <1>1, <1>2 DEF AwakeIsDue, NoEarlyResume, TypeOK, Tick, queues, bits
<1>5. (QueueIntegrity /\ BitmapFindsReady /\ StaleBitIsRunner /\ SingleRunner
       /\ HighestPriorityRuns /\ StateMatchesQueue /\ IdleNeverSleeps
       /\ PassedOverIsAsleep /\ BootState)'
  BY DEF IInv, Tick, queues, bits, QueueIntegrity, BitmapFindsReady, StaleBitIsRunner,
         SingleRunner, HighestPriorityRuns, StateMatchesQueue, IdleNeverSleeps,
         PassedOverIsAsleep, BootState, Activated, bit_is_set
<1> QED BY <1>3, <1>4, <1>5 DEF IInv

\* Steps that only move the processor: entering schedule(), enabling
\* interrupts, halting, and doing nothing.
ControlOnly ==
  /\ UNCHANGED <<g_current_task, queues, bits, task_state, readytime, clk>>
  /\ \/ pc' = "check" /\ pos' = 1
     \/ pc = "boot" /\ pc' = "bootidle" /\ UNCHANGED pos
     \/ pc' = "halt" /\ UNCHANGED pos
     \/ UNCHANGED <<pc, pos>>

\* Steps that only move the kernel from one point to the next.
LEMMA ControlInv == IInv /\ ControlOnly => IInv'
<1> SUFFICES ASSUME IInv, ControlOnly PROVE IInv'
  OBVIOUS
<1> USE DEF ControlOnly, queues, bits
<1>1. TypeOK /\ PassedOverIsAsleep /\ HighestPriorityRuns /\ NoEarlyResume /\ BootState
  BY DEF IInv
<1>2. TypeOK'
  BY <1>1 DEF TypeOK
<1>3. PassedOverIsAsleep'
  <2>1. CASE pc' = "check" /\ pos' = 1
    <3>1. DOMAIN g_pendingtasks = 1 .. Len(g_pendingtasks)
      BY <1>1, QueueIs DEF TypeOK
    <3> QED BY <2>1, <3>1 DEF PassedOverIsAsleep
  <2>2. CASE pc' # "check" \/ UNCHANGED <<pc, pos>>
    BY <1>1, <2>2 DEF PassedOverIsAsleep
  <2> QED BY <2>1, <2>2
<1>4. HighestPriorityRuns' /\ NoEarlyResume' /\ BootState'
  BY <1>1, Zenon DEF HighestPriorityRuns, NoEarlyResume, BootState
<1>5. (QueueIntegrity /\ BitmapFindsReady /\ StaleBitIsRunner /\ SingleRunner
       /\ StateMatchesQueue /\ IdleNeverSleeps /\ AwakeIsDue)'
  BY DEF IInv, QueueIntegrity, BitmapFindsReady, StaleBitIsRunner, SingleRunner,
         StateMatchesQueue, IdleNeverSleeps, AwakeIsDue, Activated, bit_is_set
<1> QED BY <1>2, <1>3, <1>4, <1>5 DEF IInv
-----------------------------------------------------------------------------
(* The actions that change the queues.                                     *)

\* sched_attach from root_task_create.
LEMMA CreateInv ==
  ASSUME NEW t \in UserTasks, IInv, RootTaskCreate(t)
  PROVE  IInv'
<1>1. /\ TypeOK /\ QueueIntegrity /\ BitmapFindsReady /\ StaleBitIsRunner /\ SingleRunner
      /\ StateMatchesQueue /\ AwakeIsDue /\ IdleNeverSleeps /\ BootState /\ GroupExact
  BY DEF IInv, BitmapFindsReady, GroupExact
<1>2. t \in Tasks /\ sched_priority[t] \in Priorities /\ idle_task \in Tasks
  BY ConstantFacts
<1>3. /\ pc = "boot" /\ pc' = "boot" /\ task_state[t] = "INACTIVE" /\ sched_attach(t)
      /\ UNCHANGED <<g_current_task, g_pendingtasks, readytime, clk, pos>>
  BY Zenon DEF RootTaskCreate
<1>4. \A q \in Priorities : t \notin Range(g_readytorun[q]) /\ IsInjective(g_readytorun[q])
  BY <1>1, <1>3 DEF QueueIntegrity, Activated
<1>5. g_pendingtasks = <<>> /\ Range(g_pendingtasks) = {}
  BY <1>1, <1>3 DEF BootState, Range
<1>6. AttachEffect(t)
  BY <1>1, <1>2, <1>3, <1>4, AttachFacts
<1>7. TypeOK'
  BY <1>1, <1>3, <1>6 DEF TypeOK, BitsType, AttachEffect
<1>8. QueueIntegrity' /\ StateMatchesQueue'
  <2>1. /\ g_pendingtasks' \in Seq(Tasks) /\ IsInjective(g_pendingtasks')
        /\ Range(g_pendingtasks') = Range(g_pendingtasks) \ {t}
    BY <1>1, <1>3, <1>5 DEF TypeOK, QueueIntegrity
  <2> QED BY <2>1, <1>1, <1>2, <1>6, AttachIntegrity
<1>9. BitmapFindsReady'
  BY ONLY <1>1, <1>6, Zenon DEF BitmapFindsReady, GroupExact, AttachEffect
<1>10. SingleRunner' /\ HighestPriorityRuns' /\ NoEarlyResume' /\ PassedOverIsAsleep' /\ BootState'
  BY <1>1, <1>3, <1>6 DEF SingleRunner, HighestPriorityRuns, NoEarlyResume,
                          PassedOverIsAsleep, BootState, AttachEffect
<1>11. StaleBitIsRunner'
  <2> SUFFICES ASSUME NEW q \in Priorities, bit_is_set(q)', g_readytorun'[q] = <<>>
               PROVE  FALSE
    BY DEF StaleBitIsRunner
  <2>1. bit_is_set(q) /\ g_readytorun[q] = <<>>
    BY <1>6, Zenon DEF AttachEffect
  <2> QED BY <2>1, <1>1, <1>5 DEF StaleBitIsRunner
<1>12. AwakeIsDue' /\ IdleNeverSleeps'
  BY ONLY <1>1, <1>2, <1>3, <1>6, Zenon DEF AwakeIsDue, IdleNeverSleeps, AttachEffect
<1> QED BY ONLY <1>7, <1>8, <1>9, <1>10, <1>11, <1>12, Zenon DEF IInv

\* An iteration of sched_pending_check that wakes task t.
LEMMA WakeInv ==
  ASSUME IInv, pc = "check", pos <= Len(g_pendingtasks),
         NEW t, t = g_pendingtasks[pos],
         is_due(readytime[t], clk), wake_and_attach(t),
         UNCHANGED <<g_current_task, readytime, clk, pc, pos>>
  PROVE  IInv'
<1>1. /\ TypeOK /\ QueueIntegrity /\ BitmapFindsReady /\ StaleBitIsRunner /\ SingleRunner
      /\ StateMatchesQueue /\ AwakeIsDue /\ IdleNeverSleeps /\ GroupExact
      /\ PassedOverIsAsleep
  BY Zenon DEF IInv, BitmapFindsReady, GroupExact
<1>2. /\ g_pendingtasks \in Seq(Tasks) /\ pos \in DOMAIN g_pendingtasks
      /\ DOMAIN g_pendingtasks = 1 .. Len(g_pendingtasks) /\ Len(g_pendingtasks) \in Nat
      /\ IsInjective(g_pendingtasks)
  BY <1>1, QueueIs DEF TypeOK, QueueIntegrity
<1>3. t \in Tasks /\ t \in Range(g_pendingtasks)
  BY <1>2, QueueIs, Zenon DEF Range
<1>4. idle_task \in Tasks /\ g_current_task \in Tasks
  BY ONLY <1>1, ConstantFacts, Zenon DEF TypeOK
<1>5. \A q \in Priorities : t \notin Range(g_readytorun[q]) /\ IsInjective(g_readytorun[q])
  BY <1>1, <1>3 DEF QueueIntegrity
<1>6. sched_attach(t) /\ g_pendingtasks' = list_del(g_pendingtasks, t)
  BY Zenon DEF wake_and_attach
<1>7. AttachEffect(t)
  BY ONLY <1>1, <1>3, <1>5, <1>6, AttachFacts, Zenon
<1>8. /\ g_pendingtasks' \in Seq(Tasks)
      /\ IsInjective(g_pendingtasks')
      /\ Range(g_pendingtasks') = Range(g_pendingtasks) \ {t}
      /\ Len(g_pendingtasks') = Len(g_pendingtasks) - 1
      /\ \A i \in DOMAIN g_pendingtasks : i < pos => g_pendingtasks'[i] = g_pendingtasks[i]
  <2> DEFINE q == g_pendingtasks
  <2>1. q \in Seq(Tasks) /\ IsInjective(q) /\ pos \in DOMAIN q /\ q[pos] = t
    BY <1>2, Zenon
  <2> HIDE DEF q
  <2>2. /\ list_del(q, t) \in Seq(Tasks)
        /\ IsInjective(list_del(q, t))
        /\ Range(list_del(q, t)) = Range(q) \ {t}
        /\ \A k \in DOMAIN q : q[k] = t =>
             /\ Len(list_del(q, t)) = Len(q) - 1
             /\ \A i \in DOMAIN q : i < k => list_del(q, t)[i] = q[i]
    BY <2>1, DelQueue, Zenon
  <2>3. /\ Len(list_del(q, t)) = Len(q) - 1
        /\ \A i \in DOMAIN q : i < pos => list_del(q, t)[i] = q[i]
    BY ONLY <2>1, <2>2, Zenon
  <2> QED BY <1>6, <2>2, <2>3 DEF q
<1>9. TypeOK'
  BY <1>1, <1>7, <1>8, Zenon DEF TypeOK, BitsType, AttachEffect
<1>10. QueueIntegrity' /\ StateMatchesQueue'
  BY <1>1, <1>3, <1>7, <1>8, AttachIntegrity
<1>11. BitmapFindsReady'
  BY <1>1, <1>7, Zenon DEF BitmapFindsReady, GroupExact, AttachEffect
<1>12. SingleRunner' /\ HighestPriorityRuns' /\ NoEarlyResume' /\ BootState'
  BY <1>1, <1>7, Zenon DEF SingleRunner, HighestPriorityRuns, NoEarlyResume, BootState, AttachEffect
<1>13. StaleBitIsRunner'
  <2> SUFFICES ASSUME NEW q \in Priorities, bit_is_set(q)', g_readytorun'[q] = <<>>
               PROVE  /\ sched_priority[g_current_task] = q
                      /\ task_state'[g_current_task] = "RUNNING"
                      /\ g_current_task \in Range(g_pendingtasks')
    BY Zenon DEF StaleBitIsRunner
  <2>1. bit_is_set(q) /\ g_readytorun[q] = <<>> /\ q # sched_priority[t]
    BY <1>7, Zenon DEF AttachEffect
  <2>2. /\ sched_priority[g_current_task] = q
        /\ task_state[g_current_task] = "RUNNING"
        /\ g_current_task \in Range(g_pendingtasks)
    BY ONLY <2>1, <1>1, Zenon DEF StaleBitIsRunner
  <2> QED BY ONLY <2>1, <2>2, <1>4, <1>7, <1>8, Zenon DEF AttachEffect
<1>14. AwakeIsDue'
  <2>1. readytime[t] \in Nat /\ clk \in Nat /\ clk <= MaxClock /\ readytime[t] < MaxClock
    BY <1>1, <1>3, ConstantFacts DEF TypeOK, AwakeIsDue
  <2>2. readytime[t] < clk
    BY <2>1, DueIsPast, Zenon
  <2> QED BY <2>2, <1>1, <1>7, Zenon DEF AwakeIsDue, AttachEffect
<1>15. IdleNeverSleeps'
  BY ONLY <1>1, <1>4, <1>7, Zenon DEF IdleNeverSleeps, AttachEffect
<1>16. PassedOverIsAsleep'
  <2> SUFFICES ASSUME NEW i \in DOMAIN g_pendingtasks', i < pos
               PROVE  task_state'[g_pendingtasks'[i]] = "SLEEPING"
    BY DEF PassedOverIsAsleep
  <2>1. i \in DOMAIN g_pendingtasks
    BY <1>2, <1>8, QueueIs
  <2>2. g_pendingtasks'[i] = g_pendingtasks[i] /\ g_pendingtasks[i] \in Tasks
    BY <2>1, <1>2, <1>8, QueueIs, Zenon
  <2>3. g_pendingtasks[i] # t
    BY <2>1, <1>2 DEF IsInjective
  <2>4. task_state[g_pendingtasks[i]] = "SLEEPING"
    BY <2>1, <1>1, Zenon DEF PassedOverIsAsleep
  <2> QED BY <2>2, <2>3, <2>4, <1>7 DEF AttachEffect
<1> QED BY ONLY <1>9, <1>10, <1>11, <1>12, <1>13, <1>14, <1>15, <1>16, Zenon DEF IInv

\* An iteration of sched_pending_check that passes a sleeper over.
LEMMA PassOverInv ==
  ASSUME IInv, pc = "check", pos <= Len(g_pendingtasks),
         ~ is_due(readytime[g_pendingtasks[pos]], clk), pos' = pos + 1,
         UNCHANGED <<g_current_task, queues, bits, task_state, readytime, clk, pc>>
  PROVE  IInv'
<1> USE DEF queues, bits
<1>1. TypeOK /\ AwakeIsDue /\ PassedOverIsAsleep
  BY DEF IInv
<1>2. /\ DOMAIN g_pendingtasks = 1 .. Len(g_pendingtasks) /\ Len(g_pendingtasks) \in Nat
      /\ pos \in Nat /\ pos \in DOMAIN g_pendingtasks /\ g_pendingtasks[pos] \in Tasks
  BY <1>1, QueueIs DEF TypeOK
<1>3. TypeOK'
  BY <1>1 DEF TypeOK
<1>4. task_state[g_pendingtasks[pos]] = "SLEEPING"
  <2> DEFINE t == g_pendingtasks[pos]
  <2>1. readytime[t] \in Nat /\ clk \in Nat /\ clk <= MaxClock /\ readytime[t] < MaxClock
    BY <1>1, <1>2, ConstantFacts DEF TypeOK, AwakeIsDue
  <2>2. ~ (readytime[t] < clk)
    BY <2>1, DueIsPast
  <2> QED BY ONLY <2>2, <1>1, <1>2, Zenon DEF AwakeIsDue
<1>5. PassedOverIsAsleep'
  BY <1>1, <1>2, <1>4 DEF PassedOverIsAsleep
<1>6. (QueueIntegrity /\ BitmapFindsReady /\ StaleBitIsRunner /\ SingleRunner
       /\ HighestPriorityRuns /\ NoEarlyResume /\ StateMatchesQueue /\ AwakeIsDue
       /\ IdleNeverSleeps /\ BootState)'
  BY DEF IInv, QueueIntegrity, BitmapFindsReady, StaleBitIsRunner, SingleRunner,
         HighestPriorityRuns, NoEarlyResume, StateMatchesQueue, AwakeIsDue,
         IdleNeverSleeps, BootState, Activated, bit_is_set
<1> QED BY <1>3, <1>5, <1>6 DEF IInv

\* An iteration of sched_pending_check, whichever way it goes.
LEMMA PendingCheckInv == IInv /\ PendingCheck => IInv'
<1> SUFFICES ASSUME IInv, PendingCheck PROVE IInv'
  OBVIOUS
<1> DEFINE t == g_pendingtasks[pos]
<1>1. /\ pc = "check" /\ pos <= Len(g_pendingtasks)
      /\ UNCHANGED <<g_current_task, readytime, clk, pc>>
  BY DEF PendingCheck
<1>2. CASE is_due(readytime[t], clk) /\ wake_and_attach(t) /\ UNCHANGED pos
  <2> HIDE DEF t
  <2> QED BY <1>1, <1>2, WakeInv DEF t
<1>3. CASE /\ ~ is_due(readytime[t], clk) /\ pos' = pos + 1
           /\ UNCHANGED <<queues, bits, task_state>>
  BY <1>1, <1>3, PassOverInv
<1> QED BY <1>2, <1>3, Zenon DEF PendingCheck

\* sys_nanosleep: the caller is unlinked wherever it is, its bit is dropped
\* with the last entry of its queue, and it goes to the tail of the sleepers.
LEMMA NanosleepInv ==
  ASSUME NEW req \in Requests, IInv, SvcNanosleep(req)
  PROVE  IInv'
<1> DEFINE t == g_current_task
           p == sched_priority[t]
           queue == g_readytorun[p]
           ready == list_del(queue, t)
           pend == g_pendingtasks
           pend1 == list_del(pend, t)
<1>1. /\ TypeOK /\ QueueIntegrity /\ BitmapFindsReady /\ StaleBitIsRunner /\ SingleRunner
      /\ StateMatchesQueue /\ AwakeIsDue /\ IdleNeverSleeps /\ GroupExact
  BY DEF IInv, BitmapFindsReady, GroupExact
<1>2. t \in UserTasks /\ t \in Tasks /\ t # idle_task /\ idle_task \in Tasks /\ p \in Priorities
  BY ConstantFacts, SchedulerAssumption DEF SvcNanosleep
<1>3. /\ g_readytorun' = [g_readytorun EXCEPT ![p] = ready]
      /\ task_state' = [task_state EXCEPT ![t] = "SLEEPING"]
      /\ clear_priority_bits(p, ready)
      /\ g_pendingtasks' = list_add_tail(pend1, t)
  BY DEF SvcNanosleep, sched_sleep
<1>4. /\ pc = "run" /\ pc' = "check" /\ pos' = 1 /\ g_current_task' = t /\ clk' = clk
      /\ clk + sleep_ticks(req) < MaxClock
      /\ readytime' = [readytime EXCEPT ![t] = nanosleep_readytime(clk, req)]
  BY DEF SvcNanosleep, enter_schedule
<1>5. queue \in Seq(Tasks) /\ IsInjective(queue) /\ pend \in Seq(Tasks) /\ IsInjective(pend)
  BY <1>1, <1>2 DEF TypeOK, QueueIntegrity
<1>6. ready \in Seq(Tasks) /\ IsInjective(ready) /\ Range(ready) = Range(queue) \ {t}
  <2> HIDE DEF queue
  <2> QED BY ONLY <1>5, DelQueue, Zenon
<1>7. pend1 \in Seq(Tasks) /\ IsInjective(pend1) /\ Range(pend1) = Range(pend) \ {t}
  <2> HIDE DEF pend
  <2> QED BY <1>5, DelQueue
<1>8. /\ g_pendingtasks' \in Seq(Tasks) /\ IsInjective(g_pendingtasks')
      /\ Range(g_pendingtasks') = Range(g_pendingtasks) \cup {t}
  <2> HIDE DEF pend1, t
  <2>1. t \in Tasks /\ pend1 \in Seq(Tasks) /\ IsInjective(pend1) /\ t \notin Range(pend1)
    BY <1>2, <1>7
  <2>2. /\ list_add_tail(pend1, t) \in Seq(Tasks) /\ IsInjective(list_add_tail(pend1, t))
        /\ Range(list_add_tail(pend1, t)) = Range(pend1) \cup {t}
    BY <2>1, AppendQueue
  <2> QED BY <1>3, <1>7, <2>2
<1>9. /\ g_readytorun' \in [Priorities -> Seq(Tasks)]
      /\ g_readytorun'[p] = ready
      /\ \A q \in Priorities : q # p => g_readytorun'[q] = g_readytorun[q]
  <2> HIDE DEF ready, p
  <2>1. g_readytorun \in [Priorities -> Seq(Tasks)]
    BY <1>1 DEF TypeOK
  <2> QED BY <1>2, <1>3, <1>6, <2>1, ReplaceQueue
<1>10. /\ BitsType' /\ GroupExact'
       /\ \A q \in Priorities :
            bit_is_set(q)' <=> (bit_is_set(q) /\ ~ (q = p /\ ready = <<>>))
  <2> HIDE DEF ready, p
  <2>1. BitsType
    BY <1>1 DEF TypeOK, BitsType
  <2> QED BY <1>1, <1>2, <1>3, <2>1, ClearBits
<1>11. /\ task_state' \in [Tasks -> TaskStates]
       /\ \A u \in Tasks : task_state'[u] = IF u = t THEN "SLEEPING" ELSE task_state[u]
  BY <1>1, <1>2, <1>3 DEF TypeOK, TaskStates
<1>12. /\ readytime' \in [Tasks -> Nat]
       /\ readytime'[t] < MaxClock
       /\ \A u \in Tasks : u # t => readytime'[u] = readytime[u]
  <2>1. clk \in Nat
    BY <1>1, ConstantFacts DEF TypeOK
  <2>2. nanosleep_readytime(clk, req) \in Nat /\ nanosleep_readytime(clk, req) < MaxClock
    BY <2>1, <1>4, ReadytimeInRange
  <2> QED BY <1>1, <1>2, <1>4, <2>2 DEF TypeOK
<1>13. /\ Range(g_pendingtasks) \subseteq Tasks
       /\ \A q \in Priorities : Range(g_readytorun[q]) \subseteq Tasks
  BY ONLY <1>1, QueueElements, Zenon DEF TypeOK
<1>14. \A q \in Priorities : Range(g_readytorun'[q]) = Range(g_readytorun[q]) \ {t}
  <2> TAKE q \in Priorities
  <2>1. CASE q = p
    BY <2>1, <1>6, <1>9
  <2>2. CASE q # p
    BY ONLY <2>2, <1>1, <1>9, ZenonT(30) DEF QueueIntegrity
  <2> QED BY <2>1, <2>2
<1>15. ready # <<>> => queue # <<>>
  BY ONLY <1>5, <1>6, EmptyQueue, Zenon
<1> HIDE DEF ready, pend, pend1
<1>16. TypeOK'
  BY <1>1, <1>4, <1>8, <1>9, <1>10, <1>11, <1>12 DEF TypeOK, BitsType
<1>17. QueueIntegrity' /\ StateMatchesQueue'
  <2> HIDE DEF queue, p
  <2>1. ASSUME NEW q \in Priorities
        PROVE  /\ IsInjective(g_readytorun'[q])
               /\ Range(g_readytorun'[q]) \cap Range(g_pendingtasks') = {}
               /\ \A u \in Range(g_readytorun'[q]) :
                    task_state'[u] = "READYTORUN" /\ sched_priority[u] = q
    <3>1. IsInjective(g_readytorun'[q])
      BY ONLY <1>1, <1>6, <1>9, Zenon DEF QueueIntegrity
    <3>2. Range(g_readytorun'[q]) \cap Range(g_pendingtasks') = {}
      BY ONLY <1>1, <1>8, <1>14, Zenon DEF QueueIntegrity
    <3>3. \A u \in Range(g_readytorun'[q]) :
            task_state'[u] = "READYTORUN" /\ sched_priority[u] = q
      BY <1>1, <1>11, <1>13, <1>14 DEF QueueIntegrity, StateMatchesQueue
    <3> QED BY ONLY <3>1, <3>2, <3>3, Zenon
  <2>2. \A u \in Range(g_pendingtasks') : task_state'[u] \in {"RUNNING", "SLEEPING"}
    BY ONLY <1>1, <1>2, <1>8, <1>11, <1>13, Zenon DEF StateMatchesQueue
  <2>3. ASSUME NEW u \in Tasks, Activated(u)'
        PROVE  u \in Range(g_pendingtasks') \cup Range(g_readytorun'[sched_priority[u]])
    <3>1. sched_priority[u] \in Priorities
      BY ConstantFacts
    <3> QED BY <3>1, <2>3, <1>1, <1>8, <1>11, <1>14 DEF QueueIntegrity, Activated
  <2> QED BY <2>1, <2>2, <2>3, <1>8, Zenon DEF QueueIntegrity, StateMatchesQueue, Activated
<1>18. BitmapFindsReady'
  <2>1. ASSUME NEW q \in Priorities, g_readytorun'[q] # <<>>
        PROVE  bit_is_set(q)'
    BY ONLY <2>1, <1>1, <1>9, <1>10, <1>15, Zenon DEF BitmapFindsReady
  <2> QED BY ONLY <2>1, <1>10, Zenon DEF BitmapFindsReady, GroupExact
<1>19. StaleBitIsRunner'
  <2> SUFFICES ASSUME NEW q \in Priorities, bit_is_set(q)', g_readytorun'[q] = <<>>
               PROVE  FALSE
    BY DEF StaleBitIsRunner
  <2>1. q # p
    BY <1>9, <1>10
  <2>2. bit_is_set(q) /\ g_readytorun[q] = <<>>
    BY <2>1, <1>9, <1>10
  <2> QED BY <2>1, <2>2, <1>1 DEF StaleBitIsRunner
<1>20. SingleRunner' /\ IdleNeverSleeps'
  BY <1>1, <1>2, <1>4, <1>11 DEF SingleRunner, IdleNeverSleeps
<1>21. HighestPriorityRuns' /\ NoEarlyResume' /\ BootState'
  BY ONLY <1>4, Zenon DEF HighestPriorityRuns, NoEarlyResume, BootState
<1>22. AwakeIsDue'
  BY ONLY <1>1, <1>2, <1>4, <1>11, <1>12, Zenon DEF AwakeIsDue
<1>23. PassedOverIsAsleep'
  <2>1. DOMAIN g_pendingtasks' = 1 .. Len(g_pendingtasks')
    BY <1>8, QueueIs
  <2> QED BY <2>1, <1>4 DEF PassedOverIsAsleep
<1> QED BY <1>16, <1>17, <1>18, <1>19, <1>20, <1>21, <1>22, <1>23 DEF IInv

\* When the loop of sched_pending_check is through, no bit is stale, so the
\* two lookups find the highest priority that has a ready task.
LEMMA BestPriority ==
  ASSUME IInv, pc = "check", pos > Len(g_pendingtasks)
  PROVE  /\ best_priority \in Priorities
         /\ g_readytorun[best_priority] # <<>>
         /\ \A q \in Priorities : g_readytorun[q] # <<>> => bit_is_set(q) /\ best_priority <= q
         /\ \A q \in Priorities : bit_is_set(q) => g_readytorun[q] # <<>>
         /\ \A t \in Tasks : task_state[t] # "RUNNING"
<1> DEFINE row == g_priority_map(g_priority_group)
           col == g_priority_map(g_priority_bitmap[row])
<1>1. /\ TypeOK /\ QueueIntegrity /\ BitmapFindsReady /\ StaleBitIsRunner /\ GroupExact
      /\ StateMatchesQueue /\ IdleNeverSleeps /\ PassedOverIsAsleep
  BY DEF IInv, BitmapFindsReady, GroupExact
<1>2. \A t \in Range(g_pendingtasks) : task_state[t] = "SLEEPING"
  <2>1. DOMAIN g_pendingtasks = 1 .. Len(g_pendingtasks) /\ Len(g_pendingtasks) \in Nat
    BY <1>1, QueueIs DEF TypeOK
  <2>2. \A i \in DOMAIN g_pendingtasks : task_state[g_pendingtasks[i]] = "SLEEPING"
    BY <1>1, <2>1 DEF PassedOverIsAsleep, TypeOK
  <2> QED BY <2>2 DEF Range
<1>3. \A t \in Tasks : task_state[t] # "RUNNING"
  <2> SUFFICES ASSUME NEW t \in Tasks, task_state[t] = "RUNNING" PROVE FALSE
    OBVIOUS
  <2>1. sched_priority[t] \in Priorities
    BY ONLY ConstantFacts, Zenon
  <2>2. t \in Range(g_pendingtasks) \cup Range(g_readytorun[sched_priority[t]])
    BY <1>1 DEF QueueIntegrity, Activated
  <2> QED BY <1>1, <1>2, <2>1, <2>2 DEF StateMatchesQueue
<1>4. \A q \in Priorities : bit_is_set(q) => g_readytorun[q] # <<>>
  BY <1>1, <1>3 DEF StaleBitIsRunner, TypeOK
<1>5. bit_is_set(sched_priority[idle_task]) /\ sched_priority[idle_task] \in Priorities
  <2>1. idle_task \in Tasks /\ sched_priority[idle_task] \in Priorities
    BY ConstantFacts
  <2>2. task_state[idle_task] = "READYTORUN"
    BY <1>1, <1>3, <2>1 DEF IdleNeverSleeps
  <2>3. idle_task \in Range(g_readytorun[sched_priority[idle_task]])
    BY <1>1, <1>2, <2>1, <2>2 DEF QueueIntegrity, Activated
  <2>4. g_readytorun[sched_priority[idle_task]] # <<>>
    BY <1>1, <2>1, <2>3, EmptyQueue DEF TypeOK
  <2> QED BY <1>1, <2>1, <2>4 DEF BitmapFindsReady
<1>6. /\ row \in Rows /\ g_priority_bitmap[row] # {}
      /\ \A r \in g_priority_group : row <= r
  <2>1. sched_priority[idle_task] \div 8 \in Rows
    BY <1>5, RowColumn
  <2>2. sched_priority[idle_task] \div 8 \in g_priority_group
    BY <1>1, <1>5, <2>1 DEF bit_is_set, GroupExact
  <2>3. g_priority_group \in SUBSET (0 .. 7) /\ g_priority_group # {}
    BY <1>1, <2>2, ConstantFacts DEF TypeOK
  <2>4. row \in g_priority_group /\ \A r \in g_priority_group : row <= r
    BY <2>3, PriorityMapIsLowest
  <2> HIDE DEF row
  <2>5. row \in Rows
    BY <2>4, <1>1 DEF TypeOK
  <2> QED BY <2>4, <2>5, <1>1 DEF GroupExact
<1> HIDE DEF row
<1>7. /\ col \in Columns /\ col \in g_priority_bitmap[row]
      /\ \A c \in g_priority_bitmap[row] : col <= c
  <2>1. g_priority_bitmap[row] \in SUBSET (0 .. 7)
    BY <1>1, <1>6 DEF TypeOK, Columns
  <2>2. col \in g_priority_bitmap[row] /\ \A c \in g_priority_bitmap[row] : col <= c
    BY <2>1, <1>6, PriorityMapIsLowest
  <2> QED BY <2>1, <2>2 DEF Columns
<1> HIDE DEF col
<1>8. best_priority = row * 8 + col
  BY DEF best_priority, row, col
<1>9. best_priority \in Priorities /\ bit_is_set(best_priority)
  <2>1. /\ row * 8 + col \in Priorities
        /\ (row * 8 + col) \div 8 = row
        /\ (row * 8 + col) % 8 = col
    BY <1>6, <1>7, RowColumn
  <2> QED BY <2>1, <1>7, <1>8 DEF bit_is_set
<1>10. ASSUME NEW q \in Priorities, g_readytorun[q] # <<>>
       PROVE  bit_is_set(q) /\ best_priority <= q
  <2>1. q \div 8 \in Rows /\ q % 8 \in Columns
    BY RowColumn
  <2>2. bit_is_set(q)
    BY <1>1, <1>10 DEF BitmapFindsReady
  <2>3. q % 8 \in g_priority_bitmap[q \div 8] /\ q \div 8 \in g_priority_group
    BY <1>1, <2>1, <2>2 DEF bit_is_set, GroupExact
  <2>4. row <= q \div 8 /\ (row = q \div 8 => col <= q % 8)
    BY <1>6, <1>7, <2>3
  <2>5. row < q \div 8 \/ (row = q \div 8 /\ col <= q % 8)
    BY <2>1, <2>4, <1>6, ConstantFacts DEF Rows
  <2>6. row * 8 + col <= q
    BY <1>6, <1>7, <2>5, PriorityOrder
  <2> QED BY <2>2, <2>6, <1>8
<1> QED BY ONLY <1>3, <1>4, <1>9, <1>10, Zenon

\* schedule() finds no other task of the best priority and keeps the current
\* one, which then is the only one in that queue.
LEMMA KeepInv ==
  ASSUME IInv, pc = "check", pos > Len(g_pendingtasks), pc' = "run",
         \A i \in DOMAIN g_readytorun[best_priority] :
           g_readytorun[best_priority][i] = g_current_task,
         UNCHANGED <<g_current_task, queues, bits, task_state, readytime, clk, pos>>
  PROVE  IInv'
<1> USE DEF queues, bits
<1> DEFINE b == best_priority
           ready == g_readytorun[b]
<1>1. TypeOK /\ QueueIntegrity /\ StateMatchesQueue /\ AwakeIsDue
  BY DEF IInv
<1>2. /\ b \in Priorities /\ ready # <<>>
      /\ \A q \in Priorities : g_readytorun[q] # <<>> => b <= q
  BY BestPriority
<1> HIDE DEF b
<1>3. ready \in Seq(Tasks)
  BY <1>1, <1>2 DEF TypeOK
<1>4. g_current_task \in Range(ready) /\ g_current_task \in Tasks
  <2>1. Range(ready) # {}
    BY ONLY <1>2, <1>3, EmptyQueue, Zenon
  <2> QED BY <2>1, <1>1 DEF Range, b, TypeOK
<1>5. /\ sched_priority[g_current_task] = b
      /\ task_state[g_current_task] = "READYTORUN"
      /\ readytime[g_current_task] < clk
  BY ONLY <1>1, <1>2, <1>4, Zenon DEF QueueIntegrity, StateMatchesQueue, AwakeIsDue
<1>6. HighestPriorityRuns' /\ NoEarlyResume' /\ PassedOverIsAsleep' /\ BootState'
  BY <1>2, <1>5 DEF HighestPriorityRuns, NoEarlyResume, PassedOverIsAsleep, BootState
<1>7. TypeOK'
  BY <1>1, Zenon DEF TypeOK
<1>8. (QueueIntegrity /\ BitmapFindsReady /\ StaleBitIsRunner /\ SingleRunner
       /\ StateMatchesQueue /\ AwakeIsDue /\ IdleNeverSleeps)'
  BY DEF IInv, QueueIntegrity, BitmapFindsReady, StaleBitIsRunner, SingleRunner,
         StateMatchesQueue, AwakeIsDue, IdleNeverSleeps, Activated, bit_is_set
<1> QED BY <1>6, <1>7, <1>8 DEF IInv

\* schedule() switches to task n of the best priority.  Its bit may go stale,
\* and n is exactly the task that StaleBitIsRunner allows it to.
LEMMA SwitchInv ==
  ASSUME IInv, pc = "check", pos > Len(g_pendingtasks), pc' = "run",
         NEW n \in Range(g_readytorun[best_priority]),
         task_state' = [task_state EXCEPT ![n] = "RUNNING"],
         g_current_task' = n,
         g_readytorun' = [g_readytorun EXCEPT
           ![best_priority] = list_del(g_readytorun[best_priority], n)],
         g_pendingtasks' = list_add_tail(g_pendingtasks, n),
         UNCHANGED <<bits, readytime, clk, pos>>
  PROVE  IInv'
<1> DEFINE b == best_priority
           queue == g_readytorun[b]
           ready == list_del(queue, n)
<1>1. /\ TypeOK /\ QueueIntegrity /\ BitmapFindsReady
      /\ StateMatchesQueue /\ AwakeIsDue /\ IdleNeverSleeps /\ GroupExact
  BY Zenon DEF IInv, BitmapFindsReady, GroupExact
<1>2. /\ b \in Priorities
      /\ \A q \in Priorities : g_readytorun[q] # <<>> => bit_is_set(q) /\ b <= q
      /\ \A q \in Priorities : bit_is_set(q) => g_readytorun[q] # <<>>
      /\ \A t \in Tasks : task_state[t] # "RUNNING"
  BY BestPriority
<1>3. /\ g_readytorun' = [g_readytorun EXCEPT ![b] = ready]
      /\ n \in Range(queue)
      /\ bits' = bits /\ UNCHANGED <<readytime, clk, pos>>
  BY Zenon
<1> HIDE DEF b
<1>4. queue \in Seq(Tasks) /\ IsInjective(queue)
  BY ONLY <1>1, <1>2, Zenon DEF TypeOK, QueueIntegrity
<1>5. n \in Tasks /\ idle_task \in Tasks
  BY <1>3, <1>4, QueueElements, ConstantFacts
<1>6. /\ sched_priority[n] = b
      /\ task_state[n] = "READYTORUN"
      /\ readytime[n] < clk
      /\ n \notin Range(g_pendingtasks)
  BY <1>1, <1>2, <1>3, <1>5, Zenon DEF QueueIntegrity, StateMatchesQueue, AwakeIsDue
<1>7. ready \in Seq(Tasks) /\ IsInjective(ready) /\ Range(ready) = Range(queue) \ {n}
  <2> HIDE DEF queue
  <2> QED BY <1>4, DelQueue
<1> HIDE DEF ready
<1>8. /\ g_pendingtasks' \in Seq(Tasks) /\ IsInjective(g_pendingtasks')
      /\ Range(g_pendingtasks') = Range(g_pendingtasks) \cup {n}
  <2> DEFINE pend == g_pendingtasks
  <2>1. pend \in Seq(Tasks) /\ IsInjective(pend) /\ n \notin Range(pend) /\ n \in Tasks
    BY ONLY <1>1, <1>5, <1>6, Zenon DEF TypeOK, QueueIntegrity
  <2> HIDE DEF pend
  <2>2. /\ list_add_tail(pend, n) \in Seq(Tasks) /\ IsInjective(list_add_tail(pend, n))
        /\ Range(list_add_tail(pend, n)) = Range(pend) \cup {n}
    BY ONLY <2>1, AppendQueue, SMTT(30)
  <2> QED BY <2>2, Zenon DEF pend
<1>9. /\ g_readytorun' \in [Priorities -> Seq(Tasks)]
      /\ g_readytorun'[b] = ready
      /\ \A q \in Priorities : q # b => g_readytorun'[q] = g_readytorun[q]
  <2>1. g_readytorun \in [Priorities -> Seq(Tasks)]
    BY ONLY <1>1, Zenon DEF TypeOK
  <2> QED BY <1>2, <1>3, <1>7, <2>1, ReplaceQueue, Zenon
<1>10. /\ task_state' \in [Tasks -> TaskStates]
       /\ \A u \in Tasks : task_state'[u] = IF u = n THEN "RUNNING" ELSE task_state[u]
  BY <1>1, <1>5, Zenon DEF TypeOK, TaskStates
<1>11. /\ Range(g_pendingtasks) \subseteq Tasks
       /\ \A q \in Priorities : Range(g_readytorun[q]) \subseteq Tasks
  BY ONLY <1>1, QueueElements, Zenon DEF TypeOK
<1>12. \A q \in Priorities : Range(g_readytorun'[q]) = Range(g_readytorun[q]) \ {n}
  <2> TAKE q \in Priorities
  <2>1. CASE q = b
    BY ONLY <2>1, <1>7, <1>9, Zenon
  <2>2. CASE q # b
    BY <2>2, <1>1, <1>6, <1>9 DEF QueueIntegrity
  <2> QED BY <2>1, <2>2
<1>13. \A q \in Priorities : g_readytorun'[q] # <<>> => g_readytorun[q] # <<>>
  BY ONLY <1>4, <1>7, <1>9, EmptyQueue, Zenon
<1>14. \A q \in Priorities : bit_is_set(q)' <=> bit_is_set(q)
  BY ONLY <1>3, Zenon DEF bits, bit_is_set
<1> HIDE DEF queue
<1>15. TypeOK'
  BY <1>1, <1>3, <1>5, <1>8, <1>9, <1>10, Zenon DEF TypeOK, bits
<1>16. QueueIntegrity' /\ StateMatchesQueue'
  <2>1. ASSUME NEW q \in Priorities
        PROVE  /\ IsInjective(g_readytorun'[q])
               /\ Range(g_readytorun'[q]) \cap Range(g_pendingtasks') = {}
               /\ \A u \in Range(g_readytorun'[q]) :
                    task_state'[u] = "READYTORUN" /\ sched_priority[u] = q
    <3>1. IsInjective(g_readytorun'[q])
      BY ONLY <1>1, <1>7, <1>9, Zenon DEF QueueIntegrity
    <3>2. Range(g_readytorun'[q]) \cap Range(g_pendingtasks') = {}
      BY ONLY <1>1, <1>8, <1>12, Zenon DEF QueueIntegrity
    <3>3. \A u \in Range(g_readytorun'[q]) :
            task_state'[u] = "READYTORUN" /\ sched_priority[u] = q
      BY ONLY <1>1, <1>10, <1>11, <1>12 DEF QueueIntegrity, StateMatchesQueue
    <3> QED BY ONLY <3>1, <3>2, <3>3, Zenon
  <2>2. \A u \in Range(g_pendingtasks') : task_state'[u] \in {"RUNNING", "SLEEPING"}
    BY ONLY <1>1, <1>5, <1>8, <1>10, <1>11, Zenon DEF StateMatchesQueue
  <2>3. ASSUME NEW u \in Tasks, Activated(u)'
        PROVE  u \in Range(g_pendingtasks') \cup Range(g_readytorun'[sched_priority[u]])
    <3>1. sched_priority[u] \in Priorities
      BY ONLY ConstantFacts, Zenon
    <3> QED BY <3>1, <2>3, <1>1, <1>8, <1>10, <1>12 DEF QueueIntegrity, Activated
  <2> QED BY ONLY <2>1, <2>2, <2>3, <1>8, Zenon DEF QueueIntegrity, StateMatchesQueue, Activated
<1>17. BitmapFindsReady'
  BY ONLY <1>1, <1>2, <1>3, <1>13, <1>14, Zenon DEF BitmapFindsReady, bits
<1>18. StaleBitIsRunner'
  <2> SUFFICES ASSUME NEW q \in Priorities, bit_is_set(q)', g_readytorun'[q] = <<>>
               PROVE  /\ sched_priority[n] = q
                      /\ task_state'[n] = "RUNNING"
                      /\ n \in Range(g_pendingtasks')
    BY Zenon DEF StaleBitIsRunner
  <2>1. q = b
    BY <1>2, <1>9, <1>14
  <2> QED BY ONLY <2>1, <1>5, <1>6, <1>8, <1>10, Zenon
<1>19. SingleRunner' /\ IdleNeverSleeps' /\ PassedOverIsAsleep' /\ BootState'
  BY <1>1, <1>2, <1>5, <1>10, Zenon DEF SingleRunner, IdleNeverSleeps, PassedOverIsAsleep, BootState
<1>20. HighestPriorityRuns'
  BY <1>2, <1>6, <1>13, Zenon DEF HighestPriorityRuns
<1>21. NoEarlyResume' /\ AwakeIsDue'
  BY <1>1, <1>3, <1>5, <1>6, <1>10, ZenonT(30) DEF NoEarlyResume, AwakeIsDue
<1> QED BY ONLY <1>15, <1>16, <1>17, <1>18, <1>19, <1>20, <1>21, Zenon DEF IInv

\* The selection in schedule(), whichever way it goes.
LEMMA ScheduleInv == IInv /\ Schedule => IInv'
<1> SUFFICES ASSUME IInv, Schedule PROVE IInv'
  OBVIOUS
<1> DEFINE ready == g_readytorun[best_priority]
           others == {i \in DOMAIN ready : ready[i] # g_current_task}
<1>1. /\ pc = "check" /\ pos > Len(g_pendingtasks) /\ pc' = "run"
      /\ UNCHANGED <<bits, readytime, clk, pos>>
  BY DEF Schedule
<1>2. ASSUME NEW i \in others,
             task_state' = [task_state EXCEPT ![ready[i]] = "RUNNING"],
             g_current_task' = ready[i],
             g_readytorun' = [g_readytorun EXCEPT ![best_priority] = list_del(ready, ready[i])],
             g_pendingtasks' = list_add_tail(g_pendingtasks, ready[i])
      PROVE  IInv'
  <2> DEFINE n == ready[i]
  <2>1. n \in Range(ready)
    BY DEF Range
  <2>2. /\ task_state' = [task_state EXCEPT ![n] = "RUNNING"] /\ g_current_task' = n
        /\ g_readytorun' = [g_readytorun EXCEPT ![best_priority] = list_del(ready, n)]
        /\ g_pendingtasks' = list_add_tail(g_pendingtasks, n)
    BY <1>2
  <2> HIDE DEF n
  <2> QED BY <1>1, <2>1, <2>2, SwitchInv, Zenon
<1>3. ASSUME others = {}, UNCHANGED <<task_state, g_current_task, queues>>
      PROVE  IInv'
  <2>1. \A i \in DOMAIN ready : ready[i] = g_current_task
    BY <1>3
  <2> QED BY <1>1, <1>3, <2>1, KeepInv
<1> QED BY <1>2, <1>3, Zenon DEF Schedule
-----------------------------------------------------------------------------
(* The theorems.                                                           *)

\* Every step of the kernel preserves the inductive invariant.
LEMMA NextInv == IInv /\ [Next]_vars => IInv'
<1> SUFFICES ASSUME IInv, [Next]_vars PROVE IInv'
  OBVIOUS
<1>1. CASE Tick
  BY <1>1, TickInv
<1>2. ASSUME NEW t \in UserTasks, RootTaskCreate(t) PROVE IInv'
  BY <1>2, CreateInv
<1>3. CASE EnableIrq \/ TimerIrq \/ Svc \/ HeapFault \/ FatalTrap \/ Halted \/ UNCHANGED vars
  <2>1. ControlOnly
    BY <1>3 DEF ControlOnly, EnableIrq, TimerIrq, Svc, HeapFault, FatalTrap, Halted,
                enter_schedule, vars
  <2> QED BY <2>1, ControlInv, Zenon
<1>4. ASSUME NEW req \in Requests, SvcNanosleep(req) PROVE IInv'
  BY <1>4, NanosleepInv
<1>5. CASE PendingCheck
  BY <1>5, PendingCheckInv
<1>6. CASE Schedule
  BY <1>6, ScheduleInv
<1> QED BY <1>1, <1>2, <1>3, <1>4, <1>5, <1>6 DEF Next

\* In every behaviour of the scheduler the invariant holds.
THEOREM Invariance == Spec => []IInv
BY InitInv, NextInv, PTL DEF Spec

\* The scheduler's state keeps its type.
THEOREM TypeCorrect == Spec => []TypeOK
<1>1. IInv => TypeOK
  BY DEF IInv
<1> QED BY <1>1, Invariance, PTL

\* Every activated task is on exactly one queue, once, for any number of
\* tasks and any sequence of interrupts, system calls and clock advances.
THEOREM QueuesSafe == Spec => []QueueIntegrity
<1>1. IInv => QueueIntegrity
  BY DEF IInv
<1> QED BY <1>1, Invariance, PTL

\* The bitmap finds every ready queue; what it has too much is the runner's.
THEOREM BitmapSafe == Spec => []BitmapExact
<1>1. IInv => BitmapExact
  BY DEF IInv, BitmapExact
<1> QED BY <1>1, Invariance, PTL

\* No ready task outranks the one the kernel returns to.
THEOREM PriorityPreemption == Spec => []HighestPriorityRuns
<1>1. IInv => HighestPriorityRuns
  BY DEF IInv
<1> QED BY <1>1, Invariance, PTL

\* Only the current task is marked RUNNING.
THEOREM OneRunner == Spec => []SingleRunner
<1>1. IInv => SingleRunner
  BY DEF IInv
<1> QED BY <1>1, Invariance, PTL

\* nanosleep never returns early, whenever the counter advances during the
\* loop of sched_pending_check.
THEOREM SleepRespected == Spec => []NoEarlyResume
<1>1. IInv => NoEarlyResume
  BY DEF IInv
<1> QED BY <1>1, Invariance, PTL
=============================================================================

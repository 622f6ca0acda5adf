----------------------------- MODULE MCThreads -----------------------------
\* Three threads on one object: which, and what they call, is the scenario.
EXTENDS Threads, TLC

MCThreads == {"1", "2", "3"}
MCIntMin == -8
MCEbusyWaits == -16

c(label) == [at |-> label, ret |-> "idle", timed |-> 0, n |-> 0]
timed(x) == [x EXCEPT !.timed = 1]
then(x, label) == [x EXCEPT !.ret = label]

calls(s1, s2, s3) == "1" :> s1 @@ "2" :> s2 @@ "3" :> s3

\* The words of structures with these fields on every stack.
Stacks(fields) == {stack(f, t) : f \in fields, t \in MCThreads}

locked == <<c("lock"), c("unlock")>>
LockScenarios ==
  {[mem |-> [lock |-> 0], calls |-> calls(locked, locked, locked)]}

SemScenarios ==
  {[mem |-> [val |-> v, waiters |-> 0, val0 |-> v], calls |-> k] :
     v \in {0, 2},
     k \in {calls(<<c("sem_wait")>>, <<c("sem_wait")>>, <<c("sem_post"), c("sem_post")>>),
            calls(<<timed(c("sem_wait")), c("sem_post")>>, <<c("sem_wait")>>,
                  <<c("sem_post"), c("sem_post"), c("sem_wait")>>)}}

RwScenarios ==
  LET rd == c("rdlock")
      wr == c("wrlock")
      un == c("rwunlock") IN
  {[mem |-> [rw |-> 0, waiters |-> 0], calls |-> k] :
     k \in {calls(<<rd, un>>, <<rd, un>>, <<wr, un>>),
            calls(<<wr, un>>, <<wr, un>>, <<timed(rd), un>>),
            calls(<<timed(wr), un>>, <<rd, un>>, <<wr, un>>)}}

OnceScenarios ==
  LET cancelled == [c("once") EXCEPT !.n = 1] IN
  {[mem |-> [control |-> 0, inits |-> 0], calls |-> k] :
     k \in {calls(<<c("once")>>, <<c("once")>>, <<c("once")>>),
            calls(<<cancelled>>, <<c("once")>>, <<c("once")>>)}}

BarrierMem ==
  [a \in {"b_lock", "b_waiters", "b_inst"}
         \union Stacks({"count", "last", "waiters", "finished"})
     |-> IF a = "b_inst" THEN None ELSE 0]

BarrierScenarios ==
  LET rounds == <<c("barrier"), c("barrier")>> IN
  {[mem |-> BarrierMem, calls |-> calls(rounds, rounds, rounds)]}

CondMem ==
  [a \in {"m_lock", "m_waiters", "c_lock", "c_head", "c_tail", "tokens"}
         \union Stacks({"barrier", "state", "prev", "next", "notify", "ref"})
     |-> IF a \in {"c_head", "c_tail"} \union Stacks({"prev", "next", "notify"})
         THEN None ELSE 0]

CondScenarios ==
  LET consume_one == then(c("mx_lock"), "cond_returned")
      one == then(c("mx_lock"), "put_one")
      two == then(c("mx_lock"), "put_two") IN
  {[mem |-> CondMem, calls |-> k] :
     k \in {calls(<<consume_one>>, <<consume_one>>, <<two>>),
            calls(<<timed(consume_one)>>, <<consume_one>>, <<one, one>>)}}

MCScenarios ==
  LockScenarios \union SemScenarios \union RwScenarios \union OnceScenarios
    \union BarrierScenarios \union CondScenarios
=============================================================================

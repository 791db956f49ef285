------------------------ MODULE JobQueueAttemptProofs ------------------------
(***************************************************************************)
(* How often JobQueue sends a job to a worker, and how many tasks hold it: *)
(* proofs for every number of calls, replicas, retries and faults.         *)
(***************************************************************************)
EXTENDS JobQueueProofs, FiniteSetTheorems

USE ConstantsOK

-----------------------------------------------------------------------------
(* The loops and their lists.                                              *)

\* The places of a task that will not send the job in its hands (again).
Sent == {"calling", "store", "ack"}

\* A loop without a job has nothing in its hands; the recovery loop has none in
\* its lists either, checks jobs of the first list, and runs those of the second
\* when the first is empty; no job is in both.  Both loops of a replica go down
\* together.
LoopInOrder(t) ==
    /\ t[2] = "process" =>
          /\ pc[t] \in {"down", "read"} => cur[t] = NoCall
          /\ pc[t] = "down" => pc[<<t[1], "recover">>] = "down"
    /\ t[2] = "recover" =>
          /\ todo[t[1]] \cap retry[t[1]] = {}
          /\ pc[t] \in {"down", "reclaim"} =>
                todo[t[1]] = {} /\ retry[t[1]] = {} /\ cur[t] = NoCall
          /\ pc[t] \in {"check", "bury", "buryack"} => cur[t] \in todo[t[1]]
          /\ pc[t] \in {"dispatch"} \cup Sent => todo[t[1]] = {} /\ cur[t] \in retry[t[1]]

LoopsInOrder == \A t \in Tasks : LoopInOrder(t)

\* A task goes from one place of its loop to another with the job in its hands.
Moves(t, k, l) == pc[t] = k /\ pc' = [pc EXCEPT ![t] = l]

\* It sends the job to a worker, or goes on after that or without.
Dispatches(t) ==
    /\ Moves(t, "dispatch", "calling")
    /\ attempts' = [attempts EXCEPT ![cur[t]] = @ + 1]
    /\ UNCHANGED <<cur, todo, retry, pending, deliveries>>

Proceeds(t) ==
    /\ \/ Moves(t, "dispatch", "store") \/ Moves(t, "calling", "store")
       \/ Moves(t, "store", "ack") \/ Moves(t, "check", "bury") \/ Moves(t, "bury", "buryack")
    /\ UNCHANGED <<cur, todo, retry, pending, deliveries, attempts>>

\* A step of a handler, of the clock or of nobody.
Aside == UNCHANGED <<pc, cur, todo, retry, pending, deliveries, attempts>>

\* What a step does to the loops.
LEMMA LoopSteps ==
    ASSUME [Next]_vars
    PROVE  \/ Aside
           \/ \E t \in Tasks : Dispatches(t) \/ Proceeds(t) \/ Ack(t) \/ TaskFault(t)
           \/ \E g \in Replicas : \/ Read(g) \/ Reclaim(g) \/ CheckRetryable(g)
                                  \/ AckDeadLetter(g) \/ Crash(g) \/ Restart(g)
<1>1. ASSUME NEW c \in Calls, HandlerStep(c) \/ CallFault(c) \/ IdleElapses(c)
      PROVE  Aside
  BY <1>1 DEF Aside, HandlerStep, FetchResult, DeleteResult, GiveUp, CallFault, IdleElapses,
     redisVars, taskVars, history
<1>2. ASSUME NEW c \in Calls, NEW g \in Replicas, Submit(c, g)
      PROVE  Aside
  BY <1>2 DEF Aside, Submit, taskVars, history
<1>3. ASSUME NEW r \in Requests, Expire(r)
      PROVE  Aside
  BY <1>3 DEF Aside, Expire, taskVars, history
<1>4. CASE UNCHANGED vars
  BY <1>4 DEF Aside, vars, redisVars, taskVars, history
<1>5. ASSUME NEW t \in Tasks, JobStep(t)
      PROVE  Dispatches(t) \/ Proceeds(t) \/ Ack(t)
  <2>1. CASE DispatchToWorker(t)
    BY <2>1 DEF Dispatches, Moves, DispatchToWorker, redisVars
  <2>2. CASE DispatchNoWorker(t)
    BY <2>2 DEF Proceeds, Moves, DispatchNoWorker, redisVars, history
  <2>3. CASE CallReturns(t)
    BY <2>3 DEF Proceeds, Moves, CallReturns, redisVars, history
  <2>4. CASE StoreResult(t)
    BY <2>4 DEF Proceeds, Moves, StoreResult
  <2> QED
    BY <1>5, <2>1, <2>2, <2>3, <2>4 DEF JobStep
<1>6. ASSUME NEW g \in Replicas, CheckExhausted(g) \/ AddDeadLetter(g)
      PROVE  Proceeds(<<g, "recover">>)
  BY <1>6 DEF Proceeds, Moves, CheckExhausted, AddDeadLetter, redisVars, history
<1> QED
  BY <1>1, <1>2, <1>3, <1>4, <1>5, <1>6, TaskOf DEF Next, ProcessStep, RecoverStep

\* What a step does to the pending list and to what is idle in it.
LEMMA PendingSteps ==
    ASSUME [Next]_vars
    PROVE  \/ UNCHANGED <<pending, idle>>
           \/ \E e \in Calls : IdleElapses(e)
           \/ \E g \in Replicas : Read(g) \/ Reclaim(g) \/ AckDeadLetter(g)
           \/ \E t \in Tasks : Ack(t)
<1>1. ASSUME NEW c \in Calls, NEW g \in Replicas, Submit(c, g)
      PROVE  UNCHANGED <<pending, idle>>
  BY <1>1 DEF Submit
<1>2. ASSUME NEW c \in Calls, HandlerStep(c) \/ CallFault(c)
      PROVE  UNCHANGED <<pending, idle>>
  BY <1>2 DEF HandlerStep, FetchResult, DeleteResult, GiveUp, CallFault, redisVars
<1>3. ASSUME NEW r \in Requests, Expire(r)
      PROVE  UNCHANGED <<pending, idle>>
  BY <1>3 DEF Expire
<1>4. ASSUME NEW t \in Tasks, JobStep(t)
      PROVE  UNCHANGED <<pending, idle>> \/ Ack(t)
  <2>1. CASE DispatchToWorker(t) \/ DispatchNoWorker(t) \/ CallReturns(t) \/ StoreResult(t)
    BY <2>1 DEF DispatchToWorker, DispatchNoWorker, CallReturns, StoreResult, redisVars
  <2> QED
    BY <1>4, <2>1 DEF JobStep
<1>5. ASSUME NEW g \in Replicas, CheckRetryable(g) \/ CheckExhausted(g) \/ AddDeadLetter(g)
      PROVE  UNCHANGED <<pending, idle>>
  BY <1>5 DEF CheckRetryable, CheckExhausted, AddDeadLetter, redisVars
<1>6. ASSUME NEW g \in Replicas, Crash(g) \/ Restart(g)
      PROVE  UNCHANGED <<pending, idle>>
  BY <1>6 DEF Crash, Restart, redisVars
<1>7. ASSUME NEW t \in Tasks, TaskFault(t)
      PROVE  UNCHANGED <<pending, idle>>
  BY <1>7 DEF TaskFault, redisVars
<1>8. CASE UNCHANGED vars
  BY <1>8 DEF vars, redisVars
<1> QED
  BY <1>1, <1>2, <1>3, <1>4, <1>5, <1>6, <1>7, <1>8, TaskOf DEF Next, ProcessStep, RecoverStep

\* A step that counts a fault makes no attempt, and none takes a fault back.
LEMMA FaultSteps ==
    ASSUME [Next]_vars
    PROVE  faults' = faults \/ (faults' = faults + 1 /\ attempts' = attempts)
<1>1. ASSUME NEW c \in Calls, NEW g \in Replicas, Submit(c, g)
      PROVE  faults' = faults
  BY <1>1 DEF Submit, history
<1>2. ASSUME NEW c \in Calls, HandlerStep(c) \/ IdleElapses(c)
      PROVE  faults' = faults
  BY <1>2 DEF HandlerStep, FetchResult, DeleteResult, GiveUp, IdleElapses, history
<1>3. ASSUME NEW c \in Calls, CallFault(c)
      PROVE  faults' = faults + 1 /\ attempts' = attempts
  BY <1>3 DEF CallFault
<1>4. ASSUME NEW r \in Requests, Expire(r)
      PROVE  faults' = faults
  BY <1>4 DEF Expire, history
<1>5. ASSUME NEW t \in Tasks, JobStep(t)
      PROVE  faults' = faults
  BY <1>5 DEF JobStep, DispatchToWorker, DispatchNoWorker, CallReturns, StoreResult, Ack, history
<1>6. ASSUME NEW g \in Replicas,
             \/ Read(g) \/ Reclaim(g) \/ CheckRetryable(g) \/ CheckExhausted(g)
             \/ AddDeadLetter(g) \/ AckDeadLetter(g) \/ Restart(g)
      PROVE  faults' = faults
  BY <1>6 DEF Read, Reclaim, CheckRetryable, CheckExhausted, AddDeadLetter, AckDeadLetter,
     Restart, history
<1>7. ASSUME NEW g \in Replicas, Crash(g)
      PROVE  faults' = faults + 1 /\ attempts' = attempts
  BY <1>7 DEF Crash
<1>8. ASSUME NEW t \in Tasks, TaskFault(t)
      PROVE  faults' = faults + 1 /\ attempts' = attempts
  BY <1>8 DEF TaskFault
<1>9. CASE UNCHANGED vars
  BY <1>9 DEF vars, history
<1> QED
  BY <1>1, <1>2, <1>3, <1>4, <1>5, <1>6, <1>7, <1>8, <1>9, TaskOf DEF Next, ProcessStep, RecoverStep

\* No job is in both lists of a replica.
LEMMA ListsApart == LoopsInOrder => \A g \in Replicas : todo[g] \cap retry[g] = {}
<1> SUFFICES ASSUME LoopsInOrder, NEW g \in Replicas
             PROVE  todo[g] \cap retry[g] = {}
  OBVIOUS
<1>1. LoopInOrder(<<g, "recover">>)
  BY TaskOf DEF LoopsInOrder
<1> QED
  BY <1>1 DEF LoopInOrder

\* Resuming leaves the recovery loop in order, with the lists it was given.
LEMMA ResumeInOrder ==
    ASSUME TypeOK, NEW g \in Replicas,
           NEW T \in SUBSET Calls, NEW R \in SUBSET Calls, T \cap R = {}, Resume(g, T, R)
    PROVE  LoopInOrder(<<g, "recover">>)' /\ pc'[<<g, "recover">>] \notin Sent \cup {"down"}
<1> DEFINE t == <<g, "recover">>
<1>1. t \in Tasks /\ t[1] = g /\ t[2] = "recover"
  BY TaskOf
<1>2. todo'[g] = T /\ retry'[g] = R
  BY DEF Resume, TypeOK
<1>3. \/ \E e \in T : pc'[t] = "check" /\ cur'[t] = e
      \/ T = {} /\ \E e \in R : pc'[t] = "dispatch" /\ cur'[t] = e
      \/ T = {} /\ R = {} /\ pc'[t] = "reclaim" /\ cur'[t] = NoCall
  <2>1. ASSUME NEW l, NEW e, Goto(t, l, e)
        PROVE  pc'[t] = l /\ cur'[t] = e
    BY <1>1, <2>1, GotoHands
  <2> QED
    BY <2>1 DEF Resume, Earliest
<1> HIDE DEF t
<1> QED
  BY <1>1, <1>2, <1>3 DEF LoopInOrder, Sent, t

\* Every step leaves every loop in order.
LEMMA LoopsInOrderStep ==
    ASSUME TypeOK, HandsInOrder, LoopsInOrder, [Next]_vars
    PROVE  LoopsInOrder'
<1> SUFFICES ASSUME NEW u \in Tasks
             PROVE  LoopInOrder(u)'
  BY DEF LoopsInOrder
<1>0. LoopInOrder(u) /\ u[1] \in Replicas
      /\ (u = <<u[1], "process">> \/ u = <<u[1], "recover">>)
  BY TaskOf DEF LoopsInOrder
<1>1. CASE UNCHANGED <<pc, cur, todo, retry>>
  BY <1>0, <1>1 DEF LoopInOrder
<1>2. ASSUME NEW t \in Tasks, Dispatches(t) \/ Proceeds(t)
      PROVE  LoopInOrder(u)'
  <2>1. PICK l : Moves(t, pc[t], l) /\ l \notin {"down", "read", "reclaim", "check", "dispatch"}
                 /\ (l \in {"bury", "buryack"} <=> pc[t] \in {"check", "bury"})
                 /\ (l \in Sent => pc[t] \in {"dispatch"} \cup Sent)
    BY <1>2 DEF Dispatches, Proceeds, Moves, Sent
  <2>2. UNCHANGED <<cur, todo, retry>> /\ pc[t] # "down" /\ pc' = [pc EXCEPT ![t] = l]
    BY <1>2, <2>1 DEF Dispatches, Proceeds, Moves
  <2>3. CASE u = t
    BY <1>0, <2>1, <2>2, <2>3 DEF LoopInOrder, Sent, TypeOK
  <2>4. CASE u # t
    <3>1. pc'[u] = pc[u] /\ \A v \in Tasks : pc[v] = "down" => pc'[v] = "down"
      BY <2>1, <2>2, <2>4 DEF TypeOK
    <3> QED
      BY <1>0, <2>2, <3>1, TaskOf DEF LoopInOrder
  <2> QED
    BY <2>3, <2>4
<1>3. ASSUME NEW g \in Replicas, NEW T \in SUBSET Calls, NEW R \in SUBSET Calls,
             T \cap R = {}, Resume(g, T, R), pc[<<g, "recover">>] # "down"
      PROVE  LoopInOrder(u)'
  <2>1. CASE u = <<g, "recover">>
    BY <1>3, <2>1, ResumeInOrder
  <2>2. CASE u # <<g, "recover">>
    <3>1. /\ \A v \in Tasks : v # <<g, "recover">> => pc'[v] = pc[v] /\ cur'[v] = cur[v]
          /\ \A h \in Replicas : h # g => todo'[h] = todo[h] /\ retry'[h] = retry[h]
      BY <1>3, ResumeHands
    <3>2. /\ pc'[u] = pc[u] /\ cur'[u] = cur[u]
          /\ \A v \in Tasks : pc[v] = "down" => pc'[v] = "down"
          /\ u[2] = "recover" => todo'[u[1]] = todo[u[1]] /\ retry'[u[1]] = retry[u[1]]
      BY <1>0, <1>3, <2>2, <3>1
    <3> QED
      BY <1>0, <3>2, TaskOf DEF LoopInOrder
  <2> QED
    BY <2>1, <2>2
<1>4. ASSUME NEW t \in Tasks, NEW l \in {"read", "dispatch"}, NEW e, t[2] = "process",
             Goto(t, l, e), l = "read" => e = NoCall, UNCHANGED <<todo, retry>>
      PROVE  LoopInOrder(u)'
  <2>1. /\ \A v \in Tasks : v # t => pc'[v] = pc[v] /\ cur'[v] = cur[v]
        /\ pc'[t] = l /\ cur'[t] = e
    BY <1>4, GotoHands
  <2>2. <<u[1], "recover">> \in Tasks /\ <<u[1], "recover">> # t
    BY <1>0, <1>4, TaskOf
  <2> QED
    BY <1>0, <1>4, <2>1, <2>2 DEF LoopInOrder
<1>5. ASSUME NEW g \in Replicas, Read(g)
      PROVE  LoopInOrder(u)'
  <2>1. Goto(<<g, "process">>, "dispatch", stream[cursor + 1]) /\ UNCHANGED <<todo, retry>>
    BY <1>5 DEF Read
  <2> QED
    BY <1>4, <2>1, TaskOf
<1>6. ASSUME NEW g \in Replicas, Reclaim(g)
      PROVE  LoopInOrder(u)'
  <2>1. /\ idle \in SUBSET Calls /\ {} \in SUBSET Calls
        /\ Resume(g, idle, {}) /\ pc[<<g, "recover">>] # "down"
    BY <1>6 DEF Reclaim, TypeOK
  <2> QED
    BY <1>3, <2>1
<1>7. ASSUME NEW g \in Replicas, CheckRetryable(g)
      PROVE  LoopInOrder(u)'
  <2> DEFINE e == cur[<<g, "recover">>]
  <2>1. /\ Resume(g, todo[g] \ {e}, retry[g] \cup {e}) /\ pc[<<g, "recover">>] # "down"
        /\ e \in Calls
    BY <1>7, TaskOf DEF CheckRetryable, HandsInOrder, InOrder, WithJob
  <2>2. todo[g] \ {e} \in SUBSET Calls /\ retry[g] \cup {e} \in SUBSET Calls
        /\ (todo[g] \ {e}) \cap (retry[g] \cup {e}) = {}
    BY <2>1, ListsApart DEF TypeOK
  <2> QED
    BY <1>3, <2>1, <2>2
<1>8. ASSUME NEW g \in Replicas, AckDeadLetter(g)
      PROVE  LoopInOrder(u)'
  <2> DEFINE e == cur[<<g, "recover">>]
  <2>1. /\ Resume(g, todo[g] \ {e}, retry[g]) /\ pc[<<g, "recover">>] # "down"
    BY <1>8 DEF AckDeadLetter
  <2>2. todo[g] \ {e} \in SUBSET Calls /\ retry[g] \in SUBSET Calls
        /\ (todo[g] \ {e}) \cap retry[g] = {}
    BY ListsApart DEF TypeOK
  <2> QED
    BY <1>3, <2>1, <2>2
<1>9. ASSUME NEW t \in Tasks, Ack(t) \/ TaskFault(t)
      PROVE  LoopInOrder(u)'
  <2>1. pc[t] # "down" /\ t[1] \in Replicas /\ {} \in SUBSET Calls
        /\ retry[t[1]] \ {cur[t]} \in SUBSET Calls
    BY <1>9, TaskOf DEF Ack, TaskFault, TypeOK
  <2>2. CASE t[2] = "process"
    <3>1. Goto(t, "read", NoCall) /\ UNCHANGED <<todo, retry>>
      BY <1>9, <2>2 DEF Ack, TaskFault
    <3> QED
      BY <1>4, <2>2, <3>1
  <2>3. CASE t[2] = "recover"
    <3>1. t = <<t[1], "recover">>
      BY <2>3, TaskOf
    <3>2. Resume(t[1], {}, retry[t[1]] \ {cur[t]}) \/ Resume(t[1], {}, {})
      BY <1>9, <2>3 DEF Ack, TaskFault
    <3> QED
      BY <1>3, <2>1, <3>1, <3>2
  <2> QED
    BY <2>2, <2>3 DEF Tasks
<1>10. ASSUME NEW g \in Replicas, Crash(g)
       PROVE  LoopInOrder(u)'
  <2>1. /\ pc' = [t \in Tasks |-> IF t[1] = g THEN "down" ELSE pc[t]]
        /\ cur' = [t \in Tasks |-> IF t[1] = g THEN NoCall ELSE cur[t]]
        /\ todo' = [todo EXCEPT ![g] = {}]
        /\ retry' = [retry EXCEPT ![g] = {}]
    BY <1>10 DEF Crash
  <2> QED
    BY <1>0, <2>1, TaskOf DEF LoopInOrder, TypeOK, Sent
<1>11. ASSUME NEW g \in Replicas, Restart(g)
       PROVE  LoopInOrder(u)'
  <2>1. /\ pc' = [pc EXCEPT ![<<g, "process">>] = "read", ![<<g, "recover">>] = "reclaim"]
        /\ UNCHANGED <<cur, todo, retry>>
        /\ pc[<<g, "process">>] = "down"
    BY <1>11 DEF Restart, Up
  <2>2. /\ LoopInOrder(<<g, "process">>) /\ LoopInOrder(<<g, "recover">>)
    BY TaskOf DEF LoopsInOrder
  <2> QED
    BY <1>0, <2>1, <2>2, TaskOf DEF LoopInOrder, TypeOK, Sent
<1> QED
  BY <1>1, <1>2, <1>5, <1>6, <1>7, <1>8, <1>9, <1>10, <1>11, LoopSteps DEF Aside

-----------------------------------------------------------------------------
(* Attempts are counted: those that were made and those that are to come.  *)

\* Task t is going to send job e without another look at its count ...
Clear(t, e) ==
    \/ t[2] = "process" /\ pc[t] = "dispatch" /\ cur[t] = e
    \/ t[2] = "recover" /\ e \in retry[t[1]] /\ ~(cur[t] = e /\ pc[t] \in Sent)

Cleared(e) == {t \in Tasks : Clear(t, e)}

\* ... and these replicas are going to look at its count.
Waiting(e) == {g \in Replicas : e \in todo[g]}

Sure(e) == attempts[e] + Cardinality(Cleared(e))
Owed(e) == Sure(e) + Cardinality(Waiting(e))

Budget == IF MaxRetries = 0 THEN 1 ELSE MaxRetries

\* Each attempt, made or to come, has a delivery of its own.  While the job is
\* pending its count is true and those that are sure are within the budget; once
\* it is not, every replica that still has it to check may try it once more.
WithinBudget(e) ==
    /\ Owed(e) <= deliveries[e]
    /\ e \in pending => Sure(e) <= Budget
    /\ e \notin pending => Owed(e) <= Budget + Cardinality(Replicas)

\* What is idle is pending, and only what was delivered has a count.
CountsInOrder ==
    /\ idle \subseteq pending
    /\ \A e \in Calls : deliveries[e] > 0 => e \in Delivered

AttemptInv ==
    /\ LoopsInOrder
    /\ CountsInOrder
    /\ \A e \in Calls : WithinBudget(e)

\* What a step does to the attempts at job e: nothing, or less is to come;
Kept(e) ==
    /\ attempts'[e] = attempts[e]
    /\ Cleared(e)' \subseteq Cleared(e)
    /\ Waiting(e)' \subseteq Waiting(e)
    /\ deliveries[e] <= deliveries'[e]
    /\ e \in pending' => e \in pending

\* it is delivered for the first time;
Delivers(e) ==
    /\ e \notin Delivered
    /\ e \in pending'
    /\ attempts'[e] = attempts[e]
    /\ \E t \in Tasks : Cleared(e)' \subseteq Cleared(e) \cup {t}
    /\ Waiting(e)' \subseteq Waiting(e)
    /\ deliveries'[e] = deliveries[e] + 1

\* it is delivered again, to a replica that will check it;
Redelivers(e) ==
    /\ e \in pending
    /\ e \in pending'
    /\ attempts'[e] = attempts[e]
    /\ Cleared(e)' \subseteq Cleared(e)
    /\ \E g \in Replicas : Waiting(e)' \subseteq Waiting(e) \cup {g}
    /\ deliveries'[e] = deliveries[e] + 1

\* it is checked and will be sent;
Clears(e) ==
    /\ e \in pending => deliveries[e] <= MaxRetries
    /\ \E t \in Tasks : Cleared(e)' \subseteq Cleared(e) \cup {t}
    /\ \E g \in Waiting(e) : Waiting(e)' \subseteq Waiting(e) \ {g}
    /\ attempts'[e] = attempts[e] /\ deliveries'[e] = deliveries[e] /\ pending' = pending

\* it is sent.
Sends(e) ==
    /\ \E t \in Cleared(e) : Cleared(e)' \subseteq Cleared(e) \ {t}
    /\ attempts'[e] = attempts[e] + 1
    /\ Waiting(e)' \subseteq Waiting(e)
    /\ deliveries'[e] = deliveries[e] /\ pending' = pending

\* The sets that are counted are finite: tasks, and replicas.
LEMMA CountedFinite ==
    ASSUME NEW e
    PROVE  /\ IsFiniteSet(Cleared(e)) /\ IsFiniteSet(Waiting(e))
           /\ Cardinality(Cleared(e)) \in Nat /\ Cardinality(Waiting(e)) \in Nat
           /\ Cardinality(Waiting(e)) <= Cardinality(Replicas)
           /\ Cardinality(Replicas) \in Nat
<1>1. IsFiniteSet({"process", "recover"})
  <2>1. IsFiniteSet({"process"} \cup {"recover"})
    BY FS_Singleton, FS_AddElement
  <2> QED
    BY <2>1
<1>2. IsFiniteSet(Tasks)
  BY <1>1, FS_Product DEF Tasks
<1>3. Cleared(e) \in SUBSET Tasks /\ Waiting(e) \in SUBSET Replicas
  BY DEF Cleared, Waiting
<1> QED
  BY <1>2, <1>3, FS_Subset, FS_CardinalityType

\* A subset is not larger, one element more or less makes a difference of one.
LEMMA CountBounds ==
    ASSUME NEW S, IsFiniteSet(S), NEW U
    PROVE  /\ U \subseteq S => IsFiniteSet(U) /\ Cardinality(U) <= Cardinality(S)
           /\ \A x : U \subseteq S \cup {x} =>
                 IsFiniteSet(U) /\ Cardinality(U) <= Cardinality(S) + 1
           /\ \A x \in S : U \subseteq S \ {x} =>
                 IsFiniteSet(U) /\ Cardinality(U) <= Cardinality(S) - 1
<1>0. Cardinality(S) \in Nat
  BY FS_CardinalityType
<1>1. ASSUME U \subseteq S
      PROVE  IsFiniteSet(U) /\ Cardinality(U) <= Cardinality(S)
  BY <1>1, FS_Subset
<1>2. ASSUME NEW x, U \subseteq S \cup {x}
      PROVE  IsFiniteSet(U) /\ Cardinality(U) <= Cardinality(S) + 1
  <2>1. /\ IsFiniteSet(S \cup {x})
        /\ Cardinality(S \cup {x}) = IF x \in S THEN Cardinality(S) ELSE Cardinality(S) + 1
    BY FS_AddElement
  <2>2. IsFiniteSet(U) /\ Cardinality(U) <= Cardinality(S \cup {x})
    BY <1>2, <2>1, FS_Subset
  <2>3. Cardinality(U) \in Nat
    BY <2>2, FS_CardinalityType
  <2> QED
    BY <1>0, <2>1, <2>2, <2>3
<1>3. ASSUME NEW x \in S, U \subseteq S \ {x}
      PROVE  IsFiniteSet(U) /\ Cardinality(U) <= Cardinality(S) - 1
  <2>1. IsFiniteSet(S \ {x}) /\ Cardinality(S \ {x}) = Cardinality(S) - 1
    BY <1>0, FS_RemoveElement
  <2>2. IsFiniteSet(U) /\ Cardinality(U) <= Cardinality(S \ {x})
    BY <1>3, <2>1, FS_Subset
  <2> QED
    BY <1>0, <2>1, <2>2, FS_CardinalityType
<1> QED
  BY <1>1, <1>2, <1>3

\* Whichever of the five a step is for a job, the job stays within its budget.
LEMMA BudgetCases ==
    ASSUME TypeOK, TypeOK', OnlyDelivered, CountsInOrder, NEW e \in Calls, WithinBudget(e),
           Kept(e) \/ Delivers(e) \/ Redelivers(e) \/ Clears(e) \/ Sends(e)
    PROVE  WithinBudget(e)'
<1> DEFINE A == attempts[e]
           C == Cardinality(Cleared(e))
           W == Cardinality(Waiting(e))
           R == Cardinality(Replicas)
           A2 == attempts'[e]
           C2 == Cardinality(Cleared(e)')
           W2 == Cardinality(Waiting(e)')
<1>1. A \in Nat /\ A2 \in Nat /\ deliveries[e] \in Nat /\ deliveries'[e] \in Nat
  BY DEF TypeOK
<1>2. /\ IsFiniteSet(Cleared(e)) /\ IsFiniteSet(Waiting(e))
      /\ C \in Nat /\ W \in Nat /\ W <= R /\ R \in Nat
  BY CountedFinite
<1>3. /\ IsFiniteSet(Cleared(e)') /\ IsFiniteSet(Waiting(e)')
      /\ C2 \in Nat /\ W2 \in Nat /\ W2 <= R
  <2>1. IsFiniteSet(Cleared(e))' /\ IsFiniteSet(Waiting(e))' /\ (C \in Nat)' /\ (W \in Nat)' /\ (W <= R)'
    BY CountedFinite, PTL
  <2> QED
    BY <2>1
<1>4. /\ A + C + W <= deliveries[e]
      /\ e \in pending => A + C <= Budget
      /\ e \notin pending => A + C + W <= Budget + R
  BY DEF WithinBudget, Owed, Sure
<1>5. Budget \in Nat /\ Budget >= 1 /\ Budget >= MaxRetries /\ MaxRetries \in Nat
  BY DEF Budget
<1> SUFFICES /\ A2 + C2 + W2 <= deliveries'[e]
             /\ e \in pending' => A2 + C2 <= Budget
             /\ e \notin pending' => A2 + C2 + W2 <= Budget + R
  BY DEF WithinBudget, Owed, Sure, Budget
<1>6. CASE Kept(e)
  <2>1. C2 <= C /\ W2 <= W
    BY <1>2, <1>6, CountBounds DEF Kept
  <2>2. A2 = A /\ deliveries[e] <= deliveries'[e] /\ (e \in pending' => e \in pending)
    BY <1>6 DEF Kept
  <2> QED
    BY <1>1, <1>2, <1>3, <1>4, <1>5, <2>1, <2>2
<1>7. CASE Delivers(e)
  <2>1. C2 <= C + 1 /\ W2 <= W
    BY <1>2, <1>7, CountBounds DEF Delivers
  <2>2. e \in pending' /\ A2 = A /\ deliveries'[e] = deliveries[e] + 1
    BY <1>7 DEF Delivers
  <2>3. deliveries[e] = 0
    BY <1>1, <1>7 DEF Delivers, CountsInOrder
  <2> QED
    BY <1>1, <1>2, <1>3, <1>4, <1>5, <2>1, <2>2, <2>3
<1>8. CASE Redelivers(e)
  <2>1. C2 <= C /\ W2 <= W + 1
    BY <1>2, <1>8, CountBounds DEF Redelivers
  <2>2. e \in pending /\ e \in pending' /\ A2 = A /\ deliveries'[e] = deliveries[e] + 1
    BY <1>8 DEF Redelivers
  <2> QED
    BY <1>1, <1>2, <1>3, <1>4, <1>5, <2>1, <2>2
<1>9. CASE Clears(e)
  <2>1. C2 <= C + 1 /\ W2 <= W - 1
    BY <1>2, <1>9, CountBounds DEF Clears
  <2>2. /\ e \in pending => deliveries[e] <= MaxRetries
        /\ A2 = A /\ deliveries'[e] = deliveries[e] /\ pending' = pending
    BY <1>9 DEF Clears
  <2> QED
    BY <1>1, <1>2, <1>3, <1>4, <1>5, <2>1, <2>2
<1>10. CASE Sends(e)
  <2>1. C2 <= C - 1 /\ W2 <= W
    BY <1>2, <1>10, CountBounds DEF Sends
  <2>2. A2 = A + 1 /\ deliveries'[e] = deliveries[e] /\ pending' = pending
    BY <1>10 DEF Sends
  <2> QED
    BY <1>1, <1>2, <1>3, <1>4, <1>5, <2>1, <2>2
<1> QED
  BY <1>6, <1>7, <1>8, <1>9, <1>10

\* A task whose place, hands and lists a step leaves alone sends what it did.
LEMMA ClearStays ==
    ASSUME NEW t \in Tasks, pc'[t] = pc[t], cur'[t] = cur[t], retry'[t[1]] = retry[t[1]]
    PROVE  \A e : Clear(t, e)' <=> Clear(t, e)
BY DEF Clear

\* After resuming, the recovery loop is going to send the jobs of its second
\* list and to check those of the first; the other loops do what they did.
LEMMA ResumeCounts ==
    ASSUME TypeOK, NEW g \in Replicas,
           NEW T \in SUBSET Calls, NEW R \in SUBSET Calls, Resume(g, T, R), NEW e \in Calls
    PROVE  /\ Cleared(e)' \subseteq Cleared(e) \cup {<<g, "recover">>}
           /\ <<g, "recover">> \in Cleared(e)' => e \in R
           /\ \A h \in Waiting(e)' : h # g => h \in Waiting(e)
           /\ g \in Waiting(e)' => e \in T
<1>1. /\ \A u \in Tasks : u # <<g, "recover">> => pc'[u] = pc[u] /\ cur'[u] = cur[u]
      /\ \A h \in Replicas : h # g => todo'[h] = todo[h] /\ retry'[h] = retry[h]
  BY ResumeHands
<1>2. todo'[g] = T /\ retry'[g] = R
  BY DEF Resume, TypeOK
<1>3. \A u \in Tasks : u # <<g, "recover">> /\ Clear(u, e)' => Clear(u, e)
  BY <1>1, TaskOf DEF Clear
<1>4. Clear(<<g, "recover">>, e)' => e \in R
  BY <1>2 DEF Clear
<1> QED
  BY <1>1, <1>2, <1>3, <1>4 DEF Cleared, Waiting

\* The process loop that goes on to another job or to none.
LEMMA GotoCounts ==
    ASSUME TypeOK, NEW g \in Replicas, NEW l, NEW d, Goto(<<g, "process">>, l, d),
           UNCHANGED <<todo, retry>>, NEW e \in Calls
    PROVE  /\ Cleared(e)' \subseteq Cleared(e) \cup {<<g, "process">>}
           /\ <<g, "process">> \in Cleared(e)' => l = "dispatch" /\ d = e
           /\ Waiting(e)' = Waiting(e)
<1>1. /\ \A u \in Tasks : u # <<g, "process">> => pc'[u] = pc[u] /\ cur'[u] = cur[u]
      /\ pc'[<<g, "process">>] = l /\ cur'[<<g, "process">>] = d
  BY TaskOf, GotoHands
<1>2. \A u \in Tasks : u # <<g, "process">> /\ Clear(u, e)' => Clear(u, e)
  BY <1>1, TaskOf DEF Clear
<1>3. Clear(<<g, "process">>, e)' => l = "dispatch" /\ d = e
  BY <1>1 DEF Clear
<1> QED
  BY <1>2, <1>3 DEF Cleared, Waiting

\* XREADGROUP returns an entry the group has not delivered before.
LEMMA ReadIsNew ==
    ASSUME TypeOK, StreamOnce, NEW g \in Replicas, Read(g)
    PROVE  stream[cursor + 1] \notin Delivered
<1>1. cursor \in Nat /\ Len(stream) \in Nat /\ cursor < Len(stream)
  BY DEF Read, TypeOK
<1>2. /\ cursor + 1 \in 1 .. Len(stream)
      /\ \A i \in 1 .. cursor : i \in 1 .. Len(stream) /\ i # cursor + 1
  BY <1>1
<1> QED
  BY <1>2 DEF StreamOnce, Delivered

\* XREADGROUP delivers a job for the first time, and leaves the others alone.
LEMMA ReadCounts ==
    ASSUME TypeOK, StreamOnce, NEW g \in Replicas, Read(g), NEW e \in Calls
    PROVE  Kept(e) \/ Delivers(e)
<1> DEFINE d == stream[cursor + 1]
<1>1. /\ pending' = pending \cup {d}
      /\ deliveries' = [deliveries EXCEPT ![d] = @ + 1]
      /\ Goto(<<g, "process">>, "dispatch", d)
      /\ UNCHANGED <<todo, retry, attempts>>
      /\ d \in Calls
  BY ReadDelivers DEF Read, history
<1>2. d \notin Delivered
  BY ReadIsNew
<1>3. /\ Cleared(e)' \subseteq Cleared(e) \cup {<<g, "process">>}
      /\ <<g, "process">> \in Cleared(e)' => d = e
      /\ Waiting(e)' = Waiting(e)
  BY <1>1, GotoCounts
<1>4. CASE e = d
  BY <1>1, <1>2, <1>3, <1>4, TaskOf DEF Delivers, TypeOK
<1>5. CASE e # d
  <2>1. deliveries'[e] = deliveries[e] /\ (e \in pending' => e \in pending)
    BY <1>1, <1>5 DEF TypeOK
  <2>2. Cleared(e)' \subseteq Cleared(e)
    BY <1>3, <1>5
  <2> QED
    BY <1>1, <1>3, <2>1, <2>2 DEF Kept, TypeOK
<1> QED
  BY <1>4, <1>5

\* XAUTOCLAIM delivers the idle jobs again, and leaves the others alone.
LEMMA ReclaimCounts ==
    ASSUME TypeOK, LoopsInOrder, idle \subseteq pending,
           NEW g \in Replicas, Reclaim(g), NEW e \in Calls
    PROVE  Kept(e) \/ Redelivers(e)
<1>1. /\ idle \in SUBSET Calls /\ {} \in SUBSET Calls /\ Resume(g, idle, {})
      /\ deliveries'[e] = IF e \in idle THEN deliveries[e] + 1 ELSE deliveries[e]
      /\ deliveries[e] \in Nat
      /\ UNCHANGED <<pending, attempts>>
  BY DEF Reclaim, TypeOK, history
<1>2. /\ Cleared(e)' \subseteq Cleared(e) \cup {<<g, "recover">>}
      /\ <<g, "recover">> \in Cleared(e)' => e \in {}
      /\ \A h \in Waiting(e)' : h # g => h \in Waiting(e)
      /\ g \in Waiting(e)' => e \in idle
  BY <1>1, ResumeCounts
<1>3. Cleared(e)' \subseteq Cleared(e) /\ Waiting(e)' \subseteq Waiting(e) \cup {g}
  BY <1>2
<1>4. CASE e \in idle
  BY <1>1, <1>3, <1>4 DEF Redelivers
<1>5. CASE e \notin idle
  BY <1>1, <1>2, <1>3, <1>5 DEF Kept
<1> QED
  BY <1>4, <1>5

\* A count within the budget clears the job it was asked for.
LEMMA CheckCounts ==
    ASSUME TypeOK, HandsInOrder, LoopsInOrder,
           NEW g \in Replicas, CheckRetryable(g), NEW e \in Calls
    PROVE  Kept(e) \/ Clears(e)
<1> DEFINE t == <<g, "recover">>
           d == cur[t]
<1>1. /\ pc[t] = "check" /\ Resume(g, todo[g] \ {d}, retry[g] \cup {d})
      /\ UNCHANGED <<pending, attempts, deliveries>>
      /\ DeliveryCount(d) <= MaxRetries
  BY DEF CheckRetryable, redisVars, history
<1>2. d \in Calls /\ d \in todo[g] /\ t \in Tasks
  BY <1>1, TaskOf DEF HandsInOrder, InOrder, WithJob, LoopsInOrder, LoopInOrder
<1>3. todo[g] \ {d} \in SUBSET Calls /\ retry[g] \cup {d} \in SUBSET Calls
  BY <1>2 DEF TypeOK
<1>4. /\ Cleared(e)' \subseteq Cleared(e) \cup {t}
      /\ t \in Cleared(e)' => e \in retry[g] \cup {d}
      /\ \A h \in Waiting(e)' : h # g => h \in Waiting(e)
      /\ g \in Waiting(e)' => e \in todo[g] \ {d}
  <2> DEFINE T == todo[g] \ {d}
             R == retry[g] \cup {d}
  <2>1. T \in SUBSET Calls /\ R \in SUBSET Calls /\ Resume(g, T, R)
    BY <1>1, <1>3
  <2> HIDE DEF T, R
  <2>2. /\ Cleared(e)' \subseteq Cleared(e) \cup {t}
        /\ t \in Cleared(e)' => e \in R
        /\ \A h \in Waiting(e)' : h # g => h \in Waiting(e)
        /\ g \in Waiting(e)' => e \in T
    BY <2>1, ResumeCounts
  <2> QED
    BY <2>2 DEF T, R
<1>5. CASE e = d
  <2>1. g \in Waiting(e) /\ Waiting(e)' \subseteq Waiting(e) \ {g}
    BY <1>2, <1>4, <1>5 DEF Waiting
  <2>2. e \in pending => deliveries[e] <= MaxRetries
    BY <1>1, <1>5 DEF DeliveryCount
  <2> QED
    BY <1>1, <1>2, <1>4, <2>1, <2>2 DEF Clears
<1>6. CASE e # d
  <2>1. t \in Cleared(e)' => t \in Cleared(e)
    BY <1>1, <1>2, <1>4, <1>6 DEF Cleared, Clear, Sent
  <2>2. Waiting(e)' \subseteq Waiting(e)
    BY <1>4 DEF Waiting
  <2>3. deliveries[e] \in Nat /\ Cleared(e)' \subseteq Cleared(e)
    BY <1>4, <2>1 DEF TypeOK
  <2> QED
    BY <1>1, <2>2, <2>3 DEF Kept
<1> QED
  BY <1>5, <1>6

\* A task sends the job in its hands: one of those it was sure to send.
LEMMA DispatchCounts ==
    ASSUME TypeOK, HandsInOrder, LoopsInOrder,
           NEW t \in Tasks, Dispatches(t), NEW e \in Calls
    PROVE  Kept(e) \/ Sends(e)
<1>1. /\ pc[t] = "dispatch" /\ pc' = [pc EXCEPT ![t] = "calling"]
      /\ attempts' = [attempts EXCEPT ![cur[t]] = @ + 1]
      /\ UNCHANGED <<cur, todo, retry, pending, deliveries>>
  BY DEF Dispatches, Moves
<1>2. cur[t] \in Calls /\ Clear(t, cur[t])
  BY <1>1, TaskOf DEF HandsInOrder, InOrder, WithJob, LoopsInOrder, LoopInOrder, Clear, Sent
<1>3. \A u \in Tasks : Clear(u, e)' => Clear(u, e)
  <2>1. \A u \in Tasks : u # t => pc'[u] = pc[u]
    BY <1>1 DEF TypeOK
  <2>2. pc'[t] = "calling"
    BY <1>1 DEF TypeOK
  <2> QED
    BY <1>1, <2>1, <2>2 DEF Clear, Sent
<1>4. Waiting(e)' = Waiting(e)
  BY <1>1 DEF Waiting
<1>5. CASE e = cur[t]
  <2>1. ~Clear(t, e)'
    BY <1>1, <1>5, TaskOf DEF Clear, Sent, TypeOK
  <2>2. attempts'[e] = attempts[e] + 1
    BY <1>1, <1>2, <1>5 DEF TypeOK
  <2>3. t \in Cleared(e) /\ Cleared(e)' \subseteq Cleared(e) \ {t}
    BY <1>2, <1>3, <1>5, <2>1 DEF Cleared
  <2> QED
    BY <1>1, <1>4, <2>2, <2>3 DEF Sends
<1>6. CASE e # cur[t]
  <2>1. attempts'[e] = attempts[e]
    BY <1>1, <1>6 DEF TypeOK
  <2> QED
    BY <1>1, <1>3, <1>4, <2>1 DEF Kept, Cleared, TypeOK
<1> QED
  BY <1>5, <1>6

\* Any other step leaves no more to come than there was.
LEMMA OtherCounts ==
    ASSUME TypeOK, LoopsInOrder, NEW e \in Calls,
           \/ Aside
           \/ \E t \in Tasks : Proceeds(t) \/ Ack(t) \/ TaskFault(t)
           \/ \E g \in Replicas : AckDeadLetter(g) \/ Crash(g) \/ Restart(g)
    PROVE  Kept(e)
<1> USE DEF Kept
<1>0. deliveries[e] \in Nat
  BY DEF TypeOK
<1>1. CASE Aside
  BY <1>0, <1>1 DEF Aside, Cleared, Clear, Waiting
<1>2. ASSUME NEW t \in Tasks, Proceeds(t)
      PROVE  Kept(e)
  <2>1. /\ UNCHANGED <<cur, todo, retry, pending, deliveries, attempts>>
        /\ pc[t] \in Sent => pc'[t] \in Sent
        /\ pc'[t] # "dispatch"
        /\ \A u \in Tasks : u # t => pc'[u] = pc[u]
    BY <1>2 DEF Proceeds, Moves, Sent, TypeOK
  <2>2. \A u \in Tasks : Clear(u, e)' => Clear(u, e)
    BY <2>1 DEF Clear
  <2> QED
    BY <1>0, <2>1, <2>2 DEF Cleared, Waiting
<1>3. ASSUME NEW g \in Replicas, Goto(<<g, "process">>, "read", NoCall),
             UNCHANGED <<todo, retry, deliveries, attempts>>, pending' \subseteq pending
      PROVE  Kept(e)
  BY <1>0, <1>3, GotoCounts
<1>4. ASSUME NEW g \in Replicas, NEW T \in SUBSET todo[g], NEW R \in SUBSET retry[g],
             Resume(g, T, R), UNCHANGED <<deliveries, attempts>>, pending' \subseteq pending,
             pc[<<g, "recover">>] \in Sent => cur[<<g, "recover">>] \notin R
      PROVE  Kept(e)
  <2>1. T \in SUBSET Calls /\ R \in SUBSET Calls
    BY DEF TypeOK
  <2>2. /\ Cleared(e)' \subseteq Cleared(e) \cup {<<g, "recover">>}
        /\ <<g, "recover">> \in Cleared(e)' => e \in R
        /\ \A h \in Waiting(e)' : h # g => h \in Waiting(e)
        /\ g \in Waiting(e)' => e \in T
    BY <1>4, <2>1, ResumeCounts
  <2>3. <<g, "recover">> \in Cleared(e)' => <<g, "recover">> \in Cleared(e)
    BY <1>4, <2>2, TaskOf DEF Cleared, Clear
  <2>4. g \in Waiting(e)' => g \in Waiting(e)
    BY <2>2 DEF Waiting
  <2> QED
    BY <1>0, <1>4, <2>2, <2>3, <2>4
<1>5. ASSUME NEW t \in Tasks, Ack(t) \/ TaskFault(t)
      PROVE  Kept(e)
  <2>1. UNCHANGED <<deliveries, attempts>> /\ pending' \subseteq pending
    BY <1>5 DEF Ack, Acknowledge, TaskFault, redisVars, history
  <2>2. CASE t[2] = "process"
    <3>1. /\ Goto(<<t[1], "process">>, "read", NoCall) /\ UNCHANGED <<todo, retry>>
          /\ t[1] \in Replicas
      BY <1>5, <2>2, TaskOf DEF Ack, TaskFault
    <3> QED
      BY <1>3, <2>1, <3>1
  <2>3. CASE t[2] = "recover"
    <3>1. t = <<t[1], "recover">> /\ t[1] \in Replicas
      BY <2>3, TaskOf
    <3>2. Resume(t[1], {}, retry[t[1]] \ {cur[t]}) \/ Resume(t[1], {}, {})
      BY <1>5, <2>3 DEF Ack, TaskFault
    <3>3. /\ {} \in SUBSET todo[t[1]] /\ {} \in SUBSET retry[t[1]]
          /\ retry[t[1]] \ {cur[t]} \in SUBSET retry[t[1]]
      OBVIOUS
    <3> QED
      BY <1>4, <2>1, <3>1, <3>2, <3>3
  <2> QED
    BY <2>2, <2>3 DEF Tasks
<1>6. ASSUME NEW g \in Replicas, AckDeadLetter(g)
      PROVE  Kept(e)
  <2> DEFINE d == cur[<<g, "recover">>]
  <2>1. /\ UNCHANGED <<deliveries, attempts>> /\ pending' \subseteq pending
        /\ Resume(g, todo[g] \ {d}, retry[g])
        /\ pc[<<g, "recover">>] = "buryack"
    BY <1>6 DEF AckDeadLetter, Acknowledge, history
  <2>2. todo[g] \ {d} \in SUBSET todo[g] /\ retry[g] \in SUBSET retry[g]
    OBVIOUS
  <2> QED
    BY <1>4, <2>1, <2>2 DEF Sent
<1>7. ASSUME NEW g \in Replicas, Crash(g)
      PROVE  Kept(e)
  <2>1. /\ \A t \in Tasks : t[1] = g => pc'[t] = "down" /\ retry'[t[1]] = {}
        /\ \A t \in Tasks : t[1] # g =>
              pc'[t] = pc[t] /\ cur'[t] = cur[t] /\ retry'[t[1]] = retry[t[1]]
        /\ todo' = [todo EXCEPT ![g] = {}]
        /\ UNCHANGED <<deliveries, attempts, pending>>
    BY <1>7, TaskOf DEF Crash, redisVars, TypeOK
  <2>2. \A u \in Tasks : Clear(u, e)' => Clear(u, e)
    BY <2>1 DEF Clear
  <2> QED
    BY <1>0, <2>1, <2>2 DEF Cleared, Waiting, TypeOK
<1>8. ASSUME NEW g \in Replicas, Restart(g)
      PROVE  Kept(e)
  <2>1. /\ pc' = [pc EXCEPT ![<<g, "process">>] = "read", ![<<g, "recover">>] = "reclaim"]
        /\ pc[<<g, "process">>] = "down"
        /\ UNCHANGED <<cur, todo, retry, deliveries, attempts, pending>>
    BY <1>8 DEF Restart, Up, redisVars, history
  <2>2. pc[<<g, "recover">>] = "down"
    BY <2>1, TaskOf DEF LoopsInOrder, LoopInOrder
  <2>3. \A u \in Tasks : pc'[u] \in {pc[u], "read", "reclaim"} /\ (pc[u] \in Sent => pc'[u] = pc[u])
    BY <2>1, <2>2, TaskOf DEF TypeOK, Sent
  <2>4. \A u \in Tasks : Clear(u, e)' => Clear(u, e)
    BY <2>1, <2>3 DEF Clear
  <2> QED
    BY <1>0, <2>1, <2>4 DEF Cleared, Waiting
<1> QED
  BY <1>1, <1>2, <1>5, <1>6, <1>7, <1>8

\* What is idle stays pending, and what has a count was delivered.
LEMMA CountsInOrderStep ==
    ASSUME TypeOK, OnlyDelivered, CountsInOrder, [Next]_vars
    PROVE  CountsInOrder'
<1>1. idle' \subseteq pending'
  <2>1. idle \subseteq pending
    BY DEF CountsInOrder
  <2>2. ASSUME NEW e \in Calls, IdleElapses(e)
        PROVE  idle' \subseteq pending'
    BY <2>1, <2>2 DEF IdleElapses
  <2>3. ASSUME NEW g \in Replicas, Read(g) \/ Reclaim(g) \/ AckDeadLetter(g)
        PROVE  idle' \subseteq pending'
    BY <2>1, <2>3 DEF Read, Reclaim, AckDeadLetter, Acknowledge
  <2>4. ASSUME NEW t \in Tasks, Ack(t)
        PROVE  idle' \subseteq pending'
    BY <2>1, <2>4 DEF Ack, Acknowledge
  <2> QED
    BY <2>1, <2>2, <2>3, <2>4, PendingSteps
<1>2. Delivered \subseteq Delivered'
  BY DeliveredGrows
<1>3. ASSUME NEW e \in Calls, deliveries'[e] > 0
      PROVE  e \in Delivered'
  <2>1. CASE deliveries' = deliveries
    BY <1>2, <1>3, <2>1 DEF CountsInOrder
  <2>2. ASSUME NEW g \in Replicas, Read(g)
        PROVE  e \in Delivered'
    <3>1. /\ deliveries' = [deliveries EXCEPT ![stream[cursor + 1]] = @ + 1]
          /\ stream[cursor + 1] \in Delivered'
      BY <2>2, ReadDelivers DEF Read
    <3> QED
      BY <1>2, <1>3, <3>1 DEF CountsInOrder, TypeOK
  <2>3. ASSUME NEW g \in Replicas, Reclaim(g)
        PROVE  e \in Delivered'
    BY <1>2, <1>3, <2>3 DEF Reclaim, CountsInOrder, OnlyDelivered
  <2>4. CASE Aside
    BY <2>1, <2>4 DEF Aside
  <2>5. ASSUME NEW t \in Tasks, Dispatches(t) \/ Proceeds(t) \/ Ack(t) \/ TaskFault(t)
        PROVE  deliveries' = deliveries
    BY <2>5 DEF Dispatches, Proceeds, Ack, Acknowledge, TaskFault, redisVars
  <2>6. ASSUME NEW g \in Replicas,
               CheckRetryable(g) \/ AckDeadLetter(g) \/ Crash(g) \/ Restart(g)
        PROVE  deliveries' = deliveries
    BY <2>6 DEF CheckRetryable, AckDeadLetter, Acknowledge, Crash, Restart, redisVars
  <2> QED
    BY <2>1, <2>2, <2>3, <2>4, <2>5, <2>6, LoopSteps
<1> QED
  BY <1>1, <1>3 DEF CountsInOrder

\* At first nothing was delivered and there is nothing to come.
LEMMA InitAttemptInv == Init => AttemptInv
<1> SUFFICES ASSUME Init
             PROVE  AttemptInv
  OBVIOUS
<1>1. LoopsInOrder
  BY TaskOf DEF Init, LoopsInOrder, LoopInOrder, Sent
<1>2. CountsInOrder
  BY DEF Init, CountsInOrder
<1>3. ASSUME NEW e \in Calls
      PROVE  WithinBudget(e)
  <2>1. \A t \in Tasks : pc[t] # "dispatch" /\ retry[t[1]] = {}
    BY TaskOf DEF Init
  <2>2. Cleared(e) = {} /\ Waiting(e) = {}
    BY <2>1 DEF Init, Cleared, Clear, Waiting
  <2>3. Cardinality(Replicas) \in Nat
    BY CountedFinite
  <2> QED
    BY <2>2, <2>3, FS_EmptySet DEF Init, WithinBudget, Owed, Sure, Budget
<1> QED
  BY <1>1, <1>2, <1>3 DEF AttemptInv

\* Every step of every process keeps every job within its budget.
LEMMA StepAttemptInv == IInv /\ AttemptInv /\ [Next]_vars => AttemptInv'
<1> SUFFICES ASSUME IInv, AttemptInv, [Next]_vars
             PROVE  AttemptInv'
  OBVIOUS
<1>1. TypeOK /\ HandsInOrder /\ StreamOnce /\ OnlyDelivered /\ LoopsInOrder /\ CountsInOrder
  BY DEF IInv, AttemptInv
<1>2. TypeOK'
  BY StepIInv DEF IInv
<1>3. ASSUME NEW e \in Calls
      PROVE  Kept(e) \/ Delivers(e) \/ Redelivers(e) \/ Clears(e) \/ Sends(e)
  BY <1>1, LoopSteps, ReadCounts, ReclaimCounts, CheckCounts, DispatchCounts, OtherCounts
  DEF CountsInOrder
<1>4. ASSUME NEW e \in Calls
      PROVE  WithinBudget(e)'
  BY <1>1, <1>2, <1>3, BudgetCases DEF AttemptInv
<1> QED
  BY <1>1, <1>4, LoopsInOrderStep, CountsInOrderStep DEF AttemptInv

\* AttemptInv is an invariant of the queue.
LEMMA AttemptInvariance == Spec => [](IInv /\ AttemptInv)
<1>1. Init => IInv /\ AttemptInv
  BY InitIInv, InitAttemptInv
<1>2. IInv /\ AttemptInv /\ [Next]_vars => (IInv /\ AttemptInv)'
  BY StepIInv, StepAttemptInv
<1> QED
  BY <1>1, <1>2, PTL DEF Spec

\* A job is never sent to a worker more often than it was delivered, with any
\* number of replicas that read, reclaim and crash.
THEOREM AttemptsAreDelivered == Spec => []AttemptsWithinDeliveries
<1>1. IInv /\ AttemptInv => AttemptsWithinDeliveries
  <2> SUFFICES ASSUME IInv, AttemptInv, NEW e \in Calls
               PROVE  attempts[e] <= deliveries[e]
    BY DEF AttemptsWithinDeliveries
  <2>1. attempts[e] \in Nat /\ deliveries[e] \in Nat
    BY DEF IInv, TypeOK
  <2> QED
    BY <2>1, CountedFinite DEF AttemptInv, WithinBudget, Owed, Sure
<1> QED
  BY <1>1, AttemptInvariance, PTL

\* The attempts at a job are bounded, however slow they are and whoever reclaims
\* them: by QUEUE_MAX_RETRIES, and one more for each replica.
THEOREM AttemptsAreBounded == Spec => []RetryBudget
<1>1. IInv /\ AttemptInv => RetryBudget
  <2> SUFFICES ASSUME IInv, AttemptInv, NEW e \in Calls
               PROVE  attempts[e] <= Budget + Cardinality(Replicas)
    BY DEF RetryBudget, Budget
  <2>1. attempts[e] \in Nat /\ Budget \in Nat
    BY DEF IInv, TypeOK, Budget
  <2> QED
    BY <2>1, CountedFinite DEF AttemptInv, WithinBudget, Owed, Sure
<1> QED
  BY <1>1, AttemptInvariance, PTL

-----------------------------------------------------------------------------
(* When the idle threshold outlasts an attempt, nobody else gets the job.  *)

\* Task t has got job e and not let go of it.
InCharge(t, e) == cur[t] = e \/ (t[2] = "recover" /\ e \in todo[t[1]] \cup retry[t[1]])

Holders(e) == {t \in Tasks : InCharge(t, e)}

\* A job is in the hands of one task at most; while it is, it is pending, and
\* XAUTOCLAIM does not return it.
Apart(e) ==
    /\ e \in idle => Holders(e) = {}
    /\ \A t, u \in Holders(e) : t = u
    /\ Holders(e) # {} => e \in pending

\* A task has sent the job, or has a result for it.
IsSent(e) == \E t \in Tasks : cur[t] = e /\ pc[t] \in Sent

\* Every attempt but one is paid for by a fault, and so is that one if the job
\* may be sent again.
PaidFor(e) ==
    /\ attempts[e] <= faults + 1
    /\ (e \in pending \/ e \notin Delivered) /\ ~IsSent(e) => attempts[e] <= faults

ApartInv == ~IdleWhileHeld => \A e \in Calls : Apart(e) /\ PaidFor(e)

\* A task takes charge of a job that nobody has.
Takes(e) ==
    /\ Holders(e) = {}
    /\ e \in pending' /\ e \notin idle'
    /\ \E t \in Tasks : Holders(e)' \subseteq {t}

\* After resuming, the recovery loop is in charge of its lists.
LEMMA ResumeHolders ==
    ASSUME TypeOK, NEW g \in Replicas,
           NEW T \in SUBSET Calls, NEW R \in SUBSET Calls, Resume(g, T, R), NEW e \in Calls
    PROVE  /\ Holders(e)' \subseteq Holders(e) \cup {<<g, "recover">>}
           /\ <<g, "recover">> \in Holders(e)' => e \in T \cup R
<1>1. /\ \A u \in Tasks : u # <<g, "recover">> => pc'[u] = pc[u] /\ cur'[u] = cur[u]
      /\ cur'[<<g, "recover">>] \in T \cup R \cup {NoCall}
      /\ \A h \in Replicas : h # g => todo'[h] = todo[h] /\ retry'[h] = retry[h]
  BY ResumeHands
<1>2. todo'[g] = T /\ retry'[g] = R
  BY DEF Resume, TypeOK
<1>3. \A u \in Tasks : u # <<g, "recover">> /\ InCharge(u, e)' => InCharge(u, e)
  BY <1>1, TaskOf DEF InCharge
<1>4. InCharge(<<g, "recover">>, e)' => e \in T \cup R
  BY <1>1, <1>2 DEF InCharge
<1> QED
  BY <1>3, <1>4 DEF Holders

\* The process loop is in charge of the job in its hands.
LEMMA GotoHolders ==
    ASSUME TypeOK, NEW g \in Replicas, NEW l, NEW d, Goto(<<g, "process">>, l, d),
           UNCHANGED <<todo, retry>>, NEW e \in Calls
    PROVE  /\ Holders(e)' \subseteq Holders(e) \cup {<<g, "process">>}
           /\ <<g, "process">> \in Holders(e)' => d = e
<1>1. /\ \A u \in Tasks : u # <<g, "process">> => pc'[u] = pc[u] /\ cur'[u] = cur[u]
      /\ cur'[<<g, "process">>] = d
  BY TaskOf, GotoHands
<1>2. \A u \in Tasks : u # <<g, "process">> /\ InCharge(u, e)' => InCharge(u, e)
  BY <1>1 DEF InCharge
<1>3. InCharge(<<g, "process">>, e)' => d = e
  BY <1>1 DEF InCharge
<1> QED
  BY <1>2, <1>3 DEF Holders

\* Only XREADGROUP and XAUTOCLAIM put a task in charge of a job.
LEMMA HoldersStep ==
    ASSUME TypeOK, StreamOnce, OnlyDelivered, HandsInOrder, LoopsInOrder, idle \subseteq pending,
           [Next]_vars, NEW e \in Calls, Apart(e)
    PROVE  Holders(e)' \subseteq Holders(e) \/ Takes(e)
<1>1. CASE UNCHANGED <<cur, todo, retry>>
  BY <1>1 DEF Holders, InCharge
<1>2. ASSUME NEW g \in Replicas, NEW T \in SUBSET (todo[g] \cup retry[g]),
             NEW R \in SUBSET (todo[g] \cup retry[g]), Resume(g, T, R)
      PROVE  Holders(e)' \subseteq Holders(e)
  <2>1. T \in SUBSET Calls /\ R \in SUBSET Calls
    BY DEF TypeOK
  <2>2. /\ Holders(e)' \subseteq Holders(e) \cup {<<g, "recover">>}
        /\ <<g, "recover">> \in Holders(e)' => e \in T \cup R
    BY <1>2, <2>1, ResumeHolders
  <2>3. e \in T \cup R => <<g, "recover">> \in Holders(e)
    BY TaskOf DEF Holders, InCharge
  <2> QED
    BY <2>2, <2>3
<1>3. ASSUME NEW g \in Replicas, Goto(<<g, "process">>, "read", NoCall), UNCHANGED <<todo, retry>>
      PROVE  Holders(e)' \subseteq Holders(e)
  BY <1>3, GotoHolders
<1>4. ASSUME NEW g \in Replicas, Read(g)
      PROVE  Holders(e)' \subseteq Holders(e) \/ Takes(e)
  <2> DEFINE d == stream[cursor + 1]
  <2>1. /\ Goto(<<g, "process">>, "dispatch", d) /\ UNCHANGED <<todo, retry, idle>>
        /\ pending' = pending \cup {d} /\ d \in Calls
    BY <1>4, ReadDelivers DEF Read
  <2>2. /\ Holders(e)' \subseteq Holders(e) \cup {<<g, "process">>}
        /\ <<g, "process">> \in Holders(e)' => d = e
    BY <2>1, GotoHolders
  <2>3. CASE e = d
    <3>1. d \notin Delivered
      BY <1>4, ReadIsNew
    <3>2. Holders(e) = {} /\ e \notin idle
      BY <2>3, <3>1, TaskOf DEF Holders, InCharge, OnlyDelivered
    <3> QED
      BY <2>1, <2>2, <2>3, <3>2, TaskOf DEF Takes
  <2>4. CASE e # d
    BY <2>2, <2>4
  <2> QED
    BY <2>3, <2>4
<1>5. ASSUME NEW g \in Replicas, Reclaim(g)
      PROVE  Holders(e)' \subseteq Holders(e) \/ Takes(e)
  <2>1. /\ idle \in SUBSET Calls /\ {} \in SUBSET Calls /\ Resume(g, idle, {})
        /\ idle' = {} /\ pending' = pending
    BY <1>5 DEF Reclaim, TypeOK
  <2>2. /\ Holders(e)' \subseteq Holders(e) \cup {<<g, "recover">>}
        /\ <<g, "recover">> \in Holders(e)' => e \in idle \cup {}
    BY <2>1, ResumeHolders
  <2>3. CASE e \in idle
    BY <2>1, <2>2, <2>3, TaskOf DEF Takes, Apart
  <2>4. CASE e \notin idle
    BY <2>2, <2>4
  <2> QED
    BY <2>3, <2>4
<1>6. ASSUME NEW g \in Replicas, CheckRetryable(g)
      PROVE  Holders(e)' \subseteq Holders(e)
  <2> DEFINE d == cur[<<g, "recover">>]
  <2>1. Resume(g, todo[g] \ {d}, retry[g] \cup {d}) /\ pc[<<g, "recover">>] = "check"
    BY <1>6 DEF CheckRetryable
  <2>2. d \in todo[g]
    BY <2>1, TaskOf DEF LoopsInOrder, LoopInOrder
  <2>3. /\ todo[g] \ {d} \in SUBSET (todo[g] \cup retry[g])
        /\ retry[g] \cup {d} \in SUBSET (todo[g] \cup retry[g])
    BY <2>2
  <2> QED
    BY <1>2, <2>1, <2>3
<1>7. ASSUME NEW g \in Replicas, AckDeadLetter(g)
      PROVE  Holders(e)' \subseteq Holders(e)
  <2> DEFINE d == cur[<<g, "recover">>]
  <2>1. Resume(g, todo[g] \ {d}, retry[g])
    BY <1>7 DEF AckDeadLetter
  <2>2. /\ todo[g] \ {d} \in SUBSET (todo[g] \cup retry[g])
        /\ retry[g] \in SUBSET (todo[g] \cup retry[g])
    OBVIOUS
  <2> QED
    BY <1>2, <2>1, <2>2
<1>8. ASSUME NEW t \in Tasks, Ack(t) \/ TaskFault(t)
      PROVE  Holders(e)' \subseteq Holders(e)
  <2>1. CASE t[2] = "process"
    <3>1. /\ Goto(<<t[1], "process">>, "read", NoCall) /\ UNCHANGED <<todo, retry>>
          /\ t[1] \in Replicas
      BY <1>8, <2>1, TaskOf DEF Ack, TaskFault
    <3> QED
      BY <1>3, <3>1
  <2>2. CASE t[2] = "recover"
    <3>1. Resume(t[1], {}, retry[t[1]] \ {cur[t]}) \/ Resume(t[1], {}, {})
      BY <1>8, <2>2 DEF Ack, TaskFault
    <3>2. /\ t[1] \in Replicas /\ {} \in SUBSET (todo[t[1]] \cup retry[t[1]])
          /\ retry[t[1]] \ {cur[t]} \in SUBSET (todo[t[1]] \cup retry[t[1]])
      BY TaskOf
    <3> QED
      BY <1>2, <3>1, <3>2
  <2> QED
    BY <2>1, <2>2 DEF Tasks
<1>9. ASSUME NEW g \in Replicas, Crash(g)
      PROVE  Holders(e)' \subseteq Holders(e)
  <2>1. /\ \A t \in Tasks : cur'[t] = cur[t] \/ cur'[t] = NoCall
        /\ \A h \in Replicas : todo'[h] \subseteq todo[h] /\ retry'[h] \subseteq retry[h]
    BY <1>9 DEF Crash, TypeOK
  <2>2. \A t \in Tasks : InCharge(t, e)' => InCharge(t, e)
    BY <2>1, TaskOf DEF InCharge
  <2> QED
    BY <2>2 DEF Holders
<1> DEFINE HeldOn == Holders(e)' \subseteq Holders(e) \/ Takes(e)
<1>10. UNCHANGED <<cur, todo, retry>> => HeldOn
  BY <1>1
<1>11. \A g \in Replicas :
          Read(g) \/ Reclaim(g) \/ CheckRetryable(g) \/ AckDeadLetter(g) \/ Crash(g) => HeldOn
  <2> SUFFICES ASSUME NEW g \in Replicas, \/ Read(g) \/ Reclaim(g) \/ CheckRetryable(g)
                                          \/ AckDeadLetter(g) \/ Crash(g)
               PROVE  HeldOn
    OBVIOUS
  <2>1. CASE Read(g)
    BY <1>4, <2>1
  <2>2. CASE Reclaim(g)
    BY <1>5, <2>2
  <2>3. CASE CheckRetryable(g)
    BY <1>6, <2>3
  <2>4. CASE AckDeadLetter(g)
    BY <1>7, <2>4
  <2>5. CASE Crash(g)
    BY <1>9, <2>5
  <2> QED
    BY <2>1, <2>2, <2>3, <2>4, <2>5
<1>12. \A t \in Tasks : Ack(t) \/ TaskFault(t) => HeldOn
  BY <1>8
<1>13. HeldOn
  <2> HIDE DEF HeldOn
  <2> QED
    BY <1>10, <1>11, <1>12, HandsStep
<1> QED
  BY <1>13

\* Whoever acknowledges a job lets go of it.
LEMMA AckLetsGo ==
    ASSUME TypeOK, LoopsInOrder, [Next]_vars, NEW e \in Calls, e \in pending, e \notin pending'
    PROVE  \E t \in Holders(e) : t \notin Holders(e)'
<1>1. \/ \E t \in Tasks : Ack(t) /\ cur[t] = e
      \/ \E g \in Replicas : AckDeadLetter(g) /\ cur[<<g, "recover">>] = e
  BY PendingSteps, TaskOf DEF IdleElapses, Reclaim, Read, Ack, AckDeadLetter, Acknowledge
<1>2. \A t \in Tasks : cur[t] = e => t \in Holders(e)
  BY DEF Holders, InCharge
<1>3. ASSUME NEW g \in Replicas, AckDeadLetter(g), cur[<<g, "recover">>] = e
      PROVE  <<g, "recover">> \notin Holders(e)'
  <2>1. Resume(g, todo[g] \ {e}, retry[g]) /\ pc[<<g, "recover">>] = "buryack"
    BY <1>3 DEF AckDeadLetter
  <2>2. e \in todo[g] /\ todo[g] \cap retry[g] = {}
    BY <1>3, <2>1, TaskOf DEF LoopsInOrder, LoopInOrder
  <2>3. todo[g] \ {e} \in SUBSET Calls /\ retry[g] \in SUBSET Calls
    BY DEF TypeOK
  <2>4. <<g, "recover">> \in Holders(e)' => e \in (todo[g] \ {e}) \cup retry[g]
    <3> DEFINE T == todo[g] \ {e}
    <3>1. T \in SUBSET Calls /\ retry[g] \in SUBSET Calls /\ Resume(g, T, retry[g])
      BY <2>1, <2>3
    <3> HIDE DEF T
    <3>2. <<g, "recover">> \in Holders(e)' => e \in T \cup retry[g]
      BY <3>1, ResumeHolders
    <3> QED
      BY <3>2 DEF T
  <2> QED
    BY <2>2, <2>4
<1>4. ASSUME NEW t \in Tasks, Ack(t), cur[t] = e
      PROVE  t \notin Holders(e)'
  <2>1. CASE t[2] = "process"
    <3>1. /\ t = <<t[1], "process">> /\ t[1] \in Replicas
          /\ Goto(t, "read", NoCall) /\ UNCHANGED <<todo, retry>>
      BY <1>4, <2>1, TaskOf DEF Ack
    <3> QED
      BY <3>1, GotoHolders
  <2>2. CASE t[2] = "recover"
    <3>1. /\ t = <<t[1], "recover">> /\ t[1] \in Replicas
          /\ Resume(t[1], {}, retry[t[1]] \ {e})
      BY <1>4, <2>2, TaskOf DEF Ack
    <3>2. {} \in SUBSET Calls /\ retry[t[1]] \ {e} \in SUBSET Calls
      BY <3>1 DEF TypeOK
    <3> DEFINE R == retry[t[1]] \ {e}
    <3>3. {} \in SUBSET Calls /\ R \in SUBSET Calls /\ Resume(t[1], {}, R)
      BY <3>1, <3>2
    <3> HIDE DEF R
    <3>4. t \in Holders(e)' => e \in {} \cup R
      BY <3>1, <3>3, ResumeHolders
    <3> QED
      BY <3>4 DEF R
  <2> QED
    BY <2>1, <2>2 DEF Tasks
<1> QED
  BY <1>1, <1>2, <1>3, <1>4, TaskOf

\* Every step leaves at most one task in charge of a job, pending and not idle.
LEMMA ApartStep ==
    ASSUME IInv, AttemptInv, ~IdleWhileHeld, [Next]_vars, NEW e \in Calls, Apart(e)
    PROVE  Apart(e)'
<1>1. /\ TypeOK /\ StreamOnce /\ OnlyDelivered /\ HandsInOrder /\ LoopsInOrder
      /\ idle \subseteq pending
  BY DEF IInv, AttemptInv, CountsInOrder
<1>2. Holders(e)' \subseteq Holders(e) \/ Takes(e)
  BY <1>1, HoldersStep
<1>3. CASE Takes(e)
  BY <1>3 DEF Takes, Apart
<1>4. CASE Holders(e)' \subseteq Holders(e)
  <2>1. e \in idle' => e \in idle \/ Holders(e) = {}
    <3>1. \/ idle' \subseteq idle
          \/ \E d \in Calls : ~Held(d) /\ idle' = idle \cup {d}
      BY PendingSteps DEF IdleElapses, Reclaim, Read, Ack, AckDeadLetter, Acknowledge
    <3>2. ~Held(e) => Holders(e) = {}
      BY TaskOf DEF Held, Holders, InCharge
    <3> QED
      BY <3>1, <3>2
  <2>2. Holders(e)' # {} => e \in pending'
    BY <1>1, <1>4, AckLetsGo DEF Apart
  <2> QED
    BY <1>4, <2>1, <2>2 DEF Apart
<1> QED
  BY <1>2, <1>3, <1>4

\* A job that was sent stays sent until it is acknowledged or a fault strikes.
LEMMA SentStays ==
    ASSUME TypeOK, OnlyDelivered, LoopsInOrder, [Next]_vars, faults' = faults,
           NEW e \in Calls, IsSent(e)
    PROVE  IsSent(e)' \/ (e \notin pending' /\ e \in Delivered')
<1>1. PICK t \in Tasks : cur[t] = e /\ pc[t] \in Sent
  BY DEF IsSent
<1>2. CASE pc'[t] \in Sent /\ cur'[t] = cur[t]
  BY <1>1, <1>2 DEF IsSent
<1>3. CASE Ack(t)
  <2>1. e \in Delivered /\ Delivered \subseteq Delivered'
    BY <1>1, DeliveredGrows DEF OnlyDelivered
  <2> QED
    BY <1>1, <1>3, <2>1 DEF Ack, Acknowledge
<1>4. ASSUME NEW g \in Replicas, NEW T, NEW R, Resume(g, T, R), t # <<g, "recover">>
      PROVE  pc'[t] = pc[t] /\ cur'[t] = cur[t]
  BY <1>4 DEF Resume, Goto, TypeOK
<1>5. CASE Aside
  BY <1>1, <1>2, <1>5 DEF Aside
<1>6. ASSUME NEW u \in Tasks, Dispatches(u) \/ Proceeds(u)
      PROVE  pc'[t] \in Sent /\ cur'[t] = cur[t]
  BY <1>1, <1>6 DEF Dispatches, Proceeds, Moves, Sent, TypeOK
<1>7. ASSUME NEW u \in Tasks, Ack(u), u # t
      PROVE  pc'[t] \in Sent /\ cur'[t] = cur[t]
  <2>1. \/ Goto(u, "read", NoCall)
        \/ u = <<u[1], "recover">> /\ Resume(u[1], {}, retry[u[1]] \ {cur[u]})
    BY <1>7, TaskOf DEF Ack
  <2> QED
    BY <1>1, <1>4, <1>7, <2>1, GotoHands, TaskOf
<1>8. ASSUME NEW g \in Replicas, Read(g)
      PROVE  pc'[t] \in Sent /\ cur'[t] = cur[t]
  <2>1. Goto(<<g, "process">>, "dispatch", stream[cursor + 1]) /\ t # <<g, "process">>
    BY <1>1, <1>8 DEF Read, Sent
  <2> QED
    BY <1>1, <2>1, GotoHands, TaskOf
<1>9. ASSUME NEW g \in Replicas, Reclaim(g) \/ CheckRetryable(g) \/ AckDeadLetter(g)
      PROVE  pc'[t] \in Sent /\ cur'[t] = cur[t]
  <2>1. (\E T, R : Resume(g, T, R)) /\ t # <<g, "recover">>
    BY <1>1, <1>9 DEF Reclaim, CheckRetryable, AckDeadLetter, Sent
  <2> QED
    BY <1>1, <1>4, <2>1
<1>10. ASSUME NEW g \in Replicas, Restart(g)
       PROVE  pc'[t] \in Sent /\ cur'[t] = cur[t]
  <2>1. /\ pc' = [pc EXCEPT ![<<g, "process">>] = "read", ![<<g, "recover">>] = "reclaim"]
        /\ pc[<<g, "process">>] = "down" /\ cur' = cur
    BY <1>10 DEF Restart, Up
  <2>2. pc[<<g, "recover">>] = "down"
    BY <2>1, TaskOf DEF LoopsInOrder, LoopInOrder
  <2> QED
    BY <1>1, <2>1, <2>2 DEF Sent, TypeOK
<1>11. ~(\E u \in Tasks : TaskFault(u)) /\ ~(\E g \in Replicas : Crash(g))
  BY DEF TaskFault, Crash, TypeOK
<1> QED
  BY <1>2, <1>3, <1>5, <1>6, <1>7, <1>8, <1>9, <1>10, <1>11, LoopSteps

\* Every step pays for the attempts it makes possible.
LEMMA PaidForStep ==
    ASSUME IInv, AttemptInv, [Next]_vars, NEW e \in Calls, Apart(e), PaidFor(e)
    PROVE  PaidFor(e)'
<1>1. /\ TypeOK /\ TypeOK' /\ OnlyDelivered /\ HandsInOrder /\ LoopsInOrder
      /\ CountsInOrder /\ CountsInOrder'
  BY StepIInv, StepAttemptInv DEF IInv, AttemptInv
<1>2. attempts[e] \in Nat /\ attempts'[e] \in Nat /\ faults \in Nat /\ faults' \in Nat
  BY <1>1 DEF TypeOK
<1>3. faults' = faults \/ (faults' = faults + 1 /\ attempts' = attempts)
  BY FaultSteps
<1>4. CASE faults' = faults + 1 /\ attempts' = attempts
  BY <1>2, <1>4 DEF PaidFor
<1>5. ASSUME faults' = faults, NEW t \in Tasks, Dispatches(t), cur[t] = e
      PROVE  PaidFor(e)'
  <2>1. t \in Holders(e) /\ e \in pending /\ pc[t] = "dispatch"
    BY <1>5 DEF Holders, InCharge, Apart, Dispatches, Moves
  <2>2. ~IsSent(e)
    BY <2>1 DEF IsSent, Holders, InCharge, Apart, Sent
  <2>3. attempts[e] <= faults
    BY <2>1, <2>2 DEF PaidFor
  <2>4. attempts'[e] = attempts[e] + 1 /\ IsSent(e)'
    BY <1>1, <1>5 DEF Dispatches, Moves, IsSent, Sent, TypeOK
  <2> QED
    BY <1>2, <1>5, <2>3, <2>4 DEF PaidFor
<1>6. ASSUME faults' = faults, attempts'[e] = attempts[e]
      PROVE  PaidFor(e)'
  <2>1. Delivered \subseteq Delivered'
    BY <1>1, DeliveredGrows
  <2>2. e \in pending' => e \in pending \/ e \notin Delivered
    <3>1. pending' \subseteq pending \/ \E g \in Replicas : Read(g)
      BY PendingSteps DEF IdleElapses, Reclaim, AckDeadLetter, Ack, Acknowledge
    <3>2. ASSUME NEW g \in Replicas, Read(g)
          PROVE  pending' = pending \cup {stream[cursor + 1]} /\ stream[cursor + 1] \notin Delivered
      BY <1>1, <3>2, ReadIsNew DEF Read, IInv
    <3> QED
      BY <3>1, <3>2
  <2>3. IsSent(e) => IsSent(e)' \/ (e \notin pending' /\ e \in Delivered')
    BY <1>1, <1>6, SentStays
  <2> QED
    BY <1>2, <1>6, <2>1, <2>2, <2>3 DEF PaidFor
<1>7. attempts'[e] = attempts[e] \/ \E t \in Tasks : Dispatches(t) /\ cur[t] = e
  <2>1. ASSUME NEW t \in Tasks, Dispatches(t), cur[t] # e
        PROVE  attempts'[e] = attempts[e]
    BY <1>1, <2>1 DEF Dispatches, TypeOK
  <2>2. ASSUME NEW t \in Tasks, Proceeds(t) \/ Ack(t) \/ TaskFault(t)
        PROVE  attempts' = attempts
    BY <2>2 DEF Proceeds, Ack, TaskFault, history
  <2>3. ASSUME NEW g \in Replicas, Read(g) \/ Reclaim(g) \/ CheckRetryable(g)
                 \/ AckDeadLetter(g) \/ Crash(g) \/ Restart(g)
        PROVE  attempts' = attempts
    BY <2>3 DEF Read, Reclaim, CheckRetryable, AckDeadLetter, Crash, Restart, history
  <2> QED
    BY <2>1, <2>2, <2>3, LoopSteps DEF Aside
<1> QED
  BY <1>3, <1>4, <1>5, <1>6, <1>7

\* At first nobody has a job.
LEMMA InitApartInv == Init => ApartInv
<1> SUFFICES ASSUME Init, NEW e \in Calls
             PROVE  Apart(e) /\ PaidFor(e)
  BY DEF ApartInv
<1>1. Holders(e) = {}
  BY TaskOf DEF Init, Holders, InCharge
<1> QED
  BY <1>1 DEF Init, Apart, PaidFor

\* ApartInv is an invariant of the queue.
LEMMA ApartInvariance == Spec => [](IInv /\ AttemptInv /\ ApartInv)
<1>1. Init => IInv /\ AttemptInv /\ ApartInv
  BY InitIInv, InitAttemptInv, InitApartInv
<1>2. IInv /\ AttemptInv /\ ApartInv /\ [Next]_vars => (IInv /\ AttemptInv /\ ApartInv)'
  <2> SUFFICES ASSUME IInv, AttemptInv, ApartInv, [Next]_vars
               PROVE  (IInv /\ AttemptInv /\ ApartInv)'
    OBVIOUS
  <2>1. ASSUME ~IdleWhileHeld, NEW e \in Calls
        PROVE  Apart(e)' /\ PaidFor(e)'
    BY <2>1, ApartStep, PaidForStep DEF ApartInv
  <2>2. ApartInv'
    BY <2>1 DEF ApartInv
  <2> QED
    BY <2>2, StepIInv, StepAttemptInv
<1> QED
  BY <1>1, <1>2, PTL DEF Spec

\* If QUEUE_PENDING_MIN_IDLE_MS outlasts an attempt, two loops never have the
\* same job in their hands, however many replicas there are.
THEOREM OneHolderAtATime == Spec => []OneHolder
<1>1. IInv /\ AttemptInv /\ ApartInv => OneHolder
  <2> SUFFICES ASSUME IInv, ApartInv, ~IdleWhileHeld, NEW t \in Tasks, NEW u \in Tasks,
                      t # u, cur[t] = cur[u], cur[t] # NoCall
               PROVE  FALSE
    BY DEF OneHolder
  <2>1. cur[t] \in Calls
    BY DEF IInv, TypeOK
  <2>2. t \in Holders(cur[t]) /\ u \in Holders(cur[t])
    BY DEF Holders, InCharge
  <2> QED
    BY <2>1, <2>2 DEF ApartInv, Apart
<1> QED
  BY <1>1, ApartInvariance, PTL

\* If it does, a job is sent again only because of a crash or a failed operation.
THEOREM RepeatsArePaid == Spec => []RepeatsArePaidByFaults
<1>1. IInv /\ AttemptInv /\ ApartInv => RepeatsArePaidByFaults
  <2> SUFFICES ASSUME IInv, ApartInv, ~IdleWhileHeld, NEW e \in Calls
               PROVE  attempts[e] <= 1 + faults
    BY DEF RepeatsArePaidByFaults
  <2>1. attempts[e] \in Nat /\ faults \in Nat
    BY DEF IInv, TypeOK
  <2> QED
    BY <2>1 DEF ApartInv, PaidFor
<1> QED
  BY <1>1, ApartInvariance, PTL

\* What tests/test_worker_pool.py says of replicas that share a group, and
\* queue_exactly_once refutes for the default settings, holds where they are such
\* that the idle threshold outlasts an attempt, up to the first fault.
THEOREM AtMostOnceUntilAFault == Spec => [](~IdleWhileHeld /\ faults = 0 => ProcessedAtMostOnce)
<1>1. IInv /\ AttemptInv /\ ApartInv => (~IdleWhileHeld /\ faults = 0 => ProcessedAtMostOnce)
  <2> SUFFICES ASSUME IInv, ApartInv, ~IdleWhileHeld, faults = 0, NEW e \in Calls
               PROVE  attempts[e] <= 1
    BY DEF ProcessedAtMostOnce
  <2>1. attempts[e] <= faults + 1
    BY DEF ApartInv, PaidFor
  <2> QED
    BY <2>1
<1> QED
  BY <1>1, ApartInvariance, PTL
=============================================================================

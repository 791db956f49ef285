--------------------------- MODULE JobQueueProofs ---------------------------
(***************************************************************************)
(* Proofs about JobQueue, for every number of calls, replicas, retries and *)
(* faults, and whether or not the idle threshold outlasts an attempt.      *)
(***************************************************************************)
EXTENDS JobQueue, TLAPS

USE ConstantsOK

-----------------------------------------------------------------------------
(* The inductive invariant.                                                *)

\* An entry is in the stream once, put there by a call that is no longer new.
StreamOnce ==
    /\ \A i, j \in 1 .. Len(stream) : stream[i] = stream[j] => i = j
    /\ \A i \in 1 .. Len(stream) : call[stream[i]] # "new"

\* The pending list and the replicas' hands hold delivered entries only.
OnlyDelivered ==
    /\ pending \subseteq Delivered
    /\ idle \subseteq Delivered
    /\ \A t \in Tasks : cur[t] # NoCall => cur[t] \in Delivered
    /\ \A g \in Replicas : todo[g] \cup retry[g] \subseteq Delivered

WithJob == {"dispatch", "calling", "store", "ack", "check", "bury", "buryack"}

\* What a task that is about to take a step has done for the job in its hands.
InOrder(t) ==
    /\ pc[t] \in WithJob => cur[t] \in Calls
    /\ pc[t] = "store" => out[t] \in Outcomes
    /\ pc[t] = "ack" => stored[cur[t]] # {}
    /\ pc[t] \in {"bury", "buryack"} => deliveries[cur[t]] > MaxRetries
    /\ pc[t] = "buryack" => dead[cur[t]] > 0

HandsInOrder == \A t \in Tasks : InOrder(t)

\* Some delivered job with request id r produced the result o.
Produced(r, o) == \E e \in Delivered : RequestOf[e] = r /\ o \in stored[e]

ResultsProduced == \A r \in Requests : result[r] # "none" => Produced(r, result[r])

IInv ==
    /\ TypeOK
    /\ StreamOnce
    /\ OnlyDelivered
    /\ HandsInOrder
    /\ NoJobLost
    /\ DeadOnlyAfterBudget
    /\ ResultsProduced
    /\ AnswerIsGenuine

-----------------------------------------------------------------------------
(* Type correctness.                                                       *)

\* Both loops of a replica are tasks.
LEMMA TaskOf ==
    /\ \A g \in Replicas : <<g, "process">> \in Tasks /\ <<g, "recover">> \in Tasks
    /\ \A t \in Tasks : /\ t[1] \in Replicas
                        /\ t = <<t[1], "process">> \/ t = <<t[1], "recover">>
BY DEF Tasks

\* Wherever the recovery task resumes, it is at a place of its own loop.
LEMMA ResumeType ==
    ASSUME TypeOK, NEW g \in Replicas,
           NEW T \in SUBSET Calls, NEW R \in SUBSET Calls, Resume(g, T, R)
    PROVE  /\ todo' \in [Replicas -> SUBSET Calls]
           /\ retry' \in [Replicas -> SUBSET Calls]
           /\ cur' \in [Tasks -> Calls \cup {NoCall}]
           /\ pc' \in [Tasks -> ProcessPc \cup RecoverPc]
           /\ \A h \in Replicas : /\ pc'[<<h, "process">>] \in ProcessPc
                                  /\ pc'[<<h, "recover">>] \in RecoverPc
<1> DEFINE t == <<g, "recover">>
<1>1. t \in Tasks
  BY TaskOf
<1>2. /\ todo' = [todo EXCEPT ![g] = T]
      /\ retry' = [retry EXCEPT ![g] = R]
  BY DEF Resume
<1>3. PICK l \in {"check", "dispatch", "reclaim"}, e \in Calls \cup {NoCall} :
          /\ pc' = [pc EXCEPT ![t] = l]
          /\ cur' = [cur EXCEPT ![t] = e]
  BY DEF Resume, Goto, Earliest
<1> QED
  BY <1>1, <1>2, <1>3, TaskOf DEF TypeOK, ProcessPc, RecoverPc

\* Moving the process loop to a place of its own keeps the types.
LEMMA GotoType ==
    ASSUME TypeOK, NEW g \in Replicas, NEW l \in ProcessPc,
           NEW e \in Calls \cup {NoCall}, Goto(<<g, "process">>, l, e)
    PROVE  /\ cur' \in [Tasks -> Calls \cup {NoCall}]
           /\ pc' \in [Tasks -> ProcessPc \cup RecoverPc]
           /\ \A h \in Replicas : /\ pc'[<<h, "process">>] \in ProcessPc
                                  /\ pc'[<<h, "recover">>] \in RecoverPc
BY TaskOf DEF TypeOK, Goto

\* The parts of TypeOK that Goto and Resume change.
ControlTypeOK ==
    /\ pc \in [Tasks -> ProcessPc \cup RecoverPc]
    /\ \A g \in Replicas : /\ pc[<<g, "process">>] \in ProcessPc
                           /\ pc[<<g, "recover">>] \in RecoverPc
    /\ cur \in [Tasks -> Calls \cup {NoCall}]
    /\ todo \in [Replicas -> SUBSET Calls]
    /\ retry \in [Replicas -> SUBSET Calls]

\* Every step keeps the types.
LEMMA TypeStep == TypeOK /\ HandsInOrder /\ [Next]_vars => TypeOK'
<1> SUFFICES ASSUME TypeOK, HandsInOrder, [Next]_vars
             PROVE  TypeOK'
  OBVIOUS
<1>1. ASSUME NEW c \in Calls, HandlerStep(c) \/ CallFault(c) \/ IdleElapses(c)
      PROVE  TypeOK'
  <2>1. CASE FetchResult(c)
    BY <2>1 DEF TypeOK, FetchResult, redisVars, taskVars, handlerVars, history
  <2>2. CASE DeleteResult(c)
    BY <2>2 DEF TypeOK, DeleteResult, Return, redisVars, taskVars, handlerVars, history
  <2>3. CASE GiveUp(c)
    BY <2>3 DEF TypeOK, GiveUp, Return, redisVars, taskVars, handlerVars, history
  <2>4. CASE CallFault(c)
    BY <2>4 DEF TypeOK, CallFault, Return, redisVars, taskVars, handlerVars, history
  <2>5. CASE IdleElapses(c)
    BY <2>5 DEF TypeOK, IdleElapses, redisVars, taskVars, handlerVars, history
  <2> QED
    BY <1>1, <2>1, <2>2, <2>3, <2>4, <2>5 DEF HandlerStep
<1>2. ASSUME NEW c \in Calls, NEW g \in Replicas, Submit(c, g)
      PROVE  TypeOK'
  BY <1>2 DEF TypeOK, Submit, redisVars, taskVars, handlerVars, history
<1>3. ASSUME NEW g \in Replicas, Read(g)
      PROVE  TypeOK'
  <2>1. /\ cursor < Len(stream) /\ stream[cursor + 1] \in Calls
    BY <1>3 DEF Read, TypeOK
  <2>2. Goto(<<g, "process">>, "dispatch", stream[cursor + 1])
    BY <1>3 DEF Read
  <2>3. ControlTypeOK'
    <3>1. todo' = todo /\ retry' = retry
      BY <1>3 DEF Read
    <3>2. "dispatch" \in ProcessPc
      BY DEF ProcessPc
    <3> QED
      BY <2>1, <2>2, <3>1, <3>2, GotoType DEF TypeOK, ControlTypeOK
  <2>4. stream' \in Seq(Calls) /\ cursor' \in 0 .. Len(stream')
    BY <1>3, <2>1 DEF TypeOK, Read
  <2>5. pending' \in SUBSET Calls /\ deliveries' \in [Calls -> Nat]
    BY SMTT(40), <1>3, <2>1 DEF TypeOK, Read
  <2>6. UNCHANGED <<idle, dead, result, out, handlerVars, history>>
    BY <1>3 DEF Read
  <2> QED
    BY <2>3, <2>4, <2>5, <2>6 DEF TypeOK, ControlTypeOK, handlerVars, history
<1>4. ASSUME NEW t \in Tasks, JobStep(t)
      PROVE  TypeOK'
  <2>1. CASE DispatchToWorker(t)
    <3>1. cur[t] \in Calls
      BY <2>1 DEF DispatchToWorker, HandsInOrder, InOrder, WithJob
    <3> QED
      BY <3>1, <1>4, <2>1, TaskOf DEF TypeOK, DispatchToWorker, ProcessPc, RecoverPc,
          redisVars, taskVars, handlerVars, history
  <2>2. CASE DispatchNoWorker(t)
    BY <1>4, <2>2, TaskOf DEF TypeOK, DispatchNoWorker, ProcessPc, RecoverPc, Outcomes,
          redisVars, taskVars, handlerVars, history
  <2>3. CASE CallReturns(t)
    BY SMTT(40), <1>4, <2>3, TaskOf DEF TypeOK, CallReturns, ProcessPc, RecoverPc, Outcomes,
          redisVars, taskVars, handlerVars, history
  <2>4. CASE StoreResult(t)
    <3>1. cur[t] \in Calls /\ out[t] \in Outcomes
      BY <2>4 DEF StoreResult, HandsInOrder, InOrder, WithJob
    <3> QED
      BY <1>4, <2>4, <3>1, TaskOf DEF TypeOK, StoreResult, ProcessPc, RecoverPc, Outcomes,
          redisVars, taskVars, handlerVars, history
  <2>5. CASE Ack(t)
    <3>1. CASE t[2] = "process"
      <4>1. /\ t = <<t[1], "process">> /\ t[1] \in Replicas
            /\ Goto(t, "read", NoCall)
            /\ todo' = todo /\ retry' = retry
        BY <1>4, <2>5, <3>1, TaskOf DEF Ack
      <4>2. "read" \in ProcessPc
        BY DEF ProcessPc
      <4>3. ControlTypeOK'
        BY <4>1, <4>2, GotoType DEF TypeOK, ControlTypeOK
      <4> QED
        BY <2>5, <4>3 DEF TypeOK, ControlTypeOK, Ack, Acknowledge, handlerVars, history
    <3>2. CASE t[2] = "recover"
      <4>1. t[1] \in Replicas /\ retry[t[1]] \ {cur[t]} \in SUBSET Calls
        BY TaskOf DEF TypeOK
      <4>2. Resume(t[1], {}, retry[t[1]] \ {cur[t]})
        BY <2>5, <3>2 DEF Ack
      <4>3. ControlTypeOK'
        BY <4>1, <4>2, ResumeType DEF ControlTypeOK
      <4> QED
        BY <2>5, <4>3 DEF TypeOK, ControlTypeOK, Ack, Acknowledge, handlerVars, history
    <3> QED
      BY <3>1, <3>2 DEF Tasks
  <2> QED
    BY <1>4, <2>1, <2>2, <2>3, <2>4, <2>5 DEF JobStep
<1>5. ASSUME NEW g \in Replicas, RecoverStep(g)
      PROVE  TypeOK'
  <2>1. CASE Reclaim(g)
    <3>1. idle \in SUBSET Calls /\ Resume(g, idle, {})
      BY <2>1 DEF Reclaim, TypeOK
    <3>2. ControlTypeOK'
      BY <3>1, ResumeType DEF ControlTypeOK
    <3> QED
      BY <2>1, <3>2 DEF TypeOK, ControlTypeOK, Reclaim, handlerVars, history
  <2>2. CASE CheckRetryable(g)
    <3> DEFINE e == cur[<<g, "recover">>]
    <3>1. e \in Calls
      BY <2>2, TaskOf DEF CheckRetryable, HandsInOrder, InOrder, WithJob
    <3>2. /\ todo[g] \ {e} \in SUBSET Calls /\ retry[g] \cup {e} \in SUBSET Calls
          /\ Resume(g, todo[g] \ {e}, retry[g] \cup {e})
      BY <2>2, <3>1 DEF CheckRetryable, TypeOK
    <3>3. ControlTypeOK'
      BY <3>2, ResumeType DEF ControlTypeOK
    <3> QED
      BY <2>2, <3>3 DEF TypeOK, ControlTypeOK, CheckRetryable, redisVars, handlerVars, history
  <2>3. CASE CheckExhausted(g)
    <3>1. /\ pc' = [pc EXCEPT ![<<g, "recover">>] = "bury"]
          /\ UNCHANGED <<cur, todo, retry>>
      BY <2>3 DEF CheckExhausted
    <3>2. ControlTypeOK'
      BY <3>1, TaskOf DEF TypeOK, ControlTypeOK, ProcessPc, RecoverPc
    <3> QED
      BY <2>3, <3>2 DEF TypeOK, ControlTypeOK, CheckExhausted, redisVars, handlerVars, history
  <2>4. CASE AddDeadLetter(g)
    <3>1. /\ dead' = [dead EXCEPT ![cur[<<g, "recover">>]] = @ + 1]
          /\ pc' = [pc EXCEPT ![<<g, "recover">>] = "buryack"]
          /\ UNCHANGED <<cur, todo, retry>>
          /\ cur[<<g, "recover">>] \in Calls
      BY <2>4, TaskOf DEF AddDeadLetter, HandsInOrder, InOrder, WithJob
    <3>2. ControlTypeOK'
      BY <3>1, TaskOf DEF TypeOK, ControlTypeOK, ProcessPc, RecoverPc
    <3>3. dead' \in [Calls -> Nat]
      BY <3>1 DEF TypeOK
    <3> QED
      BY <2>4, <3>2, <3>3 DEF TypeOK, ControlTypeOK, AddDeadLetter, redisVars, handlerVars, history
  <2>5. CASE AckDeadLetter(g)
    <3> DEFINE e == cur[<<g, "recover">>]
    <3>1. /\ todo[g] \ {e} \in SUBSET Calls /\ retry[g] \in SUBSET Calls
          /\ Resume(g, todo[g] \ {e}, retry[g])
      BY <2>5 DEF AckDeadLetter, TypeOK
    <3>2. ControlTypeOK'
      BY <3>1, ResumeType DEF ControlTypeOK
    <3> QED
      BY <2>5, <3>2 DEF TypeOK, ControlTypeOK, AckDeadLetter, Acknowledge, handlerVars, history
  <2>6. CASE JobStep(<<g, "recover">>)
    BY <1>4, <2>6, TaskOf
  <2> QED
    BY <1>5, <2>1, <2>2, <2>3, <2>4, <2>5, <2>6 DEF RecoverStep
<1>6. ASSUME NEW g \in Replicas, Crash(g)
      PROVE  TypeOK'
  BY <1>6, TaskOf DEF TypeOK, Crash, ProcessPc, RecoverPc, redisVars, taskVars, handlerVars, history
<1>7. ASSUME NEW g \in Replicas, Restart(g)
      PROVE  TypeOK'
  BY <1>7, TaskOf DEF TypeOK, Restart, ProcessPc, RecoverPc, redisVars, taskVars, handlerVars, history
<1>8. ASSUME NEW t \in Tasks, TaskFault(t)
      PROVE  TypeOK'
  <2> SUFFICES ControlTypeOK'
    <3>1. /\ faults < MaxFaults /\ faults' = faults + 1
          /\ out' = [out EXCEPT ![t] = "none"]
          /\ UNCHANGED <<redisVars, handlerVars, stored, attempts>>
      BY <1>8 DEF TaskFault
    <3> QED
      BY <3>1 DEF TypeOK, ControlTypeOK, redisVars, handlerVars
  <2>1. CASE t[2] = "process"
    <3>1. /\ t = <<t[1], "process">> /\ t[1] \in Replicas
          /\ Goto(t, "read", NoCall)
          /\ todo' = todo /\ retry' = retry
      BY <1>8, <2>1, TaskOf DEF TaskFault
    <3>2. "read" \in ProcessPc
      BY DEF ProcessPc
    <3> QED
      BY <3>1, <3>2, GotoType DEF TypeOK, ControlTypeOK
  <2>2. CASE t[2] = "recover"
    <3>1. t[1] \in Replicas /\ Resume(t[1], {}, {})
      BY <1>8, <2>2, TaskOf DEF TaskFault
    <3>2. {} \in SUBSET Calls
      OBVIOUS
    <3> QED
      BY <3>1, <3>2, ResumeType DEF ControlTypeOK
  <2> QED
    BY <2>1, <2>2 DEF Tasks
<1>9. ASSUME NEW r \in Requests, Expire(r)
      PROVE  TypeOK'
  BY <1>9 DEF TypeOK, Expire, redisVars, taskVars, handlerVars, history
<1>10. CASE UNCHANGED vars
  BY <1>10 DEF TypeOK, vars, redisVars, taskVars, handlerVars, history
<1> QED
  BY <1>1, <1>2, <1>3, <1>4, <1>5, <1>6, <1>7, <1>8, <1>9, <1>10, TaskOf DEF Next, ProcessStep

-----------------------------------------------------------------------------
(* What no step takes back.                                                *)

\* Only XREADGROUP moves the cursor, to the entry after the last delivered one;
\* only XADD changes the stream, at its end.
LEMMA StreamStep ==
    ASSUME TypeOK, [Next]_vars
    PROVE  \/ UNCHANGED <<stream, cursor>>
           \/ \E c \in Calls, g \in Replicas : Submit(c, g)
           \/ \E g \in Replicas : Read(g)
BY ZenonT(60) DEF Next, HandlerStep, FetchResult, DeleteResult, GiveUp, CallFault, IdleElapses,
       ProcessStep, RecoverStep, JobStep, DispatchToWorker, DispatchNoWorker, CallReturns,
       StoreResult, Ack, Acknowledge, Reclaim, CheckRetryable, CheckExhausted, AddDeadLetter,
       AckDeadLetter, Crash, Restart, TaskFault, Expire, vars, redisVars

\* XREADGROUP adds the entry it returns to the delivered ones.
LEMMA ReadDelivers ==
    ASSUME TypeOK, NEW g \in Replicas, Read(g)
    PROVE  /\ stream[cursor + 1] \in Calls
           /\ Delivered' = Delivered \cup {stream[cursor + 1]}
<1>1. /\ cursor < Len(stream) /\ cursor' = cursor + 1 /\ stream' = stream
      /\ stream \in Seq(Calls) /\ cursor \in 0 .. Len(stream)
  BY DEF Read, TypeOK
<1> QED
  BY <1>1 DEF Delivered

\* XADD delivers nothing.
LEMMA SubmitDeliversNothing ==
    ASSUME TypeOK, NEW c \in Calls, NEW g \in Replicas, Submit(c, g)
    PROVE  Delivered' = Delivered
<1>1. /\ cursor' = cursor /\ stream' = Append(stream, c)
      /\ stream \in Seq(Calls) /\ cursor \in 0 .. Len(stream)
  BY DEF Submit, TypeOK
<1>2. \A i \in 1 .. cursor : stream'[i] = stream[i]
  BY <1>1
<1> QED
  BY <1>1, <1>2 DEF Delivered

\* What the group has read of the stream it never has to read again.
LEMMA DeliveredGrows == TypeOK /\ [Next]_vars => Delivered \subseteq Delivered'
<1> SUFFICES ASSUME TypeOK, [Next]_vars
             PROVE  Delivered \subseteq Delivered'
  OBVIOUS
<1>1. CASE UNCHANGED <<stream, cursor>>
  BY <1>1 DEF Delivered
<1> QED
  BY <1>1, StreamStep, ReadDelivers, SubmitDeliversNothing

\* Delivered entries are calls.
LEMMA DeliveredCalls == TypeOK => Delivered \subseteq Calls
BY DEF TypeOK, Delivered

\* Deliveries are counted, dead letters kept and outcomes remembered.
LEMMA HistoryGrows ==
    ASSUME TypeOK, HandsInOrder, [Next]_vars, NEW e \in Calls
    PROVE  /\ deliveries[e] <= deliveries'[e]
           /\ dead[e] <= dead'[e]
           /\ stored[e] \subseteq stored'[e]
           /\ call[e] # "new" => call'[e] # "new"
<1>1. deliveries[e] <= deliveries'[e]
  <2>1. \/ UNCHANGED deliveries
        \/ \E g \in Replicas : Read(g) \/ Reclaim(g)
    BY DEF Next, HandlerStep, FetchResult, DeleteResult, GiveUp, CallFault, IdleElapses,
           ProcessStep, RecoverStep, JobStep, DispatchToWorker, DispatchNoWorker, CallReturns,
           StoreResult, Ack, Acknowledge, CheckRetryable, CheckExhausted, AddDeadLetter,
           AckDeadLetter, Crash, Restart, TaskFault, Expire, Submit, vars, redisVars
  <2>2. ASSUME NEW g \in Replicas, Read(g)
        PROVE  deliveries[e] <= deliveries'[e]
    <3>1. deliveries' = [deliveries EXCEPT ![stream[cursor + 1]] = @ + 1]
      BY <2>2 DEF Read
    <3> QED
      BY <3>1 DEF TypeOK
  <2>3. ASSUME NEW g \in Replicas, Reclaim(g)
        PROVE  deliveries[e] <= deliveries'[e]
    BY <2>3 DEF Reclaim, TypeOK
  <2> QED
    BY <2>1, <2>2, <2>3 DEF TypeOK
<1>2. dead[e] <= dead'[e]
  <2>1. \/ UNCHANGED dead
        \/ \E g \in Replicas : AddDeadLetter(g)
    BY DEF Next, HandlerStep, FetchResult, DeleteResult, GiveUp, CallFault, IdleElapses,
           ProcessStep, RecoverStep, JobStep, DispatchToWorker, DispatchNoWorker, CallReturns,
           StoreResult, Ack, Acknowledge, Reclaim, CheckRetryable, CheckExhausted,
           AckDeadLetter, Crash, Restart, TaskFault, Expire, Submit, Read, vars, redisVars
  <2>2. ASSUME NEW g \in Replicas, AddDeadLetter(g)
        PROVE  dead[e] <= dead'[e]
    BY <2>2 DEF AddDeadLetter, TypeOK
  <2> QED
    BY <2>1, <2>2 DEF TypeOK
<1>3. stored[e] \subseteq stored'[e]
  <2>1. \/ UNCHANGED stored
        \/ \E t \in Tasks : StoreResult(t)
    BY TaskOf DEF Next, HandlerStep, FetchResult, DeleteResult, GiveUp, CallFault, IdleElapses,
           ProcessStep, RecoverStep, JobStep, DispatchToWorker, DispatchNoWorker, CallReturns,
           Ack, Reclaim, CheckRetryable, CheckExhausted, AddDeadLetter,
           AckDeadLetter, Crash, Restart, TaskFault, Expire, Submit, Read, vars, history
  <2>2. ASSUME NEW t \in Tasks, StoreResult(t)
        PROVE  stored[e] \subseteq stored'[e]
    BY <2>2 DEF StoreResult, TypeOK
  <2> QED
    BY <2>1, <2>2 DEF TypeOK
<1>4. call[e] # "new" => call'[e] # "new"
  <2>1. \/ UNCHANGED call
        \/ \E c \in Calls : HandlerStep(c) \/ CallFault(c) \/ \E g \in Replicas : Submit(c, g)
        \/ \E g \in Replicas : Crash(g)
    BY DEF Next, IdleElapses, ProcessStep, RecoverStep, JobStep, DispatchToWorker,
           DispatchNoWorker, CallReturns, StoreResult, Ack, Reclaim, CheckRetryable,
           CheckExhausted, AddDeadLetter, AckDeadLetter, Restart, TaskFault, Expire, Read,
           vars, handlerVars
  <2>2. ASSUME NEW c \in Calls, HandlerStep(c) \/ CallFault(c) \/ \E g \in Replicas : Submit(c, g)
        PROVE  call[e] # "new" => call'[e] # "new"
    BY <2>2 DEF HandlerStep, FetchResult, DeleteResult, GiveUp, CallFault, Submit, Return, TypeOK
  <2>3. ASSUME NEW g \in Replicas, Crash(g)
        PROVE  call[e] # "new" => call'[e] # "new"
    BY <2>3 DEF Crash
  <2> QED
    BY <2>1, <2>2, <2>3
<1> QED
  BY <1>1, <1>2, <1>3, <1>4

\* The stream goes on holding each entry once.
LEMMA StreamOnceStep ==
    TypeOK /\ HandsInOrder /\ StreamOnce /\ [Next]_vars => StreamOnce'
<1> SUFFICES ASSUME TypeOK, HandsInOrder, StreamOnce, [Next]_vars
             PROVE  StreamOnce'
  OBVIOUS
<1>1. \A e \in Calls : call[e] # "new" => call'[e] # "new"
  BY HistoryGrows
<1>2. \A i \in 1 .. Len(stream) : stream[i] \in Calls
  BY DEF TypeOK
<1>3. CASE stream' = stream
  BY <1>1, <1>2, <1>3 DEF StreamOnce
<1>4. ASSUME NEW c \in Calls, NEW g \in Replicas, Submit(c, g)
      PROVE  StreamOnce'
  <2>1. /\ stream' = Append(stream, c) /\ stream \in Seq(Calls)
        /\ call[c] = "new" /\ call'[c] # "new"
    BY <1>4 DEF Submit, TypeOK
  <2>2. /\ Len(stream') = Len(stream) + 1
        /\ \A i \in 1 .. Len(stream) : stream'[i] = stream[i]
        /\ stream'[Len(stream) + 1] = c
        /\ Len(stream) \in Nat
    BY <2>1
  <2>3. \A i \in 1 .. Len(stream) : stream[i] # c
    BY <2>1 DEF StreamOnce
  <2> QED
    BY <1>1, <1>2, <2>1, <2>2, <2>3 DEF StreamOnce
<1>5. ASSUME NEW g \in Replicas, Read(g)
      PROVE  stream' = stream
  BY <1>5 DEF Read
<1> QED
  BY <1>3, <1>4, <1>5, StreamStep

-----------------------------------------------------------------------------
(* What the loops hold.                                                    *)

\* Resuming takes the recovery task to an entry of its lists, and no other task
\* anywhere.
LEMMA ResumeHands ==
    ASSUME TypeOK, NEW g \in Replicas,
           NEW T \in SUBSET Calls, NEW R \in SUBSET Calls, Resume(g, T, R)
    PROVE  /\ \A u \in Tasks : u # <<g, "recover">> => pc'[u] = pc[u] /\ cur'[u] = cur[u]
           /\ cur'[<<g, "recover">>] \in T \cup R \cup {NoCall}
           /\ InOrder(<<g, "recover">>)'
           /\ \A h \in Replicas : h # g => todo'[h] = todo[h] /\ retry'[h] = retry[h]
           /\ todo'[g] = T /\ retry'[g] = R
<1> DEFINE t == <<g, "recover">>
<1>1. t \in Tasks
  BY TaskOf
<1>2. /\ todo' = [todo EXCEPT ![g] = T]
      /\ retry' = [retry EXCEPT ![g] = R]
  BY DEF Resume
<1>3. PICK l \in {"check", "dispatch", "reclaim"}, e \in T \cup R \cup {NoCall} :
          /\ pc' = [pc EXCEPT ![t] = l]
          /\ cur' = [cur EXCEPT ![t] = e]
          /\ l # "reclaim" => e \in Calls
  BY DEF Resume, Goto, Earliest
<1>4. /\ \A u \in Tasks : u # t => pc'[u] = pc[u] /\ cur'[u] = cur[u]
      /\ pc'[t] = l /\ cur'[t] = e
  BY <1>1, <1>3 DEF TypeOK
<1>5. InOrder(t)'
  BY <1>3, <1>4 DEF InOrder, WithJob
<1> QED
  BY <1>2, <1>4, <1>5 DEF TypeOK

\* The process loop leaving a job, or a fault there, touches no other task.
LEMMA GotoHands ==
    ASSUME TypeOK, NEW t \in Tasks, NEW l, NEW e, Goto(t, l, e)
    PROVE  /\ \A u \in Tasks : u # t => pc'[u] = pc[u] /\ cur'[u] = cur[u]
           /\ pc'[t] = l /\ cur'[t] = e
BY DEF Goto, TypeOK

\* The actions that move a job between the hands and lists of the loops.
LEMMA HandsStep ==
    ASSUME [Next]_vars
    PROVE  \/ UNCHANGED <<cur, todo, retry>>
           \/ \E g \in Replicas : \/ Read(g) \/ Reclaim(g) \/ CheckRetryable(g)
                                  \/ AckDeadLetter(g) \/ Crash(g)
           \/ \E t \in Tasks : Ack(t) \/ TaskFault(t)
BY TaskOf DEF Next, HandlerStep, FetchResult, DeleteResult, GiveUp, CallFault, IdleElapses,
   ProcessStep, RecoverStep, JobStep, DispatchToWorker, DispatchNoWorker, CallReturns,
   StoreResult, CheckExhausted, AddDeadLetter, Restart, Expire, Submit, vars, taskVars

\* A loop gets a job only from XREADGROUP, XAUTOCLAIM or the lists of its replica.
LEMMA HandsDelivered ==
    ASSUME TypeOK, HandsInOrder, OnlyDelivered, [Next]_vars
    PROVE  /\ \A t \in Tasks : cur'[t] # NoCall => cur'[t] \in Delivered'
           /\ \A g \in Replicas : todo'[g] \cup retry'[g] \subseteq Delivered'
<1> DEFINE Held2 == /\ \A t \in Tasks : cur'[t] # NoCall => cur'[t] \in Delivered'
                    /\ \A g \in Replicas : todo'[g] \cup retry'[g] \subseteq Delivered'
<1>0. Delivered \subseteq Delivered' /\ Delivered \subseteq Calls
  BY DeliveredGrows, DeliveredCalls
<1>1. CASE UNCHANGED <<cur, todo, retry>>
  BY <1>0, <1>1 DEF OnlyDelivered
<1>2. ASSUME NEW g \in Replicas, NEW T \in SUBSET Delivered, NEW R \in SUBSET Delivered,
             Resume(g, T, R)
      PROVE  Held2
  <2>1. T \in SUBSET Calls /\ R \in SUBSET Calls
    BY <1>0
  <2>2. /\ \A u \in Tasks : u # <<g, "recover">> => pc'[u] = pc[u] /\ cur'[u] = cur[u]
        /\ cur'[<<g, "recover">>] \in T \cup R \cup {NoCall}
        /\ \A h \in Replicas : h # g => todo'[h] = todo[h] /\ retry'[h] = retry[h]
        /\ todo'[g] = T /\ retry'[g] = R
    BY <1>2, <2>1, ResumeHands
  <2>3. ASSUME NEW t \in Tasks, cur'[t] # NoCall
        PROVE  cur'[t] \in Delivered'
    BY <1>0, <2>2, <2>3 DEF OnlyDelivered
  <2>4. ASSUME NEW h \in Replicas
        PROVE  todo'[h] \cup retry'[h] \subseteq Delivered'
    BY <1>0, <2>2 DEF OnlyDelivered
  <2> QED
    BY <2>3, <2>4
<1>3. ASSUME NEW t \in Tasks, Goto(t, "read", NoCall), UNCHANGED <<todo, retry>>
      PROVE  Held2
  <2>1. \A u \in Tasks : cur'[u] = cur[u] \/ cur'[u] = NoCall
    BY <1>3, GotoHands
  <2> QED
    BY <1>0, <1>3, <2>1 DEF OnlyDelivered
<1>4. ASSUME NEW g \in Replicas, Read(g)
      PROVE  Held2
  <2> DEFINE e == stream[cursor + 1]
  <2>1. Goto(<<g, "process">>, "dispatch", e) /\ UNCHANGED <<todo, retry>>
    BY <1>4 DEF Read
  <2>2. \A u \in Tasks : cur'[u] = cur[u] \/ cur'[u] = e
    BY <2>1, TaskOf, GotoHands
  <2>3. e \in Delivered'
    BY <1>4, ReadDelivers
  <2> QED
    BY <1>0, <2>1, <2>2, <2>3 DEF OnlyDelivered
<1>5. ASSUME NEW g \in Replicas, Reclaim(g)
      PROVE  Held2
  <2>1. idle \in SUBSET Delivered /\ {} \in SUBSET Delivered /\ Resume(g, idle, {})
    BY <1>5 DEF Reclaim, OnlyDelivered
  <2> QED
    BY <1>2, <2>1
<1>6. ASSUME NEW g \in Replicas, CheckRetryable(g)
      PROVE  Held2
  <2> DEFINE e == cur[<<g, "recover">>]
  <2>1. e \in Calls /\ Resume(g, todo[g] \ {e}, retry[g] \cup {e})
    BY <1>6, TaskOf DEF CheckRetryable, HandsInOrder, InOrder, WithJob
  <2>2. todo[g] \ {e} \in SUBSET Delivered /\ retry[g] \cup {e} \in SUBSET Delivered
    BY <2>1, TaskOf DEF OnlyDelivered
  <2> QED
    BY <1>2, <2>1, <2>2
<1>7. ASSUME NEW g \in Replicas, AckDeadLetter(g)
      PROVE  Held2
  <2> DEFINE e == cur[<<g, "recover">>]
  <2>1. Resume(g, todo[g] \ {e}, retry[g])
    BY <1>7 DEF AckDeadLetter
  <2>2. todo[g] \ {e} \in SUBSET Delivered /\ retry[g] \in SUBSET Delivered
    BY DEF OnlyDelivered
  <2> QED
    BY <1>2, <2>1, <2>2
<1>8. ASSUME NEW g \in Replicas, Crash(g)
      PROVE  Held2
  BY <1>0, <1>8 DEF Crash, OnlyDelivered, TypeOK
<1>9. ASSUME NEW t \in Tasks, Ack(t)
      PROVE  Held2
  <2>1. t[1] \in Replicas /\ {} \in SUBSET Delivered
        /\ retry[t[1]] \ {cur[t]} \in SUBSET Delivered
    BY TaskOf DEF OnlyDelivered
  <2>2. \/ Goto(t, "read", NoCall) /\ UNCHANGED <<todo, retry>>
        \/ Resume(t[1], {}, retry[t[1]] \ {cur[t]})
    BY <1>9 DEF Ack
  <2> QED
    BY <1>2, <1>3, <2>1, <2>2
<1>10. ASSUME NEW t \in Tasks, TaskFault(t)
       PROVE  Held2
  <2>1. t[1] \in Replicas /\ {} \in SUBSET Delivered
    BY TaskOf
  <2>2. \/ Goto(t, "read", NoCall) /\ UNCHANGED <<todo, retry>>
        \/ Resume(t[1], {}, {})
    BY <1>10 DEF TaskFault
  <2> QED
    BY <1>2, <1>3, <2>1, <2>2
<1> QED
  BY <1>1, <1>4, <1>5, <1>6, <1>7, <1>8, <1>9, <1>10, HandsStep

\* Nothing gets on the pending list, or idles there, that was not delivered.
LEMMA OnlyDeliveredStep ==
    TypeOK /\ HandsInOrder /\ OnlyDelivered /\ [Next]_vars => OnlyDelivered'
<1> SUFFICES ASSUME TypeOK, HandsInOrder, OnlyDelivered, [Next]_vars
             PROVE  OnlyDelivered'
  OBVIOUS
<1>1. \/ pending' \subseteq pending
      \/ \E g \in Replicas : Read(g)
  BY DEF Next, HandlerStep, FetchResult, DeleteResult, GiveUp, CallFault, IdleElapses,
     ProcessStep, RecoverStep, JobStep, DispatchToWorker, DispatchNoWorker, CallReturns,
     StoreResult, Ack, Acknowledge, Reclaim, CheckRetryable, CheckExhausted, AddDeadLetter,
     AckDeadLetter, Crash, Restart, TaskFault, Expire, Submit, vars, redisVars
<1>2. \/ idle' \subseteq idle
      \/ \E c \in Calls : IdleElapses(c)
  BY DEF Next, HandlerStep, FetchResult, DeleteResult, GiveUp, CallFault,
     ProcessStep, RecoverStep, JobStep, DispatchToWorker, DispatchNoWorker, CallReturns,
     StoreResult, Ack, Acknowledge, Reclaim, CheckRetryable, CheckExhausted, AddDeadLetter,
     AckDeadLetter, Crash, Restart, TaskFault, Expire, Submit, Read, vars, redisVars
<1>3. Delivered \subseteq Delivered'
  BY DeliveredGrows
<1>4. pending' \subseteq Delivered'
  <2>1. ASSUME NEW g \in Replicas, Read(g)
        PROVE  pending' \subseteq Delivered'
    <3>1. pending' = pending \cup {stream[cursor + 1]}
      BY <2>1 DEF Read
    <3>2. Delivered' = Delivered \cup {stream[cursor + 1]}
      BY <2>1, ReadDelivers
    <3> QED
      BY <3>1, <3>2 DEF OnlyDelivered
  <2>2. CASE pending' \subseteq pending
    BY <1>3, <2>2 DEF OnlyDelivered
  <2> QED
    BY <1>1, <2>1, <2>2
<1>5. idle' \subseteq Delivered'
  <2>1. ASSUME NEW c \in Calls, IdleElapses(c)
        PROVE  idle' \subseteq Delivered
    BY <2>1 DEF IdleElapses, OnlyDelivered
  <2> QED
    BY <1>2, <1>3, <2>1 DEF OnlyDelivered
<1> QED
  BY <1>4, <1>5, HandsDelivered DEF OnlyDelivered

\* A task the step leaves alone stays in order: nothing it did is undone.
LEMMA Untouched ==
    ASSUME TypeOK, HandsInOrder, [Next]_vars,
           NEW t \in Tasks, pc'[t] = pc[t], cur'[t] = cur[t], out'[t] = out[t]
    PROVE  InOrder(t)'
<1>1. CASE cur[t] \in Calls
  <2>1. /\ deliveries[cur[t]] <= deliveries'[cur[t]]
        /\ dead[cur[t]] <= dead'[cur[t]]
        /\ stored[cur[t]] \subseteq stored'[cur[t]]
    BY <1>1, HistoryGrows
  <2>2. /\ deliveries[cur[t]] \in Nat /\ dead[cur[t]] \in Nat
    BY <1>1 DEF TypeOK
  <2>3. deliveries'[cur[t]] \in Nat /\ dead'[cur[t]] \in Nat
    BY <1>1, TypeStep DEF TypeOK
  <2> QED
    BY <2>1, <2>2, <2>3 DEF HandsInOrder, InOrder
<1>2. CASE cur[t] \notin Calls
  BY <1>2 DEF HandsInOrder, InOrder, WithJob
<1> QED
  BY <1>1, <1>2

\* Every step leaves every task in order.
LEMMA HandsInOrderStep == TypeOK /\ HandsInOrder /\ OnlyDelivered /\ [Next]_vars => HandsInOrder'
<1> SUFFICES ASSUME TypeOK, HandsInOrder, OnlyDelivered, [Next]_vars, NEW u \in Tasks
             PROVE  InOrder(u)'
  BY DEF HandsInOrder
<1>0. InOrder(u)
  BY DEF HandsInOrder
<1>1. CASE UNCHANGED <<pc, cur, out>>
  BY <1>1, Untouched
<1>2. ASSUME NEW g \in Replicas, NEW T \in SUBSET Calls, NEW R \in SUBSET Calls,
             Resume(g, T, R), \A v \in Tasks : v # <<g, "recover">> => out'[v] = out[v]
      PROVE  InOrder(u)'
  <2>1. CASE u = <<g, "recover">>
    BY <1>2, <2>1, ResumeHands
  <2>2. CASE u # <<g, "recover">>
    <3>0. \A v \in Tasks : v # <<g, "recover">> => pc'[v] = pc[v] /\ cur'[v] = cur[v]
      BY <1>2, ResumeHands
    <3>1. pc'[u] = pc[u] /\ cur'[u] = cur[u]
      BY <2>2, <3>0
    <3>2. out'[u] = out[u]
      BY <1>2, <2>2
    <3> QED
      BY <3>1, <3>2, Untouched
  <2> QED
    BY <2>1, <2>2
<1>3. ASSUME NEW t \in Tasks, Goto(t, "read", NoCall),
             \A v \in Tasks : v # t => out'[v] = out[v]
      PROVE  InOrder(u)'
  <2>1. CASE u = t
    BY <1>3, <2>1, GotoHands DEF InOrder, WithJob
  <2>2. CASE u # t
    <3>1. pc'[u] = pc[u] /\ cur'[u] = cur[u] /\ out'[u] = out[u]
      BY <1>3, <2>2, GotoHands
    <3> QED
      BY <3>1, Untouched
  <2> QED
    BY <2>1, <2>2
<1>4. ASSUME NEW g \in Replicas, Read(g)
      PROVE  InOrder(u)'
  <2>1. /\ Goto(<<g, "process">>, "dispatch", stream[cursor + 1])
        /\ out' = out /\ <<g, "process">> \in Tasks
    BY <1>4, TaskOf DEF Read
  <2>2. CASE u = <<g, "process">>
    <3>1. pc'[u] = "dispatch" /\ cur'[u] = stream[cursor + 1]
      BY <2>1, <2>2, GotoHands
    <3>2. stream[cursor + 1] \in Calls
      BY <1>4, ReadDelivers
    <3> QED
      BY <3>1, <3>2 DEF InOrder, WithJob
  <2>3. CASE u # <<g, "process">>
    <3>1. pc'[u] = pc[u] /\ cur'[u] = cur[u] /\ out'[u] = out[u]
      BY <2>1, <2>3, GotoHands
    <3> QED
      BY <3>1, Untouched
  <2> QED
    BY <2>2, <2>3
<1>5. ASSUME NEW t \in Tasks,
             \/ DispatchToWorker(t) \/ DispatchNoWorker(t) \/ CallReturns(t) \/ StoreResult(t)
      PROVE  InOrder(u)'
  <2>1. CASE u # t
    <3>1. pc'[u] = pc[u] /\ cur'[u] = cur[u] /\ out'[u] = out[u]
      BY <1>5, <2>1 DEF DispatchToWorker, DispatchNoWorker, CallReturns, StoreResult, TypeOK
    <3> QED
      BY <3>1, Untouched
  <2>2. CASE u = t
    <3>1. cur'[u] = cur[u] /\ cur[u] \in Calls
      BY <1>0, <1>5, <2>2 DEF DispatchToWorker, DispatchNoWorker, CallReturns, StoreResult,
                             InOrder, WithJob
    <3>2. CASE DispatchToWorker(t)
      <4>1. pc'[u] = "calling"
        BY <2>2, <3>2 DEF DispatchToWorker, TypeOK
      <4> QED
        BY <3>1, <4>1 DEF InOrder, WithJob
    <3>3. CASE DispatchNoWorker(t) \/ CallReturns(t)
      <4>1. pc'[u] = "store" /\ out'[u] \in Outcomes
        BY <2>2, <3>3 DEF DispatchNoWorker, CallReturns, TypeOK, Outcomes
      <4> QED
        BY <3>1, <4>1 DEF InOrder, WithJob
    <3>4. CASE StoreResult(t)
      <4>1. pc'[u] = "ack" /\ stored'[cur[u]] # {}
        BY <2>2, <3>1, <3>4 DEF StoreResult, TypeOK
      <4> QED
        BY <3>1, <4>1 DEF InOrder, WithJob
    <3> QED
      BY <1>5, <3>2, <3>3, <3>4
  <2> QED
    BY <2>1, <2>2
<1>6. ASSUME NEW t \in Tasks, Ack(t)
      PROVE  InOrder(u)'
  <2>1. /\ t[1] \in Replicas /\ {} \in SUBSET Calls /\ retry[t[1]] \ {cur[t]} \in SUBSET Calls
    BY TaskOf DEF TypeOK
  <2>2. /\ out' = out
        /\ Goto(t, "read", NoCall) \/ Resume(t[1], {}, retry[t[1]] \ {cur[t]})
    BY <1>6 DEF Ack
  <2> QED
    BY <1>2, <1>3, <2>1, <2>2
<1>7. ASSUME NEW g \in Replicas, Reclaim(g) \/ CheckRetryable(g) \/ AckDeadLetter(g)
      PROVE  InOrder(u)'
  <2> DEFINE e == cur[<<g, "recover">>]
  <2>1. out' = out
    BY <1>7 DEF Reclaim, CheckRetryable, AckDeadLetter
  <2>2. e \in Calls \cup {NoCall}
    BY TaskOf DEF TypeOK
  <2>3. CASE Reclaim(g)
    <3>1. idle \in SUBSET Calls /\ {} \in SUBSET Calls /\ Resume(g, idle, {})
      BY <2>3 DEF Reclaim, TypeOK
    <3> QED
      BY <1>2, <2>1, <3>1
  <2>4. CASE CheckRetryable(g)
    <3>1. e \in Calls
      BY <2>4, TaskOf DEF CheckRetryable, HandsInOrder, InOrder, WithJob
    <3>2. /\ todo[g] \ {e} \in SUBSET Calls /\ retry[g] \cup {e} \in SUBSET Calls
          /\ Resume(g, todo[g] \ {e}, retry[g] \cup {e})
      BY <2>4, <3>1 DEF CheckRetryable, TypeOK
    <3> QED
      BY <1>2, <2>1, <3>2
  <2>5. CASE AckDeadLetter(g)
    <3>1. /\ todo[g] \ {e} \in SUBSET Calls /\ retry[g] \in SUBSET Calls
          /\ Resume(g, todo[g] \ {e}, retry[g])
      BY <2>5 DEF AckDeadLetter, TypeOK
    <3> QED
      BY <1>2, <2>1, <3>1
  <2> QED
    BY <1>7, <2>3, <2>4, <2>5
<1>8. ASSUME NEW g \in Replicas, CheckExhausted(g) \/ AddDeadLetter(g)
      PROVE  InOrder(u)'
  <2> DEFINE t == <<g, "recover">>
             e == cur[t]
  <2>1. CASE u # t
    <3>1. pc'[u] = pc[u] /\ cur'[u] = cur[u] /\ out'[u] = out[u]
      BY <1>8, <2>1 DEF CheckExhausted, AddDeadLetter, TypeOK
    <3> QED
      BY <3>1, Untouched
  <2>2. CASE u = t /\ CheckExhausted(g)
    <3>1. /\ pc[u] = "check" /\ pc' = [pc EXCEPT ![u] = "bury"] /\ cur' = cur
          /\ deliveries' = deliveries
          /\ DeliveryCount(cur[u]) > MaxRetries
      BY <2>2 DEF CheckExhausted, redisVars
    <3>2. cur[u] \in Calls /\ pc'[u] = "bury"
      BY <1>0, <3>1 DEF InOrder, WithJob, TypeOK
    <3>3. deliveries[cur[u]] > MaxRetries
      BY <3>1, <3>2 DEF DeliveryCount
    <3> QED
      BY <3>1, <3>2, <3>3 DEF InOrder, WithJob
  <2>3. CASE u = t /\ AddDeadLetter(g)
    <3>1. /\ pc[u] = "bury" /\ pc' = [pc EXCEPT ![u] = "buryack"] /\ cur' = cur
          /\ deliveries' = deliveries
          /\ dead' = [dead EXCEPT ![cur[u]] = @ + 1]
      BY <2>3 DEF AddDeadLetter
    <3>2. cur[u] \in Calls /\ pc'[u] = "buryack" /\ deliveries[cur[u]] > MaxRetries
      BY <1>0, <3>1 DEF InOrder, WithJob, TypeOK
    <3>3. dead'[cur[u]] > 0
      BY <3>1, <3>2 DEF TypeOK
    <3> QED
      BY <3>1, <3>2, <3>3 DEF InOrder, WithJob
  <2> QED
    BY <1>8, <2>1, <2>2, <2>3
<1>9. ASSUME NEW g \in Replicas, Crash(g)
      PROVE  InOrder(u)'
  <2>1. CASE u[1] = g
    <3>1. pc'[u] = "down"
      BY <1>9, <2>1 DEF Crash
    <3> QED
      BY <3>1 DEF InOrder, WithJob
  <2>2. CASE u[1] # g
    <3>1. pc'[u] = pc[u] /\ cur'[u] = cur[u] /\ out'[u] = out[u]
      BY <1>9, <2>2 DEF Crash
    <3> QED
      BY <3>1, Untouched
  <2> QED
    BY <2>1, <2>2
<1>10. ASSUME NEW g \in Replicas, Restart(g)
       PROVE  InOrder(u)'
  <2>1. /\ pc' = [pc EXCEPT ![<<g, "process">>] = "read", ![<<g, "recover">>] = "reclaim"]
        /\ cur' = cur /\ out' = out
    BY <1>10 DEF Restart
  <2>2. pc'[u] \in {"read", "reclaim"} \/ pc'[u] = pc[u]
    BY <2>1 DEF TypeOK
  <2>3. CASE pc'[u] \in {"read", "reclaim"}
    BY <2>3 DEF InOrder, WithJob
  <2>4. CASE pc'[u] = pc[u]
    BY <2>1, <2>4, Untouched
  <2> QED
    BY <2>2, <2>3, <2>4
<1>11. ASSUME NEW t \in Tasks, TaskFault(t)
       PROVE  InOrder(u)'
  <2>1. /\ t[1] \in Replicas /\ {} \in SUBSET Calls
        /\ t = <<t[1], "process">> \/ t = <<t[1], "recover">>
    BY TaskOf
  <2>2. /\ out' = [out EXCEPT ![t] = "none"]
        /\ \/ Goto(t, "read", NoCall)
           \/ t[2] = "recover" /\ Resume(t[1], {}, {})
    BY <1>11 DEF TaskFault
  <2>3. \A v \in Tasks : v # t => out'[v] = out[v]
    BY <2>2 DEF TypeOK
  <2>4. CASE Goto(t, "read", NoCall)
    BY <1>3, <2>3, <2>4
  <2>5. CASE t[2] = "recover" /\ Resume(t[1], {}, {})
    <3>1. t = <<t[1], "recover">>
      BY <2>1, <2>5
    <3> QED
      BY <1>2, <2>1, <2>3, <2>5, <3>1
  <2> QED
    BY <2>2, <2>4, <2>5
<1>12. \/ UNCHANGED <<pc, cur, out>>
       \/ \E g \in Replicas : \/ Read(g) \/ Reclaim(g) \/ CheckRetryable(g) \/ AckDeadLetter(g)
                              \/ CheckExhausted(g) \/ AddDeadLetter(g) \/ Crash(g) \/ Restart(g)
       \/ \E t \in Tasks : \/ DispatchToWorker(t) \/ DispatchNoWorker(t) \/ CallReturns(t)
                           \/ StoreResult(t) \/ Ack(t) \/ TaskFault(t)
  BY TaskOf DEF Next, HandlerStep, FetchResult, DeleteResult, GiveUp, CallFault, IdleElapses,
     ProcessStep, RecoverStep, JobStep, Expire, Submit, vars, taskVars
<1> QED
  BY <1>1, <1>4, <1>5, <1>6, <1>7, <1>8, <1>9, <1>10, <1>11, <1>12

-----------------------------------------------------------------------------
(* The invariants about jobs and answers.                                  *)

\* A delivered entry leaves the pending list only by an XACK that follows a
\* stored result or a dead-letter entry.
LEMMA NoJobLostStep ==
    TypeOK /\ HandsInOrder /\ NoJobLost /\ [Next]_vars => NoJobLost'
<1> SUFFICES ASSUME TypeOK, HandsInOrder, NoJobLost, [Next]_vars, NEW e \in Delivered'
             PROVE  e \in pending' \/ stored'[e] # {} \/ dead'[e] > 0
  BY DEF NoJobLost
<1>1. TypeOK' /\ Delivered \subseteq Calls
  BY TypeStep, DeliveredCalls
<1>2. ASSUME e \in Delivered, stored[e] # {} \/ dead[e] > 0
      PROVE  stored'[e] # {} \/ dead'[e] > 0
  <2>1. e \in Calls
    BY <1>1, <1>2
  <2>2. dead[e] <= dead'[e] /\ stored[e] \subseteq stored'[e]
    BY <2>1, HistoryGrows
  <2>3. dead[e] \in Nat /\ dead'[e] \in Nat
    BY <1>1, <2>1 DEF TypeOK
  <2> QED
    BY <1>2, <2>2, <2>3
<1>3. ASSUME e \in Delivered, e \in pending, e \notin pending'
      PROVE  stored[e] # {} \/ dead[e] > 0
  <2>1. \/ \E t \in Tasks : Ack(t) /\ e = cur[t]
        \/ \E g \in Replicas : AckDeadLetter(g) /\ e = cur[<<g, "recover">>]
    BY ZenonT(60), <1>3, TaskOf DEF Next, HandlerStep, FetchResult, DeleteResult, GiveUp, CallFault,
       IdleElapses, ProcessStep, RecoverStep, JobStep, DispatchToWorker, DispatchNoWorker,
       CallReturns, StoreResult, Ack, Acknowledge, Reclaim, CheckRetryable, CheckExhausted,
       AddDeadLetter, AckDeadLetter, Crash, Restart, TaskFault, Expire, Submit, Read,
       vars, redisVars
  <2>2. ASSUME NEW t \in Tasks, Ack(t), e = cur[t]
        PROVE  stored[e] # {}
    BY <2>2 DEF Ack, HandsInOrder, InOrder
  <2>3. ASSUME NEW g \in Replicas, AckDeadLetter(g), e = cur[<<g, "recover">>]
        PROVE  dead[e] > 0
    BY <2>3, TaskOf DEF AckDeadLetter, HandsInOrder, InOrder
  <2> QED
    BY <2>1, <2>2, <2>3
<1>4. ASSUME e \notin Delivered
      PROVE  e \in pending'
  <2>1. PICK g \in Replicas : Read(g)
    BY <1>4, StreamStep, SubmitDeliversNothing DEF Delivered
  <2>2. Delivered' = Delivered \cup {stream[cursor + 1]}
    BY <2>1, ReadDelivers
  <2>3. pending' = pending \cup {stream[cursor + 1]}
    BY <2>1 DEF Read
  <2> QED
    BY <1>4, <2>2, <2>3
<1> QED
  BY <1>2, <1>3, <1>4 DEF NoJobLost

\* Only recover() buries a job, after having counted it beyond its budget.
LEMMA DeadOnlyAfterBudgetStep ==
    TypeOK /\ HandsInOrder /\ DeadOnlyAfterBudget /\ [Next]_vars => DeadOnlyAfterBudget'
<1> SUFFICES ASSUME TypeOK, HandsInOrder, DeadOnlyAfterBudget, [Next]_vars,
                    NEW e \in Calls, dead'[e] > 0
             PROVE  deliveries'[e] > MaxRetries
  BY DEF DeadOnlyAfterBudget
<1>1. deliveries[e] <= deliveries'[e] /\ deliveries[e] \in Nat /\ deliveries'[e] \in Nat
  BY HistoryGrows, TypeStep DEF TypeOK
<1>2. CASE dead'[e] = dead[e]
  BY <1>1, <1>2 DEF DeadOnlyAfterBudget
<1>3. CASE dead'[e] # dead[e]
  <2>1. PICK g \in Replicas : AddDeadLetter(g)
    BY <1>3 DEF Next, HandlerStep, FetchResult, DeleteResult, GiveUp, CallFault, IdleElapses,
       ProcessStep, RecoverStep, JobStep, DispatchToWorker, DispatchNoWorker, CallReturns,
       StoreResult, Ack, Acknowledge, Reclaim, CheckRetryable, CheckExhausted,
       AckDeadLetter, Crash, Restart, TaskFault, Expire, Submit, Read, vars, redisVars
  <2>2. e = cur[<<g, "recover">>]
    BY <1>3, <2>1 DEF AddDeadLetter, TypeOK
  <2>3. deliveries[e] > MaxRetries
    BY <2>1, <2>2, TaskOf DEF AddDeadLetter, HandsInOrder, InOrder
  <2> QED
    BY <1>1, <2>3
<1> QED
  BY <1>2, <1>3

\* What was produced stays produced.
LEMMA ProducedStays ==
    ASSUME TypeOK, HandsInOrder, [Next]_vars, NEW r, NEW o, Produced(r, o)
    PROVE  \E e \in Delivered' : RequestOf[e] = r /\ o \in stored'[e]
<1>1. PICK e \in Delivered : RequestOf[e] = r /\ o \in stored[e]
  BY DEF Produced
<1>2. e \in Calls /\ e \in Delivered'
  BY DeliveredCalls, DeliveredGrows
<1>3. stored[e] \subseteq stored'[e]
  BY <1>2, HistoryGrows
<1> QED
  BY <1>1, <1>2, <1>3

\* A result key holds what a job with its request id produced.
LEMMA ResultsProducedStep ==
    TypeOK /\ HandsInOrder /\ OnlyDelivered /\ ResultsProduced /\ [Next]_vars
        => ResultsProduced'
<1> SUFFICES ASSUME TypeOK, HandsInOrder, OnlyDelivered, ResultsProduced, [Next]_vars,
                    NEW r \in Requests, result'[r] # "none"
             PROVE  \E e \in Delivered' : RequestOf[e] = r /\ result'[r] \in stored'[e]
  BY DEF ResultsProduced, Produced
<1>1. CASE result'[r] = result[r]
  BY <1>1, ProducedStays DEF ResultsProduced
<1>2. CASE result'[r] # result[r]
  <2>1. \/ \E t \in Tasks : StoreResult(t)
        \/ \E c \in Calls : DeleteResult(c) \/ CallFault(c)
        \/ \E q \in Requests : Expire(q)
    BY <1>2, TaskOf DEF Next, HandlerStep, FetchResult, GiveUp, IdleElapses,
       ProcessStep, RecoverStep, JobStep, DispatchToWorker, DispatchNoWorker, CallReturns,
       Ack, Acknowledge, Reclaim, CheckRetryable, CheckExhausted, AddDeadLetter,
       AckDeadLetter, Crash, Restart, TaskFault, Submit, Read, vars, redisVars
  <2>2. ASSUME NEW c \in Calls, DeleteResult(c) \/ CallFault(c)
        PROVE  result'[r] = "none"
    BY <1>2, <2>2 DEF DeleteResult, CallFault, TypeOK
  <2>3. ASSUME NEW q \in Requests, Expire(q)
        PROVE  result'[r] = "none"
    BY <1>2, <2>3 DEF Expire, TypeOK
  <2>4. PICK t \in Tasks : StoreResult(t)
    BY <2>1, <2>2, <2>3
  <2>5. /\ cur[t] \in Calls
        /\ result' = [result EXCEPT ![RequestOf[cur[t]]] = out[t]]
        /\ stored' = [stored EXCEPT ![cur[t]] = @ \cup {out[t]}]
    BY <2>4 DEF StoreResult, HandsInOrder, InOrder, WithJob
  <2>6. r = RequestOf[cur[t]] /\ result'[r] = out[t] /\ out[t] \in stored'[cur[t]]
    BY <1>2, <2>5 DEF TypeOK
  <2>7. cur[t] \in Delivered'
    BY <2>5, DeliveredGrows DEF OnlyDelivered
  <2> QED
    BY <2>6, <2>7
<1> QED
  BY <1>1, <1>2

\* An answer is read off a result key, and the key never lies.
LEMMA AnswerIsGenuineStep ==
    TypeOK /\ HandsInOrder /\ ResultsProduced /\ AnswerIsGenuine /\ [Next]_vars
        => AnswerIsGenuine'
<1> SUFFICES ASSUME TypeOK, HandsInOrder, ResultsProduced, AnswerIsGenuine, [Next]_vars,
                    NEW c \in Calls, call'[c] \in {"fetched", "answered"}
             PROVE  \E e \in Delivered' : RequestOf[e] = RequestOf[c] /\ reply'[c] \in stored'[e]
  BY DEF AnswerIsGenuine
<1>1. CASE call[c] \in {"fetched", "answered"} /\ reply'[c] = reply[c]
  <2>1. Produced(RequestOf[c], reply[c])
    BY <1>1 DEF AnswerIsGenuine, Produced
  <2> QED
    BY <1>1, <2>1, ProducedStays
<1>2. CASE ~(call[c] \in {"fetched", "answered"} /\ reply'[c] = reply[c])
  <2>1. FetchResult(c)
    <3>1. \/ UNCHANGED <<call, reply>>
          \/ \E d \in Calls : \/ HandlerStep(d) \/ CallFault(d)
                              \/ \E g \in Replicas : Submit(d, g)
          \/ \E g \in Replicas : Crash(g)
      BY ZenonT(60) DEF Next, IdleElapses, ProcessStep, RecoverStep, JobStep, DispatchToWorker,
         DispatchNoWorker, CallReturns, StoreResult, Ack, Reclaim, CheckRetryable,
         CheckExhausted, AddDeadLetter, AckDeadLetter, Restart, TaskFault, Expire, Read,
         vars, handlerVars
    <3>2. ASSUME NEW g \in Replicas, Crash(g)
          PROVE  FALSE
      BY <1>2, <3>2 DEF Crash
    <3>3. ASSUME NEW d \in Calls, NEW g \in Replicas, Submit(d, g)
          PROVE  FALSE
      BY <1>2, <3>3 DEF Submit, TypeOK
    <3>4. ASSUME NEW d \in Calls, DeleteResult(d) \/ GiveUp(d) \/ CallFault(d)
          PROVE  FALSE
      BY <1>2, <3>4 DEF DeleteResult, GiveUp, CallFault, Return, TypeOK
    <3>5. ASSUME NEW d \in Calls, FetchResult(d), d # c
          PROVE  FALSE
      BY <1>2, <3>5 DEF FetchResult, TypeOK
    <3> QED
      BY <1>2, <3>1, <3>2, <3>3, <3>4, <3>5 DEF HandlerStep
  <2>2. /\ result[RequestOf[c]] # "none"
        /\ reply'[c] = result[RequestOf[c]]
    BY <2>1 DEF FetchResult, TypeOK
  <2>3. Produced(RequestOf[c], result[RequestOf[c]])
    BY <2>2 DEF ResultsProduced
  <2> QED
    BY <2>2, <2>3, ProducedStays
<1> QED
  BY <1>1, <1>2

-----------------------------------------------------------------------------
(* The theorems.                                                           *)

\* The strengthened invariant holds of the empty system.
LEMMA InitIInv == Init => IInv
<1> SUFFICES ASSUME Init
             PROVE  IInv
  OBVIOUS
<1>1. TypeOK
  BY TaskOf DEF Init, TypeOK, ProcessPc, RecoverPc, Tasks
<1>2. Delivered = {}
  BY DEF Init, Delivered
<1>3. StreamOnce
  BY DEF Init, StreamOnce
<1>4. OnlyDelivered
  BY <1>2 DEF Init, OnlyDelivered
<1>5. HandsInOrder
  BY DEF Init, HandsInOrder, InOrder, WithJob
<1>6. NoJobLost /\ DeadOnlyAfterBudget /\ ResultsProduced /\ AnswerIsGenuine
  BY <1>2 DEF Init, NoJobLost, DeadOnlyAfterBudget, ResultsProduced, AnswerIsGenuine
<1> QED
  BY <1>1, <1>3, <1>4, <1>5, <1>6 DEF IInv

\* Every step of every process keeps the strengthened invariant.
LEMMA StepIInv == IInv /\ [Next]_vars => IInv'
BY TypeStep, StreamOnceStep, OnlyDeliveredStep, HandsInOrderStep, NoJobLostStep,
   DeadOnlyAfterBudgetStep, ResultsProducedStep, AnswerIsGenuineStep DEF IInv

\* IInv is an inductive invariant of the queue.
THEOREM Invariance == Spec => []IInv
<1>1. Init => IInv
  BY InitIInv
<1>2. IInv /\ [Next]_vars => IInv'
  BY StepIInv
<1> QED
  BY <1>1, <1>2, PTL DEF Spec

\* Every variable keeps its type, and every loop stays within its own code.
THEOREM TypeCorrect == Spec => []TypeOK
<1>1. IInv => TypeOK
  BY DEF IInv
<1> QED
  BY <1>1, Invariance, PTL

\* However many replicas, crashes and lost replies there are, a job that was
\* delivered and acknowledged left a result or a dead-letter entry behind.
THEOREM JobsAreNeverLost == Spec => []NoJobLost
<1>1. IInv => NoJobLost
  BY DEF IInv
<1> QED
  BY <1>1, Invariance, PTL

\* A job in the dead-letter stream was delivered more than MaxRetries times.
THEOREM BudgetBeforeDeadLetter == Spec => []DeadOnlyAfterBudget
<1>1. IInv => DeadOnlyAfterBudget
  BY DEF IInv
<1> QED
  BY <1>1, Invariance, PTL

\* An answered call holds a result that a job with its request id produced.
THEOREM AnswersAreGenuine == Spec => []AnswerIsGenuine
<1>1. IInv => AnswerIsGenuine
  BY DEF IInv
<1> QED
  BY <1>1, Invariance, PTL

-----------------------------------------------------------------------------
(* Refinement of ReliableDelivery.                                         *)

Accepted == {stream[i] : i \in 1 .. Len(stream)}
OutcomesOf == [e \in Calls |-> stored[e] \cup (IF dead[e] > 0 THEN {"dead"} ELSE {})]
Settled == Delivered \ pending

\* An accepted call is a call.
LEMMA AcceptedCalls ==
    ASSUME TypeOK
    PROVE  Delivered \subseteq Accepted /\ Accepted \subseteq Calls
BY DEF TypeOK, Delivered, Accepted

\* Every step of the queue is a step of the abstract specification, or none.
LEMMA StepRefines == IInv /\ [Next]_vars => [Promise!Next]_(Promise!vars)
<1> SUFFICES ASSUME IInv, [Next]_vars
             PROVE  [Promise!Next]_(Promise!vars)
  OBVIOUS
<1> USE DEF IInv
<1>1. \/ UNCHANGED <<stream, cursor, pending, stored, dead>>
      \/ \E c \in Calls, g \in Replicas : Submit(c, g)
      \/ \E g \in Replicas : Read(g) \/ AddDeadLetter(g) \/ AckDeadLetter(g)
      \/ \E t \in Tasks : StoreResult(t) \/ Ack(t)
  BY ZenonT(60), TaskOf DEF Next, HandlerStep, FetchResult, DeleteResult, GiveUp, CallFault, IdleElapses,
     ProcessStep, RecoverStep, JobStep, DispatchToWorker, DispatchNoWorker, CallReturns,
     Reclaim, CheckRetryable, CheckExhausted, Crash, Restart, TaskFault, Expire,
     vars, redisVars, history
<1>2. CASE UNCHANGED <<stream, cursor, pending, stored, dead>>
  BY <1>2 DEF Promise!vars, Delivered
<1>3. ASSUME NEW c \in Calls, NEW g \in Replicas, Submit(c, g)
      PROVE  Promise!Next
  <2>1. /\ stream' = Append(stream, c) /\ stream \in Seq(Calls) /\ call[c] = "new"
        /\ UNCHANGED <<pending, stored, dead>>
    BY <1>3 DEF Submit, TypeOK, history
  <2>2. c \notin Accepted
    BY <2>1 DEF StreamOnce, Accepted
  <2>3. Accepted' = Accepted \cup {c}
    <3>1. /\ Len(stream) \in Nat /\ Len(stream') = Len(stream) + 1
          /\ \A i \in 1 .. Len(stream) : stream'[i] = stream[i]
          /\ stream'[Len(stream) + 1] = c
      BY <2>1
    <3> QED
      BY <3>1 DEF Accepted
  <2>4. Settled' = Settled /\ OutcomesOf' = OutcomesOf
    BY <1>3, <2>1, SubmitDeliversNothing DEF Settled, OutcomesOf
  <2>5. Promise!Accept(c)
    BY <2>2, <2>3, <2>4 DEF Promise!Accept, Accepted, Settled, OutcomesOf
  <2> QED
    BY <2>5 DEF Promise!Next
<1>4. ASSUME NEW g \in Replicas, Read(g)
      PROVE  UNCHANGED Promise!vars
  <2> DEFINE e == stream[cursor + 1]
  <2>1. /\ stream' = stream /\ pending' = pending \cup {e} /\ UNCHANGED <<stored, dead>>
        /\ cursor \in Nat /\ cursor < Len(stream)
    BY <1>4 DEF Read, history, TypeOK
  <2>2. Delivered' = Delivered \cup {e}
    BY <1>4, ReadDelivers
  <2>3. e \notin Delivered
    <3>1. /\ cursor + 1 \in 1 .. Len(stream)
          /\ \A i \in 1 .. cursor : i \in 1 .. Len(stream) /\ i # cursor + 1
      BY <2>1 DEF TypeOK
    <3>2. \A i \in 1 .. cursor : stream[i] # e
      BY <3>1 DEF StreamOnce
    <3> QED
      BY <3>2 DEF Delivered
  <2>4. Settled' = Settled /\ OutcomesOf' = OutcomesOf /\ Accepted' = Accepted
    BY <2>1, <2>2, <2>3 DEF Settled, OutcomesOf, Accepted
  <2> QED
    BY <2>4 DEF Promise!vars, Settled, OutcomesOf, Accepted
<1>5. ASSUME NEW t \in Tasks, StoreResult(t)
      PROVE  Promise!Next
  <2>1. /\ cur[t] \in Calls /\ cur[t] \in Accepted /\ out[t] \in Outcomes
    BY <1>5, AcceptedCalls DEF StoreResult, HandsInOrder, InOrder, WithJob, OnlyDelivered
  <2>2. /\ stored' = [stored EXCEPT ![cur[t]] = @ \cup {out[t]}]
        /\ UNCHANGED <<stream, cursor, pending, dead>>
    BY <1>5 DEF StoreResult
  <2>3. OutcomesOf' = [OutcomesOf EXCEPT ![cur[t]] = @ \cup {out[t]}]
    <3>1. \A e \in Calls :
              stored'[e] = IF e = cur[t] THEN stored[e] \cup {out[t]} ELSE stored[e]
      BY <2>1, <2>2 DEF TypeOK
    <3>2. \A e \in Calls :
              OutcomesOf'[e] = IF e = cur[t] THEN OutcomesOf[e] \cup {out[t]} ELSE OutcomesOf[e]
      BY <2>2, <3>1 DEF OutcomesOf
    <3> QED
      BY ZenonT(60), <2>1, <3>2 DEF OutcomesOf
  <2>4. Accepted' = Accepted /\ Settled' = Settled
    BY <2>2 DEF Accepted, Settled, Delivered
  <2>5. PICK o \in Outcomes : o = out[t]
    BY <2>1
  <2>6. Promise!Yield(cur[t], o)
    BY <2>1, <2>3, <2>4, <2>5 DEF Promise!Yield, OutcomesOf, Accepted, Settled
  <2> QED
    BY <2>1, <2>6 DEF Promise!Next
<1>6. ASSUME NEW g \in Replicas, AddDeadLetter(g)
      PROVE  Promise!Next
  <2> DEFINE e == cur[<<g, "recover">>]
  <2>1. e \in Calls /\ e \in Accepted
    BY <1>6, TaskOf, AcceptedCalls
       DEF AddDeadLetter, HandsInOrder, InOrder, WithJob, OnlyDelivered
  <2>2. /\ dead' = [dead EXCEPT ![e] = @ + 1]
        /\ UNCHANGED <<stream, cursor, pending, stored>>
    BY <1>6 DEF AddDeadLetter, history
  <2>3. dead'[e] > 0
    BY <2>1, <2>2 DEF TypeOK
  <2>4. OutcomesOf' = [OutcomesOf EXCEPT ![e] = @ \cup {"dead"}]
    <3>1. \A f \in Calls : f # e => dead'[f] = dead[f]
      BY <2>1, <2>2 DEF TypeOK
    <3>2. \A f \in Calls :
              OutcomesOf'[f] = IF f = e THEN OutcomesOf[f] \cup {"dead"} ELSE OutcomesOf[f]
      BY <2>2, <2>3, <3>1 DEF OutcomesOf
    <3> QED
      BY ZenonT(60), <2>1, <3>2 DEF OutcomesOf
  <2>5. Accepted' = Accepted /\ Settled' = Settled
    BY <2>2 DEF Accepted, Settled, Delivered
  <2>6. Promise!Yield(e, "dead")
    BY <2>1, <2>4, <2>5 DEF Promise!Yield, OutcomesOf, Accepted, Settled
  <2> QED
    BY <2>1, <2>6 DEF Promise!Next
<1>7. ASSUME NEW e \in Calls, e \in Delivered, Acknowledge(e), UNCHANGED stored,
             stored[e] # {} \/ dead[e] > 0
      PROVE  Promise!Next
  <2>1. Settled' = Settled \cup {e}
    BY <1>7 DEF Acknowledge, Settled, Delivered
  <2>2. Accepted' = Accepted /\ OutcomesOf' = OutcomesOf /\ e \in Accepted
    BY <1>7, AcceptedCalls DEF Acknowledge, Accepted, OutcomesOf
  <2>3. OutcomesOf[e] # {}
    BY <1>7 DEF OutcomesOf
  <2>4. Promise!Settle(e)
    BY <2>1, <2>2, <2>3 DEF Promise!Settle, OutcomesOf, Accepted, Settled
  <2> QED
    BY <2>4 DEF Promise!Next
<1>8. ASSUME NEW t \in Tasks, Ack(t)
      PROVE  Promise!Next
  <2>1. /\ cur[t] \in Calls /\ cur[t] \in Delivered /\ stored[cur[t]] # {}
        /\ Acknowledge(cur[t]) /\ UNCHANGED stored
    BY <1>8 DEF Ack, HandsInOrder, InOrder, WithJob, OnlyDelivered, history
  <2> QED
    BY <1>7, <2>1
<1>9. ASSUME NEW g \in Replicas, AckDeadLetter(g)
      PROVE  Promise!Next
  <2> DEFINE e == cur[<<g, "recover">>]
  <2>1. /\ e \in Calls /\ e \in Delivered /\ dead[e] > 0
        /\ Acknowledge(e) /\ UNCHANGED stored
    BY <1>9, TaskOf DEF AckDeadLetter, HandsInOrder, InOrder, WithJob, OnlyDelivered, history
  <2> QED
    BY <1>7, <2>1
<1> QED
  BY <1>1, <1>2, <1>3, <1>4, <1>5, <1>6, <1>8, <1>9

\* The reliable queue implements at-least-once delivery as ReliableDelivery
\* states it: nothing is settled that was not accepted and had no outcome.
THEOREM Refinement == Spec => KeepsPromise
<1>1. Init => Promise!Init
  BY DEF Init, Promise!Init, Delivered
<1>2. IInv /\ [Next]_vars => [Promise!Next]_(Promise!vars)
  BY StepRefines
<1> QED
  BY <1>1, <1>2, Invariance, PTL DEF Spec, KeepsPromise, Promise!Spec

\* Whoever keeps the promise forgets no outcome, and settles for good.
LEMMA PromiseLasts ==
    ASSUME [Promise!Next]_(Promise!vars)
    PROVE  Settled \subseteq Settled' /\ \A e \in Calls : OutcomesOf[e] \subseteq OutcomesOf'[e]
<1>1. ASSUME NEW j \in Calls, Promise!Accept(j) \/ Promise!Settle(j)
      PROVE  Settled \subseteq Settled' /\ OutcomesOf' = OutcomesOf
  BY <1>1 DEF Promise!Accept, Promise!Settle, Settled, OutcomesOf
<1>2. ASSUME NEW j \in Calls, NEW o, Promise!Yield(j, o)
      PROVE  Settled \subseteq Settled' /\ OutcomesOf' = [OutcomesOf EXCEPT ![j] = @ \cup {o}]
  BY <1>2 DEF Promise!Yield, Settled, OutcomesOf
<1>3. CASE UNCHANGED Promise!vars
  BY <1>3 DEF Promise!vars, Settled, OutcomesOf
<1>4. DOMAIN OutcomesOf = Calls
  BY DEF OutcomesOf
<1>5. CASE Promise!Next
  <2>1. CASE Settled \subseteq Settled' /\ OutcomesOf' = OutcomesOf
    BY <2>1
  <2>2. ASSUME NEW j \in Calls, NEW o, Promise!Yield(j, o)
        PROVE  Settled \subseteq Settled' /\ \A e \in Calls : OutcomesOf[e] \subseteq OutcomesOf'[e]
    <3>1. Settled \subseteq Settled' /\ OutcomesOf' = [OutcomesOf EXCEPT ![j] = @ \cup {o}]
      BY <1>2, <2>2
    <3> QED
      BY <1>4, <3>1
  <2> QED
    BY <1>1, <1>5, <2>1, <2>2 DEF Promise!Next
<1> QED
  BY <1>3, <1>5

\* So does the queue: what came of a job is not forgotten, and a job that was
\* acknowledged is never pending again, though XREADGROUP and XAUTOCLAIM go on in
\* every replica: no later recovery finds it.
THEOREM SettledForGood ==
    Spec => [][/\ Settled \subseteq Settled'
               /\ \A e \in Calls : OutcomesOf[e] \subseteq OutcomesOf'[e]]_vars
<1>1. IInv /\ [Next]_vars => [/\ Settled \subseteq Settled'
                              /\ \A e \in Calls : OutcomesOf[e] \subseteq OutcomesOf'[e]]_vars
  BY StepRefines, PromiseLasts
<1> QED
  BY <1>1, Invariance, PTL DEF Spec
=============================================================================

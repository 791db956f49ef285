------------------------------ MODULE JobQueue ------------------------------
(***************************************************************************)
(* The reliable queue behind POST /queued/generate: the HTTP handler that  *)
(* adds a job to a Redis stream and polls for its result, the two loops    *)
(* every gateway replica runs over the shared consumer group               *)
(* (WorkerPool._process_loop and ._recovery_loop), the retry policy, the   *)
(* dead-letter stream and the result keys.                                 *)
(*                                                                         *)
(* Each Redis command is one atomic action, and so is each stretch of a    *)
(* coroutine between two awaits.  A job is named by the call that added    *)
(* it: a handler executes XADD once.  Two calls may carry the same         *)
(* request id (a client retry), and the result key is named by that id.    *)
(***************************************************************************)
EXTENDS Naturals, Sequences, FiniteSets

CONSTANTS
    Calls,          \* POST /queued/generate calls, and the stream entries they add
    NoCall,         \* the absence of a job in a task's hands
    Requests,       \* request ids: the names of result keys
    RequestOf,      \* the request id each call carries
    Replicas,       \* gateway processes sharing the stream and its group
    MaxRetries,     \* QUEUE_MAX_RETRIES
    MaxFaults,      \* bound: crashes and failed Redis or worker operations
    IdleWhileHeld   \* TRUE: QUEUE_PENDING_MIN_IDLE_MS may elapse while a live
                    \* task still holds the job (the defaults: 30 s against a
                    \* REQUEST_TIMEOUT of 120 s)

ASSUME ConstantsOK ==
    /\ NoCall \notin Calls
    /\ RequestOf \in [Calls -> Requests]
    /\ MaxRetries \in Nat
    /\ MaxFaults \in Nat
    /\ IdleWhileHeld \in BOOLEAN
    /\ IsFiniteSet(Replicas)

Tasks == Replicas \X {"process", "recover"}

Outcomes == {"ok", "error"}     \* a result dict, without or with an "error" key

VARIABLES
    stream,      \* entries of llm:stream:request_queue, oldest first; never trimmed
    cursor,      \* how many entries the group has delivered (its last-delivered-id)
    pending,     \* the group's Pending Entries List
    deliveries,  \* times_delivered of each entry; kept after XACK as a history
    idle,        \* pending entries whose idle time has reached min_idle_ms
    dead,        \* how many times each job was added to the dead-letter stream
    result,      \* llm:result:<request id>, "none" when there is no such key
    pc,          \* what each loop task does next; "down" when its replica is down
    cur,         \* the job in each task's hands
    out,         \* the result _process_job has returned and the task must store
    todo,        \* per replica, entries recover() reclaimed and must still check
    retry,       \* per replica, reclaimed entries _recovery_loop must still process
    call,        \* the progress of each HTTP call
    reply,       \* the result get_result() has read for a call
    handlers,    \* per replica, the calls whose handler runs there
    stored,      \* history: the outcomes ever stored for each job
    attempts,    \* history: times each job was sent to an inference worker
    faults       \* faults so far

redisVars   == <<stream, cursor, pending, deliveries, idle, dead, result>>
taskVars    == <<pc, cur, out, todo, retry>>
handlerVars == <<call, reply, handlers>>
history     == <<stored, attempts, faults>>
vars        == <<redisVars, taskVars, handlerVars, history>>

ProcessPc == {"down", "read", "dispatch", "calling", "store", "ack"}
RecoverPc == {"down", "reclaim", "check", "bury", "buryack",
              "dispatch", "calling", "store", "ack"}

Delivered == {stream[i] : i \in 1 .. cursor}

\* Has recover() or the process loop got this job and not let go of it?
Held(e) == \/ \E t \in Tasks : cur[t] = e
           \/ \E g \in Replicas : e \in todo[g] \cup retry[g]

Up(g) == pc[<<g, "process">>] # "down"

Before(e, f) == \E i, j \in 1 .. Len(stream) : i < j /\ stream[i] = e /\ stream[j] = f

Earliest(e, S) == e \in S /\ \A f \in S \ {e} : Before(e, f)

-----------------------------------------------------------------------------
Init ==
    /\ stream = <<>>
    /\ cursor = 0
    /\ pending = {}
    /\ deliveries = [e \in Calls |-> 0]
    /\ idle = {}
    /\ dead = [e \in Calls |-> 0]
    /\ result = [r \in Requests |-> "none"]
    /\ pc = [t \in Tasks |-> IF t[2] = "process" THEN "read" ELSE "reclaim"]
    /\ cur = [t \in Tasks |-> NoCall]
    /\ out = [t \in Tasks |-> "none"]
    /\ todo = [g \in Replicas |-> {}]
    /\ retry = [g \in Replicas |-> {}]
    /\ call = [c \in Calls |-> "new"]
    /\ reply = [c \in Calls |-> "none"]
    /\ handlers = [g \in Replicas |-> {}]
    /\ stored = [e \in Calls |-> {}]
    /\ attempts = [e \in Calls |-> 0]
    /\ faults = 0

-----------------------------------------------------------------------------
(* The HTTP handler: queued_generate, enqueue and get_result.              *)

\* XADD, then the first sleep of the polling loop.  (The XLEN enqueue() does
\* for its log line reads only; its failure is a CallFault.)
Submit(c, g) ==
    /\ call[c] = "new"
    /\ Up(g)
    /\ stream' = Append(stream, c)
    /\ call' = [call EXCEPT ![c] = "polling"]
    /\ handlers' = [handlers EXCEPT ![g] = @ \cup {c}]
    /\ UNCHANGED <<cursor, pending, deliveries, idle, dead, result, reply>>
    /\ UNCHANGED <<taskVars, history>>

\* The handler ends: its response is on the way, whatever it is.
Return(c, status) ==
    /\ call' = [call EXCEPT ![c] = status]
    /\ handlers' = [g \in Replicas |-> handlers[g] \ {c}]

\* Mutant of FetchResult: get_result without its `if result`.
FetchUnchecked(c) ==
    /\ call[c] = "polling"
    /\ call' = [call EXCEPT ![c] = "fetched"]
    /\ reply' = [reply EXCEPT ![c] = result[RequestOf[c]]]
    /\ UNCHANGED <<redisVars, taskVars, handlers, history>>

\* GET of the result key found a value.
FetchResult(c) ==
    /\ call[c] = "polling"
    /\ result[RequestOf[c]] # "none"
    /\ call' = [call EXCEPT ![c] = "fetched"]
    /\ reply' = [reply EXCEPT ![c] = result[RequestOf[c]]]
    /\ UNCHANGED <<redisVars, taskVars, handlers, history>>

\* DELETE of the result key, a second round trip after the GET.
DeleteResult(c) ==
    /\ call[c] = "fetched"
    /\ result' = [result EXCEPT ![RequestOf[c]] = "none"]
    /\ Return(c, "answered")
    /\ UNCHANGED <<stream, cursor, pending, deliveries, idle, dead, reply>>
    /\ UNCHANGED <<taskVars, history>>

\* Mutant of GiveUp: a polling loop without an end.
PollForever(c) == FALSE /\ UNCHANGED vars

\* 240 polls found nothing: get_result returns None and the route answers 504.
GiveUp(c) ==
    /\ call[c] = "polling"
    /\ Return(c, "timeout")
    /\ UNCHANGED <<redisVars, taskVars, reply, history>>

\* A Redis command of the handler raises: the route fails with a 500.  The
\* command may have taken effect before its reply was lost.
CallFault(c) ==
    /\ faults < MaxFaults
    /\ call[c] \in {"polling", "fetched"}
    /\ \/ UNCHANGED result
       \/ call[c] = "fetched" /\ result' = [result EXCEPT ![RequestOf[c]] = "none"]
    /\ Return(c, "failed")
    /\ faults' = faults + 1
    /\ UNCHANGED <<stream, cursor, pending, deliveries, idle, dead, reply>>
    /\ UNCHANGED <<taskVars, stored, attempts>>

-----------------------------------------------------------------------------
(* The loops of WorkerPool.                                                *)

Goto(t, label, e) ==
    /\ pc' = [pc EXCEPT ![t] = label]
    /\ cur' = [cur EXCEPT ![t] = e]

\* Where the recovery task goes with T still to check and R still to process:
\* the list is checked to its end, oldest first, before anything in it is run.
Resume(g, T, R) ==
    /\ todo' = [todo EXCEPT ![g] = T]
    /\ retry' = [retry EXCEPT ![g] = R]
    /\ \/ \E e \in T : Earliest(e, T) /\ Goto(<<g, "recover">>, "check", e)
       \/ T = {} /\ \E e \in R : Earliest(e, R) /\ Goto(<<g, "recover">>, "dispatch", e)
       \/ T = {} /\ R = {} /\ Goto(<<g, "recover">>, "reclaim", NoCall)

\* XREADGROUP ... ">" with count=1: the oldest entry never delivered.
Read(g) ==
    LET t == <<g, "process">>
        e == stream[cursor + 1]
    IN  /\ pc[t] = "read"
        /\ cursor < Len(stream)
        /\ cursor' = cursor + 1
        /\ pending' = pending \cup {e}
        /\ deliveries' = [deliveries EXCEPT ![e] = @ + 1]
        /\ Goto(t, "dispatch", e)
        /\ UNCHANGED <<stream, idle, dead, result, out, todo, retry>>
        /\ UNCHANGED <<handlerVars, history>>

\* pick_worker found a worker: the turn is recorded in the workflow's context
\* and the request sent.
DispatchToWorker(t) ==
    /\ pc[t] = "dispatch"
    /\ attempts' = [attempts EXCEPT ![cur[t]] = @ + 1]
    /\ pc' = [pc EXCEPT ![t] = "calling"]
    /\ UNCHANGED <<redisVars, cur, out, todo, retry, handlerVars, stored, faults>>

\* pick_worker raised RuntimeError: that is the job's result.
DispatchNoWorker(t) ==
    /\ pc[t] = "dispatch"
    /\ out' = [out EXCEPT ![t] = "error"]
    /\ pc' = [pc EXCEPT ![t] = "store"]
    /\ UNCHANGED <<redisVars, cur, todo, retry, handlerVars, history>>

\* The worker answered, or the call raised RuntimeError (its timeout included).
CallReturns(t) ==
    /\ pc[t] = "calling"
    /\ \E o \in Outcomes : out' = [out EXCEPT ![t] = o]
    /\ pc' = [pc EXCEPT ![t] = "store"]
    /\ UNCHANGED <<redisVars, cur, todo, retry, handlerVars, history>>

\* SETEX of the result key, whatever it holds.
StoreResult(t) ==
    /\ pc[t] = "store"
    /\ result' = [result EXCEPT ![RequestOf[cur[t]]] = out[t]]
    /\ stored' = [stored EXCEPT ![cur[t]] = @ \cup {out[t]}]
    /\ pc' = [pc EXCEPT ![t] = "ack"]
    /\ out' = [out EXCEPT ![t] = "none"]
    /\ UNCHANGED <<stream, cursor, pending, deliveries, idle, dead>>
    /\ UNCHANGED <<cur, todo, retry, handlerVars, attempts, faults>>

\* Mutant of Acknowledge: XACK to a group that does not own the entry.
AcknowledgeElsewhere(e) == UNCHANGED redisVars

\* XACK takes the entry off the Pending Entries List, if it is still there.
Acknowledge(e) ==
    /\ pending' = pending \ {e}
    /\ idle' = idle \ {e}
    /\ UNCHANGED <<stream, cursor, deliveries, dead, result>>

\* Mutant of Ack: both loops go on with the process loop's read.
AckThenRead(t) ==
    /\ pc[t] = "ack"
    /\ Acknowledge(cur[t])
    /\ Goto(t, "read", NoCall)
    /\ UNCHANGED <<todo, retry, out, handlerVars, history>>

Ack(t) ==
    /\ pc[t] = "ack"
    /\ Acknowledge(cur[t])
    /\ \/ /\ t[2] = "process"
          /\ Goto(t, "read", NoCall)
          /\ UNCHANGED <<todo, retry>>
       \/ /\ t[2] = "recover"
          /\ Resume(t[1], {}, retry[t[1]] \ {cur[t]})
    /\ UNCHANGED <<out, handlerVars, history>>

-----------------------------------------------------------------------------
(* RetryPolicy.recover, called from the recovery loop.                     *)

\* Mutant of Reclaim: XAUTOCLAIM with a min_idle_time of 0.
ReclaimAnyPending(g) ==
    /\ pc[<<g, "recover">>] = "reclaim"
    /\ pending # {}
    /\ deliveries' = [e \in Calls |-> IF e \in pending THEN deliveries[e] + 1 ELSE deliveries[e]]
    /\ idle' = {}
    /\ Resume(g, pending, {})
    /\ UNCHANGED <<stream, cursor, pending, dead, result, out, handlerVars, history>>

\* Mutant of Reclaim: XAUTOCLAIM with JUSTID, which does not count the delivery.
ReclaimUncounted(g) ==
    /\ pc[<<g, "recover">>] = "reclaim"
    /\ idle # {}
    /\ idle' = {}
    /\ Resume(g, idle, {})
    /\ UNCHANGED <<stream, cursor, pending, deliveries, dead, result>>
    /\ UNCHANGED <<out, handlerVars, history>>

\* XAUTOCLAIM: every idle entry is delivered again, to this replica.
Reclaim(g) ==
    /\ pc[<<g, "recover">>] = "reclaim"
    /\ idle # {}
    /\ deliveries' = [e \in Calls |-> IF e \in idle THEN deliveries[e] + 1 ELSE deliveries[e]]
    /\ idle' = {}
    /\ Resume(g, idle, {})
    /\ UNCHANGED <<stream, cursor, pending, dead, result, out, handlerVars, history>>

\* _delivery_count: an entry that has meanwhile left the list counts 0.
DeliveryCount(e) == IF e \in pending THEN deliveries[e] ELSE 0

\* Mutant of CheckRetryable: the budget compared off by one.
CheckRetryableLate(g) ==
    LET e == cur[<<g, "recover">>]
    IN  /\ pc[<<g, "recover">>] = "check"
        /\ DeliveryCount(e) <= MaxRetries + 1
        /\ Resume(g, todo[g] \ {e}, retry[g] \cup {e})
        /\ UNCHANGED <<redisVars, out, handlerVars, history>>

CheckRetryable(g) ==
    LET e == cur[<<g, "recover">>]
    IN  /\ pc[<<g, "recover">>] = "check"
        /\ DeliveryCount(e) <= MaxRetries
        /\ Resume(g, todo[g] \ {e}, retry[g] \cup {e})
        /\ UNCHANGED <<redisVars, out, handlerVars, history>>

\* Mutant of CheckExhausted: >= in place of >.
CheckExhaustedEarly(g) ==
    LET t == <<g, "recover">>
    IN  /\ pc[t] = "check"
        /\ DeliveryCount(cur[t]) >= MaxRetries
        /\ pc' = [pc EXCEPT ![t] = "bury"]
        /\ UNCHANGED <<redisVars, cur, out, todo, retry, handlerVars, history>>

\* Mutant of CheckExhausted: the job is acked without a dead-letter entry.
CheckExhaustedDrop(g) ==
    LET t == <<g, "recover">>
    IN  /\ pc[t] = "check"
        /\ DeliveryCount(cur[t]) > MaxRetries
        /\ pc' = [pc EXCEPT ![t] = "buryack"]
        /\ UNCHANGED <<redisVars, cur, out, todo, retry, handlerVars, history>>

CheckExhausted(g) ==
    LET t == <<g, "recover">>
    IN  /\ pc[t] = "check"
        /\ DeliveryCount(cur[t]) > MaxRetries
        /\ pc' = [pc EXCEPT ![t] = "bury"]
        /\ UNCHANGED <<redisVars, cur, out, todo, retry, handlerVars, history>>

\* XADD to the dead-letter stream ...
AddDeadLetter(g) ==
    LET t == <<g, "recover">>
    IN  /\ pc[t] = "bury"
        /\ dead' = [dead EXCEPT ![cur[t]] = @ + 1]
        /\ pc' = [pc EXCEPT ![t] = "buryack"]
        /\ UNCHANGED <<stream, cursor, pending, deliveries, idle, result>>
        /\ UNCHANGED <<cur, out, todo, retry, handlerVars, history>>

\* ... and, in a second round trip, XACK of the job.
AckDeadLetter(g) ==
    LET e == cur[<<g, "recover">>]
    IN  /\ pc[<<g, "recover">>] = "buryack"
        /\ Acknowledge(e)
        /\ Resume(g, todo[g] \ {e}, retry[g])
        /\ UNCHANGED <<out, handlerVars, history>>

-----------------------------------------------------------------------------
(* Time, failures and restarts.                                            *)

\* min_idle_ms passes since the entry's last delivery.
IdleElapses(e) ==
    /\ e \in pending \ idle
    /\ IdleWhileHeld \/ ~Held(e)
    /\ idle' = idle \cup {e}
    /\ UNCHANGED <<stream, cursor, pending, deliveries, dead, result>>
    /\ UNCHANGED <<taskVars, handlerVars, history>>

\* The 300 s of a result key pass.  A polling call reads the key within half a
\* second, so it expires only when no call polls for it.
Expire(r) ==
    /\ result[r] # "none"
    /\ \A c \in Calls : RequestOf[c] = r => call[c] # "polling"
    /\ result' = [result EXCEPT ![r] = "none"]
    /\ UNCHANGED <<stream, cursor, pending, deliveries, idle, dead>>
    /\ UNCHANGED <<taskVars, handlerVars, history>>

\* Mutant of TaskFault: the job is acked on the way out, as in a finally clause.
TaskFaultAcks(t) ==
    /\ faults < MaxFaults
    /\ pc[t] \notin {"down", "read", "reclaim"}
    /\ Acknowledge(cur[t])
    /\ \/ /\ t[2] = "process"
          /\ Goto(t, "read", NoCall)
          /\ UNCHANGED <<todo, retry>>
       \/ /\ t[2] = "recover"
          /\ Resume(t[1], {}, {})
    /\ out' = [out EXCEPT ![t] = "none"]
    /\ faults' = faults + 1
    /\ UNCHANGED <<handlerVars, stored, attempts>>

\* An operation of a loop raises, or takes effect and loses its reply (then the
\* fault comes one step later).  The loop's `except Exception` drops the job,
\* and the recovery loop drops the rest of its list; nothing is acknowledged.
TaskFault(t) ==
    /\ faults < MaxFaults
    /\ pc[t] \notin {"down", "read", "reclaim"}
    /\ \/ /\ t[2] = "process"
          /\ Goto(t, "read", NoCall)
          /\ UNCHANGED <<todo, retry>>
       \/ /\ t[2] = "recover"
          /\ Resume(t[1], {}, {})
    /\ out' = [out EXCEPT ![t] = "none"]
    /\ faults' = faults + 1
    /\ UNCHANGED <<redisVars, handlerVars, stored, attempts>>

\* A replica is killed, or stopped: WorkerPool.stop() cancels both tasks where
\* they stand.  What Redis holds survives.
Crash(g) ==
    /\ faults < MaxFaults
    /\ Up(g)
    /\ pc' = [t \in Tasks |-> IF t[1] = g THEN "down" ELSE pc[t]]
    /\ cur' = [t \in Tasks |-> IF t[1] = g THEN NoCall ELSE cur[t]]
    /\ out' = [t \in Tasks |-> IF t[1] = g THEN "none" ELSE out[t]]
    /\ todo' = [todo EXCEPT ![g] = {}]
    /\ retry' = [retry EXCEPT ![g] = {}]
    /\ call' = [c \in Calls |-> IF c \in handlers[g] THEN "lost" ELSE call[c]]
    /\ handlers' = [handlers EXCEPT ![g] = {}]
    /\ faults' = faults + 1
    /\ UNCHANGED <<redisVars, reply, stored, attempts>>

\* Mutant of Restart: start() without the recovery task.
RestartWithoutRecovery(g) ==
    /\ ~Up(g)
    /\ pc' = [pc EXCEPT ![<<g, "process">>] = "read"]
    /\ UNCHANGED <<redisVars, cur, out, todo, retry, handlerVars, history>>

\* The orchestrator restarts the process; connect() finds the group it made.
Restart(g) ==
    /\ ~Up(g)
    /\ pc' = [pc EXCEPT ![<<g, "process">>] = "read", ![<<g, "recover">>] = "reclaim"]
    /\ UNCHANGED <<redisVars, cur, out, todo, retry, handlerVars, history>>

-----------------------------------------------------------------------------
HandlerStep(c) == FetchResult(c) \/ DeleteResult(c) \/ GiveUp(c)

\* A step both loops take with a job in hand.
JobStep(t) ==
    \/ DispatchToWorker(t) \/ DispatchNoWorker(t) \/ CallReturns(t)
    \/ StoreResult(t) \/ Ack(t)

ProcessStep(g) == Read(g) \/ JobStep(<<g, "process">>)

RecoverStep(g) ==
    \/ Reclaim(g) \/ CheckRetryable(g) \/ CheckExhausted(g)
    \/ AddDeadLetter(g) \/ AckDeadLetter(g)
    \/ JobStep(<<g, "recover">>)

Next ==
    \/ \E c \in Calls : HandlerStep(c) \/ CallFault(c) \/ IdleElapses(c)
    \/ \E c \in Calls, g \in Replicas : Submit(c, g)
    \/ \E g \in Replicas : ProcessStep(g) \/ RecoverStep(g) \/ Crash(g) \/ Restart(g)
    \/ \E t \in Tasks : TaskFault(t)
    \/ \E r \in Requests : Expire(r)

Spec == Init /\ [][Next]_vars

\* The event loop schedules every ready coroutine, time passes, and a replica
\* that went down is started again.  Nothing obliges a client to call, a fault
\* to happen or a result key to be read.
Fairness ==
    /\ \A c \in Calls : WF_vars(HandlerStep(c)) /\ WF_vars(IdleElapses(c))
    /\ \A g \in Replicas :
          WF_vars(ProcessStep(g)) /\ WF_vars(RecoverStep(g)) /\ WF_vars(Restart(g))

FairSpec == Spec /\ Fairness

-----------------------------------------------------------------------------
(* Type correctness.                                                       *)

\* Every variable has its type; a loop is only where its own code can be.
TypeOK ==
    /\ stream \in Seq(Calls)
    /\ cursor \in 0 .. Len(stream)
    /\ pending \in SUBSET Calls
    /\ deliveries \in [Calls -> Nat]
    /\ idle \in SUBSET Calls
    /\ dead \in [Calls -> Nat]
    /\ result \in [Requests -> Outcomes \cup {"none"}]
    /\ pc \in [Tasks -> ProcessPc \cup RecoverPc]
    /\ \A g \in Replicas : /\ pc[<<g, "process">>] \in ProcessPc
                           /\ pc[<<g, "recover">>] \in RecoverPc
    /\ cur \in [Tasks -> Calls \cup {NoCall}]
    /\ out \in [Tasks -> Outcomes \cup {"none"}]
    /\ todo \in [Replicas -> SUBSET Calls]
    /\ retry \in [Replicas -> SUBSET Calls]
    /\ call \in [Calls -> {"new", "polling", "fetched", "answered",
                           "timeout", "failed", "lost"}]
    /\ reply \in [Calls -> Outcomes \cup {"none"}]
    /\ handlers \in [Replicas -> SUBSET Calls]
    /\ stored \in [Calls -> SUBSET Outcomes]
    /\ attempts \in [Calls -> Nat]
    /\ faults \in 0 .. MaxFaults
-----------------------------------------------------------------------------
(* Safety.                                                                 *)

\* A job the group has delivered is still pending, or something has come of it:
\* no crash, lost reply or race between replicas makes a job vanish.
NoJobLost == \A e \in Delivered : e \in pending \/ stored[e] # {} \/ dead[e] > 0

\* recover() buries only what was delivered more often than MaxRetries allows,
\* though it counts in one round trip and adds to the stream in a later one.
DeadOnlyAfterBudget == \A e \in Calls : dead[e] > 0 => deliveries[e] > MaxRetries

\* A job is sent to a worker at most once per delivery.
AttemptsWithinDeliveries == \A e \in Calls : attempts[e] <= deliveries[e]

\* However slow the attempts and however many replicas reclaim them, a job is
\* sent to a worker a bounded number of times: the budget, and one attempt more
\* for each replica whose count came back 0 because the job had just been acked.
RetryBudget ==
    \A e \in Calls :
        attempts[e] <= (IF MaxRetries = 0 THEN 1 ELSE MaxRetries) + Cardinality(Replicas)

\* The answer a call gets is a result some job with its request id produced.
AnswerIsGenuine ==
    \A c \in Calls : call[c] \in {"fetched", "answered"} =>
        \E e \in Delivered : RequestOf[e] = RequestOf[c] /\ reply[c] \in stored[e]

\* When the idle threshold outlasts an attempt, two loops never hold one job.
OneHolder ==
    ~IdleWhileHeld =>
        \A t, u \in Tasks : t # u /\ cur[t] = cur[u] => cur[t] = NoCall

\* When the idle threshold outlasts an attempt, a job is sent to a worker again
\* only because of a crash or a failed operation; without one, exactly once.
RepeatsArePaidByFaults ==
    ~IdleWhileHeld => \A e \in Calls : attempts[e] <= 1 + faults

-----------------------------------------------------------------------------
(* What the repository says and the code does not do.                      *)

\* tests/test_worker_pool.py: replicas that share a group "must process each job
\* exactly once".
ProcessedAtMostOnce == \A e \in Calls : attempts[e] <= 1

-----------------------------------------------------------------------------
(* Liveness, under FairSpec.                                               *)

\* Once faults stop (there are at most MaxFaults), every job that reached the
\* stream is delivered and leaves the pending list for good, whoever crashed.
EveryJobSettles ==
    \A c \in Calls :
        call[c] # "new" ~> [](c \in Delivered \ pending)

\* Every HTTP call returns: with an answer, a 504 or a 500, or with its gateway.
EveryCallReturns ==
    \A c \in Calls :
        call[c] = "polling" ~> call[c] \in {"answered", "timeout", "failed", "lost"}

-----------------------------------------------------------------------------
(* Refinement of ReliableDelivery.                                         *)

Promise == INSTANCE ReliableDelivery WITH
    Jobs <- Calls,
    Results <- Outcomes,
    accepted <- {stream[i] : i \in 1 .. Len(stream)},
    outcomes <- [e \in Calls |-> stored[e] \cup (IF dead[e] > 0 THEN {"dead"} ELSE {})],
    settled <- Delivered \ pending

\* The queue keeps every promise of ReliableDelivery, its safety part ...
KeepsPromise == Promise!Spec

\* ... and, under FairSpec, its liveness part.
KeepsPromiseFairly == Promise!FairSpec
=============================================================================

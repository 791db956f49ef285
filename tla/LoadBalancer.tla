---------------------------- MODULE LoadBalancer ----------------------------
(***************************************************************************)
(* The load balancer of one gateway process: the workers it knows, their   *)
(* circuit breakers and health flags, the requests in flight, and the      *)
(* health checks that run beside them.                                     *)
(*                                                                         *)
(* One event loop: an action is a stretch of a coroutine without an await. *)
(* A client is one OllamaClient object, named by its URL and by its place  *)
(* in the order in which the objects were built, which is also its place   *)
(* in LoadBalancer.workers.  A breaker belongs to a URL, so a request to a *)
(* client that was removed reports to whatever breaker the URL has then.   *)
(***************************************************************************)
EXTENDS Naturals, Sequences, FiniteSets

CONSTANTS
    Urls,           \* worker URLs
    Configured,     \* WORKER_URLS, in order
    MaxBuilt,       \* bound: clients ever built
    Requests,       \* request slots: how many requests may be in flight
    Oversized,      \* slots whose requests exceed WORKER_MAX_CONTEXT_TOKENS
    Probers,        \* coroutines that check the health of workers: the loop, a
                    \* route, the autoscaler
    Scaler,         \* the autoscaler among them, if it is one
    Threshold,      \* CIRCUIT_BREAKER_THRESHOLD
    MaxGlitches,    \* bound: failures of a worker that is up
    Strategy,       \* ROUTING_STRATEGY
    Cycle,          \* a common multiple of the possible numbers of workers
    NoClient        \* the absence of a client

ASSUME ConstantsOK ==
    /\ Configured \in Seq(Urls)
    /\ \A i, j \in 1 .. Len(Configured) : Configured[i] = Configured[j] => i = j
    /\ MaxBuilt \in Nat /\ Len(Configured) <= MaxBuilt
    /\ Oversized \subseteq Requests
    /\ IsFiniteSet(Requests)
    /\ Threshold \in Nat \ {0}
    /\ MaxGlitches \in Nat
    /\ Strategy \in {"round_robin", "least_latency", "queue_depth"}
    /\ Cycle \in Nat \ {0}
    /\ \A n \in 1 .. MaxBuilt : Cycle % n = 0

Clients == Urls \X (1 .. MaxBuilt)

ASSUME NoClientOK == NoClient \notin Clients

UrlOf(c) == c[1]

VARIABLES
    workers,    \* LoadBalancer.workers
    built,      \* how many clients were built so far
    breaker,    \* LoadBalancer.breakers, NoBreaker for a URL without one
    rr,         \* _rr_index, of which only the rest modulo a length is used
    healthy,    \* stats.is_healthy
    active,     \* stats.active_requests
    gauge,      \* WORKER_ACTIVE_REQUESTS, labelled by URL
    served,     \* has stats.total_requests left 0?
    status,     \* the state of each slot: its request, or the last response
    at,         \* the client a slot's request was sent to
    probe,      \* the health check each prober has under way for each client
    up,         \* does the worker answer?
    glitches    \* failures of workers that were up, so far

poolVars  == <<workers, built, rr>>
statVars  == <<healthy, active, gauge, served>>
slotVars  == <<status, at>>
worldVars == <<up, glitches>>
vars      == <<poolVars, breaker, statVars, slotVars, probe, worldVars>>

Final == {"none", "ok", "failed", "crashed", "no_worker", "no_capacity"}

BreakerStates == {"closed", "open", "half_open"}
NoBreaker == [state |-> "none", failures |-> 0, cooled |-> FALSE]
NewBreaker == [state |-> "closed", failures |-> 0, cooled |-> FALSE]

Registered == {UrlOf(c) : c \in workers}
HasBreaker(u) == breaker[u] # NoBreaker

InFlight(c) == {r \in Requests : status[r] = "calling" /\ at[r] = c}
InFlightTo(u) == {r \in Requests : status[r] = "calling" /\ UrlOf(at[r]) = u}

-----------------------------------------------------------------------------
(* CircuitBreaker.  `failures` saturates at Threshold, the only bound it is *)
(* compared with; `cooled` says that CIRCUIT_BREAKER_TIMEOUT seconds passed *)
(* since the last failure, which is asked in the OPEN state only.           *)

\* Mutant of Blocks: the cooldown is never looked at.
BlocksForGood(b) == b.state = "open"

\* is_open(), its return value ...
Blocks(b) == b.state = "open" /\ ~b.cooled

\* Mutant of Asked: half-opening starts a new count.
AskedAfresh(b) ==
    IF b.state = "open" /\ b.cooled
    THEN [state |-> "half_open", failures |-> 0, cooled |-> FALSE]
    ELSE b

\* ... and what asking does to the breaker.
Asked(b) ==
    IF b.state = "open" /\ b.cooled
    THEN [b EXCEPT !.state = "half_open", !.cooled = FALSE]
    ELSE b

\* Mutant of AfterSuccess: the failure count is not reset.
AfterSuccessKeepCount(b) == [b EXCEPT !.state = "closed", !.cooled = FALSE]

AfterSuccess(b) == NewBreaker

AfterFailure(b) ==
    LET n == IF b.failures < Threshold THEN b.failures + 1 ELSE Threshold
    IN  [state |-> IF n >= Threshold THEN "open" ELSE b.state,
         failures |-> n, cooled |-> FALSE]

-----------------------------------------------------------------------------
Init ==
    /\ workers = {<<Configured[i], i>> : i \in 1 .. Len(Configured)}
    /\ built = Len(Configured)
    /\ breaker = [u \in Urls |-> IF u \in Registered THEN NewBreaker ELSE NoBreaker]
    /\ rr = 0
    /\ healthy = [c \in Clients |-> TRUE]
    /\ active = [c \in Clients |-> 0]
    /\ gauge = [u \in Urls |-> 0]
    /\ served = [c \in Clients |-> FALSE]
    /\ status = [r \in Requests |-> "none"]
    /\ at = [r \in Requests |-> NoClient]
    /\ probe = [p \in Probers |-> [c \in Clients |-> "none"]]
    /\ up \in [Urls -> BOOLEAN]
    /\ glitches = 0

-----------------------------------------------------------------------------
(* pick_worker and the call that follows it.                               *)

\* _available_workers: is_open() is asked for every worker flagged healthy,
\* and for no other ...
Candidates == {c \in workers : healthy[c]}
Polled == [u \in Urls |->
    IF u \in {UrlOf(c) : c \in Candidates} THEN Asked(breaker[u]) ELSE breaker[u]]

\* ... and those that do not block are available.
Available == {c \in Candidates : ~Blocks(breaker[UrlOf(c)])}

Rank(c, S) == Cardinality({d \in S : d[2] < c[2]})
First(S) == {c \in S : \A d \in S : c[2] <= d[2]}

\* A worker that never succeeded has the least latency, 0; the latencies of
\* the others may order them in any way.
Fastest(S) == IF \A c \in S : served[c] THEN S ELSE First({c \in S : ~served[c]})

LeastBusy(S) == First({c \in S : \A d \in S : active[c] <= active[d]})

Picks(S) ==
    CASE Strategy = "round_robin"   -> {c \in S : Rank(c, S) = rr % Cardinality(S)}
      [] Strategy = "least_latency" -> Fastest(S)
      [] Strategy = "queue_depth"   -> LeastBusy(S)

\* A route, a loop of the worker pool or the summarizer gets a worker and sends
\* the request; up to there it does not await.
Dispatch(r) ==
    /\ status[r] # "calling"
    /\ r \notin Oversized
    /\ \E c \in Picks(Available) :
          /\ at' = [at EXCEPT ![r] = c]
          /\ active' = [active EXCEPT ![c] = @ + 1]
          /\ gauge' = [gauge EXCEPT ![UrlOf(c)] = @ + 1]
    /\ status' = [status EXCEPT ![r] = "calling"]
    /\ rr' = IF Strategy = "round_robin" THEN (rr + 1) % Cycle ELSE rr
    /\ breaker' = Polled
    /\ UNCHANGED <<workers, built, healthy, served, probe, worldVars>>

\* No worker, or none with the capacity: RuntimeError, NoCapacityError.
Reject(r) ==
    /\ status[r] # "calling"
    /\ Available = {} \/ r \in Oversized
    /\ status' = [status EXCEPT ![r] = IF Available = {} THEN "no_worker" ELSE "no_capacity"]
    /\ breaker' = Polled
    /\ UNCHANGED <<poolVars, statVars, at, probe, worldVars>>

\* Mutant of Leave: active_requests goes down only when the call succeeds.
LeaveOnSuccess(r, verdict) ==
    LET c == at[r]
    IN  /\ active' = IF verdict = "ok" THEN [active EXCEPT ![c] = @ - 1] ELSE active
        /\ gauge' = [gauge EXCEPT ![UrlOf(c)] = @ - 1]
        /\ at' = [at EXCEPT ![r] = NoClient]

\* Mutant of Leave: a failed call is counted out in its handler and again in
\* the `finally`.
LeaveTwice(r, verdict) ==
    LET c == at[r]
        n == IF verdict = "ok" THEN 1 ELSE 2
    IN  /\ active' = [active EXCEPT ![c] = @ - n]
        /\ gauge' = [gauge EXCEPT ![UrlOf(c)] = @ - n]
        /\ at' = [at EXCEPT ![r] = NoClient]

\* The `finally` of generate() and chat(): the request has left the worker.
Leave(r, verdict) ==
    LET c == at[r]
    IN  /\ active' = [active EXCEPT ![c] = @ - 1]
        /\ gauge' = [gauge EXCEPT ![UrlOf(c)] = @ - 1]
        /\ at' = [at EXCEPT ![r] = NoClient]

\* The worker answers; record_success raises KeyError when the worker was
\* removed meanwhile, which no handler catches.
Succeed(r) ==
    LET u == UrlOf(at[r])
    IN  /\ status[r] = "calling"
        /\ up[u]
        /\ Leave(r, "ok")
        /\ served' = [served EXCEPT ![at[r]] = TRUE]
        /\ status' = [status EXCEPT ![r] = IF HasBreaker(u) THEN "ok" ELSE "crashed"]
        /\ breaker' = IF HasBreaker(u)
                      THEN [breaker EXCEPT ![u] = AfterSuccess(@)] ELSE breaker
        /\ UNCHANGED <<poolVars, healthy, probe, worldVars>>

\* A failure of worker u: it is down, or it is up and fails all the same.
Glitch(u) ==
    \/ ~up[u] /\ UNCHANGED glitches
    \/ up[u] /\ glitches < MaxGlitches /\ glitches' = glitches + 1

\* The call raises; record_failure may raise KeyError in the handler.
Fail(r) ==
    LET u == UrlOf(at[r])
    IN  /\ status[r] = "calling"
        /\ Glitch(u)
        /\ Leave(r, "error")
        /\ status' = [status EXCEPT ![r] = IF HasBreaker(u) THEN "failed" ELSE "crashed"]
        /\ breaker' = IF HasBreaker(u)
                      THEN [breaker EXCEPT ![u] = AfterFailure(@)] ELSE breaker
        /\ UNCHANGED <<poolVars, healthy, served, probe, up>>

-----------------------------------------------------------------------------
(* The autoscaler adds and removes workers.                                *)

\* In static mode the autoscaler checks the health of a worker it has added.
AddWorker(u) ==
    /\ u \notin Registered
    /\ built < MaxBuilt
    /\ built' = built + 1
    /\ workers' = workers \cup {<<u, built + 1>>}
    /\ breaker' = [breaker EXCEPT ![u] = NewBreaker]
    /\ \/ UNCHANGED probe
       \/ Scaler \in Probers /\ probe' = [probe EXCEPT ![Scaler][<<u, built + 1>>] = "sent"]
    /\ UNCHANGED <<rr, statVars, slotVars, worldVars>>

\* Mutant of RemoveWorker: only the breaker is dropped.
RemoveBreakerOnly(u) ==
    /\ u \in Registered
    /\ breaker' = [breaker EXCEPT ![u] = NoBreaker]
    /\ UNCHANGED <<poolVars, statVars, slotVars, probe, worldVars>>

RemoveWorker(u) ==
    /\ u \in Registered
    /\ workers' = {c \in workers : UrlOf(c) # u}
    /\ breaker' = [breaker EXCEPT ![u] = NoBreaker]
    /\ UNCHANGED <<built, rr, statVars, slotVars, probe, worldVars>>

-----------------------------------------------------------------------------
(* health_check_all: all workers are probed at once, the round ends with   *)
(* the last of them.                                                       *)

RoundOver(p) == \A c \in Clients : probe[p][c] = "none"

StartRound(p) ==
    /\ p # Scaler
    /\ RoundOver(p)
    /\ workers # {}
    /\ probe' = [probe EXCEPT ![p] =
                    [c \in Clients |-> IF c \in workers THEN "sent" ELSE "none"]]
    /\ UNCHANGED <<poolVars, breaker, statVars, slotVars, worldVars>>

\* The worker answers, fails or does not answer in time ...
Answer(p, c) ==
    /\ probe[p][c] = "sent"
    /\ \/ /\ up[UrlOf(c)]
          /\ probe' = [probe EXCEPT ![p][c] = "up"]
          /\ UNCHANGED glitches
       \/ /\ Glitch(UrlOf(c))
          /\ probe' = [probe EXCEPT ![p][c] = "down"]
    /\ UNCHANGED <<poolVars, breaker, statVars, slotVars, up>>

\* Mutant of Land: a worker is only ever marked unhealthy.
LandFailures(p, c) ==
    /\ probe[p][c] \in {"up", "down"}
    /\ healthy' = [healthy EXCEPT ![c] = @ /\ probe[p][c] = "up"]
    /\ probe' = [probe EXCEPT ![p][c] = "none"]
    /\ UNCHANGED <<poolVars, breaker, active, gauge, served, slotVars, worldVars>>

\* ... and later the coroutine resumes and writes the flag, whatever another
\* prober has written there since.
Land(p, c) ==
    /\ probe[p][c] \in {"up", "down"}
    /\ healthy' = [healthy EXCEPT ![c] = probe[p][c] = "up"]
    /\ probe' = [probe EXCEPT ![p][c] = "none"]
    /\ UNCHANGED <<poolVars, breaker, active, gauge, served, slotVars, worldVars>>

-----------------------------------------------------------------------------
(* The world.                                                              *)

\* A worker machine stops or comes back.
Flip(u) ==
    /\ up' = [up EXCEPT ![u] = ~@]
    /\ UNCHANGED <<poolVars, breaker, statVars, slotVars, probe, glitches>>

\* CIRCUIT_BREAKER_TIMEOUT seconds without a failure pass.
Cool(u) ==
    /\ Blocks(breaker[u])
    /\ breaker' = [breaker EXCEPT ![u].cooled = TRUE]
    /\ UNCHANGED <<poolVars, statVars, slotVars, probe, worldVars>>

Scaling == \E u \in Urls : AddWorker(u) \/ RemoveWorker(u)

Serving ==
    \/ \E r \in Requests : Dispatch(r) \/ Reject(r) \/ Succeed(r) \/ Fail(r)
    \/ \E u \in Urls : Flip(u) \/ Cool(u)
    \/ \E p \in Probers : StartRound(p) \/ \E c \in Clients : Answer(p, c)

HealthChecked == \E p \in Probers, c \in Clients : Land(p, c)

Next == Serving \/ HealthChecked \/ Scaling

Spec == Init /\ [][Next]_vars

\* Calls and probes have timeouts, the health checker loops for ever, time
\* passes.  Nothing obliges a client to send a request, a worker to stay up, or
\* the autoscaler to act.
Fairness ==
    /\ \A r \in Requests : WF_vars(Succeed(r) \/ Fail(r))
    /\ \A u \in Urls : WF_vars(Cool(u))
    /\ \A p \in Probers :
          /\ WF_vars(StartRound(p))
          /\ \A c \in Clients : WF_vars(Answer(p, c)) /\ WF_vars(Land(p, c))

FairSpec == Spec /\ Fairness

-----------------------------------------------------------------------------
(* Safety.                                                                 *)

\* Every variable has its type.
TypeOK ==
    /\ workers \in SUBSET Clients
    /\ built \in 0 .. MaxBuilt
    /\ breaker \in [Urls -> [state : BreakerStates \cup {"none"},
                             failures : 0 .. Threshold, cooled : BOOLEAN]]
    /\ rr \in 0 .. Cycle - 1
    /\ healthy \in [Clients -> BOOLEAN]
    /\ active \in [Clients -> Nat]
    /\ gauge \in [Urls -> Nat]
    /\ served \in [Clients -> BOOLEAN]
    /\ status \in [Requests -> Final \cup {"calling"}]
    /\ at \in [Requests -> Clients \cup {NoClient}]
    /\ probe \in [Probers -> [Clients -> {"none", "sent", "up", "down"}]]
    /\ up \in [Urls -> BOOLEAN]
    /\ glitches \in 0 .. MaxGlitches

\* Every worker has a breaker and every breaker a worker, whatever the
\* autoscaler adds and removes: without it pick_worker, GET /workers and the
\* health checker, whose loop has no handler, would die of a KeyError.
WorkersHaveBreakers ==
    /\ \A u \in Urls : HasBreaker(u) <=> u \in Registered
    /\ \A c, d \in workers : UrlOf(c) = UrlOf(d) => c = d

\* A breaker is CLOSED just while its count of consecutive failures is below
\* the threshold, late answers, half-opening and re-registration included.
ClosedBelowThreshold ==
    \A u \in Urls : HasBreaker(u) =>
        (breaker[u].state = "closed" <=> breaker[u].failures < Threshold)

\* active_requests counts a client's requests in flight, and the gauge those of
\* its URL, even after the client was removed and another one built for the URL.
ActiveIsInFlight ==
    /\ \A c \in Clients : active[c] = Cardinality(InFlight(c))
    /\ \A u \in Urls : gauge[u] = Cardinality(InFlightTo(u))

\* One failure in HALF_OPEN re-opens the breaker: nothing in the code says so,
\* it follows from the failure count, which half-opening must not reset.
HalfOpenFailureReopens ==
    [][\A r \in Requests :
          status[r] = "calling" /\ status'[r] = "failed"
            /\ breaker[UrlOf(at[r])].state = "half_open"
          => Blocks(breaker'[UrlOf(at[r])])]_vars

-----------------------------------------------------------------------------
(* What the repository says and the code does not do.                      *)

\* docs/architecture.md: "on success the result is returned", "on failure the
\* circuit breaker is notified and a 503 is returned".
EveryCallGetsItsResponse == \A r \in Requests : status[r] # "crashed"

-----------------------------------------------------------------------------
(* Liveness, under FairSpec.                                               *)

Stays(c, b) == <>[](c \in workers /\ up[UrlOf(c)] = b)

\* The flag of a worker that stays up ends up set for good, and that of one that
\* stays down cleared, though overlapping rounds may write it out of order.
HealthConverges ==
    \A c \in Clients : \A b \in BOOLEAN : Stays(c, b) => <>[](healthy[c] = b)

\* A worker that stays up becomes available again, whatever failed before.
RecoveredWorkerServes ==
    \A c \in Clients : Stays(c, TRUE) => []<>(c \in Available)
=============================================================================

------------------------- MODULE LoadBalancerProofs -------------------------
(***************************************************************************)
(* Proofs about LoadBalancer, for every set of worker URLs, any number of  *)
(* clients, requests and probers, every threshold and routing strategy.    *)
(***************************************************************************)
EXTENDS LoadBalancer, FiniteSetTheorems, TLAPS

USE ConstantsOK, NoClientOK

-----------------------------------------------------------------------------
(* The inductive invariant.                                                *)

BreakerType == [state : BreakerStates \cup {"none"}, failures : 0 .. Threshold, cooled : BOOLEAN]

\* What a breaker promises by itself.
Sound(b) ==
    /\ b \in BreakerType
    /\ b.state = "none" <=> b = NoBreaker
    /\ b # NoBreaker => (b.state = "closed" <=> b.failures < Threshold)

BreakersSound == \A u \in Urls : Sound(breaker[u])

\* A request in flight is at a client.
CallsHaveClients == \A r \in Requests : status[r] = "calling" => at[r] \in Clients

IInv ==
    /\ TypeOK
    /\ BreakersSound
    /\ WorkersHaveBreakers
    /\ CallsHaveClients
    /\ ActiveIsInFlight

-----------------------------------------------------------------------------
(* Breakers one at a time.                                                 *)

\* A new breaker is sound, and so is the absence of one.
LEMMA NewSound == Sound(NewBreaker) /\ Sound(NoBreaker) /\ NewBreaker # NoBreaker
BY DEF Sound, BreakerType, BreakerStates, NewBreaker, NoBreaker

\* Asking a breaker whether it is open makes no breaker and unmakes none.
LEMMA AskedSound ==
    ASSUME NEW b, Sound(b)
    PROVE  Sound(Asked(b)) /\ (Asked(b) = NoBreaker <=> b = NoBreaker)
BY DEF Asked, Sound, BreakerType, BreakerStates, NoBreaker

\* A failure counts towards the threshold, and opens the breaker there.
LEMMA FailedSound ==
    ASSUME NEW b, Sound(b), b # NoBreaker
    PROVE  Sound(AfterFailure(b)) /\ AfterFailure(b) # NoBreaker
BY DEF AfterFailure, Sound, BreakerType, BreakerStates, NoBreaker

\* The passing of time leaves the state and the count alone.
LEMMA CooledSound ==
    ASSUME NEW b, Sound(b), Blocks(b)
    PROVE  Sound([b EXCEPT !.cooled = TRUE]) /\ [b EXCEPT !.cooled = TRUE] # NoBreaker
BY DEF Blocks, Sound, BreakerType, BreakerStates, NoBreaker

\* Every step keeps the breakers sound and matched with the workers.
LEMMA BreakerStep ==
    ASSUME TypeOK, BreakersSound, WorkersHaveBreakers, CallsHaveClients, [Next]_vars
    PROVE  breaker' \in [Urls -> BreakerType] /\ BreakersSound' /\ WorkersHaveBreakers'
<1> DEFINE Kept(u) == Sound(breaker'[u]) /\ (breaker'[u] = NoBreaker <=> breaker[u] = NoBreaker)
           Goal == breaker' \in [Urls -> BreakerType] /\ BreakersSound' /\ WorkersHaveBreakers'
<1>1. breaker \in [Urls -> BreakerType] /\ \A u \in Urls : Sound(breaker[u])
  BY DEF TypeOK, BreakerType, BreakersSound
<1>2. ASSUME workers' = workers, breaker' \in [Urls -> BreakerType], \A u \in Urls : Kept(u)
      PROVE  Goal
  BY <1>2 DEF BreakersSound, WorkersHaveBreakers, HasBreaker, Registered
<1>3. CASE UNCHANGED <<workers, breaker>>
  BY <1>1, <1>2, <1>3
<1>4. CASE workers' = workers /\ breaker' = Polled
  <2>1. \A u \in Urls : Kept(u)
    BY <1>1, <1>4, AskedSound DEF Polled
  <2> QED
    BY <1>2, <1>4, <2>1 DEF Polled, Sound
<1>5. ASSUME NEW u \in Urls, NEW b, workers' = workers, breaker' = [breaker EXCEPT ![u] = b],
             Sound(b), b = NoBreaker <=> breaker[u] = NoBreaker
      PROVE  Goal
  <2>1. breaker' \in [Urls -> BreakerType] /\ \A v \in Urls : Kept(v)
    BY <1>1, <1>5 DEF Sound
  <2> QED
    BY <1>2, <1>5, <2>1
<1>6. ASSUME NEW r \in Requests, Dispatch(r) \/ Reject(r)
      PROVE  Goal
  BY <1>4, <1>6 DEF Dispatch, Reject, poolVars
<1>7. ASSUME NEW r \in Requests, Succeed(r)
      PROVE  Goal
  <2>1. UrlOf(at[r]) \in Urls /\ workers' = workers
    BY <1>7 DEF Succeed, CallsHaveClients, Clients, UrlOf, poolVars
  <2>2. CASE HasBreaker(UrlOf(at[r]))
    BY <1>5, <1>7, <2>1, <2>2, NewSound DEF Succeed, AfterSuccess, HasBreaker
  <2>3. CASE ~HasBreaker(UrlOf(at[r]))
    BY <1>3, <1>7, <2>1, <2>3 DEF Succeed
  <2> QED
    BY <2>2, <2>3
<1>8. ASSUME NEW r \in Requests, Fail(r)
      PROVE  Goal
  <2>1. UrlOf(at[r]) \in Urls /\ workers' = workers
    BY <1>8 DEF Fail, CallsHaveClients, Clients, UrlOf, poolVars
  <2>2. CASE HasBreaker(UrlOf(at[r]))
    BY <1>1, <1>5, <1>8, <2>1, <2>2, FailedSound DEF Fail, HasBreaker
  <2>3. CASE ~HasBreaker(UrlOf(at[r]))
    BY <1>3, <1>8, <2>1, <2>3 DEF Fail
  <2> QED
    BY <2>2, <2>3
<1>9. ASSUME NEW u \in Urls, AddWorker(u)
      PROVE  Goal
  <2>1. breaker' \in [Urls -> BreakerType] /\ BreakersSound'
    BY <1>1, <1>9, NewSound DEF AddWorker, BreakersSound, Sound
  <2>2. Registered' = Registered \cup {u}
    <3>1. workers' = workers \cup {<<u, built + 1>>} /\ UrlOf(<<u, built + 1>>) = u
      BY <1>9 DEF AddWorker, UrlOf
    <3> QED
      BY <3>1 DEF Registered
  <2>3. \A v \in Urls : HasBreaker(v)' <=> v \in Registered'
    BY <1>1, <1>9, <2>2, NewSound DEF AddWorker, HasBreaker, WorkersHaveBreakers
  <2>4. \A c, d \in workers' : UrlOf(c) = UrlOf(d) => c = d
    BY <1>9 DEF AddWorker, Registered, UrlOf, WorkersHaveBreakers
  <2> QED
    BY <2>1, <2>3, <2>4 DEF WorkersHaveBreakers
<1>10. ASSUME NEW u \in Urls, RemoveWorker(u)
       PROVE  Goal
  <2>1. breaker' \in [Urls -> BreakerType] /\ BreakersSound'
    BY <1>1, <1>10, NewSound DEF RemoveWorker, BreakersSound, Sound
  <2>2. Registered' = Registered \ {u}
    BY <1>10 DEF RemoveWorker, Registered
  <2>3. \A v \in Urls : HasBreaker(v)' <=> v \in Registered'
    BY <1>1, <1>10, <2>2 DEF RemoveWorker, HasBreaker, WorkersHaveBreakers
  <2>4. \A c, d \in workers' : UrlOf(c) = UrlOf(d) => c = d
    BY <1>10 DEF RemoveWorker, WorkersHaveBreakers
  <2> QED
    BY <2>1, <2>3, <2>4 DEF WorkersHaveBreakers
<1>11. ASSUME NEW u \in Urls, Cool(u)
       PROVE  Goal
  <2>1. workers' = workers /\ breaker' = [breaker EXCEPT ![u] = [@ EXCEPT !.cooled = TRUE]]
    BY <1>11 DEF Cool, poolVars
  <2>2. Sound(breaker[u]) /\ Blocks(breaker[u]) /\ breaker[u] # NoBreaker
    BY <1>1, <1>11 DEF Cool, Blocks, NoBreaker
  <2> QED
    BY <1>1, <1>5, <2>1, <2>2, CooledSound
<1>12. ASSUME NEW u \in Urls, Flip(u)
       PROVE  Goal
  BY <1>3, <1>12 DEF Flip, poolVars
<1>13. ASSUME NEW p \in Probers,
              StartRound(p) \/ \E c \in Clients : Answer(p, c) \/ Land(p, c)
       PROVE  Goal
  BY <1>3, <1>13 DEF StartRound, Answer, Land, poolVars
<1>14. CASE UNCHANGED vars
  BY <1>3, <1>14 DEF vars, poolVars
<1> QED
  BY <1>6, <1>7, <1>8, <1>9, <1>10, <1>11, <1>12, <1>13, <1>14 DEF Next, Serving, HealthChecked, Scaling

-----------------------------------------------------------------------------
(* Requests in flight.                                                     *)

\* There are finitely many requests in flight.
LEMMA FlightFinite ==
    /\ \A c \in Clients : IsFiniteSet(InFlight(c)) /\ Cardinality(InFlight(c)) \in Nat
    /\ \A u \in Urls : IsFiniteSet(InFlightTo(u)) /\ Cardinality(InFlightTo(u)) \in Nat
BY FS_Subset, FS_CardinalityType DEF InFlight, InFlightTo

\* A request that is sent joins those of its client and of its client's URL.
LEMMA JoinCounts ==
    ASSUME TypeOK, CallsHaveClients, ActiveIsInFlight,
           NEW r \in Requests, status[r] # "calling", NEW c \in Clients,
           status' = [status EXCEPT ![r] = "calling"],
           at' = [at EXCEPT ![r] = c],
           active' = [active EXCEPT ![c] = @ + 1],
           gauge' = [gauge EXCEPT ![UrlOf(c)] = @ + 1]
    PROVE  /\ active' \in [Clients -> Nat] /\ gauge' \in [Urls -> Nat]
           /\ ActiveIsInFlight'
<1>1. active' \in [Clients -> Nat] /\ gauge' \in [Urls -> Nat] /\ UrlOf(c) \in Urls
  BY DEF TypeOK, UrlOf, Clients
<1>2. ASSUME NEW d \in Clients
      PROVE  active'[d] = Cardinality(InFlight(d)')
  <2>1. InFlight(d)' = IF d = c THEN InFlight(d) \cup {r} ELSE InFlight(d)
    BY DEF TypeOK, InFlight
  <2>2. r \notin InFlight(d) /\ active[d] = Cardinality(InFlight(d))
    BY DEF InFlight, ActiveIsInFlight
  <2>3. Cardinality(InFlight(d) \cup {r}) = Cardinality(InFlight(d)) + 1
    BY <2>2, FlightFinite, FS_AddElement
  <2> QED
    BY <2>1, <2>2, <2>3 DEF TypeOK
<1>3. ASSUME NEW u \in Urls
      PROVE  gauge'[u] = Cardinality(InFlightTo(u)')
  <2>1. InFlightTo(u)' = IF u = UrlOf(c) THEN InFlightTo(u) \cup {r} ELSE InFlightTo(u)
    BY DEF TypeOK, InFlightTo
  <2>2. r \notin InFlightTo(u) /\ gauge[u] = Cardinality(InFlightTo(u))
    BY DEF InFlightTo, ActiveIsInFlight
  <2>3. Cardinality(InFlightTo(u) \cup {r}) = Cardinality(InFlightTo(u)) + 1
    BY <2>2, FlightFinite, FS_AddElement
  <2> QED
    BY <2>1, <2>2, <2>3 DEF TypeOK
<1> QED
  BY <1>1, <1>2, <1>3 DEF ActiveIsInFlight

\* A request whose call ended leaves those of the client it was sent to, which
\* may have been removed since.
LEMMA LeaveCounts ==
    ASSUME TypeOK, CallsHaveClients, ActiveIsInFlight,
           NEW r \in Requests, status[r] = "calling", NEW verdict, Leave(r, verdict),
           NEW s, s # "calling", status' = [status EXCEPT ![r] = s]
    PROVE  /\ active' \in [Clients -> Nat] /\ gauge' \in [Urls -> Nat]
           /\ ActiveIsInFlight'
<1> DEFINE c == at[r]
<1>1. c \in Clients /\ UrlOf(c) \in Urls
  BY DEF CallsHaveClients, UrlOf, Clients
<1>2. /\ active' = [active EXCEPT ![c] = @ - 1]
      /\ gauge' = [gauge EXCEPT ![UrlOf(c)] = @ - 1]
      /\ at' = [at EXCEPT ![r] = NoClient]
  BY DEF Leave
<1>3. ASSUME NEW d \in Clients
      PROVE  active'[d] = Cardinality(InFlight(d)') /\ active'[d] \in Nat
  <2>1. InFlight(d)' = InFlight(d) \ {r}
    BY <1>2 DEF TypeOK, InFlight
  <2>2. active[d] = Cardinality(InFlight(d)) /\ (r \in InFlight(d) <=> d = c)
    BY DEF InFlight, ActiveIsInFlight
  <2>3. /\ Cardinality(InFlight(d) \ {r})
              = IF d = c THEN Cardinality(InFlight(d)) - 1 ELSE Cardinality(InFlight(d))
        /\ Cardinality(InFlight(d) \ {r}) \in Nat
    BY <2>2, FlightFinite, FS_RemoveElement, FS_CardinalityType
  <2>4. active'[d] = IF d = c THEN active[d] - 1 ELSE active[d]
    BY <1>1, <1>2 DEF TypeOK
  <2> QED
    BY <2>1, <2>2, <2>3, <2>4
<1>4. ASSUME NEW u \in Urls
      PROVE  gauge'[u] = Cardinality(InFlightTo(u)') /\ gauge'[u] \in Nat
  <2>1. InFlightTo(u)' = InFlightTo(u) \ {r}
    BY <1>2 DEF TypeOK, InFlightTo
  <2>2. gauge[u] = Cardinality(InFlightTo(u)) /\ (r \in InFlightTo(u) <=> u = UrlOf(c))
    BY DEF InFlightTo, ActiveIsInFlight
  <2>3. /\ Cardinality(InFlightTo(u) \ {r})
              = IF u = UrlOf(c) THEN Cardinality(InFlightTo(u)) - 1 ELSE Cardinality(InFlightTo(u))
        /\ Cardinality(InFlightTo(u) \ {r}) \in Nat
    BY <2>2, FlightFinite, FS_RemoveElement, FS_CardinalityType
  <2>4. gauge'[u] = IF u = UrlOf(c) THEN gauge[u] - 1 ELSE gauge[u]
    BY <1>1, <1>2 DEF TypeOK
  <2> QED
    BY <2>1, <2>2, <2>3, <2>4
<1>5. active' \in [Clients -> Nat] /\ gauge' \in [Urls -> Nat]
  <2>1. active' \in [Clients -> Int] /\ gauge' \in [Urls -> Int]
    BY <1>1, <1>2 DEF TypeOK
  <2> QED
    BY <1>3, <1>4, <2>1
<1> QED
  BY <1>3, <1>4, <1>5 DEF ActiveIsInFlight

\* Every strategy chooses among the available workers.
LEMMA PicksAreWorkers == Picks(Available) \subseteq workers
BY DEF Picks, Fastest, LeastBusy, First, Available, Candidates

\* Nothing else touches the counters.
LEMMA CountersStep ==
    ASSUME TypeOK, CallsHaveClients, ActiveIsInFlight, [Next]_vars
    PROVE  /\ active' \in [Clients -> Nat] /\ gauge' \in [Urls -> Nat]
           /\ ActiveIsInFlight'
<1> DEFINE Goal == /\ active' \in [Clients -> Nat] /\ gauge' \in [Urls -> Nat]
                   /\ ActiveIsInFlight'
<1>1. ASSUME NEW r \in Requests, Dispatch(r)
      PROVE  Goal
  <2>1. PICK c \in Picks(Available) :
            /\ at' = [at EXCEPT ![r] = c]
            /\ active' = [active EXCEPT ![c] = @ + 1]
            /\ gauge' = [gauge EXCEPT ![UrlOf(c)] = @ + 1]
    BY <1>1 DEF Dispatch
  <2>2. c \in Clients
    BY PicksAreWorkers DEF TypeOK
  <2>3. status[r] # "calling" /\ status' = [status EXCEPT ![r] = "calling"]
    BY <1>1 DEF Dispatch
  <2> QED
    BY <2>1, <2>2, <2>3, JoinCounts
<1>2. ASSUME NEW r \in Requests, Reject(r)
      PROVE  Goal
  <2>1. /\ \A q \in Requests : status[q] = "calling" <=> status'[q] = "calling"
        /\ UNCHANGED <<at, active, gauge>>
    BY <1>2 DEF Reject, TypeOK, statVars
  <2>2. /\ \A c \in Clients : InFlight(c)' = InFlight(c)
        /\ \A u \in Urls : InFlightTo(u)' = InFlightTo(u)
    BY <2>1 DEF InFlight, InFlightTo
  <2> QED
    BY <2>1, <2>2 DEF TypeOK, ActiveIsInFlight
<1>3. ASSUME NEW r \in Requests, Succeed(r)
      PROVE  Goal
  BY <1>3, LeaveCounts DEF Succeed
<1>4. ASSUME NEW r \in Requests, Fail(r)
      PROVE  Goal
  BY <1>4, LeaveCounts DEF Fail
<1>5. CASE UNCHANGED <<active, gauge, status, at>>
  BY <1>5 DEF TypeOK, ActiveIsInFlight, InFlight, InFlightTo
<1>6. ASSUME NEW u \in Urls, AddWorker(u) \/ RemoveWorker(u) \/ Flip(u) \/ Cool(u)
      PROVE  Goal
  BY <1>5, <1>6 DEF AddWorker, RemoveWorker, Flip, Cool, statVars, slotVars
<1>7. ASSUME NEW p \in Probers,
             StartRound(p) \/ \E c \in Clients : Answer(p, c) \/ Land(p, c)
      PROVE  Goal
  BY <1>5, <1>7 DEF StartRound, Answer, Land, statVars, slotVars
<1>8. CASE UNCHANGED vars
  BY <1>5, <1>8 DEF vars, statVars, slotVars
<1> QED
  BY <1>1, <1>2, <1>3, <1>4, <1>6, <1>7, <1>8 DEF Next, Serving, HealthChecked, Scaling

-----------------------------------------------------------------------------
(* Type correctness.                                                       *)

\* The request slots keep their types, and calls their clients.
LEMMA SlotsStep ==
    ASSUME TypeOK, CallsHaveClients, [Next]_vars
    PROVE  /\ status' \in [Requests -> Final \cup {"calling"}]
           /\ at' \in [Requests -> Clients \cup {NoClient}]
           /\ CallsHaveClients'
<1> DEFINE Goal == /\ status' \in [Requests -> Final \cup {"calling"}]
                   /\ at' \in [Requests -> Clients \cup {NoClient}]
                   /\ CallsHaveClients'
<1>1. ASSUME NEW r \in Requests, Dispatch(r)
      PROVE  Goal
  BY <1>1, PicksAreWorkers DEF Dispatch, TypeOK, CallsHaveClients
<1>2. ASSUME NEW r \in Requests, Reject(r)
      PROVE  Goal
  BY <1>2 DEF Reject, TypeOK, CallsHaveClients, Final
<1>3. ASSUME NEW r \in Requests, Succeed(r) \/ Fail(r)
      PROVE  Goal
  <2>1. /\ at' = [at EXCEPT ![r] = NoClient]
        /\ \E s \in Final : status' = [status EXCEPT ![r] = s]
    BY <1>3 DEF Succeed, Fail, Leave, Final
  <2> QED
    BY <2>1 DEF TypeOK, CallsHaveClients, Final
<1>4. CASE UNCHANGED <<status, at>>
  BY <1>4 DEF TypeOK, CallsHaveClients
<1>5. ASSUME NEW u \in Urls, AddWorker(u) \/ RemoveWorker(u) \/ Flip(u) \/ Cool(u)
      PROVE  Goal
  BY <1>4, <1>5 DEF AddWorker, RemoveWorker, Flip, Cool, slotVars
<1>6. ASSUME NEW p \in Probers,
             StartRound(p) \/ \E c \in Clients : Answer(p, c) \/ Land(p, c)
      PROVE  Goal
  BY <1>4, <1>6 DEF StartRound, Answer, Land, slotVars
<1>7. CASE UNCHANGED vars
  BY <1>4, <1>7 DEF vars, slotVars
<1> QED
  BY <1>1, <1>2, <1>3, <1>5, <1>6, <1>7 DEF Next, Serving, HealthChecked, Scaling

\* A rest is below its modulus.
LEMMA Modulo == \A k \in Nat, n \in Nat \ {0} : k % n \in 0 .. n - 1
OBVIOUS

\* Clients are built within the bound, and the round-robin index stays below
\* its cycle.
LEMMA PoolStep ==
    ASSUME TypeOK, [Next]_vars
    PROVE  /\ workers' \in SUBSET Clients
           /\ built' \in 0 .. MaxBuilt
           /\ rr' \in 0 .. Cycle - 1
<1> DEFINE Goal == /\ workers' \in SUBSET Clients
                   /\ built' \in 0 .. MaxBuilt
                   /\ rr' \in 0 .. Cycle - 1
<1>1. ASSUME NEW r \in Requests, Dispatch(r)
      PROVE  Goal
  <2>1. rr' = rr \/ rr' = (rr + 1) % Cycle
    BY <1>1 DEF Dispatch
  <2> QED
    BY <1>1, <2>1, Modulo DEF Dispatch, TypeOK
<1>2. CASE UNCHANGED <<workers, built, rr>>
  BY <1>2 DEF TypeOK
<1>3. ASSUME NEW r \in Requests, Reject(r) \/ Succeed(r) \/ Fail(r)
      PROVE  Goal
  BY <1>2, <1>3 DEF Reject, Succeed, Fail, poolVars
<1>4. ASSUME NEW u \in Urls, AddWorker(u)
      PROVE  Goal
  BY <1>4 DEF AddWorker, TypeOK, Clients
<1>5. ASSUME NEW u \in Urls, RemoveWorker(u) \/ Flip(u) \/ Cool(u)
      PROVE  Goal
  BY <1>5 DEF RemoveWorker, Flip, Cool, TypeOK, poolVars
<1>6. ASSUME NEW p \in Probers,
             StartRound(p) \/ \E c \in Clients : Answer(p, c) \/ Land(p, c)
      PROVE  Goal
  BY <1>2, <1>6 DEF StartRound, Answer, Land, poolVars
<1>7. CASE UNCHANGED vars
  BY <1>2, <1>7 DEF vars, poolVars
<1> QED
  BY <1>1, <1>3, <1>4, <1>5, <1>6, <1>7 DEF Next, Serving, HealthChecked, Scaling

\* The flags, the health checks and the world keep their types.
LEMMA WorldStep ==
    ASSUME TypeOK, CallsHaveClients, [Next]_vars
    PROVE  /\ healthy' \in [Clients -> BOOLEAN]
           /\ served' \in [Clients -> BOOLEAN]
           /\ probe' \in [Probers -> [Clients -> {"none", "sent", "up", "down"}]]
           /\ up' \in [Urls -> BOOLEAN]
           /\ glitches' \in 0 .. MaxGlitches
<1> DEFINE Goal == /\ healthy' \in [Clients -> BOOLEAN]
                   /\ served' \in [Clients -> BOOLEAN]
                   /\ probe' \in [Probers -> [Clients -> {"none", "sent", "up", "down"}]]
                   /\ up' \in [Urls -> BOOLEAN]
                   /\ glitches' \in 0 .. MaxGlitches
<1>1. \A u \in Urls : Glitch(u) => glitches' \in 0 .. MaxGlitches
  BY DEF Glitch, TypeOK
<1>2. ASSUME NEW r \in Requests, Dispatch(r) \/ Reject(r) \/ Succeed(r)
      PROVE  Goal
  BY <1>2 DEF Dispatch, Reject, Succeed, TypeOK, statVars, worldVars
<1>3. ASSUME NEW r \in Requests, Fail(r)
      PROVE  Goal
  BY <1>1, <1>3 DEF Fail, TypeOK, CallsHaveClients, UrlOf, Clients
<1>4. ASSUME NEW u \in Urls, RemoveWorker(u) \/ Flip(u) \/ Cool(u)
      PROVE  Goal
  BY <1>4 DEF RemoveWorker, Flip, Cool, TypeOK, statVars, worldVars
<1>5. ASSUME NEW u \in Urls, AddWorker(u)
      PROVE  Goal
  <2> DEFINE c == <<u, built + 1>>
  <2>1. UNCHANGED <<healthy, served, up, glitches>>
    BY <1>5 DEF AddWorker, statVars, worldVars
  <2>2. \/ UNCHANGED probe
        \/ /\ Scaler \in Probers
           /\ probe' = [probe EXCEPT ![Scaler][c] = "sent"]
    BY <1>5 DEF AddWorker
  <2>3. \A x : [probe EXCEPT ![Scaler][x] = "sent"] \in
                 [Probers -> [Clients -> {"none", "sent", "up", "down"}]]
    BY DEF TypeOK
  <2>4. probe' \in [Probers -> [Clients -> {"none", "sent", "up", "down"}]]
    BY <2>2, <2>3 DEF TypeOK
  <2> QED
    BY <2>1, <2>4 DEF TypeOK
<1>6. ASSUME NEW p \in Probers, StartRound(p)
      PROVE  Goal
  BY <1>6 DEF StartRound, TypeOK, statVars, worldVars
<1>7. ASSUME NEW p \in Probers, NEW c \in Clients, Answer(p, c)
      PROVE  Goal
  <2>1. UrlOf(c) \in Urls
    BY DEF UrlOf, Clients
  <2>2. glitches' \in 0 .. MaxGlitches
    BY <1>1, <1>7, <2>1 DEF Answer, TypeOK
  <2>3. \E a \in {"up", "down"} : probe' = [probe EXCEPT ![p][c] = a]
    BY <1>7 DEF Answer
  <2>4. UNCHANGED <<healthy, served, up>>
    BY <1>7 DEF Answer, statVars
  <2> QED
    BY <2>2, <2>3, <2>4 DEF TypeOK
<1>8. ASSUME NEW p \in Probers, NEW c \in Clients, Land(p, c)
      PROVE  Goal
  BY <1>8 DEF Land, TypeOK, worldVars
<1>9. CASE UNCHANGED vars
  BY <1>9 DEF vars, TypeOK, statVars, worldVars
<1> QED
  BY <1>2, <1>3, <1>4, <1>5, <1>6, <1>7, <1>8, <1>9 DEF Next, Serving, HealthChecked, Scaling

-----------------------------------------------------------------------------
(* The theorems.                                                           *)

\* The load balancer starts with a closed breaker for every configured worker
\* and with nothing in flight.
LEMMA InitIInv == Init => IInv
<1> SUFFICES ASSUME Init
             PROVE  IInv
  OBVIOUS
<1>1. workers \in SUBSET Clients
  BY DEF Init, Clients
<1>2. /\ breaker \in [Urls -> BreakerType]
      /\ BreakersSound
      /\ \A u \in Urls : HasBreaker(u) <=> u \in Registered
  <2>1. breaker = [u \in Urls |-> IF u \in Registered THEN NewBreaker ELSE NoBreaker]
    BY DEF Init
  <2> QED
    BY <2>1, NewSound DEF BreakersSound, HasBreaker, Sound
<1>3. \A c, d \in workers : UrlOf(c) = UrlOf(d) => c = d
  BY DEF Init, UrlOf
<1>4. CallsHaveClients
  BY DEF Init, CallsHaveClients
<1>5. ActiveIsInFlight
  <2>1. /\ \A c \in Clients : active[c] = 0 /\ InFlight(c) = {}
        /\ \A u \in Urls : gauge[u] = 0 /\ InFlightTo(u) = {}
    BY DEF Init, InFlight, InFlightTo
  <2> QED
    BY <2>1, FS_EmptySet DEF ActiveIsInFlight
<1>6. /\ built \in 0 .. MaxBuilt /\ rr \in 0 .. Cycle - 1 /\ glitches \in 0 .. MaxGlitches
      /\ active \in [Clients -> Nat] /\ gauge \in [Urls -> Nat]
  BY DEF Init
<1>7. /\ healthy \in [Clients -> BOOLEAN] /\ served \in [Clients -> BOOLEAN]
      /\ status \in [Requests -> Final \cup {"calling"}]
      /\ at \in [Requests -> Clients \cup {NoClient}]
      /\ probe \in [Probers -> [Clients -> {"none", "sent", "up", "down"}]]
      /\ up \in [Urls -> BOOLEAN]
  BY DEF Init, Final
<1> QED
  BY <1>1, <1>2, <1>3, <1>4, <1>5, <1>6, <1>7 DEF IInv, TypeOK, BreakerType, WorkersHaveBreakers

\* The inductive invariant holds in every reachable state.
THEOREM Invariance == Spec => []IInv
<1>1. ASSUME IInv, [Next]_vars
      PROVE  IInv'
  <2> USE <1>1 DEF IInv
  <2>1. breaker' \in [Urls -> BreakerType] /\ BreakersSound' /\ WorkersHaveBreakers'
    BY BreakerStep
  <2>2. /\ active' \in [Clients -> Nat] /\ gauge' \in [Urls -> Nat]
        /\ ActiveIsInFlight'
    BY CountersStep
  <2>3. /\ status' \in [Requests -> Final \cup {"calling"}]
        /\ at' \in [Requests -> Clients \cup {NoClient}]
        /\ CallsHaveClients'
    BY SlotsStep
  <2>4. workers' \in SUBSET Clients /\ built' \in 0 .. MaxBuilt /\ rr' \in 0 .. Cycle - 1
    BY PoolStep
  <2>5. /\ healthy' \in [Clients -> BOOLEAN]
        /\ served' \in [Clients -> BOOLEAN]
        /\ probe' \in [Probers -> [Clients -> {"none", "sent", "up", "down"}]]
        /\ up' \in [Urls -> BOOLEAN]
        /\ glitches' \in 0 .. MaxGlitches
    BY WorldStep
  <2>6. TypeOK'
    BY <2>1, <2>2, <2>3, <2>4, <2>5 DEF TypeOK, BreakerType
  <2> QED
    BY <2>1, <2>2, <2>3, <2>6
<1> QED
  BY <1>1, InitIInv, PTL DEF Spec

\* Every variable of the load balancer keeps its type; in particular
\* active_requests and the gauge never fall below zero.
THEOREM TypeCorrect == Spec => []TypeOK
<1>1. IInv => TypeOK
  BY DEF IInv
<1> QED
  BY <1>1, Invariance, PTL

\* Whatever the autoscaler adds and removes, a worker has a breaker, a breaker
\* has a worker, and no two workers share a URL: pick_worker and the health
\* checker never meet a KeyError.
THEOREM EveryWorkerHasABreaker == Spec => []WorkersHaveBreakers
<1>1. IInv => WorkersHaveBreakers
  BY DEF IInv
<1> QED
  BY <1>1, Invariance, PTL

\* A breaker is CLOSED exactly while it counts fewer failures than the
\* threshold.
THEOREM ClosedMeansFewFailures == Spec => []ClosedBelowThreshold
<1>1. IInv => ClosedBelowThreshold
  BY DEF IInv, ClosedBelowThreshold, BreakersSound, Sound, HasBreaker
<1> QED
  BY <1>1, Invariance, PTL

\* active_requests and the gauge count the requests in flight, those of removed
\* clients included.
THEOREM CountersAreExact == Spec => []ActiveIsInFlight
<1>1. IInv => ActiveIsInFlight
  BY DEF IInv
<1> QED
  BY <1>1, Invariance, PTL

\* Only the failure of a call in flight makes it a failed one.
LEMMA FailureSteps ==
    ASSUME status \in [Requests -> Final \cup {"calling"}], [Next]_vars,
           NEW r \in Requests, status[r] = "calling", status'[r] = "failed"
    PROVE  Fail(r)
<1>1. ASSUME NEW q \in Requests, Dispatch(q) \/ Reject(q)
      PROVE  FALSE
  BY <1>1 DEF Dispatch, Reject
<1>2. ASSUME NEW q \in Requests, Succeed(q)
      PROVE  FALSE
  BY <1>2 DEF Succeed
<1>3. ASSUME NEW q \in Requests, Fail(q)
      PROVE  Fail(r)
  <2>1. q = r
    BY <1>3 DEF Fail
  <2> QED
    BY <1>3, <2>1
<1>4. ASSUME NEW u \in Urls, Flip(u) \/ Cool(u) \/ AddWorker(u) \/ RemoveWorker(u)
      PROVE  FALSE
  BY <1>4 DEF Flip, Cool, AddWorker, RemoveWorker, slotVars
<1>5. ASSUME NEW p \in Probers, StartRound(p) \/ \E c \in Clients : Answer(p, c) \/ Land(p, c)
      PROVE  FALSE
  BY <1>5 DEF StartRound, Answer, Land, slotVars
<1>6. status' # status
  OBVIOUS
<1> QED
  BY <1>1, <1>2, <1>3, <1>4, <1>5, <1>6 DEF Next, Serving, HealthChecked, Scaling, vars, slotVars

\* A request that fails while the breaker of its worker is HALF_OPEN re-opens it.
THEOREM OneFailureReopens == Spec => HalfOpenFailureReopens
<1> DEFINE Failed(r) == /\ status[r] = "calling" /\ status'[r] = "failed"
                        /\ breaker[UrlOf(at[r])].state = "half_open"
<1>1. ASSUME IInv, [Next]_vars, NEW r \in Requests, Failed(r)
      PROVE  Blocks(breaker'[UrlOf(at[r])])
  <2> DEFINE u == UrlOf(at[r])
  <2>1. u \in Urls
    BY <1>1 DEF IInv, CallsHaveClients, UrlOf, Clients
  <2>2. Sound(breaker[u]) /\ breaker[u] # NoBreaker
    BY <1>1, <2>1 DEF IInv, BreakersSound, NoBreaker
  <2>3. breaker[u].failures = Threshold
    BY <1>1, <2>2 DEF Sound, BreakerType
  <2>4. Blocks(AfterFailure(breaker[u]))
    BY <2>3 DEF Blocks, AfterFailure
  <2>5. Fail(r)
    BY <1>1, FailureSteps DEF IInv, TypeOK
  <2> QED
    BY <1>1, <2>1, <2>2, <2>4, <2>5 DEF Fail, HasBreaker, IInv, TypeOK
<1>2. IInv /\ [Next]_vars
      => [\A r \in Requests :
             status[r] = "calling" /\ status'[r] = "failed"
               /\ breaker[UrlOf(at[r])].state = "half_open"
             => Blocks(breaker'[UrlOf(at[r])])]_vars
  BY <1>1
<1> QED
  BY <1>2, Invariance, PTL DEF Spec, HalfOpenFailureReopens

-----------------------------------------------------------------------------
(* When the KeyError of a removed worker cannot happen.                    *)

\* remove_worker is called only for a worker that has no request in flight.
RemovalsWait == [][\A u \in Urls : RemoveWorker(u) => InFlightTo(u) = {}]_vars

\* The worker of a request in flight is still registered, under its URL at least.
CallsHaveWorkers == \A r \in Requests : status[r] = "calling" => UrlOf(at[r]) \in Registered

\* Only remove_worker takes a URL out, and only pick_worker starts a call, at a
\* worker.
LEMMA CallsHaveWorkersStep ==
    ASSUME TypeOK, CallsHaveWorkers, [Next]_vars,
           \A u \in Urls : RemoveWorker(u) => InFlightTo(u) = {}
    PROVE  CallsHaveWorkers'
<1>1. ASSUME workers \subseteq workers',
             \A r \in Requests : status'[r] = "calling" => status[r] = "calling" /\ at'[r] = at[r]
      PROVE  CallsHaveWorkers'
  BY <1>1 DEF CallsHaveWorkers, Registered
<1>2. ASSUME NEW r \in Requests, Dispatch(r)
      PROVE  CallsHaveWorkers'
  <2>1. PICK c \in workers : at' = [at EXCEPT ![r] = c]
    BY <1>2, PicksAreWorkers DEF Dispatch
  <2>2. workers' = workers /\ status' = [status EXCEPT ![r] = "calling"]
    BY <1>2 DEF Dispatch
  <2>3. UrlOf(c) \in Registered
    BY DEF Registered
  <2>4. Registered' = Registered
    BY <2>2 DEF Registered
  <2>5. ASSUME NEW q \in Requests, status'[q] = "calling"
        PROVE  UrlOf(at'[q]) \in Registered
    <3>1. CASE q = r
      BY <2>1, <2>3, <3>1 DEF TypeOK
    <3>2. CASE q # r
      BY <2>1, <2>2, <2>5, <3>2 DEF TypeOK, CallsHaveWorkers
    <3> QED
      BY <3>1, <3>2
  <2> QED
    BY <2>4, <2>5 DEF CallsHaveWorkers
<1>3. ASSUME NEW r \in Requests, Reject(r)
      PROVE  CallsHaveWorkers'
  BY <1>1, <1>3 DEF Reject, poolVars, TypeOK
<1>4. ASSUME NEW r \in Requests, Succeed(r) \/ Fail(r)
      PROVE  CallsHaveWorkers'
  <2>1. /\ workers' = workers /\ at' = [at EXCEPT ![r] = NoClient]
        /\ \E s \in {"ok", "failed", "crashed"} : status' = [status EXCEPT ![r] = s]
    BY <1>4 DEF Succeed, Fail, Leave, poolVars
  <2> QED
    BY <1>1, <2>1 DEF TypeOK
<1>5. ASSUME NEW u \in Urls, AddWorker(u)
      PROVE  CallsHaveWorkers'
  BY <1>1, <1>5 DEF AddWorker, slotVars
<1>6. ASSUME NEW u \in Urls, RemoveWorker(u)
      PROVE  CallsHaveWorkers'
  <2>1. InFlightTo(u) = {}
    BY <1>6
  <2>2. Registered' = Registered \ {u} /\ status' = status /\ at' = at
    BY <1>6 DEF RemoveWorker, Registered, slotVars
  <2>3. \A r \in Requests : status[r] = "calling" => UrlOf(at[r]) # u
    BY <2>1 DEF InFlightTo
  <2> QED
    BY <2>2, <2>3 DEF CallsHaveWorkers
<1>7. ASSUME NEW u \in Urls, Flip(u) \/ Cool(u)
      PROVE  CallsHaveWorkers'
  BY <1>1, <1>7 DEF Flip, Cool, poolVars, slotVars
<1>8. ASSUME NEW p \in Probers, StartRound(p) \/ \E c \in Clients : Answer(p, c) \/ Land(p, c)
      PROVE  CallsHaveWorkers'
  BY <1>1, <1>8 DEF StartRound, Answer, Land, poolVars, slotVars
<1>9. CASE UNCHANGED vars
  BY <1>1, <1>9 DEF vars, poolVars, slotVars
<1> QED
  BY <1>2, <1>3, <1>4, <1>5, <1>6, <1>7, <1>8, <1>9 DEF Next, Serving, HealthChecked, Scaling

\* A response is lost only where record_success or record_failure finds no breaker.
LEMMA ResponsesStep ==
    ASSUME IInv, CallsHaveWorkers, EveryCallGetsItsResponse, [Next]_vars
    PROVE  EveryCallGetsItsResponse'
<1>1. ASSUME NEW r \in Requests, NEW s, s # "crashed", status' = [status EXCEPT ![r] = s]
      PROVE  EveryCallGetsItsResponse'
  BY <1>1 DEF EveryCallGetsItsResponse, IInv, TypeOK
<1>2. CASE status' = status
  BY <1>2 DEF EveryCallGetsItsResponse
<1>3. ASSUME NEW r \in Requests, Dispatch(r) \/ Reject(r)
      PROVE  EveryCallGetsItsResponse'
  <2>1. \E s \in {"calling", "no_worker", "no_capacity"} : status' = [status EXCEPT ![r] = s]
    BY <1>3 DEF Dispatch, Reject
  <2> QED
    BY <1>1, <2>1
<1>4. ASSUME NEW r \in Requests, Succeed(r) \/ Fail(r)
      PROVE  EveryCallGetsItsResponse'
  <2>1. status[r] = "calling"
    BY <1>4 DEF Succeed, Fail
  <2>2. UrlOf(at[r]) \in Urls /\ UrlOf(at[r]) \in Registered
    BY <2>1 DEF CallsHaveWorkers, IInv, CallsHaveClients, Clients, UrlOf
  <2>3. HasBreaker(UrlOf(at[r]))
    BY <2>2 DEF IInv, WorkersHaveBreakers
  <2>4. \E s \in {"ok", "failed"} : status' = [status EXCEPT ![r] = s]
    BY <1>4, <2>3 DEF Succeed, Fail
  <2> QED
    BY <1>1, <2>4
<1>5. ASSUME NEW u \in Urls, Flip(u) \/ Cool(u) \/ AddWorker(u) \/ RemoveWorker(u)
      PROVE  EveryCallGetsItsResponse'
  BY <1>2, <1>5 DEF Flip, Cool, AddWorker, RemoveWorker, slotVars
<1>6. ASSUME NEW p \in Probers, StartRound(p) \/ \E c \in Clients : Answer(p, c) \/ Land(p, c)
      PROVE  EveryCallGetsItsResponse'
  BY <1>2, <1>6 DEF StartRound, Answer, Land, slotVars
<1>7. CASE UNCHANGED vars
  BY <1>2, <1>7 DEF vars, slotVars
<1> QED
  BY <1>3, <1>4, <1>5, <1>6, <1>7 DEF Next, Serving, HealthChecked, Scaling

\* If every removal waits for the worker's requests, no request ends in the KeyError
\* that balancer_removal shows, with any routing strategy and however the worker is
\* registered again: the removal during a call is all there is to it.
THEOREM ResponsesWhenRemovalsWait == Spec /\ RemovalsWait => []EveryCallGetsItsResponse
<1>1. Init => CallsHaveWorkers /\ EveryCallGetsItsResponse
  BY DEF Init, CallsHaveWorkers, EveryCallGetsItsResponse
<1>2. ASSUME IInv, CallsHaveWorkers, EveryCallGetsItsResponse, [Next]_vars,
             [\A u \in Urls : RemoveWorker(u) => InFlightTo(u) = {}]_vars
      PROVE  CallsHaveWorkers' /\ EveryCallGetsItsResponse'
  <2>1. CASE UNCHANGED vars
    BY <1>2, <2>1 DEF vars, poolVars, slotVars, CallsHaveWorkers, EveryCallGetsItsResponse, Registered
  <2>2. CASE \A u \in Urls : RemoveWorker(u) => InFlightTo(u) = {}
    BY <1>2, <2>2, CallsHaveWorkersStep, ResponsesStep DEF IInv
  <2> QED
    BY <1>2, <2>1, <2>2
<1> QED
  BY <1>1, <1>2, Invariance, PTL DEF Spec, RemovalsWait
=============================================================================

----------------------------- MODULE Autoscaler -----------------------------
(***************************************************************************)
(* The autoscaler of one gateway process, over its load balancer: a loop   *)
(* that reads the queue depth and registers standby URLs, or starts and    *)
(* stops Ollama containers when it has reached a Docker daemon at start.   *)
(*                                                                         *)
(* The calls to Docker block the event loop, so an iteration is one step,  *)
(* but for the health check of a standby worker that was just registered:  *)
(* during it requests are served and other health checks land.             *)
(***************************************************************************)
EXTENDS LoadBalancer, SequencesExt

CONSTANTS
    Standby,        \* STANDBY_WORKER_URLS, in order
    MinWorkers, MaxWorkers,
    UpThreshold, DownThreshold,
    Depths,         \* what LLEN of llm:request_queue may return
    Backlog,        \* jobs that wait in the request stream
    LocalUrl        \* the URL of the container number n: http://localhost:11434+n

Places == 0 .. MaxWorkers - 1

ASSUME ScalerConstants ==
    /\ Standby \in Seq(Urls)
    /\ MinWorkers \in Nat /\ MaxWorkers \in Nat
    /\ UpThreshold \in Nat /\ DownThreshold \in Nat
    /\ Depths \subseteq Nat /\ Backlog \in Nat
    /\ LocalUrl \in [Places -> Urls]
    /\ Scaler \in Probers

VARIABLES
    docker,     \* did connect() reach a Docker daemon?
    standby,    \* Autoscaler.standby
    dynamic,    \* Autoscaler.active_dynamic
    spawned,    \* Autoscaler._worker_containers, by their numbers
    container,  \* the daemon's container of each number
    cooling     \* _in_cooldown()

scalerVars == <<docker, standby, dynamic, spawned, container, cooling>>
allVars    == <<vars, scalerVars>>

Running == {n \in Places : container[n] = "running"}

ScalerInit ==
    /\ Init
    /\ docker \in BOOLEAN
    /\ standby = Standby
    /\ dynamic = <<>>
    /\ spawned = <<>>
    /\ container = [n \in Places |-> "none"]
    /\ cooling \in BOOLEAN

-----------------------------------------------------------------------------
(* The decision.                                                           *)

\* The loop awaits neither Redis nor the health check of a new worker.
Free == RoundOver(Scaler) /\ ~cooling

Deep == \E d \in Depths : d >= UpThreshold
Drained == \E d \in Depths : d < UpThreshold /\ d <= DownThreshold

\* _running_worker_count: with Docker, those it lists and the configured ones,
\* or these alone when it does not answer.
Counts == IF docker THEN {Len(Configured), Len(Configured) + Cardinality(Running)}
          ELSE {Cardinality(workers)}

\* Mutant of WantsUp: an off-by-one.
WantsOneMore(current) == Free /\ Deep /\ current <= MaxWorkers

WantsUp(current) == Free /\ Deep /\ current < MaxWorkers

WantsDown(current) == Free /\ Drained /\ current > MinWorkers

-----------------------------------------------------------------------------
(* Static mode.                                                            *)

\* A standby URL is registered and its health check sent.
RegisterStandby ==
    /\ ~docker /\ WantsUp(Cardinality(workers))
    /\ standby # <<>>
    /\ AddWorker(Head(standby)) /\ probe' # probe
    /\ standby' = Tail(standby)
    /\ UNCHANGED <<docker, dynamic, spawned, container, cooling>>

\* Mutant of SkipStandby: a URL that was there already counts as ours.
SkipAndOwn ==
    /\ ~docker /\ WantsUp(Cardinality(workers))
    /\ standby # <<>>
    /\ Head(standby) \in Registered
    /\ standby' = Tail(standby)
    /\ dynamic' = Append(dynamic, Head(standby))
    /\ UNCHANGED <<vars, docker, spawned, container, cooling>>

\* The load balancer has it already: it is not put back.
SkipStandby ==
    /\ ~docker /\ WantsUp(Cardinality(workers))
    /\ standby # <<>>
    /\ Head(standby) \in Registered
    /\ standby' = Tail(standby)
    /\ UNCHANGED <<vars, docker, dynamic, spawned, container, cooling>>

\* Mutant of StandbyChecked: a worker that is down does not count as ours.
StandbyCheckedIfUp(c) ==
    /\ Land(Scaler, c)
    /\ dynamic' = IF probe[Scaler][c] = "up" THEN Append(dynamic, UrlOf(c)) ELSE dynamic
    /\ cooling' = TRUE
    /\ UNCHANGED <<docker, standby, spawned, container>>

\* The health check is over; whatever it found, the worker is counted as ours.
StandbyChecked(c) ==
    /\ Land(Scaler, c)
    /\ dynamic' = Append(dynamic, UrlOf(c))
    /\ cooling' = TRUE
    /\ UNCHANGED <<docker, standby, spawned, container>>

\* Mutant of ReleaseStandby: the URL is not returned to the pool.
ReleaseAndForget ==
    /\ ~docker /\ WantsDown(Cardinality(workers))
    /\ dynamic # <<>>
    /\ RemoveWorker(Last(dynamic))
    /\ dynamic' = Front(dynamic)
    /\ cooling' = TRUE
    /\ UNCHANGED <<docker, standby, spawned, container>>

ReleaseStandby ==
    /\ ~docker /\ WantsDown(Cardinality(workers))
    /\ dynamic # <<>>
    /\ RemoveWorker(Last(dynamic))
    /\ dynamic' = Front(dynamic)
    /\ standby' = <<Last(dynamic)>> \o standby
    /\ cooling' = TRUE
    /\ UNCHANGED <<docker, spawned, container>>

-----------------------------------------------------------------------------
(* Docker mode.                                                            *)

\* add_worker, which finds the URL registered when it was used before.
Announce(u) ==
    IF u \in Registered THEN UNCHANGED vars ELSE UNCHANGED probe /\ AddWorker(u)

\* Mutant of SpawnContainer: it is listed under the number the log line shows.
SpawnNextNumber(n) ==
    /\ docker /\ n \in Counts /\ WantsUp(n)
    /\ container[n] = "none"
    /\ container' = [container EXCEPT ![n] = "running"]
    /\ spawned' = Append(spawned, n + 1)
    /\ cooling' = TRUE
    /\ Announce(LocalUrl[n])
    /\ UNCHANGED <<docker, standby, dynamic>>

\* A container is started under the number of workers counted.
SpawnContainer(n) ==
    /\ docker /\ n \in Counts /\ WantsUp(n)
    /\ container[n] = "none"
    /\ container' = [container EXCEPT ![n] = "running"]
    /\ spawned' = Append(spawned, n)
    /\ cooling' = TRUE
    /\ Announce(LocalUrl[n])
    /\ UNCHANGED <<docker, standby, dynamic>>

\* The container is created but does not start: its port is taken, say.  From
\* now on its name is taken.
SpawnFails(n) ==
    /\ docker /\ n \in Counts /\ WantsUp(n)
    /\ container[n] = "none"
    /\ container' = [container EXCEPT ![n] = "stopped"]
    /\ UNCHANGED <<vars, docker, standby, dynamic, spawned, cooling>>

\* Mutant of StopContainer: the list keeps the container that was removed.
StopAndKeep ==
    /\ docker /\ \E current \in Counts : WantsDown(current)
    /\ spawned # <<>>
    /\ \/ container' = [container EXCEPT ![Last(spawned)] = "none"] /\ cooling' = TRUE
       \/ container' = [container EXCEPT ![Last(spawned)] = "stopped"] /\ UNCHANGED cooling
    /\ UNCHANGED <<vars, docker, standby, dynamic, spawned>>

\* Stop and remove, either of which may fail; the container leaves the list
\* before, and the load balancer is not told.
StopContainer ==
    /\ docker /\ \E current \in Counts : WantsDown(current)
    /\ spawned # <<>>
    /\ spawned' = Front(spawned)
    /\ \/ container' = [container EXCEPT ![Last(spawned)] = "none"] /\ cooling' = TRUE
       \/ container' = [container EXCEPT ![Last(spawned)] = "stopped"] /\ UNCHANGED cooling
       \/ UNCHANGED <<container, cooling>>
    /\ UNCHANGED <<vars, docker, standby, dynamic>>

-----------------------------------------------------------------------------
\* AUTOSCALE_COOLDOWN seconds pass since the last scaling.
CoolDown ==
    /\ cooling
    /\ cooling' = FALSE
    /\ UNCHANGED <<vars, docker, standby, dynamic, spawned, container>>

\* A container exits by itself.
ContainerExits(n) ==
    /\ container[n] = "running"
    /\ container' = [container EXCEPT ![n] = "stopped"]
    /\ UNCHANGED <<vars, docker, standby, dynamic, spawned, cooling>>

\* What goes on beside the autoscaler.
Beside ==
    /\ \/ Serving
       \/ \E p \in Probers \ {Scaler}, c \in Clients : Land(p, c)
    /\ UNCHANGED scalerVars

ScalerNext ==
    \/ RegisterStandby \/ SkipStandby \/ ReleaseStandby \/ StopContainer \/ CoolDown
    \/ \E c \in Clients : StandbyChecked(c)
    \/ \E n \in Places : SpawnContainer(n) \/ SpawnFails(n) \/ ContainerExits(n)
    \/ Beside

ScalerSpec == ScalerInit /\ [][ScalerNext]_allVars

\* The loop runs for ever, health checks are answered, time passes.
ScalerFairness ==
    /\ WF_allVars(RegisterStandby) /\ WF_allVars(SkipStandby) /\ WF_allVars(ReleaseStandby)
    /\ WF_allVars(CoolDown)
    /\ \A c \in Clients :
          /\ WF_allVars(StandbyChecked(c))
          /\ WF_allVars(Answer(Scaler, c) /\ UNCHANGED scalerVars)

ScalerFairSpec == ScalerSpec /\ ScalerFairness

-----------------------------------------------------------------------------
(* Safety.                                                                 *)

\* Every variable has its type.
ScalerTypeOK ==
    /\ TypeOK
    /\ docker \in BOOLEAN
    /\ standby \in Seq(Urls)
    /\ dynamic \in Seq(Urls)
    /\ spawned \in Seq(Places)
    /\ container \in [Places -> {"none", "running", "stopped"}]
    /\ cooling \in BOOLEAN

ConfiguredUrls == {Configured[i] : i \in 1 .. Len(Configured)}

\* The URL whose health check the loop awaits.
BeingAdded == {UrlOf(c) : c \in {d \in Clients : probe[Scaler][d] # "none"}}

\* Scaling never takes a configured worker away, not even one that is listed as
\* standby too.
ConfiguredStay == ConfiguredUrls \subseteq Registered

\* In static mode the load balancer has the configured workers, those the
\* autoscaler counts as its own and the one it is adding, each once: what it
\* removes later is exactly what it added.
RosterAgrees ==
    ~docker =>
        /\ Registered = ConfiguredUrls \cup ToSet(dynamic) \cup BeingAdded
        /\ Cardinality(workers) =
               Len(Configured) + Len(dynamic) + Cardinality(BeingAdded)

\* No standby URL is lost: it waits in the list or the load balancer has it.
StandbyKept ==
    ~docker => ToSet(Standby) \subseteq Registered \cup ToSet(standby)

\* In either mode there are never more workers than AUTOSCALE_MAX_WORKERS, the
\* configured ones excepted, though Docker mode never deregisters one.
WithinMax ==
    Cardinality(workers) <= MaxWorkers \/ Cardinality(workers) = Len(Configured)

\* The list of containers names each at most once, and only such as exist: what
\* scale-down stops is a container of ours.  A running one has its worker.
SpawnedExist ==
    /\ IsInjective(spawned)
    /\ \A n \in ToSet(spawned) : container[n] # "none"
    /\ \A n \in Running : LocalUrl[n] \in Registered

-----------------------------------------------------------------------------
(* What the repository says and the code does not do.                      *)

\* docs/deployment.md: standby workers are registered "when the queue is deep".
DeepQueueAddsWorkers ==
    ~docker /\ Backlog >= UpThreshold =>
        <>(standby = <<>> \/ Cardinality(workers) >= MaxWorkers)
=============================================================================

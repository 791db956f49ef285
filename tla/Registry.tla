------------------------------ MODULE Registry ------------------------------
(***************************************************************************)
(* The dynamic worker registry: what the gateway keeps in Redis about the  *)
(* machines that join and leave, and the agents that announce themselves.  *)
(*                                                                         *)
(* A worker is registered by a key of its own and listed by a set of ids.  *)
(* Every operation is several Redis commands, each an action; any number   *)
(* of handlers, in any gateway, run them side by side.  An agent whose     *)
(* call timed out goes on, so its calls may overlap too.                   *)
(***************************************************************************)
EXTENDS Naturals

CONSTANTS
    Workers,    \* worker ids
    Handlers,   \* slots for handlers under way, a bound
    MaxFaults,  \* bound: handlers that die half-way
    NoWorker,   \* the absence of a worker
    NoRecord    \* the absence of a record

ASSUME RegistryConstants ==
    /\ MaxFaults \in Nat
    /\ NoWorker \notin Workers
    /\ NoRecord \notin Handlers

VARIABLES
    key,        \* the record at each worker's key: which handler's registered_at
    ids,        \* the set WORKERS_SET_KEY
    agent,      \* is the worker's agent running?
    at,         \* the next Redis command of each handler
    worker,     \* the worker it is about
    found,      \* register: the existing record
    todo,       \* list: the members read, then the ghosts among them
    faults      \* faults so far

redisVars   == <<key, ids>>
handlerVars == <<at, worker, found, todo>>
vars        == <<redisVars, agent, handlerVars, faults>>

Init ==
    /\ key = [w \in Workers |-> NoRecord]
    /\ ids = {}
    /\ agent = [w \in Workers |-> FALSE]
    /\ at = [h \in Handlers |-> "idle"]
    /\ worker = [h \in Handlers |-> NoWorker]
    /\ found = [h \in Handlers |-> NoRecord]
    /\ todo = [h \in Handlers |-> {}]
    /\ faults = 0

Begin(h, command, w) ==
    /\ at[h] = "idle"
    /\ at' = [at EXCEPT ![h] = command]
    /\ worker' = [worker EXCEPT ![h] = w]
    /\ UNCHANGED <<redisVars, found, todo, faults>>

\* The handler returns, or dies.
Return(h) ==
    /\ at' = [at EXCEPT ![h] = "idle"]
    /\ worker' = [worker EXCEPT ![h] = NoWorker]
    /\ found' = [found EXCEPT ![h] = NoRecord]
    /\ todo' = [todo EXCEPT ![h] = {}]

-----------------------------------------------------------------------------
(* The agent: it registers when it starts, again at every interval, and     *)
(* deregisters when it is stopped, unless told not to, or killed.           *)

Announce(w, h) ==
    /\ agent' = [agent EXCEPT ![w] = TRUE]
    /\ Begin(h, "get", w)

Heartbeat(w, h) == agent[w] /\ Announce(w, h)

Leave(w, h) ==
    /\ agent[w]
    /\ agent' = [agent EXCEPT ![w] = FALSE]
    /\ Begin(h, "del", w)

Vanish(w) ==
    /\ agent[w]
    /\ agent' = [agent EXCEPT ![w] = FALSE]
    /\ UNCHANGED <<redisVars, handlerVars, faults>>

\* Other callers of the routes: DELETE /registry/{worker_id}, GET /registry.
Remove(w, h) == Begin(h, "del", w) /\ UNCHANGED agent
List(h) == Begin(h, "smembers", NoWorker) /\ UNCHANGED agent

-----------------------------------------------------------------------------
(* register.                                                               *)

GetExisting(h) ==
    /\ at[h] = "get"
    /\ found' = [found EXCEPT ![h] = key[worker[h]]]
    /\ at' = [at EXCEPT ![h] = "set"]
    /\ UNCHANGED <<redisVars, agent, worker, todo, faults>>

\* Mutant of SetKey: a worker that was known is not added to the set again.
SetKeyOfKnown(h) ==
    /\ at[h] = "set"
    /\ key' = [key EXCEPT ![worker[h]] = IF found[h] = NoRecord THEN h ELSE found[h]]
    /\ IF found[h] = NoRecord
       THEN at' = [at EXCEPT ![h] = "sadd"] /\ UNCHANGED <<worker, found, todo>>
       ELSE Return(h)
    /\ UNCHANGED <<ids, agent, faults>>

\* Mutant of SetKey: the record is written as it came, a new registered_at in it.
SetKeyAfresh(h) ==
    /\ at[h] = "set"
    /\ key' = [key EXCEPT ![worker[h]] = h]
    /\ at' = [at EXCEPT ![h] = "sadd"]
    /\ UNCHANGED <<ids, agent, worker, found, todo, faults>>

\* The existing record's registered_at is kept.
SetKey(h) ==
    /\ at[h] = "set"
    /\ key' = [key EXCEPT ![worker[h]] = IF found[h] = NoRecord THEN h ELSE found[h]]
    /\ at' = [at EXCEPT ![h] = "sadd"]
    /\ UNCHANGED <<ids, agent, worker, found, todo, faults>>

AddId(h) ==
    /\ at[h] = "sadd"
    /\ ids' = ids \cup {worker[h]}
    /\ Return(h)
    /\ UNCHANGED <<key, agent, faults>>

-----------------------------------------------------------------------------
(* list_workers.                                                           *)

ReadMembers(h) ==
    /\ at[h] = "smembers"
    /\ \/ /\ ids = {}
          /\ Return(h)
       \/ /\ ids # {}
          /\ todo' = [todo EXCEPT ![h] = ids]
          /\ at' = [at EXCEPT ![h] = "mget"]
          /\ UNCHANGED <<worker, found>>
    /\ UNCHANGED <<redisVars, agent, faults>>

\* Mutant of ReadRecords: holes are skipped and left in the set.
ReadRecordsOnly(h) ==
    /\ at[h] = "mget"
    /\ Return(h)
    /\ UNCHANGED <<redisVars, agent, faults>>

\* Mutant of ReadRecords: the loop is entered whether there are ghosts or not.
ReadRecordsUnchecked(h) ==
    /\ at[h] = "mget"
    /\ todo' = [todo EXCEPT ![h] = {w \in @ : key[w] = NoRecord}]
    /\ at' = [at EXCEPT ![h] = "srem"]
    /\ UNCHANGED <<redisVars, agent, worker, found, faults>>

\* MGET; the members whose key is gone are ghosts.
ReadRecords(h) ==
    LET ghosts == {w \in todo[h] : key[w] = NoRecord}
    IN  /\ at[h] = "mget"
        /\ \/ ghosts = {} /\ Return(h)
           \/ /\ ghosts # {}
              /\ todo' = [todo EXCEPT ![h] = ghosts]
              /\ at' = [at EXCEPT ![h] = "srem"]
              /\ UNCHANGED <<worker, found>>
        /\ UNCHANGED <<redisVars, agent, faults>>

\* One SREM for each ghost, without another look at its key.
DropGhost(h) ==
    /\ at[h] = "srem"
    /\ \E w \in todo[h] :
          /\ ids' = ids \ {w}
          /\ IF todo[h] = {w} THEN Return(h)
             ELSE /\ todo' = [todo EXCEPT ![h] = @ \ {w}]
                  /\ UNCHANGED <<at, worker, found>>
    /\ UNCHANGED <<key, agent, faults>>

-----------------------------------------------------------------------------
(* deregister.                                                             *)

DeleteKey(h) ==
    /\ at[h] = "del"
    /\ key' = [key EXCEPT ![worker[h]] = NoRecord]
    /\ at' = [at EXCEPT ![h] = "drop"]
    /\ UNCHANGED <<ids, agent, worker, found, todo, faults>>

DropId(h) ==
    /\ at[h] = "drop"
    /\ ids' = ids \ {worker[h]}
    /\ Return(h)
    /\ UNCHANGED <<key, agent, faults>>

\* The gateway dies or a Redis command raises: the rest is not done.
Die(h) ==
    /\ faults < MaxFaults
    /\ at[h] # "idle"
    /\ faults' = faults + 1
    /\ Return(h)
    /\ UNCHANGED <<redisVars, agent>>

-----------------------------------------------------------------------------
Command(h) ==
    \/ GetExisting(h) \/ SetKey(h) \/ AddId(h)
    \/ ReadMembers(h) \/ ReadRecords(h) \/ DropGhost(h)
    \/ DeleteKey(h) \/ DropId(h)

Next ==
    \/ \E w \in Workers, h \in Handlers : Announce(w, h) \/ Leave(w, h) \/ Remove(w, h)
    \/ \E w \in Workers : Vanish(w)
    \/ \E h \in Handlers : List(h) \/ Command(h) \/ Die(h)

Spec == Init /\ [][Next]_vars

\* Handlers finish, a running agent keeps up its heartbeat, somebody asks for
\* the list now and then.  Strong fairness where a slot must be free: the number
\* of slots is a bound of the model, not of the gateway.
Fairness ==
    /\ \A h \in Handlers : WF_vars(Command(h))
    /\ \A w \in Workers : SF_vars(\E h \in Handlers : Heartbeat(w, h))
    /\ SF_vars(\E h \in Handlers : List(h))

FairSpec == Spec /\ Fairness

-----------------------------------------------------------------------------
\* Every variable has its type, and only list_workers has members to look at,
\* to the last of them.
TypeOK ==
    /\ key \in [Workers -> Handlers \cup {NoRecord}]
    /\ ids \in SUBSET Workers
    /\ agent \in [Workers -> BOOLEAN]
    /\ at \in [Handlers -> {"idle", "get", "set", "sadd", "smembers", "mget", "srem",
                            "del", "drop"}]
    /\ worker \in [Handlers -> Workers \cup {NoWorker}]
    /\ found \in [Handlers -> Handlers \cup {NoRecord}]
    /\ todo \in [Handlers -> SUBSET Workers]
    /\ \A h \in Handlers : todo[h] # {} <=> at[h] \in {"mget", "srem"}
    /\ faults \in 0 .. MaxFaults

Deregistering(w) == \E h \in Handlers : at[h] \in {"del", "drop"} /\ worker[h] = w

\* Every registration of the worker under way that has looked for a record has
\* found the one that is there.
Settled(w) ==
    /\ key[w] # NoRecord
    /\ \A h \in Handlers : at[h] = "set" /\ worker[h] = w => found[h] = key[w]

\* register's docstring: a machine that registers again "keeps its original
\* registered_at".  So it is once the registrations that raced to be the first,
\* or with a deregistration, are over: then heartbeats, however they overlap or
\* die, leave registered_at alone as long as nobody removes the record.
RegisteredAtKept ==
    [][\A w \in Workers :
          Settled(w) /\ key'[w] # NoRecord => key'[w] = key[w] /\ Settled(w)']_vars

\* A worker whose agent keeps running, and whom nobody removes any more, ends up
\* registered and listed for good, whatever lists, late commands and crashed
\* handlers took away: the heartbeat does the whole registration again.
HeartbeatHeals ==
    \A w \in Workers :
        <>[](agent[w] /\ ~Deregistering(w)) => <>[](key[w] # NoRecord /\ w \in ids)

\* A worker without a record does not stay in the set of ids: lists drop it,
\* though a late SADD may have put it there after everything else.
GhostsGo == \A w \in Workers : <>[](key[w] = NoRecord) => <>[](w \notin ids)

=============================================================================

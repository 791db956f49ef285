--------------------------- MODULE RegistryProofs ---------------------------
(***************************************************************************)
(* Proofs about Registry, for any number of workers, handlers and faults:  *)
(* its types, and that heartbeats keep the time of registration however    *)
(* the registrations of one worker overlap.                                *)
(***************************************************************************)
EXTENDS Registry, TLAPS

\* The commands that name a worker.
Addressed == {"get", "set", "sadd", "del", "drop"}

\* A handler that is about to send such a command has a worker to name: the key
\* it reads, writes or deletes is one of the registry's.
WorkerKnown == \A h \in Handlers : at[h] \in Addressed => worker[h] \in Workers

RegInv == TypeOK /\ WorkerKnown

USE RegistryConstants

\* Nothing is registered, and no handler runs.
LEMMA InitRegInv == Init => RegInv
  BY DEF Init, RegInv, TypeOK, WorkerKnown, Addressed

\* A route starts a handler, with the worker its command names or without one.
LEMMA BeginRegInv ==
  ASSUME RegInv, NEW h \in Handlers, NEW command, NEW w \in Workers \cup {NoWorker},
         \/ command \in Addressed /\ w \in Workers
         \/ command = "smembers",
         Begin(h, command, w), agent' \in [Workers -> BOOLEAN]
  PROVE  RegInv'
<1>1. TypeOK'
  BY DEF Begin, RegInv, TypeOK, Addressed, redisVars
<1>2. WorkerKnown'
  BY DEF Begin, RegInv, TypeOK, WorkerKnown, Addressed
<1> QED
  BY <1>1, <1>2 DEF RegInv

\* A handler's command keeps the types, whichever it is.
LEMMA CommandRegInv ==
  ASSUME RegInv, NEW h \in Handlers, Command(h)
  PROVE  RegInv'
<1> USE DEF RegInv, TypeOK, WorkerKnown, Addressed, redisVars, Return
<1>1. CASE GetExisting(h)
  BY <1>1 DEF GetExisting
<1>2. CASE SetKey(h)
  BY <1>2 DEF SetKey
<1>3. CASE AddId(h)
  BY <1>3 DEF AddId
<1>4. CASE ReadMembers(h)
  BY <1>4 DEF ReadMembers
<1>5. CASE ReadRecords(h)
  BY <1>5 DEF ReadRecords
<1>6. CASE DropGhost(h)
  BY <1>6 DEF DropGhost
<1>7. CASE DeleteKey(h)
  BY <1>7 DEF DeleteKey
<1>8. CASE DropId(h)
  BY <1>8 DEF DropId
<1> QED
  BY <1>1, <1>2, <1>3, <1>4, <1>5, <1>6, <1>7, <1>8 DEF Command

\* Every step keeps the types and the worker of every command under way.
LEMMA NextRegInv ==
  ASSUME RegInv, [Next]_vars
  PROVE  RegInv'
<1>1. ASSUME NEW w \in Workers, NEW h \in Handlers, Announce(w, h)
      PROVE  RegInv'
  <2>1. agent' \in [Workers -> BOOLEAN]
    BY <1>1 DEF Announce, RegInv, TypeOK
  <2> QED
    BY <1>1, <2>1, BeginRegInv DEF Announce, Addressed
<1>2. ASSUME NEW w \in Workers, NEW h \in Handlers, Leave(w, h)
      PROVE  RegInv'
  <2>1. agent' \in [Workers -> BOOLEAN]
    BY <1>2 DEF Leave, RegInv, TypeOK
  <2> QED
    BY <1>2, <2>1, BeginRegInv DEF Leave, Addressed
<1>3. ASSUME NEW w \in Workers, NEW h \in Handlers, Remove(w, h)
      PROVE  RegInv'
  BY <1>3, BeginRegInv DEF Remove, RegInv, TypeOK, Addressed
<1>4. ASSUME NEW w \in Workers, Vanish(w)
      PROVE  RegInv'
  BY <1>4 DEF Vanish, RegInv, TypeOK, WorkerKnown, redisVars, handlerVars
<1>5. ASSUME NEW h \in Handlers, List(h)
      PROVE  RegInv'
  BY <1>5, BeginRegInv DEF List, RegInv, TypeOK
<1>6. ASSUME NEW h \in Handlers, Die(h)
      PROVE  RegInv'
  BY <1>6 DEF Die, Return, RegInv, TypeOK, WorkerKnown, Addressed, redisVars
<1>7. CASE UNCHANGED vars
  BY <1>7 DEF vars, redisVars, handlerVars, RegInv, TypeOK, WorkerKnown
<1> QED
  BY <1>1, <1>2, <1>3, <1>4, <1>5, <1>6, <1>7, CommandRegInv DEF Next

\* Every variable has its type, and list_workers has members to look at until
\* it returns: for any number of workers and handlers, whenever they die.
THEOREM TypeCorrect == Spec => []TypeOK
<1>1. RegInv => TypeOK
  BY DEF RegInv
<1> QED
  BY <1>1, InitRegInv, NextRegInv, PTL DEF Spec

-----------------------------------------------------------------------------
\* One step: once every registration of a worker that has looked for a record
\* has found the present one, no step replaces its registered_at, and the
\* registrations stay so, unless the record goes.
LEMMA StepKeepsRegisteredAt ==
  ASSUME RegInv, [Next]_vars, NEW w \in Workers, Settled(w), key'[w] # NoRecord
  PROVE  key'[w] = key[w] /\ Settled(w)'
<1> USE DEF RegInv, TypeOK, Settled
\* A route starts a handler, which has read nothing yet.
<1>1. ASSUME NEW h \in Handlers, NEW command, NEW v, command # "set", Begin(h, command, v)
      PROVE  key'[w] = key[w] /\ Settled(w)'
  BY <1>1 DEF Begin, redisVars
<1>2. ASSUME NEW v \in Workers, NEW h \in Handlers,
             Announce(v, h) \/ Leave(v, h) \/ Remove(v, h) \/ List(h)
      PROVE  key'[w] = key[w] /\ Settled(w)'
  BY ONLY <1>2, <1>1 DEF Announce, Leave, Remove, List
\* It reads the record.
<1>3. ASSUME NEW h \in Handlers, GetExisting(h)
      PROVE  key'[w] = key[w] /\ Settled(w)'
  BY <1>3 DEF GetExisting, redisVars
\* It writes a record with the registered_at it has read.
<1>4. ASSUME NEW h \in Handlers, SetKey(h)
      PROVE  key'[w] = key[w] /\ Settled(w)'
  BY <1>4 DEF SetKey
\* The other commands write no record.
<1>5. ASSUME NEW h \in Handlers,
             AddId(h) \/ ReadMembers(h) \/ ReadRecords(h) \/ DropGhost(h)
               \/ DropId(h) \/ Die(h)
      PROVE  key'[w] = key[w] /\ Settled(w)'
  BY <1>5 DEF AddId, ReadMembers, ReadRecords, DropGhost, DropId, Die, Return, redisVars
\* A record that is deleted is another worker's.
<1>6. ASSUME NEW h \in Handlers, DeleteKey(h)
      PROVE  key'[w] = key[w] /\ Settled(w)'
  BY <1>6 DEF DeleteKey
<1>7. ASSUME NEW v \in Workers, Vanish(v)
      PROVE  key'[w] = key[w] /\ Settled(w)'
  BY <1>7 DEF Vanish, redisVars, handlerVars
<1>8. CASE UNCHANGED vars
  BY <1>8 DEF vars, redisVars, handlerVars
<1> QED
  BY <1>2, <1>3, <1>4, <1>5, <1>6, <1>7, <1>8 DEF Next, Command

\* A worker that keeps registering keeps its registered_at, whatever overlaps
\* or dies, as long as the record is there.
THEOREM RegisteredAtStays == Spec => RegisteredAtKept
<1>1. RegInv /\ [Next]_vars =>
        [\A w \in Workers :
           Settled(w) /\ key'[w] # NoRecord => key'[w] = key[w] /\ Settled(w)']_vars
  BY StepKeepsRegisteredAt
<1> QED
  BY <1>1, InitRegInv, NextRegInv, PTL DEF Spec, RegisteredAtKept
=============================================================================

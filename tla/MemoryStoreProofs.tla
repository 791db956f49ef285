-------------------------- MODULE MemoryStoreProofs --------------------------
(***************************************************************************)
(* Proofs about the table of MemoryStore, and about what a retrieval makes *)
(* of it, for any number of memories and callers, any costs and rankings,  *)
(* and any bounds.                                                         *)
(***************************************************************************)
EXTENDS MemoryStore, PackingProofs, FiniteSetTheorems, TLAPS

USE MemoryConstants

-----------------------------------------------------------------------------
(* The inductive invariant.                                                *)

\* Nothing has been done with this memory but, perhaps, its construction.
Unread(m) ==
    /\ m \notin Rows
    /\ returned[m] = 0
    /\ \A c \in Callers : given[c][m] = 0 /\ (pc[c] = "update" => item[c] # m)

\* A row is inserted once, before anybody reads it.
InsertedOnce ==
    /\ \A m \in Memories \ made : Unread(m) /\ \A c \in Callers : item[c] # m
    /\ \A c \in Callers, m \in Memories : pc[c] = "insert" /\ item[c] = m =>
          /\ Unread(m)
          /\ \A d \in Callers \ {c} : pc[d] = "insert" => item[d] # m

\* No time that was written or read is in the future.
TimesPassed ==
    /\ \A c \in Callers : stamp[c] <= clock
    /\ \A m \in Rows : table[m].used <= clock
    /\ \A c \in Callers : pc[c] = "update" => read[c].used <= stamp[c]

\* A count in the table is at least every copy of it and everything given away;
\* a copy is at least what its reader was given before.
CountsGrow ==
    /\ \A m \in Rows, c \in Callers : given[c][m] <= table[m].count
    /\ \A c \in Callers : pc[c] = "update" =>
          /\ given[c][item[c]] <= read[c].count
          /\ item[c] \in Rows => read[c].count <= table[item[c]].count

IInv ==
    /\ TypeOK
    /\ InsertedOnce
    /\ TimesPassed
    /\ CountsGrow
    /\ NothingVanishes
    /\ EveryGetCounted

-----------------------------------------------------------------------------
(* What single steps do.                                                   *)

\* Read, written and purged rows: which actions there are.
LEMMA StepCases ==
    ASSUME [Next]_vars
    PROVE  \/ \E c \in Callers, m \in Memories : Construct(c, m) \/ Select(c, m) \/ Delete(c, m)
           \/ \E c \in Callers : Insert(c) \/ Update(c) \/ StartPurge(c) \/ Purge(c) \/ Fail(c)
           \/ Tick
           \/ UNCHANGED vars
BY DEF Next

\* A row is a record of two numbers.
LEMMA RowFields ==
    ASSUME TypeOK
    PROVE  /\ \A m \in Rows : table[m] \in Row /\ table[m].used \in Nat /\ table[m].count \in Nat
           /\ \A c \in Callers : pc[c] = "update" =>
                 read[c] \in Row /\ read[c].used \in Nat /\ read[c].count \in Nat
           /\ \A u, n \in Nat : [used |-> u, count |-> n] \in Row /\ [used |-> u, count |-> n] # NoRow
BY DEF TypeOK, Rows, Row

\* Every step keeps the types.
LEMMA TypeStep == TypeOK /\ InsertedOnce /\ [Next]_vars => TypeOK'
<1> SUFFICES ASSUME TypeOK, InsertedOnce, [Next]_vars
             PROVE  TypeOK'
  OBVIOUS
<1>1. ASSUME NEW c \in Callers, NEW m \in Memories, Construct(c, m)
      PROVE  TypeOK'
  BY <1>1 DEF TypeOK, Construct, Hold
<1>2. ASSUME NEW c \in Callers, Insert(c)
      PROVE  TypeOK'
  <2>1. /\ item[c] \in made /\ item[c] \in Memories /\ stamp[c] \in Nat
        /\ [used |-> stamp[c], count |-> 0] \in Row
    BY <1>2, RowFields DEF TypeOK, Insert
  <2>2. table' \in [Memories -> Row \cup {NoRow}] /\ recorded' \in SUBSET made'
    BY <1>2, <2>1 DEF TypeOK, Insert
  <2> QED
    BY <1>2, <2>2 DEF TypeOK, Insert, Return
<1>3. ASSUME NEW c \in Callers, NEW m \in Memories, Select(c, m)
      PROVE  TypeOK'
  <2>1. table[m] \in Row /\ table[m] # NoRow /\ m \in made
    BY <1>3, RowFields DEF Select, InsertedOnce, Unread, Rows
  <2> QED
    BY <1>3, <2>1 DEF TypeOK, Select, Hold, historyVars
<1>4. ASSUME NEW c \in Callers, Update(c)
      PROVE  TypeOK'
  <2>1. item[c] \in Memories /\ stamp[c] \in Nat /\ read[c].count \in Nat
    BY <1>4, RowFields DEF TypeOK, Update
  <2>2. table' \in [Memories -> Row \cup {NoRow}]
    <3>1. CASE item[c] \notin Rows
      BY <1>4, <3>1 DEF TypeOK, Update
    <3>2. CASE item[c] \in Rows
      <4>1. table[item[c]].count + 1 \in Nat
        BY <3>2, RowFields
      <4>2. [used |-> stamp[c], count |-> table[item[c]].count + 1] \in Row
        BY <2>1, <4>1, RowFields
      <4>3. table' = [table EXCEPT ![item[c]] =
                          [used |-> stamp[c], count |-> table[item[c]].count + 1]]
        BY <1>4, <3>2 DEF Update
      <4> QED
        BY <2>1, <4>2, <4>3 DEF TypeOK
    <3> QED
      BY <3>1, <3>2
  <2>3. returned' \in [Memories -> Nat] /\ given' \in [Callers -> [Memories -> Nat]]
    <3>1. CASE UNCHANGED <<returned, given>>
      BY <3>1 DEF TypeOK
    <3>2. CASE Give(c)
      <4>1. returned[item[c]] + 1 \in Nat /\ read[c].count + 1 \in Nat
        BY <2>1 DEF TypeOK
      <4>2. /\ returned' = [returned EXCEPT ![item[c]] = returned[item[c]] + 1]
            /\ given' = [given EXCEPT ![c][item[c]] = read[c].count + 1]
        BY <3>2 DEF Give
      <4> QED
        BY <2>1, <4>1, <4>2 DEF TypeOK
    <3> QED
      BY <1>4, <3>1, <3>2 DEF Update
  <2> QED
    BY <1>4, <2>2, <2>3 DEF TypeOK, Update, Return
<1>5. ASSUME NEW c \in Callers, NEW m \in Memories, Delete(c, m)
      PROVE  TypeOK'
  BY <1>5 DEF TypeOK, Delete, callerVars
<1>6. ASSUME NEW c \in Callers, StartPurge(c)
      PROVE  TypeOK'
  BY <1>6 DEF TypeOK, StartPurge, Hold, historyVars
<1>7. ASSUME NEW c \in Callers, Purge(c)
      PROVE  TypeOK'
  BY <1>7 DEF TypeOK, Purge, Return, historyVars
<1>8. ASSUME NEW c \in Callers, Fail(c)
      PROVE  TypeOK'
  BY <1>8 DEF TypeOK, Fail, Return, historyVars
<1>9. CASE Tick
  BY <1>9 DEF TypeOK, Tick, callerVars, historyVars
<1>10. CASE UNCHANGED vars
  BY <1>10 DEF TypeOK, vars, callerVars, historyVars
<1> QED
  BY StepCases, <1>1, <1>2, <1>3, <1>4, <1>5, <1>6, <1>7, <1>8, <1>9, <1>10

-----------------------------------------------------------------------------
(* Inserted once.                                                          *)

\* What a caller is about to do, it was about to do before, or it has just begun.
LEMMA ItemsKept ==
    ASSUME TypeOK, [Next]_vars, NEW c \in Callers, pc'[c] \in {"insert", "update"}
    PROVE  \/ /\ pc'[c] = pc[c] /\ item'[c] = item[c]
              /\ stamp'[c] = stamp[c] /\ read'[c] = read[c]
              /\ ~Insert(c) /\ ~Update(c)
           \/ /\ pc'[c] = "insert"
              /\ \E m \in Memories : Construct(c, m) /\ item'[c] = m
           \/ /\ pc'[c] = "update"
              /\ \E m \in Memories : Select(c, m) /\ item'[c] = m
<1>1. ASSUME NEW d \in Callers, NEW m \in Memories, Construct(d, m) \/ Select(d, m), d # c
      PROVE  /\ pc'[c] = pc[c] /\ item'[c] = item[c]
             /\ stamp'[c] = stamp[c] /\ read'[c] = read[c]
  BY <1>1 DEF TypeOK, Construct, Select, Hold
<1>2. ASSUME NEW m \in Memories, Construct(c, m) \/ Select(c, m)
      PROVE  /\ item'[c] = m
             /\ Construct(c, m) => pc'[c] = "insert"
             /\ Select(c, m) => pc'[c] = "update"
  BY <1>2 DEF TypeOK, Construct, Select, Hold
<1>3. ASSUME NEW d \in Callers, NEW m \in Memories, Delete(d, m)
      PROVE  UNCHANGED callerVars
  BY <1>3 DEF Delete
<1>4. ASSUME NEW d \in Callers, Insert(d) \/ Update(d) \/ Purge(d) \/ Fail(d)
      PROVE  /\ pc'[d] = "idle"
             /\ d # c => /\ pc'[c] = pc[c] /\ item'[c] = item[c]
                         /\ stamp'[c] = stamp[c] /\ read'[c] = read[c]
  BY <1>4 DEF TypeOK, Insert, Update, Purge, Fail, Return
<1>5. ASSUME NEW d \in Callers, StartPurge(d)
      PROVE  /\ pc'[d] = "purge"
             /\ d # c => /\ pc'[c] = pc[c] /\ item'[c] = item[c]
                         /\ stamp'[c] = stamp[c] /\ read'[c] = read[c]
  BY <1>5 DEF TypeOK, StartPurge, Hold
<1>6. Insert(c) \/ Update(c) => pc'[c] = "idle"
  BY <1>4
<1> QED
  BY StepCases, <1>1, <1>2, <1>3, <1>4, <1>5, <1>6 DEF Tick, vars, callerVars

\* Only the INSERT of a memory makes something of it that nobody has read.
LEMMA UnreadStays ==
    ASSUME TypeOK, [Next]_vars, NEW m \in Memories, Unread(m),
           \A c \in Callers : Insert(c) => item[c] # m
    PROVE  Unread(m)'
<1>1. table'[m] = NoRow
  <2>1. table[m] = NoRow
    BY DEF Unread, Rows
  <2>2. ASSUME NEW c \in Callers, Insert(c) \/ Update(c) \/ Purge(c)
        PROVE  table'[m] = NoRow
    <3>1. CASE Insert(c)
      BY <2>1, <3>1 DEF Insert, TypeOK
    <3>2. CASE Update(c)
      <4>1. item[c] # m
        BY <3>2 DEF Update, Unread
      <4> QED
        BY <2>1, <3>2, <4>1 DEF Update, TypeOK
    <3>3. CASE Purge(c)
      BY <2>1, <3>3 DEF Purge
    <3> QED
      BY <2>2, <3>1, <3>2, <3>3
  <2>3. ASSUME NEW c \in Callers, NEW n \in Memories, Delete(c, n)
        PROVE  table'[m] = NoRow
    BY <2>1, <2>3 DEF Delete, TypeOK
  <2> QED
    BY StepCases, <2>1, <2>2, <2>3
       DEF Construct, Select, StartPurge, Fail, Tick, vars
<1>2. returned'[m] = 0 /\ \A c \in Callers : given'[c][m] = 0
  <2>1. ASSUME NEW c \in Callers, Update(c)
        PROVE  returned'[m] = returned[m] /\ \A d \in Callers : given'[d][m] = given[d][m]
    <3>1. item[c] # m
      BY <2>1 DEF Update, Unread
    <3>2. CASE UNCHANGED <<returned, given>>
      BY <3>2
    <3>3. CASE Give(c)
      <4>1. returned' = [returned EXCEPT ![item[c]] = @ + 1]
        BY <3>3 DEF Give
      <4>2. given' = [given EXCEPT ![c][item[c]] = read[c].count + 1]
        BY <3>3 DEF Give
      <4>3. returned'[m] = returned[m]
        BY <3>1, <4>1 DEF TypeOK
      <4>4. \A d \in Callers : given'[d][m] = given[d][m]
        BY <3>1, <4>2 DEF TypeOK
      <4> QED
        BY <4>3, <4>4
    <3> QED
      BY <2>1, <3>2, <3>3 DEF Update
  <2>2. CASE UNCHANGED <<returned, given>>
    BY <2>2 DEF Unread
  <2> QED
    BY StepCases, <2>1, <2>2 DEF Unread, Construct, Select, Delete, Insert, StartPurge, Purge,
       Fail, Tick, vars, historyVars
<1>3. ASSUME NEW c \in Callers, pc'[c] = "update"
      PROVE  item'[c] # m
  BY <1>3, ItemsKept DEF Unread, Select
<1> QED
  BY <1>1, <1>2, <1>3 DEF Unread, Rows

\* A memory is constructed once, and inserted by who constructed it.
LEMMA InsertedOnceStep == TypeOK /\ InsertedOnce /\ [Next]_vars => InsertedOnce'
<1> SUFFICES ASSUME TypeOK, InsertedOnce, [Next]_vars
             PROVE  InsertedOnce'
  OBVIOUS
<1>1. made \subseteq made'
  BY StepCases DEF Construct, Select, Delete, Insert, Update, StartPurge, Purge, Fail, Tick,
     vars, historyVars
<1>2. ASSUME NEW m \in Memories, m \notin made'
      PROVE  Unread(m)' /\ \A c \in Callers : item'[c] # m
  <2>1. Unread(m) /\ \A c \in Callers : item[c] # m
    BY <1>1, <1>2 DEF InsertedOnce
  <2>2. Unread(m)'
    BY <2>1, UnreadStays
  <2>3. ASSUME NEW c \in Callers, NEW n \in Memories, Construct(c, n) \/ Select(c, n)
        PROVE  n # m
    BY <1>2, <2>1, <2>3 DEF Construct, Select, Unread
  <2>4. ASSUME NEW c \in Callers
        PROVE  item'[c] # m
    <3>1. ASSUME NEW d \in Callers, NEW n \in Memories, Construct(d, n) \/ Select(d, n)
          PROVE  item'[c] = item[c] \/ item'[c] = n
      BY <3>1 DEF Construct, Select, Hold, TypeOK
    <3>2. ASSUME NEW d \in Callers, Insert(d) \/ Update(d) \/ StartPurge(d) \/ Purge(d) \/ Fail(d)
          PROVE  item'[c] = item[c] \/ item'[c] = NoMemory
      BY <3>2 DEF Insert, Update, StartPurge, Purge, Fail, Hold, Return, TypeOK
    <3> QED
      BY StepCases, <2>1, <2>3, <3>1, <3>2 DEF Delete, Tick, vars, callerVars
  <2> QED
    BY <2>2, <2>4
<1>3. ASSUME NEW c \in Callers, NEW m \in Memories, pc'[c] = "insert", item'[c] = m
      PROVE  Unread(m)' /\ \A d \in Callers \ {c} : pc'[d] = "insert" => item'[d] # m
  <2>1. CASE Construct(c, m)
    <3>1. Unread(m) /\ \A d \in Callers : item[d] # m
      BY <2>1 DEF Construct, InsertedOnce
    <3>2. Unread(m)'
      BY <3>1, UnreadStays
    <3>3. \A d \in Callers \ {c} : item'[d] = item[d]
      BY <2>1 DEF Construct, Hold, TypeOK
    <3> QED
      BY <3>1, <3>2, <3>3
  <2>2. CASE pc[c] = "insert" /\ item[c] = m /\ ~Insert(c)
    <3>1. m \in made /\ Unread(m)
      BY <2>2 DEF TypeOK, InsertedOnce
    <3>2. ASSUME NEW d \in Callers, Insert(d)
          PROVE  item[d] # m
      BY <2>2, <3>2 DEF Insert, InsertedOnce
    <3>3. Unread(m)'
      BY <3>1, <3>2, UnreadStays
    <3>4. ASSUME NEW d \in Callers \ {c}, pc'[d] = "insert"
          PROVE  item'[d] # m
      <4>1. CASE pc[d] = "insert" /\ item'[d] = item[d]
        BY <2>2, <4>1 DEF InsertedOnce
      <4>2. CASE \E n \in Memories : Construct(d, n) /\ item'[d] = n
        BY <3>1, <4>2 DEF Construct
      <4> QED
        BY <3>4, <4>1, <4>2, ItemsKept
    <3> QED
      BY <3>3, <3>4
  <2> QED
    BY <1>3, <2>1, <2>2, ItemsKept
<1> QED
  BY <1>2, <1>3 DEF InsertedOnce

-----------------------------------------------------------------------------
(* Rows, and what callers are given.                                       *)

\* A row is as it was, or has just been inserted, or updated.
LEMMA RowSteps ==
    ASSUME TypeOK, [Next]_vars, NEW m \in Memories, table'[m] # NoRow
    PROVE  \/ m \in Rows /\ table'[m] = table[m] /\ \A c \in Callers : Update(c) => item[c] # m
           \/ \E c \in Callers : /\ Insert(c) /\ item[c] = m
                                 /\ table'[m] = [used |-> stamp[c], count |-> 0]
           \/ \E c \in Callers : /\ Update(c) /\ item[c] = m /\ m \in Rows
                                 /\ table'[m] = [used |-> stamp[c], count |-> table[m].count + 1]
<1>1. ASSUME NEW c \in Callers, Insert(c)
      PROVE  table'[m] = IF item[c] = m THEN [used |-> stamp[c], count |-> 0] ELSE table[m]
  BY <1>1 DEF Insert, TypeOK
<1>2. ASSUME NEW c \in Callers, Update(c)
      PROVE  /\ item[c] = m =>
                   /\ m \in Rows
                   /\ table'[m] = [used |-> stamp[c], count |-> table[m].count + 1]
             /\ item[c] # m => table'[m] = table[m]
             /\ \A d \in Callers : Update(d) => d = c
  <2>1. \A d \in Callers : Update(d) => d = c
    BY <1>2 DEF Update, Return, TypeOK
  <2>2. CASE item[c] \in Rows
    <3>1. table' = [table EXCEPT ![item[c]] =
                        [used |-> stamp[c], count |-> table[item[c]].count + 1]]
      BY <1>2, <2>2 DEF Update
    <3> QED
      BY <2>1, <2>2, <3>1 DEF TypeOK
  <2>3. CASE item[c] \notin Rows
    <3>1. table' = table
      BY <1>2, <2>3 DEF Update
    <3>2. m \in Rows
      BY <3>1 DEF Rows
    <3> QED
      BY <2>1, <2>3, <3>1, <3>2
  <2> QED
    BY <2>2, <2>3
<1>3. ASSUME NEW c \in Callers, Purge(c)
      PROVE  table'[m] = table[m]
  BY <1>3 DEF Purge
<1>4. ASSUME NEW c \in Callers, NEW n \in Memories, Delete(c, n)
      PROVE  table'[m] = table[m]
  BY <1>4 DEF Delete, TypeOK
<1>5. (\E c \in Callers : Update(c)) \/ (\A c \in Callers : ~Update(c))
  OBVIOUS
<1>6. table'[m] = table[m] => m \in Rows
  BY DEF Rows
<1>7. CASE \A c \in Callers : ~Update(c)
  BY StepCases, <1>1, <1>3, <1>4, <1>6, <1>7 DEF Construct, Select, StartPurge, Fail, Tick, vars
<1>8. CASE \E c \in Callers : Update(c)
  <2>1. PICK c \in Callers : Update(c)
    BY <1>8
  <2>2. CASE item[c] = m
    BY <2>1, <2>2, <1>2
  <2>3. CASE item[c] # m
    BY <2>1, <2>3, <1>2, <1>6
  <2> QED
    BY <2>2, <2>3
<1> QED
  BY <1>7, <1>8

\* A caller is given nothing new of a memory, or what its get has read.
LEMMA GivenSteps ==
    ASSUME TypeOK, [Next]_vars, NEW m \in Memories
    PROVE  \/ /\ returned'[m] = returned[m]
              /\ \A c \in Callers : given'[c][m] = given[c][m]
           \/ \E c \in Callers :
                /\ Update(c) /\ item[c] = m
                /\ returned'[m] = returned[m] + 1
                /\ \A d \in Callers :
                      given'[d][m] = IF d = c THEN read[c].count + 1 ELSE given[d][m]
<1>1. CASE UNCHANGED <<returned, given>>
  BY <1>1
<1>2. ASSUME NEW c \in Callers, Update(c), Give(c)
      PROVE  \/ /\ returned'[m] = returned[m]
                /\ \A d \in Callers : given'[d][m] = given[d][m]
             \/ /\ item[c] = m
                /\ returned'[m] = returned[m] + 1
                /\ \A d \in Callers :
                      given'[d][m] = IF d = c THEN read[c].count + 1 ELSE given[d][m]
  <2>1. /\ item[c] \in Memories
        /\ returned' = [returned EXCEPT ![item[c]] = @ + 1]
        /\ given' = [given EXCEPT ![c][item[c]] = read[c].count + 1]
    BY <1>2 DEF Give, Update, TypeOK
  <2>2. CASE item[c] = m
    <3>1. returned'[m] = returned[m] + 1
      BY <2>1, <2>2 DEF TypeOK
    <3>2. \A d \in Callers : given'[d][m] = IF d = c THEN read[c].count + 1 ELSE given[d][m]
      BY <2>1, <2>2 DEF TypeOK
    <3> QED
      BY <2>2, <3>1, <3>2
  <2>3. CASE item[c] # m
    BY <2>1, <2>3 DEF TypeOK
  <2> QED
    BY <2>2, <2>3
<1>3. \/ UNCHANGED <<returned, given>>
      \/ \E c \in Callers : Update(c) /\ Give(c)
  BY StepCases DEF Construct, Select, Delete, Insert, Update, StartPurge, Purge, Fail, Tick,
     vars, historyVars
<1> QED
  BY <1>1, <1>2, <1>3

-----------------------------------------------------------------------------
(* The invariant is kept.                                                  *)

\* Time passes.
LEMMA ClockGrows ==
    ASSUME TypeOK, [Next]_vars
    PROVE  clock \in Nat /\ clock' \in Nat /\ clock <= clock'
<1>1. clock \in Nat
  BY DEF TypeOK
<1>2. CASE Tick
  <2>1. clock' = clock + 1
    BY <1>2 DEF Tick
  <2> QED
    BY <1>1, <2>1
<1>3. CASE clock' = clock
  BY <1>1, <1>3
<1>4. Tick \/ clock' = clock
  BY StepCases DEF Construct, Select, Delete, Insert, Update, StartPurge, Purge, Fail, vars
<1> QED
  BY <1>2, <1>3, <1>4

\* Time passes; what is written carries a time that was read before.
LEMMA TimesPassedStep == TypeOK /\ TimesPassed /\ [Next]_vars => TimesPassed'
<1> SUFFICES ASSUME TypeOK, TimesPassed, [Next]_vars
             PROVE  TimesPassed'
  OBVIOUS
<1>1. clock \in Nat /\ clock' \in Nat /\ clock <= clock'
  BY ClockGrows
<1>2. ASSUME NEW c \in Callers
      PROVE  stamp'[c] <= clock'
  <2>1. stamp[c] \in Nat /\ stamp[c] <= clock
    BY DEF TypeOK, TimesPassed
  <2>2. stamp'[c] \in {stamp[c], clock, 0}
    <3>1. ASSUME NEW d \in Callers, NEW m \in Memories, Construct(d, m) \/ Select(d, m)
          PROVE  stamp'[c] \in {stamp[c], clock}
      BY <3>1 DEF Construct, Select, Hold, TypeOK
    <3>2. ASSUME NEW d \in Callers, StartPurge(d)
          PROVE  stamp'[c] \in {stamp[c], clock}
      BY <3>2 DEF StartPurge, Hold, TypeOK
    <3>3. ASSUME NEW d \in Callers, Insert(d) \/ Update(d) \/ Purge(d) \/ Fail(d)
          PROVE  stamp'[c] \in {stamp[c], 0}
      BY <3>3 DEF Insert, Update, Purge, Fail, Return, TypeOK
    <3> QED
      BY StepCases, <3>1, <3>2, <3>3 DEF Delete, Tick, vars, callerVars
  <2> QED
    BY <1>1, <2>1, <2>2
<1>3. ASSUME NEW m \in Memories, table'[m] # NoRow
      PROVE  table'[m].used <= clock'
  <2>1. CASE m \in Rows /\ table'[m] = table[m]
    BY <1>1, <2>1, RowFields DEF TimesPassed
  <2>2. ASSUME NEW c \in Callers, table'[m].used = stamp[c]
        PROVE  table'[m].used <= clock'
    BY <1>1, <2>2 DEF TimesPassed, TypeOK
  <2>3. ASSUME NEW c \in Callers, table'[m] = [used |-> stamp[c], count |-> 0]
        PROVE  table'[m].used <= clock'
    BY <2>2, <2>3
  <2>4. ASSUME NEW c \in Callers,
               table'[m] = [used |-> stamp[c], count |-> table[m].count + 1]
        PROVE  table'[m].used <= clock'
    BY <2>2, <2>4
  <2> QED
    BY <1>3, <2>1, <2>3, <2>4, RowSteps
<1>4. ASSUME NEW c \in Callers, pc'[c] = "update"
      PROVE  read'[c].used <= stamp'[c]
  <2>1. ASSUME NEW m \in Memories, Select(c, m)
        PROVE  read'[c].used <= stamp'[c]
    <3>1. read'[c] = table[m] /\ stamp'[c] = clock /\ m \in Rows
      BY <2>1 DEF Select, Hold, TypeOK
    <3> QED
      BY <3>1 DEF TimesPassed
  <2> QED
    BY <1>4, <2>1, ItemsKept DEF TimesPassed
<1> QED
  BY <1>2, <1>3, <1>4 DEF TimesPassed, Rows

\* A get gives away one more than its copy, and adds one to what may be more.
LEMMA CountsGrowStep ==
    TypeOK /\ InsertedOnce /\ CountsGrow /\ [Next]_vars => CountsGrow'
<1> SUFFICES ASSUME TypeOK, InsertedOnce, CountsGrow, [Next]_vars
             PROVE  CountsGrow'
  OBVIOUS
<1>1. ASSUME NEW m \in Memories, table'[m] # NoRow, NEW c \in Callers
      PROVE  given'[c][m] <= table'[m].count
  <2>1. given[c][m] \in Nat
    BY DEF TypeOK
  <2>2. CASE m \in Rows /\ table'[m] = table[m] /\ \A d \in Callers : Update(d) => item[d] # m
    <3>1. given'[c][m] = given[c][m]
      BY <2>2, GivenSteps
    <3> QED
      BY <2>2, <3>1 DEF CountsGrow
  <2>3. ASSUME NEW d \in Callers, Insert(d), item[d] = m,
               table'[m] = [used |-> stamp[d], count |-> 0]
        PROVE  given'[c][m] <= table'[m].count
    <3>1. given[c][m] = 0 /\ given' = given
      BY <2>3 DEF Insert, InsertedOnce, Unread
    <3> QED
      BY <2>3, <3>1
  <2>4. ASSUME NEW d \in Callers, Update(d), item[d] = m, m \in Rows,
               table'[m] = [used |-> stamp[d], count |-> table[m].count + 1]
        PROVE  given'[c][m] <= table'[m].count
    <3>1. /\ read[d].count \in Nat /\ table[m].count \in Nat
          /\ read[d].count <= table[m].count /\ given[c][m] <= table[m].count
      BY <2>4, RowFields DEF Update, CountsGrow
    <3>2. given'[c][m] = given[c][m] \/ given'[c][m] = read[d].count + 1
      <4>1. \A e \in Callers : Update(e) => e = d
        BY <2>4 DEF Update, Return, TypeOK
      <4> QED
        BY <4>1, GivenSteps
    <3> QED
      BY <2>1, <2>4, <3>1, <3>2
  <2> QED
    BY <1>1, <2>2, <2>3, <2>4, RowSteps
<1>2. ASSUME NEW c \in Callers, NEW m \in Memories, pc'[c] = "update", item'[c] = m
      PROVE  /\ given'[c][m] <= read'[c].count
             /\ table'[m] # NoRow => read'[c].count <= table'[m].count
  <2>1. CASE /\ pc[c] = "update" /\ item[c] = m /\ read'[c] = read[c] /\ ~Update(c)
    <3>1. given'[c][m] = given[c][m]
      BY <2>1, GivenSteps
    <3>2. ASSUME table'[m] # NoRow
          PROVE  read[c].count <= table'[m].count
      <4>1. CASE m \in Rows /\ table'[m] = table[m]
        BY <2>1, <4>1 DEF CountsGrow
      <4>2. ASSUME NEW d \in Callers, Insert(d), item[d] = m
            PROVE  FALSE
        BY <2>1, <4>2 DEF Insert, InsertedOnce, Unread
      <4>3. ASSUME NEW d \in Callers, m \in Rows,
                   table'[m] = [used |-> stamp[d], count |-> table[m].count + 1]
            PROVE  read[c].count <= table'[m].count
        <5>1. read[c].count \in Nat /\ table[m].count \in Nat /\ read[c].count <= table[m].count
          BY <2>1, <4>3, RowFields DEF CountsGrow
        <5> QED
          BY <4>3, <5>1
      <4> QED
        BY <3>2, <4>1, <4>2, <4>3, RowSteps
    <3> QED
      BY <2>1, <3>1, <3>2 DEF CountsGrow
  <2>2. CASE Select(c, m)
    <3>1. /\ m \in Rows /\ read'[c] = table[m] /\ table' = table /\ given' = given
      BY <2>2 DEF Select, Hold, TypeOK, historyVars
    <3>2. table[m].count \in Nat /\ given[c][m] <= table[m].count
      BY <3>1, RowFields DEF CountsGrow
    <3> QED
      BY <3>1, <3>2
  <2> QED
    BY <1>2, <2>1, <2>2, ItemsKept
<1>3. ASSUME NEW c \in Callers, pc'[c] = "update"
      PROVE  item'[c] \in Memories
  BY <1>3, TypeStep DEF TypeOK
<1> QED
  BY <1>1, <1>2, <1>3 DEF CountsGrow, Rows

\* The UPDATE counts on the row, whatever the copy says.
LEMMA EveryGetCountedStep ==
    TypeOK /\ InsertedOnce /\ EveryGetCounted /\ [Next]_vars => EveryGetCounted'
<1> SUFFICES ASSUME TypeOK, InsertedOnce, EveryGetCounted, [Next]_vars,
                    NEW m \in Memories, table'[m] # NoRow
             PROVE  returned'[m] <= table'[m].count
  BY DEF EveryGetCounted, Rows
<1>1. returned[m] \in Nat
  BY DEF TypeOK
<1>2. CASE m \in Rows /\ table'[m] = table[m] /\ \A d \in Callers : Update(d) => item[d] # m
  BY <1>2, GivenSteps DEF EveryGetCounted
<1>3. ASSUME NEW d \in Callers, Insert(d), item[d] = m,
             table'[m] = [used |-> stamp[d], count |-> 0]
      PROVE  returned'[m] <= table'[m].count
  BY <1>3 DEF Insert, InsertedOnce, Unread
<1>4. ASSUME NEW d \in Callers, m \in Rows,
             table'[m] = [used |-> stamp[d], count |-> table[m].count + 1]
      PROVE  returned'[m] <= table'[m].count
  <2>1. table[m].count \in Nat /\ returned[m] <= table[m].count
    BY <1>4, RowFields DEF EveryGetCounted
  <2>2. returned'[m] = returned[m] \/ returned'[m] = returned[m] + 1
    BY GivenSteps
  <2> QED
    BY <1>1, <1>4, <2>1, <2>2
<1> QED
  BY <1>2, <1>3, <1>4, RowSteps

\* A purge takes what had expired when it looked at the clock, and so by now.
LEMMA NothingVanishesStep ==
    TypeOK /\ TimesPassed /\ NothingVanishes /\ [Next]_vars => NothingVanishes'
<1> SUFFICES ASSUME TypeOK, TimesPassed, NothingVanishes, [Next]_vars,
                    NEW m \in recorded', ~(m \in Rows)'
             PROVE  Ttl[m] # Forever /\ created'[m] + Ttl[m] <= clock'
  BY DEF NothingVanishes, Expired
<1> m \in Memories /\ table'[m] = NoRow
  <2>1. recorded' \subseteq Memories
    <3>1. recorded \subseteq Memories
      BY DEF TypeOK
    <3>2. ASSUME NEW c \in Callers, Insert(c)
          PROVE  recorded' \subseteq recorded \cup {item[c]} /\ item[c] \in Memories
      BY <3>2 DEF Insert, TypeOK
    <3>3. (\A c \in Callers : ~Insert(c)) => recorded' \subseteq recorded
      BY StepCases DEF Construct, Select, Delete, Update, StartPurge, Purge, Fail, Tick,
         vars, historyVars
    <3> QED
      BY <3>1, <3>2, <3>3
  <2> QED
    BY <2>1 DEF Rows
<1>1. m \in recorded
  <2>1. ASSUME NEW c \in Callers, Insert(c), m \notin recorded
        PROVE  FALSE
    <3>1. item[c] = m
      BY <2>1 DEF Insert
    <3> QED
      BY <2>1, <3>1, RowFields DEF Insert, TypeOK
  <2>2. (\A c \in Callers : ~Insert(c)) => recorded' \subseteq recorded
    BY StepCases DEF Construct, Select, Delete, Update, StartPurge, Purge, Fail, Tick,
       vars, historyVars
  <2> QED
    BY <2>1, <2>2
<1>2. created'[m] = created[m]
  <2>1. m \in made
    BY <1>1 DEF TypeOK
  <2>2. ASSUME NEW c \in Callers, NEW n \in Memories, Construct(c, n)
        PROVE  created'[m] = created[m]
    BY <2>1, <2>2 DEF Construct, TypeOK
  <2> QED
    BY StepCases, <2>2 DEF Select, Delete, Insert, Update, StartPurge, Purge, Fail, Tick, vars
<1>3. clock \in Nat /\ clock' \in Nat /\ clock <= clock' /\ created[m] \in Nat
  BY ClockGrows DEF TypeOK
<1>4. CASE m \notin Rows
  BY <1>1, <1>2, <1>3, <1>4 DEF NothingVanishes, Expired
<1>5. CASE m \in Rows
  <2>1. ~\E c \in Callers, n \in Memories : Delete(c, n)
    BY <1>1, <1>5 DEF Delete, Rows, TypeOK
  <2>2. ~\E c \in Callers : Insert(c)
    <3>1. ASSUME NEW c \in Callers, Insert(c)
          PROVE  [used |-> stamp[c], count |-> 0] # NoRow
      BY <3>1, RowFields DEF TypeOK
    <3> QED
      BY <1>5, <3>1 DEF Insert, Rows, TypeOK
  <2>3. ~\E c \in Callers : Update(c)
    <3> SUFFICES ASSUME NEW c \in Callers, Update(c)
                 PROVE  FALSE
      OBVIOUS
    <3>1. CASE item[c] \notin Rows
      BY <1>5, <3>1 DEF Update, Rows
    <3>2. CASE item[c] \in Rows
      <4>1. table' = [table EXCEPT ![item[c]] =
                          [used |-> stamp[c], count |-> table[item[c]].count + 1]]
        BY <3>2 DEF Update
      <4>2. [used |-> stamp[c], count |-> table[item[c]].count + 1] # NoRow
        BY <3>2, RowFields DEF TypeOK
      <4> QED
        BY <1>5, <3>2, <4>1, <4>2 DEF Rows, TypeOK
    <3> QED
      BY <3>1, <3>2
  <2>4. PICK c \in Callers : Purge(c)
    BY StepCases, <1>5, <2>1, <2>2, <2>3
       DEF Construct, Select, StartPurge, Fail, Tick, vars, Rows
  <2>5. Ttl[m] # Forever /\ created[m] + Ttl[m] <= stamp[c]
    BY <1>5, <2>4 DEF Purge, Expired, Rows
  <2>6. stamp[c] \in Nat /\ stamp[c] <= clock
    BY DEF TimesPassed, TypeOK
  <2> QED
    BY <1>2, <1>3, <2>5, <2>6
<1> QED
  BY <1>4, <1>5

-----------------------------------------------------------------------------
(* The theorems.                                                           *)

\* The invariant holds of an empty table.
LEMMA InitIInv == Init => IInv
<1> SUFFICES ASSUME Init
             PROVE  IInv
  OBVIOUS
<1>1. TypeOK
  BY DEF Init, TypeOK
<1>2. Rows = {}
  BY DEF Init, Rows
<1>3. InsertedOnce
  BY <1>2 DEF Init, InsertedOnce, Unread
<1>4. TimesPassed /\ CountsGrow /\ NothingVanishes /\ EveryGetCounted
  BY <1>2 DEF Init, TimesPassed, CountsGrow, NothingVanishes, EveryGetCounted
<1> QED
  BY <1>1, <1>3, <1>4 DEF IInv

\* The strengthened invariant: who may insert what, that no time is in the
\* future, and how copies of a count relate to the count.
THEOREM Invariance == Spec => []IInv
<1>1. IInv /\ [Next]_vars => IInv'
  BY TypeStep, InsertedOnceStep, TimesPassedStep, CountsGrowStep, NothingVanishesStep,
     EveryGetCountedStep DEF IInv
<1> QED
  BY InitIInv, <1>1, PTL DEF Spec

\* Every variable keeps its type.
THEOREM TypeCorrect == Spec => []TypeOK
<1>1. IInv => TypeOK
  BY DEF IInv
<1> QED
  BY Invariance, <1>1, PTL

\* A confirmed memory is in the table until it is deleted or has expired, however
\* late a purge is executed.
THEOREM MemoriesStay == Spec => []NothingVanishes
<1>1. IInv => NothingVanishes
  BY DEF IInv
<1> QED
  BY Invariance, <1>1, PTL

\* No get is missing from the access_count of its memory, for any number of callers.
THEOREM GetsAreCounted == Spec => []EveryGetCounted
<1>1. IInv => EveryGetCounted
  BY DEF IInv
<1> QED
  BY Invariance, <1>1, PTL

\* Each get of a memory gives its caller a higher count than the last, and no
\* time before the one it read.
THEOREM CountsAreMonotone == Spec => AccessesNeverGoBack
<1>1. IInv /\ [Next]_vars =>
        [\A c \in Callers, m \in Memories :
            item[c] = m /\ item'[c] # m /\ returned'[m] # returned[m] =>
                /\ given'[c][m] > given[c][m]
                /\ stamp[c] >= read[c].used]_vars
  <2> SUFFICES ASSUME IInv, [Next]_vars, NEW c \in Callers, NEW m \in Memories,
                      item[c] = m, item'[c] # m, returned'[m] # returned[m]
               PROVE  given'[c][m] > given[c][m] /\ stamp[c] >= read[c].used
    OBVIOUS
  <2> USE DEF IInv
  <2>1. PICK d \in Callers : /\ Update(d) /\ item[d] = m
                             /\ given'[d][m] = read[d].count + 1
    BY GivenSteps
  <2>2. d = c
    BY <2>1 DEF Update, Return, TypeOK
  <2>3. /\ read[c].count \in Nat /\ given[c][m] <= read[c].count
        /\ read[c].used \in Nat /\ stamp[c] \in Nat /\ read[c].used <= stamp[c]
    BY <2>1, <2>2, RowFields DEF Update, CountsGrow, TimesPassed, TypeOK
  <2>4. given[c][m] \in Nat
    BY DEF TypeOK
  <2> QED
    BY <2>1, <2>2, <2>3, <2>4
<1> QED
  BY Invariance, <1>1, PTL DEF Spec, AccessesNeverGoBack

-----------------------------------------------------------------------------
(* Retrieval.                                                              *)

\* A table has finitely many rows.
RowsAreFinite == IsFiniteSet(made) /\ Rows \subseteq made

LEMMA RowsAreFiniteStep == TypeOK /\ InsertedOnce /\ RowsAreFinite /\ [Next]_vars => IsFiniteSet(made')
<1> SUFFICES ASSUME TypeOK, InsertedOnce, RowsAreFinite, [Next]_vars
             PROVE  IsFiniteSet(made')
  OBVIOUS
<1>1. ASSUME NEW c \in Callers, NEW m \in Memories, Construct(c, m)
      PROVE  IsFiniteSet(made')
  <2>1. IsFiniteSet(made \cup {m})
    BY FS_AddElement DEF RowsAreFinite
  <2> QED
    BY <1>1, <2>1 DEF Construct
<1>2. CASE ~\E c \in Callers, m \in Memories : Construct(c, m)
  <2>1. made' = made
    BY <1>2 DEF Next, vars, historyVars, Select, Delete, Insert, Update, StartPurge, Purge, Fail, Tick
  <2> QED
    BY <2>1 DEF RowsAreFinite
<1> QED
  BY <1>1, <1>2

\* Only what was constructed is in the table, and nothing comes from nowhere.
THEOREM FiniteRows == Spec => []RowsAreFinite
<1>1. IInv => Rows \subseteq made
  BY DEF IInv, InsertedOnce, Unread, Rows
<1>2. Init => RowsAreFinite
  BY FS_EmptySet DEF Init, RowsAreFinite, Rows
<1>3. IInv /\ IInv' /\ RowsAreFinite /\ [Next]_vars => RowsAreFinite'
  <2>1. IInv' => Rows' \subseteq made'
    BY DEF IInv, InsertedOnce, Unread, Rows
  <2> QED
    BY <2>1, RowsAreFiniteStep DEF IInv, RowsAreFinite
<1> QED
  BY Invariance, <1>2, <1>3, PTL DEF Spec

\* The listing by creation has every memory once.
LEMMA CreationListsOnce ==
    ASSUME NEW S, IsFiniteSet(S), NEW s \in ByCreation(S)
    PROVE  /\ Cardinality(S) \in Nat
           /\ s \in [1 .. Cardinality(S) -> S]
           /\ \A i, j \in 1 .. Cardinality(S) : s[i] = s[j] => i = j
           /\ \A m \in S : \E i \in 1 .. Cardinality(S) : s[i] = m
<1> DEFINE N == 1 .. Cardinality(S)
<1>1. Cardinality(S) \in Nat
  BY FS_CardinalityType
<1>2. s \in [N -> S]
  BY DEF ByCreation
<1>3. \A i, j \in N : s[i] = s[j] => i = j
  <2> SUFFICES ASSUME NEW i \in N, NEW j \in N, i < j
               PROVE  s[i] # s[j]
    BY <1>1
  <2> QED
    BY DEF ByCreation
<1>4. IsFiniteSet(N) /\ Cardinality(N) = Cardinality(S)
  BY <1>1, FS_Interval
<1> HIDE DEF N
<1>5. s \in Injection(N, S)
  BY <1>2, <1>3 DEF Injection, IsInjective
<1>6. s \in Surjection(N, S)
  BY <1>4, <1>5, FS_Injection
<1>7. \A m \in S : \E i \in N : s[i] = m
  BY <1>6 DEF Surjection
<1> QED
  BY <1>1, <1>2, <1>3, <1>7 DEF N

\* Products of what may be zero, and comparisons of products.
LEMMA Products ==
    ASSUME NEW a \in Nat, NEW b \in Nat
    PROVE  /\ a * b \in Nat
           /\ a # 0 /\ b # 0 => a * b # 0
OBVIOUS

LEMMA ProductsGrow ==
    ASSUME NEW a \in Nat, NEW b \in Nat, NEW c \in Nat
    PROVE  /\ a <= b => a * c <= b * c
           /\ a <= b => c * a <= c * b
           /\ a < b /\ c # 0 => a * c < b * c
           /\ a < b /\ c # 0 => c * a < c * b
OBVIOUS

\* A sum of products of positive weights grows with each of what is weighed.
SumOfParts(w, x, y, p, q, k) == w * p * q + k * (x * q + y * p)

LEMMA PartsAdd ==
    ASSUME NEW w \in Nat, NEW x \in Nat, NEW y \in Nat,
           NEW p \in Nat \ {0}, NEW q \in Nat \ {0}, NEW k \in Nat \ {0}
    PROVE  /\ SumOfParts(w, x, y, p, q, k) \in Nat
           /\ w # 0 => SumOfParts(w, x, y, p, q, k) # 0
<1> DEFINE a == w * p
           b == a * q
           c == x * q
           d == y * p
           e == k * (c + d)
<1>1. a \in Nat /\ (w # 0 => a # 0)
  BY Products
<1>2. c \in Nat /\ d \in Nat
  BY Products
<1> HIDE DEF a, c, d
<1>3. b \in Nat /\ (w # 0 => b # 0)
  BY <1>1, Products
<1>4. c + d \in Nat
  BY <1>2
<1>5. e \in Nat
  BY <1>4, Products
<1> HIDE DEF b, e
<1>6. b + e \in Nat /\ (w # 0 => b + e # 0)
  BY <1>3, <1>5
<1>7. SumOfParts(w, x, y, p, q, k) = b + e
  BY DEF SumOfParts, a, b, c, d, e
<1> QED
  BY <1>6, <1>7

LEMMA PartsGrow ==
    ASSUME NEW p \in Nat \ {0}, NEW q \in Nat \ {0}, NEW k \in Nat \ {0},
           NEW v \in Nat, NEW w \in Nat, v <= w,
           NEW x \in Nat, NEW y \in Nat, x <= y,
           NEW s \in Nat, NEW t \in Nat, s <= t
    PROVE  /\ SumOfParts(v, x, s, p, q, k) <= SumOfParts(w, y, t, p, q, k)
           /\ v < w \/ x < y \/ s < t =>
                 SumOfParts(v, x, s, p, q, k) < SumOfParts(w, y, t, p, q, k)
<1> DEFINE a(n) == n * p
           b(n) == a(n) * q
           c(n) == n * q
           d(n) == n * p
           e(m, n) == k * (c(m) + d(n))
<1>1. a(v) \in Nat /\ a(w) \in Nat /\ a(v) <= a(w) /\ (v < w => a(v) < a(w))
  BY Products, ProductsGrow
<1>2. c(x) \in Nat /\ c(y) \in Nat /\ c(x) <= c(y) /\ (x < y => c(x) < c(y))
  BY Products, ProductsGrow
<1>3. d(s) \in Nat /\ d(t) \in Nat /\ d(s) <= d(t) /\ (s < t => d(s) < d(t))
  BY Products, ProductsGrow
<1> HIDE DEF a, c, d
<1>4. b(v) \in Nat /\ b(w) \in Nat /\ b(v) <= b(w) /\ (v < w => b(v) < b(w))
  BY <1>1, Products, ProductsGrow
<1>5. /\ c(x) + d(s) \in Nat /\ c(y) + d(t) \in Nat /\ c(x) + d(s) <= c(y) + d(t)
      /\ (x < y \/ s < t => c(x) + d(s) < c(y) + d(t))
  BY <1>2, <1>3
<1>6. /\ e(x, s) \in Nat /\ e(y, t) \in Nat /\ e(x, s) <= e(y, t)
      /\ (x < y \/ s < t => e(x, s) < e(y, t))
  BY <1>5, Products, ProductsGrow
<1> HIDE DEF b, e
<1>7. /\ b(v) + e(x, s) <= b(w) + e(y, t)
      /\ v < w \/ x < y \/ s < t => b(v) + e(x, s) < b(w) + e(y, t)
  BY <1>4, <1>6
<1>8. /\ SumOfParts(v, x, s, p, q, k) = b(v) + e(x, s)
      /\ SumOfParts(w, y, t, p, q, k) = b(w) + e(y, t)
  BY DEF SumOfParts, a, b, c, d, e
<1> QED
  BY <1>7, <1>8

\* What is worth more and costs no more, or is worth as much and costs less, is
\* worth more for each token.
LEMMA HigherDensity ==
    ASSUME NEW s \in Nat, NEW t \in Nat, NEW c \in Nat \ {0}, NEW d \in Nat \ {0},
           s >= t, c <= d, s > t \/ (c < d /\ s # 0)
    PROVE  Higher(Fraction(s, c), Fraction(t, d))
<1>1. s * d \in Nat /\ s * c \in Nat /\ t * c \in Nat
  BY Products
<1>2. s * c <= s * d /\ (c < d /\ s # 0 => s * c < s * d)
  BY ProductsGrow
<1>3. t * c <= s * c /\ (t < s => t * c < s * c)
  BY ProductsGrow
<1>4. s * d > t * c
  BY <1>1, <1>2, <1>3
<1> QED
  BY <1>4 DEF Higher, Fraction

\* What is known of each member of a set has its order after normalization, and d
\* as its unit.
NormalizedBy(S, f, d) ==
    /\ \A m \in S : /\ Normalized(f[m], {f[n] : n \in S}).den = d
                    /\ Normalized(f[m], {f[n] : n \in S}).num \in Nat
    /\ \A m, n \in S : f[m] < f[n] =>
          Normalized(f[m], {f[k] : k \in S}).num < Normalized(f[n], {f[k] : k \in S}).num

LEMMA NormalizedImage ==
    ASSUME NEW S, IsFiniteSet(S), S # {}, NEW f \in [S -> Nat]
    PROVE  \E d \in Nat \ {0} : NormalizedBy(S, f, d)
<1> DEFINE T == {f[n] : n \in S}
<1>1. f \in Surjection(S, T)
  BY DEF Surjection
<1>2. IsFiniteSet(T)
  <2> HIDE DEF T
  <2> QED
    BY <1>1, FS_Surjection
<1>3. T \in SUBSET Nat /\ T # {}
  OBVIOUS
<1>4. \A m \in S : f[m] \in T
  OBVIOUS
<1> HIDE DEF T
<1>5. \E d \in Nat \ {0} :
         /\ \A v \in T : Normalized(v, T).den = d /\ Normalized(v, T).num \in Nat
         /\ \A v, w \in T : v < w => Normalized(v, T).num < Normalized(w, T).num
  BY <1>2, <1>3, NormalizedFacts
<1>6. \E d \in Nat \ {0} :
         /\ \A m \in S : Normalized(f[m], T).den = d /\ Normalized(f[m], T).num \in Nat
         /\ \A m, n \in S : f[m] < f[n] => Normalized(f[m], T).num < Normalized(f[n], T).num
  BY <1>4, <1>5
<1> QED
  BY <1>6 DEF T, NormalizedBy

\* Memories that a retrieval may be about.
Pool(S) == TypeOK /\ S \subseteq Rows /\ IsFiniteSet(S)

\* Scores are comparable within a pool, and a score is above another when no part
\* of it is less and one is more.
LEMMA ScoreFacts ==
    ASSUME NEW S, Pool(S)
    PROVE  /\ \A m \in S : Score(m, S) \in Nat /\ (Importance[m] > 0 => Score(m, S) # 0)
           /\ \A m, n \in S :
                 /\ Relevance[m] >= Relevance[n] /\ Importance[m] >= Importance[n]
                 /\ table[m].used >= table[n].used /\ table[m].count >= table[n].count
                 => /\ Score(m, S) >= Score(n, S)
                    /\ \/ Relevance[m] > Relevance[n] \/ Importance[m] > Importance[n]
                       \/ table[m].used > table[n].used \/ table[m].count > table[n].count
                       => Score(m, S) > Score(n, S)
<1>1. CASE S = {}
  BY <1>1
<1>2. CASE S # {}
  <2> DEFINE used == [m \in S |-> table[m].used]
             count == [m \in S |-> table[m].count]
             worth(m) == Relevance[m] + Importance[m]
             recency(m) == Recency(m, S).num
             access(m) == Access(m, S).num
  <2>1. \A m \in S : m \in Memories /\ table[m].used \in Nat /\ table[m].count \in Nat
    BY RowFields DEF Pool, Rows, TypeOK
  <2>2. used \in [S -> Nat] /\ count \in [S -> Nat]
    BY <2>1
  <2>3. \A m \in S : /\ Recency(m, S) = Normalized(used[m], {used[n] : n \in S})
                     /\ Access(m, S) = Normalized(count[m], {count[n] : n \in S})
    <3>1. {used[n] : n \in S} = {table[n].used : n \in S}
      OBVIOUS
    <3>2. {count[n] : n \in S} = {table[n].count : n \in S}
      OBVIOUS
    <3>3. \A m \in S : used[m] = table[m].used /\ count[m] = table[m].count
      OBVIOUS
    <3> HIDE DEF used, count
    <3> QED
      BY <3>1, <3>2, <3>3, Zenon DEF Recency, Access
  <2>4. PICK r \in Nat \ {0} :
           /\ \A m \in S : Recency(m, S).den = r /\ recency(m) \in Nat
           /\ \A m, n \in S : table[m].used < table[n].used => recency(m) < recency(n)
    <3> HIDE DEF used
    <3>1. IsFiniteSet(S) /\ used \in [S -> Nat]
      BY <2>2 DEF Pool
    <3>2. PICK d \in Nat \ {0} : NormalizedBy(S, used, d)
      BY <1>2, <3>1, NormalizedImage
    <3>3. \A m \in S : Recency(m, S).den = d /\ recency(m) \in Nat
      BY <2>3, <3>2, Zenon DEF NormalizedBy
    <3>4. \A m, n \in S : used[m] < used[n] => recency(m) < recency(n)
      BY <2>3, <3>2, Zenon DEF NormalizedBy
    <3>5. \A m \in S : used[m] = table[m].used
      BY DEF used
    <3> QED
      BY <3>3, <3>4, <3>5, Zenon
  <2>5. PICK a \in Nat \ {0} :
           /\ \A m \in S : Access(m, S).den = a /\ access(m) \in Nat
           /\ \A m, n \in S : table[m].count < table[n].count => access(m) < access(n)
    <3> HIDE DEF count
    <3>1. IsFiniteSet(S) /\ count \in [S -> Nat]
      BY <2>2 DEF Pool
    <3>2. PICK d \in Nat \ {0} : NormalizedBy(S, count, d)
      BY <1>2, <3>1, NormalizedImage
    <3>3. \A m \in S : Access(m, S).den = d /\ access(m) \in Nat
      BY <2>3, <3>2, Zenon DEF NormalizedBy
    <3>4. \A m, n \in S : count[m] < count[n] => access(m) < access(n)
      BY <2>3, <3>2, Zenon DEF NormalizedBy
    <3>5. \A m \in S : count[m] = table[m].count
      BY DEF count
    <3> QED
      BY <3>3, <3>4, <3>5, Zenon
  <2>6. \A m, n \in S : /\ table[m].used = table[n].used => recency(m) = recency(n)
                        /\ table[m].count = table[n].count => access(m) = access(n)
    BY Zenon DEF Recency, Access
  <2>7. \A m \in S : Score(m, S) = SumOfParts(worth(m), recency(m), access(m), r, a, Scale)
    BY <2>4, <2>5 DEF Score, SumOfParts
  <2>8. \A m \in S : /\ worth(m) \in Nat /\ Relevance[m] \in Nat /\ Importance[m] \in Nat
                     /\ (Importance[m] > 0 => worth(m) # 0)
    BY <2>1
  <2> HIDE DEF used, count, recency, access
  <2>9. \A m \in S : recency(m) \in Nat /\ access(m) \in Nat
    BY <2>4, <2>5
  <2>10. ASSUME NEW m \in S
         PROVE  Score(m, S) \in Nat /\ (Importance[m] > 0 => Score(m, S) # 0)
    <3> HIDE DEF worth
    <3> QED
      BY <2>7, <2>8, <2>9, PartsAdd
  <2>11. ASSUME NEW m \in S, NEW n \in S,
                Relevance[m] >= Relevance[n], Importance[m] >= Importance[n],
                table[m].used >= table[n].used, table[m].count >= table[n].count
         PROVE  /\ Score(m, S) >= Score(n, S)
                /\ \/ Relevance[m] > Relevance[n] \/ Importance[m] > Importance[n]
                   \/ table[m].used > table[n].used \/ table[m].count > table[n].count
                   => Score(m, S) > Score(n, S)
    <3>1. /\ worth(n) <= worth(m)
          /\ Relevance[m] > Relevance[n] \/ Importance[m] > Importance[n] => worth(n) < worth(m)
      BY <2>8, <2>11
    <3> HIDE DEF worth
    <3>2. /\ recency(n) <= recency(m)
          /\ table[m].used > table[n].used => recency(n) < recency(m)
      BY <2>1, <2>4, <2>6, <2>9, <2>11
    <3>3. /\ access(n) <= access(m)
          /\ table[m].count > table[n].count => access(n) < access(m)
      BY <2>1, <2>5, <2>6, <2>9, <2>11
    <3> DEFINE low == SumOfParts(worth(n), recency(n), access(n), r, a, Scale)
               high == SumOfParts(worth(m), recency(m), access(m), r, a, Scale)
    <3>4. /\ low <= high
          /\ worth(n) < worth(m) \/ recency(n) < recency(m) \/ access(n) < access(m) => low < high
      BY <2>8, <2>9, <3>1, <3>2, <3>3, PartsGrow
    <3>5. Score(n, S) = low /\ Score(m, S) = high
      BY <2>7
    <3> HIDE DEF low, high
    <3>6. Score(n, S) \in Nat /\ Score(m, S) \in Nat
      BY <2>10
    <3> QED
      BY <3>1, <3>2, <3>3, <3>4, <3>5, <3>6
  <2> QED
    BY <2>10, <2>11
<1> QED
  BY <1>1, <1>2

\* What a retrieval makes of any pool.
LEMMA RetrievalFromPool ==
    ASSUME NEW S, Pool(S), NEW budget \in Budgets, NEW kept \in Retrievals(S, budget)
    PROVE  /\ kept \subseteq S
           /\ Spent(kept) <= budget
           /\ \A m \in S \ kept : Spent(kept) + Cost[m] > budget
           /\ \A m \in S \ kept, n \in kept : ~Better(m, n)
<1> DEFINE key == [m \in S |-> Density(m, S)]
<1>1. PICK s \in ByCreation(S) : kept = GreedyPack(Ordered(s, key), Cost, budget)
  BY DEF Retrievals
<1>2. S \subseteq Memories /\ Cost \in [Memories -> Nat] /\ budget \in Nat
  BY DEF Pool, Rows
<1>3. \A m \in S : Score(m, S) \in Nat /\ Cost[m] \in Nat \ {0}
  BY <1>2, ScoreFacts
<1>4. \A m \in S : key[m] = Fraction(Score(m, S), Cost[m])
  BY DEF Density
<1>5. key \in [S -> Fractions]
  <2>1. \A n \in Nat, d \in Nat \ {0} : Fraction(n, d) \in Fractions
    BY DEF Fraction, Fractions
  <2>2. \A m \in S : Density(m, S) \in Fractions
    BY <1>3, <2>1 DEF Density
  <2> QED
    BY <2>2
<1> HIDE DEF key
<1>6. Selectable(Memories, S, Cardinality(S), s, key, Cost, budget)
  BY <1>2, <1>5, CreationListsOnce DEF Selectable, Pool
<1>7. /\ kept \subseteq S
      /\ SumOver(Cost, kept) <= budget
      /\ \A x \in S \ kept : SumOver(Cost, kept) + Cost[x] > budget
      /\ \A x \in S \ kept, y \in kept : Higher(key[x], key[y]) => Cost[y] < Cost[x]
  BY <1>1, <1>6, SelectionFacts
<1>8. Spent(kept) = SumOver(Cost, kept)
  BY DEF Spent, SumOver
<1>9. ASSUME NEW m \in S \ kept, NEW n \in kept, Better(m, n)
      PROVE  FALSE
  <2>1. m \in S /\ n \in S
    BY <1>7
  <2>2. /\ Cost[m] <= Cost[n]
        /\ Relevance[m] >= Relevance[n] /\ Importance[m] >= Importance[n]
        /\ table[m].used >= table[n].used /\ table[m].count >= table[n].count
        /\ \/ Relevance[m] > Relevance[n] \/ Importance[m] > Importance[n]
           \/ table[m].used > table[n].used \/ table[m].count > table[n].count
           \/ Cost[m] < Cost[n] /\ Importance[m] > 0
    BY <1>9 DEF Better
  <2>3. /\ Score(m, S) >= Score(n, S)
        /\ Score(m, S) > Score(n, S) \/ (Cost[m] < Cost[n] /\ Score(m, S) # 0)
    BY <2>1, <2>2, ScoreFacts
  <2>4. Higher(key[m], key[n])
    BY <1>3, <1>4, <2>1, <2>2, <2>3, HigherDensity
  <2> QED
    BY <1>3, <1>7, <2>1, <2>2, <2>4
<1> QED
  BY <1>7, <1>8, <1>9

\* Whatever is in the table, and in whatever order rows of one instant are listed,
\* a retrieval keeps to its budget and leaves out nothing that would still fit.
THEOREM RetrievalsFit == Spec => []RetrievalFits
<1>1. ASSUME TypeOK, RowsAreFinite, NEW S \in Pools
      PROVE  Pool(S)
  <2>1. S \subseteq Rows
    BY <1>1 DEF Pools
  <2> QED
    BY <1>1, <2>1, FS_Subset DEF Pool, RowsAreFinite
<1>2. TypeOK /\ RowsAreFinite => RetrievalFits
  BY <1>1, RetrievalFromPool DEF RetrievalFits
<1> QED
  BY TypeCorrect, FiniteRows, <1>2, PTL

\* No retrieval passes a memory over for one that is worse in every respect,
\* whatever else the pool holds to normalize times and counts by.
THEOREM BestAreRetrieved == Spec => []NoBetterPassedOver
<1>1. ASSUME TypeOK, RowsAreFinite, NEW S \in Pools
      PROVE  Pool(S)
  <2>1. S \subseteq Rows
    BY <1>1 DEF Pools
  <2> QED
    BY <1>1, <2>1, FS_Subset DEF Pool, RowsAreFinite
<1>2. TypeOK /\ RowsAreFinite => NoBetterPassedOver
  BY <1>1, RetrievalFromPool DEF NoBetterPassedOver
<1> QED
  BY TypeCorrect, FiniteRows, <1>2, PTL

=============================================================================

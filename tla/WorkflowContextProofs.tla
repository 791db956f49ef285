------------------------ MODULE WorkflowContextProofs ------------------------
(***************************************************************************)
(* What WorkflowContext guarantees for any number of processes, requests   *)
(* and deliveries, and any capacity, threshold and sizes: no turn is lost, *)
(* the newest ones are kept as they are, refused requests leave nothing,   *)
(* and a selection from the store keeps to its budget.                     *)
(*                                                                         *)
(* The first part, up to RefusedLeaveNothing, does not depend on what      *)
(* token totals are, only on when they are computed.  The second part is   *)
(* about totals and selections, with the lemmas of PackingProofs; the last *)
(* about the counter of saved tokens, and a workflow that is full.         *)
(***************************************************************************)
EXTENDS WorkflowContext, PackingProofs, FiniteSetTheorems, TLAPS

\* The type of everything but token totals.
Shape ==
    /\ store \in [Replicas -> SUBSET Items]
    /\ made \in [Replicas -> Nat]
    /\ recorded \in [Replicas -> SUBSET Items]
    /\ pc \in [Requests -> States]
    /\ home \in [Requests -> Replicas \cup {NoReplica}]
    /\ captured \in [Requests -> SUBSET Items]
    /\ DOMAIN measured = Requests
    /\ measured = [r \in Requests |-> measured[r]]

\* Finitely many turns have been recorded, each of a request.
RecordedAreTurns ==
    \A g \in Replicas : /\ IsFiniteSet(recorded[g])
                        /\ \A t \in recorded[g] : t.req \in Requests

\* A conversation item in the store is a recorded turn.
StoredAreRecorded == \A g \in Replicas : Conversation(store[g]) \subseteq recorded[g]

\* A request past its admission has a home.
HomeKnown ==
    \A r \in Requests : pc[r] \in {"calling", "background", "summarizing"} => home[r] \in Replicas

\* No turn is newer than the last item that was made.
IdsGiven == \A g \in Replicas : \A t \in recorded[g] : t.id <= made[g]

\* What a compression is about to replace are turns with KeepRecent newer ones,
\* or turns that were cleared away, whose ids are not given again.
CapturedAreOld ==
    \A r \in Requests : captured[r] # {} =>
        /\ pc[r] = "summarizing"
        /\ \A i \in captured[r] :
              /\ i.id <= made[home[r]]
              /\ i \in recorded[home[r]] => Cardinality(Later(home[r], i)) >= KeepRecent

IInv ==
    /\ Shape /\ RecordedAreTurns /\ StoredAreRecorded /\ HomeKnown /\ IdsGiven /\ CapturedAreOld
    /\ NoTurnLost /\ RecentTurnsKept /\ OnlyAdmittedRecorded

-----------------------------------------------------------------------------
(* What the steps do to the items.                                         *)

\* A turn that is made is an item.
LEMMA NewTurn ==
    ASSUME Shape, NEW g \in Replicas, NEW r \in Requests
    PROVE  [id |-> made[g] + 1, req |-> r, turns |-> {made[g] + 1}, tokens |-> Size[r]] \in Items
<1>1. made[g] \in Nat /\ made[g] + 1 \in Nat \ {0}
  BY DEF Shape
<1>2. Size[r] \in Nat \ {0}
  BY ContextConstants
<1> QED
  BY <1>1, <1>2 DEF Items

\* Recording adds one item of a request to the store and the history of one
\* process, and the item stands for itself.
LEMMA RecordAdds ==
    ASSUME Shape, NEW g \in Replicas, NEW r \in Requests, Record(g, r)
    PROVE  \E t \in Items :
              /\ t.req = r /\ t.id \in t.turns /\ t.id = made[g] + 1 /\ t.tokens = Size[r]
              /\ store' = [store EXCEPT ![g] = @ \cup {t}]
              /\ recorded' = [recorded EXCEPT ![g] = @ \cup {t}]
              /\ made' = [made EXCEPT ![g] = @ + 1]
<1> DEFINE t == [id |-> made[g] + 1, req |-> r, turns |-> {made[g] + 1}, tokens |-> Size[r]]
<1>1. t \in Items
  BY NewTurn
<1>2. t.req = r /\ t.id \in t.turns /\ t.id = made[g] + 1 /\ t.tokens = Size[r]
  OBVIOUS
<1>3. /\ store' = [store EXCEPT ![g] = @ \cup {t}]
      /\ recorded' = [recorded EXCEPT ![g] = @ \cup {t}]
  BY DEF Record
<1>4. made' = [made EXCEPT ![g] = @ + 1]
  BY DEF Record
<1> QED
  BY <1>1, <1>2, <1>3, <1>4

\* Finishing a compression swaps what was captured for an item that stands for
\* the same turns, and changes nothing else that matters here.
LEMMA FinishSwaps ==
    ASSUME Shape, HomeKnown, NEW r \in Requests, FinishCompression(r)
    PROVE  /\ home[r] \in Replicas
           /\ \E s \in Items :
                 /\ s.req = NoRequest /\ s.id = made[home[r]] + 1
                 /\ \A i \in captured[r] : i.turns \subseteq s.turns
                 /\ store' = [store EXCEPT ![home[r]] = (@ \ captured[r]) \cup {s}]
           /\ made' = [made EXCEPT ![home[r]] = @ + 1]
           /\ UNCHANGED <<recorded, home, measured>>
           /\ pc' = [pc EXCEPT ![r] = "done"]
           /\ captured' = [captured EXCEPT ![r] = {}]
<1> DEFINE g == home[r]
<1>1. pc[r] = "summarizing" /\ g \in Replicas
  BY DEF FinishCompression, HomeKnown
<1>2. PICK tokens \in SummarySizes : ReplaceItems(r, captured[r], tokens)
  BY DEF FinishCompression
<1> DEFINE s == [id |-> made[g] + 1, req |-> NoRequest,
                 turns |-> UNION {i.turns : i \in captured[r]}, tokens |-> tokens]
<1>3. captured[r] \subseteq Items
  BY DEF Shape
<1>4. UNION {i.turns : i \in captured[r]} \in SUBSET (Nat \ {0})
  BY <1>3 DEF Items
<1>5. made[g] + 1 \in Nat \ {0} /\ tokens \in Nat \ {0}
  BY <1>1, <1>2, ContextConstants DEF Shape
<1>6. s \in Items
  BY <1>4, <1>5 DEF Items
<1>7. s.req = NoRequest /\ s.id = made[g] + 1 /\ \A i \in captured[r] : i.turns \subseteq s.turns
  OBVIOUS
<1>8. store' = [store EXCEPT ![g] = (@ \ captured[r]) \cup {s}]
  BY <1>2 DEF ReplaceItems
<1>9. made' = [made EXCEPT ![g] = @ + 1]
  BY <1>2 DEF ReplaceItems
<1>10. /\ UNCHANGED <<recorded, home, measured>>
       /\ pc' = [pc EXCEPT ![r] = "done"]
       /\ captured' = [captured EXCEPT ![r] = {}]
  BY <1>2 DEF ReplaceItems
<1> QED
  BY <1>1, <1>6, <1>7, <1>8, <1>9, <1>10

\* An artifact leaves an item in the store that is no turn.
LEMMA ArtifactAdds ==
    ASSUME Shape, NEW g \in Replicas, RecordArtifact(g)
    PROVE  /\ \E s \in Items : /\ s.req = NoRequest /\ s.id = made[g] + 1
                              /\ store' = [store EXCEPT ![g] = @ \cup {s}]
           /\ made' = [made EXCEPT ![g] = @ + 1]
           /\ UNCHANGED recorded
<1>1. /\ made[g] \in Nat /\ made' = [made EXCEPT ![g] = @ + 1]
      /\ made'[g] = made[g] + 1 /\ made'[g] \in Nat \ {0}
  BY DEF RecordArtifact, Shape
<1>2. PICK n \in ReferenceSizes : store' = [store EXCEPT ![g] = @ \cup
                  {[id |-> made'[g], req |-> NoRequest, turns |-> {}, tokens |-> n]}]
  BY DEF RecordArtifact
<1>3. [id |-> made'[g], req |-> NoRequest, turns |-> {}, tokens |-> n] \in Items
  BY <1>1, ContextConstants DEF Items
<1> QED
  BY <1>1, <1>2, <1>3 DEF RecordArtifact

\* A crash and a clearing empty one store, and its history with it.
LEMMA LossEmpties ==
    ASSUME NEW g \in Replicas, Crash(g) \/ Clear(g)
    PROVE  /\ store' = [store EXCEPT ![g] = {}]
           /\ recorded' = [recorded EXCEPT ![g] = {}]
           /\ UNCHANGED <<made, home, measured>>
BY DEF Crash, Clear, requestVars

\* There are five kinds of steps: those that record a turn, those that finish a
\* compression, those that record an artifact, those that lose everything, and
\* the others, which leave the items alone.
LEMMA ItemSteps ==
    ASSUME [Next]_vars
    PROVE  \/ UNCHANGED <<store, made, recorded>>
           \/ \E r \in Requests, g \in Replicas : (Admit(r, g) \/ Dispatch(r, g)) /\ Record(g, r)
           \/ \E r \in Requests : FinishCompression(r)
           \/ \E g \in Replicas : RecordArtifact(g)
           \/ \E g \in Replicas : Crash(g) \/ Clear(g)
BY DEF Next, vars, itemVars, Admit, Reject, Enqueue, Dispatch, CallEnds, SkipCompression,
       StartCompression, AbandonCompression

-----------------------------------------------------------------------------
(* The parts of the invariant, one after the other.                        *)

\* Every step keeps the shape of the state.
LEMMA ShapeStep == Shape /\ HomeKnown /\ [Next]_vars => Shape'
<1> SUFFICES ASSUME Shape, HomeKnown, [Next]_vars
             PROVE  Shape'
  OBVIOUS
<1>1. /\ store' \in [Replicas -> SUBSET Items]
      /\ recorded' \in [Replicas -> SUBSET Items]
      /\ made' \in [Replicas -> Nat]
  <2>1. CASE UNCHANGED <<store, made, recorded>>
    BY <2>1 DEF Shape
  <2>2. ASSUME NEW r \in Requests, NEW g \in Replicas, Record(g, r)
        PROVE  <1>1!:
    BY <2>2, RecordAdds DEF Shape
  <2>3. ASSUME NEW r \in Requests, FinishCompression(r)
        PROVE  <1>1!:
    BY <2>3, FinishSwaps DEF Shape
  <2>4. ASSUME NEW g \in Replicas, RecordArtifact(g)
        PROVE  <1>1!:
    BY <2>4, ArtifactAdds DEF Shape
  <2>5. ASSUME NEW g \in Replicas, Crash(g) \/ Clear(g)
        PROVE  <1>1!:
    BY <2>5, LossEmpties DEF Shape
  <2> QED
    BY <2>1, <2>2, <2>3, <2>4, <2>5, ItemSteps
<1>2. pc' \in [Requests -> States]
  BY DEF Shape, States, Next, vars, requestVars, Admit, Reject, Enqueue, Dispatch, CallEnds,
     SkipCompression, StartCompression, FinishCompression, ReplaceItems, AbandonCompression, Crash, Clear, RecordArtifact
<1>3. home' \in [Requests -> Replicas \cup {NoReplica}]
  BY DEF Shape, Next, vars, requestVars, Admit, Reject, Enqueue, Dispatch, CallEnds,
     SkipCompression, StartCompression, FinishCompression, ReplaceItems, AbandonCompression, Crash, Clear, RecordArtifact
<1>4. captured' \in [Requests -> SUBSET Items]
  <2>1. ASSUME NEW r \in Requests, StartCompression(r)
        PROVE  captured' \in [Requests -> SUBSET Items]
    <3>1. home[r] \in Replicas
      BY <2>1 DEF StartCompression, HomeKnown
    <3>2. Old(store[home[r]]) \subseteq Items
      BY <3>1 DEF Shape, Old, Conversation
    <3> QED
      BY <2>1, <3>2 DEF StartCompression, Shape
  <2>2. CASE ~\E r \in Requests : StartCompression(r)
    BY <2>2 DEF Shape, Next, vars, requestVars, Admit, Reject, Enqueue, Dispatch, CallEnds,
       SkipCompression, FinishCompression, ReplaceItems, AbandonCompression, Crash, Clear, RecordArtifact
  <2> QED
    BY <2>1, <2>2
<1>5. DOMAIN measured' = Requests /\ measured' = [r \in Requests |-> measured'[r]]
  <2>1. CASE UNCHANGED measured
    BY <2>1 DEF Shape
  <2>2. ASSUME NEW r \in Requests, NEW g \in Replicas, Enqueue(r, g)
        PROVE  <1>5!:
    <3>1. PICK n : measured' = [measured EXCEPT ![r] = n]
      BY <2>2 DEF Enqueue
    <3> QED
      BY <3>1 DEF Shape
  <2> QED
    BY <2>1, <2>2 DEF Next, vars, requestVars, Admit, Reject, Dispatch, CallEnds,
       SkipCompression, StartCompression, FinishCompression, ReplaceItems, AbandonCompression, Crash, Clear, RecordArtifact
<1> QED
  BY <1>1, <1>2, <1>3, <1>4, <1>5 DEF Shape

\* The history stays a finite set of turns.
LEMMA RecordedAreTurnsStep ==
    Shape /\ HomeKnown /\ RecordedAreTurns /\ [Next]_vars => RecordedAreTurns'
<1> SUFFICES ASSUME Shape, HomeKnown, RecordedAreTurns, [Next]_vars, NEW h \in Replicas
             PROVE  IsFiniteSet(recorded'[h]) /\ \A t \in recorded'[h] : t.req \in Requests
  BY DEF RecordedAreTurns
<1>1. IsFiniteSet(recorded[h]) /\ \A t \in recorded[h] : t.req \in Requests
  BY DEF RecordedAreTurns
<1>2. CASE UNCHANGED recorded
  BY <1>1, <1>2
<1>3. ASSUME NEW r \in Requests, NEW g \in Replicas, Record(g, r)
      PROVE  IsFiniteSet(recorded'[h]) /\ \A t \in recorded'[h] : t.req \in Requests
  <2>1. PICK t \in Items : t.req = r /\ recorded' = [recorded EXCEPT ![g] = @ \cup {t}]
    BY <1>3, RecordAdds
  <2>2. recorded'[h] = recorded[h] \/ recorded'[h] = recorded[h] \cup {t}
    BY <2>1 DEF Shape
  <2> QED
    BY <1>1, <2>1, <2>2, FS_AddElement
<1>4. ASSUME NEW g \in Replicas, Crash(g) \/ Clear(g)
      PROVE  IsFiniteSet(recorded'[h]) /\ \A t \in recorded'[h] : t.req \in Requests
  <2>1. recorded'[h] = recorded[h] \/ recorded'[h] = {}
    BY <1>4, LossEmpties DEF Shape
  <2> QED
    BY <1>1, <2>1, FS_EmptySet
<1> QED
  BY <1>2, <1>3, <1>4, ItemSteps, FinishSwaps, ArtifactAdds

\* A summary is no conversation item, and a turn is recorded when it is stored.
LEMMA StoredAreRecordedStep ==
    Shape /\ HomeKnown /\ StoredAreRecorded /\ [Next]_vars => StoredAreRecorded'
<1> SUFFICES ASSUME Shape, HomeKnown, StoredAreRecorded, [Next]_vars, NEW h \in Replicas
             PROVE  Conversation(store'[h]) \subseteq recorded'[h]
  BY DEF StoredAreRecorded
<1>1. Conversation(store[h]) \subseteq recorded[h]
  BY DEF StoredAreRecorded
<1>2. CASE UNCHANGED <<store, recorded>>
  BY <1>1, <1>2
<1>3. ASSUME NEW r \in Requests, NEW g \in Replicas, Record(g, r)
      PROVE  Conversation(store'[h]) \subseteq recorded'[h]
  BY <1>1, <1>3, RecordAdds DEF Shape, Conversation
<1>4. ASSUME NEW r \in Requests, FinishCompression(r)
      PROVE  Conversation(store'[h]) \subseteq recorded'[h]
  BY <1>1, <1>4, FinishSwaps DEF Shape, Conversation
<1>5. ASSUME NEW g \in Replicas, RecordArtifact(g)
      PROVE  Conversation(store'[h]) \subseteq recorded'[h]
  BY <1>1, <1>5, ArtifactAdds DEF Shape, Conversation
<1>6. ASSUME NEW g \in Replicas, Crash(g) \/ Clear(g)
      PROVE  Conversation(store'[h]) \subseteq recorded'[h]
  BY <1>1, <1>6, LossEmpties DEF Shape, Conversation
<1> QED
  BY <1>2, <1>3, <1>4, <1>5, <1>6, ItemSteps

\* A request gets its home when it is admitted and keeps it.
LEMMA HomeKnownStep == Shape /\ HomeKnown /\ [Next]_vars => HomeKnown'
<1> SUFFICES ASSUME Shape, HomeKnown, [Next]_vars
             PROVE  HomeKnown'
  OBVIOUS
<1>1. CASE UNCHANGED <<pc, home>>
  BY <1>1 DEF HomeKnown
<1>2. ASSUME NEW r \in Requests, NEW g \in Replicas, Admit(r, g)
      PROVE  HomeKnown'
  BY <1>2 DEF Admit, HomeKnown, Shape
<1>3. ASSUME NEW r \in Requests, UNCHANGED home,
             \/ \E g \in Replicas : Reject(r, g) \/ Enqueue(r, g)
             \/ CallEnds(r) \/ SkipCompression(r) \/ StartCompression(r)
             \/ FinishCompression(r) \/ AbandonCompression(r)
      PROVE  HomeKnown'
  BY <1>3 DEF Reject, Enqueue, CallEnds, SkipCompression, StartCompression, FinishCompression,
     ReplaceItems, AbandonCompression, HomeKnown, Shape
<1>4. ASSUME NEW g \in Replicas, Crash(g)
      PROVE  HomeKnown'
  BY <1>4 DEF Crash, HomeKnown
<1> QED
  BY <1>1, <1>2, <1>3, <1>4 DEF Next, vars, requestVars, Reject, Enqueue, Dispatch, CallEnds,
     SkipCompression, StartCompression, FinishCompression, ReplaceItems, AbandonCompression, Crash, Clear, RecordArtifact

\* Ids are given in order, and never again.
LEMMA MadeGrows ==
    ASSUME Shape, HomeKnown, [Next]_vars, NEW g \in Replicas
    PROVE  made[g] \in Nat /\ made'[g] \in Nat /\ made[g] <= made'[g]
<1>1. made[g] \in Nat
  BY DEF Shape
<1>2. \/ made' = made
      \/ \E h \in Replicas : made' = [made EXCEPT ![h] = @ + 1]
  BY ItemSteps, RecordAdds, FinishSwaps, ArtifactAdds, LossEmpties
<1> QED
  BY <1>1, <1>2 DEF Shape

\* A turn of the history was in it before, or is the item just made.
LEMMA RecordedSteps ==
    ASSUME Shape, HomeKnown, [Next]_vars, NEW g \in Replicas
    PROVE  /\ recorded'[g] = {} \/ recorded[g] \subseteq recorded'[g]
           /\ \A t \in recorded'[g] \ recorded[g] : t.id = made[g] + 1 /\ made'[g] = made[g] + 1
<1>1. CASE UNCHANGED recorded
  BY <1>1
<1>2. ASSUME NEW r \in Requests, NEW h \in Replicas, Record(h, r)
      PROVE  /\ recorded[g] \subseteq recorded'[g]
             /\ \A t \in recorded'[g] \ recorded[g] :
                   t.id = made[g] + 1 /\ made'[g] = made[g] + 1
  BY <1>2, RecordAdds DEF Shape
<1>3. ASSUME NEW h \in Replicas, Crash(h) \/ Clear(h)
      PROVE  recorded'[g] = {} \/ recorded'[g] = recorded[g]
  BY <1>3, LossEmpties DEF Shape
<1> QED
  BY <1>1, <1>2, <1>3, ItemSteps, FinishSwaps, ArtifactAdds

\* A new turn has the newest id.
LEMMA IdsGivenStep == Shape /\ HomeKnown /\ IdsGiven /\ [Next]_vars => IdsGiven'
<1> SUFFICES ASSUME Shape, HomeKnown, IdsGiven, [Next]_vars,
                    NEW g \in Replicas, NEW t \in recorded'[g]
             PROVE  t.id <= made'[g]
  BY DEF IdsGiven
<1>1. CASE t \in recorded[g]
  <2>1. t.id <= made[g] /\ t.id \in Nat
    BY <1>1 DEF IdsGiven, Shape, Items
  <2> QED
    BY <2>1, MadeGrows
<1>2. CASE t \notin recorded[g]
  BY <1>2, RecordedSteps, MadeGrows
<1> QED
  BY <1>1, <1>2

\* The turns after a given one only grow in number, until all are lost.
LEMMA LaterGrows ==
    ASSUME Shape, HomeKnown, RecordedAreTurns, [Next]_vars, NEW g \in Replicas,
           recorded'[g] # {}, NEW t
    PROVE  /\ Cardinality(Later(g, t)) \in Nat
           /\ Cardinality(Later(g, t)') \in Nat
           /\ Cardinality(Later(g, t)) <= Cardinality(Later(g, t)')
<1>1. recorded[g] \subseteq recorded'[g]
  BY RecordedSteps
<1>2. IsFiniteSet(recorded'[g])
  BY RecordedAreTurnsStep DEF RecordedAreTurns
<1>3. Later(g, t)' \subseteq recorded'[g]
  BY DEF Later
<1>4. Later(g, t) \subseteq Later(g, t)'
  BY <1>1 DEF Later
<1>5. IsFiniteSet(Later(g, t)')
  BY <1>2, <1>3, FS_Subset
<1>6. /\ IsFiniteSet(Later(g, t))
      /\ Cardinality(Later(g, t)) <= Cardinality(Later(g, t)')
  BY <1>4, <1>5, FS_Subset
<1> QED
  BY <1>5, <1>6, FS_CardinalityType

\* A compression captures old turns, and they do not get any newer, nor are they
\* recorded again when they have been cleared away.
LEMMA CapturedAreOldStep ==
    /\ Shape /\ RecordedAreTurns /\ StoredAreRecorded /\ HomeKnown /\ IdsGiven
    /\ CapturedAreOld /\ [Next]_vars
    => CapturedAreOld'
<1> SUFFICES ASSUME Shape, RecordedAreTurns, StoredAreRecorded, HomeKnown, IdsGiven,
                    CapturedAreOld, [Next]_vars, NEW r \in Requests, captured'[r] # {}
             PROVE  /\ pc'[r] = "summarizing"
                    /\ home'[r] = home[r]
                    /\ \A i \in captured'[r] :
                          /\ i.id <= made'[home[r]]
                          /\ i \in recorded'[home[r]] =>
                                Cardinality(Later(home[r], i)') >= KeepRecent
  BY DEF CapturedAreOld, Later
<1>1. CASE StartCompression(r)
  <2>1. home[r] \in Replicas /\ home' = home /\ made' = made
    BY <1>1 DEF StartCompression, HomeKnown, itemVars
  <2>2. pc'[r] = "summarizing" /\ captured'[r] = Old(store[home[r]])
    BY <1>1 DEF StartCompression, Shape
  <2>3. ASSUME NEW i \in Old(store[home[r]])
        PROVE  /\ i.id <= made'[home[r]]
               /\ i \in recorded'[home[r]] => Cardinality(Later(home[r], i)') >= KeepRecent
    <3> DEFINE newer == {j \in Conversation(store[home[r]]) : j.id > i.id}
    <3>1. i \in recorded[home[r]] /\ Cardinality(newer) >= KeepRecent
      BY <2>1, <2>3 DEF Old, StoredAreRecorded
    <3>2. newer \subseteq Later(home[r], i)
      BY <2>1 DEF Later, StoredAreRecorded
    <3>3. IsFiniteSet(Later(home[r], i))
      BY <2>1, FS_Subset DEF RecordedAreTurns, Later
    <3>4. Cardinality(newer) <= Cardinality(Later(home[r], i)) /\ Cardinality(newer) \in Nat
      BY <3>2, <3>3, FS_Subset, FS_CardinalityType
    <3>5. i \in recorded'[home[r]] => Cardinality(Later(home[r], i)') >= KeepRecent
      BY <2>1, <3>1, <3>4, LaterGrows, ContextConstants
    <3>6. i.id <= made[home[r]]
      BY <2>1, <3>1 DEF IdsGiven
    <3> QED
      BY <2>1, <3>5, <3>6
  <2> QED
    BY <2>1, <2>2, <2>3
<1>2. CASE ~StartCompression(r)
  <2>1. captured'[r] = captured[r]
    BY <1>2 DEF Next, vars, requestVars, Admit, Reject, Enqueue, Dispatch, CallEnds, Shape,
       SkipCompression, StartCompression, FinishCompression, ReplaceItems, AbandonCompression,
       Crash, Clear, RecordArtifact
  <2>2. pc[r] = "summarizing" /\ home[r] \in Replicas
    BY <2>1 DEF CapturedAreOld, HomeKnown
  <2>3. pc'[r] = "summarizing" /\ home'[r] = home[r]
    <3>1. ASSUME NEW g \in Replicas, Crash(g)
          PROVE  pc'[r] = "summarizing" /\ home'[r] = home[r]
      BY <2>2, <3>1 DEF Crash
    <3> QED
      BY <2>1, <2>2, <3>1 DEF Next, vars, requestVars, Admit, Reject, Enqueue, Dispatch, CallEnds,
         Shape, SkipCompression, StartCompression, FinishCompression, ReplaceItems,
         AbandonCompression, Clear, RecordArtifact
  <2>4. ASSUME NEW i \in captured[r]
        PROVE  /\ i.id <= made'[home[r]]
               /\ i \in recorded'[home[r]] => Cardinality(Later(home[r], i)') >= KeepRecent
    <3>1. /\ i.id \in Nat /\ i.id <= made[home[r]]
          /\ i \in recorded[home[r]] => Cardinality(Later(home[r], i)) >= KeepRecent
      BY <2>4 DEF CapturedAreOld, Shape, Items
    <3>2. i.id <= made'[home[r]]
      BY <2>2, <3>1, MadeGrows
    <3>3. ASSUME i \in recorded'[home[r]]
          PROVE  Cardinality(Later(home[r], i)') >= KeepRecent
      <4>1. i \in recorded[home[r]]
        <5>1. made[home[r]] \in Nat /\ (i \notin recorded[home[r]] => i.id = made[home[r]] + 1)
          BY <2>2, <3>3, RecordedSteps, MadeGrows
        <5> QED
          BY <3>1, <5>1
      <4>2. /\ Cardinality(Later(home[r], i)) <= Cardinality(Later(home[r], i)')
            /\ Cardinality(Later(home[r], i)) \in Nat
            /\ Cardinality(Later(home[r], i)') \in Nat
        BY <2>2, <2>3, <3>3, LaterGrows
      <4> QED
        BY <3>1, <4>1, <4>2, ContextConstants
    <3> QED
      BY <3>2, <3>3
  <2> QED
    BY <2>1, <2>3, <2>4
<1> QED
  BY <1>1, <1>2

\* Recording adds to the store; a summary stands for all it replaces.
LEMMA NoTurnLostStep == Shape /\ HomeKnown /\ NoTurnLost /\ [Next]_vars => NoTurnLost'
<1> SUFFICES ASSUME Shape, HomeKnown, NoTurnLost, [Next]_vars,
                    NEW h \in Replicas, NEW u \in recorded'[h]
             PROVE  \E i \in store'[h] : u.id \in i.turns
  BY DEF NoTurnLost
<1>1. CASE UNCHANGED <<store, recorded>>
  BY <1>1 DEF NoTurnLost
<1>2. ASSUME NEW r \in Requests, NEW g \in Replicas, Record(g, r)
      PROVE  \E i \in store'[h] : u.id \in i.turns
  <2>1. PICK t \in Items : /\ t.id \in t.turns
                           /\ store' = [store EXCEPT ![g] = @ \cup {t}]
                           /\ recorded' = [recorded EXCEPT ![g] = @ \cup {t}]
    BY <1>2, RecordAdds
  <2>2. CASE u \in recorded[h]
    BY <2>1, <2>2 DEF NoTurnLost, Shape
  <2>3. CASE u \notin recorded[h]
    BY <2>1, <2>3 DEF Shape
  <2> QED
    BY <2>2, <2>3
<1>3. ASSUME NEW r \in Requests, FinishCompression(r)
      PROVE  \E i \in store'[h] : u.id \in i.turns
  <2>1. PICK s \in Items : /\ \A i \in captured[r] : i.turns \subseteq s.turns
                           /\ store' = [store EXCEPT ![home[r]] = (@ \ captured[r]) \cup {s}]
    BY <1>3, FinishSwaps
  <2>2. PICK i \in store[h] : u.id \in i.turns
    BY <1>3, FinishSwaps DEF NoTurnLost
  <2>3. CASE i \in store'[h]
    BY <2>2, <2>3
  <2>4. CASE i \notin store'[h]
    <3>1. i \in captured[r] /\ s \in store'[h]
      BY <2>1, <2>2, <2>4 DEF Shape
    <3> QED
      BY <2>1, <2>2, <3>1
  <2> QED
    BY <2>3, <2>4
<1>4. ASSUME NEW g \in Replicas, RecordArtifact(g)
      PROVE  \E i \in store'[h] : u.id \in i.turns
  <2>1. recorded' = recorded /\ store[h] \subseteq store'[h]
    BY <1>4, ArtifactAdds DEF Shape
  <2> QED
    BY <2>1 DEF NoTurnLost
<1>5. ASSUME NEW g \in Replicas, Crash(g) \/ Clear(g)
      PROVE  \E i \in store'[h] : u.id \in i.turns
  <2>1. recorded'[h] = recorded[h] /\ store'[h] = store[h]
    BY <1>5, LossEmpties DEF Shape
  <2> QED
    BY <2>1 DEF NoTurnLost
<1> QED
  BY <1>1, <1>2, <1>3, <1>4, <1>5, ItemSteps

\* What a compression takes away has KeepRecent newer turns.
LEMMA RecentTurnsKeptStep ==
    /\ Shape /\ RecordedAreTurns /\ HomeKnown /\ CapturedAreOld /\ RecentTurnsKept
    /\ [Next]_vars
    => RecentTurnsKept'
<1> SUFFICES ASSUME Shape, RecordedAreTurns, HomeKnown, CapturedAreOld, RecentTurnsKept,
                    [Next]_vars, NEW h \in Replicas, NEW u \in recorded'[h],
                    Cardinality(Later(h, u)') < KeepRecent
             PROVE  u \in store'[h]
  BY DEF RecentTurnsKept
<1>1. Cardinality(Later(h, u)) < KeepRecent
  BY LaterGrows, ContextConstants
<1>2. CASE UNCHANGED <<store, recorded>>
  BY <1>1, <1>2 DEF RecentTurnsKept
<1>3. ASSUME NEW r \in Requests, NEW g \in Replicas, Record(g, r)
      PROVE  u \in store'[h]
  <2>1. PICK t \in Items : /\ store' = [store EXCEPT ![g] = @ \cup {t}]
                           /\ recorded' = [recorded EXCEPT ![g] = @ \cup {t}]
    BY <1>3, RecordAdds
  <2>2. CASE u \in recorded[h]
    BY <1>1, <2>1, <2>2 DEF RecentTurnsKept, Shape
  <2>3. CASE u \notin recorded[h]
    BY <2>1, <2>3 DEF Shape
  <2> QED
    BY <2>2, <2>3
<1>4. ASSUME NEW r \in Requests, FinishCompression(r)
      PROVE  u \in store'[h]
  <2>1. PICK s \in Items : store' = [store EXCEPT ![home[r]] = (@ \ captured[r]) \cup {s}]
    BY <1>4, FinishSwaps
  <2>2. u \in store[h]
    BY <1>1, <1>4, FinishSwaps DEF RecentTurnsKept
  <2>3. h = home[r] => u \notin captured[r]
    <3> SUFFICES ASSUME h = home[r], u \in captured[r]
                 PROVE  FALSE
      OBVIOUS
    <3>1. Cardinality(Later(h, u)) >= KeepRecent
      BY <1>4, FinishSwaps DEF CapturedAreOld
    <3> QED
      BY <1>1, <3>1, LaterGrows, ContextConstants
  <2> QED
    BY <2>1, <2>2, <2>3 DEF Shape
<1>5. ASSUME NEW g \in Replicas, RecordArtifact(g)
      PROVE  u \in store'[h]
  <2>1. recorded' = recorded /\ store[h] \subseteq store'[h]
    BY <1>5, ArtifactAdds DEF Shape
  <2> QED
    BY <1>1, <2>1 DEF RecentTurnsKept
<1>6. ASSUME NEW g \in Replicas, Crash(g) \/ Clear(g)
      PROVE  u \in store'[h]
  <2>1. recorded'[h] = recorded[h] /\ store'[h] = store[h]
    BY <1>6, LossEmpties DEF Shape
  <2> QED
    BY <1>1, <2>1 DEF RecentTurnsKept
<1> QED
  BY <1>2, <1>3, <1>4, <1>5, <1>6, ItemSteps

\* A step that records a turn admits its request or dispatches its job, and no
\* request goes back.
LEMMA OnlyAdmittedRecordedStep ==
    Shape /\ HomeKnown /\ RecordedAreTurns /\ OnlyAdmittedRecorded /\ [Next]_vars
    => OnlyAdmittedRecorded'
<1> DEFINE Good(r) == /\ pc[r] \notin {"new", "rejected"}
                      /\ r \in Queued => measured[r] <= Capacity
<1> SUFFICES ASSUME Shape, HomeKnown, RecordedAreTurns, OnlyAdmittedRecorded, [Next]_vars,
                    NEW h \in Replicas, NEW u \in recorded'[h]
             PROVE  Good(u.req)'
  BY DEF OnlyAdmittedRecorded
<1>1. ASSUME NEW q \in Requests, Good(q)
      PROVE  Good(q)'
  BY <1>1 DEF Next, vars, requestVars, Admit, Reject, Enqueue, Dispatch, CallEnds, Shape,
       SkipCompression, StartCompression, FinishCompression, ReplaceItems, AbandonCompression, Crash, Clear, RecordArtifact
<1>2. CASE u \in recorded[h]
  <2>1. u.req \in Requests /\ Good(u.req)
    BY <1>2 DEF RecordedAreTurns, OnlyAdmittedRecorded
  <2> QED
    BY <1>1, <2>1
<1>3. CASE u \notin recorded[h]
  <2>1. PICK r \in Requests, g \in Replicas : (Admit(r, g) \/ Dispatch(r, g)) /\ Record(g, r)
    <3>1. ASSUME NEW g \in Replicas, Crash(g) \/ Clear(g)
          PROVE  recorded'[h] \subseteq recorded[h]
      BY <3>1, LossEmpties DEF Shape
    <3> QED
      BY <1>3, <3>1, ItemSteps, FinishSwaps, ArtifactAdds
  <2>2. u.req = r
    BY <1>3, <2>1, RecordAdds DEF Shape
  <2>3. Good(r)'
    <3>1. CASE Admit(r, g)
      BY <3>1, ContextConstants DEF Admit, Shape
    <3>2. CASE Dispatch(r, g)
      <4>1. made' # made
        BY <2>1 DEF Record, Shape
      <4>2. measured[r] <= Capacity /\ UNCHANGED <<pc, measured>> /\ pc[r] = "queued"
        BY <3>2, <4>1 DEF Dispatch, itemVars
      <4> QED
        BY <4>2
    <3> QED
      BY <2>1, <3>1, <3>2
  <2> QED
    BY <2>2, <2>3
<1> QED
  BY <1>2, <1>3

-----------------------------------------------------------------------------
(* The theorems.                                                           *)

\* The invariant holds of empty stores.
LEMMA InitIInv == Init => IInv
<1> SUFFICES ASSUME Init
             PROVE  IInv
  OBVIOUS
<1>1. Shape
  BY DEF Init, Shape, States
<1>2. RecordedAreTurns
  BY FS_EmptySet DEF Init, RecordedAreTurns
<1>3. StoredAreRecorded /\ HomeKnown /\ IdsGiven /\ CapturedAreOld
  BY DEF Init, StoredAreRecorded, HomeKnown, IdsGiven, CapturedAreOld, Conversation
<1>4. NoTurnLost /\ RecentTurnsKept /\ OnlyAdmittedRecorded
  BY DEF Init, NoTurnLost, RecentTurnsKept, OnlyAdmittedRecorded
<1> QED
  BY <1>1, <1>2, <1>3, <1>4 DEF IInv

\* The strengthened invariant: the three properties, and what the compressions
\* under way have captured.
THEOREM Invariance == Spec => []IInv
<1>1. IInv /\ [Next]_vars => IInv'
  BY ShapeStep, RecordedAreTurnsStep, StoredAreRecordedStep, HomeKnownStep, IdsGivenStep, CapturedAreOldStep,
     NoTurnLostStep, RecentTurnsKeptStep, OnlyAdmittedRecordedStep DEF IInv
<1> QED
  BY InitIInv, <1>1, PTL DEF Spec

\* A recorded turn is in the store for ever, as itself or in a summary, however
\* many compressions of the workflow overlap.
THEOREM TurnsAreNeverLost == Spec => []NoTurnLost
<1>1. IInv => NoTurnLost
  BY DEF IInv
<1> QED
  BY Invariance, <1>1, PTL

\* No compression takes one of the newest KeepRecent turns, whatever is recorded
\* between its choice of items and the summary.
THEOREM RecentTurnsAreKept == Spec => []RecentTurnsKept
<1>1. IInv => RecentTurnsKept
  BY DEF IInv
<1> QED
  BY Invariance, <1>1, PTL

\* A request that was refused has recorded nothing.
THEOREM RefusedLeaveNothing == Spec => []OnlyAdmittedRecorded
<1>1. IInv => OnlyAdmittedRecorded
  BY DEF IInv
<1> QED
  BY Invariance, <1>1, PTL

-----------------------------------------------------------------------------
(* Token totals.                                                           *)

Tokens(S) == [i \in S |-> i.tokens]

\* A total is the sum of the tokens, whatever larger set they are listed for.
LEMMA TotalIsSum ==
    ASSUME NEW S \in SUBSET Items, NEW K \in SUBSET S, IsFiniteSet(K)
    PROVE  TotalTokens(K) = SumOver(Tokens(S), K)
<1> DEFINE f == Tokens(S)
           Equation(k) ==
               k = [s \in SUBSET K |-> IF s = {} THEN 0
                       ELSE (CHOOSE x \in s : TRUE).tokens + k[s \ {CHOOSE x \in s : TRUE}]]
           chosen == CHOOSE k : Equation(k)
<1>1. TotalTokens(K) = chosen[K]
  BY DEF TotalTokens, MapThenSumSet, MapThenFoldSet
<1>2. f \in [S -> Nat] /\ \A x \in S : f[x] = x.tokens
  BY DEF Tokens, Items
<1>3. Tokens(K) \in [K -> Nat] /\ \A x \in K : Tokens(K)[x] = x.tokens
  BY DEF Tokens, Items
<1>4. \A s \in SUBSET K : s # {} => (CHOOSE x \in s : TRUE) \in K
  OBVIOUS
<1>5. \E k : Equation(k)
  <2>1. PICK k \in [SUBSET K -> Nat] : Sums(k, Tokens(K), SUBSET K)
    BY <1>3, SumsExist
  <2>2. \A s \in SUBSET K :
           k[s] = IF s = {} THEN 0
                  ELSE (CHOOSE x \in s : TRUE).tokens + k[s \ {CHOOSE x \in s : TRUE}]
    BY <1>3, <1>4, <2>1 DEF Sums
  <2>3. Equation(k)
    BY <2>1, <2>2
  <2> QED
    BY <2>3
<1>6. Equation(chosen)
  <2> HIDE DEF Equation
  <2> QED
    BY <1>5
<1> HIDE DEF chosen, f
<1>7. Sums(chosen, f, SUBSET K)
  <2> SUFFICES ASSUME NEW s \in SUBSET K
               PROVE  chosen[s] = IF s = {} THEN 0
                                  ELSE f[CHOOSE x \in s : TRUE] + chosen[s \ {CHOOSE x \in s : TRUE}]
    BY DEF Sums
  <2>1. chosen[s] = IF s = {} THEN 0
                    ELSE (CHOOSE x \in s : TRUE).tokens + chosen[s \ {CHOOSE x \in s : TRUE}]
    BY <1>6
  <2>2. CASE s = {}
    BY <2>1, <2>2
  <2>3. CASE s # {}
    <3>1. f[CHOOSE x \in s : TRUE] = (CHOOSE x \in s : TRUE).tokens
      BY <1>2, <1>4, <2>3
    <3> QED
      BY <2>1, <2>3, <3>1
  <2> QED
    BY <2>2, <2>3
<1>8. SumOver(f, K) = chosen[K]
  BY <1>2, <1>7, SumOverIs
<1> QED
  BY <1>1, <1>8 DEF f

LEMMA TotalIsNat ==
    ASSUME NEW K \in SUBSET Items, IsFiniteSet(K)
    PROVE  TotalTokens(K) \in Nat
<1>1. Tokens(K) \in [K -> Nat]
  BY DEF Tokens, Items
<1>2. SumOver(Tokens(K), K) \in Nat
  BY <1>1, SumFacts
<1> QED
  BY <1>2, TotalIsSum

\* One item more adds its tokens to the total.
LEMMA TotalWithOneMore ==
    ASSUME NEW K \in SUBSET Items, IsFiniteSet(K), NEW i \in Items, i \notin K
    PROVE  TotalTokens(K \cup {i}) = TotalTokens(K) + i.tokens
<1> DEFINE S == K \cup {i}
<1>1. S \in SUBSET Items /\ IsFiniteSet(S) /\ K \in SUBSET S
  BY FS_AddElement
<1>2. Tokens(S) \in [S -> Nat] /\ Tokens(S)[i] = i.tokens /\ i.tokens \in Nat
  BY DEF Tokens, Items
<1> HIDE DEF S
<1>3. TotalTokens(S) = SumOver(Tokens(S), S) /\ TotalTokens(K) = SumOver(Tokens(S), K)
  BY <1>1, TotalIsSum
<1>4. SumOver(Tokens(S), K \cup {i}) = Tokens(S)[i] + SumOver(Tokens(S), K)
  BY <1>1, <1>2, SumWithOneMore DEF S
<1>5. SumOver(Tokens(S), K) \in Nat
  BY <1>1, <1>2, SumFacts
<1> QED
  BY <1>2, <1>3, <1>4, <1>5 DEF S

\* The total of what is left is what the items taken away leave of the total.
LEMMA TotalSplit ==
    ASSUME NEW S \in SUBSET Items, IsFiniteSet(S), NEW C \in SUBSET S
    PROVE  /\ TotalTokens(S) = TotalTokens(C) + TotalTokens(S \ C)
           /\ TotalTokens(C) \in Nat /\ TotalTokens(S \ C) \in Nat
<1>1. IsFiniteSet(C) /\ IsFiniteSet(S \ C) /\ S \ C \in SUBSET S
  BY FS_Subset
<1>2. Tokens(S) \in [S -> Nat]
  BY DEF Tokens, Items
<1>3. /\ TotalTokens(S) = SumOver(Tokens(S), S)
      /\ TotalTokens(C) = SumOver(Tokens(S), C)
      /\ TotalTokens(S \ C) = SumOver(Tokens(S), S \ C)
  BY <1>1, TotalIsSum
<1>4. SumOver(Tokens(S), S) = SumOver(Tokens(S), C) + SumOver(Tokens(S), S \ C)
  BY <1>2, SumSplit
<1>5. SumOver(Tokens(S), C) \in Nat /\ SumOver(Tokens(S), S \ C) \in Nat
  BY <1>1, <1>2, SumFacts
<1> QED
  BY <1>3, <1>4, <1>5

-----------------------------------------------------------------------------
(* Every variable has its type: there are finitely many items, each with an *)
(* id of its own, so that their totals are numbers.                        *)

ItemsNumbered ==
    \A g \in Replicas :
        /\ IsFiniteSet(store[g])
        /\ \A i \in store[g] : i.id <= made[g]
        /\ \A i, j \in store[g] : i.id = j.id => i = j

CapturedAreFinite == \A r \in Requests : IsFiniteSet(captured[r])

Counted == TypeOK /\ ItemsNumbered /\ CapturedAreFinite

\* A new item gets the next number, and what is left keeps its own.
LEMMA ItemsNumberedStep == Shape /\ HomeKnown /\ ItemsNumbered /\ [Next]_vars => ItemsNumbered'
<1> SUFFICES ASSUME Shape, HomeKnown, ItemsNumbered, [Next]_vars, NEW h \in Replicas
             PROVE  /\ IsFiniteSet(store'[h])
                    /\ \A i \in store'[h] : i.id <= made'[h]
                    /\ \A i, j \in store'[h] : i.id = j.id => i = j
  BY DEF ItemsNumbered
<1> DEFINE Goal == /\ IsFiniteSet(store'[h])
                   /\ \A i \in store'[h] : i.id <= made'[h]
                   /\ \A i, j \in store'[h] : i.id = j.id => i = j
<1>1. /\ IsFiniteSet(store[h])
      /\ \A i \in store[h] : i.id <= made[h]
      /\ \A i, j \in store[h] : i.id = j.id => i = j
  BY DEF ItemsNumbered
<1>2. made[h] \in Nat /\ \A i \in store[h] : i.id \in Nat
  BY DEF Shape, Items
<1>3. ASSUME NEW s, s.id = made[h] + 1, NEW gone,
             store'[h] = (store[h] \ gone) \cup {s}, made'[h] = made[h] + 1
      PROVE  Goal
  <2>1. IsFiniteSet(store'[h])
    <3>1. store[h] \ gone \in SUBSET store[h]
      OBVIOUS
    <3>2. IsFiniteSet(store[h] \ gone)
      BY <1>1, <3>1, FS_Subset
    <3> QED
      BY <1>3, <3>2, FS_AddElement
  <2>2. \A i \in store'[h] : i = s \/ (i \in store[h] /\ i.id <= made[h])
    BY <1>1, <1>3
  <2>3. \A i \in store'[h] : i.id <= made'[h]
    BY <1>2, <1>3, <2>2
  <2>4. \A i, j \in store'[h] : i.id = j.id => i = j
    BY <1>1, <1>2, <1>3, <2>2
  <2> QED
    BY <2>1, <2>3, <2>4
<1>4. ASSUME store'[h] = store[h], made'[h] = made[h]
      PROVE  Goal
  BY <1>1, <1>4, Zenon
<1>5. ASSUME NEW g \in Replicas, NEW s, s.id = made[g] + 1, NEW gone,
             store' = [store EXCEPT ![g] = (@ \ gone) \cup {s}],
             made' = [made EXCEPT ![g] = @ + 1]
      PROVE  Goal
  <2>1. h \in DOMAIN store /\ h \in DOMAIN made
    BY DEF Shape
  <2>2. CASE g = h
    <3>1. store'[h] = (store[h] \ gone) \cup {s} /\ made'[h] = made[h] + 1
      BY <1>5, <2>1, <2>2
    <3>2. s.id = made[h] + 1
      BY <1>5, <2>2
    <3> HIDE DEF Goal
    <3> QED
      BY <1>3, <3>1, <3>2
  <2>3. CASE g # h
    BY <1>4, <1>5, <2>1, <2>3
  <2> QED
    BY <2>2, <2>3
<1> HIDE DEF Goal
<1>6. ASSUME UNCHANGED <<store, made, recorded>>
      PROVE  Goal
  <2>1. store' = store /\ made' = made
    BY <1>6
  <2> QED
    BY <1>4, <2>1, Zenon
<1>7. ASSUME NEW r \in Requests, NEW g \in Replicas, Record(g, r)
      PROVE  Goal
  <2>1. PICK t \in Items : /\ t.id = made[g] + 1
                           /\ store' = [store EXCEPT ![g] = @ \cup {t}]
                           /\ made' = [made EXCEPT ![g] = @ + 1]
    BY <1>7, RecordAdds
  <2>2. store' = [store EXCEPT ![g] = (@ \ {}) \cup {t}]
    BY <2>1
  <2> QED
    BY <1>5, <2>1, <2>2
<1>8. ASSUME NEW r \in Requests, FinishCompression(r)
      PROVE  Goal
  <2>1. home[r] \in Replicas
    BY <1>8, FinishSwaps
  <2>2. PICK s \in Items : /\ s.id = made[home[r]] + 1
                           /\ store' = [store EXCEPT ![home[r]] = (@ \ captured[r]) \cup {s}]
    BY <1>8, FinishSwaps
  <2>3. made' = [made EXCEPT ![home[r]] = @ + 1]
    BY <1>8, FinishSwaps
  <2> QED
    BY <1>5, <2>1, <2>2, <2>3
<1>9. ASSUME NEW g \in Replicas, RecordArtifact(g)
      PROVE  Goal
  <2>1. PICK s \in Items : s.id = made[g] + 1 /\ store' = [store EXCEPT ![g] = @ \cup {s}]
    BY <1>9, ArtifactAdds
  <2>2. store' = [store EXCEPT ![g] = (@ \ {}) \cup {s}]
    BY <2>1
  <2>3. made' = [made EXCEPT ![g] = @ + 1]
    BY <1>9, ArtifactAdds
  <2> QED
    BY <1>5, <2>1, <2>2, <2>3
<1>10. ASSUME NEW g \in Replicas, Crash(g) \/ Clear(g)
       PROVE  Goal
  <2>1. store' = [store EXCEPT ![g] = {}] /\ made' = made
    BY <1>10, LossEmpties
  <2>2. store'[h] = {} \/ store'[h] = store[h]
    BY <2>1 DEF Shape
  <2>3. CASE store'[h] = store[h]
    BY <1>4, <2>1, <2>3
  <2>4. CASE store'[h] = {}
    <3>1. IsFiniteSet(store'[h])
      BY <2>4, FS_EmptySet, Zenon
    <3> QED
      BY <2>4, <3>1 DEF Goal
  <2> QED
    BY <2>2, <2>3, <2>4
<1>11. ASSUME NEW r \in Requests, NEW g \in Replicas, (Admit(r, g) \/ Dispatch(r, g)) /\ Record(g, r)
       PROVE  Goal
  BY <1>7, <1>11
<1>12. Goal
  BY <1>6, <1>8, <1>9, <1>10, <1>11, ItemSteps
<1> QED
  BY <1>12 DEF Goal

\* What a compression captures is a part of a store.
LEMMA CapturedAreFiniteStep ==
    Shape /\ HomeKnown /\ ItemsNumbered /\ CapturedAreFinite /\ [Next]_vars => CapturedAreFinite'
<1> SUFFICES ASSUME Shape, HomeKnown, ItemsNumbered, CapturedAreFinite, [Next]_vars,
                    NEW q \in Requests
             PROVE  IsFiniteSet(captured'[q])
  BY DEF CapturedAreFinite
<1>1. IsFiniteSet(captured[q]) /\ IsFiniteSet({})
  BY FS_EmptySet DEF CapturedAreFinite
<1>2. ASSUME NEW r \in Requests, StartCompression(r)
      PROVE  IsFiniteSet(captured'[q])
  <2>1. home[r] \in Replicas
    BY <1>2 DEF StartCompression, HomeKnown
  <2>2. Old(store[home[r]]) \in SUBSET store[home[r]]
    BY DEF Old, Conversation
  <2>3. IsFiniteSet(Old(store[home[r]]))
    BY <2>1, <2>2, FS_Subset DEF ItemsNumbered
  <2>4. captured'[q] \in {captured[q], Old(store[home[r]])}
    BY <1>2 DEF StartCompression, Shape
  <2> QED
    BY <1>1, <2>3, <2>4
<1>3. CASE ~\E r \in Requests : StartCompression(r)
  <2>1. captured'[q] \in {captured[q], {}}
    BY <1>3 DEF Shape, Next, vars, requestVars, Admit, Reject, Enqueue, Dispatch, CallEnds,
       SkipCompression, FinishCompression, ReplaceItems, AbandonCompression, Crash, Clear, RecordArtifact
  <2> QED
    BY <1>1, <2>1
<1> QED
  BY <1>2, <1>3

\* Totals are numbers, and the counter only takes differences that are.
LEMMA TypeStep ==
    Shape /\ HomeKnown /\ Counted /\ [Next]_vars => TypeOK'
<1> SUFFICES ASSUME Shape, HomeKnown, TypeOK, ItemsNumbered, CapturedAreFinite, [Next]_vars
             PROVE  TypeOK'
  BY DEF Counted
<1>1. Shape'
  BY ShapeStep
<1>2. saved' \in [Replicas -> Nat]
  <2>1. CASE UNCHANGED saved
    BY <2>1 DEF TypeOK
  <2>2. ASSUME NEW r \in Requests, FinishCompression(r)
        PROVE  saved' \in [Replicas -> Nat]
    <3>1. home[r] \in Replicas
      BY <2>2 DEF FinishCompression, HomeKnown
    <3>2. PICK tokens \in SummarySizes : ReplaceItems(r, captured[r], tokens)
      BY <2>2 DEF FinishCompression
    <3> DEFINE before == TotalTokens(captured[r])
    <3>3. before \in Nat
      <4>1. captured[r] \in SUBSET Items /\ IsFiniteSet(captured[r])
        BY DEF Shape, CapturedAreFinite
      <4> QED
        BY <4>1, TotalIsNat
    <3>4. tokens \in Nat
      BY ContextConstants
    <3>5. saved' = IF before < tokens THEN saved
                   ELSE [saved EXCEPT ![home[r]] = @ + (before - tokens)]
      BY <3>2 DEF ReplaceItems
    <3> HIDE DEF before
    <3>6. CASE before < tokens
      BY <3>5, <3>6 DEF TypeOK
    <3>7. CASE ~(before < tokens)
      <4>1. before - tokens \in Nat
        BY <3>3, <3>4, <3>7
      <4>2. saved[home[r]] + (before - tokens) \in Nat
        BY <3>1, <4>1 DEF TypeOK
      <4> QED
        BY <3>5, <3>7, <4>2 DEF TypeOK
    <3> QED
      BY <3>6, <3>7
  <2>3. ASSUME NEW g \in Replicas, Crash(g)
        PROVE  saved' \in [Replicas -> Nat]
    BY <2>3 DEF Crash, TypeOK
  <2> QED
    BY <2>1, <2>2, <2>3 DEF Next, vars, Admit, Reject, Enqueue, Dispatch, CallEnds,
       SkipCompression, StartCompression, AbandonCompression, Clear, RecordArtifact
<1>3. measured' \in [Requests -> Nat]
  <2>1. CASE UNCHANGED measured
    BY <2>1 DEF TypeOK
  <2>2. ASSUME NEW r \in Requests, NEW g \in Replicas, Enqueue(r, g)
        PROVE  measured' \in [Requests -> Nat]
    <3>1. TotalTokens(store[g]) \in Nat
      <4>1. store[g] \in SUBSET Items /\ IsFiniteSet(store[g])
        BY DEF Shape, ItemsNumbered
      <4> QED
        BY <4>1, TotalIsNat
    <3>2. Prospective(g, r) \in Nat
      BY <3>1, ContextConstants DEF Prospective
    <3> QED
      BY <2>2, <3>2 DEF Enqueue, TypeOK
  <2> QED
    BY <2>1, <2>2 DEF Next, vars, requestVars, Admit, Reject, Dispatch, CallEnds,
       SkipCompression, StartCompression, FinishCompression, ReplaceItems, AbandonCompression,
       Crash, Clear, RecordArtifact
<1>4. dispatched' \in [Requests -> 0 .. MaxDispatches]
  <2>1. CASE UNCHANGED dispatched
    BY <2>1 DEF TypeOK
  <2>2. ASSUME NEW r \in Requests, NEW g \in Replicas, Dispatch(r, g)
        PROVE  dispatched' \in [Requests -> 0 .. MaxDispatches]
    BY <2>2, ContextConstants DEF Dispatch, TypeOK
  <2> QED
    BY <2>1, <2>2 DEF Next, vars, requestVars, Admit, Reject, Enqueue, CallEnds,
       SkipCompression, StartCompression, FinishCompression, ReplaceItems, AbandonCompression,
       Crash, Clear, RecordArtifact
<1>5. events' \in 0 .. MaxEvents
  BY ContextConstants DEF TypeOK, Next, vars, requestVars, Admit, Reject, Enqueue, Dispatch,
     CallEnds, SkipCompression, StartCompression, FinishCompression, ReplaceItems,
     AbandonCompression, Crash, Clear, RecordArtifact
<1> QED
  BY <1>1, <1>2, <1>3, <1>4, <1>5 DEF Shape, TypeOK

\* The items of every store are finitely many, and each has its own id.
THEOREM CountingInvariance == Spec => []Counted
<1>1. Init => Counted
  <2> SUFFICES ASSUME Init
               PROVE  Counted
    OBVIOUS
  <2>1. TypeOK
    BY ContextConstants DEF Init, TypeOK, States
  <2>2. ItemsNumbered /\ CapturedAreFinite
    BY FS_EmptySet DEF Init, ItemsNumbered, CapturedAreFinite
  <2> QED
    BY <2>1, <2>2 DEF Counted
<1>2. IInv /\ Counted /\ [Next]_vars => Counted'
  BY TypeStep, ItemsNumberedStep, CapturedAreFiniteStep DEF IInv, Counted
<1> QED
  BY Invariance, <1>1, <1>2, PTL DEF Spec

\* Every variable has its type: no total, and no counter of saved tokens, is ever
\* anything but a number, though a summary may be longer than what it replaces.
THEOREM TypeCorrect == Spec => []TypeOK
<1>1. Counted => TypeOK
  BY DEF Counted
<1> QED
  BY CountingInvariance, <1>1, PTL

-----------------------------------------------------------------------------
(* Selections.                                                             *)

\* A finite set of items, each with an id of its own.
Stock(S) ==
    /\ S \in SUBSET Items
    /\ IsFiniteSet(S)
    /\ \A i, j \in S : i.id = j.id => i = j

\* The list of a workflow has every item once.
LEMMA ListedOnce ==
    ASSUME NEW S, Stock(S)
    PROVE  /\ Cardinality(S) \in Nat
           /\ Listed(S) \in [1 .. Cardinality(S) -> S]
           /\ \A m, n \in 1 .. Cardinality(S) : Listed(S)[m] = Listed(S)[n] => m = n
           /\ \A i \in S : \E n \in 1 .. Cardinality(S) : Listed(S)[n] = i
<1> DEFINE R == {e \in S \X S : e[1].id < e[2].id}
           N == 1 .. Cardinality(S)
           rank(j) == Cardinality({i \in S : i.id < j.id})
           chosen(n) == CHOOSE j \in S : rank(j) = n - 1
<1>1. IsFiniteSet(S) /\ (\A i \in S : i.id \in Nat) /\ \A i, j \in S : i.id = j.id => i = j
  BY DEF Stock, Items
<1>2. StrictOrder(S, R)
  BY <1>1 DEF StrictOrder
<1>3. \A j \in S : rank(j) = Cardinality(Before(S, R, j))
  <2>1. \A j \in S : {i \in S : i.id < j.id} = Before(S, R, j)
    BY DEF Before
  <2> QED
    BY <2>1
<1>4. Cardinality(S) \in Nat
  BY <1>1, FS_CardinalityType
<1>5. \A j \in S : rank(j) \in Nat
  <2> SUFFICES ASSUME NEW j \in S
               PROVE  rank(j) \in Nat
    OBVIOUS
  <2>1. {i \in S : i.id < j.id} \in SUBSET S
    OBVIOUS
  <2>2. IsFiniteSet({i \in S : i.id < j.id})
    BY <1>1, <2>1, FS_Subset
  <2> QED
    BY <2>2, FS_CardinalityType
<1> HIDE DEF R
<1>6. /\ \A j \in S : Cardinality(Before(S, R, j)) + 1 \in N
      /\ \A i, j \in S : Cardinality(Before(S, R, i)) = Cardinality(Before(S, R, j)) => i = j
      /\ \A k \in N : \E j \in S : Cardinality(Before(S, R, j)) + 1 = k
  BY <1>1, <1>2, Places
<1>7. Listed(S) = [n \in N |-> chosen(n)]
  BY DEF Listed
<1> HIDE DEF rank
<1>8. /\ \A j \in S : rank(j) + 1 \in N
      /\ \A i, j \in S : rank(i) = rank(j) => i = j
      /\ \A k \in N : \E j \in S : rank(j) + 1 = k
  BY <1>3, <1>6
<1>9. \A n \in N : chosen(n) \in S /\ rank(chosen(n)) = n - 1
  <2> SUFFICES ASSUME NEW n \in N
               PROVE  chosen(n) \in S /\ rank(chosen(n)) = n - 1
    OBVIOUS
  <2>1. PICK j \in S : rank(j) + 1 = n
    BY <1>8
  <2>2. rank(j) = n - 1
    BY <1>5, <2>1
  <2> QED
    BY <2>2
<1> HIDE DEF chosen
<1>10. Listed(S) \in [N -> S]
  BY <1>7, <1>9
<1>11. \A n \in N : Listed(S)[n] = chosen(n)
  BY <1>7
<1>12. \A m, n \in N : chosen(m) = chosen(n) => m = n
  BY <1>4, <1>9
<1>13. \A i \in S : chosen(rank(i) + 1) = i
  <2> SUFFICES ASSUME NEW i \in S
               PROVE  chosen(rank(i) + 1) = i
    OBVIOUS
  <2>1. rank(i) + 1 \in N /\ rank(i) \in Nat
    BY <1>5, <1>8
  <2>2. chosen(rank(i) + 1) \in S /\ rank(chosen(rank(i) + 1)) = rank(i)
    BY <1>9, <2>1
  <2> QED
    BY <1>8, <2>2
<1> QED
  BY <1>4, <1>8, <1>10, <1>11, <1>12, <1>13

LEMMA TimesNat ==
    ASSUME NEW a \in Nat \ {0}, NEW b \in Nat \ {0}
    PROVE  a * b \in Nat \ {0}
OBVIOUS

\* Every policy ranks by fractions.
LEMMA KeysAreFractions ==
    ASSUME NEW S, Stock(S), NEW i \in S, NEW policy \in Policies
    PROVE  Key(policy, i, S) \in Fractions
<1> DEFINE ids == {j.id : j \in S}
           recency == Normalized(i.id, ids)
<1>1. i.id \in Nat \ {0} /\ i.tokens \in Nat \ {0}
  BY DEF Stock, Items
<1>2. recency.num \in Nat /\ recency.den \in Nat \ {0}
  <2> DEFINE f == [j \in S |-> j.id]
  <2>1. f \in Surjection(S, ids)
    BY DEF Surjection
  <2> HIDE DEF f
  <2>2. IsFiniteSet(ids)
    BY <2>1, FS_Surjection DEF Stock
  <2>3. ids \in SUBSET Nat /\ i.id \in ids
    BY DEF Stock, Items
  <2> HIDE DEF ids
  <2> QED
    BY <2>2, <2>3, NormalizedFacts
<1> DEFINE a == 7 * recency.den + 6 * recency.num
           b == 20 * recency.den * i.tokens
<1>3. a \in Nat /\ b \in Nat \ {0}
  <2>1. 20 * recency.den \in Nat \ {0}
    BY <1>2
  <2>2. b \in Nat \ {0}
    BY <1>1, <2>1, TimesNat
  <2> QED
    BY <1>2, <2>2
<1>4. Key(policy, i, S) \in {Fraction(1, i.id), Fraction(i.id, 1), Fraction(1, 2),
                             Fraction(1, 2 * i.tokens), Fraction(a, b)}
  BY DEF Key, Policies
<1> HIDE DEF a, b
<1>5. \A n \in Nat, d \in Nat \ {0} : Fraction(n, d) \in Fractions
  BY DEF Fraction, Fractions
<1>6. 2 * i.tokens \in Nat \ {0}
  BY <1>1
<1> QED
  BY <1>1, <1>3, <1>4, <1>5, <1>6

LEMMA FractionParts == \A n, d : Fraction(n, d).num = n /\ Fraction(n, d).den = d
BY DEF Fraction

\* What is selected from any stock of items.
LEMMA SelectionFromStock ==
    ASSUME NEW S, Stock(S), NEW policy \in Policies, NEW budget \in Nat,
           NEW kept, kept = SelectContext(S, budget, policy)
    PROVE  /\ kept \subseteq S
           /\ TotalTokens(kept) <= budget
           /\ \A i \in S \ kept : TotalTokens(kept) + i.tokens > budget
           /\ policy = "full" => \A i \in S \ kept :
                 TotalTokens({k \in kept : k.id < i.id}) + i.tokens > budget
           /\ policy = "recent" => \A i \in S \ kept :
                 TotalTokens({k \in kept : k.id > i.id}) + i.tokens > budget
<1> DEFINE n == Cardinality(S)
           items == Listed(S)
           key == [i \in S |-> Key(policy, i, S)]
           cost == Tokens(S)
<1>1. S \in SUBSET Items /\ IsFiniteSet(S) /\ \A i, j \in S : i.id = j.id => i = j
  BY DEF Stock
<1>2. \A i \in S : i.id \in Nat \ {0} /\ i.tokens \in Nat \ {0}
  BY <1>1 DEF Items
<1>3. cost \in [S -> Nat] /\ \A i \in S : cost[i] = i.tokens
  BY <1>2 DEF Tokens
<1>4. key \in [S -> Fractions] /\ \A i \in S : key[i] = Key(policy, i, S)
  BY KeysAreFractions
<1>5. kept = GreedyPack(Ordered(items, key), cost, budget)
  BY DEF SelectContext, Tokens
<1> HIDE DEF n, items, key, cost
<1>6. Selectable(S, S, n, items, key, cost, budget)
  <2>1. /\ n \in Nat /\ items \in [1 .. n -> S]
        /\ \A i, j \in 1 .. n : items[i] = items[j] => i = j
        /\ \A x \in S : \E i \in 1 .. n : items[i] = x
    BY ListedOnce DEF n, items
  <2> QED
    BY <1>3, <1>4, <2>1 DEF Selectable
<1>7. /\ kept \subseteq S
      /\ SumOver(cost, kept) <= budget
      /\ \A x \in S \ kept : SumOver(cost, kept) + cost[x] > budget
      /\ \A x \in S \ kept :
            (\A y \in S \ {x} : Higher(key[x], key[y]) \/ Higher(key[y], key[x])) =>
               SumOver(cost, {y \in kept : Higher(key[y], key[x])}) + cost[x] > budget
  BY <1>5, <1>6, SelectionFacts
<1>8. ASSUME NEW K \in SUBSET kept
      PROVE  TotalTokens(K) = SumOver(cost, K)
  <2>1. K \in SUBSET S
    BY <1>7
  <2>2. IsFiniteSet(K)
    BY <1>1, <2>1, FS_Subset
  <2> QED
    BY <1>1, <2>1, <2>2, TotalIsSum DEF cost
<1>9. TotalTokens(kept) = SumOver(cost, kept)
  BY <1>8
<1>10. ASSUME policy = "full", NEW x \in S \ kept
       PROVE  TotalTokens({k \in kept : k.id < x.id}) + x.tokens > budget
  <2>1. \A y \in S : key[y] = Fraction(1, y.id)
    BY <1>4, <1>10 DEF Key
  <2>2. \A y, z \in S : Higher(key[y], key[z]) <=> y.id < z.id
    <3>1. \A y \in S : key[y].num = 1 /\ key[y].den = y.id
      BY <2>1, FractionParts
    <3> QED
      BY <1>2, <3>1 DEF Higher
  <2>3. \A y \in S \ {x} : Higher(key[x], key[y]) \/ Higher(key[y], key[x])
    BY <1>1, <1>2, <2>2
  <2>4. {y \in kept : Higher(key[y], key[x])} = {k \in kept : k.id < x.id}
    BY <1>7, <2>2
  <2>5. SumOver(cost, {y \in kept : Higher(key[y], key[x])}) + cost[x] > budget
    BY <1>7, <2>3
  <2>6. SumOver(cost, {k \in kept : k.id < x.id}) + cost[x] > budget
    BY <2>4, <2>5
  <2>7. TotalTokens({k \in kept : k.id < x.id}) = SumOver(cost, {k \in kept : k.id < x.id})
    BY <1>8
  <2> QED
    BY <1>3, <2>6, <2>7
<1>11. ASSUME policy = "recent", NEW x \in S \ kept
       PROVE  TotalTokens({k \in kept : k.id > x.id}) + x.tokens > budget
  <2>1. \A y \in S : key[y] = Fraction(y.id, 1)
    BY <1>4, <1>11 DEF Key
  <2>2. \A y, z \in S : Higher(key[y], key[z]) <=> y.id > z.id
    <3>1. \A y \in S : key[y].num = y.id /\ key[y].den = 1
      BY <2>1, FractionParts
    <3> QED
      BY <1>2, <3>1 DEF Higher
  <2>3. \A y \in S \ {x} : Higher(key[x], key[y]) \/ Higher(key[y], key[x])
    BY <1>1, <1>2, <2>2
  <2>4. {y \in kept : Higher(key[y], key[x])} = {k \in kept : k.id > x.id}
    BY <1>7, <2>2
  <2>5. SumOver(cost, {y \in kept : Higher(key[y], key[x])}) + cost[x] > budget
    BY <1>7, <2>3
  <2>6. SumOver(cost, {k \in kept : k.id > x.id}) + cost[x] > budget
    BY <2>4, <2>5
  <2>7. TotalTokens({k \in kept : k.id > x.id}) = SumOver(cost, {k \in kept : k.id > x.id})
    BY <1>8
  <2> QED
    BY <1>3, <2>6, <2>7
<1> QED
  BY <1>3, <1>7, <1>9, <1>10, <1>11

\* Whatever is in a store, a selection keeps to its budget, leaves out nothing
\* that would still fit, and leaves an item out under a chronological policy only
\* for older (newer) ones, whatever the sizes, the budget and the policy.
THEOREM SelectionsFit == Spec => []SelectionFits
<1>1. Counted => SelectionFits
  <2> SUFFICES ASSUME Counted, NEW g \in Replicas, NEW policy \in Policies, NEW budget \in Budgets
               PROVE  LET kept == SelectContext(store[g], budget, policy)
                          rest == store[g] \ kept
                      IN  /\ kept \subseteq store[g]
                          /\ TotalTokens(kept) <= budget
                          /\ \A i \in rest : TotalTokens(kept) + i.tokens > budget
                          /\ policy = "full" => \A i \in rest :
                                TotalTokens({k \in kept : k.id < i.id}) + i.tokens > budget
                          /\ policy = "recent" => \A i \in rest :
                                TotalTokens({k \in kept : k.id > i.id}) + i.tokens > budget
    BY DEF SelectionFits
  <2>1. Stock(store[g])
    BY DEF Counted, TypeOK, ItemsNumbered, Stock
  <2>2. budget \in Nat
    BY ContextConstants
  <2> QED
    BY <2>1, <2>2, SelectionFromStock
<1> QED
  BY CountingInvariance, <1>1, PTL

-----------------------------------------------------------------------------
(* When the counter of saved tokens is exact.                              *)

\* Two compressions of one process never overlap.
Apart ==
    \A r, q \in Requests :
        pc[r] = "summarizing" /\ pc[q] = "summarizing" /\ home[r] = home[q] => r = q

\* No summary is longer than what it replaces.
SummariesShorten ==
    [][\A r \in Requests : FinishCompression(r) =>
          \E tokens \in SummarySizes : /\ tokens <= TotalTokens(captured[r])
                                       /\ ReplaceItems(r, captured[r], tokens)]_vars

\* What a compression has captured is still in the store.
InHand == \A r \in Requests : pc[r] = "summarizing" => captured[r] \subseteq store[home[r]]

\* A request is summarizing because it starts to, or was already, for the same items.
LEMMA CompressionSteps ==
    ASSUME Shape, [Next]_vars, NEW q \in Requests, pc'[q] = "summarizing"
    PROVE  \/ StartCompression(q)
           \/ pc[q] = "summarizing" /\ captured'[q] = captured[q] /\ home'[q] = home[q]
<1> DEFINE Same == pc[q] = "summarizing" /\ captured'[q] = captured[q] /\ home'[q] = home[q]
<1>1. ASSUME NEW r \in Requests, NEW g \in Replicas,
             Admit(r, g) \/ Reject(r, g) \/ Enqueue(r, g) \/ Dispatch(r, g)
      PROVE  Same
  <2>1. CASE Admit(r, g)
    BY <2>1 DEF Admit, Shape
  <2>2. CASE Reject(r, g) \/ Enqueue(r, g) \/ Dispatch(r, g)
    BY <2>2 DEF Reject, Enqueue, Dispatch, Shape
  <2> QED
    BY <1>1, <2>1, <2>2
<1>2. ASSUME NEW r \in Requests, CallEnds(r) \/ SkipCompression(r)
      PROVE  Same
  BY <1>2 DEF CallEnds, SkipCompression, Shape
<1>3. ASSUME NEW r \in Requests, StartCompression(r), r # q
      PROVE  Same
  BY <1>3 DEF StartCompression, Shape
<1>4. ASSUME NEW r \in Requests, FinishCompression(r) \/ AbandonCompression(r)
      PROVE  Same
  <2>1. /\ pc' = [pc EXCEPT ![r] = "done"] /\ captured' = [captured EXCEPT ![r] = {}]
        /\ home' = home
    BY <1>4 DEF FinishCompression, ReplaceItems, AbandonCompression
  <2> QED
    BY <2>1 DEF Shape
<1>5. ASSUME NEW g \in Replicas, Crash(g) \/ Clear(g) \/ RecordArtifact(g)
      PROVE  Same
  BY <1>5 DEF Crash, Clear, RecordArtifact, requestVars
<1>6. CASE UNCHANGED vars
  BY <1>6 DEF vars, requestVars
<1> QED
  BY <1>1, <1>2, <1>3, <1>4, <1>5, <1>6 DEF Next

\* The process lives on, and nothing but turns and summaries is recorded or removed.
Undisturbed == \A g \in Replicas : ~(Crash(g) \/ Clear(g)) /\ ~RecordArtifact(g)

\* Nobody else takes away what a compression has captured, if compressions are apart.
LEMMA InHandStep ==
    ASSUME Shape, HomeKnown, Apart, InHand, [Next]_vars, Undisturbed
    PROVE  InHand'
<1> SUFFICES ASSUME NEW q \in Requests, pc'[q] = "summarizing"
             PROVE  captured'[q] \subseteq store'[home'[q]]
  BY DEF InHand
<1>1. CASE StartCompression(q)
  <2>1. captured'[q] = Old(store[home[q]]) /\ store' = store /\ home' = home
    BY <1>1 DEF StartCompression, Shape, itemVars
  <2> QED
    BY <2>1 DEF Old, Conversation
<1>2. CASE pc[q] = "summarizing" /\ captured'[q] = captured[q] /\ home'[q] = home[q]
  <2> DEFINE g == home[q]
  <2>1. g \in Replicas /\ captured[q] \subseteq store[g] /\ g \in DOMAIN store
    BY <1>2 DEF HomeKnown, InHand, Shape
  <2> HIDE DEF g
  <2>2. store[g] \subseteq store'[g]
    <3>1. CASE UNCHANGED <<store, made, recorded>>
      BY <3>1
    <3>2. ASSUME NEW r \in Requests, NEW h \in Replicas, Record(h, r)
          PROVE  store[g] \subseteq store'[g]
      <4>1. PICK t \in Items : store' = [store EXCEPT ![h] = @ \cup {t}]
        BY <3>2, RecordAdds
      <4> QED
        BY <2>1, <4>1
    <3>3. ASSUME NEW r \in Requests, FinishCompression(r)
          PROVE  store[g] \subseteq store'[g]
      <4>1. pc[r] = "summarizing" /\ pc'[r] = "done"
        BY <3>3, FinishSwaps DEF FinishCompression, Shape
      <4>2. home[r] # g
        BY <1>2, <4>1 DEF Apart, g
      <4>3. PICK s \in Items : store' = [store EXCEPT ![home[r]] = (@ \ captured[r]) \cup {s}]
        BY <3>3, FinishSwaps
      <4>4. store'[g] = store[g]
        BY <2>1, <4>2, <4>3
      <4> QED
        BY <4>4
    <3> QED
      BY <3>1, <3>2, <3>3, ItemSteps DEF Undisturbed
  <2>3. captured'[q] \subseteq store'[g] /\ home'[q] = g
    BY <1>2, <2>1, <2>2 DEF g
  <2> QED
    BY <2>3
<1> QED
  BY <1>1, <1>2, CompressionSteps

\* What a process has saved and what its workflow still takes make up what was recorded.
Balance(sum, kept, all) == sum + TotalTokens(kept) = TotalTokens(all)

\* A turn counts as recorded and as kept.
LEMMA BalanceWithTurn ==
    ASSUME NEW S \in SUBSET Items, IsFiniteSet(S), NEW R \in SUBSET Items, IsFiniteSet(R),
           NEW t \in Items, t \notin S, t \notin R, NEW n \in Nat, Balance(n, S, R)
    PROVE  Balance(n, S \cup {t}, R \cup {t})
<1>1. /\ TotalTokens(S \cup {t}) = TotalTokens(S) + t.tokens
      /\ TotalTokens(R \cup {t}) = TotalTokens(R) + t.tokens
  BY TotalWithOneMore
<1>2. TotalTokens(S) \in Nat /\ TotalTokens(R) \in Nat /\ t.tokens \in Nat
  BY TotalIsNat DEF Items
<1> QED
  BY <1>1, <1>2 DEF Balance

\* A summary that is no longer than what it replaces saves the difference.
LEMMA BalanceWithSummary ==
    ASSUME NEW S \in SUBSET Items, IsFiniteSet(S), NEW R, NEW C \in SUBSET S,
           NEW s \in Items, s \notin S, s.tokens <= TotalTokens(C), NEW n \in Nat,
           Balance(n, S, R)
    PROVE  Balance(n + (TotalTokens(C) - s.tokens), (S \ C) \cup {s}, R)
<1>1. /\ TotalTokens(S) = TotalTokens(C) + TotalTokens(S \ C)
      /\ TotalTokens(C) \in Nat /\ TotalTokens(S \ C) \in Nat
  BY TotalSplit
<1>2. S \ C \in SUBSET Items /\ IsFiniteSet(S \ C) /\ s \notin S \ C
  BY FS_Subset
<1>3. TotalTokens((S \ C) \cup {s}) = TotalTokens(S \ C) + s.tokens
  BY <1>2, TotalWithOneMore
<1>4. s.tokens \in Nat
  BY DEF Items
<1> QED
  BY <1>1, <1>3, <1>4 DEF Balance

\* Only the end of a compression and a crash change what is counted as saved.
LEMMA SavedSteps ==
    ASSUME [Next]_vars, Undisturbed
    PROVE  saved' = saved \/ \E r \in Requests : FinishCompression(r)
<1>1. ASSUME NEW r \in Requests, NEW g \in Replicas,
             Admit(r, g) \/ Reject(r, g) \/ Enqueue(r, g) \/ Dispatch(r, g)
      PROVE  saved' = saved
  BY <1>1 DEF Admit, Reject, Enqueue, Dispatch
<1>2. ASSUME NEW r \in Requests,
             CallEnds(r) \/ SkipCompression(r) \/ StartCompression(r) \/ AbandonCompression(r)
      PROVE  saved' = saved
  BY <1>2 DEF CallEnds, SkipCompression, StartCompression, AbandonCompression
<1> QED
  BY <1>1, <1>2 DEF Next, Undisturbed, vars

\* Recording and compressing keep the balance of every process.
LEMMA SavedIsExactStep ==
    ASSUME IInv, Counted, InHand, SavedIsExact, [Next]_vars, Undisturbed,
           \A r \in Requests : FinishCompression(r) =>
              \E tokens \in SummarySizes : /\ tokens <= TotalTokens(captured[r])
                                           /\ ReplaceItems(r, captured[r], tokens)
    PROVE  SavedIsExact'
<1> SUFFICES ASSUME NEW h \in Replicas
             PROVE  Balance(saved'[h], store'[h], recorded'[h])
  BY DEF SavedIsExact, Balance
<1> DEFINE Goal == Balance(saved'[h], store'[h], recorded'[h])
<1>1. /\ Balance(saved[h], store[h], recorded[h]) /\ saved[h] \in Nat
      /\ store[h] \in SUBSET Items /\ IsFiniteSet(store[h])
      /\ recorded[h] \in SUBSET Items /\ IsFiniteSet(recorded[h])
      /\ h \in DOMAIN store /\ h \in DOMAIN recorded /\ h \in DOMAIN saved /\ made[h] \in Nat
  BY DEF SavedIsExact, Balance, Counted, TypeOK, ItemsNumbered, IInv, RecordedAreTurns
<1>2. Shape /\ HomeKnown
  BY DEF IInv
<1>3. ASSUME NEW i, i.id = made[h] + 1
      PROVE  i \notin store[h] /\ i \notin recorded[h]
  <2>1. (\A j \in store[h] : j.id <= made[h]) /\ (\A j \in recorded[h] : j.id <= made[h])
    BY DEF Counted, ItemsNumbered, IInv, IdsGiven
  <2> QED
    BY <1>1, <1>3, <2>1
<1>4. ASSUME store'[h] = store[h], recorded'[h] = recorded[h], saved'[h] = saved[h]
      PROVE  Goal
  BY <1>1, <1>4, Zenon
<1>5. ASSUME NEW r \in Requests, NEW g \in Replicas, Record(g, r), saved' = saved
      PROVE  Goal
  <2>1. PICK t \in Items : /\ t.id = made[g] + 1
                           /\ store' = [store EXCEPT ![g] = @ \cup {t}]
                           /\ recorded' = [recorded EXCEPT ![g] = @ \cup {t}]
    BY <1>2, <1>5, RecordAdds
  <2>2. CASE g = h
    <3>1. t \notin store[h] /\ t \notin recorded[h]
      BY <1>3, <2>1, <2>2
    <3>2. /\ store'[h] = store[h] \cup {t} /\ recorded'[h] = recorded[h] \cup {t}
          /\ saved'[h] = saved[h]
      BY <1>1, <1>5, <2>1, <2>2
    <3>3. Balance(saved[h], store[h] \cup {t}, recorded[h] \cup {t})
      BY <1>1, <3>1, BalanceWithTurn
    <3> QED
      BY <3>2, <3>3, Zenon
  <2>3. CASE g # h
    <3>1. store'[h] = store[h] /\ recorded'[h] = recorded[h] /\ saved'[h] = saved[h]
      BY <1>1, <1>5, <2>1, <2>3
    <3> QED
      BY <1>4, <3>1
  <2> QED
    BY <2>2, <2>3
<1>6. ASSUME NEW r \in Requests, FinishCompression(r)
      PROVE  Goal
  <2>1. PICK tokens \in SummarySizes : /\ tokens <= TotalTokens(captured[r])
                                       /\ ReplaceItems(r, captured[r], tokens)
    BY <1>6
  <2> DEFINE g == home[r]
             s == [id |-> made[g] + 1, req |-> NoRequest,
                   turns |-> UNION {i.turns : i \in captured[r]}, tokens |-> tokens]
             before == TotalTokens(captured[r])
  <2>2. /\ store' = [store EXCEPT ![g] = (@ \ captured[r]) \cup {s}]
        /\ recorded' = recorded
        /\ saved' = IF before < tokens THEN saved
                    ELSE [saved EXCEPT ![g] = @ + (before - tokens)]
    BY <2>1 DEF ReplaceItems
  <2>3. /\ g \in Replicas /\ captured[r] \subseteq store[g] /\ captured[r] \in SUBSET Items
        /\ IsFiniteSet(captured[r]) /\ made[g] \in Nat
    BY <1>2, <1>6 DEF FinishCompression, HomeKnown, InHand, Counted, TypeOK, CapturedAreFinite
  <2>4. before \in Nat /\ tokens \in Nat \ {0} /\ tokens <= before
    BY <2>1, <2>3, TotalIsNat, ContextConstants
  <2>5. s \in Items /\ s.id = made[g] + 1 /\ s.tokens = tokens
    <3>1. UNION {i.turns : i \in captured[r]} \in SUBSET (Nat \ {0})
      BY <2>3 DEF Items
    <3>2. made[g] + 1 \in Nat \ {0}
      BY <2>3
    <3> HIDE DEF before, g
    <3> QED
      BY <2>4, <3>1, <3>2 DEF Items
  <2> HIDE DEF s, before
  <2>6. saved' = [saved EXCEPT ![g] = @ + (before - s.tokens)]
    BY <2>2, <2>4, <2>5
  <2> HIDE DEF g
  <2>7. CASE g = h
    <3>1. s \notin store[h]
      BY <1>3, <2>5, <2>7
    <3>2. /\ store'[h] = (store[h] \ captured[r]) \cup {s} /\ recorded'[h] = recorded[h]
          /\ saved'[h] = saved[h] + (before - s.tokens)
      BY <1>1, <2>2, <2>6, <2>7
    <3>3. captured[r] \in SUBSET store[h] /\ s.tokens <= TotalTokens(captured[r])
      BY <2>3, <2>4, <2>5, <2>7 DEF before
    <3>4. Balance(saved[h] + (TotalTokens(captured[r]) - s.tokens),
                  (store[h] \ captured[r]) \cup {s}, recorded[h])
      BY <1>1, <2>5, <3>1, <3>3, BalanceWithSummary
    <3> QED
      BY <3>2, <3>4, Zenon DEF before
  <2>8. CASE g # h
    <3>1. store'[h] = store[h] /\ recorded'[h] = recorded[h] /\ saved'[h] = saved[h]
      BY <1>1, <2>2, <2>6, <2>8
    <3> QED
      BY <1>4, <3>1
  <2> QED
    BY <2>7, <2>8
<1> HIDE DEF Goal
<1>7. ASSUME UNCHANGED <<store, made, recorded>>, saved' = saved
      PROVE  Goal
  <2>1. store' = store /\ recorded' = recorded /\ saved' = saved
    BY <1>7
  <2> QED
    BY <1>4, <2>1, Zenon DEF Goal
<1>8. \/ UNCHANGED <<store, made, recorded>> /\ saved' = saved
      \/ \E r \in Requests, g \in Replicas : Record(g, r) /\ saved' = saved
      \/ \E r \in Requests : FinishCompression(r)
  BY ItemSteps, SavedSteps DEF Undisturbed
<1>9. Goal
  BY <1>5, <1>6, <1>7, <1>8
<1> QED
  BY <1>9 DEF Goal

\* The tokens that compression claims to have saved are exactly those it removed, as
\* long as the process lives and nobody clears the workflow or records an artifact,
\* if its compressions do not overlap and no summary is longer than what it replaces.
\* Where two compressions of a process overlap (ContextSaved), or a summary is the longer,
\* maybe_compress_context leaves the counter wrong.
THEOREM SavedIsExactWhenApart ==
    Spec /\ []Apart /\ [][Undisturbed]_vars /\ SummariesShorten => []SavedIsExact
<1> DEFINE Shortened ==
               \A r \in Requests : FinishCompression(r) =>
                  \E tokens \in SummarySizes : /\ tokens <= TotalTokens(captured[r])
                                               /\ ReplaceItems(r, captured[r], tokens)
           Strong == InHand /\ SavedIsExact
<1>1. Init => Strong
  <2> SUFFICES ASSUME Init
               PROVE  Strong
    OBVIOUS
  <2>1. InHand
    BY DEF Init, InHand
  <2>2. TotalTokens({}) \in Nat
    BY TotalIsNat, FS_EmptySet
  <2>3. \A g \in Replicas : saved[g] = 0 /\ store[g] = {} /\ recorded[g] = {}
    BY DEF Init
  <2>4. SavedIsExact
    BY <2>2, <2>3 DEF SavedIsExact
  <2> QED
    BY <2>1, <2>4
<1>2. IInv /\ Counted /\ Apart /\ Strong /\ [Next]_vars /\ [Undisturbed]_vars /\ [Shortened]_vars
         => Strong'
  <2> SUFFICES ASSUME IInv, Counted, Apart, Strong, [Next]_vars, [Undisturbed]_vars,
                      [Shortened]_vars
               PROVE  Strong'
    OBVIOUS
  <2>1. CASE UNCHANGED vars
    <3>1. /\ store' = store /\ saved' = saved /\ recorded' = recorded
          /\ pc' = pc /\ captured' = captured /\ home' = home
      BY <2>1 DEF vars, itemVars, requestVars
    <3> QED
      BY <3>1 DEF InHand, SavedIsExact
  <2>2. CASE Undisturbed /\ Shortened
    <3>1. InHand'
      BY <2>2, InHandStep DEF IInv
    <3>2. SavedIsExact'
      BY <2>2, SavedIsExactStep
    <3> QED
      BY <3>1, <3>2
  <2> QED
    BY <2>1, <2>2
<1>3. Strong => SavedIsExact
  OBVIOUS
<1>4. SummariesShorten <=> [][Shortened]_vars
  BY DEF SummariesShorten
<1> HIDE DEF Strong, Shortened
<1> QED
  BY Invariance, CountingInvariance, <1>1, <1>2, <1>3, <1>4, PTL DEF Spec

-----------------------------------------------------------------------------
(* When compression never comes to a workflow's aid.                       *)

\* A set of items takes no less than any part of it.
LEMMA TotalGrows ==
    ASSUME NEW S \in SUBSET Items, IsFiniteSet(S), NEW C \in SUBSET S
    PROVE  TotalTokens(C) <= TotalTokens(S)
<1>1. /\ TotalTokens(S) = TotalTokens(C) + TotalTokens(S \ C)
      /\ TotalTokens(C) \in Nat /\ TotalTokens(S \ C) \in Nat
  BY TotalSplit
<1> QED
  BY <1>1

LEMMA EmptyTotal == TotalTokens({}) = 0
<1>1. Tokens({}) \in [{} -> Nat]
  BY DEF Tokens
<1>2. TotalTokens({}) = SumOver(Tokens({}), {}) /\ SumOver(Tokens({}), {}) = 0
  BY <1>1, FS_EmptySet, TotalIsSum, SumFacts
<1> QED
  BY <1>2

\* The workflow is used by the synchronous routes alone.
SynchronousOnly ==
    \A g \in Replicas : ~RecordArtifact(g) /\ \A r \in Requests : ~Dispatch(r, g)

\* No store is over the capacity, and no compression has been started.
NeverOver ==
    /\ \A g \in Replicas : TotalTokens(store[g]) <= Capacity
    /\ \A r \in Requests : pc[r] # "summarizing"

LEMMA NeverOverStep ==
    ASSUME Capacity <= Threshold, IInv, Counted, NeverOver, [Next]_vars, SynchronousOnly
    PROVE  NeverOver'
<1>1. Shape /\ HomeKnown
  BY DEF IInv
<1>2. ASSUME NEW r \in Requests
      PROVE  ~FinishCompression(r)
  BY DEF FinishCompression, NeverOver
<1>3. ASSUME NEW h \in Replicas
      PROVE  TotalTokens(store'[h]) <= Capacity
  <2>1. /\ TotalTokens(store[h]) <= Capacity
        /\ store[h] \in SUBSET Items /\ IsFiniteSet(store[h])
        /\ h \in DOMAIN store
    BY DEF NeverOver, Counted, TypeOK, ItemsNumbered
  <2>2. CASE store'[h] = store[h]
    BY <2>1, <2>2, Zenon
  <2>3. ASSUME NEW r \in Requests, NEW g \in Replicas, Admit(r, g), Record(g, r)
        PROVE  TotalTokens(store'[h]) <= Capacity
    <3>1. PICK t \in Items : /\ t.id = made[g] + 1 /\ t.tokens = Size[r]
                             /\ store' = [store EXCEPT ![g] = @ \cup {t}]
      BY <1>1, <2>3, RecordAdds
    <3>2. CASE g = h
      <4>1. t \notin store[h]
        BY <1>1, <3>1, <3>2 DEF Counted, ItemsNumbered, Shape
      <4>2. TotalTokens(store[h] \cup {t}) = TotalTokens(store[h]) + t.tokens
        BY <2>1, <4>1, TotalWithOneMore
      <4>3. TotalTokens(store[h]) + Size[r] <= Capacity
        BY <2>3, <3>2 DEF Admit, Prospective
      <4>4. store'[h] = store[h] \cup {t}
        BY <2>1, <3>1, <3>2
      <4> QED
        BY <3>1, <4>2, <4>3, <4>4
    <3>3. CASE g # h
      BY <2>1, <2>2, <3>1, <3>3
    <3> QED
      BY <3>2, <3>3
  <2>4. ASSUME NEW g \in Replicas, Crash(g) \/ Clear(g)
        PROVE  TotalTokens(store'[h]) <= Capacity
    <3>1. store'[h] = {} \/ store'[h] = store[h]
      BY <2>1, <2>4, LossEmpties
    <3>2. CASE store'[h] = {}
      <4>1. TotalTokens(store'[h]) = 0
        BY <3>2, EmptyTotal, Zenon
      <4> QED
        BY <4>1, ContextConstants
    <3> QED
      BY <2>2, <3>1, <3>2
  <2>5. ASSUME UNCHANGED <<store, made, recorded>>
        PROVE  store'[h] = store[h]
    BY <2>5
  <2> QED
    BY <1>2, <2>2, <2>3, <2>4, <2>5, ItemSteps DEF SynchronousOnly
<1>4. ASSUME NEW r \in Requests, pc'[r] = "summarizing"
      PROVE  FALSE
  <2>1. StartCompression(r)
    BY <1>1, <1>4, CompressionSteps DEF NeverOver
  <2>2. home[r] \in Replicas /\ TotalTokens(store[home[r]]) > Threshold
    BY <1>1, <2>1 DEF StartCompression, OverBudget, HomeKnown
  <2>3. store[home[r]] \in SUBSET Items /\ IsFiniteSet(store[home[r]])
    BY <2>2 DEF Counted, TypeOK, ItemsNumbered
  <2>4. TotalTokens(store[home[r]]) \in Nat /\ TotalTokens(store[home[r]]) <= Capacity
    BY <2>2, <2>3, TotalIsNat DEF NeverOver
  <2> QED
    BY <2>2, <2>4, ContextConstants
<1> QED
  BY <1>3, <1>4 DEF NeverOver

\* Where no compression runs, a store only grows.
LEMMA FullStaysFullStep ==
    ASSUME IInv, Counted, Counted', NeverOver, [Next]_vars, SynchronousOnly,
           NEW h \in Replicas, ~Crash(h), ~Clear(h)
    PROVE  TotalTokens(store[h]) <= TotalTokens(store'[h])
<1>1. Shape /\ HomeKnown /\ h \in DOMAIN store
  BY DEF IInv, Shape
<1>2. store'[h] \in SUBSET Items /\ IsFiniteSet(store'[h])
  BY DEF Counted, TypeOK, ItemsNumbered
<1>3. ASSUME NEW r \in Requests
      PROVE  ~FinishCompression(r)
  BY DEF FinishCompression, NeverOver
<1>4. ASSUME NEW r \in Requests, NEW g \in Replicas, Record(g, r)
      PROVE  store[h] \subseteq store'[h]
  <2>1. PICK t \in Items : store' = [store EXCEPT ![g] = @ \cup {t}]
    BY <1>1, <1>4, RecordAdds
  <2> QED
    BY <1>1, <2>1
<1>5. ASSUME NEW g \in Replicas, Crash(g) \/ Clear(g)
      PROVE  store[h] \subseteq store'[h]
  <2>1. store' = [store EXCEPT ![g] = {}]
    BY <1>5, LossEmpties
  <2> QED
    BY <1>1, <1>5, <2>1
<1>6. ASSUME UNCHANGED <<store, made, recorded>>
      PROVE  store[h] \subseteq store'[h]
  BY <1>6
<1>7. store[h] \subseteq store'[h]
  BY <1>3, <1>4, <1>5, <1>6, ItemSteps DEF SynchronousOnly
<1> QED
  BY <1>2, <1>7, TotalGrows

\* With the threshold at the capacity, as by default, or above it, no compression ever
\* starts for a workflow of the synchronous routes, and one that is too full for a request
\* stays so until the process dies or the workflow is cleared.
THEOREM FullStaysFull ==
    ASSUME Capacity <= Threshold
    PROVE  Spec /\ [][SynchronousOnly]_vars =>
              /\ [](\A r \in Requests : pc[r] # "summarizing")
              /\ [][\A g \in Replicas, r \in Requests :
                       Prospective(g, r) > Capacity =>
                          Prospective(g, r)' > Capacity \/ Crash(g) \/ Clear(g)]_vars
<1> DEFINE Idle == \A r \in Requests : pc[r] # "summarizing"
           StaysFull ==
               \A g \in Replicas, r \in Requests :
                  Prospective(g, r) > Capacity =>
                     Prospective(g, r)' > Capacity \/ Crash(g) \/ Clear(g)
<1>1. Init => NeverOver
  <2> SUFFICES ASSUME Init
               PROVE  NeverOver
    OBVIOUS
  <2>1. \A g \in Replicas : TotalTokens(store[g]) = 0
    <3>1. \A g \in Replicas : store[g] = {}
      BY DEF Init
    <3> QED
      BY <3>1, EmptyTotal, Zenon
  <2> QED
    BY <2>1, ContextConstants DEF NeverOver, Init
<1>2. IInv /\ Counted /\ NeverOver /\ [Next]_vars /\ [SynchronousOnly]_vars => NeverOver'
  <2> SUFFICES ASSUME IInv, Counted, NeverOver, [Next]_vars, [SynchronousOnly]_vars
               PROVE  NeverOver'
    OBVIOUS
  <2>1. CASE UNCHANGED vars
    <3>1. store' = store /\ pc' = pc
      BY <2>1 DEF vars, itemVars, requestVars
    <3> QED
      BY <3>1 DEF NeverOver
  <2>2. CASE SynchronousOnly
    BY <2>2, NeverOverStep
  <2> QED
    BY <2>1, <2>2
<1>3. IInv /\ Counted /\ Counted' /\ NeverOver /\ [Next]_vars /\ [SynchronousOnly]_vars
         => [StaysFull]_vars
  <2> SUFFICES ASSUME IInv, Counted, Counted', NeverOver, [Next]_vars, SynchronousOnly,
                      NEW g \in Replicas, NEW r \in Requests,
                      Prospective(g, r) > Capacity, ~Crash(g), ~Clear(g)
               PROVE  Prospective(g, r)' > Capacity
    BY DEF vars
  <2>1. TotalTokens(store[g]) <= TotalTokens(store'[g])
    BY FullStaysFullStep
  <2>2. TotalTokens(store[g]) \in Nat /\ TotalTokens(store'[g]) \in Nat
    BY TotalIsNat DEF Counted, TypeOK, ItemsNumbered
  <2> QED
    BY <2>1, <2>2, ContextConstants DEF Prospective
<1>4. NeverOver => Idle
  BY DEF NeverOver
<1> HIDE DEF Idle, StaysFull
<1>5. Spec /\ [][SynchronousOnly]_vars => []Idle /\ [][StaysFull]_vars
  BY Invariance, CountingInvariance, <1>1, <1>2, <1>3, <1>4, PTL DEF Spec
<1> QED
  BY <1>5 DEF Idle, StaysFull
=============================================================================

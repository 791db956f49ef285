--------------------------- MODULE WorkflowContext ---------------------------
(***************************************************************************)
(* The context of one workflow, as the gateway processes keep it: what the *)
(* synchronous and the queued route record, and the compressions that run  *)
(* behind their answers.                                                   *)
(*                                                                         *)
(* Each process has a ContextStore of its own, in memory.  A step is a     *)
(* stretch of a coroutine without an await: a route measures, picks a      *)
(* worker and records in one; a compression chooses its items in one and   *)
(* replaces them in another, after the summarizer has answered.  A queued  *)
(* request is measured by the process that took it and recorded by the one *)
(* that dispatches it, each time it does (see JobQueue for when and why).  *)
(***************************************************************************)
EXTENDS Packing, FiniteSetsExt

CONSTANTS
    Replicas,       \* gateway processes
    Sync,           \* requests sent to /generate or /chat
    Queued,         \* requests sent to /queued/generate
    Size,           \* estimate_tokens of each request's content
    SummarySizes,   \* token counts a summary may have
    ReferenceSizes, \* token counts of the reference to an artifact
    Capacity,       \* WORKER_MAX_CONTEXT_TOKENS
    Threshold,      \* CONTEXT_COMPRESSION_THRESHOLD
    KeepRecent,     \* CONTEXT_COMPRESSION_KEEP_RECENT
    MaxDispatches,  \* bound: how often one queued job is dispatched
    MaxEvents,      \* bound: crashes, clearings and artifacts, in all
    Budgets,        \* token budgets a caller may ask a selection for
    NoReplica, NoRequest

Requests == Sync \cup Queued

ASSUME ContextConstants ==
    /\ IsFiniteSet(Requests) /\ Sync \cap Queued = {}
    /\ Size \in [Requests -> Nat \ {0}]
    /\ SummarySizes \subseteq Nat \ {0} /\ ReferenceSizes \subseteq Nat \ {0}
    /\ Capacity \in Nat /\ Threshold \in Nat /\ KeepRecent \in Nat
    /\ MaxDispatches \in Nat /\ MaxEvents \in Nat /\ Budgets \subseteq Nat
    /\ NoReplica \notin Replicas /\ NoRequest \notin Requests

VARIABLES
    store,      \* ContextStore of each process: its items for the workflow
    made,       \* how many items each process has made: ids are given in order
    saved,      \* CONTEXT_TOKENS_SAVED_TOTAL of each process
    recorded,   \* history: every turn each process has recorded since it started
                \* or the workflow was cleared
    pc,         \* the state of each request
    home,       \* the process a synchronous request was admitted by
    captured,   \* the items a compression under way has asked a summary of
    measured,   \* context_tokens in a queued job's payload
    dispatched, \* how often a queued job was dispatched
    events      \* how many crashes, clearings and artifacts there were

itemVars    == <<store, made, recorded>>
requestVars == <<pc, home, captured, measured, dispatched>>
vars        == <<itemVars, saved, requestVars, events>>

\* A ContextItem: the request whose content it is, or NoRequest for a summary,
\* and the turns it stands for, its own id or those of the items summarized, or
\* none for the reference to an artifact, which is of type SUMMARY too.
\* Ids are in the order of creation, which is that of created_at and of the
\* workflow's list.
Items == [id : Nat \ {0}, req : Requests \cup {NoRequest},
          turns : SUBSET (Nat \ {0}), tokens : Nat \ {0}]

Conversation(S) == {i \in S : i.req # NoRequest}

TotalTokens(S) == MapThenSumSet(LAMBDA i : i.tokens, S)

-----------------------------------------------------------------------------
Init ==
    /\ store = [g \in Replicas |-> {}]
    /\ made = [g \in Replicas |-> 0]
    /\ saved = [g \in Replicas |-> 0]
    /\ recorded = [g \in Replicas |-> {}]
    /\ pc = [r \in Requests |-> "new"]
    /\ home = [r \in Requests |-> NoReplica]
    /\ captured = [r \in Requests |-> {}]
    /\ measured = [r \in Requests |-> 0]
    /\ dispatched = [r \in Requests |-> 0]
    /\ events = 0

\* record_context: a turn at the end of the workflow's list.
Record(g, r) ==
    LET n == made[g] + 1
        turn == [id |-> n, req |-> r, turns |-> {n}, tokens |-> Size[r]]
    IN  /\ store' = [store EXCEPT ![g] = @ \cup {turn}]
        /\ recorded' = [recorded EXCEPT ![g] = @ \cup {turn}]
        /\ made' = [made EXCEPT ![g] = n]

\* get_prospective_context_tokens.
Prospective(g, r) == TotalTokens(store[g]) + Size[r]

-----------------------------------------------------------------------------
(* The synchronous routes.                                                 *)

\* Some worker is available and can hold the context: the turn is recorded.
\* A client that was refused may send the request again.
Admit(r, g) ==
    /\ r \in Sync
    /\ pc[r] \in {"new", "rejected"}
    /\ Prospective(g, r) <= Capacity
    /\ Record(g, r)
    /\ pc' = [pc EXCEPT ![r] = "calling"]
    /\ home' = [home EXCEPT ![r] = g]
    /\ UNCHANGED <<saved, captured, measured, dispatched, events>>

\* Mutant of Reject: the turn is recorded before a worker is looked for.
RecordThenReject(r, g) ==
    /\ r \in Sync
    /\ pc[r] = "new"
    /\ Record(g, r)
    /\ pc' = [pc EXCEPT ![r] = "rejected"]
    /\ UNCHANGED <<saved, home, captured, measured, dispatched, events>>

\* 503: no worker is available, or none has the capacity.
Reject(r, g) ==
    /\ r \in Sync
    /\ pc[r] = "new"
    /\ pc' = [pc EXCEPT ![r] = "rejected"]
    /\ UNCHANGED <<itemVars, saved, home, captured, measured, dispatched, events>>

\* The worker answers and the compression is scheduled, or the call fails.
CallEnds(r) ==
    /\ pc[r] = "calling"
    /\ \E next \in {"background", "done"} : pc' = [pc EXCEPT ![r] = next]
    /\ UNCHANGED <<itemVars, saved, home, captured, measured, dispatched, events>>

-----------------------------------------------------------------------------
(* maybe_compress_context, the background task.                            *)

\* Mutant of Old: the turns to keep are counted off all the items, summaries
\* included.
OldOfAll(S) ==
    {i \in Conversation(S) :
        Cardinality({j \in S : j.id > i.id}) >= KeepRecent}

\* The conversation items but the KeepRecent newest.
Old(S) ==
    {i \in Conversation(S) :
        Cardinality({j \in Conversation(S) : j.id > i.id}) >= KeepRecent}

OverBudget(S) == TotalTokens(S) > Threshold /\ Cardinality(Old(S)) >= 2

\* The task finds nothing to do, or no worker for the summary.
SkipCompression(r) ==
    /\ pc[r] = "background"
    /\ pc' = [pc EXCEPT ![r] = "done"]
    /\ UNCHANGED <<itemVars, saved, home, captured, measured, dispatched, events>>

\* The oldest items are chosen and the summarizer called.
StartCompression(r) ==
    /\ pc[r] = "background"
    /\ OverBudget(store[home[r]])
    /\ pc' = [pc EXCEPT ![r] = "summarizing"]
    /\ captured' = [captured EXCEPT ![r] = Old(store[home[r]])]
    /\ UNCHANGED <<itemVars, saved, home, measured, dispatched, events>>

\* Mutant of ReplaceItems: the counter goes down when the summary is the longer.
ReplaceUnchecked(r, gone, tokens) ==
    LET g == home[r]
        summary == [id |-> made[g] + 1, req |-> NoRequest,
                    turns |-> UNION {i.turns : i \in captured[r]}, tokens |-> tokens]
    IN  /\ store' = [store EXCEPT ![g] = (@ \ gone) \cup {summary}]
        /\ made' = [made EXCEPT ![g] = @ + 1]
        /\ saved' = [saved EXCEPT ![g] = @ + TotalTokens(captured[r]) - tokens]
        /\ pc' = [pc EXCEPT ![r] = "done"]
        /\ captured' = [captured EXCEPT ![r] = {}]
        /\ UNCHANGED <<recorded, home, measured, dispatched, events>>

\* The summary takes the place of the items that were chosen, those of them
\* that are still there.  A counter takes no negative increment: ValueError,
\* after the store was changed.
ReplaceItems(r, gone, tokens) ==
    LET g == home[r]
        summary == [id |-> made[g] + 1, req |-> NoRequest,
                    turns |-> UNION {i.turns : i \in captured[r]}, tokens |-> tokens]
        before == TotalTokens(captured[r])
    IN  /\ store' = [store EXCEPT ![g] = (@ \ gone) \cup {summary}]
        /\ made' = [made EXCEPT ![g] = @ + 1]
        /\ saved' = IF before < tokens THEN saved
                    ELSE [saved EXCEPT ![g] = @ + (before - tokens)]
        /\ pc' = [pc EXCEPT ![r] = "done"]
        /\ captured' = [captured EXCEPT ![r] = {}]
        /\ UNCHANGED <<recorded, home, measured, dispatched, events>>

\* Mutant of FinishCompression: what is old is looked up again afterwards.
FinishWithFreshList(r) ==
    /\ pc[r] = "summarizing"
    /\ \E tokens \in SummarySizes :
          ReplaceItems(r, captured[r] \cup Old(store[home[r]]), tokens)

FinishCompression(r) ==
    /\ pc[r] = "summarizing"
    /\ \E tokens \in SummarySizes : ReplaceItems(r, captured[r], tokens)

\* The summarizer's call fails.
AbandonCompression(r) ==
    /\ pc[r] = "summarizing"
    /\ pc' = [pc EXCEPT ![r] = "done"]
    /\ captured' = [captured EXCEPT ![r] = {}]
    /\ UNCHANGED <<itemVars, saved, home, measured, dispatched, events>>

-----------------------------------------------------------------------------
(* get_budgeted_context, a pure reading of the store.  Every item that the  *)
(* routes and the summarizer make has the default importance and relevance, *)
(* 1/2 each; created_at is taken to grow by one from item to item.          *)

Policies == {"full", "recent", "relevance", "budget_aware", "hybrid"}

\* list_for_workflow: the items in the order in which they were added.
Listed(S) ==
    [n \in 1 .. Cardinality(S) |->
        CHOOSE i \in S : Cardinality({j \in S : j.id < i.id}) = n - 1]

\* The key of each policy; the oldest first is the reverse of the newest first.
\* The hybrid score, 0.4 relevance + 0.3 recency + 0.3 importance, is in 20ths.
Key(policy, i, S) ==
    LET recency == Normalized(i.id, {j.id : j \in S})
    IN  CASE policy = "full"         -> Fraction(1, i.id)
          [] policy = "recent"       -> Fraction(i.id, 1)
          [] policy = "relevance"    -> Fraction(1, 2)
          [] policy = "budget_aware" -> Fraction(1, 2 * i.tokens)
          [] policy = "hybrid"       -> Fraction(7 * recency.den + 6 * recency.num,
                                                 20 * recency.den * i.tokens)

\* What is selected of the items S; the rest is discarded.
SelectContext(S, budget, policy) ==
    GreedyPack(Ordered(Listed(S), [i \in S |-> Key(policy, i, S)]),
               [i \in S |-> i.tokens], budget)

-----------------------------------------------------------------------------
(* The queued route.                                                       *)

\* The context is measured by the process that takes the request ...
Enqueue(r, g) ==
    /\ r \in Queued
    /\ pc[r] = "new"
    /\ measured' = [measured EXCEPT ![r] = Prospective(g, r)]
    /\ pc' = [pc EXCEPT ![r] = "queued"]
    /\ UNCHANGED <<itemVars, saved, home, captured, dispatched, events>>

\* ... and the turn recorded by any process the job is delivered to, every time
\* it is delivered, if a worker is available for what was measured.
Dispatch(r, g) ==
    /\ pc[r] = "queued"
    /\ dispatched[r] < MaxDispatches
    /\ dispatched' = [dispatched EXCEPT ![r] = @ + 1]
    /\ \/ measured[r] <= Capacity /\ Record(g, r)
       \/ UNCHANGED itemVars
    /\ UNCHANGED <<saved, pc, home, captured, measured, events>>

-----------------------------------------------------------------------------
(* What happens to a whole process or workflow.                            *)

\* The process dies and is started again: the store is in memory only, and so
\* are the requests and background tasks.  A queued job is still in Redis.
Crash(g) ==
    LET lost == {r \in Requests : home[r] = g}
    IN  /\ events < MaxEvents
        /\ events' = events + 1
        /\ store' = [store EXCEPT ![g] = {}]
        /\ recorded' = [recorded EXCEPT ![g] = {}]
        /\ saved' = [saved EXCEPT ![g] = 0]
        /\ pc' = [r \in Requests |-> IF r \in lost THEN "done" ELSE pc[r]]
        /\ captured' = [r \in Requests |-> IF r \in lost THEN {} ELSE captured[r]]
        /\ UNCHANGED <<made, home, measured, dispatched>>

\* clear_workflow, which knows nothing of compressions under way.
Clear(g) ==
    /\ events < MaxEvents
    /\ events' = events + 1
    /\ store' = [store EXCEPT ![g] = {}]
    /\ recorded' = [recorded EXCEPT ![g] = {}]
    /\ UNCHANGED <<made, saved, requestVars>>

\* record_artifact: the content is put aside, a reference to it recorded.
RecordArtifact(g) ==
    /\ events < MaxEvents
    /\ events' = events + 1
    /\ made' = [made EXCEPT ![g] = @ + 1]
    /\ \E tokens \in ReferenceSizes :
          store' = [store EXCEPT ![g] = @ \cup
                      {[id |-> made'[g], req |-> NoRequest, turns |-> {}, tokens |-> tokens]}]
    /\ UNCHANGED <<recorded, saved, requestVars>>

Next ==
    \/ \E r \in Requests, g \in Replicas :
          Admit(r, g) \/ Reject(r, g) \/ Enqueue(r, g) \/ Dispatch(r, g)
    \/ \E r \in Requests :
          \/ CallEnds(r) \/ SkipCompression(r) \/ StartCompression(r)
          \/ FinishCompression(r) \/ AbandonCompression(r)
    \/ \E g \in Replicas : Crash(g) \/ Clear(g) \/ RecordArtifact(g)

Spec == Init /\ [][Next]_vars

\* A client that was refused sends again, for as long as it takes, and a worker
\* is available then; calls and background tasks end, and summarizing is not
\* always in vain.
Fairness ==
    \A r \in Requests :
        /\ \A g \in Replicas : WF_vars(Admit(r, g)) /\ WF_vars(Dispatch(r, g))
        /\ WF_vars(CallEnds(r))
        /\ SF_vars(StartCompression(r)) /\ SF_vars(FinishCompression(r))

FairSpec == Spec /\ Fairness

-----------------------------------------------------------------------------
(* Safety.                                                                 *)

States == {"new", "rejected", "calling", "background", "summarizing", "queued", "done"}

\* Every variable has its type.
TypeOK ==
    /\ store \in [Replicas -> SUBSET Items]
    /\ made \in [Replicas -> Nat]
    /\ saved \in [Replicas -> Nat]
    /\ recorded \in [Replicas -> SUBSET Items]
    /\ pc \in [Requests -> States]
    /\ home \in [Requests -> Replicas \cup {NoReplica}]
    /\ captured \in [Requests -> SUBSET Items]
    /\ measured \in [Requests -> Nat]
    /\ dispatched \in [Requests -> 0 .. MaxDispatches]
    /\ events \in 0 .. MaxEvents

\* A recorded turn is in the store, as itself or in a summary, for as long as the
\* process lives and nobody clears the workflow, whatever compressions overlap,
\* fail, or are overtaken by new turns or by a clearing.
NoTurnLost ==
    \A g \in Replicas : \A t \in recorded[g] :
        \E i \in store[g] : t.id \in i.turns

Later(g, t) == {u \in recorded[g] : u.id > t.id}

\* manager.py: the newest KeepRecent turns are never what gets compressed, not
\* even when the summary arrives.
RecentTurnsKept ==
    \A g \in Replicas : \A t \in recorded[g] :
        Cardinality(Later(g, t)) < KeepRecent => t \in store[g]

\* routes.py: a request that was refused has left nothing in the store; a queued
\* one has only if it fitted when it was measured.
OnlyAdmittedRecorded ==
    \A g \in Replicas : \A t \in recorded[g] :
        /\ pc[t.req] \notin {"new", "rejected"}
        /\ t.req \in Queued => measured[t.req] <= Capacity

\* selection.py: whatever is in the store, a selection keeps to the budget and
\* leaves out nothing that would still fit; the chronological policies leave an
\* item out only for the sake of older (of newer) ones.
SelectionFits ==
    \A g \in Replicas, policy \in Policies, budget \in Budgets :
        LET kept == SelectContext(store[g], budget, policy)
            rest == store[g] \ kept
        IN  /\ kept \subseteq store[g]
            /\ TotalTokens(kept) <= budget
            /\ \A i \in rest : TotalTokens(kept) + i.tokens > budget
            /\ policy = "full" => \A i \in rest :
                  TotalTokens({k \in kept : k.id < i.id}) + i.tokens > budget
            /\ policy = "recent" => \A i \in rest :
                  TotalTokens({k \in kept : k.id > i.id}) + i.tokens > budget

-----------------------------------------------------------------------------
(* What the repository says and the code does not do.                      *)

\* compression.py and metrics.py: tokens_saved is exactly what compression has
\* removed from the context.
SavedIsExact ==
    \A g \in Replicas :
        saved[g] + TotalTokens(store[g]) = TotalTokens(recorded[g])

\* routes.py: no workflow is "stuck rejecting every future request forever".
EveryRequestAdmitted == \A r \in Sync : <>(pc[r] \notin {"new", "rejected"})
=============================================================================

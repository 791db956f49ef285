----------------------------- MODULE MemoryStore -----------------------------
(***************************************************************************)
(* Agent memory: a PostgreSQL table that every gateway process reads and   *)
(* writes, and the retrieval that ranks a workflow's memories and packs    *)
(* them into a token budget.                                               *)
(*                                                                         *)
(* There are no transactions: each SQL statement commits by itself, and    *)
(* the code between two of them runs in the caller.  An action is one      *)
(* statement with the code after it, up to the next.  One clock serves all *)
(* processes.  The table holds the memories of one workflow; a memory's id *)
(* is fresh, so a row is inserted once and never comes back.               *)
(***************************************************************************)
EXTENDS Packing, FiniteSetsExt

CONSTANTS
    Memories,   \* the memories that may be recorded
    Working,    \* those recorded by record_working, the others are episodic
    Ttl,        \* ttl_seconds of each, or Forever
    Forever,    \* no expires_at
    Cost,       \* estimate_tokens of each memory's content
    Importance, \* of each memory, in units of 1/Scale
    Relevance,  \* lexical_relevance of each to the query, in the same units
    Scale,
    Budgets,    \* budget_tokens of retrievals
    Callers,    \* coroutines, in any process, that use the store
    MaxTime,    \* bound on the clock
    MaxCount,   \* bound for each memory: no get begins when it was read so often
    NoMemory, NoRow     \* the absence of a memory, of a row

\* What is not fixed when a memory is recorded: last_used_at, access_count.
Row == [used : Nat, count : Nat]

ASSUME MemoryConstants ==
    /\ Working \subseteq Memories
    /\ Forever \notin Nat
    /\ Ttl \in [Memories -> Nat \cup {Forever}]
    /\ \A m \in Memories \ Working : Ttl[m] = Forever
    /\ Cost \in [Memories -> Nat \ {0}]
    /\ Scale \in Nat \ {0}
    /\ Importance \in [Memories -> 0 .. Scale]
    /\ Relevance \in [Memories -> 0 .. Scale]
    /\ Budgets \subseteq Nat /\ MaxTime \in Nat
    /\ MaxCount \in [Memories -> Nat]
    /\ NoMemory \notin Memories /\ NoRow \notin Row

VARIABLES
    table,      \* the row of each memory, or NoRow
    created,    \* created_at of each memory
    clock,      \* time.time(), in every process
    pc,         \* the statement each caller has sent, or is about to send
    item,       \* the memory it is about
    stamp,      \* the time it carries: `now` of get and of purge_expired
    read,       \* get: the row that was read
    made,       \* history: memories that were ever constructed
    recorded,   \* history: memories whose add returned and nobody has deleted
    returned,   \* history: how many gets have returned each memory
    given       \* history: the last access_count each caller saw of each memory

callerVars  == <<pc, item, stamp, read>>
historyVars == <<made, recorded, returned, given>>
vars        == <<table, created, clock, callerVars, historyVars>>

Rows == {m \in Memories : table[m] # NoRow}

\* expires_at IS NOT NULL AND expires_at <= t
Expired(m, t) == Ttl[m] # Forever /\ created[m] + Ttl[m] <= t

-----------------------------------------------------------------------------
Init ==
    /\ table = [m \in Memories |-> NoRow]
    /\ created = [m \in Memories |-> 0]
    /\ clock = 0
    /\ pc = [c \in Callers |-> "idle"]
    /\ item = [c \in Callers |-> NoMemory]
    /\ stamp = [c \in Callers |-> 0]
    /\ read = [c \in Callers |-> NoRow]
    /\ made = {}
    /\ recorded = {}
    /\ returned = [m \in Memories |-> 0]
    /\ given = [c \in Callers |-> [m \in Memories |-> 0]]

\* What a caller has in hand between two statements.
Hold(c, statement, m, t, row) ==
    /\ pc[c] = "idle"
    /\ pc' = [pc EXCEPT ![c] = statement]
    /\ item' = [item EXCEPT ![c] = m]
    /\ stamp' = [stamp EXCEPT ![c] = t]
    /\ read' = [read EXCEPT ![c] = row]

\* The call returns, or raises.
Return(c) ==
    /\ pc' = [pc EXCEPT ![c] = "idle"]
    /\ item' = [item EXCEPT ![c] = NoMemory]
    /\ stamp' = [stamp EXCEPT ![c] = 0]
    /\ read' = [read EXCEPT ![c] = NoRow]

-----------------------------------------------------------------------------
(* add, called by record_working and record_episodic.                      *)

\* The item is constructed: its times are of now, not of the INSERT.
Construct(c, m) ==
    /\ m \notin made
    /\ Hold(c, "insert", m, clock, NoRow)
    /\ made' = made \cup {m}
    /\ created' = [created EXCEPT ![m] = clock]
    /\ UNCHANGED <<table, clock, recorded, returned, given>>

\* INSERT.  The reply may be lost although the row is there.
Insert(c) ==
    /\ pc[c] = "insert"
    /\ table' = [table EXCEPT ![item[c]] = [used |-> stamp[c], count |-> 0]]
    /\ recorded' = recorded \cup {item[c]} \/ UNCHANGED recorded
    /\ Return(c)
    /\ UNCHANGED <<created, clock, made, returned, given>>

-----------------------------------------------------------------------------
(* get: a SELECT and an UPDATE, two transactions.                          *)

\* Mutant of Select: the early return for a missing row is forgotten.
SelectUnchecked(c, m) ==
    /\ m \in Rows => table[m].count < MaxCount[m]
    /\ Hold(c, "update", m, clock, table[m])
    /\ UNCHANGED <<table, created, clock, historyVars>>

\* The row is read, then the clock.  Without a row the call returns None.
Select(c, m) ==
    /\ m \in Rows
    /\ table[m].count < MaxCount[m]
    /\ Hold(c, "update", m, clock, table[m])
    /\ UNCHANGED <<table, created, clock, historyVars>>

\* The caller is given the row it read, with the new time and one more access.
Give(c) ==
    LET m == item[c]
    IN  /\ returned' = [returned EXCEPT ![m] = @ + 1]
        /\ given' = [given EXCEPT ![c][m] = read[c].count + 1]

\* Mutant of Update: SET access_count = the value that was read, plus one.
UpdateToCopy(c) ==
    LET m == item[c]
    IN  /\ pc[c] = "update"
        /\ table' = IF m \notin Rows THEN table
                    ELSE [table EXCEPT ![m] = [used |-> stamp[c], count |-> read[c].count + 1]]
        /\ Give(c) \/ UNCHANGED <<returned, given>>
        /\ Return(c)
        /\ UNCHANGED <<created, clock, made, recorded>>

\* UPDATE ... SET access_count = access_count + 1, which finds no row if it was
\* deleted meanwhile; the caller is given its copy all the same, unless the reply
\* is lost.
Update(c) ==
    LET m == item[c]
    IN  /\ pc[c] = "update"
        /\ table' = IF m \notin Rows THEN table
                    ELSE [table EXCEPT ![m] = [used |-> stamp[c], count |-> @.count + 1]]
        /\ Give(c) \/ UNCHANGED <<returned, given>>
        /\ Return(c)
        /\ UNCHANGED <<created, clock, made, recorded>>

-----------------------------------------------------------------------------
(* delete and purge_expired.                                               *)

\* One statement; a delete that finds no row returns False and changes nothing.
Delete(c, m) ==
    /\ pc[c] = "idle"
    /\ m \in Rows
    /\ table' = [table EXCEPT ![m] = NoRow]
    /\ recorded' = recorded \ {m}
    /\ UNCHANGED <<created, clock, callerVars, made, returned, given>>

\* The clock is read before the DELETE is sent.
StartPurge(c) ==
    /\ Hold(c, "purge", NoMemory, clock, NoRow)
    /\ UNCHANGED <<table, created, clock, historyVars>>

\* Mutant of Purge: rows without expires_at count as expired.
PurgeNulls(c) ==
    /\ pc[c] = "purge"
    /\ table' = [m \in Memories |->
                    IF Ttl[m] = Forever \/ Expired(m, stamp[c]) THEN NoRow ELSE table[m]]
    /\ Return(c)
    /\ UNCHANGED <<created, clock, historyVars>>

Purge(c) ==
    /\ pc[c] = "purge"
    /\ table' = [m \in Memories |-> IF Expired(m, stamp[c]) THEN NoRow ELSE table[m]]
    /\ Return(c)
    /\ UNCHANGED <<created, clock, historyVars>>

-----------------------------------------------------------------------------
\* The connection is lost or the process dies before the statement is executed.
Fail(c) ==
    /\ pc[c] # "idle"
    /\ Return(c)
    /\ UNCHANGED <<table, created, clock, historyVars>>

Tick ==
    /\ clock < MaxTime
    /\ clock' = clock + 1
    /\ UNCHANGED <<table, created, callerVars, historyVars>>

Next ==
    \/ \E c \in Callers, m \in Memories : Construct(c, m) \/ Select(c, m) \/ Delete(c, m)
    \/ \E c \in Callers : Insert(c) \/ Update(c) \/ StartPurge(c) \/ Purge(c) \/ Fail(c)
    \/ Tick

Spec == Init /\ [][Next]_vars

-----------------------------------------------------------------------------
(* Retrieval: list_for_workflow is one SELECT, ranking and packing are pure,*)
(* so what a retrieval returns is a function of the table.                 *)

\* Mutant of Recency: the age of the memory, not that of its last use.
RecencyByCreation(m, S) == Normalized(created[m], {created[n] : n \in S})

Recency(m, S) == Normalized(table[m].used, {table[n].used : n \in S})

Access(m, S) == Normalized(table[m].count, {table[n].count : n \in S})

\* score_memories, with equal weights: the sum of four parts, in one unit for
\* all of S.
Score(m, S) ==
    LET recency == Recency(m, S)
        access  == Access(m, S)
    IN  (Relevance[m] + Importance[m]) * recency.den * access.den
          + Scale * (recency.num * access.den + access.num * recency.den)

\* select_within_budget: score for each token.
Density(m, S) == Fraction(Score(m, S), Cost[m])

\* ORDER BY created_at; rows of one instant come in any order.
ByCreation(S) ==
    {s \in [1 .. Cardinality(S) -> S] :
        \A i, j \in 1 .. Cardinality(S) :
            i < j => s[i] # s[j] /\ created[s[i]] <= created[s[j]]}

\* get_relevant_memories for the memories S that were listed, in any such order.
Retrievals(S, budget) ==
    {GreedyPack(Ordered(s, [m \in S |-> Density(m, S)]), Cost, budget) :
        s \in ByCreation(S)}

\* Every table is also reached with every caller idle, since a statement may
\* fail: it is enough to look at retrievals there.
Quiet == \A c \in Callers : pc[c] = "idle"

\* What list_for_workflow may be asked for: one kind or both.
Pools == {Rows, Rows \cap Working, Rows \ Working}

-----------------------------------------------------------------------------
(* Safety.                                                                 *)

\* Every variable has its type; only a memory that was there is updated.
TypeOK ==
    /\ table \in [Memories -> Row \cup {NoRow}]
    /\ created \in [Memories -> Nat]
    /\ clock \in 0 .. MaxTime
    /\ pc \in [Callers -> {"idle", "insert", "update", "purge"}]
    /\ item \in [Callers -> Memories \cup {NoMemory}]
    /\ \A c \in Callers : pc[c] \in {"insert", "update"} => item[c] \in made
    /\ stamp \in [Callers -> Nat]
    /\ read \in [Callers -> Row \cup {NoRow}]
    /\ \A c \in Callers : pc[c] = "update" <=> read[c] # NoRow
    /\ made \in SUBSET Memories
    /\ recorded \in SUBSET made
    /\ returned \in [Memories -> Nat]
    /\ given \in [Callers -> [Memories -> Nat]]

\* A memory whose recording was confirmed stays in the table until somebody
\* deletes it or it has expired, however reads, purges and failures overlap: a
\* purge works with a time read earlier, and must spare what has no expires_at.
NothingVanishes == \A m \in recorded : m \in Rows \/ Expired(m, clock)

\* Every get that returned a memory is in its access_count, though the row is
\* read in one transaction and counted in another.
EveryGetCounted == \A m \in Rows : returned[m] <= table[m].count

\* A caller that gets a memory again sees one access more, or several, than the
\* last time, whatever other callers do in between, and a time of last use that
\* is not before the one in the row it read.
AccessesNeverGoBack ==
    [][\A c \in Callers, m \in Memories :
          item[c] = m /\ item'[c] # m /\ returned'[m] # returned[m] =>
              /\ given'[c][m] > given[c][m]
              /\ stamp[c] >= read[c].used]_vars

Spent(K) == MapThenSumSet(LAMBDA m : Cost[m], K)

\* retrieval.py: "retrieval must respect the budget"; nothing that would still
\* fit is left out, whatever the accesses have made of the ranking.
RetrievalFits ==
    Quiet => \A S \in Pools, budget \in Budgets : \A kept \in Retrievals(S, budget) :
        /\ kept \subseteq S
        /\ Spent(kept) <= budget
        /\ \A m \in S \ kept : Spent(kept) + Cost[m] > budget

\* m is as good as n in every respect that counts, and better in one.
Better(m, n) ==
    /\ Cost[m] <= Cost[n]
    /\ Relevance[m] >= Relevance[n] /\ Importance[m] >= Importance[n]
    /\ table[m].used >= table[n].used /\ table[m].count >= table[n].count
    /\ \/ Relevance[m] > Relevance[n] \/ Importance[m] > Importance[n]
       \/ table[m].used > table[n].used \/ table[m].count > table[n].count
       \/ Cost[m] < Cost[n] /\ Importance[m] > 0

\* No memory is passed over for a worse one: normalizing the times and counts
\* within the candidates, whatever they are, never turns the order round.
NoBetterPassedOver ==
    Quiet => \A S \in Pools, budget \in Budgets : \A kept \in Retrievals(S, budget) :
        \A m \in S \ kept, n \in kept : ~Better(m, n)
=============================================================================

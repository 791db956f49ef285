-------------------------- MODULE ReliableDelivery --------------------------
(***************************************************************************)
(* What the reliable queue promises, without Redis, loops or replicas:     *)
(* a job that was accepted is tried until something has come of it, a      *)
(* result or a place in the dead-letter queue, and only then settled.      *)
(* Delivery is at least once: more may come of a job, even after it is     *)
(* settled, by an attempt that was still running.                          *)
(***************************************************************************)
EXTENDS Naturals

CONSTANTS Jobs, Results     \* results a worker pool can store for a job

VARIABLES
    accepted,   \* the jobs clients have handed in
    outcomes,   \* what has come of each job
    settled     \* the jobs nobody will be asked to run again

vars == <<accepted, outcomes, settled>>

Init ==
    /\ accepted = {}
    /\ outcomes = [j \in Jobs |-> {}]
    /\ settled = {}

Accept(j) ==
    /\ j \notin accepted
    /\ accepted' = accepted \cup {j}
    /\ UNCHANGED <<outcomes, settled>>

Yield(j, o) ==
    /\ j \in accepted
    /\ outcomes' = [outcomes EXCEPT ![j] = @ \cup {o}]
    /\ UNCHANGED <<accepted, settled>>

Settle(j) ==
    /\ j \in accepted
    /\ outcomes[j] # {}
    /\ settled' = settled \cup {j}
    /\ UNCHANGED <<accepted, outcomes>>

Next == \E j \in Jobs :
    Accept(j) \/ Settle(j) \/ \E o \in Results \cup {"dead"} : Yield(j, o)

Spec == Init /\ [][Next]_vars

\* Every accepted job gets somewhere and is settled; clients owe nothing.
FirstOutcome(j) == outcomes[j] = {} /\ \E o \in Results \cup {"dead"} : Yield(j, o)

FairSpec == Spec /\ \A j \in Jobs : WF_vars(FirstOutcome(j)) /\ WF_vars(Settle(j))
=============================================================================

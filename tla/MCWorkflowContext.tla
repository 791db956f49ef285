-------------------------- MODULE MCWorkflowContext --------------------------
(***************************************************************************)
(* Instances of WorkflowContext for TLC.                                   *)
(***************************************************************************)
EXTENDS WorkflowContext, TLC

CONSTANTS g1, g2, s1, s2, s3, s4, s5, q1

OneReplica == {g1}
TwoReplicas == {g1, g2}
TwoSync == {s1, s2}
FourSync == {s1, s2, s3, s4}
FiveSync == {s1, s2, s3, s4, s5}
OneQueued == {q1}
NoQueued == {}

UnitSizes == [r \in Requests |-> 1]
MixedSizes == [r \in Requests |-> IF r \in Queued THEN 2 ELSE 1]

\* Processes, and synchronous requests of one size, may be exchanged.
Symmetry == Permutations(Replicas) \cup Permutations(Sync)
=============================================================================

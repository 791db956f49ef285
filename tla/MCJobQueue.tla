----------------------------- MODULE MCJobQueue -----------------------------
(***************************************************************************)
(* Instances of JobQueue for TLC.                                          *)
(***************************************************************************)
EXTENDS JobQueue, TLC

CONSTANTS c1, c2, r1, g1, g2

OneCall == {c1}
TwoCalls == {c1, c2}
OneRequest == {r1}
OneReplica == {g1}
TwoReplicas == {g1, g2}

SharedId == [c \in Calls |-> r1]                    \* a client retry with its own id
=============================================================================

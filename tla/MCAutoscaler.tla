---------------------------- MODULE MCAutoscaler ----------------------------
(***************************************************************************)
(* Instances of Autoscaler for TLC.                                        *)
(***************************************************************************)
EXTENDS Autoscaler

CONSTANTS u1, u2, u3, u4, q1

OneSlot == {q1}
NoSlots == {}
TwoUrls == {u1, u2}
FourUrls == {u1, u2, u3, u4}
ConfiguredOne == <<u1>>
StandbyOne == <<u2>>
StandbyOverlaps == <<u2, u1, u3, u4>>
ScalerOnly == {Scaler}
Ports == [n \in Places |-> <<u1, u2, u3>>[n + 1]]
EmptyList == {0}
EmptyOrDeep == {0, 3}
=============================================================================

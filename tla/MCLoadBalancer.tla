--------------------------- MODULE MCLoadBalancer ---------------------------
(***************************************************************************)
(* Instances of LoadBalancer for TLC.                                      *)
(***************************************************************************)
EXTENDS LoadBalancer, TLC

CONSTANTS u1, u2, q1, q2, loop, route

OneUrl == {u1}
TwoUrls == {u1, u2}
ConfiguredOne == <<u1>>
ConfiguredTwo == <<u1, u2>>
TwoSlots == {q1, q2}
LastOversized == {q2}
NoSlots == {}
Loop == {loop}
LoopAndRoute == {loop, route}
NoProbers == {}
=============================================================================

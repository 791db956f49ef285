----------------------------- MODULE MCRegistry -----------------------------
(***************************************************************************)
(* Instances of Registry for TLC.                                          *)
(***************************************************************************)
EXTENDS Registry, TLC

CONSTANTS w1, h1, h2, h3

OneWorker == {w1}
ThreeHandlers == {h1, h2, h3}
=============================================================================

---------------------------- MODULE MCEventFabric ----------------------------
(***************************************************************************)
(* Instances of EventFabric for TLC.                                       *)
(***************************************************************************)
EXTENDS EventFabric, TLC

CONSTANTS f1, c1, e1, e2, e3, d1, d2, w1, w2

MCSymmetry == Permutations(Events) \cup Permutations(Letters) \cup Permutations(Workers)
=============================================================================

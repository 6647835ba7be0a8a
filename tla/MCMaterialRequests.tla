------------------------- MODULE MCMaterialRequests -------------------------
(***************************************************************************)
(* An instance of MaterialRequests for TLC.                                *)
(***************************************************************************)
EXTENDS MaterialRequests, TLC

CONSTANTS m1, m2, p1, p2, l1, l2

\* What follows two overlapping writes of a reservation is not explored.
UntilRaced == ~raced

\* One reservation of the three is made by hand.
OneByHand == \A i, j \in DOMAIN rows : i # j => rows[i].source # Nothing \/ rows[j].source # Nothing


MCSymmetry == Permutations(Places) \cup Permutations(Parts)
=============================================================================

---------------------------- MODULE MCComponents ----------------------------
(***************************************************************************)
(* An instance of Components for TLC.                                      *)
(***************************************************************************)
EXTENDS Components, TLC

CONSTANTS c1, c2, a1, a2, p1, r1, r2

\* No component outlives the meters: a transfer from one aircraft to another can add to
\* its time without end.
ShortLives == \A c \in Components : component[c].time <= MaxHours /\ flown[c] <= MaxHours
\* The second component is there to take positions: its own life is not followed.
PlaceTaker ==
    component[c2].limit = NoHours /\ component[c2].time = 0 /\ flown[c2] = 0 /\ c2 \notin moved

MCSymmetry == Permutations(Aircraft) \cup Permutations(Requests)
=============================================================================

----------------------------- MODULE MCPlanning -----------------------------
(***************************************************************************)
(* An instance of Planning for TLC.                                        *)
(***************************************************************************)
EXTENDS Planning, TLC

CONSTANTS c1, k1, k2, g1, g2, t1, l1, l2, q1, q2

MCToolOf == l1 :> t1 @@ l2 :> t1
MCPartOf == l1 :> q1 @@ l2 :> q2

\* The tool is calibrated on the last day but one at most, neither lost nor retired,
\* and no update makes a loan appear or vanish;
\* what follows a reservation made by hand is not explored, nor a program of one task.
Tended ==
    \A t \in Tools :
       /\ tool[t].status # "absent" => tool[t].required /\ tool[t].due # NoDate
       /\ tool[t].status \notin {"missing", "retired"}
       /\ tool[t].status = "issued" => loans[t] > 0
       /\ tool[t].status = "available" => loans[t] = 0
WholeProgram == \A g \in Planners : job[g].tasks \in {{}, MpdTasks}
FewBookings == \A b \in bookings : b.package # Nobody

MCSymmetry == Permutations(Packages) \cup Permutations(Planners)
=============================================================================

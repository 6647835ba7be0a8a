---------------------------- MODULE MCWorkOrders -----------------------------
(***************************************************************************)
(* An instance of WorkOrders for TLC: one employee for each kind of step,  *)
(* so that the number of signers does not multiply the interleavings.      *)
(***************************************************************************)
EXTENDS WorkOrders, TLC

CONSTANTS c1, c2, o1, o2, w1, w2, mechanic, inspector, independent, aca, operator

MCStaff ==
    [e \in Employees |->
        [active |-> TRUE, user |-> operator,
         holds |-> CASE e = mechanic -> {"training"}
                     [] e = inspector -> {"stamp"}
                     [] e = independent -> {"independent_inspection"}
                     [] OTHER -> {"aca"}]]

MCOrderOf == [t \in Tasks |-> o1]

MCReqChoices ==
    {{"inspected"}, {"inspected", "independent_inspection"}, {"inspected", "aca_certified"},
     {"aca_certified"}}

There(t) == task[t].status # "absent"

\* The life of one card, which requires more than an inspection, beside those of
\* two plain ones of the same order, handled one after the other, the second up to the
\* end of its work.
OneFullLife ==
    IF There(c2)
    THEN /\ Cardinality({w \in Workers : inflight[w] # NoRequest}) <= 1
         /\ \A t \in Tasks :
               /\ There(t)
               /\ task[t].req = {"inspected"}
               /\ task[t].status \notin {"started", "paused", "rejected", "cancelled", "closed"}
               /\ card[t].status \notin {"draft", "paused", "waiting_parts", "waiting_engineering"}
         /\ task[c1].version <= 4 /\ task[c2].version <= 2
    ELSE There(c1) => task[c1].version <= IF task[c1].req = {"inspected"} THEN 4 ELSE MaxVersion

MCSpec == WOInit /\ [][WONext /\ OneFullLife']_allVars

MCSymmetry == Permutations(Workers)
=============================================================================

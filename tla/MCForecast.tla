----------------------------- MODULE MCForecast -----------------------------
(***************************************************************************)
(* An instance of Forecast for TLC.                                        *)
(***************************************************************************)
EXTENDS Forecast, TLC

CONSTANTS a1, i1, i2, i3, i4, i5, i6

MCKindOf == i1 :> "check" @@ i2 :> "check" @@ i3 :> "ad" @@ i4 :> "sb" @@ i5 :> "eo" @@ i6 :> "defect"
MCFirstDay == -1
MCPageLimit == [kind \in KindSet |-> 1]

\* The pages of two kinds do not meet: one kind at a time is enough, and of the checks
\* two, a full page and one left out.  What follows when an aircraft has been grounded
\* or a forecast is finished is not explored: the next one starts afresh;
\* and a forecast for one aircraft is explored over directives only, with one aircraft.
OneKind == Cardinality({KindOf[i] : i \in {j \in Items : Recorded(j)}}) <= 1
Reading ==
    /\ view.step < 6
    /\ view.craft # AnyCraft => \A i \in Items : Recorded(i) => KindOf[i] = "ad"
Flying == \A a \in Aircraft : util[a].ops = "available" /\ util[a].light = "green"

\* The steps of Forecast that stay within the bounds.
MCSpec == ForecastInit /\ [][ForecastNext /\ OneKind' /\ Flying']_forecastVars

MCSymmetry == Permutations({i1, i2})
=============================================================================

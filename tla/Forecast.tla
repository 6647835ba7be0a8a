------------------------------ MODULE Forecast ------------------------------
(***************************************************************************)
(* What is due: maintenance checks, airworthiness directives, service      *)
(* bulletins, engineering orders and deferred defects, the counters of the *)
(* aircraft, and the views a planner reads of them                         *)
(* (backend/app/planning/service.py).                                      *)
(*                                                                         *)
(* A handler that writes is one step.  The forecast reads the clock and    *)
(* the counters, then one page of each kind, each by a query of its own:   *)
(* others write between two of them.  Time is counted in days, and flight  *)
(* cycles, which the code treats as it treats flight hours, are left out.  *)
(***************************************************************************)
EXTENDS Integers, FiniteSets

CONSTANTS Items,      \* identifiers of checks, directives, bulletins, orders, defects
          KindOf,     \* the table an item is in
          Aircraft,
          FirstDay, LastDay, \* bounds: the days
          Intervals,  \* intervals a check may have, in days or hours
          DueDays,    \* the 14 days within which a new check is due
          SoonWindow,   \* the 30 days of the soon bucket
          Horizons,   \* horizons asked for, in days
          MaxHours,   \* bound: flight hours of an aircraft
          PageLimit,  \* the rows a query returns at most, by kind
          StatusLimit, \* the checks aircraft_status reads at most
          NoDue, NoHours, AnyCraft

Kinds == <<"check", "ad", "sb", "eo", "defect">>
KindSet == {Kinds[n] : n \in 1 .. 5}

ASSUME ForecastAssumption ==
    /\ KindOf \in [Items -> KindSet] /\ PageLimit \in [KindSet -> Nat \ {0}]
    /\ {LastDay, DueDays, SoonWindow, MaxHours} \subseteq Nat /\ StatusLimit \in Nat \ {0}
    /\ FirstDay \in Int /\ FirstDay <= 0 /\ Intervals \subseteq Nat \ {0} /\ Horizons \subseteq Int
    /\ NoDue \notin Int /\ NoHours \notin Nat /\ AnyCraft \notin Aircraft

VARIABLES item,    \* the rows of the five tables
          util,    \* aircraft_utilization
          now,
          view     \* the forecast being read, with what it has listed so far

forecastVars == <<item, util, now, view>>

Calendar == FirstDay .. LastDay
Statuses ==
    {"absent", "planned", "due", "overdue", "in_work", "open", "draft", "in_review",
     "approved", "deferred"}
ItemRows ==
    [status : Statuses, due : Int \cup {NoDue}, hours : Nat \cup {NoHours},
     craft : Aircraft \cup {AnyCraft}]
UtilRows ==
    [known : BOOLEAN, ops : {"available", "grounded", "maintenance", "ferry"},
     hours : 0 .. MaxHours, light : {"green", "yellow", "red"}]
Buckets == {"unlisted", "overdue", "due_soon", "future", "beyond"}
Views ==
    [step : 0 .. 6, day : Calendar, horizon : Horizons \cup {0}, craft : Aircraft \cup {AnyCraft},
     hours : [Aircraft -> 0 .. MaxHours \cup {NoHours}], bucket : [Items -> Buckets],
     asked : SUBSET Items]

Absent == [status |-> "absent", due |-> NoDue, hours |-> NoHours, craft |-> AnyCraft]
NoView ==
    [step |-> 0, day |-> 0, horizon |-> 0, craft |-> AnyCraft,
     hours |-> [a \in Aircraft |-> NoHours],
     bucket |-> [i \in Items |-> "unlisted"], asked |-> {}]

ForecastInit ==
    /\ item = [i \in Items |-> Absent]
    /\ util = [a \in Aircraft |-> [known |-> FALSE, ops |-> "available", hours |-> 0, light |-> "green"]]
    /\ now = 0
    /\ view = NoView

-----------------------------------------------------------------------------
(* The records                                                             *)

Recorded(i) == item[i].status # "absent"

\* When a check with these intervals, last done so, is next due: by date, by hours.
\* No hours are known of an aircraft without counters, and zero hours count as none.
NextDate(interval, lastDone) ==
    CASE interval = NoDue -> NoDue
      [] interval # NoDue /\ lastDone # NoDue -> lastDone + interval
      [] OTHER -> now + interval

NextHours(a, interval, lastHours) ==
    CASE interval = NoHours \/ ~util[a].known -> NoHours
      [] interval # NoHours /\ util[a].known /\ lastHours \notin {NoHours, 0} -> lastHours + interval
      [] OTHER -> util[a].hours + interval

\* The status a new check is given; no later step computes it again.
StatusOf(due) ==
    CASE due = NoDue -> "planned"
      [] due # NoDue /\ due < now -> "overdue"
      [] due # NoDue /\ due \in now .. now + DueDays -> "due"
      [] OTHER -> "planned"

Added(i, status, due, hours, craft) ==
    /\ ~Recorded(i)
    /\ item' = [item EXCEPT ![i] = [status |-> status, due |-> due, hours |-> hours, craft |-> craft]]
    /\ UNCHANGED <<util, now, view>>

CreateCheck(i, a, interval, lastDone, byHours, lastHours) ==
    LET due == NextDate(interval, lastDone)
    IN /\ KindOf[i] = "check"
       /\ Added(i, StatusOf(due), due, NextHours(a, byHours, lastHours), a)

\* Applicability names an aircraft or is left empty.
CreateAd(i, due, craft) == KindOf[i] = "ad" /\ Added(i, "open", due, NoHours, craft)

CreateSb(i, due) == KindOf[i] = "sb" /\ Added(i, "open", due, NoHours, AnyCraft)

CreateEo(i, due) == KindOf[i] = "eo" /\ Added(i, "draft", due, NoHours, AnyCraft)

ApproveEo(i) ==
    /\ KindOf[i] = "eo" /\ item[i].status \in {"draft", "in_review"}
    /\ item' = [item EXCEPT ![i].status = "approved"]
    /\ UNCHANGED <<util, now, view>>

\* The expiry is given or follows from the repair interval.
CreateDefect(i, a, expires, interval, deferral) ==
    /\ KindOf[i] = "defect"
    /\ Added(i, IF deferral \in {"mel", "cdl"} THEN "deferred" ELSE "open",
             CASE expires # NoDue -> expires
               [] expires = NoDue /\ interval # NoDue -> now + interval
               [] OTHER -> NoDue,
             NoHours, a)

\* The last step of generate_work_package_from_check (Planning).
TakeIntoWork(i) ==
    /\ KindOf[i] = "check" /\ item[i].status \in {"planned", "due", "overdue"}
    /\ item' = [item EXCEPT ![i].status = "in_work"]
    /\ UNCHANGED <<util, now, view>>

\* Counters left out keep their value; a light once red stays red.
UpsertUtilization(a, ops, hours) ==
    /\ util' = [util EXCEPT ![a] =
                  [known |-> TRUE, ops |-> ops,
                   hours |-> IF hours = NoHours THEN @.hours ELSE hours,
                   light |-> IF ops = "grounded" THEN "red" ELSE @.light]]
    /\ UNCHANGED <<item, now, view>>

ClockAdvances ==
    /\ now < LastDay
    /\ now' = now + 1
    /\ UNCHANGED <<item, util, view>>

-----------------------------------------------------------------------------
(* Urgency                                                                 *)

SoonOf(horizon) == IF horizon < SoonWindow THEN horizon ELSE SoonWindow

\* The horizon is cut to a day at least.
HorizonOf(horizon) == IF horizon < 1 THEN 1 ELSE horizon

\* Faulty: the last day of the soon window belongs to the future.
UrgencyShort(due, day, soon) ==
    CASE due = NoDue -> "future"
      [] due # NoDue /\ due < day -> "overdue"
      [] due # NoDue /\ due >= day /\ due < day + soon -> "due_soon"
      [] OTHER -> "future"

Urgency(due, day, soon) ==
    CASE due = NoDue -> "future"
      [] due # NoDue /\ due < day -> "overdue"
      [] due # NoDue /\ due >= day /\ due <= day + soon -> "due_soon"
      [] OTHER -> "future"

\* Hours that have run out count only for an item the calendar puts in the future.
HoursOut(row) ==
    /\ row.hours # NoHours /\ row.craft # AnyCraft
    /\ view.hours[row.craft] # NoHours
    /\ row.hours < view.hours[row.craft]

BucketOf(row) ==
    LET urgency == Urgency(row.due, view.day, SoonOf(view.horizon))
    IN CASE urgency = "future" /\ HoursOut(row) -> "overdue"
         [] urgency = "future" /\ ~HoursOut(row) /\ row.due # NoDue
              /\ row.due > view.day + HorizonOf(view.horizon) -> "beyond"
         [] OTHER -> urgency

-----------------------------------------------------------------------------
(* The forecast, query by query                                            *)

\* The clock and the counters.
BeginForecast(horizon, craft) ==
    /\ view.step \in {0, 6}
    /\ view' = [NoView EXCEPT !.step = 1, !.day = now, !.horizon = horizon, !.craft = craft,
                              !.hours = [a \in Aircraft |->
                                           IF util[a].known THEN util[a].hours ELSE NoHours],
                              !.asked = {i \in Items : Recorded(i)}]
    /\ UNCHANGED <<item, util, now>>

\* Checks and defects are asked for by aircraft, directives left out by applicability.
Concerns(i) ==
    CASE view.craft = AnyCraft -> TRUE
      [] view.craft # AnyCraft /\ KindOf[i] \in {"check", "defect"} -> item[i].craft = view.craft
      [] view.craft # AnyCraft /\ KindOf[i] = "ad" -> item[i].craft \in {view.craft, AnyCraft}
      [] OTHER -> TRUE

\* The rows the query of a kind ranges over: directives are filtered after it.
RowsOf(kind) ==
    {i \in Items : Recorded(i) /\ KindOf[i] = kind
                   /\ (kind \in {"check", "defect"} => Concerns(i))}

\* ORDER BY the date, rows without one last.
NotLater(i, j) ==
    item[j].due = NoDue \/ (item[i].due # NoDue /\ item[i].due <= item[j].due)

\* Faulty: the query is not ordered.
PagesUnordered(kind) ==
    {page \in SUBSET RowsOf(kind) :
        Cardinality(page) = IF Cardinality(RowsOf(kind)) < PageLimit[kind]
                              THEN Cardinality(RowsOf(kind)) ELSE PageLimit[kind]}

\* The first page, in the order of the dates.
Pages(kind) ==
    {page \in SUBSET RowsOf(kind) :
        /\ Cardinality(page) = IF Cardinality(RowsOf(kind)) < PageLimit[kind]
                                 THEN Cardinality(RowsOf(kind)) ELSE PageLimit[kind]
        /\ \A i \in page, j \in RowsOf(kind) \ page : NotLater(i, j)}

ReadPage ==
    /\ view.step \in 1 .. 5
    /\ \E page \in Pages(Kinds[view.step]) :
          view' = [view EXCEPT !.step = @ + 1,
                               !.bucket = [i \in Items |->
                                   IF i \in page /\ Concerns(i) THEN BucketOf(item[i]) ELSE @[i]]]
    /\ UNCHANGED <<item, util, now>>

-----------------------------------------------------------------------------
(* The other views: one query or a few, of one instant                     *)

\* What the planner dashboard counts as due: count_checks_due, count_open_ads_due, ...
Counted(kind) ==
    {i \in Items :
        /\ KindOf[i] = kind /\ Recorded(i)
        /\ CASE kind = "check" -> item[i].status \in {"planned", "due", "overdue"}
             [] kind = "eo" -> item[i].status \in {"draft", "in_review", "approved"}
             [] kind \in {"ad", "sb"} -> item[i].status = "open"
             [] OTHER -> item[i].status \in {"open", "deferred"}
        /\ kind # "defect" => item[i].due # NoDue /\ item[i].due <= now + SoonWindow}

\* The checks aircraft_status reads of an aircraft: a page, before their status counts.
ChecksOf(a) == {i \in Items : KindOf[i] = "check" /\ Recorded(i) /\ item[i].craft = a}
StatusPages(a) ==
    {page \in SUBSET ChecksOf(a) :
        /\ Cardinality(page) = IF Cardinality(ChecksOf(a)) < StatusLimit
                                 THEN Cardinality(ChecksOf(a)) ELSE StatusLimit
        /\ \A i \in page, j \in ChecksOf(a) \ page : NotLater(i, j)}

\* What it says of the maintenance of the aircraft.
MaintenanceStatus(a, page) ==
    LET upcoming == {i \in page : item[i].status \in {"planned", "due", "overdue"}}
        deferred == {i \in Items : item[i].status = "deferred" /\ item[i].craft = a}
    IN CASE util[a].ops = "grounded" \/ util[a].light = "red" -> "grounded"
         [] util[a].ops # "grounded" /\ util[a].light # "red" /\ upcoming \cup deferred # {} -> "attention"
         [] OTHER -> "ok"

-----------------------------------------------------------------------------
DueDates == Calendar \cup {LastDay + 1, NoDue}

ForecastNext ==
    \/ \E i \in Items, a \in Aircraft, interval \in Intervals \cup {NoDue},
          lastDone \in {FirstDay, NoDue}, byHours \in Intervals \cup {NoHours},
          lastHours \in {1, NoHours} :
          CreateCheck(i, a, interval, lastDone, byHours, lastHours)
    \/ \E i \in Items, due \in DueDates, craft \in Aircraft \cup {AnyCraft} : CreateAd(i, due, craft)
    \/ \E i \in Items, due \in DueDates : CreateSb(i, due)
    \/ \E i \in Items, due \in DueDates : CreateEo(i, due)
    \/ \E i \in Items : ApproveEo(i)
    \/ \E i \in Items, a \in Aircraft, expires \in DueDates, interval \in Intervals \cup {NoDue},
          deferral \in {"mel", "none"} :
          CreateDefect(i, a, expires, interval, deferral)
    \/ \E i \in Items : TakeIntoWork(i)
    \/ \E a \in Aircraft, ops \in {"available", "grounded"}, hours \in 0 .. MaxHours \cup {NoHours} :
          UpsertUtilization(a, ops, hours)
    \/ ClockAdvances
    \/ \E horizon \in Horizons, craft \in Aircraft \cup {AnyCraft} : BeginForecast(horizon, craft)
    \/ ReadPage

ForecastSpec == ForecastInit /\ [][ForecastNext]_forecastVars

-----------------------------------------------------------------------------
(* Properties                                                              *)

\* The variables have the types of the tables and of the answer.
ForecastTypeOK ==
    /\ item \in [Items -> ItemRows]
    /\ util \in [Aircraft -> UtilRows]
    /\ now \in Calendar
    /\ view \in Views

\* An item that is not on the page of its kind was left out for a full page of items
\* that are due no later.
CrowdedOut(i) ==
    \E page \in SUBSET {j \in Items \ {i} : Recorded(j) /\ KindOf[j] = KindOf[i] /\ NotLater(j, i)} :
        Cardinality(page) = PageLimit[KindOf[i]]

\* A finished forecast shows every item that was there when it was asked for and is
\* past its date as overdue, whatever was written while its pages were read, unless a
\* full page of items is due no later; and a check that has run out of hours is shown
\* as overdue or due soon.
OverdueIsShown ==
    view.step = 6 =>
        \A i \in view.asked :
            Concerns(i) /\ ~CrowdedOut(i) =>
                /\ item[i].due # NoDue /\ item[i].due < view.day => view.bucket[i] = "overdue"
                /\ HoursOut(item[i]) => view.bucket[i] \in {"overdue", "due_soon"}

\* What the dashboard counts as due on the day of a forecast over thirty days or more is
\* in its overdue or due-soon list.
CountedIsListed ==
    view.step = 6 /\ view.day = now /\ view.horizon >= SoonWindow /\ view.craft = AnyCraft =>
        \A i \in view.asked :
            KindOf[i] # "defect" /\ i \in Counted(KindOf[i]) /\ ~CrowdedOut(i)
              => view.bucket[i] \in {"overdue", "due_soon"}

\* An aircraft with a check the dashboard counts as due is not shown as in order, unless
\* a full page of its checks is due no later.
CountedNeedsAttention ==
    \A i \in Counted("check") :
        LET a == item[i].craft
        IN \/ StatusLimit <= Cardinality({j \in ChecksOf(a) \ {i} : NotLater(j, i)})
           \/ \A page \in StatusPages(a) : MaintenanceStatus(a, page) # "ok"

\* The three views of what is due agree, each with its own query and its own rule: the
\* counts of the dashboard, the lists of the forecast, the state of the aircraft.
ViewsAgree == CountedIsListed /\ CountedNeedsAttention
=============================================================================

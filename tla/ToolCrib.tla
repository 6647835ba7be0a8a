------------------------------ MODULE ToolCrib ------------------------------
(***************************************************************************)
(* The tool crib: tools, their calibration, loans, reservations, and the   *)
(* tool planning that work packages go through                             *)
(* (backend/app/logistics/service.py).                                     *)
(*                                                                         *)
(* A handler of the crib locks its tool (FOR UPDATE) and is one step.      *)
(* run_tool_planning reads the tools without a lock, writes those it       *)
(* reserves at once (flush: the row stays locked, the value unseen) and    *)
(* publishes all it wrote when it commits.                                 *)
(* Time is counted in days; a month is SoonDays of them.                   *)
(***************************************************************************)
EXTENDS Integers, FiniteSets

CONSTANTS Tools,     \* tool codes
          Packages,  \* identifiers of work packages
          Planners,  \* requests that run tool planning
          Lines,     \* tool plan lines
          ToolOf,    \* the tool code a line names, NoTool for none
          MaxDay,    \* bound: the last day
          SoonDays,  \* the 30 days within which a calibration is due soon
          MaxLoans,  \* bound: open loans of one tool
          NoTool, NoDate, Nobody, NoLine

ASSUME CribAssumption ==
    /\ {MaxDay, SoonDays, MaxLoans} \subseteq Nat
    /\ ToolOf \in [Lines -> Tools \cup {NoTool}]
    /\ NoDate \notin Nat /\ Nobody \notin Planners /\ NoLine \notin Lines /\ NoTool \notin Tools

VARIABLES tool,     \* logistics_tools
          loans,    \* logistics_tool_issues: open ones, by tool
          bookings, \* logistics_tool_reservations
          holder,   \* the planner that has flushed a tool and not committed
          run,      \* run_tool_planning under way, by planner
          today

cribVars == <<tool, loans, bookings, holder, run, today>>

Days == 0 .. MaxDay
ToolStatuses == {"available", "reserved", "issued", "missing", "calibration_due", "retired"}
ToolRows == [status : ToolStatuses \cup {"absent"}, required : BOOLEAN, due : Days \cup {NoDate}]
BookingRows == [tool : Tools, package : Packages \cup {Nobody}, status : {"open", "issued"}]
LineResults == {"none", "reserved", "unavailable", "overdue_cal"}
Runs == [todo : SUBSET Lines, claim : Lines \cup {NoLine}, package : Packages \cup {Nobody},
         result : [Lines -> LineResults]]

NoRun == [todo |-> {}, claim |-> NoLine, package |-> Nobody, result |-> [l \in Lines |-> "none"]]

CribInit ==
    /\ tool = [t \in Tools |-> [status |-> "absent", required |-> FALSE, due |-> NoDate]]
    /\ loans = [t \in Tools |-> 0]
    /\ bookings = {}
    /\ holder = [t \in Tools |-> Nobody]
    /\ run = [p \in Planners |-> NoRun]
    /\ today = 0

-----------------------------------------------------------------------------
(* Calibration                                                             *)

CalibrationStatus(required, due) ==
    CASE ~required -> "not_required"
      [] required /\ due = NoDate -> "unknown"
      [] required /\ due # NoDate /\ due < today -> "overdue"
      [] required /\ due # NoDate /\ due \in today .. today + SoonDays -> "due_soon"
      [] OTHER -> "current"

Overdue(row) == CalibrationStatus(row.required, row.due) = "overdue"

\* issue_tool: its status and its calibration allow the loan.
MayLend(t) == tool[t].status \in {"available", "reserved"} /\ ~Overdue(tool[t])

\* The tool as an update, a loan, a return leaves it.
WithStatus(t, status) == [tool EXCEPT ![t].status = status]

\* get_tool for update: the row is there and no planner holds it.
Locked(t) == tool[t].status # "absent" /\ holder[t] = Nobody

Booking(t, package) == [tool |-> t, package |-> package, status |-> "open"]
OpenBookings(t) == {b \in bookings : b.tool = t /\ b.status = "open"}

-----------------------------------------------------------------------------
(* The handlers of the crib                                                *)

CreateTool(t, required, due) ==
    /\ tool[t].status = "absent"
    /\ tool' = [tool EXCEPT ![t] = [status |-> "available", required |-> required, due |-> due]]
    /\ UNCHANGED <<loans, bookings, holder, run, today>>

\* An administrator may write any status; a date can be changed but not removed.
UpdateTool(t, status, required, due) ==
    /\ Locked(t)
    /\ due \in Days \cup {tool[t].due}
    /\ tool' = [tool EXCEPT ![t] = [status |-> status, required |-> required, due |-> due]]
    /\ UNCHANGED <<loans, bookings, holder, run, today>>

CalibrateTool(t, due) ==
    /\ Locked(t)
    /\ tool' = [tool EXCEPT ![t] =
                  [status |-> IF @.status = "calibration_due" THEN "available" ELSE @.status,
                   required |-> TRUE, due |-> due]]
    /\ UNCHANGED <<loans, bookings, holder, run, today>>

ReserveTool(t, package) ==
    /\ Locked(t)
    /\ tool[t].status = "available"
    /\ tool' = WithStatus(t, "reserved")
    /\ bookings' = bookings \cup {Booking(t, package)}
    /\ UNCHANGED <<loans, holder, run, today>>

IssueTool(t) ==
    /\ Locked(t)
    /\ MayLend(t)
    /\ loans[t] < MaxLoans
    /\ tool' = WithStatus(t, "issued")
    /\ loans' = [loans EXCEPT ![t] = @ + 1]
    /\ bookings' = (bookings \ OpenBookings(t))
                      \cup {[b EXCEPT !.status = "issued"] : b \in OpenBookings(t)}
    /\ UNCHANGED <<holder, run, today>>

ReturnTool(t) ==
    /\ Locked(t)
    /\ loans[t] > 0
    /\ loans' = [loans EXCEPT ![t] = @ - 1]
    /\ tool' = WithStatus(t, IF Overdue(tool[t]) THEN "calibration_due" ELSE "available")
    /\ UNCHANGED <<bookings, holder, run, today>>

\* The loan of a lost tool stays open.
ReportLostTool(t) ==
    /\ Locked(t)
    /\ tool' = WithStatus(t, "missing")
    /\ UNCHANGED <<loans, bookings, holder, run, today>>

DayPasses ==
    /\ today < MaxDay
    /\ today' = today + 1
    /\ UNCHANGED <<tool, loans, bookings, holder, run>>

-----------------------------------------------------------------------------
(* run_tool_planning                                                       *)

StartRun(p, package, lines) ==
    run' = [run EXCEPT ![p] = [NoRun EXCEPT !.todo = lines, !.package = package]]

\* A tool is read once per session: a later line sees what an earlier one made of it.
EarlierLines(p, l) ==
    {k \in Lines : run[p].result[k] # "none" /\ ToolOf[k] = ToolOf[l]}

Verdict(p, l) ==
    LET t == ToolOf[l]
        earlier == {run[p].result[k] : k \in EarlierLines(p, l)}
    IN CASE t = NoTool -> "unavailable"
         [] t # NoTool /\ earlier # {} ->
               IF "overdue_cal" \in earlier THEN "overdue_cal" ELSE "unavailable"
         [] OTHER ->
               CASE tool[t].status = "absent" -> "unavailable"
                 [] tool[t].status # "absent" /\ Overdue(tool[t]) -> "overdue_cal"
                 [] tool[t].status \notin {"absent", "available"} /\ ~Overdue(tool[t]) -> "unavailable"
                 [] OTHER -> "reserved"

\* A line is looked up; a tool to be reserved is claimed in the next step.
PlanLine(p, l) ==
    /\ l \in run[p].todo /\ run[p].claim = NoLine
    /\ IF Verdict(p, l) = "reserved"
         THEN run' = [run EXCEPT ![p].claim = l]
         ELSE run' = [run EXCEPT ![p].todo = @ \ {l}, ![p].result[l] = Verdict(p, l)]
    /\ UNCHANGED <<tool, loans, bookings, holder, today>>

\* _reserve_tool_row writes whatever the tool has become, and waits for its row.
ClaimTool(p) ==
    LET l == run[p].claim
    IN /\ l # NoLine
       /\ holder[ToolOf[l]] = Nobody
       /\ holder' = [holder EXCEPT ![ToolOf[l]] = p]
       /\ run' = [run EXCEPT ![p].claim = NoLine, ![p].todo = @ \ {l}, ![p].result[l] = "reserved"]
       /\ UNCHANGED <<tool, loans, bookings, today>>

LinesWith(p, result) == {l \in Lines : run[p].result[l] = result}
ToolsWith(p, result) == {ToolOf[l] : l \in LinesWith(p, result)}
Unheld(p) == [t \in Tools |-> IF holder[t] = p THEN Nobody ELSE holder[t]]

\* The commit: what was reserved and what was found overdue become visible.
PublishRun(p) ==
    /\ run[p].todo = {} /\ run[p].claim = NoLine
    /\ \A t \in ToolsWith(p, "overdue_cal") : holder[t] \in {Nobody, p}
    /\ tool' = [t \in Tools |->
                  CASE t \in ToolsWith(p, "overdue_cal") -> [tool[t] EXCEPT !.status = "calibration_due"]
                    [] t \in ToolsWith(p, "reserved") -> [tool[t] EXCEPT !.status = "reserved"]
                    [] OTHER -> tool[t]]
    /\ bookings' = bookings \cup {Booking(t, run[p].package) : t \in ToolsWith(p, "reserved")}
    /\ holder' = Unheld(p)
    /\ UNCHANGED <<loans, today>>

\* An error or a crash: nothing of what was flushed remains.
DropRun(p) ==
    /\ run' = [run EXCEPT ![p] = NoRun]
    /\ holder' = Unheld(p)
    /\ UNCHANGED <<tool, loans, bookings, today>>

-----------------------------------------------------------------------------
CribNext ==
    \/ \E t \in Tools, required \in BOOLEAN, due \in Days \cup {NoDate} : CreateTool(t, required, due)
    \/ \E t \in Tools, status \in ToolStatuses, required \in BOOLEAN, due \in Days \cup {NoDate} :
          UpdateTool(t, status, required, due)
    \/ \E t \in Tools, due \in Days : CalibrateTool(t, due)
    \/ \E t \in Tools, package \in Packages \cup {Nobody} : ReserveTool(t, package)
    \/ \E t \in Tools : IssueTool(t)
    \/ \E t \in Tools : ReturnTool(t)
    \/ \E t \in Tools : ReportLostTool(t)
    \/ DayPasses

CribTypeOK ==
    /\ tool \in [Tools -> ToolRows]
    /\ loans \in [Tools -> 0 .. MaxLoans]
    /\ bookings \subseteq BookingRows
    /\ holder \in [Tools -> Planners \cup {Nobody}]
    /\ run \in [Planners -> Runs]
    /\ today \in Days
=============================================================================

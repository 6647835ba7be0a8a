---------------------------- MODULE Certification ----------------------------
(***************************************************************************)
(* The maintenance task engine (backend/app/maintenance/service.py): tasks *)
(* with a status, the chain of certification signatures on each of them,   *)
(* the technical logbook, and the personnel records the signatures are     *)
(* checked against.  Every handler modelled here reads its rows under a    *)
(* row lock and ends in one commit, so each is one atomic action.          *)
(*                                                                         *)
(* A request that fails raises an HTTPException before any write: it is    *)
(* the absence of a step.  expected_version is optional in every request,  *)
(* so the request without it is the weakest one and the one modelled; what *)
(* it buys a client that sends it is the property VersionMoves.            *)
(***************************************************************************)
EXTENDS Naturals, FiniteSets, Sequences

CONSTANTS Tasks,        \* rows of maintenance_tasks
          Employees,    \* rows of personnel_employees
          Users,        \* operator accounts a session can belong to
          Admins,       \* those whose session_role is Administrator
          Nobody,       \* "no employee" / "no user": a NULL column
          InitialStaff, \* personnel records at the start
          MaxVersion,   \* bound: a task is not updated past this version
          MaxLog,       \* bound: length of the logbook
          MaxChurn      \* bound: number of personnel changes

OptionalSteps == {"inspected", "independent_inspection", "aca_certified"}
CertSteps == OptionalSteps \cup {"performed", "aircraft_released"}

\* CERT_STEPS is a tuple; Rank is the position of a step in it.
Rank == [performed |-> 1, inspected |-> 2, independent_inspection |-> 3,
         aca_certified |-> 4, aircraft_released |-> 5]

Credentials == {"training", "licence", "stamp", "independent_inspection", "aca"}

\* "licence" stands for ame_license, rating and type_rating, which the code
\* never tells apart.
Accepted == [performed |-> {"training", "licence"},
             inspected |-> {"licence", "stamp"},
             independent_inspection |-> {"independent_inspection"},
             aca_certified |-> {"aca"},
             aircraft_released |-> {"aca"}]

TerminalStatuses == {"closed", "rejected", "cancelled"}
TaskStatuses == TerminalStatuses \cup
    {"open", "assigned", "started", "paused", "completed",
     "awaiting_inspection", "awaiting_aca", "released"}

StaffRecords == [active : BOOLEAN, user : Users \cup {Nobody},
                 holds : SUBSET Credentials]

TaskRecords == [status : TaskStatuses \cup {"absent"},
                rel : {"not_released", "released"},
                req : SUBSET OptionalSteps,
                version : Nat]

Absent == [status |-> "absent", rel |-> "not_released", req |-> {}, version |-> 0]

Unsigned == [s \in CertSteps |-> Nobody]

LogRecords == [task : Tasks, amends : Nat,
               people : [CertSteps -> Employees \cup {Nobody}]]

ASSUME CertificationAssumption ==
    /\ Admins \subseteq Users
    /\ Nobody \notin Employees /\ Nobody \notin Users
    /\ InitialStaff \in [Employees -> StaffRecords]
    /\ MaxVersion \in Nat /\ MaxLog \in Nat /\ MaxChurn \in Nat

VARIABLES task,    \* maintenance_tasks
          signer,  \* certification_events: who signed which step of a task
          log,     \* technical_log_entries, oldest first
          staff,   \* personnel_employees with qualifications, authorizations
          churn    \* personnel changes so far (bound only)

vars == <<task, signer, log, staff, churn>>

Init == /\ task = [t \in Tasks |-> Absent]
        /\ signer = [t \in Tasks |-> Unsigned]
        /\ log = <<>>
        /\ staff = InitialStaff
        /\ churn = 0

-----------------------------------------------------------------------------
(* Certification rules                                                     *)

\* _required_steps_for_task
Needed(req) == {"performed", "aircraft_released"} \cup req

Done(people) == {s \in CertSteps : people[s] # Nobody}

Before(req, s) == {r \in Needed(req) : Rank[r] < Rank[s]}

\* Faulty: only checks that the step is required and not yet signed.
IsNextStepUnordered(req, people, s) == s \in Needed(req) \ Done(people)

\* The step is required, not yet signed, and required[len(required & existing)].
IsNextStep(req, people, s) ==
    /\ s \in Needed(req) \ Done(people)
    /\ Cardinality(Before(req, s)) = Cardinality(Needed(req) \cap Done(people))

\* _assert_signer_binding: a session signs for the employee linked to it; an
\* administrator signs for anybody.
MaySignAs(u, e) == u \in Admins \/ staff[e].user = u

\* _assert_step_authority: a live credential of the right kind, and the
\* inspections by other people than those before them.
SeparateFrom(s) == IF s = "inspected" THEN {"performed"}
                   ELSE IF s = "independent_inspection" THEN {"performed", "inspected"}
                   ELSE {}

\* Faulty: the independent inspector is compared with the performer only.
HasAuthorityNoInspector(people, s, e) ==
    /\ staff[e].holds \cap Accepted[s] # {}
    /\ s \in {"inspected", "independent_inspection"} => people["performed"] # e

HasAuthority(people, s, e) ==
    /\ staff[e].holds \cap Accepted[s] # {}
    /\ \A r \in SeparateFrom(s) : people[r] # e

\* Faulty: leaves the status of the step just signed, without looking at
\* the first step that remains.
SignedStatusOwn(req, people, s) ==
    CASE s = "performed" -> "started"
      [] s \in {"inspected", "independent_inspection"} -> "awaiting_inspection"
      [] s = "aca_certified" -> "awaiting_aca"
      [] OTHER -> "released"

\* The status sign_action leaves, with s the step just signed: it depends on
\* the first step that remains.
SignedStatus(req, people, s) ==
    LET done == Done(people) \cup {s}
        left == Needed(req) \ done
    IN  IF s = "aircraft_released" THEN "released"
        ELSE IF left \cap {"inspected", "independent_inspection"} # {}
             THEN "awaiting_inspection"
        ELSE IF "aca_certified" \in left \cup done THEN "awaiting_aca"
        ELSE IF done \cap {"inspected", "independent_inspection"} # {} THEN "completed"
        ELSE "started"

\* The row after sign_action has signed step s of a task that reads v.
Signed(v, people, s) ==
    [v EXCEPT !.status = SignedStatus(v.req, people, s),
              !.rel = IF s = "aircraft_released" THEN "released" ELSE @,
              !.version = @ + 1]

\* Every check of sign_action, for a task that reads v.
CanSign(v, people, s, e, u) ==
    /\ v.status \notin TerminalStatuses \cup {"released", "absent"}
    /\ staff[e].active
    /\ MaySignAs(u, e)
    /\ IsNextStep(v.req, people, s)
    /\ HasAuthority(people, s, e)

\* TASK_TRANSITIONS; "in_progress" is written as "started".
TaskTransitions ==
    [open |-> {"assigned", "started", "cancelled", "rejected"},
     assigned |-> {"started", "paused", "cancelled", "rejected"},
     started |-> {"paused", "completed", "cancelled", "rejected"},
     paused |-> {"started", "cancelled", "rejected"},
     completed |-> {"closed", "rejected"},
     awaiting_inspection |-> {"cancelled", "rejected"},
     awaiting_aca |-> {"cancelled", "rejected"},
     released |-> {"closed"},
     closed |-> {}, rejected |-> {}, cancelled |-> {}]

CanTransition(v, to) ==
    /\ v.status # "absent"
    /\ to \in TaskTransitions[v.status]
    /\ to = "assigned" => \E e \in Employees : staff[e].active

Moved(v, to) == [v EXCEPT !.status = to, !.version = @ + 1]

NewTask(status, req) ==
    [status |-> status, rel |-> "not_released", req |-> req, version |-> 1]

\* Faulty: the mechanic of the entry is the employee who released.
ReleaseEntryWrongMechanic(t, people) ==
    [task |-> t, amends |-> 0,
     people |-> [people EXCEPT !["performed"] = people["aircraft_released"]]]

ReleaseEntry(t, people) == [task |-> t, amends |-> 0, people |-> people]

\* The rows sign_action adds: the event, and with the release the entry.
LogAfter(t, people, s) ==
    IF s = "aircraft_released" THEN Append(log, ReleaseEntry(t, people)) ELSE log

\* Faulty: the entry is corrected in place.
AmendedInPlace(i) == [log EXCEPT ![i].amends = i]

\* amend_logbook_entry: a new entry that repeats the amended one.
Amended(i) == Append(log, [log[i] EXCEPT !.amends = i])

-----------------------------------------------------------------------------
(* Handlers                                                                *)

CreateTask(t, status, req) ==
    /\ task[t].status = "absent"
    /\ task' = [task EXCEPT ![t] = NewTask(status, req)]
    /\ UNCHANGED <<signer, log, staff, churn>>

TransitionTask(t, to) ==
    /\ task[t].version < MaxVersion
    /\ CanTransition(task[t], to)
    /\ task' = [task EXCEPT ![t] = Moved(@, to)]
    /\ UNCHANGED <<signer, log, staff, churn>>

\* What assign_job_card of the work order module does to the linked task.
AssignTask(t) ==
    /\ task[t].version < MaxVersion
    /\ task[t].status \in {"open", "assigned"}
    /\ \E e \in Employees : staff[e].active
    /\ task' = [task EXCEPT ![t] = Moved(@, "assigned")]
    /\ UNCHANGED <<signer, log, staff, churn>>

SignAction(t, s, e, u) ==
    LET people == [signer[t] EXCEPT ![s] = e]
    IN  /\ task[t].version < MaxVersion
        /\ Len(log) < MaxLog
        /\ CanSign(task[t], signer[t], s, e, u)
        /\ signer' = [signer EXCEPT ![t] = people]
        /\ log' = LogAfter(t, people, s)
        /\ task' = [task EXCEPT ![t] = Signed(@, signer[t], s)]
        /\ UNCHANGED <<staff, churn>>

AmendLogbookEntry(i) ==
    /\ Len(log) < MaxLog
    /\ log' = Amended(i)
    /\ UNCHANGED <<task, signer, staff, churn>>

\* personnel: update_employee (status, linked user), create_qualification and
\* create_authorization, and expires_at passing for one of them.
ChangeStaff(e, rec) ==
    /\ churn < MaxChurn
    /\ staff' = [staff EXCEPT ![e] = rec]
    /\ churn' = churn + 1
    /\ UNCHANGED <<task, signer, log>>

UpdateEmployee(e) ==
    \/ \E a \in BOOLEAN : a # staff[e].active /\ ChangeStaff(e, [staff[e] EXCEPT !.active = a])
    \/ \E u \in Users \cup {Nobody} :
          u # staff[e].user /\ ChangeStaff(e, [staff[e] EXCEPT !.user = u])

GrantCredential(e) ==
    \E c \in Credentials \ staff[e].holds :
        ChangeStaff(e, [staff[e] EXCEPT !.holds = @ \cup {c}])

CredentialExpires(e) ==
    \E c \in staff[e].holds : ChangeStaff(e, [staff[e] EXCEPT !.holds = @ \ {c}])

TaskNext ==
    \/ \E t \in Tasks, st \in {"open", "assigned"}, req \in SUBSET OptionalSteps :
          CreateTask(t, st, req)
    \/ \E t \in Tasks, to \in TaskStatuses : TransitionTask(t, to)
    \/ \E t \in Tasks : AssignTask(t)
    \/ \E t \in Tasks, s \in CertSteps, e \in Employees, u \in Users :
          SignAction(t, s, e, u)

StaffNext == \E e \in Employees :
    UpdateEmployee(e) \/ GrantCredential(e) \/ CredentialExpires(e)

Next == \/ TaskNext
        \/ \E i \in DOMAIN log : AmendLogbookEntry(i)
        \/ StaffNext

Spec == Init /\ [][Next]_vars

-----------------------------------------------------------------------------
(* Properties                                                              *)

\* Every variable keeps the shape of the rows it stands for.
TypeOK == /\ task \in [Tasks -> TaskRecords]
          /\ signer \in [Tasks -> [CertSteps -> Employees \cup {Nobody}]]
          /\ log \in Seq(LogRecords)
          /\ staff \in [Employees -> StaffRecords]
          /\ churn \in Nat

\* The signatures on a task are always an initial part of its required
\* steps in the order of CERT_STEPS: nothing is skipped, nothing is signed
\* that the task does not require (sign_action, "Workflow order violation").
ChainOK(v, people) ==
    /\ Done(people) \subseteq Needed(v.req)
    /\ \A s \in Done(people) : Before(v.req, s) \subseteq Done(people)

ChainInOrder == \A t \in Tasks : ChainOK(task[t], signer[t])

\* Performer, inspector and independent inspector of a task are three
\* different employees, whatever the personnel records did meanwhile
\* (_assert_step_authority).
DutiesOK(people) ==
    \A s \in Done(people) : \A r \in SeparateFrom(s) : people[r] # people[s]

DutiesSegregated == \A t \in Tasks : DutiesOK(signer[t])

\* A task waits at the gate of the step that comes next in its chain: at
\* awaiting_inspection an inspection is what remains, at awaiting_aca only
\* ACA steps do, and a task whose next step is an inspection after the work
\* was performed is at that gate or was rejected or cancelled.
GateOK(v, people) ==
    LET gate == (Needed(v.req) \ Done(people)) \cap {"inspected", "independent_inspection"}
    IN  /\ v.status = "awaiting_inspection" => gate # {}
        /\ v.status = "awaiting_aca" => gate = {} /\ "aca_certified" \in v.req
        /\ gate # {} /\ "performed" \in Done(people) =>
              v.status \in {"awaiting_inspection", "rejected", "cancelled"}

GateMatchesChain == \A t \in Tasks : GateOK(task[t], signer[t])

\* A task carries release_status "released" exactly when its whole chain is
\* signed, and then it is released or closed.
ReleaseOK(v, people) ==
    /\ v.rel = "released" <=> Needed(v.req) \subseteq Done(people)
    /\ v.status = "released" => v.rel = "released"
    /\ v.rel = "released" => v.status \in {"released", "closed"}

ReleasedMeansCertified == \A t \in Tasks : ReleaseOK(task[t], signer[t])

Originals(t) == {i \in DOMAIN log : log[i].task = t /\ log[i].amends = 0}

\* The logbook tells the truth about releases: exactly one original entry
\* for every released task, none for any other, and every entry, amendments
\* included, names the people who signed the chain.
LogbookMatchesChain ==
    /\ \A t \in Tasks : /\ task[t].rel = "released" <=> Originals(t) # {}
                       /\ \A i, j \in Originals(t) : i = j
    /\ \A i \in DOMAIN log : /\ task[log[i].task].rel = "released"
                             /\ log[i].people = signer[log[i].task]

\* The logbook is append-only: no step changes or removes an entry
\* (docs/TECHNICAL_LOGBOOK.md, amend_logbook_entry).
LogbookAppendOnly ==
    [][Len(log) <= Len(log') /\ \A i \in DOMAIN log : log'[i] = log[i]]_vars

\* A signature, once given, is never changed, and a task that is closed,
\* rejected, cancelled or released is never signed again nor reopened.
FinalIsFinal ==
    [][\A t \in Tasks :
        /\ \A s \in Done(signer[t]) : signer'[t][s] = signer[t][s]
        /\ task[t].status \in TerminalStatuses =>
              task'[t] = task[t] /\ signer'[t] = signer[t]
        /\ task[t].status = "released" =>
              task'[t].status \in {"released", "closed"} /\ signer'[t] = signer[t]]_vars

\* Every change to a task or its chain moves the version by exactly one, so
\* a request that sends the version it read as expected_version acts on the
\* very state it read.
VersionMoves ==
    [][\A t \in Tasks :
        task'[t] # task[t] \/ signer'[t] # signer[t] =>
            task'[t].version = task[t].version + 1]_vars

\* docs/MAINTENANCE_TASKS.md: the lifecycle ends "released -> closed", and
\* "Terminal without release: rejected, cancelled".
ClosedOnlyAfterRelease == \A t \in Tasks :
    task[t].status = "closed" => task[t].rel = "released"
=============================================================================

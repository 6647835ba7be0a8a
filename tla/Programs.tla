------------------------------ MODULE Programs ------------------------------
(***************************************************************************)
(* Maintenance programs, their revisions and the MPD tasks of a revision   *)
(* (backend/app/planning/service.py).                                      *)
(*                                                                         *)
(* A new revision locks its program until its one commit; a new task locks *)
(* nothing and only relies on the unique index.  A column that may be NULL *)
(* is the set of its values.                                               *)
(***************************************************************************)
CONSTANTS Programs,  \* identifiers of maintenance programs
          Revisions, \* identifiers of program revisions
          Tasks,     \* identifiers of MPD tasks
          Codes,     \* program codes
          Labels,    \* revision numbers
          Numbers    \* task numbers

VARIABLES program,  \* maintenance_programs
          revision, \* maintenance_program_revisions
          task      \* mpd_tasks

vars == <<program, revision, task>>

AtMostOne(S) == {{}} \cup {{x} : x \in S}

ProgramRows == [code : AtMostOne(Codes), current : AtMostOne(Revisions)]
RevisionRows ==
    [status : {"absent", "draft", "active", "superseded"}, program : AtMostOne(Programs),
     number : AtMostOne(Labels)]
TaskRows == [revision : AtMostOne(Revisions), number : AtMostOne(Numbers)]

NoProgram == [code |-> {}, current |-> {}]
NoRevision == [status |-> "absent", program |-> {}, number |-> {}]
NoTask == [revision |-> {}, number |-> {}]

Init ==
    /\ program = [p \in Programs |-> NoProgram]
    /\ revision = [r \in Revisions |-> NoRevision]
    /\ task = [t \in Tasks |-> NoTask]

-----------------------------------------------------------------------------
There(p) == program[p].code # {}
RevisionsOf(p) == {r \in Revisions : revision[r].program = {p}}
Active(p) == {r \in RevisionsOf(p) : revision[r].status = "active"}

NewRevision(p, label, status) == [status |-> status, program |-> {p}, number |-> {label}]

\* uq_maint_program_rev.
LabelFree(p, label) == \A s \in RevisionsOf(p) : revision[s].number # {label}

\* The first revision is active at once.
CreateProgram(p, code, r, label) ==
    /\ ~There(p)
    /\ \A q \in Programs : program[q].code # {code}
    /\ revision[r].status = "absent"
    /\ program' = [program EXCEPT ![p] = [code |-> {code}, current |-> {r}]]
    /\ revision' = [revision EXCEPT ![r] = NewRevision(p, label, "active")]
    /\ UNCHANGED task

AddDraft(p, r, label) ==
    /\ There(p)
    /\ revision[r].status = "absent"
    /\ LabelFree(p, label)
    /\ revision' = [revision EXCEPT ![r] = NewRevision(p, label, "draft")]
    /\ UNCHANGED <<program, task>>

\* add_program_revision with activate: only the revision the program points to is
\* looked at and superseded.
AddActive(p, r, label) ==
    /\ There(p)
    /\ revision[r].status = "absent"
    /\ LabelFree(p, label)
    /\ revision' = [s \in Revisions |->
                      IF s = r THEN NewRevision(p, label, "active")
                      ELSE IF s \in program[p].current /\ revision[s].status = "active"
                        THEN [revision[s] EXCEPT !.status = "superseded"]
                        ELSE revision[s]]
    /\ program' = [program EXCEPT ![p].current = {r}]
    /\ UNCHANGED task

\* For a revision of any status; the number is unique in the revision.
CreateMpdTask(t, r, number) ==
    /\ revision[r].status # "absent"
    /\ task[t] = NoTask
    /\ \A u \in Tasks : task[u] # [revision |-> {r}, number |-> {number}]
    /\ task' = [task EXCEPT ![t] = [revision |-> {r}, number |-> {number}]]
    /\ UNCHANGED <<program, revision>>

Next ==
    \/ \E p \in Programs, r \in Revisions, label \in Labels :
          \/ \E code \in Codes : CreateProgram(p, code, r, label)
          \/ AddDraft(p, r, label)
          \/ AddActive(p, r, label)
    \/ \E t \in Tasks, r \in Revisions, number \in Numbers : CreateMpdTask(t, r, number)

Spec == Init /\ [][Next]_vars

-----------------------------------------------------------------------------
(* Properties                                                              *)

\* The variables have the types of the tables.
ProgramsTypeOK ==
    /\ program \in [Programs -> ProgramRows]
    /\ revision \in [Revisions -> RevisionRows]
    /\ task \in [Tasks -> TaskRows]

\* The revision a program points to is the one that is active, although a new one
\* supersedes no other than the one pointed to.
CurrentIsActive == \A p \in Programs : Active(p) = program[p].current

\* planning/models.py: "Immutable program revision - never overwrite".  A revision keeps
\* program and number, a superseded one never comes back, and a task keeps its revision.
ProgramsImmutable ==
    [][/\ \A r \in Revisions : revision[r].status # "absent" =>
             /\ revision'[r].program = revision[r].program
             /\ revision'[r].number = revision[r].number
             /\ revision'[r].status # revision[r].status =>
                   revision[r].status = "active" /\ revision'[r].status = "superseded"
       /\ \A t \in Tasks : task[t] # NoTask => task'[t] = task[t]]_vars

\* A task belongs to a revision that exists, and a superseded revision to a program that
\* has another one in force.
NothingOrphaned ==
    /\ \A t \in Tasks, r \in Revisions : task[t].revision = {r} => revision[r].status # "absent"
    /\ \A p \in Programs : RevisionsOf(p) # {} => Active(p) # {}

\* A program with its revisions is a document under revision control that is never closed.
Control == INSTANCE RevisionControl
             WITH Documents <- Programs,
                  owner <- [r \in Revisions |-> revision[r].program],
                  inForce <- [p \in Programs |-> Active(p)],
                  closed <- {}

ImplementsRevisionControl == Control!Spec
=============================================================================

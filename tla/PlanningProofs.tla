--------------------------- MODULE PlanningProofs ---------------------------
(***************************************************************************)
(* Theorems about the planning of maintenance, for every value of the      *)
(* constants.                                                              *)
(*                                                                         *)
(* Programs: the revision a program points to is the one in force,         *)
(* revisions are immutable, nothing is orphaned, and the handlers          *)
(* implement RevisionControl.                                              *)
(*                                                                         *)
(* Planning: the package a check points to is whole, and its parts and     *)
(* tool lines promise nothing that is not there, however many requests     *)
(* generate packages at once and wherever they stop.                       *)
(*                                                                         *)
(* Forecast: nothing overdue is missing from a forecast, and the views of  *)
(* what is due agree.                                                      *)
(***************************************************************************)
EXTENDS Programs, Planning, Forecast, FiniteSetTheorems, TLAPS

-----------------------------------------------------------------------------
(* Maintenance programs                                                    *)

\* The inductive invariant.  A program points to a revision as soon as it is there, so
\* that the handler that looks only at the revision pointed to sees all that are active.
GInv ==
    /\ ProgramsTypeOK
    /\ \A r \in Revisions :
          IF revision[r].status = "absent" THEN revision[r] = NoRevision
                                           ELSE \E p \in Programs : revision[r].program = {p}
    /\ CurrentIsActive
    /\ \A p \in Programs :
          IF There(p) THEN program[p].current # {} ELSE RevisionsOf(p) = {}
    /\ \A t \in Tasks, r \in Revisions : task[t].revision = {r} => revision[r].status # "absent"

\* No step rewrites a revision or a task.
Unchangeable ==
    /\ \A r \in Revisions : revision[r].status # "absent" =>
          /\ revision'[r].program = revision[r].program
          /\ revision'[r].number = revision[r].number
          /\ revision'[r].status # revision[r].status =>
                revision[r].status = "active" /\ revision'[r].status = "superseded"
    /\ \A t \in Tasks : task[t] # NoTask => task'[t] = task[t]

\* What is proved of every step.
Advances ==
    /\ GInv'
    /\ Unchangeable
    /\ [Control!Next]_(Control!vars)

\* The rows as the handlers find them.
LEMMA Found ==
    ASSUME GInv
    PROVE  /\ program \in [Programs -> ProgramRows]
           /\ revision \in [Revisions -> RevisionRows]
           /\ task \in [Tasks -> TaskRows]
           /\ \A r \in Revisions : revision[r].status = "absent" => revision[r].program = {}
           /\ \A p \in Programs :
                 /\ RevisionsOf(p) \subseteq Revisions
                 /\ Active(p) = program[p].current
                 /\ Active(p) \subseteq RevisionsOf(p)
                 /\ There(p) => program[p].current # {}
                 /\ ~There(p) => RevisionsOf(p) = {}
BY DEF GInv, ProgramsTypeOK, NoRevision, CurrentIsActive, RevisionsOf, Active

\* The rows with a new revision, and others out of force.
Replaced(p, r, label, status, out) ==
    [s \in Revisions |->
       IF s = r THEN NewRevision(p, label, status)
       ELSE IF s \in out THEN [revision[s] EXCEPT !.status = "superseded"]
       ELSE revision[s]]

\* A step that gives one program a revision that was absent, and may take others out of
\* force.
LEMMA OneProgram ==
    ASSUME GInv, NEW p \in Programs, NEW r \in Revisions, NEW label \in Labels,
           NEW status \in {"draft", "active"}, NEW out, out \subseteq Active(p),
           revision[r].status = "absent",
           revision' = Replaced(p, r, label, status, out),
           UNCHANGED task,
           program' \in [Programs -> ProgramRows],
           \A q \in Programs \ {p} : program'[q] = program[q],
           program'[p].code # {},
           program'[p].current # {},
           program'[p].current = (Active(p) \ out) \cup (IF status = "active" THEN {r} ELSE {})
    PROVE  /\ GInv'
           /\ Unchangeable
           /\ revision[r].program = {}
           /\ revision'[r].program = {p}
           /\ \A s \in Revisions \ {r} : revision'[s].program = revision[s].program
           /\ Active(p)' = program'[p].current
           /\ \A q \in Programs \ {p} : Active(q)' = Active(q)
<1>0. revision' = [s \in Revisions |->
                     IF s = r THEN NewRevision(p, label, status)
                     ELSE IF s \in out THEN [revision[s] EXCEPT !.status = "superseded"]
                     ELSE revision[s]]
  BY DEF Replaced
<1>1. /\ revision'[r] = NewRevision(p, label, status)
      /\ revision'[r].status = status
      /\ revision'[r].program = {p}
      /\ revision'[r].number = {label}
      /\ revision'[r] \in RevisionRows
  BY <1>0 DEF NewRevision, RevisionRows, AtMostOne
<1>2. \A s \in out : s \in Revisions /\ revision[s].status = "active"
                     /\ revision[s].program = {p} /\ s # r
  BY DEF Active, RevisionsOf
<1>3. ASSUME NEW s \in Revisions \ {r}
      PROVE  /\ revision'[s] \in RevisionRows
             /\ revision'[s].program = revision[s].program
             /\ revision'[s].number = revision[s].number
             /\ s \in out => revision'[s].status = "superseded"
             /\ s \notin out => revision'[s] = revision[s]
  <2>1. revision[s] \in RevisionRows
    BY Found
  <2>2. CASE s \in out
    <3>1. revision'[s] = [revision[s] EXCEPT !.status = "superseded"]
      BY <1>0, <2>2
    <3>2. QED  BY <2>1, <2>2, <3>1 DEF RevisionRows
  <2>3. CASE s \notin out
    <3>1. revision'[s] = revision[s]
      BY <1>0, <2>3
    <3>2. QED  BY <2>1, <2>3, <3>1
  <2>4. QED  BY <2>2, <2>3
<1>4. revision' \in [Revisions -> RevisionRows]
  <2>1. revision' = [s \in Revisions |-> revision'[s]]
    BY <1>0
  <2>2. \A s \in Revisions : revision'[s] \in RevisionRows
    BY <1>1, <1>3
  <2>3. QED  BY <2>1, <2>2
<1>5. revision[r].program = {}
  BY Found
<1>6. ProgramsTypeOK'
  BY <1>4, Found DEF ProgramsTypeOK
<1>7. Unchangeable
  BY <1>2, <1>3 DEF Unchangeable
<1>8. ASSUME NEW s \in Revisions
      PROVE  IF revision'[s].status = "absent"
               THEN revision'[s] = NoRevision
               ELSE \E q \in Programs : revision'[s].program = {q}
  <2>1. CASE s = r
    BY <1>1, <2>1
  <2>2. CASE s # r /\ s \in out
    BY <1>2, <1>3, <2>2
  <2>3. CASE s # r /\ s \notin out
    BY <1>3, <2>3 DEF GInv
  <2>4. QED  BY <2>1, <2>2, <2>3
<1>9. \A q \in Programs \ {p} : RevisionsOf(q)' = RevisionsOf(q) /\ r \notin RevisionsOf(q)
  BY <1>1, <1>3, <1>5 DEF RevisionsOf
<1>10. ASSUME NEW q \in Programs \ {p} PROVE Active(q)' = Active(q)
  <2>1. ASSUME NEW s \in RevisionsOf(q) PROVE revision'[s] = revision[s]
    <3>1. s \in Revisions /\ s # r /\ revision[s].program = {q} /\ q # p
      BY <1>9 DEF RevisionsOf
    <3>2. s \notin out
      BY <1>2, <3>1
    <3>3. QED  BY <1>3, <3>1, <3>2
  <2>2. ASSUME NEW s \in Revisions
        PROVE  s \in Active(q)' <=> s \in Active(q)
    BY <1>9, <2>1 DEF Active
  <2>3. Active(q)' \subseteq Revisions /\ Active(q) \subseteq Revisions
    BY DEF Active, RevisionsOf
  <2>4. QED  BY <2>2, <2>3
<1>11. Active(p)' = program'[p].current
  <2>1. ASSUME NEW s \in Revisions
        PROVE  s \in Active(p)' <=> s \in program'[p].current
    <3>1. CASE s = r
      <4>1. r \notin Active(p)
        BY DEF Active
      <4>2. QED  BY <1>1, <3>1, <4>1 DEF Active, RevisionsOf
    <3>2. CASE s # r /\ s \in out
      BY <1>3, <3>2 DEF Active
    <3>3. CASE s # r /\ s \notin out
      BY <1>3, <3>3 DEF Active, RevisionsOf
    <3>4. QED  BY <3>1, <3>2, <3>3
  <2>2. Active(p)' \subseteq Revisions /\ Active(p) \subseteq Revisions
    BY DEF Active, RevisionsOf
  <2>3. QED  BY <2>1, <2>2
<1>12. CurrentIsActive'
  <2>1. ASSUME NEW q \in Programs PROVE Active(q)' = program'[q].current
    BY <1>10, <1>11, Found
  <2>2. QED  BY <2>1 DEF CurrentIsActive
<1>13. ASSUME NEW q \in Programs
       PROVE  IF There(q)' THEN program'[q].current # {} ELSE RevisionsOf(q)' = {}
  <2>1. CASE q = p
    BY <2>1 DEF There
  <2>2. CASE q # p
    BY <1>9, <2>2, Found DEF There
  <2>3. QED  BY <2>1, <2>2
<1>14. ASSUME NEW t \in Tasks, NEW s \in Revisions, task'[t].revision = {s}
       PROVE  revision'[s].status # "absent"
  <2>1. revision[s].status # "absent"
    BY <1>14 DEF GInv
  <2>2. QED  BY <1>3, <2>1
<1>15. GInv'
  BY <1>6, <1>8, <1>12, <1>13, <1>14 DEF GInv
<1>16. QED  BY <1>1, <1>3, <1>5, <1>7, <1>10, <1>11, <1>15

\* A program is created with its first revision in force.
LEMMA CreateProgramAdvances ==
    ASSUME GInv, NEW p \in Programs, NEW code \in Codes, NEW r \in Revisions,
           NEW label \in Labels, CreateProgram(p, code, r, label)
    PROVE  Advances
<1> DEFINE row == [code |-> {code}, current |-> {r}]
<1>1. /\ ~There(p)
      /\ revision[r].status = "absent"
      /\ program' = [program EXCEPT ![p] = row]
      /\ revision' = [revision EXCEPT ![r] = NewRevision(p, label, "active")]
      /\ UNCHANGED task
  BY DEF CreateProgram
<1>2. row \in ProgramRows /\ row.code # {} /\ row.current = {r}
  BY DEF ProgramRows, AtMostOne
<1> HIDE DEF row
<1>3. /\ program' \in [Programs -> ProgramRows]
      /\ program'[p] = row
      /\ \A q \in Programs \ {p} : program'[q] = program[q]
  BY <1>1, <1>2, Found
<1>4. Active(p) = {}
  BY <1>1, Found
<1>5. revision' = Replaced(p, r, label, "active", {})
  BY <1>1, Found DEF Replaced
<1>6. /\ GInv'
      /\ Unchangeable
      /\ revision[r].program = {}
      /\ revision'[r].program = {p}
      /\ \A s \in Revisions \ {r} : revision'[s].program = revision[s].program
      /\ Active(p)' = {r}
      /\ \A q \in Programs \ {p} : Active(q)' = Active(q)
  <2>1. /\ {} \subseteq Active(p)
        /\ program'[p].current = (Active(p) \ {}) \cup (IF "active" = "active" THEN {r} ELSE {})
    BY <1>2, <1>3, <1>4
  <2>2. QED  BY <1>1, <1>2, <1>3, <1>5, <2>1, OneProgram
<1>7. Control!AddInForce(p, r)
  BY <1>6 DEF Control!AddInForce
<1>8. QED  BY <1>6, <1>7 DEF Advances, Control!Next

\* A draft is added beside the revision in force.
LEMMA AddDraftAdvances ==
    ASSUME GInv, NEW p \in Programs, NEW r \in Revisions, NEW label \in Labels,
           AddDraft(p, r, label)
    PROVE  Advances
<1>1. /\ There(p)
      /\ revision[r].status = "absent"
      /\ revision' = [revision EXCEPT ![r] = NewRevision(p, label, "draft")]
      /\ UNCHANGED <<program, task>>
  BY DEF AddDraft
<1>2. revision' = Replaced(p, r, label, "draft", {})
  BY <1>1, Found DEF Replaced
<1>3. /\ program'[p].code # {}
      /\ program'[p].current # {}
      /\ program'[p].current = (Active(p) \ {}) \cup (IF "draft" = "active" THEN {r} ELSE {})
      /\ program' \in [Programs -> ProgramRows]
      /\ \A q \in Programs \ {p} : program'[q] = program[q]
      /\ {} \subseteq Active(p)
  BY <1>1, Found DEF There
<1>4. /\ GInv'
      /\ Unchangeable
      /\ revision[r].program = {}
      /\ revision'[r].program = {p}
      /\ \A s \in Revisions \ {r} : revision'[s].program = revision[s].program
      /\ Active(p)' = program'[p].current
      /\ \A q \in Programs \ {p} : Active(q)' = Active(q)
  BY <1>1, <1>2, <1>3, OneProgram
<1>5. \A q \in Programs : Active(q)' = Active(q)
  BY <1>1, <1>4, Found
<1>6. Control!Add(p, r)
  BY <1>4, <1>5 DEF Control!Add
<1>7. QED  BY <1>4, <1>6 DEF Advances, Control!Next

\* A revision that is active at once takes the place of the one pointed to, which is all
\* that was active.
LEMMA AddActiveAdvances ==
    ASSUME GInv, NEW p \in Programs, NEW r \in Revisions, NEW label \in Labels,
           AddActive(p, r, label)
    PROVE  Advances
<1>1. /\ There(p)
      /\ revision[r].status = "absent"
      /\ program' = [program EXCEPT ![p].current = {r}]
      /\ UNCHANGED task
  BY DEF AddActive
<1>2. revision' = Replaced(p, r, label, "active", Active(p))
  <2>1. \A s \in Revisions : s \in program[p].current /\ revision[s].status = "active"
                             <=> s \in Active(p)
    BY Found DEF Active
  <2>2. revision' = [s \in Revisions |->
                       IF s = r THEN NewRevision(p, label, "active")
                       ELSE IF s \in program[p].current /\ revision[s].status = "active"
                         THEN [revision[s] EXCEPT !.status = "superseded"]
                         ELSE revision[s]]
    BY DEF AddActive
  <2>3. QED  BY <2>1, <2>2 DEF Replaced
<1>3. /\ program' \in [Programs -> ProgramRows]
      /\ program'[p].code # {}
      /\ program'[p].current = {r}
      /\ \A q \in Programs \ {p} : program'[q] = program[q]
  BY ZenonT(60), <1>1, Found DEF There, ProgramRows, AtMostOne
<1>4. /\ program'[p].current = (Active(p) \ Active(p)) \cup (IF "active" = "active" THEN {r} ELSE {})
      /\ program'[p].current # {}
      /\ Active(p) \subseteq Active(p)
  BY <1>3
<1>5. /\ GInv'
      /\ Unchangeable
      /\ revision[r].program = {}
      /\ revision'[r].program = {p}
      /\ \A s \in Revisions \ {r} : revision'[s].program = revision[s].program
      /\ Active(p)' = program'[p].current
      /\ \A q \in Programs \ {p} : Active(q)' = Active(q)
  BY ZenonT(60), <1>1, <1>2, <1>3, <1>4, OneProgram
<1>6. Control!AddInForce(p, r)
  BY <1>3, <1>5 DEF Control!AddInForce
<1>7. QED  BY <1>5, <1>6 DEF Advances, Control!Next

\* A task concerns neither a program nor a revision.
LEMMA CreateMpdTaskAdvances ==
    ASSUME GInv, NEW t \in Tasks, NEW r \in Revisions, NEW number \in Numbers,
           CreateMpdTask(t, r, number)
    PROVE  Advances
<1> DEFINE row == [revision |-> {r}, number |-> {number}]
<1>1. /\ revision[r].status # "absent"
      /\ task[t] = NoTask
      /\ task' = [task EXCEPT ![t] = row]
      /\ UNCHANGED <<program, revision>>
  BY DEF CreateMpdTask
<1>2. row \in TaskRows /\ row.revision = {r}
  BY DEF TaskRows, AtMostOne
<1> HIDE DEF row
<1>3. ProgramsTypeOK' /\ task'[t] = row /\ \A u \in Tasks \ {t} : task'[u] = task[u]
  BY <1>1, <1>2, Found DEF ProgramsTypeOK
<1>4. \A p \in Programs : /\ Active(p)' = Active(p)
                          /\ There(p)' = There(p)
                          /\ RevisionsOf(p)' = RevisionsOf(p)
  BY <1>1 DEF Active, RevisionsOf, There
<1>5. \A u \in Tasks, s \in Revisions : task'[u].revision = {s} => revision'[s].status # "absent"
  BY <1>1, <1>2, <1>3 DEF GInv
<1>6. CurrentIsActive'
  BY <1>1, <1>4, Found DEF CurrentIsActive
<1>7. GInv'
  BY <1>1, <1>3, <1>4, <1>5, <1>6 DEF GInv
<1>8. Unchangeable
  BY <1>1, <1>3 DEF Unchangeable
<1>9. UNCHANGED Control!vars
  BY <1>1, <1>4 DEF Control!vars
<1>10. QED  BY <1>7, <1>8, <1>9 DEF Advances

-----------------------------------------------------------------------------
\* Nothing is there at first.
LEMMA GStart == Init => GInv /\ Control!Init
<1> SUFFICES ASSUME Init PROVE GInv /\ Control!Init
  OBVIOUS
<1>1. NoRevision \in RevisionRows /\ NoProgram \in ProgramRows /\ NoTask \in TaskRows
  BY DEF NoRevision, RevisionRows, NoProgram, ProgramRows, NoTask, TaskRows, AtMostOne
<1>2. /\ \A r \in Revisions : revision[r] = NoRevision /\ revision[r].program = {}
                              /\ revision[r].status = "absent"
      /\ \A t \in Tasks : task[t].revision = {}
      /\ \A p \in Programs : program[p].code = {} /\ program[p].current = {}
  BY DEF Init, NoRevision, NoTask, NoProgram
<1>3. \A p \in Programs : RevisionsOf(p) = {} /\ Active(p) = {} /\ ~There(p)
  BY Zenon, <1>2 DEF RevisionsOf, Active, There
<1>4. ProgramsTypeOK
  BY <1>1 DEF Init, ProgramsTypeOK
<1>5. GInv
  BY <1>2, <1>3, <1>4 DEF GInv, CurrentIsActive
<1>6. Control!Init
  BY <1>2, <1>3 DEF Control!Init
<1>7. QED  BY <1>5, <1>6

\* Every step advances.
LEMMA GStep == GInv /\ [Next]_vars => Advances
<1> SUFFICES ASSUME GInv, [Next]_vars PROVE Advances
  OBVIOUS
<1>1. CASE Next
  BY <1>1, CreateProgramAdvances, AddDraftAdvances, AddActiveAdvances, CreateMpdTaskAdvances
     DEF Next
<1>2. CASE UNCHANGED vars
  <2>1. UNCHANGED <<program, revision, task>>
    BY <1>2 DEF vars
  <2>2. \A p \in Programs : /\ Active(p)' = Active(p)
                            /\ There(p)' = There(p)
                            /\ RevisionsOf(p)' = RevisionsOf(p)
    BY <2>1 DEF Active, RevisionsOf, There
  <2>3. GInv'
    BY <2>1, <2>2 DEF GInv, ProgramsTypeOK, CurrentIsActive
  <2>4. UNCHANGED Control!vars
    BY <2>1, <2>2 DEF Control!vars
  <2>5. QED  BY <2>1, <2>3, <2>4 DEF Advances, Unchangeable
<1>3. QED  BY <1>1, <1>2

\* Every reachable state satisfies the inductive invariant.
LEMMA GAlways == Spec => []GInv
<1>1. GInv /\ [Next]_vars => GInv'
  BY GStep DEF Advances
<1>2. QED  BY GStart, <1>1, PTL DEF Spec

\* The tables of programs, revisions and tasks keep their types.
THEOREM ProgramTypes == Spec => []ProgramsTypeOK
<1>1. GInv => ProgramsTypeOK
  BY DEF GInv
<1>2. QED  BY GAlways, <1>1, PTL

\* The revision a program points to is the one and only active one.
THEOREM ProgramCurrent == Spec => []CurrentIsActive
<1>1. GInv => CurrentIsActive
  BY DEF GInv
<1>2. QED  BY GAlways, <1>1, PTL

\* No task without its revision, no revised program without a revision in force.
THEOREM ProgramOrphans == Spec => []NothingOrphaned
<1>1. GInv => NothingOrphaned
  <2> SUFFICES ASSUME GInv PROVE NothingOrphaned
    OBVIOUS
  <2>1. \A p \in Programs : RevisionsOf(p) # {} => Active(p) # {}
    BY Found
  <2>2. QED  BY <2>1 DEF GInv, NothingOrphaned
<1>2. QED  BY GAlways, <1>1, PTL

\* planning/models.py: a program revision is immutable.
THEOREM ProgramImmutability == Spec => ProgramsImmutable
<1>1. GInv /\ [Next]_vars =>
        [/\ \A r \in Revisions : revision[r].status # "absent" =>
               /\ revision'[r].program = revision[r].program
               /\ revision'[r].number = revision[r].number
               /\ revision'[r].status # revision[r].status =>
                     revision[r].status = "active" /\ revision'[r].status = "superseded"
         /\ \A t \in Tasks : task[t] # NoTask => task'[t] = task[t]]_vars
  BY GStep DEF Advances, Unchangeable
<1>2. QED  BY GAlways, <1>1, PTL DEF Spec, ProgramsImmutable

\* The handlers of planning/service.py implement revision control, without ever closing a
\* program.
THEOREM ProgramsControlled == Spec => ImplementsRevisionControl
<1>1. GInv /\ [Next]_vars => [Control!Next]_(Control!vars)
  BY GStep DEF Advances
<1>2. QED  BY GStart, GAlways, <1>1, PTL DEF Spec, ImplementsRevisionControl, Control!Spec

-----------------------------------------------------------------------------
(* The generation of work packages                                         *)

\* A job that has its package; a part of the master; a tool booked for a package.
Works(g) == job[g].step \notin {"idle", "package"}
Known(t) == PartOf[t] \in KnownParts
Reserved(p, t) == \E b \in bookings : b.tool = ToolOf[t] /\ b.package = p

\* The types of the tables, the shelf aside, whose bound needs finitely many lines.
RowTypes ==
    /\ CribTypeOK
    /\ check \in [Checks -> CheckRows]
    /\ package \in [Packages -> PackageRows]
    /\ promised \subseteq Packages \X MpdTasks
    /\ wanted \subseteq Packages \X MpdTasks
    /\ job \in [Planners -> Jobs]

\* The package of a job: made from its check, unfinished, with lines and cards of its
\* tasks only.
OwnPackage(g) ==
    LET row == package[job[g].package]
        tasks == job[g].tasks
    IN /\ job[g].check \in Checks /\ job[g].package \in Packages
       /\ row.source = job[g].check /\ ~row.hangar
       /\ job[g].step # "order" => row.order
       /\ job[g].step \in {"order", "general"} => tasks = {}
       /\ row.cards \subseteq tasks /\ job[g].added \subseteq tasks
       /\ \A t \in MpdTasks :
             /\ row.parts[t] # "none" => t \in PartLines(tasks)
             /\ row.tools[t] # "none" => t \in ToolLines(tasks)

\* What the material planning has put on the lines in the session.
OwnParts(g) ==
    /\ job[g].step \in {"tools", "finish"} =>
          \A t \in PartLines(job[g].tasks) : job[g].parts[t] # "none"
    /\ \A t \in MpdTasks :
          /\ job[g].parts[t] = "ok" => <<job[g].package, t>> \in promised
          /\ job[g].parts[t] = "purchase_required" /\ Known(t) => <<job[g].package, t>> \in wanted

\* The tool planning under way, and what it has left behind once it has committed.
OwnTools(g) ==
    LET lines == ToolLines(job[g].tasks)
    IN /\ job[g].step = "tools" =>
             /\ run[g].package = job[g].package
             /\ run[g].todo \subseteq lines /\ run[g].claim \in run[g].todo \cup {NoLine}
             /\ \A l \in Lines : run[g].result[l] # "none" => l \in lines
             /\ \A l \in lines : l \in run[g].todo \/ run[g].result[l] # "none"
       /\ job[g].step = "finish" =>
             \A l \in lines :
                /\ run[g].result[l] # "none"
                /\ run[g].result[l] = "reserved" => Reserved(job[g].package, l)

JobFits(g) ==
    /\ job[g].step = "package" => job[g] = [Idle EXCEPT !.step = "package", !.check = job[g].check]
                                  /\ job[g].check \in Checks
    /\ Works(g) => OwnPackage(g) /\ OwnParts(g) /\ OwnTools(g)

\* A row without a source is blank, and promises only what there is.
RowFits(p) ==
    /\ package[p].source = NoCheck => package[p] = NoPackageRow
    /\ \A t \in MpdTasks :
          /\ package[p].parts[t] = "ok" => <<p, t>> \in promised
          /\ package[p].parts[t] = "purchase_required" /\ Known(t) => <<p, t>> \in wanted
          /\ package[p].hangar /\ package[p].tools[t] = "reserved" => Reserved(p, t)

\* No two jobs have one package.
Apart ==
    \A g, h \in Planners : Works(g) /\ Works(h) /\ job[g].package = job[h].package => g = h

GenerationInv ==
    /\ RowTypes
    /\ \A g \in Planners : JobFits(g)
    /\ Apart
    /\ \A p \in Packages : RowFits(p)
    /\ LinkedPackageIsWhole

\* What other steps add to the promises stays.
Grows ==
    /\ promised \subseteq promised' /\ wanted \subseteq wanted'
    /\ \A p \in Packages, t \in MpdTasks : Reserved(p, t) => Reserved(p, t)'

\* A step of one job, on one package, that no other job has.
OneJob(g, p) ==
    /\ Grows
    /\ \A h \in Planners \ {g} : job'[h] = job[h] /\ run'[h] = run[h]
    /\ \A h \in Planners \ {g} : Works(h) => job[h].package # p
    /\ \A q \in Packages \ {p} : package'[q] = package[q]
    /\ Works(g)' => job'[g].package = p

\* A job whose row and run stay still fits.
LEMMA FitKept ==
    ASSUME RowTypes, Grows, NEW g \in Planners, JobFits(g), job'[g] = job[g], run'[g] = run[g],
           Works(g) => package'[job[g].package] = package[job[g].package]
    PROVE  JobFits(g)'
<1>1. CASE Works(g)
  <2>1. OwnPackage(g)'
    BY <1>1 DEF JobFits, OwnPackage, PartLines, ToolLines
  <2>2. OwnParts(g)'
    BY <1>1 DEF JobFits, OwnParts, PartLines, Known, Grows
  <2>3. OwnTools(g)'
    <3>1. \A l \in ToolLines(job[g].tasks) :
             Reserved(job[g].package, l) => Reserved(job[g].package, l)'
      BY <1>1 DEF JobFits, OwnPackage, RowTypes, Jobs, ToolLines, Grows
    <3> QED BY <1>1, <3>1 DEF JobFits, OwnTools, ToolLines, Reserved
  <2> QED BY <1>1, <2>1, <2>2, <2>3 DEF JobFits, Works
<1>2. CASE ~Works(g)
  BY <1>2 DEF JobFits, Works, Idle, NoneYet
<1> QED BY <1>1, <1>2

\* A row that stays still fits.
LEMMA RowKept ==
    ASSUME Grows, NEW p \in Packages, RowFits(p), package'[p] = package[p]
    PROVE  RowFits(p)'
BY DEF RowFits, Grows, Known, NoPackageRow, NoneYet

\* The invariant after a step of one job.
LEMMA OneJobFits ==
    ASSUME GenerationInv, RowTypes', NEW g \in Planners, NEW p, OneJob(g, p), JobFits(g)',
           p \in Packages => RowFits(p)', LinkedPackageIsWhole'
    PROVE  GenerationInv'
<1>1. ASSUME NEW h \in Planners
      PROVE  JobFits(h)'
  <2>1. CASE h = g
    BY <2>1
  <2>2. CASE h # g
    <3>1. Works(h) => package'[job[h].package] = package[job[h].package]
      BY Zenon, <2>2 DEF GenerationInv, JobFits, OwnPackage, OneJob
    <3> QED BY Zenon, <2>2, <3>1, FitKept DEF GenerationInv, OneJob
  <2> QED BY <2>1, <2>2
<1>2. Apart'
  <2> SUFFICES ASSUME NEW h \in Planners, NEW k \in Planners, Works(h)', Works(k)',
                      job'[h].package = job'[k].package
               PROVE  h = k
    BY DEF Apart
  <2>1. CASE h # g /\ k # g
    BY <2>1 DEF GenerationInv, Apart, OneJob, Works
  <2>2. CASE h = g /\ k # g
    BY <2>2 DEF OneJob, Works
  <2>3. CASE h # g /\ k = g
    BY <2>3 DEF OneJob, Works
  <2> QED BY <2>1, <2>2, <2>3
<1>3. ASSUME NEW q \in Packages
      PROVE  RowFits(q)'
  BY RowKept DEF GenerationInv, OneJob
<1> QED BY <1>1, <1>2, <1>3 DEF GenerationInv

\* The links stay whole when a package that nothing points to changes.
LEMMA LinksKept ==
    ASSUME GenerationInv, NEW p, check' = check,
           \A q \in Packages \ {p} : package'[q] = package[q],
           p \in Packages => package'[p] = package[p] \/ ~package[p].hangar
    PROVE  LinkedPackageIsWhole'
<1>1. ASSUME NEW c \in Checks, check[c].generated # NoPackage
      PROVE  package'[check[c].generated] = package[check[c].generated]
  BY <1>1 DEF GenerationInv, RowTypes, CheckRows, LinkedPackageIsWhole
<1> QED BY <1>1 DEF GenerationInv, LinkedPackageIsWhole

\* The handlers of the crib: the tables keep their types, and a reservation stays with its
\* tool and its package.
LEMMA CribKeeps ==
    ASSUME CribTypeOK, CribNext
    PROVE  /\ CribTypeOK' /\ run' = run
           /\ \A p \in Packages, t \in MpdTasks : Reserved(p, t) => Reserved(p, t)'
<1> USE CribAssumption DEF CribTypeOK
<1>1. ASSUME NEW t \in Tools, NEW required \in BOOLEAN, NEW due \in Days \cup {NoDate},
             CreateTool(t, required, due)
      PROVE  CribTypeOK' /\ run' = run /\ bookings' = bookings
  BY <1>1 DEF CreateTool, ToolRows, ToolStatuses
<1>2. ASSUME NEW t \in Tools, NEW status \in ToolStatuses, NEW required \in BOOLEAN,
             NEW due \in Days \cup {NoDate}, UpdateTool(t, status, required, due)
      PROVE  CribTypeOK' /\ run' = run /\ bookings' = bookings
  BY <1>2 DEF UpdateTool, ToolRows
<1>3. ASSUME NEW t \in Tools, NEW due \in Days, CalibrateTool(t, due)
      PROVE  CribTypeOK' /\ run' = run /\ bookings' = bookings
  <2>1. tool'[t] \in ToolRows
    BY <1>3 DEF CalibrateTool, ToolRows, ToolStatuses
  <2> QED BY <1>3, <2>1 DEF CalibrateTool
<1>4. ASSUME NEW t \in Tools, NEW status \in ToolStatuses
      PROVE  WithStatus(t, status) \in [Tools -> ToolRows]
  BY <1>4 DEF WithStatus, ToolRows
<1>5. ASSUME NEW t \in Tools, NEW owner \in Packages \cup {Nobody}, ReserveTool(t, owner)
      PROVE  CribTypeOK' /\ run' = run /\ bookings \subseteq bookings'
  <2>1. Booking(t, owner) \in BookingRows
    BY DEF Booking, BookingRows
  <2>2. WithStatus(t, "reserved") \in [Tools -> ToolRows]
    BY <1>4 DEF ToolStatuses
  <2> QED BY <1>5, <2>1, <2>2 DEF ReserveTool
<1>6. ASSUME NEW t \in Tools, IssueTool(t)
      PROVE  /\ CribTypeOK' /\ run' = run
             /\ \A p \in Packages, k \in MpdTasks : Reserved(p, k) => Reserved(p, k)'
  <2>1. WithStatus(t, "issued") \in [Tools -> ToolRows]
    BY <1>4 DEF ToolStatuses
  <2>2. loans' \in [Tools -> 0 .. MaxLoans]
    BY <1>6 DEF IssueTool
  <2>3. \A b \in OpenBookings(t) : [b EXCEPT !.status = "issued"] \in BookingRows
    BY DEF OpenBookings, BookingRows
  <2>4. bookings' \subseteq BookingRows
    BY <1>6, <2>3 DEF IssueTool
  <2>5. ASSUME NEW p \in Packages, NEW k \in MpdTasks, Reserved(p, k)
        PROVE  Reserved(p, k)'
    <3>1. PICK b \in bookings : b.tool = ToolOf[k] /\ b.package = p
      BY <2>5 DEF Reserved
    <3>2. CASE b \notin OpenBookings(t)
      <4>1. b \in bookings'
        BY <1>6, <3>2 DEF IssueTool
      <4> QED BY <3>1, <4>1 DEF Reserved
    <3>3. CASE b \in OpenBookings(t)
      <4> DEFINE issued == [b EXCEPT !.status = "issued"]
      <4>1. issued \in bookings'
        BY <1>6, <3>3 DEF IssueTool
      <4>2. issued.tool = b.tool /\ issued.package = b.package
        BY DEF BookingRows
      <4> QED BY <3>1, <4>1, <4>2 DEF Reserved
    <3> QED BY <3>2, <3>3
  <2> QED BY <1>6, <2>1, <2>2, <2>4, <2>5 DEF IssueTool
<1>7. ASSUME NEW t \in Tools, ReturnTool(t)
      PROVE  CribTypeOK' /\ run' = run /\ bookings' = bookings
  <2>1. loans' \in [Tools -> 0 .. MaxLoans]
    BY <1>7 DEF ReturnTool
  <2>2. tool' \in [Tools -> ToolRows]
    BY <1>7, <1>4 DEF ReturnTool, ToolStatuses
  <2> QED BY <1>7, <2>1, <2>2 DEF ReturnTool
<1>8. ASSUME NEW t \in Tools, ReportLostTool(t)
      PROVE  CribTypeOK' /\ run' = run /\ bookings' = bookings
  BY <1>8, <1>4 DEF ReportLostTool, ToolStatuses
<1>9. ASSUME DayPasses
      PROVE  CribTypeOK' /\ run' = run /\ bookings' = bookings
  BY <1>9 DEF DayPasses, Days
<1> QED BY <1>1, <1>2, <1>3, <1>5, <1>6, <1>7, <1>8, <1>9 DEF CribNext, Reserved

\* A step beside the jobs keeps the invariant of the planning.
LEMMA BesideKeeps ==
    ASSUME GenerationInv, CribTypeOK', run' = run,
           UNCHANGED <<check, package, promised, wanted, job>>,
           \A p \in Packages, t \in MpdTasks : Reserved(p, t) => Reserved(p, t)'
    PROVE  GenerationInv'
<1>1. RowTypes' /\ Grows
  BY DEF GenerationInv, RowTypes, Grows
<1>2. \A g \in Planners : JobFits(g)'
  BY <1>1, FitKept DEF GenerationInv
<1>3. \A p \in Packages : RowFits(p)'
  BY <1>1, RowKept DEF GenerationInv
<1>4. Apart' /\ LinkedPackageIsWhole'
  BY DEF GenerationInv, Apart, Works, LinkedPackageIsWhole
<1> QED BY <1>1, <1>2, <1>3, <1>4 DEF GenerationInv

LEMMA CribStepKeeps ==
    ASSUME GenerationInv, CribNext, UNCHANGED planVars
    PROVE  GenerationInv'
BY CribKeeps, BesideKeeps DEF GenerationInv, RowTypes, planVars

LEMMA ShelfKeeps ==
    ASSUME GenerationInv, NEW q \in KnownParts, NEW n \in 0 .. MaxShelf, ShelfChanges(q, n)
    PROVE  GenerationInv'
<1>1. CribTypeOK'
  BY DEF GenerationInv, RowTypes, ShelfChanges, cribVars, CribTypeOK
<1>2. \A p \in Packages, t \in MpdTasks : Reserved(p, t) => Reserved(p, t)'
  BY DEF ShelfChanges, cribVars, Reserved
<1> QED BY <1>1, <1>2, BesideKeeps DEF ShelfChanges, cribVars

\* A commit with the lines added so far: of the tasks of the job, parts short, tools
\* reserved.
LEMMA AddedLines ==
    ASSUME RowTypes, NEW g \in Planners, NEW row \in PackageRows
    PROVE  /\ WithAdded(row, g) \in PackageRows
           /\ \A t \in MpdTasks :
                 /\ WithAdded(row, g).parts[t] = IF t \in PartLines(job[g].added)
                                                   THEN "shortage" ELSE row.parts[t]
                 /\ WithAdded(row, g).tools[t] = IF t \in ToolLines(job[g].added)
                                                   THEN "reserved" ELSE row.tools[t]
           /\ WithAdded(row, g).source = row.source /\ WithAdded(row, g).order = row.order
           /\ WithAdded(row, g).cards = row.cards /\ WithAdded(row, g).hangar = row.hangar
           /\ WithAdded(row, g).general = row.general
<1> DEFINE T == job[g].added
           parts == Merged(row.parts, PartLines(T), InitialParts(T))
           tools == Merged(row.tools, ToolLines(T), InitialTools(T))
<1>1. parts \in [MpdTasks -> PartResults] /\ tools \in [MpdTasks -> LineResults]
  BY DEF Merged, InitialParts, InitialTools, PackageRows, PartResults, LineResults
<1>2. \A t \in MpdTasks : /\ parts[t] = IF t \in PartLines(T) THEN "shortage" ELSE row.parts[t]
                          /\ tools[t] = IF t \in ToolLines(T) THEN "reserved" ELSE row.tools[t]
  BY DEF Merged, InitialParts, InitialTools
<1>3. WithAdded(row, g) = [row EXCEPT !.parts = parts, !.tools = tools]
  BY DEF WithAdded, PackageRows
<1> HIDE DEF parts, tools
<1> QED BY <1>1, <1>2, <1>3 DEF PackageRows

\* The results of the material planning on the rows.
LEMMA PartLinesPut ==
    ASSUME RowTypes, NEW g \in Planners, NEW row \in PackageRows
    PROVE  /\ WithParts(row, g) \in PackageRows
           /\ \A t \in MpdTasks :
                 /\ WithParts(row, g).parts[t] =
                       IF t \in PartLines(job[g].tasks) THEN job[g].parts[t]
                       ELSE WithAdded(row, g).parts[t]
                 /\ WithParts(row, g).tools[t] = WithAdded(row, g).tools[t]
           /\ WithParts(row, g).source = row.source /\ WithParts(row, g).order = row.order
           /\ WithParts(row, g).cards = row.cards /\ WithParts(row, g).hangar = row.hangar
           /\ WithParts(row, g).general = row.general
<1> DEFINE added == WithAdded(row, g)
           parts == Merged(added.parts, PartLines(job[g].tasks), job[g].parts)
<1>1. /\ added \in PackageRows
      /\ added.source = row.source /\ added.order = row.order
      /\ added.cards = row.cards /\ added.hangar = row.hangar /\ added.general = row.general
  BY AddedLines
<1>2. WithParts(row, g) = [added EXCEPT !.parts = parts]
  BY <1>1 DEF WithParts, PackageRows
<1>3. job[g].parts \in [MpdTasks -> PartResults]
  BY DEF RowTypes, Jobs
<1> HIDE DEF added
<1>4. parts \in [MpdTasks -> PartResults]
  BY <1>1, <1>3 DEF Merged, PackageRows
<1>5. \A t \in MpdTasks : parts[t] = IF t \in PartLines(job[g].tasks) THEN job[g].parts[t]
                                     ELSE added.parts[t]
  BY DEF Merged
<1> HIDE DEF parts
<1>6. WithParts(row, g) \in PackageRows
  BY <1>1, <1>2, <1>4 DEF PackageRows
<1>7. WithParts(row, g).parts = parts /\ WithParts(row, g).tools = added.tools
  BY <1>1, <1>2 DEF PackageRows
<1>8. /\ WithParts(row, g).source = row.source /\ WithParts(row, g).order = row.order
      /\ WithParts(row, g).cards = row.cards /\ WithParts(row, g).hangar = row.hangar
      /\ WithParts(row, g).general = row.general
  BY <1>1, <1>2 DEF PackageRows
<1> QED BY <1>5, <1>6, <1>7, <1>8 DEF added

\* The results of the tool planning on the rows.
LEMMA ToolLinesPut ==
    ASSUME RowTypes, NEW g \in Planners, NEW row \in PackageRows
    PROVE  /\ WithTools(row, g) \in PackageRows
           /\ \A t \in MpdTasks :
                 /\ WithTools(row, g).parts[t] = row.parts[t]
                 /\ WithTools(row, g).tools[t] =
                       IF t \in ToolLines(job[g].tasks) THEN run[g].result[t] ELSE row.tools[t]
           /\ WithTools(row, g).source = row.source /\ WithTools(row, g).order = row.order
           /\ WithTools(row, g).cards = row.cards /\ WithTools(row, g).hangar = row.hangar
           /\ WithTools(row, g).general = row.general
<1> DEFINE tools == Merged(row.tools, ToolLines(job[g].tasks), run[g].result)
<1>1. run[g].result \in [MpdTasks -> LineResults]
  BY DEF RowTypes, CribTypeOK, Runs, MpdTasks
<1>2. tools \in [MpdTasks -> LineResults]
  BY <1>1 DEF Merged, PackageRows
<1>3. \A t \in MpdTasks : tools[t] = IF t \in ToolLines(job[g].tasks) THEN run[g].result[t]
                                     ELSE row.tools[t]
  BY DEF Merged
<1>4. WithTools(row, g) = [row EXCEPT !.tools = tools]
  BY DEF WithTools, PackageRows
<1> HIDE DEF tools
<1> QED BY <1>2, <1>3, <1>4 DEF PackageRows

\* The steps of a job, one by one.
LEMMA IdleTyped == Idle \in Jobs /\ Idle.step = "idle" /\ NoRun \in Runs
BY CribAssumption, PlanningAssumption
   DEF Idle, Jobs, Steps, NoneYet, PartResults, NoRun, Runs, LineResults

LEMMA BlankTyped ==
    /\ NoPackageRow \in PackageRows /\ NoPackageRow.source = NoCheck
    /\ NoPackageRow.parts = NoneYet /\ NoPackageRow.tools = NoneYet
    /\ NoPackageRow.cards = {} /\ ~NoPackageRow.hangar
<1>1. NoneYet \in [MpdTasks -> PartResults] /\ NoneYet \in [MpdTasks -> LineResults]
  BY DEF NoneYet, PartResults, LineResults
<1> QED BY <1>1 DEF NoPackageRow, PackageRows

LEMMA BeginKeeps ==
    ASSUME GenerationInv, NEW g \in Planners, NEW c \in Checks, BeginGenerate(g, c)
    PROVE  GenerationInv'
<1> DEFINE began == [Idle EXCEPT !.step = "package", !.check = c]
<1>1. began \in Jobs /\ began.step = "package" /\ began.check = c
  BY IdleTyped DEF Jobs, Steps
<1>2. job' = [job EXCEPT ![g] = began]
  BY DEF BeginGenerate
<1>3. job'[g] = [Idle EXCEPT !.step = "package", !.check = job'[g].check] /\ ~Works(g)'
  BY <1>1, <1>2 DEF GenerationInv, RowTypes, Works
<1> HIDE DEF began
<1>4. RowTypes'
  BY <1>1, <1>2 DEF GenerationInv, RowTypes, CribTypeOK, BeginGenerate, cribVars
<1>5. JobFits(g)'
  BY Zenon, <1>1, <1>2, <1>3 DEF GenerationInv, RowTypes, JobFits
<1>6. OneJob(g, NoPackage)
  <2>1. Grows
    BY Zenon DEF Grows, Reserved, BeginGenerate, cribVars
  <2>2. \A h \in Planners : Works(h) => job[h].package # NoPackage
    BY ZenonT(60), PlanningAssumption DEF GenerationInv, JobFits, OwnPackage
  <2> QED BY <1>2, <1>3, <2>1, <2>2 DEF OneJob, BeginGenerate, cribVars
<1>7. LinkedPackageIsWhole'
  BY DEF GenerationInv, BeginGenerate, LinkedPackageIsWhole
<1> QED BY <1>4, <1>5, <1>6, <1>7, OneJobFits, PlanningAssumption

LEMMA StopKeeps ==
    ASSUME GenerationInv, NEW g \in Planners, Stop(g)
    PROVE  GenerationInv'
<1>1. job' = [job EXCEPT ![g] = Idle] /\ run' = [run EXCEPT ![g] = NoRun]
  BY DEF Stop, DropRun
<1>2. RowTypes'
  BY <1>1, IdleTyped DEF GenerationInv, RowTypes, CribTypeOK, Stop, DropRun, Unheld
<1>3. JobFits(g)' /\ ~Works(g)'
  BY Zenon, <1>1, IdleTyped DEF GenerationInv, RowTypes, JobFits, Works
<1>4. OneJob(g, NoPackage)
  <2>1. Grows
    BY DEF Grows, Reserved, Stop, DropRun
  <2>2. \A h \in Planners : Works(h) => job[h].package # NoPackage
    BY ZenonT(60), PlanningAssumption DEF GenerationInv, JobFits, OwnPackage
  <2> QED BY <1>1, <1>3, <2>1, <2>2 DEF OneJob, Stop
<1>5. LinkedPackageIsWhole'
  BY DEF GenerationInv, Stop, LinkedPackageIsWhole
<1> QED BY <1>2, <1>3, <1>4, <1>5, OneJobFits, PlanningAssumption

LEMMA MakePackageKeeps ==
    ASSUME GenerationInv, NEW g \in Planners, NEW p \in Packages, MakePackage(g, p)
    PROVE  GenerationInv'
<1>1. /\ job[g].step = "package" /\ job[g].check \in Checks
      /\ job[g].tasks = {} /\ job[g].added = {} /\ job[g].parts = NoneYet
      /\ package[p] = NoPackageRow /\ package[p].source = NoCheck
  BY ZenonT(60), PlanningAssumption
     DEF GenerationInv, JobFits, MakePackage, At, Fresh, Idle, RowFits
<1>2. /\ job'[g] = [job[g] EXCEPT !.step = "order", !.package = p]
      /\ job' = [job EXCEPT ![g] = job'[g]]
  BY DEF MakePackage, GenerationInv, RowTypes
<1>3. /\ job'[g] \in Jobs /\ job'[g].step = "order" /\ job'[g].package = p
      /\ job'[g].check = job[g].check /\ job'[g].tasks = {} /\ job'[g].added = {}
      /\ job'[g].parts = NoneYet
  BY ZenonT(60), <1>1, <1>2 DEF GenerationInv, RowTypes, Jobs, Steps
<1>4. /\ package' = [package EXCEPT ![p] = package'[p]]
      /\ package'[p] = [NoPackageRow EXCEPT !.source = job[g].check]
  BY <1>1 DEF MakePackage, GenerationInv, RowTypes
<1>5. /\ package'[p] \in PackageRows
      /\ package'[p].source = job[g].check /\ ~package'[p].hangar
      /\ package'[p].parts = NoneYet /\ package'[p].tools = NoneYet /\ package'[p].cards = {}
  BY <1>1, <1>4, BlankTyped DEF PackageRows
<1>6. RowTypes'
  BY <1>2, <1>3, <1>4, <1>5 DEF GenerationInv, RowTypes, CribTypeOK, MakePackage, cribVars
<1>7. JobFits(g)' /\ Works(g)'
  BY <1>1, <1>3, <1>5 DEF JobFits, Works, OwnPackage, OwnParts, OwnTools, NoneYet
<1>8. RowFits(p)'
  BY <1>1, <1>5, PlanningAssumption DEF RowFits, NoneYet
<1>9. OneJob(g, p)
  <2>1. Grows
    BY Zenon DEF Grows, Reserved, MakePackage, cribVars
  <2>2. ASSUME NEW h \in Planners, Works(h)
        PROVE  job[h].package # p
    BY Zenon, <1>1, <2>2, PlanningAssumption DEF GenerationInv, JobFits, OwnPackage
  <2> QED BY <1>2, <1>3, <1>4, <2>1, <2>2 DEF OneJob, MakePackage, cribVars, GenerationInv, RowTypes
<1>10. LinkedPackageIsWhole'
  BY <1>1, <1>4, LinksKept, BlankTyped DEF MakePackage, GenerationInv, RowTypes
<1> QED BY <1>6, <1>7, <1>8, <1>9, <1>10, OneJobFits

\* A step of a job on its own package that links nothing.
LEMMA OwnStepKeeps ==
    ASSUME GenerationInv, RowTypes', NEW g \in Planners, NEW p, Works(g), p = job[g].package,
           Grows, job' = [job EXCEPT ![g] = job'[g]],
           \A h \in Planners \ {g} : run'[h] = run[h],
           package' = [package EXCEPT ![p] = package'[p]],
           check' = check, job'[g].package = p, JobFits(g)', RowFits(p)'
    PROVE  GenerationInv'
<1>1. p \in Packages /\ ~package[p].hangar
  BY ZenonT(60) DEF GenerationInv, JobFits, OwnPackage
<1>2. OneJob(g, p)
  <2>1. \A h \in Planners \ {g} : job'[h] = job[h]
    BY DEF GenerationInv, RowTypes
  <2>2. \A q \in Packages \ {p} : package'[q] = package[q]
    BY DEF GenerationInv, RowTypes
  <2> QED BY <2>1, <2>2 DEF OneJob, GenerationInv, Apart
<1>3. LinkedPackageIsWhole'
  BY <1>1, LinksKept DEF GenerationInv, RowTypes
<1> QED BY Zenon, <1>2, <1>3, OneJobFits

\* What a working job can rely on.
LEMMA Working ==
    ASSUME GenerationInv, NEW g \in Planners, Works(g)
    PROVE  /\ OwnPackage(g) /\ OwnParts(g) /\ OwnTools(g)
           /\ job[g] \in Jobs /\ job[g].package \in Packages
           /\ package[job[g].package] \in PackageRows
           /\ RowFits(job[g].package) /\ package[job[g].package].source # NoCheck
           /\ job[g].package # NoPackage
BY ZenonT(60), PlanningAssumption DEF GenerationInv, JobFits, OwnPackage, RowTypes

\* An unfinished row whose parts lines are as they were, or as they are created.
LEMMA RowFitsAfter ==
    ASSUME Grows, NEW p \in Packages, RowFits(p), package[p].source # NoCheck,
           package'[p].source = package[p].source, ~package'[p].hangar,
           \A t \in MpdTasks : package'[p].parts[t] \in {"shortage", package[p].parts[t]}
    PROVE  RowFits(p)'
BY DEF RowFits, Grows, Known

LEMMA MakeOrderKeeps ==
    ASSUME GenerationInv, NEW g \in Planners, NEW include \in BOOLEAN, MakeOrder(g, include)
    PROVE  GenerationInv'
<1>0. PICK p : p = job[g].package
  OBVIOUS
<1> DEFINE row == package[p]
<1>1. Works(g) /\ job[g].step = "order"
  BY DEF MakeOrder, At, Works
<1>2. /\ p = job[g].package /\ job[g] \in Jobs /\ p \in Packages
      /\ row \in PackageRows /\ row.source # NoCheck
      /\ OwnPackage(g) /\ OwnParts(g) /\ RowFits(p) /\ job[g].tasks = {}
  BY <1>0, <1>1, Working DEF OwnPackage
<1>3. PICK T \in SUBSET MpdTasks, step \in {"materials", "cards", "general"} :
         /\ job' = [job EXCEPT ![g] = [job[g] EXCEPT !.step = step, !.tasks = T]]
         /\ step = "general" => T = {}
  <2>1. CASE include /\ job[g].check \in Program
    <3>1. PICK T \in TaskLists :
             job' = [job EXCEPT ![g].step = IF T = {} THEN "materials" ELSE "cards",
                                ![g].tasks = T]
      BY <2>1 DEF MakeOrder
    <3>2. job' = [job EXCEPT ![g] = [job[g] EXCEPT
                                       !.step = IF T = {} THEN "materials" ELSE "cards",
                                       !.tasks = T]]
      BY <3>1 DEF GenerationInv, RowTypes, Jobs
    <3> QED BY Zenon, <3>2 DEF TaskLists
  <2>2. CASE ~(include /\ job[g].check \in Program)
    <3>1. job' = [job EXCEPT ![g].step = "general"]
      BY <2>2 DEF MakeOrder
    <3>2. job' = [job EXCEPT ![g] = [job[g] EXCEPT !.step = "general", !.tasks = {}]]
      BY <1>2, <3>1 DEF GenerationInv, RowTypes, Jobs
    <3> QED BY Zenon, <3>2
  <2> QED BY ZenonT(60), <2>1, <2>2
<1>4. /\ job' = [job EXCEPT ![g] = job'[g]]
      /\ job'[g] \in Jobs /\ job'[g].step = step /\ job'[g].tasks = T
      /\ job'[g].package = p /\ job'[g].check = job[g].check
      /\ job'[g].added = job[g].added /\ job'[g].parts = job[g].parts
  BY <1>2, <1>3 DEF GenerationInv, RowTypes, Jobs, Steps
<1>5. /\ package' = [package EXCEPT ![p] = package'[p]]
      /\ package'[p] = [row EXCEPT !.order = TRUE]
  BY <1>0, <1>2 DEF MakeOrder, GenerationInv, RowTypes
<1>6. /\ package'[p] \in PackageRows /\ package'[p].order
      /\ package'[p].source = row.source /\ package'[p].hangar = row.hangar
      /\ package'[p].cards = row.cards
      /\ package'[p].parts = row.parts /\ package'[p].tools = row.tools
  BY <1>2, <1>5 DEF PackageRows
<1>7. RowTypes' /\ Grows
  BY <1>4, <1>5, <1>6
     DEF GenerationInv, RowTypes, CribTypeOK, MakeOrder, cribVars, Grows, Reserved
<1>8. JobFits(g)'
  <2>1. job'[g].step \notin {"idle", "package", "order", "tools", "finish"}
    BY ZenonT(60), <1>4
  <2>2. OwnPackage(g)'
    <3>1. \A t \in MpdTasks : row.parts[t] = "none" /\ row.tools[t] = "none"
      <4>1. PartLines(job[g].tasks) = {} /\ ToolLines(job[g].tasks) = {}
        BY <1>2 DEF PartLines, ToolLines
      <4> QED BY Zenon, <1>2, <4>1 DEF OwnPackage
    <3>2. row.cards \subseteq T /\ job[g].added \subseteq T
      BY Zenon, <1>2 DEF OwnPackage
    <3>3. row.source = job[g].check /\ job[g].check \in Checks /\ ~row.hangar
      BY Zenon, <1>2 DEF OwnPackage
    <3>4. job'[g].step \in {"order", "general"} => T = {}
      BY ZenonT(60), <1>3, <1>4
    <3> HIDE DEF row
    <3>5. /\ package'[p].source = job'[g].check /\ ~package'[p].hangar /\ package'[p].order
          /\ package'[p].cards \subseteq T /\ job'[g].added \subseteq T
      BY Zenon, <1>4, <1>6, <3>2, <3>3
    <3>6. \A t \in MpdTasks : package'[p].parts[t] = "none" /\ package'[p].tools[t] = "none"
      BY Zenon, <1>6, <3>1
    <3>7. job'[g].check \in Checks /\ job'[g].package = p /\ p \in Packages /\ job'[g].tasks = T
      BY Zenon, <1>2, <1>4, <3>3
    <3> QED BY Zenon, <3>4, <3>5, <3>6, <3>7 DEF OwnPackage
  <2>3. OwnParts(g)' /\ OwnTools(g)'
    BY <1>2, <1>4, <2>1 DEF OwnParts, OwnTools, MakeOrder, cribVars, Known
  <2> QED BY <2>1, <2>2, <2>3 DEF JobFits
<1>9. RowFits(p)'
  BY SMTT(30), <1>2, <1>6, <1>7, RowFitsAfter DEF OwnPackage
<1> QED BY <1>1, <1>2, <1>4, <1>5, <1>7, <1>8, <1>9, OwnStepKeeps DEF MakeOrder, cribVars

LEMMA MakeGeneralCardKeeps ==
    ASSUME GenerationInv, NEW g \in Planners, MakeGeneralCard(g)
    PROVE  GenerationInv'
<1>0. PICK p : p = job[g].package
  OBVIOUS
<1> DEFINE row == package[p]
<1>1. Works(g) /\ job[g].step = "general"
  BY DEF MakeGeneralCard, At, Works
<1>2. /\ p = job[g].package /\ job[g] \in Jobs /\ p \in Packages
      /\ row \in PackageRows /\ row.source # NoCheck
      /\ OwnPackage(g) /\ OwnParts(g) /\ RowFits(p) /\ job[g].tasks = {}
  BY <1>0, <1>1, Working DEF OwnPackage
<1>3. /\ job' = [job EXCEPT ![g] = job'[g]]
      /\ job'[g] = [job[g] EXCEPT !.step = "finish"]
  BY DEF MakeGeneralCard, GenerationInv, RowTypes
<1>4. /\ job'[g] \in Jobs /\ job'[g].step = "finish" /\ job'[g].tasks = {}
      /\ job'[g].package = p /\ job'[g].check = job[g].check
      /\ job'[g].added = job[g].added /\ job'[g].parts = job[g].parts
  BY <1>2, <1>3 DEF Jobs, Steps
<1>5. /\ package' = [package EXCEPT ![p] = package'[p]]
      /\ package'[p] = [row EXCEPT !.general = TRUE]
  BY <1>0, <1>2 DEF MakeGeneralCard, GenerationInv, RowTypes
<1>6. /\ package'[p] \in PackageRows /\ package'[p].order = row.order
      /\ package'[p].source = row.source /\ package'[p].hangar = row.hangar
      /\ package'[p].cards = row.cards
      /\ package'[p].parts = row.parts /\ package'[p].tools = row.tools
  BY <1>2, <1>5 DEF PackageRows
<1>7. RowTypes' /\ Grows
  BY <1>3, <1>4, <1>5, <1>6
     DEF GenerationInv, RowTypes, CribTypeOK, MakeGeneralCard, cribVars, Grows, Reserved
<1>8. JobFits(g)'
  <2>1. OwnPackage(g)'
    <3>1. /\ row.source = job[g].check /\ job[g].check \in Checks /\ ~row.hangar /\ row.order
          /\ row.cards \subseteq job[g].tasks /\ job[g].added \subseteq job[g].tasks
          /\ \A t \in MpdTasks : /\ row.parts[t] # "none" => t \in PartLines(job[g].tasks)
                                 /\ row.tools[t] # "none" => t \in ToolLines(job[g].tasks)
      BY Zenon, <1>1, <1>2 DEF OwnPackage
    <3> HIDE DEF row
    <3>2. /\ package'[p].source = job'[g].check /\ ~package'[p].hangar /\ package'[p].order
          /\ package'[p].cards \subseteq job'[g].tasks /\ job'[g].added \subseteq job'[g].tasks
          /\ job'[g].check \in Checks /\ job'[g].package = p /\ p \in Packages /\ job'[g].tasks = {}
      BY ZenonT(60), <1>2, <1>4, <1>6, <3>1
    <3>3. \A t \in MpdTasks : /\ package'[p].parts[t] # "none" => t \in PartLines(job'[g].tasks)
                              /\ package'[p].tools[t] # "none" => t \in ToolLines(job'[g].tasks)
      BY ZenonT(60), <1>2, <1>4, <1>6, <3>1
    <3> QED BY Zenon, <3>2, <3>3 DEF OwnPackage
  <2>2. OwnParts(g)' /\ OwnTools(g)'
    BY <1>2, <1>4 DEF OwnParts, OwnTools, MakeGeneralCard, Known, PartLines, ToolLines
  <2> QED BY ZenonT(60), <1>4, <2>1, <2>2 DEF JobFits
<1>9. RowFits(p)'
  BY ZenonT(60), <1>2, <1>6, <1>7, RowFitsAfter DEF OwnPackage
<1> QED BY <1>1, <1>2, <1>3, <1>4, <1>5, <1>7, <1>8, <1>9, OwnStepKeeps
       DEF MakeGeneralCard, cribVars

LEMMA MakeCardKeeps ==
    ASSUME GenerationInv, NEW g \in Planners, NEW t \in MpdTasks, MakeCard(g, t)
    PROVE  GenerationInv'
<1>0. PICK p : p = job[g].package
  OBVIOUS
<1> DEFINE row == package[p]
           added == WithAdded(row, g)
<1>1. Works(g) /\ job[g].step = "cards" /\ t \in job[g].tasks
  BY DEF MakeCard, At, Works
<1>2. /\ p = job[g].package /\ job[g] \in Jobs /\ p \in Packages
      /\ row \in PackageRows /\ row.source # NoCheck
      /\ OwnPackage(g) /\ OwnParts(g) /\ RowFits(p)
  BY <1>0, <1>1, Working
<1>3. PICK step \in {"materials", "cards"} :
         job' = [job EXCEPT ![g] = [job[g] EXCEPT !.added = @ \cup {t}, !.step = step]]
  <2> DEFINE step == IF job[g].tasks \ package[p].cards = {t} THEN "materials" ELSE "cards"
  <2>1. job' = [job EXCEPT ![g].added = @ \cup {t}, ![g].step = step]
    BY <1>2 DEF MakeCard
  <2>2. step \in {"materials", "cards"}
    OBVIOUS
  <2> HIDE DEF step
  <2>3. job' = [job EXCEPT ![g] = [job[g] EXCEPT !.added = @ \cup {t}, !.step = step]]
    BY <2>1 DEF GenerationInv, RowTypes, Jobs
  <2> QED BY <2>2, <2>3
<1>4. /\ job' = [job EXCEPT ![g] = job'[g]]
      /\ job'[g] \in Jobs /\ job'[g].step = step /\ job'[g].tasks = job[g].tasks
      /\ job'[g].package = p /\ job'[g].check = job[g].check
      /\ job'[g].added = job[g].added \cup {t} /\ job'[g].parts = job[g].parts
  BY <1>2, <1>3 DEF GenerationInv, RowTypes, Jobs, Steps
<1>5. /\ package' = [package EXCEPT ![p] = package'[p]]
      /\ package'[p] = [added EXCEPT !.cards = @ \cup {t}]
  <2>1. package' = [package EXCEPT ![p] = [added EXCEPT !.cards = @ \cup {t}]]
    BY <1>2 DEF MakeCard
  <2> HIDE DEF added
  <2> QED BY <1>2, <2>1 DEF GenerationInv, RowTypes
<1>6. /\ added \in PackageRows
      /\ \A k \in MpdTasks :
            /\ added.parts[k] = IF k \in PartLines(job[g].added) THEN "shortage" ELSE row.parts[k]
            /\ added.tools[k] = IF k \in ToolLines(job[g].added) THEN "reserved" ELSE row.tools[k]
      /\ added.source = row.source /\ added.order = row.order
      /\ added.cards = row.cards /\ added.hangar = row.hangar
  BY <1>2, AddedLines DEF GenerationInv
<1> HIDE DEF added
<1>7. /\ package'[p] \in PackageRows /\ package'[p].order = row.order
      /\ package'[p].source = row.source /\ package'[p].hangar = row.hangar
      /\ package'[p].cards = row.cards \cup {t}
      /\ package'[p].parts = added.parts /\ package'[p].tools = added.tools
  BY <1>2, <1>5, <1>6 DEF PackageRows
<1>8. RowTypes' /\ Grows
  <2>1. RowTypes'
    <3>1. job' \in [Planners -> Jobs]
      BY Zenon, <1>4 DEF GenerationInv, RowTypes
    <3>2. package' \in [Packages -> PackageRows]
      BY Zenon, <1>5, <1>7 DEF GenerationInv, RowTypes
    <3> QED BY Zenon, <3>1, <3>2 DEF GenerationInv, RowTypes, CribTypeOK, MakeCard, cribVars
  <2>2. Grows
    BY Zenon DEF MakeCard, cribVars, Grows, Reserved
  <2> QED BY <2>1, <2>2
<1>9. JobFits(g)'
  <2>1. OwnPackage(g)'
    <3>1. /\ job'[g].check \in Checks /\ job'[g].package \in Packages
          /\ package'[p].source = job'[g].check /\ ~package'[p].hangar /\ package'[p].order
          /\ package'[p].cards \subseteq job'[g].tasks /\ job'[g].added \subseteq job'[g].tasks
      BY Zenon, <1>1, <1>2, <1>4, <1>7 DEF OwnPackage
    <3>2. ASSUME NEW k \in MpdTasks
          PROVE  /\ package'[p].parts[k] # "none" => k \in PartLines(job[g].tasks)
                 /\ package'[p].tools[k] # "none" => k \in ToolLines(job[g].tasks)
      BY <1>2, <1>6, <1>7 DEF OwnPackage, PartLines, ToolLines
    <3> QED BY <1>4, <3>1, <3>2 DEF OwnPackage, PartLines, ToolLines
  <2>2. OwnParts(g)' /\ OwnTools(g)'
    BY Zenon, <1>2, <1>4, <1>8 DEF OwnParts, OwnTools, Grows, Known
  <2> QED BY <1>4, <2>1, <2>2 DEF JobFits
<1>10. RowFits(p)'
  <2>1. \A k \in MpdTasks : package'[p].parts[k] \in {"shortage", row.parts[k]}
    BY <1>6, <1>7
  <2>2. /\ package[p].source # NoCheck /\ package'[p].source = package[p].source
        /\ ~package'[p].hangar
    BY Zenon, <1>2, <1>7 DEF OwnPackage
  <2> HIDE DEF row, added
  <2>3. \A k \in MpdTasks : package'[p].parts[k] \in {"shortage", package[p].parts[k]}
    BY Zenon, <2>1 DEF row
  <2> QED BY Zenon, <1>2, <1>8, <2>2, <2>3, RowFitsAfter
<1> QED BY ZenonT(60), <1>1, <1>2, <1>4, <1>5, <1>8, <1>9, <1>10, OwnStepKeeps DEF MakeCard, cribVars

\* The run that the tool planning starts from.
LEMMA RunStarted ==
    ASSUME RowTypes, NEW g \in Planners, NEW p \in Packages, NEW T \in SUBSET MpdTasks,
           StartRun(g, p, T)
    PROVE  /\ run' \in [Planners -> Runs]
           /\ \A h \in Planners \ {g} : run'[h] = run[h]
           /\ run'[g].package = p /\ run'[g].todo = T /\ run'[g].claim = NoLine
           /\ \A l \in Lines : run'[g].result[l] = "none"
<1> DEFINE started == [NoRun EXCEPT !.todo = T, !.package = p]
<1>1. /\ started \in Runs /\ started.package = p /\ started.todo = T /\ started.claim = NoLine
      /\ \A l \in Lines : started.result[l] = "none"
  BY DEF NoRun, Runs, LineResults, MpdTasks
<1>2. run' = [run EXCEPT ![g] = started]
  BY DEF StartRun
<1> HIDE DEF started
<1> QED BY <1>1, <1>2 DEF RowTypes, CribTypeOK

LEMMA PlanMaterialsKeeps ==
    ASSUME GenerationInv, NEW g \in Planners, PlanMaterials(g)
    PROVE  GenerationInv'
<1>0. PICK p : p = job[g].package
  BY Zenon
<1> DEFINE row == package[p]
           added == WithAdded(row, g)
           lines == PartLines(job[g].tasks)
<1>1. Works(g) /\ job[g].step = "materials"
  BY DEF PlanMaterials, At, Works
<1>2. /\ p = job[g].package /\ job[g] \in Jobs /\ p \in Packages
      /\ row \in PackageRows /\ row.source # NoCheck
      /\ OwnPackage(g) /\ OwnParts(g) /\ RowFits(p)
  BY <1>0, <1>1, Working
<1>3. PICK S \in Supplied(lines) :
         /\ promised' = promised \cup ({p} \X S)
         /\ wanted' = wanted \cup ({p} \X {t \in lines \ S : PartOf[t] \in KnownParts})
         /\ job' = [job EXCEPT ![g] = [job[g] EXCEPT !.step = "tools", !.added = {},
                                                     !.parts = PartOutcome(lines, S)]]
  <2>1. PICK S \in Supplied(lines) :
           /\ promised' = promised \cup ({p} \X S)
           /\ wanted' = wanted \cup ({p} \X {t \in lines \ S : PartOf[t] \in KnownParts})
           /\ job' = [job EXCEPT ![g].step = "tools", ![g].added = {},
                                 ![g].parts = PartOutcome(lines, S)]
    BY <1>2 DEF PlanMaterials
  <2> QED BY Zenon, <2>1 DEF GenerationInv, RowTypes, Jobs
<1>4. S \subseteq lines /\ lines \subseteq MpdTasks
  BY <1>2, <1>3 DEF Supplied, PartLines, Jobs
<1>5. /\ PartOutcome(lines, S) \in [MpdTasks -> PartResults]
      /\ \A t \in MpdTasks : /\ PartOutcome(lines, S)[t] = "ok" <=> t \in S
                             /\ PartOutcome(lines, S)[t] = "purchase_required" <=> t \in lines \ S
                             /\ t \in lines => PartOutcome(lines, S)[t] # "none"
  BY <1>4 DEF PartOutcome, PartResults
<1>6. /\ job' = [job EXCEPT ![g] = job'[g]]
      /\ job'[g] \in Jobs /\ job'[g].step = "tools" /\ job'[g].tasks = job[g].tasks
      /\ job'[g].package = p /\ job'[g].check = job[g].check
      /\ job'[g].added = {} /\ job'[g].parts = PartOutcome(lines, S)
  BY <1>2, <1>3, <1>5 DEF GenerationInv, RowTypes, Jobs, Steps
<1>7. /\ package' = [package EXCEPT ![p] = package'[p]]
      /\ package'[p] = added
  BY <1>2 DEF PlanMaterials, GenerationInv, RowTypes
<1>8. /\ added \in PackageRows
      /\ \A k \in MpdTasks :
            /\ added.parts[k] = IF k \in PartLines(job[g].added) THEN "shortage" ELSE row.parts[k]
            /\ added.tools[k] = IF k \in ToolLines(job[g].added) THEN "reserved" ELSE row.tools[k]
      /\ added.source = row.source /\ added.order = row.order
      /\ added.cards = row.cards /\ added.hangar = row.hangar
  BY <1>2, AddedLines DEF GenerationInv
<1> HIDE DEF added
<1>9. /\ run' \in [Planners -> Runs]
      /\ \A h \in Planners \ {g} : run'[h] = run[h]
      /\ run'[g].package = p /\ run'[g].todo = ToolLines(job[g].tasks) /\ run'[g].claim = NoLine
      /\ \A l \in Lines : run'[g].result[l] = "none"
  <2>1. ToolLines(job[g].tasks) \in SUBSET MpdTasks
    BY <1>2 DEF ToolLines, Jobs
  <2>2. StartRun(g, p, ToolLines(job[g].tasks))
    BY <1>2 DEF PlanMaterials
  <2> QED BY <1>2, <2>1, <2>2, RunStarted DEF GenerationInv
<1>10. Grows
  BY <1>3 DEF Grows, Reserved, PlanMaterials
<1>11. RowTypes'
  <2>1. promised' \subseteq Packages \X MpdTasks /\ wanted' \subseteq Packages \X MpdTasks
    BY <1>2, <1>3, <1>4 DEF GenerationInv, RowTypes
  <2>2. CribTypeOK'
    BY <1>9 DEF GenerationInv, RowTypes, CribTypeOK, PlanMaterials
  <2> QED BY <1>6, <1>7, <1>8, <2>1, <2>2 DEF GenerationInv, RowTypes, PlanMaterials
<1>12. JobFits(g)'
  <2>1. OwnPackage(g)'
    <3>1. ASSUME NEW k \in MpdTasks
          PROVE  /\ added.parts[k] # "none" => k \in PartLines(job[g].tasks)
                 /\ added.tools[k] # "none" => k \in ToolLines(job[g].tasks)
      BY <1>2, <1>8 DEF OwnPackage, PartLines, ToolLines
    <3> QED BY <1>1, <1>2, <1>6, <1>7, <1>8, <3>1 DEF OwnPackage, PartLines, ToolLines
  <2>2. OwnParts(g)'
    <3>1. \A t \in MpdTasks : t \in S => <<p, t>> \in promised'
      BY <1>3
    <3>2. \A t \in MpdTasks : t \in lines \ S /\ Known(t) => <<p, t>> \in wanted'
      BY <1>3 DEF Known
    <3> QED BY <1>4, <1>5, <1>6, <3>1, <3>2 DEF OwnParts, PartLines, Known
  <2>3. OwnTools(g)'
    BY <1>6, <1>9 DEF OwnTools, ToolLines
  <2> QED BY <1>6, <2>1, <2>2, <2>3 DEF JobFits
<1>13. RowFits(p)'
  <2>1. \A k \in MpdTasks : package'[p].parts[k] \in {"shortage", row.parts[k]}
    BY <1>7, <1>8
  <2>2. /\ package[p].source # NoCheck /\ package'[p].source = package[p].source
        /\ ~package'[p].hangar
    BY Zenon, <1>2, <1>7, <1>8 DEF OwnPackage
  <2> HIDE DEF row
  <2>3. \A k \in MpdTasks : package'[p].parts[k] \in {"shortage", package[p].parts[k]}
    BY Zenon, <2>1 DEF row
  <2> QED BY Zenon, <1>2, <1>10, <2>2, <2>3, RowFitsAfter
<1> QED BY ZenonT(60), <1>1, <1>2, <1>6, <1>7, <1>9, <1>10, <1>11, <1>12, <1>13, OwnStepKeeps DEF PlanMaterials

LEMMA NoMaterialsKeeps ==
    ASSUME GenerationInv, NEW g \in Planners, NoMaterials(g)
    PROVE  GenerationInv'
<1>0. PICK p : p = job[g].package
  BY ZenonT(60)
<1>1. Works(g) /\ job[g].step = "materials" /\ PartLines(job[g].tasks) = {}
  BY DEF NoMaterials, At, Works
<1>2. /\ p = job[g].package /\ job[g] \in Jobs /\ p \in Packages
      /\ OwnPackage(g) /\ OwnParts(g) /\ RowFits(p)
  BY <1>0, <1>1, Working
<1>3. /\ job' = [job EXCEPT ![g] = job'[g]]
      /\ job'[g] = [job[g] EXCEPT !.step = "tools"]
  BY DEF NoMaterials, GenerationInv, RowTypes
<1>4. /\ job'[g] \in Jobs /\ job'[g].step = "tools" /\ job'[g].tasks = job[g].tasks
      /\ job'[g].package = p /\ job'[g].check = job[g].check
      /\ job'[g].added = job[g].added /\ job'[g].parts = job[g].parts
  BY <1>2, <1>3 DEF Jobs, Steps
<1>5. /\ run' \in [Planners -> Runs]
      /\ \A h \in Planners \ {g} : run'[h] = run[h]
      /\ run'[g].package = p /\ run'[g].todo = ToolLines(job[g].tasks) /\ run'[g].claim = NoLine
      /\ \A l \in Lines : run'[g].result[l] = "none"
  <2>1. ToolLines(job[g].tasks) \in SUBSET MpdTasks
    BY <1>2 DEF ToolLines, Jobs
  <2>2. StartRun(g, p, ToolLines(job[g].tasks))
    BY <1>2 DEF NoMaterials
  <2> QED BY <1>2, <2>1, <2>2, RunStarted DEF GenerationInv
<1>6. RowTypes' /\ Grows
  BY <1>3, <1>4, <1>5 DEF GenerationInv, RowTypes, CribTypeOK, NoMaterials, Grows, Reserved
<1>7. JobFits(g)'
  <2>1. OwnPackage(g)'
    BY <1>1, <1>2, <1>4 DEF OwnPackage, NoMaterials, PartLines, ToolLines
  <2>2. OwnParts(g)'
    BY <1>1, <1>2, <1>4, <1>6 DEF OwnParts, Grows, Known, PartLines
  <2>3. OwnTools(g)'
    BY <1>4, <1>5 DEF OwnTools, ToolLines
  <2> QED BY <1>4, <2>1, <2>2, <2>3 DEF JobFits
<1>8. RowFits(p)' /\ package' = [package EXCEPT ![p] = package'[p]]
  BY <1>2, <1>6, RowKept DEF NoMaterials, GenerationInv, RowTypes
<1> QED BY <1>1, <1>2, <1>3, <1>4, <1>5, <1>6, <1>7, <1>8, OwnStepKeeps DEF NoMaterials

LEMMA VerdictTyped ==
    ASSUME NEW g \in Planners, NEW l \in Lines
    PROVE  Verdict(g, l) \in LineResults \ {"none"}
BY DEF Verdict, LineResults

\* A line gets its result.
Done(r, l, v) ==
    [todo |-> r.todo \ {l}, claim |-> NoLine, package |-> r.package,
     result |-> [r.result EXCEPT ![l] = v]]

LEMMA LineDone ==
    ASSUME NEW r \in Runs, NEW l \in Lines, NEW v \in LineResults \ {"none"}
    PROVE  /\ Done(r, l, v) \in Runs /\ Done(r, l, v).package = r.package
           /\ Done(r, l, v).todo = r.todo \ {l} /\ Done(r, l, v).claim = NoLine
           /\ Done(r, l, v).result[l] = v
           /\ \A k \in Lines \ {l} : Done(r, l, v).result[k] = r.result[k]
<1> DEFINE result == [r.result EXCEPT ![l] = v]
<1>1. /\ result \in [Lines -> LineResults] /\ result[l] = v
      /\ \A k \in Lines \ {l} : result[k] = r.result[k]
  BY DEF Runs
<1>2. Done(r, l, v) = [todo |-> r.todo \ {l}, claim |-> NoLine, package |-> r.package,
                       result |-> result]
  BY DEF Done
<1> HIDE DEF result
<1> QED BY <1>1, <1>2 DEF Runs

\* A step of the tool planning: lines go from the list to the results.
ToolPlanned(g) ==
    /\ run' = [run EXCEPT ![g] = run'[g]] /\ run'[g] \in Runs
    /\ run'[g].package = run[g].package
    /\ run'[g].todo \subseteq run[g].todo
    /\ run'[g].claim \in run'[g].todo \cup {NoLine}
    /\ \A l \in Lines :
          /\ l \in run[g].todo => l \in run'[g].todo \/ run'[g].result[l] # "none"
          /\ run[g].result[l] # "none" => run'[g].result[l] # "none"
          /\ run'[g].result[l] # "none" => run[g].result[l] # "none" \/ l \in run[g].todo
    /\ tool' = tool /\ loans' = loans /\ bookings' = bookings /\ today' = today
    /\ holder' \in [Tools -> Planners \cup {Nobody}]

LEMMA PlanToolsKeeps ==
    ASSUME GenerationInv, NEW g \in Planners, PlanTools(g)
    PROVE  GenerationInv'
<1>0. PICK p : p = job[g].package
  BY ZenonT(60)
<1>1. Works(g) /\ job[g].step = "tools"
  BY DEF PlanTools, At, Works
<1>2. /\ p = job[g].package /\ job[g] \in Jobs /\ p \in Packages
      /\ OwnPackage(g) /\ OwnParts(g) /\ OwnTools(g) /\ RowFits(p)
      /\ run[g] \in Runs /\ ToolLines(job[g].tasks) \subseteq Lines
  BY <1>0, <1>1, Working DEF GenerationInv, RowTypes, CribTypeOK, ToolLines, Jobs, MpdTasks
<1>3. ToolPlanned(g)
  <2>1. ASSUME NEW l \in Lines, PlanLine(g, l), Verdict(g, l) = "reserved"
        PROVE  ToolPlanned(g)
    <3>1. run' = [run EXCEPT ![g] = [run[g] EXCEPT !.claim = l]] /\ l \in run[g].todo
      BY <2>1 DEF PlanLine, GenerationInv, RowTypes, CribTypeOK
    <3>2. run'[g] = [run[g] EXCEPT !.claim = l]
      BY <3>1 DEF GenerationInv, RowTypes, CribTypeOK
    <3>3. /\ run'[g] \in Runs /\ run'[g].package = run[g].package /\ run'[g].todo = run[g].todo
          /\ run'[g].claim = l /\ run'[g].result = run[g].result
      BY <1>2, <3>2 DEF Runs
    <3> QED BY <2>1, <3>1, <3>2, <3>3 DEF ToolPlanned, PlanLine, GenerationInv, RowTypes, CribTypeOK
  <2>2. ASSUME NEW l \in Lines, PlanLine(g, l), Verdict(g, l) # "reserved"
        PROVE  ToolPlanned(g)
    <3>0. PICK verdict : verdict = Verdict(g, l)
      OBVIOUS
    <3>1. /\ run' = [run EXCEPT ![g].todo = @ \ {l}, ![g].result[l] = verdict]
          /\ l \in run[g].todo /\ run[g].claim = NoLine /\ verdict \in LineResults \ {"none"}
      BY <2>2, <3>0, VerdictTyped DEF PlanLine
    <3>2. run' = [run EXCEPT ![g] = [run[g] EXCEPT !.todo = @ \ {l}, !.result[l] = verdict]]
      BY ZenonT(60), <3>1 DEF GenerationInv, RowTypes, CribTypeOK, Runs
    <3>3. run'[g] = [run[g] EXCEPT !.todo = @ \ {l}, !.result[l] = verdict]
      BY <3>2 DEF GenerationInv, RowTypes, CribTypeOK
    <3>4. /\ run'[g] \in Runs /\ run'[g].package = run[g].package
          /\ run'[g].todo = run[g].todo \ {l} /\ run'[g].claim = NoLine
          /\ run'[g].result[l] # "none"
          /\ \A k \in Lines \ {l} : run'[g].result[k] = run[g].result[k]
      <4>1. run'[g] = Done(run[g], l, verdict)
        BY ZenonT(60), <1>2, <3>1, <3>3 DEF Done, Runs
      <4>2. verdict \in LineResults \ {"none"}
        BY <3>1
      <4> QED BY <1>2, <4>1, <4>2, LineDone
    <3> QED BY <2>2, <3>1, <3>2, <3>3, <3>4
            DEF ToolPlanned, PlanLine, GenerationInv, RowTypes, CribTypeOK
  <2>3. ASSUME ClaimTool(g)
        PROVE  ToolPlanned(g)
    <3>1. PICK l : l = run[g].claim
      OBVIOUS
    <3>2. /\ run' = [run EXCEPT ![g].claim = NoLine, ![g].todo = @ \ {l},
                                ![g].result[l] = "reserved"]
          /\ l # NoLine /\ holder' = [holder EXCEPT ![ToolOf[l]] = g]
      BY <2>3, <3>1 DEF ClaimTool
    <3>3. l \in run[g].todo /\ l \in Lines
      BY <1>1, <1>2, <3>1, <3>2 DEF OwnTools
    <3>4. run' = [run EXCEPT ![g] = [run[g] EXCEPT !.claim = NoLine, !.todo = @ \ {l},
                                                   !.result[l] = "reserved"]]
      BY ZenonT(60), <3>2 DEF GenerationInv, RowTypes, CribTypeOK, Runs
    <3>5. run'[g] = [run[g] EXCEPT !.claim = NoLine, !.todo = @ \ {l}, !.result[l] = "reserved"]
      BY <3>4 DEF GenerationInv, RowTypes, CribTypeOK
    <3>6. /\ run'[g] \in Runs /\ run'[g].package = run[g].package
          /\ run'[g].todo = run[g].todo \ {l} /\ run'[g].claim = NoLine
          /\ run'[g].result[l] # "none"
          /\ \A k \in Lines \ {l} : run'[g].result[k] = run[g].result[k]
      <4>1. "reserved" \in LineResults \ {"none"}
        BY DEF LineResults
      <4>2. run'[g] = Done(run[g], l, "reserved")
        BY <1>2, <3>5 DEF Done, Runs
      <4> QED BY <1>2, <3>3, <4>1, <4>2, LineDone
    <3>7. holder' \in [Tools -> Planners \cup {Nobody}]
      BY <3>2 DEF GenerationInv, RowTypes, CribTypeOK
    <3> QED BY Zenon, <2>3, <3>3, <3>4, <3>5, <3>6, <3>7
            DEF ToolPlanned, ClaimTool, GenerationInv, RowTypes, CribTypeOK
  <2> QED BY <2>1, <2>2, <2>3 DEF PlanTools
<1>4. RowTypes' /\ Grows
  BY <1>3 DEF ToolPlanned, GenerationInv, RowTypes, CribTypeOK, PlanTools, planVars, Grows, Reserved
<1>5. JobFits(g)'
  <2>1. OwnPackage(g)' /\ OwnParts(g)'
    BY <1>2 DEF OwnPackage, OwnParts, PlanTools, planVars, Known, PartLines, ToolLines
  <2>2. OwnTools(g)'
    BY <1>1, <1>2, <1>3 DEF ToolPlanned, OwnTools, PlanTools, planVars, ToolLines
  <2> QED BY <1>1, <2>1, <2>2 DEF JobFits, PlanTools, planVars
<1>6. RowFits(p)'
  BY <1>2, <1>4, RowKept DEF PlanTools, planVars
<1> QED BY <1>1, <1>2, <1>3, <1>4, <1>5, <1>6, OwnStepKeeps
        DEF ToolPlanned, PlanTools, planVars, GenerationInv, RowTypes, CribTypeOK

LEMMA CommitToolsKeeps ==
    ASSUME GenerationInv, NEW g \in Planners, CommitTools(g)
    PROVE  GenerationInv'
<1>0. PICK p : p = job[g].package
  BY ZenonT(60)
<1> DEFINE row == package[p]
           put == WithParts(row, g)
<1>1. Works(g) /\ job[g].step = "tools"
  BY DEF CommitTools, At, Works
<1>2. /\ p = job[g].package /\ job[g] \in Jobs /\ p \in Packages
      /\ row \in PackageRows /\ row.source # NoCheck
      /\ OwnPackage(g) /\ OwnParts(g) /\ OwnTools(g) /\ RowFits(p)
      /\ run[g] \in Runs /\ ToolLines(job[g].tasks) \subseteq Lines
  BY <1>0, <1>1, Working DEF GenerationInv, RowTypes, CribTypeOK, ToolLines, Jobs, MpdTasks
<1>3. PICK added \in {{}, job[g].added} :
         job' = [job EXCEPT ![g] = [job[g] EXCEPT !.step = "finish", !.added = added]]
  <2>1. CASE ToolLines(job[g].tasks) # {}
    <3>1. job' = [job EXCEPT ![g].step = "finish", ![g].added = {}]
      BY <2>1 DEF CommitTools
    <3> QED BY <3>1 DEF GenerationInv, RowTypes, Jobs
  <2>2. CASE ToolLines(job[g].tasks) = {}
    <3>1. job' = [job EXCEPT ![g].step = "finish"]
      BY <2>2 DEF CommitTools
    <3>2. job' = [job EXCEPT ![g] = [job[g] EXCEPT !.step = "finish", !.added = job[g].added]]
      BY <1>2, <3>1 DEF GenerationInv, RowTypes, Jobs
    <3> QED BY <3>2
  <2> QED BY <2>1, <2>2
<1>4. /\ job' = [job EXCEPT ![g] = job'[g]]
      /\ job'[g] \in Jobs /\ job'[g].step = "finish" /\ job'[g].tasks = job[g].tasks
      /\ job'[g].package = p /\ job'[g].check = job[g].check
      /\ job'[g].added \subseteq job[g].added /\ job'[g].parts = job[g].parts
  BY <1>2, <1>3 DEF GenerationInv, RowTypes, Jobs, Steps
<1>5. /\ package' = [package EXCEPT ![p] = package'[p]]
      /\ package'[p] \in {row, put}
  <2>1. package' = package \/ package' = [package EXCEPT ![p] = put]
    BY <1>2 DEF CommitTools
  <2> HIDE DEF put
  <2> QED BY <1>2, <2>1 DEF GenerationInv, RowTypes
<1>6. /\ put \in PackageRows
      /\ \A t \in MpdTasks :
            /\ put.parts[t] = IF t \in PartLines(job[g].tasks) THEN job[g].parts[t]
                              ELSE WithAdded(row, g).parts[t]
            /\ put.tools[t] = WithAdded(row, g).tools[t]
      /\ put.source = row.source /\ put.order = row.order
      /\ put.cards = row.cards /\ put.hangar = row.hangar
  BY <1>2, PartLinesPut DEF GenerationInv
<1>7. \A t \in MpdTasks :
         /\ WithAdded(row, g).parts[t] = IF t \in PartLines(job[g].added)
                                           THEN "shortage" ELSE row.parts[t]
         /\ WithAdded(row, g).tools[t] = IF t \in ToolLines(job[g].added)
                                           THEN "reserved" ELSE row.tools[t]
  BY <1>2, AddedLines DEF GenerationInv
<1> HIDE DEF put
<1>8. /\ package'[p] \in PackageRows
      /\ package'[p].source = row.source /\ package'[p].order = row.order
      /\ package'[p].cards = row.cards /\ package'[p].hangar = row.hangar
      /\ \A t \in MpdTasks :
            /\ package'[p].parts[t] \in {row.parts[t], job[g].parts[t], "shortage"}
            /\ package'[p].parts[t] # "none" => t \in PartLines(job[g].tasks)
            /\ package'[p].tools[t] # "none" => t \in ToolLines(job[g].tasks)
  <2>1. \A t \in MpdTasks : /\ row.parts[t] # "none" => t \in PartLines(job[g].tasks)
                            /\ row.tools[t] # "none" => t \in ToolLines(job[g].tasks)
    BY <1>2 DEF OwnPackage
  <2>2. /\ PartLines(job[g].added) \subseteq PartLines(job[g].tasks)
        /\ ToolLines(job[g].added) \subseteq ToolLines(job[g].tasks)
    BY <1>2 DEF OwnPackage, PartLines, ToolLines
  <2>3. CASE package'[p] = row
    BY <1>2, <2>1, <2>3
  <2>4. CASE package'[p] = put
    BY <1>6, <1>7, <2>1, <2>2, <2>4
  <2> QED BY <1>5, <2>3, <2>4
<1>9. ASSUME NEW l \in Lines, run[g].result[l] = "reserved"
      PROVE  Booking(ToolOf[l], p) \in bookings' /\ Booking(ToolOf[l], p) \in BookingRows
  <2>1. l \in ToolLines(job[g].tasks) /\ run[g].package = p
    BY <1>1, <1>2, <1>9 DEF OwnTools
  <2>2. ToolOf[l] \in Tools
    BY <2>1, CribAssumption DEF ToolLines
  <2>3. ToolOf[l] \in ToolsWith(g, "reserved")
    BY <1>9 DEF ToolsWith, LinesWith
  <2> QED BY <1>2, <2>1, <2>2, <2>3 DEF CommitTools, PublishRun, Booking, BookingRows
<1>10. CribTypeOK' /\ run' = run
  <2>1. bookings' = bookings \cup {Booking(t, run[g].package) : t \in ToolsWith(g, "reserved")}
    BY DEF CommitTools, PublishRun
  <2>2. bookings' \subseteq BookingRows
    <3>1. ASSUME NEW t \in ToolsWith(g, "reserved")
          PROVE  Booking(t, run[g].package) \in BookingRows
      <4>1. PICK l \in Lines : run[g].result[l] = "reserved" /\ t = ToolOf[l]
        BY <3>1 DEF ToolsWith, LinesWith
      <4>2. run[g].package = p
        BY <1>1, <1>2 DEF OwnTools
      <4> QED BY <1>9, <4>1, <4>2
    <3> QED BY <2>1, <3>1 DEF GenerationInv, RowTypes, CribTypeOK
  <2>3. tool' \in [Tools -> ToolRows]
    <3>1. ASSUME NEW t \in Tools, NEW status \in {"calibration_due", "reserved"}
          PROVE  [tool[t] EXCEPT !.status = status] \in ToolRows
      BY ZenonT(60) DEF GenerationInv, RowTypes, CribTypeOK, ToolRows, ToolStatuses
    <3> QED BY <3>1 DEF GenerationInv, RowTypes, CribTypeOK, CommitTools, PublishRun
  <2>4. holder' \in [Tools -> Planners \cup {Nobody}]
    BY DEF GenerationInv, RowTypes, CribTypeOK, CommitTools, PublishRun, Unheld
  <2> QED BY <2>2, <2>3, <2>4
          DEF GenerationInv, RowTypes, CribTypeOK, CommitTools, PublishRun
<1>11. RowTypes' /\ Grows
  <2>1. RowTypes'
    BY <1>4, <1>5, <1>8, <1>10 DEF GenerationInv, RowTypes, CommitTools
  <2>2. bookings \subseteq bookings'
    BY DEF CommitTools, PublishRun
  <2> QED BY <2>1, <2>2 DEF Grows, Reserved, CommitTools
<1>12. JobFits(g)'
  <2>1. OwnPackage(g)'
    <3>1. /\ row.source = job[g].check /\ job[g].check \in Checks /\ ~row.hangar /\ row.order
          /\ row.cards \subseteq job[g].tasks /\ job[g].added \subseteq job[g].tasks
      BY Zenon, <1>1, <1>2 DEF OwnPackage
    <3> HIDE DEF row
    <3>2. job'[g].added \subseteq job[g].tasks
      BY Zenon, <1>4, <3>1
    <3> QED BY ZenonT(60), <1>2, <1>4, <1>8, <3>1, <3>2 DEF OwnPackage
  <2>2. OwnParts(g)'
    BY <1>1, <1>2, <1>4, <1>11 DEF OwnParts, Grows, Known, PartLines
  <2>3. OwnTools(g)'
    <3>1. ASSUME NEW l \in ToolLines(job[g].tasks)
          PROVE  /\ run[g].result[l] # "none"
                 /\ run[g].result[l] = "reserved" => Reserved(p, l)'
      <4>1. run[g].todo = {}
        BY DEF CommitTools, PublishRun
      <4>2. run[g].result[l] # "none"
        BY <1>1, <1>2, <4>1 DEF OwnTools
      <4>3. run[g].result[l] = "reserved" => Reserved(p, l)'
        BY <1>2, <1>9 DEF Reserved, Booking
      <4> QED BY <4>2, <4>3
    <3> QED BY <1>4, <1>10, <3>1 DEF OwnTools, ToolLines, Reserved
  <2> QED BY ZenonT(60), <1>4, <2>1, <2>2, <2>3 DEF JobFits
<1>13. RowFits(p)'
  <2>1. ~package'[p].hangar /\ package'[p].source # NoCheck
    BY Zenon, <1>2, <1>8 DEF OwnPackage
  <2>2. \A t \in MpdTasks :
           /\ package'[p].parts[t] = "ok" => <<p, t>> \in promised'
           /\ package'[p].parts[t] = "purchase_required" /\ Known(t) => <<p, t>> \in wanted'
    <3> SUFFICES ASSUME NEW t \in MpdTasks
                 PROVE  /\ package'[p].parts[t] = "ok" => <<p, t>> \in promised'
                        /\ package'[p].parts[t] = "purchase_required" /\ Known(t) => <<p, t>> \in wanted'
      BY Zenon
    <3>1. promised \subseteq promised' /\ wanted \subseteq wanted'
      BY Zenon, <1>11 DEF Grows
    <3>2. /\ row.parts[t] = "ok" => <<p, t>> \in promised
          /\ row.parts[t] = "purchase_required" /\ Known(t) => <<p, t>> \in wanted
      BY Zenon, <1>2 DEF RowFits
    <3>3. /\ job[g].parts[t] = "ok" => <<p, t>> \in promised
          /\ job[g].parts[t] = "purchase_required" /\ Known(t) => <<p, t>> \in wanted
      BY Zenon, <1>2 DEF OwnParts
    <3> HIDE DEF row
    <3>4. package'[p].parts[t] \in {row.parts[t], job[g].parts[t], "shortage"}
      BY Zenon, <1>8
    <3> DEFINE a == package'[p].parts[t]
               b == row.parts[t]
               c == job[g].parts[t]
    <3> HIDE DEF a, b, c
    <3>5. /\ a = "ok" => b = "ok" \/ c = "ok"
          /\ a = "purchase_required" => b = "purchase_required" \/ c = "purchase_required"
      BY <3>4 DEF a, b, c
    <3> QED BY Zenon, <3>1, <3>2, <3>3, <3>5 DEF a, b, c
  <2> QED BY <2>1, <2>2 DEF RowFits, Known
<1> QED BY <1>1, <1>2, <1>4, <1>5, <1>10, <1>11, <1>12, <1>13, OwnStepKeeps DEF CommitTools

LEMMA FinishKeeps ==
    ASSUME GenerationInv, NEW g \in Planners, Finish(g)
    PROVE  GenerationInv'
<1>0. PICK p, c : p = job[g].package /\ c = job[g].check
  OBVIOUS
<1> DEFINE row == package[p]
           put == WithParts(row, g)
           tools == WithTools(put, g)
<1>1. Works(g) /\ job[g].step = "finish"
  BY DEF Finish, At, Works
<1>2. /\ p = job[g].package /\ job[g] \in Jobs /\ p \in Packages /\ c = job[g].check
      /\ c \in Checks /\ row \in PackageRows /\ row.source # NoCheck
      /\ OwnPackage(g) /\ OwnParts(g) /\ OwnTools(g) /\ RowFits(p)
  BY <1>0, <1>1, Working DEF OwnPackage
<1>3. /\ put \in PackageRows
      /\ \A t \in MpdTasks :
            /\ put.parts[t] = IF t \in PartLines(job[g].tasks) THEN job[g].parts[t]
                              ELSE WithAdded(row, g).parts[t]
            /\ put.tools[t] = WithAdded(row, g).tools[t]
      /\ put.source = row.source /\ put.order = row.order /\ put.cards = row.cards
  BY <1>2, PartLinesPut DEF GenerationInv
<1>4. \A t \in MpdTasks :
         /\ WithAdded(row, g).parts[t] = IF t \in PartLines(job[g].added)
                                           THEN "shortage" ELSE row.parts[t]
         /\ WithAdded(row, g).tools[t] = IF t \in ToolLines(job[g].added)
                                           THEN "reserved" ELSE row.tools[t]
  BY <1>2, AddedLines DEF GenerationInv
<1> HIDE DEF put
<1>5. /\ tools \in PackageRows
      /\ \A t \in MpdTasks :
            /\ tools.parts[t] = put.parts[t]
            /\ tools.tools[t] = IF t \in ToolLines(job[g].tasks) THEN run[g].result[t]
                                ELSE put.tools[t]
      /\ tools.source = row.source /\ tools.order = row.order /\ tools.cards = row.cards
  BY <1>3, ToolLinesPut DEF GenerationInv
<1>6. /\ package' = [package EXCEPT ![p] = package'[p]]
      /\ package'[p] = [tools EXCEPT !.hangar = TRUE]
  <2>1. package' = [package EXCEPT ![p] = [tools EXCEPT !.hangar = TRUE]]
    BY <1>2 DEF Finish, put
  <2> HIDE DEF tools
  <2> QED BY <1>2, <2>1 DEF GenerationInv, RowTypes
<1> HIDE DEF tools
<1>7. /\ package'[p] \in PackageRows /\ package'[p].hangar
      /\ package'[p].source = row.source /\ package'[p].order = row.order
      /\ package'[p].cards = row.cards
      /\ package'[p].parts = tools.parts /\ package'[p].tools = tools.tools
  BY <1>5, <1>6 DEF PackageRows
\* Each line of a task of the job has what the planning found, the others have nothing.
<1>8. \A t \in MpdTasks :
         /\ package'[p].parts[t] = IF t \in PartLines(job[g].tasks) THEN job[g].parts[t]
                                   ELSE "none"
         /\ package'[p].tools[t] = IF t \in ToolLines(job[g].tasks) THEN run[g].result[t]
                                   ELSE "none"
  <2>1. \A t \in MpdTasks : /\ row.parts[t] # "none" => t \in PartLines(job[g].tasks)
                            /\ row.tools[t] # "none" => t \in ToolLines(job[g].tasks)
    BY <1>2 DEF OwnPackage
  <2>2. /\ PartLines(job[g].added) \subseteq PartLines(job[g].tasks)
        /\ ToolLines(job[g].added) \subseteq ToolLines(job[g].tasks)
    BY <1>2 DEF OwnPackage, PartLines, ToolLines
  <2> QED BY <1>3, <1>4, <1>5, <1>7, <2>1, <2>2
<1>9. /\ \A t \in PartLines(job[g].tasks) : job[g].parts[t] # "none"
      /\ \A t \in ToolLines(job[g].tasks) :
            /\ run[g].result[t] # "none"
            /\ run[g].result[t] = "reserved" => Reserved(p, t)
  BY <1>1, <1>2 DEF OwnParts, OwnTools
<1>10. job' = [job EXCEPT ![g] = Idle] /\ run' = [run EXCEPT ![g] = NoRun]
  BY DEF Finish
<1>11. /\ check' = [check EXCEPT ![c] = [status |-> "in_work", generated |-> p]]
       /\ [status |-> "in_work", generated |-> p] \in CheckRows
  BY <1>2 DEF Finish, CheckRows
<1>12. RowTypes'
  <2>1. CribTypeOK'
    BY <1>10, IdleTyped DEF GenerationInv, RowTypes, CribTypeOK, Finish
  <2>2. package' \in [Packages -> PackageRows] /\ check' \in [Checks -> CheckRows]
    BY <1>6, <1>7, <1>11 DEF GenerationInv, RowTypes
  <2>3. job' \in [Planners -> Jobs]
    BY <1>10, IdleTyped DEF GenerationInv, RowTypes
  <2> QED BY <2>1, <2>2, <2>3 DEF GenerationInv, RowTypes, Finish
<1>13. JobFits(g)' /\ ~Works(g)'
  BY ZenonT(60), <1>10, IdleTyped DEF GenerationInv, RowTypes, JobFits, Works
<1>14. OneJob(g, p)
  <2>1. Grows
    BY DEF Grows, Reserved, Finish
  <2>2. \A h \in Planners \ {g} : job'[h] = job[h] /\ run'[h] = run[h]
    BY <1>10 DEF GenerationInv, RowTypes, CribTypeOK
  <2>3. \A h \in Planners \ {g} : Works(h) => job[h].package # p
    BY <1>1, <1>2 DEF GenerationInv, Apart
  <2>4. \A q \in Packages \ {p} : package'[q] = package[q]
    BY <1>6 DEF GenerationInv, RowTypes
  <2> QED BY <1>13, <2>1, <2>2, <2>3, <2>4 DEF OneJob
<1>15. RowFits(p)'
  <2>1. \A t \in MpdTasks :
           /\ package'[p].parts[t] = "ok" => <<p, t>> \in promised'
           /\ package'[p].parts[t] = "purchase_required" /\ Known(t) => <<p, t>> \in wanted'
    BY <1>2, <1>8 DEF OwnParts, Finish, Known
  <2>2. \A t \in MpdTasks : package'[p].tools[t] = "reserved" => Reserved(p, t)'
    BY <1>8, <1>9 DEF Reserved, Finish
  <2> QED BY <1>2, <1>7, <2>1, <2>2 DEF RowFits, Known
<1>16. LinkedPackageIsWhole'
  <2>1. ASSUME NEW d \in Checks, check'[d].generated # NoPackage
        PROVE  LET new == package'[check'[d].generated]
               IN /\ new.source = d /\ new.order /\ new.hangar
                  /\ \A t \in new.cards : /\ (PartOf[t] # NoPart) = (new.parts[t] # "none")
                                          /\ (ToolOf[t] # NoTool) = (new.tools[t] # "none")
    <3>1. CASE d = c
      <4>1. check'[d].generated = p
        BY <1>11, <3>1, <1>2 DEF GenerationInv, RowTypes
      <4>2. package'[p].source = d /\ package'[p].order /\ package'[p].hangar
        BY <1>1, <1>2, <1>7, <3>1 DEF OwnPackage
      <4>3. ASSUME NEW t \in package'[p].cards
            PROVE  /\ (PartOf[t] # NoPart) = (package'[p].parts[t] # "none")
                   /\ (ToolOf[t] # NoTool) = (package'[p].tools[t] # "none")
        <5>1. t \in job[g].tasks /\ t \in MpdTasks
          BY <1>2, <1>7 DEF OwnPackage, Jobs
        <5>2. /\ t \in PartLines(job[g].tasks) <=> PartOf[t] # NoPart
              /\ t \in ToolLines(job[g].tasks) <=> ToolOf[t] # NoTool
          BY <5>1 DEF PartLines, ToolLines
        <5> QED BY <1>8, <1>9, <5>1, <5>2
      <4> QED BY <4>1, <4>2, <4>3
    <3>2. CASE d # c
      <4>1. check'[d] = check[d] /\ check[d].generated \in Packages
        BY <1>11, <2>1, <3>2 DEF GenerationInv, RowTypes, CheckRows
      <4>2. package[check[d].generated].hangar
        BY <2>1, <4>1 DEF GenerationInv, LinkedPackageIsWhole
      <4>3. package'[check[d].generated] = package[check[d].generated]
        BY <1>2, <1>6, <4>1, <4>2 DEF OwnPackage, GenerationInv, RowTypes
      <4> QED BY <2>1, <4>1, <4>3 DEF GenerationInv, LinkedPackageIsWhole
    <3> QED BY <3>1, <3>2
  <2> QED BY <2>1 DEF LinkedPackageIsWhole
<1> QED BY <1>2, <1>12, <1>13, <1>14, <1>15, <1>16, OneJobFits

LEMMA GenerationStart == PlanInit => GenerationInv
<1> SUFFICES ASSUME PlanInit
             PROVE  GenerationInv
  OBVIOUS
<1>1. CribTypeOK
  BY CribAssumption, IdleTyped
     DEF PlanInit, CribInit, CribTypeOK, ToolRows, BookingRows, Days
<1>2. RowTypes
  BY <1>1, IdleTyped, BlankTyped DEF PlanInit, RowTypes, CheckRows
<1>3. \A g \in Planners : JobFits(g) /\ ~Works(g)
  BY IdleTyped DEF PlanInit, JobFits, Works
<1>4. \A p \in Packages : RowFits(p)
  BY BlankTyped DEF PlanInit, RowFits, NoneYet
<1>5. Apart /\ LinkedPackageIsWhole
  BY <1>3 DEF PlanInit, Apart, LinkedPackageIsWhole
<1> QED BY <1>2, <1>3, <1>4, <1>5 DEF GenerationInv

LEMMA GenerationStep == GenerationInv /\ [PlanNext]_allVars => GenerationInv'
<1> SUFFICES ASSUME GenerationInv, [PlanNext]_allVars
             PROVE  GenerationInv'
  OBVIOUS
<1>1. ASSUME NEW g \in Planners, GenerateNext(g)
      PROVE  GenerationInv'
  BY <1>1, BeginKeeps, MakePackageKeeps, MakeOrderKeeps, MakeCardKeeps, MakeGeneralCardKeeps,
     PlanMaterialsKeeps, NoMaterialsKeeps, PlanToolsKeeps, CommitToolsKeeps, FinishKeeps,
     StopKeeps DEF GenerateNext
<1>2. CASE UNCHANGED allVars
  <2>1. CribTypeOK'
    BY <1>2 DEF allVars, cribVars, GenerationInv, RowTypes, CribTypeOK
  <2>2. \A p \in Packages, t \in MpdTasks : Reserved(p, t) => Reserved(p, t)'
    BY <1>2 DEF allVars, cribVars, Reserved
  <2> QED BY <1>2, <2>1, <2>2, BesideKeeps DEF allVars, cribVars, planVars
<1> QED BY <1>1, <1>2, CribStepKeeps, ShelfKeeps DEF PlanNext

LEMMA GenerationAlways == PlanSpec => []GenerationInv
BY GenerationStart, GenerationStep, PTL DEF PlanSpec

\* The material planning takes no more pieces from the shelf than there are.
LEMMA ShelfTyped ==
    ASSUME IsFiniteSet(Lines), GenerationInv, shelf \in [KnownParts -> 0 .. MaxShelf],
           [PlanNext]_allVars
    PROVE  shelf' \in [KnownParts -> 0 .. MaxShelf]
<1>1. ASSUME NEW g \in Planners, PlanMaterials(g)
      PROVE  shelf' \in [KnownParts -> 0 .. MaxShelf]
  <2> DEFINE lines == PartLines(job[g].tasks)
  <2>1. PICK S \in Supplied(lines) :
           shelf' = [q \in KnownParts |-> shelf[q] - Cardinality({t \in S : PartOf[t] = q})]
    BY <1>1 DEF PlanMaterials
  <2>2. lines \subseteq Lines
    BY DEF GenerationInv, RowTypes, Jobs, PartLines, MpdTasks
  <2>3. S \subseteq lines
    BY <2>1 DEF Supplied
  <2>4. ASSUME NEW q \in KnownParts
        PROVE  shelf[q] - Cardinality({t \in S : PartOf[t] = q}) \in 0 .. MaxShelf
    <3> DEFINE asking == {t \in lines : PartOf[t] = q}
               taken == {t \in S : PartOf[t] = q}
    <3>1. taken = S \cap asking
      BY <2>3
    <3>2. Cardinality(asking) \in Nat /\ Cardinality(taken) \in Nat
      <4>1. IsFiniteSet(asking) /\ IsFiniteSet(taken)
        BY <2>2, <2>3, FS_Subset
      <4> QED BY <4>1, FS_CardinalityType
    <3>3. Cardinality(taken) =
             IF Cardinality(asking) < shelf[q] THEN Cardinality(asking) ELSE shelf[q]
      BY <2>1, <3>1 DEF Supplied
    <3>4. shelf[q] \in 0 .. MaxShelf /\ MaxShelf \in Nat
      BY PlanningAssumption
    <3> HIDE DEF asking, taken
    <3>5. shelf[q] - Cardinality(taken) \in 0 .. MaxShelf
      BY <3>2, <3>3, <3>4
    <3> QED BY <3>5 DEF taken
  <2> QED BY <2>1, <2>4
<1>2. ASSUME NEW q \in KnownParts, NEW n \in 0 .. MaxShelf, ShelfChanges(q, n)
      PROVE  shelf' \in [KnownParts -> 0 .. MaxShelf]
  BY <1>2 DEF ShelfChanges
<1> QED BY ZenonT(60), <1>1, <1>2
        DEF PlanNext, GenerateNext, planVars, allVars, BeginGenerate, MakePackage, MakeOrder,
            MakeCard, MakeGeneralCard, NoMaterials, PlanTools, CommitTools, Finish, Stop

\* The tables of planning and of the tool crib keep their types, whatever the programs and
\* the number of requests; in particular no shelf is left with less than nothing
\* (run_material_planning).
THEOREM GenerationTypes == ASSUME IsFiniteSet(Lines) PROVE PlanSpec => []PlanTypeOK
<1>1. PlanInit => shelf \in [KnownParts -> 0 .. MaxShelf]
  BY DEF PlanInit
<1>2. GenerationInv /\ shelf \in [KnownParts -> 0 .. MaxShelf] /\ [PlanNext]_allVars
        => (shelf \in [KnownParts -> 0 .. MaxShelf])'
  BY ShelfTyped
<1>3. GenerationInv /\ shelf \in [KnownParts -> 0 .. MaxShelf] => PlanTypeOK
  BY DEF GenerationInv, RowTypes, PlanTypeOK
<1> QED BY <1>1, <1>2, <1>3, GenerationAlways, PTL DEF PlanSpec

\* The package a maintenance check points to was made from that check and is whole, however
\* many requests generate packages at once and wherever they stop between their commits
\* (generate_work_package_from_check).
THEOREM PackagesWhole == PlanSpec => []LinkedPackageIsWhole
<1>1. GenerationInv => LinkedPackageIsWhole
  BY DEF GenerationInv
<1> QED BY <1>1, GenerationAlways, PTL

\* A parts plan line never promises a piece that is not reserved, nor a purchase nobody was
\* asked for, although line, reservation and request are committed apart
\* (run_material_planning, _apply_logistics_planning).
THEOREM PartsHeld == PlanSpec => []PartsPromised
<1>1. GenerationInv => PartsPromised
  BY Zenon DEF GenerationInv, RowFits, PartsPromised, Known
<1> QED BY <1>1, GenerationAlways, PTL

\* A tool plan line of a finished package says reserved only if the tool was booked for the
\* package, whatever happened to the tool between its reading and the commit
\* (run_tool_planning, _apply_logistics_planning).
THEOREM ToolsHeld == PlanSpec => []ToolsPromised
<1>1. GenerationInv => ToolsPromised
  BY DEF GenerationInv, RowFits, ToolsPromised, Reserved
<1> QED BY <1>1, GenerationAlways, PTL

-----------------------------------------------------------------------------
(* What is due, and who shows it                                           *)

\* The forecast being read: every item asked for whose kind has been read, that it
\* concerns and that was not crowded out, is in the list its dates and hours call for.
ListedRightly ==
    \A i \in view.asked :
        /\ i \in Items /\ Recorded(i)
        /\ \A n \in 1 .. 5 :
              n < view.step /\ KindOf[i] = Kinds[n] /\ Concerns(i) /\ ~CrowdedOut(i)
                => view.bucket[i] = BucketOf(item[i])

ForecastInv == ForecastTypeOK /\ ListedRightly

\* The kinds are in a list without repetition.
LEMMA KindsListed ==
    /\ \A m, n \in 1 .. 5 : Kinds[m] = Kinds[n] => m = n
    /\ \A k \in KindSet : \E n \in 1 .. 5 : k = Kinds[n]
    /\ \A n \in 1 .. 5 : Kinds[n] \in KindSet
<1>1. /\ Kinds[1] = "check" /\ Kinds[2] = "ad" /\ Kinds[3] = "sb" /\ Kinds[4] = "eo"
      /\ Kinds[5] = "defect"
  BY DEF Kinds
<1>2. \A n \in 1 .. 5 : n \in {1, 2, 3, 4, 5}
  OBVIOUS
<1> QED BY <1>1, <1>2 DEF KindSet

\* What stays of a row that is there: its table, its dates, its aircraft.
RowsStay ==
    \A i \in Items : Recorded(i) =>
        /\ Recorded(i)' /\ item'[i].due = item[i].due
        /\ item'[i].hours = item[i].hours /\ item'[i].craft = item[i].craft

\* An item once crowded out stays so.
LEMMA StillCrowded ==
    ASSUME RowsStay, NEW i \in Items, Recorded(i), CrowdedOut(i)
    PROVE  CrowdedOut(i)'
<1>1. PICK page \in SUBSET {j \in Items \ {i} :
                              Recorded(j) /\ KindOf[j] = KindOf[i] /\ NotLater(j, i)} :
         Cardinality(page) = PageLimit[KindOf[i]]
  BY DEF CrowdedOut
<1>2. \A j \in page : Recorded(j)' /\ NotLater(j, i)'
  BY <1>1 DEF RowsStay, NotLater
<1>3. page \in SUBSET {j \in Items \ {i} :
                         Recorded(j) /\ KindOf[j] = KindOf[i] /\ NotLater(j, i)}'
  BY <1>1, <1>2
<1> QED BY <1>1, <1>3 DEF CrowdedOut

\* A handler that writes a row leaves the forecast being read right.
LEMMA WriterKeeps ==
    ASSUME ForecastInv, ForecastTypeOK', RowsStay, view' = view
    PROVE  ForecastInv'
<1> SUFFICES ASSUME NEW i \in view.asked
             PROVE  /\ Recorded(i)'
                    /\ \A n \in 1 .. 5 :
                          n < view.step /\ KindOf[i] = Kinds[n] /\ Concerns(i)' /\ ~CrowdedOut(i)'
                            => view.bucket[i] = BucketOf(item[i])'
  BY DEF ForecastInv, ListedRightly
<1>1. i \in Items /\ Recorded(i) /\ Recorded(i)'
  BY DEF ForecastInv, ListedRightly, RowsStay
<1>2. item'[i].due = item[i].due /\ item'[i].hours = item[i].hours /\ item'[i].craft = item[i].craft
  BY <1>1 DEF RowsStay
<1>3. Concerns(i)' <=> Concerns(i)
  BY <1>2 DEF Concerns
<1>4. BucketOf(item[i])' = BucketOf(item[i])
  BY <1>2 DEF BucketOf, HoursOut, Urgency, SoonOf, HorizonOf
<1>5. ~CrowdedOut(i)' => ~CrowdedOut(i)
  BY <1>1, StillCrowded
<1> QED BY <1>1, <1>3, <1>4, <1>5 DEF ForecastInv, ListedRightly

\* A new row, of the type of the table, harms no other.
LEMMA AddedKeeps ==
    ASSUME ForecastInv, NEW i \in Items, NEW status \in Statuses \ {"absent"},
           NEW due \in Int \cup {NoDue}, NEW hours \in Nat \cup {NoHours},
           NEW craft \in Aircraft \cup {AnyCraft}, Added(i, status, due, hours, craft)
    PROVE  ForecastInv'
<1> DEFINE row == [status |-> status, due |-> due, hours |-> hours, craft |-> craft]
<1>1. row \in ItemRows
  BY DEF ItemRows
<1>2. item' = [item EXCEPT ![i] = row] /\ ~Recorded(i)
  BY DEF Added
<1> HIDE DEF row
<1>3. ForecastTypeOK'
  BY <1>1, <1>2 DEF ForecastInv, ForecastTypeOK, Added
<1>4. RowsStay
  BY <1>2 DEF RowsStay, Recorded, ForecastInv, ForecastTypeOK
<1> QED BY <1>3, <1>4, WriterKeeps DEF Added

\* A new status harms no row.
LEMMA StatusKeeps ==
    ASSUME ForecastInv, NEW i \in Items, NEW status \in Statuses \ {"absent"},
           item' = [item EXCEPT ![i].status = status], UNCHANGED <<util, now, view>>
    PROVE  ForecastInv'
<1>1. item'[i] \in ItemRows
  BY DEF ForecastInv, ForecastTypeOK, ItemRows
<1>2. ForecastTypeOK'
  BY <1>1 DEF ForecastInv, ForecastTypeOK
<1>3. RowsStay
  BY DEF RowsStay, Recorded, ForecastInv, ForecastTypeOK, ItemRows
<1> QED BY <1>2, <1>3, WriterKeeps

\* The first page of a query holds every row that a full page does not precede.
LEMMA FirstPage ==
    ASSUME NEW S, IsFiniteSet(S), NEW limit \in Nat, NEW page \in SUBSET S,
           Cardinality(page) = IF Cardinality(S) < limit THEN Cardinality(S) ELSE limit,
           NEW i \in S, i \notin page
    PROVE  Cardinality(page) = limit
<1>1. Cardinality(S) < limit => page = S
  BY FS_Subset
<1> QED BY <1>1

LEMMA ReadPageKeeps ==
    ASSUME IsFiniteSet(Items), ForecastInv, ReadPage
    PROVE  ForecastInv'
<1> DEFINE kind == Kinds[view.step]
<1>1. view.step \in 1 .. 5 /\ kind \in KindSet /\ item' = item /\ util' = util /\ now' = now
  BY Zenon, KindsListed DEF ReadPage
<1>2. PICK page \in Pages(kind) :
         view' = [view EXCEPT !.step = @ + 1,
                              !.bucket = [i \in Items |->
                                  IF i \in page /\ Concerns(i) THEN BucketOf(item[i]) ELSE @[i]]]
  BY Zenon DEF ReadPage
<1> HIDE DEF kind
<1> DEFINE bucket == [i \in Items |->
                        IF i \in page /\ Concerns(i) THEN BucketOf(item[i]) ELSE view.bucket[i]]
<1>3. view \in Views
  BY DEF ForecastInv, ForecastTypeOK
<1>4. bucket \in [Items -> Buckets]
  <2>1. \A i \in Items : BucketOf(item[i]) \in Buckets
    BY DEF BucketOf, Urgency, Buckets
  <2> QED BY <1>3, <2>1 DEF Views
<1>5. view' = [view EXCEPT !.step = view.step + 1, !.bucket = bucket]
  BY <1>2
<1> HIDE DEF bucket
<1>6. /\ view' \in Views /\ view'.step = view.step + 1 /\ view'.bucket = bucket
      /\ view'.day = view.day /\ view'.horizon = view.horizon /\ view'.craft = view.craft
      /\ view'.hours = view.hours /\ view'.asked = view.asked
  <2>1. PICK step \in 0 .. 6 : step = view.step + 1
    BY <1>1
  <2> QED BY <1>3, <1>4, <1>5, <2>1 DEF Views
<1>7. ForecastTypeOK'
  BY <1>1, <1>6 DEF ForecastInv, ForecastTypeOK
<1>8. ASSUME NEW i \in Items
      PROVE  /\ Concerns(i)' <=> Concerns(i)
             /\ CrowdedOut(i)' <=> CrowdedOut(i)
             /\ BucketOf(item[i])' = BucketOf(item[i])
  BY <1>1, <1>6
     DEF Concerns, CrowdedOut, NotLater, Recorded, BucketOf, HoursOut, Urgency, SoonOf, HorizonOf
<1>9. ASSUME NEW i \in view.asked, KindOf[i] = kind, Concerns(i), ~CrowdedOut(i)
      PROVE  i \in page
  <2> DEFINE S == RowsOf(kind)
  <2>1. i \in S /\ S \subseteq Items /\ IsFiniteSet(S)
    <3>1. i \in Items /\ Recorded(i)
      BY DEF ForecastInv, ListedRightly
    <3> QED BY <1>9, <3>1, FS_Subset DEF RowsOf
  <2>2. /\ page \in SUBSET S
        /\ Cardinality(page) = IF Cardinality(S) < PageLimit[kind] THEN Cardinality(S)
                               ELSE PageLimit[kind]
        /\ \A j \in page, k \in S \ page : NotLater(j, k)
    BY DEF Pages
  <2>3. PageLimit[kind] \in Nat
    BY <1>1, ForecastAssumption
  <2> SUFFICES ASSUME i \notin page
               PROVE  FALSE
    OBVIOUS
  <2>4. Cardinality(page) = PageLimit[KindOf[i]]
    <3> HIDE DEF S
    <3> QED BY <1>9, <2>1, <2>2, <2>3, FirstPage
  <2>5. page \in SUBSET {j \in Items \ {i} :
                           Recorded(j) /\ KindOf[j] = KindOf[i] /\ NotLater(j, i)}
    BY <1>9, <2>1, <2>2 DEF RowsOf
  <2> QED BY <1>9, <2>4, <2>5 DEF CrowdedOut
<1>10. ASSUME NEW i \in view.asked, NEW n \in 1 .. 5, n < view.step + 1,
              KindOf[i] = Kinds[n], Concerns(i), ~CrowdedOut(i)
       PROVE  bucket[i] = BucketOf(item[i])
  <2>1. i \in Items
    BY DEF ForecastInv, ListedRightly
  <2>2. CASE n = view.step
    BY <1>9, <1>10, <2>1, <2>2 DEF kind, bucket
  <2>3. CASE n < view.step
    BY <1>10, <2>1, <2>3 DEF ForecastInv, ListedRightly, bucket
  <2> QED BY <1>1, <1>10, <2>2, <2>3
<1>11. ListedRightly'
  <2>1. \A i \in view.asked : i \in Items /\ Recorded(i)
    BY DEF ForecastInv, ListedRightly
  <2> QED BY <1>1, <1>6, <1>8, <1>10, <2>1 DEF ListedRightly, Recorded
<1> QED BY <1>7, <1>11 DEF ForecastInv

LEMMA BeginForecastKeeps ==
    ASSUME ForecastInv, NEW horizon \in Horizons, NEW craft \in Aircraft \cup {AnyCraft},
           BeginForecast(horizon, craft)
    PROVE  ForecastInv'
<1> DEFINE hours == [a \in Aircraft |-> IF util[a].known THEN util[a].hours ELSE NoHours]
           asked == {i \in Items : Recorded(i)}
<1>1. hours \in [Aircraft -> 0 .. MaxHours \cup {NoHours}]
  BY DEF ForecastInv, ForecastTypeOK, UtilRows
<1>2. view' = [NoView EXCEPT !.step = 1, !.day = now, !.horizon = horizon, !.craft = craft,
                             !.hours = hours, !.asked = asked]
  BY DEF BeginForecast
<1> HIDE DEF hours, asked
<1>3. /\ view' = [step |-> 1, day |-> now, horizon |-> horizon, craft |-> craft, hours |-> hours,
                  bucket |-> [i \in Items |-> "unlisted"], asked |-> asked]
  BY <1>2 DEF NoView
<1>4. asked \subseteq Items /\ \A i \in asked : Recorded(i)
  BY DEF asked
<1>5. view' \in Views /\ view'.step = 1 /\ view'.asked = asked
  <2>1. [i \in Items |-> "unlisted"] \in [Items -> Buckets]
    BY DEF Buckets
  <2>2. now \in Calendar
    BY DEF ForecastInv, ForecastTypeOK
  <2> QED BY <1>1, <1>3, <1>4, <2>1, <2>2 DEF Views
<1>6. ForecastTypeOK'
  BY <1>5 DEF ForecastInv, ForecastTypeOK, BeginForecast
<1>7. ListedRightly'
  BY <1>4, <1>5 DEF ListedRightly, Recorded, BeginForecast
<1> QED BY <1>6, <1>7 DEF ForecastInv

\* The dates and hours the handlers compute.
LEMMA NextDue ==
    ASSUME ForecastTypeOK
    PROVE  /\ \A interval \in Intervals \cup {NoDue}, lastDone \in {FirstDay, NoDue} :
                 NextDate(interval, lastDone) \in Int \cup {NoDue}
           /\ \A a \in Aircraft, interval \in Intervals \cup {NoHours}, lastHours \in {1, NoHours} :
                 NextHours(a, interval, lastHours) \in Nat \cup {NoHours}
           /\ \A due : StatusOf(due) \in Statuses \ {"absent"}
           /\ DueDates \subseteq Int \cup {NoDue}
<1> USE ForecastAssumption DEF ForecastTypeOK
<1>1. now \in Int
  BY DEF Calendar
<1>2. ASSUME NEW interval \in Intervals \cup {NoDue}, NEW lastDone \in {FirstDay, NoDue}
      PROVE  NextDate(interval, lastDone) \in Int \cup {NoDue}
  BY <1>1 DEF NextDate
<1>3. ASSUME NEW a \in Aircraft, NEW interval \in Intervals \cup {NoHours},
             NEW lastHours \in {1, NoHours}
      PROVE  NextHours(a, interval, lastHours) \in Nat \cup {NoHours}
  <2>1. util[a].hours \in Nat
    BY DEF UtilRows
  <2> QED BY <2>1 DEF NextHours
<1>4. \A due : StatusOf(due) \in Statuses \ {"absent"}
  BY DEF StatusOf, Statuses
<1>5. DueDates \subseteq Int \cup {NoDue}
  BY DEF DueDates, Calendar
<1> QED BY <1>2, <1>3, <1>4, <1>5

LEMMA UtilizationKeeps ==
    ASSUME ForecastInv, NEW a \in Aircraft, NEW ops \in {"available", "grounded"},
           NEW hours \in 0 .. MaxHours \cup {NoHours}, UpsertUtilization(a, ops, hours)
    PROVE  ForecastInv'
<1> DEFINE row == [known |-> TRUE, ops |-> ops,
                   hours |-> IF hours = NoHours THEN util[a].hours ELSE hours,
                   light |-> IF ops = "grounded" THEN "red" ELSE util[a].light]
<1>1. row \in UtilRows
  BY DEF ForecastInv, ForecastTypeOK, UtilRows
<1>2. util' = [util EXCEPT ![a] = row]
  BY DEF UpsertUtilization
<1> HIDE DEF row
<1>3. ForecastTypeOK'
  BY Zenon, <1>1, <1>2 DEF ForecastInv, ForecastTypeOK, UpsertUtilization
<1> QED BY <1>3, WriterKeeps DEF UpsertUtilization, RowsStay, Recorded

LEMMA ClockKeeps ==
    ASSUME ForecastInv, ClockAdvances
    PROVE  ForecastInv'
<1>1. ForecastTypeOK'
  BY ForecastAssumption DEF ForecastInv, ForecastTypeOK, ClockAdvances, Calendar
<1> QED BY <1>1, WriterKeeps DEF ClockAdvances, RowsStay, Recorded

LEMMA ForecastStart == ForecastInit => ForecastInv
<1> SUFFICES ASSUME ForecastInit
             PROVE  ForecastInv
  BY Zenon
<1>1. 0 \in Calendar /\ 0 \in 0 .. MaxHours
  BY ForecastAssumption DEF Calendar
<1>2. Absent \in ItemRows
  BY DEF Absent, ItemRows, Statuses
<1>3. [known |-> FALSE, ops |-> "available", hours |-> 0, light |-> "green"] \in UtilRows
  BY <1>1 DEF UtilRows
<1>4. NoView \in Views /\ NoView.asked = {}
  <2>1. [i \in Items |-> "unlisted"] \in [Items -> Buckets]
    BY DEF Buckets
  <2> QED BY <1>1, <2>1 DEF NoView, Views
<1>5. ForecastTypeOK
  BY <1>1, <1>2, <1>3, <1>4 DEF ForecastInit, ForecastTypeOK
<1> QED BY <1>4, <1>5 DEF ForecastInit, ForecastInv, ListedRightly

LEMMA ForecastStep ==
    ASSUME IsFiniteSet(Items), ForecastInv, [ForecastNext]_forecastVars
    PROVE  ForecastInv'
<1>1. ASSUME NEW i \in Items, NEW a \in Aircraft, NEW interval \in Intervals \cup {NoDue},
             NEW lastDone \in {FirstDay, NoDue}, NEW byHours \in Intervals \cup {NoHours},
             NEW lastHours \in {1, NoHours},
             CreateCheck(i, a, interval, lastDone, byHours, lastHours)
      PROVE  ForecastInv'
  BY <1>1, NextDue, AddedKeeps DEF CreateCheck, ForecastInv
<1>2. ASSUME NEW i \in Items, NEW due \in DueDates, NEW craft \in Aircraft \cup {AnyCraft},
             CreateAd(i, due, craft)
      PROVE  ForecastInv'
  BY <1>2, NextDue, AddedKeeps DEF CreateAd, ForecastInv, Statuses
<1>3. ASSUME NEW i \in Items, NEW due \in DueDates, CreateSb(i, due)
      PROVE  ForecastInv'
  BY <1>3, NextDue, AddedKeeps DEF CreateSb, ForecastInv, Statuses
<1>4. ASSUME NEW i \in Items, NEW due \in DueDates, CreateEo(i, due)
      PROVE  ForecastInv'
  BY <1>4, NextDue, AddedKeeps DEF CreateEo, ForecastInv, Statuses
<1>5. ASSUME NEW i \in Items, ApproveEo(i)
      PROVE  ForecastInv'
  BY <1>5, StatusKeeps DEF ApproveEo, Statuses
<1>6. ASSUME NEW i \in Items, NEW a \in Aircraft, NEW expires \in DueDates,
             NEW interval \in Intervals \cup {NoDue}, NEW deferral \in {"mel", "none"},
             CreateDefect(i, a, expires, interval, deferral)
      PROVE  ForecastInv'
  <2>1. now \in Int
    BY DEF ForecastInv, ForecastTypeOK, Calendar
  <2>2. PICK status \in {"deferred", "open"}, due \in Int \cup {NoDue} :
           Added(i, status, due, NoHours, a)
    <3> DEFINE due == CASE expires # NoDue -> expires
                        [] expires = NoDue /\ interval # NoDue -> now + interval
                        [] OTHER -> NoDue
               status == IF deferral \in {"mel", "cdl"} THEN "deferred" ELSE "open"
    <3>1. due \in Int \cup {NoDue} /\ status \in {"deferred", "open"}
      BY <2>1, NextDue, ForecastAssumption DEF ForecastInv
    <3>2. Added(i, status, due, NoHours, a)
      BY <1>6 DEF CreateDefect
    <3> HIDE DEF due, status
    <3> QED BY <3>1, <3>2
  <2>3. status \in Statuses \ {"absent"}
    BY DEF Statuses
  <2> QED BY <2>2, <2>3, AddedKeeps
<1>7. ASSUME NEW i \in Items, TakeIntoWork(i)
      PROVE  ForecastInv'
  BY <1>7, StatusKeeps DEF TakeIntoWork, Statuses
<1>8. CASE UNCHANGED forecastVars
  <2>1. ForecastTypeOK'
    BY <1>8 DEF forecastVars, ForecastInv, ForecastTypeOK
  <2> QED BY <1>8, <2>1, WriterKeeps DEF forecastVars, RowsStay, Recorded
<1>9. ASSUME NEW a \in Aircraft, NEW ops \in {"available", "grounded"},
             NEW hours \in 0 .. MaxHours \cup {NoHours}, UpsertUtilization(a, ops, hours)
      PROVE  ForecastInv'
  BY <1>9, UtilizationKeeps
<1>10. ASSUME NEW horizon \in Horizons, NEW craft \in Aircraft \cup {AnyCraft},
              BeginForecast(horizon, craft)
       PROVE  ForecastInv'
  BY <1>10, BeginForecastKeeps
<1>11. ClockAdvances \/ ReadPage => ForecastInv'
  BY ClockKeeps, ReadPageKeeps
<1> QED BY <1>1, <1>2, <1>3, <1>4, <1>5, <1>6, <1>7, <1>8, <1>9, <1>10, <1>11 DEF ForecastNext

LEMMA ForecastAlways == ASSUME IsFiniteSet(Items) PROVE ForecastSpec => []ForecastInv
<1>1. ForecastInv /\ [ForecastNext]_forecastVars => ForecastInv'
  BY ForecastStep
<1> QED BY <1>1, ForecastStart, PTL DEF ForecastSpec

\* The rows of the five tables, the counters and the answer keep their types.
THEOREM ForecastTypes == ASSUME IsFiniteSet(Items) PROVE ForecastSpec => []ForecastTypeOK
<1>1. ForecastInv => ForecastTypeOK
  BY DEF ForecastInv
<1> QED BY <1>1, ForecastAlways, PTL

\* What is listed rightly is what the views promise.
LEMMA ListedShown ==
    ASSUME ForecastInv
    PROVE  OverdueIsShown /\ CountedIsListed
<1>1. ASSUME NEW i \in view.asked, view.step = 6, Concerns(i), ~CrowdedOut(i)
      PROVE  view.bucket[i] = BucketOf(item[i]) /\ i \in Items
  <2>1. PICK n \in 1 .. 5 : KindOf[i] = Kinds[n]
    BY ForecastAssumption, KindsListed DEF ForecastInv, ListedRightly
  <2>2. n < view.step
    BY <1>1, <2>1
  <2> QED BY <1>1, <2>1, <2>2 DEF ForecastInv, ListedRightly
<1>2. ASSUME NEW i \in view.asked
      PROVE  /\ item[i].due \in Int \cup {NoDue} /\ now \in Int /\ view.day \in Int
             /\ view.horizon \in Int /\ SoonOf(view.horizon) \in Int
  <2>1. item[i] \in ItemRows /\ view \in Views /\ now \in Calendar
    BY DEF ForecastInv, ForecastTypeOK, ListedRightly
  <2>2. view.horizon \in Horizons \cup {0} /\ view.day \in Calendar
    BY <2>1 DEF Views
  <2>3. Horizons \subseteq Int /\ SoonWindow \in Int /\ Calendar \subseteq Int
    BY ForecastAssumption DEF Calendar
  <2>4. item[i].due \in Int \cup {NoDue}
    BY <2>1 DEF ItemRows
  <2>5. view.horizon \in Int
    <3>1. CASE view.horizon = 0
      BY <3>1
    <3>2. CASE view.horizon \in Horizons
      BY <2>3, <3>2, Zenon
    <3> QED BY <2>2, <3>1, <3>2
  <2>6. SoonOf(view.horizon) \in Int
    BY <2>3, <2>5 DEF SoonOf
  <2> QED BY <2>1, <2>2, <2>3, <2>4, <2>5, <2>6
<1>3. OverdueIsShown
  <2> SUFFICES ASSUME view.step = 6, NEW i \in view.asked, Concerns(i), ~CrowdedOut(i)
               PROVE  /\ item[i].due # NoDue /\ item[i].due < view.day
                           => view.bucket[i] = "overdue"
                      /\ HoursOut(item[i]) => view.bucket[i] \in {"overdue", "due_soon"}
    BY DEF OverdueIsShown
  <2> DEFINE urgency == Urgency(item[i].due, view.day, SoonOf(view.horizon))
  <2>1. /\ urgency \in {"overdue", "due_soon", "future"}
        /\ item[i].due # NoDue /\ item[i].due < view.day => urgency = "overdue"
    BY <1>2 DEF Urgency
  <2>2. /\ urgency # "future" => BucketOf(item[i]) = urgency
        /\ urgency = "future" /\ HoursOut(item[i]) => BucketOf(item[i]) = "overdue"
    BY <2>1 DEF BucketOf
  <2> HIDE DEF urgency
  <2> QED BY <1>1, <2>1, <2>2
<1>4. CountedIsListed
  <2> SUFFICES ASSUME view.step = 6, view.day = now, view.horizon >= SoonWindow,
                      view.craft = AnyCraft, NEW i \in view.asked, KindOf[i] # "defect",
                      i \in Counted(KindOf[i]), ~CrowdedOut(i)
               PROVE  view.bucket[i] \in {"overdue", "due_soon"}
    BY DEF CountedIsListed
  <2>1. Concerns(i)
    BY DEF Concerns
  <2>2. view.bucket[i] = BucketOf(item[i]) /\ i \in Items
    BY <1>1, <2>1
  <2>3. item[i].due # NoDue /\ item[i].due <= now + SoonWindow
    BY DEF Counted
  <2>4. item[i].due \in Int /\ now \in Int /\ view.horizon \in Int /\ SoonWindow \in Nat
    BY <1>2, <2>3, ForecastAssumption
  <2>5. SoonOf(view.horizon) = SoonWindow
    BY <2>4 DEF SoonOf
  <2>6. Urgency(item[i].due, view.day, SoonOf(view.horizon)) \in {"overdue", "due_soon"}
    BY <2>3, <2>4, <2>5 DEF Urgency
  <2> QED BY <2>2, <2>6 DEF BucketOf
<1> QED BY <1>3, <1>4

\* Whatever page of the checks of an aircraft is read, a check that is counted is on it,
\* unless a full page is due no later.
LEMMA AttentionPaid ==
    ASSUME IsFiniteSet(Items)
    PROVE  CountedNeedsAttention
<1> SUFFICES ASSUME NEW i \in Counted("check"), NEW page \in StatusPages(item[i].craft),
                    ~(StatusLimit <= Cardinality({j \in ChecksOf(item[i].craft) \ {i} :
                                                     NotLater(j, i)}))
             PROVE  MaintenanceStatus(item[i].craft, page) # "ok"
  BY DEF CountedNeedsAttention
<1> DEFINE S == ChecksOf(item[i].craft)
           before == {j \in S \ {i} : NotLater(j, i)}
<1>1. i \in S /\ IsFiniteSet(S) /\ IsFiniteSet(before)
  BY FS_Subset DEF ChecksOf, Counted
<1>2. /\ page \in SUBSET S
      /\ Cardinality(page) = IF Cardinality(S) < StatusLimit THEN Cardinality(S) ELSE StatusLimit
      /\ \A j \in page, k \in S \ page : NotLater(j, k)
  BY DEF StatusPages
<1>3. i \in page
  <2> SUFFICES ASSUME i \notin page
               PROVE  FALSE
    OBVIOUS
  <2>1. Cardinality(page) = StatusLimit
    <3> HIDE DEF S
    <3> QED BY <1>1, <1>2, FirstPage, ForecastAssumption
  <2>2. page \subseteq before
    BY <1>1, <1>2
  <2>3. Cardinality(page) <= Cardinality(before)
    BY <1>1, <2>2, FS_Subset
  <2> QED BY <2>1, <2>3
<1>4. item[i].status \in {"planned", "due", "overdue"}
  BY DEF Counted
<1> QED BY <1>3, <1>4 DEF MaintenanceStatus

\* A finished forecast shows as overdue every item that is past its date, and as overdue or
\* due soon what has run out of hours, whatever was written between its queries, unless a
\* full page of items is due no later (PlanningService.forecast).
THEOREM ForecastShows == ASSUME IsFiniteSet(Items) PROVE ForecastSpec => []OverdueIsShown
<1>1. ForecastInv => OverdueIsShown
  BY ListedShown
<1> QED BY <1>1, ForecastAlways, PTL

\* The counts of the dashboard, the lists of the forecast and the state of the aircraft
\* agree, each with its own query and its own rule (planner_dashboard, forecast,
\* aircraft_status).
THEOREM ForecastAgrees == ASSUME IsFiniteSet(Items) PROVE ForecastSpec => []ViewsAgree
<1>1. ForecastInv => ViewsAgree
  BY ListedShown, AttentionPaid DEF ViewsAgree
<1> QED BY <1>1, ForecastAlways, PTL
=============================================================================

------------------------------ MODULE Planning ------------------------------
(***************************************************************************)
(* Work packages generated from maintenance checks                         *)
(* (backend/app/planning/service.py), with the material and tool planning  *)
(* of logistics they run.                                                  *)
(*                                                                         *)
(* generate_work_package_from_check locks the check and then calls the     *)
(* work order service, which commits: with the first commit the lock is    *)
(* gone.  The handler is cut at its commits.  The plan lines a card adds   *)
(* stay in the session and are committed by the next commit, whoever makes *)
(* it.  A handler may stop anywhere (an error, a crash); what it has       *)
(* committed remains.                                                      *)
(*                                                                         *)
(* A plan line is identified by its package and the MPD task it stands     *)
(* for.  Quantities are one piece per line, as the handler asks.           *)
(***************************************************************************)
EXTENDS ToolCrib

CONSTANTS Checks,     \* identifiers of maintenance checks
          Program,    \* the checks that have a maintenance program revision
          Parts,      \* part numbers
          KnownParts, \* those in the part master
          PartOf,     \* the part number an MPD task requires, NoPart for none
          MaxCards,   \* max_job_cards of the request
          MaxShelf,   \* bound: pieces available of one part
          NoPart, NoPackage, NoCheck

\* MPD tasks are the Lines of ToolCrib: each may name a tool and a part.
MpdTasks == Lines

ASSUME PlanningAssumption ==
    /\ Program \subseteq Checks /\ KnownParts \subseteq Parts
    /\ PartOf \in [MpdTasks -> Parts \cup {NoPart}]
    /\ MaxCards \in Nat \ {0} /\ MaxShelf \in Nat
    /\ NoPart \notin Parts /\ NoPackage \notin Packages /\ NoCheck \notin Checks

VARIABLES check,    \* maintenance_checks
          package,  \* work packages with their orders, cards, plan lines
          shelf,    \* available quantity of each part of the master
          promised, \* reservations of work packages: <<package, task>>
          wanted,   \* lines of automatic purchase requests: <<package, task>>
          job       \* generate_work_package_from_check under way, by planner

planVars == <<check, package, shelf, promised, wanted, job>>
allVars == <<cribVars, planVars>>

Steps == {"idle", "package", "order", "general", "cards", "materials", "tools", "finish"}
PartResults == {"none", "shortage", "ok", "purchase_required"}
CheckRows == [status : {"planned", "in_work"}, generated : Packages \cup {NoPackage}]
PackageRows ==
    [source : Checks \cup {NoCheck}, order : BOOLEAN, cards : SUBSET MpdTasks, general : BOOLEAN,
     parts : [MpdTasks -> PartResults], tools : [MpdTasks -> LineResults], hangar : BOOLEAN]
Jobs ==
    [step : Steps, check : Checks \cup {NoCheck}, package : Packages \cup {NoPackage},
     tasks : SUBSET MpdTasks, added : SUBSET MpdTasks, parts : [MpdTasks -> PartResults]]

NoneYet == [t \in MpdTasks |-> "none"]
NoPackageRow ==
    [source |-> NoCheck, order |-> FALSE, cards |-> {}, general |-> FALSE,
     parts |-> NoneYet, tools |-> NoneYet, hangar |-> FALSE]
Idle == [step |-> "idle", check |-> NoCheck, package |-> NoPackage, tasks |-> {}, added |-> {},
         parts |-> NoneYet]

PlanInit ==
    /\ CribInit
    /\ check = [c \in Checks |-> [status |-> "planned", generated |-> NoPackage]]
    /\ package = [p \in Packages |-> NoPackageRow]
    /\ shelf \in [KnownParts -> 0 .. MaxShelf]
    /\ promised = {}
    /\ wanted = {}
    /\ job = [g \in Planners |-> Idle]

-----------------------------------------------------------------------------
(* Helpers                                                                 *)

At(g, step) == job[g].step = step
Fresh == {p \in Packages : package[p].source = NoCheck}

\* FOR UPDATE holds the check from the read to the commit of the package.
CheckFree(c) == \A g \in Planners : ~(At(g, "package") /\ job[g].check = c)

PartLines(T) == {t \in T : PartOf[t] # NoPart}
ToolLines(T) == {t \in T : ToolOf[t] # NoTool}

\* The plan lines as they are created: parts short, tools reserved.
InitialParts(T) == [t \in MpdTasks |-> IF t \in PartLines(T) THEN "shortage" ELSE "none"]
InitialTools(T) == [t \in MpdTasks |-> IF t \in ToolLines(T) THEN "reserved" ELSE "none"]

Merged(old, T, new) == [t \in MpdTasks |-> IF t \in T THEN new[t] ELSE old[t]]

\* A commit of the session takes the plan lines added so far with it.
WithAdded(row, g) ==
    LET T == job[g].added
    IN [row EXCEPT !.parts = Merged(@, PartLines(T), InitialParts(T)),
                   !.tools = Merged(@, ToolLines(T), InitialTools(T))]

-----------------------------------------------------------------------------
(* generate_work_package_from_check                                        *)

\* The tasks the program has by now, MaxCards of them at most, perhaps none.
TaskLists == {T \in SUBSET MpdTasks : Cardinality(T) <= MaxCards}

BeginGenerate(g, c) ==
    /\ At(g, "idle")
    /\ CheckFree(c)
    /\ check[c].generated = NoPackage
    /\ job' = [job EXCEPT ![g] = [Idle EXCEPT !.step = "package", !.check = c]]
    /\ UNCHANGED <<cribVars, check, package, shelf, promised, wanted>>

\* Faulty: the check points to its package from the first commit on.
MakePackageLinked(g, p) ==
    /\ At(g, "package")
    /\ p \in Fresh
    /\ package' = [package EXCEPT ![p].source = job[g].check]
    /\ check' = [check EXCEPT ![job[g].check] = [status |-> "in_work", generated |-> p]]
    /\ job' = [job EXCEPT ![g].step = "order", ![g].package = p]
    /\ UNCHANGED <<cribVars, shelf, promised, wanted>>

\* create_package commits.
MakePackage(g, p) ==
    /\ At(g, "package")
    /\ p \in Fresh
    /\ package' = [package EXCEPT ![p].source = job[g].check]
    /\ job' = [job EXCEPT ![g].step = "order", ![g].package = p]
    /\ UNCHANGED <<cribVars, check, shelf, promised, wanted>>

\* create_order commits; then the tasks of the program are listed, if the check has
\* one and the request includes them.
MakeOrder(g, include) ==
    /\ At(g, "order")
    /\ package' = [package EXCEPT ![job[g].package].order = TRUE]
    /\ IF include /\ job[g].check \in Program
         THEN \E T \in TaskLists :
                 job' = [job EXCEPT ![g].step = IF T = {} THEN "materials" ELSE "cards",
                                    ![g].tasks = T]
         ELSE job' = [job EXCEPT ![g].step = "general"]
    /\ UNCHANGED <<cribVars, check, shelf, promised, wanted>>

\* create_job_card commits, with the plan lines of the tasks before.
MakeCard(g, t) ==
    LET p == job[g].package
    IN /\ At(g, "cards")
       /\ t \in job[g].tasks \ package[p].cards
       /\ package' = [package EXCEPT ![p] = [WithAdded(package[p], g) EXCEPT !.cards = @ \cup {t}]]
       /\ job' = [job EXCEPT ![g].added = @ \cup {t},
                             ![g].step = IF job[g].tasks \ package[p].cards = {t}
                                           THEN "materials" ELSE "cards"]
       /\ UNCHANGED <<cribVars, check, shelf, promised, wanted>>

\* Without a program, one card for the whole check.
MakeGeneralCard(g) ==
    /\ At(g, "general")
    /\ package' = [package EXCEPT ![job[g].package].general = TRUE]
    /\ job' = [job EXCEPT ![g].step = "finish"]
    /\ UNCHANGED <<cribVars, check, shelf, promised, wanted>>

\* The lines that find a piece: as many of a part as are available.
Supplied(lines) ==
    {S \in SUBSET {t \in lines : PartOf[t] \in KnownParts} :
        \A q \in KnownParts :
           LET asking == {t \in lines : PartOf[t] = q}
           IN Cardinality(S \cap asking) =
                 IF Cardinality(asking) < shelf[q] THEN Cardinality(asking) ELSE shelf[q]}

\* Faulty: the lines that fall short are left as they are, nothing is asked for.
SupplyOnly(lines, S) == [t \in MpdTasks |-> IF t \in lines THEN "ok" ELSE "none"]

\* run_material_planning: reserved, or to be purchased.
PartOutcome(lines, S) ==
    [t \in MpdTasks |-> CASE t \in S -> "ok"
                       [] t \in lines \ S -> "purchase_required"
                       [] OTHER -> "none"]

\* run_material_planning commits; its results are put on the plan lines, to be
\* committed later.  A part outside the master is asked for by nobody.
PlanMaterials(g) ==
    LET p == job[g].package
        lines == PartLines(job[g].tasks)
    IN /\ At(g, "materials")
       /\ lines # {}
       /\ \E S \in Supplied(lines) :
             /\ shelf' = [q \in KnownParts |-> shelf[q] - Cardinality({t \in S : PartOf[t] = q})]
             /\ promised' = promised \cup ({p} \X S)
             /\ wanted' = wanted \cup ({p} \X {t \in lines \ S : PartOf[t] \in KnownParts})
             /\ job' = [job EXCEPT ![g].step = "tools", ![g].added = {},
                                   ![g].parts = PartOutcome(lines, S)]
       /\ package' = [package EXCEPT ![p] = WithAdded(@, g)]
       /\ StartRun(g, p, ToolLines(job[g].tasks))
       /\ UNCHANGED <<tool, loans, bookings, holder, today, check>>

NoMaterials(g) ==
    /\ At(g, "materials")
    /\ PartLines(job[g].tasks) = {}
    /\ job' = [job EXCEPT ![g].step = "tools"]
    /\ StartRun(g, job[g].package, ToolLines(job[g].tasks))
    /\ UNCHANGED <<tool, loans, bookings, holder, today, check, package, shelf, promised, wanted>>

\* A package row with the results the material planning has put on its lines.
WithParts(row, g) ==
    [WithAdded(row, g) EXCEPT !.parts = Merged(@, PartLines(job[g].tasks), job[g].parts)]

PlanTools(g) ==
    /\ At(g, "tools")
    /\ \/ \E l \in Lines : PlanLine(g, l)
       \/ ClaimTool(g)
    /\ UNCHANGED planVars

\* run_tool_planning commits, the results of the material planning with it.
CommitTools(g) ==
    /\ At(g, "tools")
    /\ PublishRun(g)
    /\ run' = run
    /\ IF ToolLines(job[g].tasks) # {}
         THEN /\ package' = [package EXCEPT ![job[g].package] = WithParts(@, g)]
              /\ job' = [job EXCEPT ![g].step = "finish", ![g].added = {}]
         ELSE /\ package' = package
              /\ job' = [job EXCEPT ![g].step = "finish"]
    /\ UNCHANGED <<check, shelf, promised, wanted>>

\* Faulty: the results of the tool planning stay off the plan lines.
ToolsAsCreated(row, g) == row

\* The results of the tool planning on the plan lines.
WithTools(row, g) ==
    [row EXCEPT !.tools = Merged(@, ToolLines(job[g].tasks), run[g].result)]

\* Hangar plan, workforce lines, the link from the check: one commit.
Finish(g) ==
    LET p == job[g].package
        c == job[g].check
    IN /\ At(g, "finish")
       /\ CheckFree(c)
       /\ package' = [package EXCEPT ![p] = [WithTools(WithParts(@, g), g) EXCEPT !.hangar = TRUE]]
       /\ check' = [check EXCEPT ![c] = [status |-> "in_work", generated |-> p]]
       /\ job' = [job EXCEPT ![g] = Idle]
       /\ run' = [run EXCEPT ![g] = NoRun]
       /\ UNCHANGED <<tool, loans, bookings, holder, today, shelf, promised, wanted>>

\* The handler ends with an error, or its process does.
Stop(g) ==
    /\ ~At(g, "idle")
    /\ DropRun(g)
    /\ job' = [job EXCEPT ![g] = Idle]
    /\ UNCHANGED <<check, package, shelf, promised, wanted>>

\* Receipts, withdrawals and reservations of others (Inventory).
ShelfChanges(q, n) ==
    /\ n \in 0 .. MaxShelf /\ n # shelf[q]
    /\ shelf' = [shelf EXCEPT ![q] = n]
    /\ UNCHANGED <<cribVars, check, package, promised, wanted, job>>

-----------------------------------------------------------------------------
GenerateNext(g) ==
    \/ \E c \in Checks : BeginGenerate(g, c)
    \/ \E p \in Packages : MakePackage(g, p)
    \/ \E include \in BOOLEAN : MakeOrder(g, include)
    \/ \E t \in MpdTasks : MakeCard(g, t)
    \/ MakeGeneralCard(g)
    \/ PlanMaterials(g)
    \/ NoMaterials(g)
    \/ PlanTools(g)
    \/ CommitTools(g)
    \/ Finish(g)
    \/ Stop(g)

PlanNext ==
    \/ CribNext /\ UNCHANGED planVars
    \/ \E q \in KnownParts, n \in 0 .. MaxShelf : ShelfChanges(q, n)
    \/ \E g \in Planners : GenerateNext(g)

PlanSpec == PlanInit /\ [][PlanNext]_allVars

-----------------------------------------------------------------------------
(* Properties                                                              *)

\* The variables have the types of the tables.
PlanTypeOK ==
    /\ CribTypeOK
    /\ check \in [Checks -> CheckRows]
    /\ package \in [Packages -> PackageRows]
    /\ shelf \in [KnownParts -> 0 .. MaxShelf]
    /\ promised \subseteq Packages \X MpdTasks
    /\ wanted \subseteq Packages \X MpdTasks
    /\ job \in [Planners -> Jobs]

\* The package a check points to is whole, whatever ran beside its generation and
\* wherever another one stopped: it was made from that check, it has its order and its
\* hangar plan, and the plan lines of every card are there.
LinkedPackageIsWhole ==
    \A c \in Checks : check[c].generated # NoPackage =>
        LET row == package[check[c].generated]
        IN /\ row.source = c /\ row.order /\ row.hangar
           /\ \A t \in row.cards : (PartOf[t] # NoPart) = (row.parts[t] # "none")
                                   /\ (ToolOf[t] # NoTool) = (row.tools[t] # "none")

\* A parts plan line never promises too much: ok means that a piece is reserved for
\* this package and task, purchase_required for a part of the master that it is asked
\* for, although lines, reservations and requests are committed at different times.
PartsPromised ==
    \A p \in Packages, t \in MpdTasks :
        /\ package[p].parts[t] = "ok" => <<p, t>> \in promised
        /\ package[p].parts[t] = "purchase_required" /\ PartOf[t] \in KnownParts
             => <<p, t>> \in wanted

\* Once a package is finished, a tool plan line says reserved only if the tool was
\* reserved for the package, whatever the line said when it was created.
ToolsPromised ==
    \A p \in Packages, t \in MpdTasks :
        package[p].hangar /\ package[p].tools[t] = "reserved"
          => \E b \in bookings : b.tool = ToolOf[t] /\ b.package = p

\* docs/PLANNING_DASHBOARD.md: "duplicate generate returns HTTP 409".  A check never
\* gets a second finished package.
PlannedOnce ==
    \A c \in Checks : Cardinality({p \in Packages : package[p].source = c /\ package[p].hangar}) <= 1
=============================================================================

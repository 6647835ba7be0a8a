----------------------------- MODULE WorkOrders ------------------------------
(***************************************************************************)
(* Work packages, work orders and job cards (backend/app/work_orders/      *)
(* service.py) on top of the maintenance task engine.  Every job card is   *)
(* linked to one maintenance task, so a card and its task share their name.*)
(*                                                                         *)
(* A handler locks the card row, but the calls it makes into the task      *)
(* engine (create_task, sign_action) and the creation of the workflow      *)
(* definition COMMIT, which gives the lock back.  What follows is a second *)
(* transaction of the same request.  The session keeps the card it has     *)
(* read (SessionLocal has expire_on_commit=False and the second SELECT FOR *)
(* UPDATE does not repopulate an object the session holds), so the rest of *)
(* the handler works on the status read before the commit, and an          *)
(* attribute is written only when it differs from that reading.  (Nothing  *)
(* keeps the task between two calls: every sign_action reads it anew.)     *)
(*                                                                         *)
(* inflight holds such half-way requests, one per worker; a request may    *)
(* also die there (Abort): a crash, a lost connection, a failed check.     *)
(***************************************************************************)
EXTENDS Certification

CONSTANTS Orders,     \* work orders of the one package modelled
          OrderOf,    \* the order each card is created in
          ReqChoices, \* certification settings a card may be created with
          CardTargets,\* statuses asked for at a job card's /transition
          TaskTargets,\* statuses asked for at a task's own /transition
          Workers,    \* requests the server works on at the same time
          NoRequest   \* an idle worker

CardStatuses == {"draft", "assigned", "accepted", "in_progress", "paused",
                 "waiting_parts", "waiting_engineering", "waiting_inspection",
                 "completed", "rejected", "released", "closed"}
OrderStatuses == {"open", "in_progress", "delayed", "released", "closed"}
PackageStatuses == {"draft", "planned", "in_progress", "released", "closed"}

CardRecords == [status : CardStatuses \cup {"absent"}, tech : BOOLEAN]
NoCard == [status |-> "absent", tech |-> FALSE]

\* A request between two of its transactions: where it continues, its card,
\* the status it has read, the employee and session it signs for, and the
\* status it was asked for.
Stages == {"create", "transition", "complete", "inspect", "release", "sign_release"}
Requests == [stage : Stages, card : Tasks, seen : CardStatuses \cup OrderStatuses,
             by : Employees, user : Users, to : CardStatuses]

ASSUME WorkOrdersAssumption ==
    /\ OrderOf \in [Tasks -> Orders]
    /\ ReqChoices \subseteq SUBSET OptionalSteps
    /\ CardTargets \subseteq CardStatuses /\ TaskTargets \subseteq TaskStatuses
    /\ NoRequest \notin Requests

VARIABLES card,     \* job_cards
          order,    \* work_orders.status, "absent" before creation
          package,  \* work_packages.status
          defined,  \* the organization has its job card workflow definition
          inflight  \* what each worker is in the middle of

taskVars == <<task, signer, log, staff, churn>>
cardVars == <<card, order, package>>
woVars == <<card, order, package, defined, inflight>>
allVars == <<task, signer, log, staff, churn, card, order, package, defined, inflight>>

WOInit == /\ Init
          /\ card = [t \in Tasks |-> NoCard]
          /\ order = [o \in Orders |-> "absent"]
          /\ package = "draft"
          /\ defined = FALSE
          /\ inflight = [w \in Workers |-> NoRequest]

-----------------------------------------------------------------------------
(* Helpers                                                                 *)

\* JC_TRANSITIONS, which the bridge stores as the default definition.
CardTransitions ==
    [draft |-> {"assigned", "closed"},
     assigned |-> {"accepted", "draft", "closed"},
     accepted |-> {"in_progress", "waiting_parts", "waiting_engineering", "closed"},
     in_progress |-> {"paused", "waiting_parts", "waiting_engineering", "closed"},
     paused |-> {"in_progress", "waiting_parts", "waiting_engineering", "closed"},
     waiting_parts |-> {"in_progress", "accepted", "closed"},
     waiting_engineering |-> {"in_progress", "accepted", "closed"},
     waiting_inspection |-> {}, completed |-> {},
     rejected |-> {"in_progress", "assigned", "closed"},
     released |-> {"closed"}, closed |-> {}, absent |-> {}]

CertGated == {"waiting_inspection", "completed", "released"}

\* Faulty: the arrow from In Progress to Waiting Inspection is a transition.
CanMoveCardUngated(t, to) ==
    \/ /\ card[t].status = "in_progress" /\ to = "waiting_inspection"
    \/ /\ to \notin CertGated
       /\ to \in CardTransitions[card[t].status]
       /\ to = "accepted" => card[t].tech /\ card[t].status = "assigned"

\* The checks of transition_job_card.
CanMoveCard(t, to) ==
    /\ to \notin CertGated
    /\ to \in CardTransitions[card[t].status]
    /\ to = "accepted" => card[t].tech /\ card[t].status = "assigned"

Working == {"in_progress", "paused", "waiting_parts", "waiting_engineering",
            "waiting_inspection", "completed"}
Finished == {"closed", "released"}

\* Faulty: one finished card finishes the order.
OrderRollUpAny(cards, old) ==
    IF cards \cap Finished # {}
    THEN IF "released" \in cards THEN "released" ELSE "closed"
    ELSE IF "rejected" \in cards THEN "delayed"
    ELSE IF cards \cap Working # {} THEN "in_progress"
    ELSE old

\* _sync_order_package_status: an order from the statuses of its cards ...
OrderRollUp(cards, old) ==
    IF cards \subseteq Finished
    THEN IF "released" \in cards THEN "released" ELSE "closed"
    ELSE IF "rejected" \in cards THEN "delayed"
    ELSE IF cards \cap Working # {} THEN "in_progress"
    ELSE old

\* ... and the package from those of its orders.
PackageRollUp(orders, old) ==
    IF orders \subseteq Finished
    THEN IF "released" \in orders THEN "released" ELSE "closed"
    ELSE IF orders \cap {"delayed", "in_progress"} # {} THEN "in_progress"
    ELSE old

CardsOf(o) == {t \in Tasks : OrderOf[t] = o /\ card[t].status # "absent"}

\* The card takes status new, its technician is set when tech, and order and
\* package follow.  seen is the status the session has read: equal to new,
\* the status is not written, yet it is what the session rolls up.
SaveCard(t, seen, new, tech) ==
    LET o        == OrderOf[t]
        statuses == {new} \cup {card[c].status : c \in CardsOf(o) \ {t}}
        orders   == [order EXCEPT ![o] = OrderRollUp(statuses, @)]
    IN  /\ card' = [card EXCEPT ![t] = [status |-> IF new = seen THEN @.status ELSE new,
                                        tech |-> @.tech \/ tech]]
        /\ order' = orders
        /\ package' = PackageRollUp({orders[x] : x \in Orders} \ {"absent"}, package)

Begin(w, stage, t, seen, e, u, to) ==
    /\ inflight[w] = NoRequest
    /\ inflight' = [inflight EXCEPT ![w] =
           [stage |-> stage, card |-> t, seen |-> seen, by |-> e, user |-> u, to |-> to]]

At(w, stage) == inflight[w] # NoRequest /\ inflight[w].stage = stage
End(w) == inflight' = [inflight EXCEPT ![w] = NoRequest]

-----------------------------------------------------------------------------
(* Handlers                                                                *)

CreateOrder(o) ==
    /\ order[o] = "absent"
    /\ order' = [order EXCEPT ![o] = "open"]
    /\ package' = IF package = "draft" THEN "planned" ELSE package
    /\ UNCHANGED <<taskVars, card, defined, inflight>>

\* create_job_card: create_task commits, ...
CreateCardTask(w, t, status, req) ==
    /\ order[OrderOf[t]] # "absent"
    /\ \E e \in Employees, u \in Users :
          /\ status = "assigned" => staff[e].active
          /\ Begin(w, "create", t, order[OrderOf[t]], e, u, status)
    /\ CreateTask(t, IF status = "assigned" THEN "assigned" ELSE "open", req)
    /\ UNCHANGED <<cardVars, defined>>

\* ... then the card row, and order and package move on.
CreateCardRow(w) ==
    /\ At(w, "create")
    /\ LET r == inflight[w]
       IN  /\ card' = [card EXCEPT ![r.card] =
                          [status |-> r.to, tech |-> r.to = "assigned"]]
           /\ order' = [order EXCEPT ![OrderOf[r.card]] =
                           IF r.seen = "open" THEN "in_progress" ELSE @]
    /\ package' = IF package \in {"draft", "planned"} THEN "in_progress" ELSE package
    /\ End(w)
    /\ UNCHANGED <<taskVars, defined>>

\* Faulty: the linked task is assigned whatever its status.
AssignCardAnyTask(t) ==
    /\ card[t].status \in {"draft", "assigned", "rejected"}
    /\ \E e \in Employees : staff[e].active
    /\ card' = [card EXCEPT ![t] = [status |-> "assigned", tech |-> TRUE]]
    /\ task[t].version < MaxVersion
    /\ task' = [task EXCEPT ![t] = Moved(@, "assigned")]
    /\ UNCHANGED <<signer, log, staff, churn, order, package, defined, inflight>>

\* assign_job_card
AssignCard(t) ==
    /\ card[t].status \in {"draft", "assigned", "rejected"}
    /\ \E e \in Employees : staff[e].active
    /\ card' = [card EXCEPT ![t] = [status |-> "assigned", tech |-> TRUE]]
    /\ IF task[t].status \in {"open", "assigned"} THEN AssignTask(t) ELSE UNCHANGED taskVars
    /\ UNCHANGED <<order, package, defined, inflight>>

\* transition_job_card, once the organization has its definition.
TransitionCard(t, to) ==
    /\ defined
    /\ CanMoveCard(t, to)
    /\ \E named \in {FALSE, to = "assigned"} : SaveCard(t, card[t].status, to, named)
    /\ UNCHANGED <<taskVars, defined, inflight>>

\* Before that, ensure_job_card_definition commits, after the status is read
\* and whether or not the transition is then allowed.
TransitionDefines(w, t, to) ==
    /\ ~defined /\ to \notin CertGated /\ card[t].status # "absent"
    /\ defined' = TRUE
    /\ \/ /\ CanMoveCard(t, to)
          /\ \E e \in Employees, u \in Users : Begin(w, "transition", t, card[t].status, e, u, to)
       \/ ~CanMoveCard(t, to) /\ UNCHANGED inflight
    /\ UNCHANGED <<taskVars, cardVars>>

TransitionResumes(w) ==
    /\ At(w, "transition")
    /\ LET r == inflight[w]
       IN  \E named \in {FALSE, r.to = "assigned"} : SaveCard(r.card, r.seen, r.to, named)
    /\ End(w)
    /\ UNCHANGED <<taskVars, defined>>

\* complete_job_card_work: sign_action("performed") commits, ...
CompleteSigns(w, t, e, u) ==
    /\ card[t].status \in {"accepted", "in_progress", "paused", "assigned"}
    /\ SignAction(t, "performed", e, u)
    /\ Begin(w, "complete", t, card[t].status, e, u, "waiting_inspection")
    /\ UNCHANGED <<cardVars, defined>>

\* inspect_job_card, approve or independent inspection: the same, ...
InspectSigns(w, t, s, e, u) ==
    /\ card[t].status = IF s = "inspected" THEN "waiting_inspection" ELSE "completed"
    /\ "performed" \in Done(signer[t])
    /\ SignAction(t, s, e, u)
    /\ Begin(w, "inspect", t, card[t].status, e, u, "completed")
    /\ UNCHANGED <<cardVars, defined>>

\* ... and in both the card follows in a transaction of its own.
CardFollows(w) ==
    /\ At(w, "complete") \/ At(w, "inspect") \/ At(w, "release")
    /\ LET r == inflight[w]
       IN  SaveCard(r.card, r.seen, r.to, r.stage = "complete")
    /\ End(w)
    /\ UNCHANGED <<taskVars, defined>>

\* inspect_job_card, reject and rework: one transaction.
InspectRefuses(t, to) ==
    /\ card[t].status = "waiting_inspection"
    /\ SaveCard(t, card[t].status, to, FALSE)
    /\ UNCHANGED <<taskVars, defined, inflight>>

\* release_job_card.  Its card must be completed, and its task performed,
\* inspected and, if the card asks for it, independently inspected.
ReleaseChecks(t) ==
    /\ card[t].status = "completed"
    /\ {"performed", "inspected"} \cup (task[t].req \ {"aca_certified"})
          \subseteq Done(signer[t])
    /\ "aircraft_released" \notin Done(signer[t])

\* Faulty: the card is released with the ACA signature alone.
ReleaseSignsACAOnly(w, t, e, u) ==
    /\ ReleaseChecks(t)
    /\ "aca_certified" \in task[t].req \ Done(signer[t])
    /\ SignAction(t, "aca_certified", e, u)
    /\ Begin(w, "release", t, "completed", e, u, "released")
    /\ UNCHANGED <<cardVars, defined>>

\* aca_certified, when it is required and missing, commits first, ...
ReleaseSignsACA(w, t, e, u) ==
    /\ ReleaseChecks(t)
    /\ "aca_certified" \in task[t].req \ Done(signer[t])
    /\ SignAction(t, "aca_certified", e, u)
    /\ Begin(w, "sign_release", t, "completed", e, u, "released")
    /\ UNCHANGED <<cardVars, defined>>

ReleaseResumes(w) ==
    /\ At(w, "sign_release")
    /\ SignAction(inflight[w].card, "aircraft_released", inflight[w].by, inflight[w].user)
    /\ inflight' = [inflight EXCEPT ![w].stage = "release"]
    /\ UNCHANGED <<cardVars, defined>>

\* ... then aircraft_released, then the card follows.
ReleaseSigns(w, t, e, u) ==
    /\ ReleaseChecks(t)
    /\ "aca_certified" \notin task[t].req \ Done(signer[t])
    /\ SignAction(t, "aircraft_released", e, u)
    /\ Begin(w, "release", t, "completed", e, u, "released")
    /\ UNCHANGED <<cardVars, defined>>

\* The request ends without the transactions it still had to make.
Abort(w) ==
    /\ inflight[w] # NoRequest
    /\ End(w)
    /\ UNCHANGED <<taskVars, cardVars, defined>>

\* The task engine's own endpoints go on beside the cards.  (Amendments and
\* personnel changes touch no card: Certification covers them.)
DirectNext ==
    /\ \/ \E t \in Tasks, to \in TaskTargets : TransitionTask(t, to)
       \/ \E t \in Tasks, s \in CertSteps, e \in Employees, u \in Users :
             SignAction(t, s, e, u)
    /\ UNCHANGED woVars

Starts(w) ==
    \/ \E t \in Tasks, st \in {"draft", "assigned"}, req \in ReqChoices :
          CreateCardTask(w, t, st, req)
    \/ \E t \in Tasks, to \in CardTargets : TransitionDefines(w, t, to)
    \/ \E t \in Tasks, e \in Employees, u \in Users :
          \/ CompleteSigns(w, t, e, u)
          \/ \E s \in {"inspected", "independent_inspection"} : InspectSigns(w, t, s, e, u)
          \/ ReleaseSignsACA(w, t, e, u)
          \/ ReleaseSigns(w, t, e, u)

Continues(w) == CreateCardRow(w) \/ TransitionResumes(w) \/ CardFollows(w) \/ ReleaseResumes(w)

WONext ==
    \/ \E o \in Orders : CreateOrder(o)
    \/ \E t \in Tasks : \/ AssignCard(t)
                        \/ \E to \in CardTargets : TransitionCard(t, to)
                        \/ \E to \in {"rejected", "in_progress"} : InspectRefuses(t, to)
    \/ \E w \in Workers : Starts(w) \/ Continues(w) \/ Abort(w)
    \/ DirectNext

WOSpec == WOInit /\ [][WONext]_allVars

-----------------------------------------------------------------------------
(* Properties                                                              *)

\* Every variable keeps the shape of the rows it stands for.
WOTypeOK ==
    /\ card \in [Tasks -> CardRecords]
    /\ order \in [Orders -> OrderStatuses \cup {"absent"}]
    /\ package \in PackageStatuses
    /\ defined \in BOOLEAN
    /\ inflight \in [Workers -> Requests \cup {NoRequest}]

\* A card at a certification gate has the signatures the gate stands for,
\* whatever other requests did between the transactions that got it there:
\* waiting_inspection is performed, completed is inspected, released is an
\* aircraft release with its logbook entry (docs/JOB_CARDS.md, "Meaning").
GateOfCard ==
    [waiting_inspection |-> "performed", completed |-> "inspected",
     released |-> "aircraft_released"]

CardGatesCertified == \A t \in Tasks :
    card[t].status \in DOMAIN GateOfCard =>
        GateOfCard[card[t].status] \in Done(signer[t])

\* A released card stands for a released task and an entry in the technical
\* logbook (docs/JOB_CARDS.md: "ACA release complete (logbook written)").
ReleasedCardHasEntry == \A t \in Tasks :
    card[t].status = "released" => task[t].rel = "released" /\ Originals(t) # {}

\* An order with a card that is worked on or was rejected says so: it is in
\* progress or delayed, never open, released or closed
\* (_sync_order_package_status).
OrderShowsWork == \A t \in Tasks :
    card[t].status \in Working \cup {"rejected"} =>
        order[OrderOf[t]] \in {"in_progress", "delayed"}

\* Work is done by somebody: past draft and assigned, a card that is not
\* closed names its technician (transition_job_card, "no assigned
\* technician").
WorkHasTechnician == \A t \in Tasks :
    card[t].status \notin {"absent", "draft", "assigned", "closed"} => card[t].tech

\* Whatever the job card endpoints do to a task, in whichever transactions,
\* is what the task engine allows: WorkOrders implements Certification.
ImplementsCertification == Spec

\* docs/JOB_CARDS.md: "closed | Terminal administrative close".
ClosedIsTerminal ==
    [][\A t \in Tasks : card[t].status = "closed" => card'[t].status = "closed"]_allVars

\* docs/JOB_CARDS.md: the lifecycle leads "Rejected -> In Progress /
\* Assigned" and from In Progress on to Waiting Inspection, which only
\* complete-work enters, signing "performed".  So the decision "rework" must
\* leave a task that can be signed "performed" again.
ReworkReopensWork ==
    [][\A t \in Tasks :
        card[t].status = "waiting_inspection" /\ card'[t].status = "in_progress" =>
            "performed" \notin Done(signer'[t])]_allVars
=============================================================================

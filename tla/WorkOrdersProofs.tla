--------------------------- MODULE WorkOrdersProofs ---------------------------
(***************************************************************************)
(* Theorems about Certification and WorkOrders, for any set of tasks,      *)
(* cards, orders, people and workers.                                      *)
(*                                                                         *)
(* Certification.  Each invariant speaks of one task and its chain at a    *)
(* time (ChainOK, DutiesOK, GateOK, ReleaseOK), so the proof first shows   *)
(* that signing keeps them for a row and its chain as data, and then that  *)
(* every action changes at most one row.  The key fact is SignedSoFar: the *)
(* count the code compares determines the set of steps already signed.     *)
(*                                                                         *)
(* WorkOrders.  Every step of the job card endpoints is a step of the task *)
(* engine or leaves it alone, so WorkOrders implements Certification and   *)
(* inherits its theorems.  The invariants of the cards need FlightOK, what *)
(* a request half-way through knows about its card whatever other requests *)
(* do meanwhile.                                                           *)
(***************************************************************************)
EXTENDS WorkOrders, FiniteSetTheorems, TLAPS

Chains == [CertSteps -> Employees \cup {Nobody}]

\* A row that does not exist yet has no signature and no release.
AbsentOK(v, people) == v.status = "absent" => v = Absent /\ people = Unsigned

RowOK(v, people) == /\ ChainOK(v, people)
                    /\ DutiesOK(people)
                    /\ GateOK(v, people)
                    /\ ReleaseOK(v, people)
                    /\ AbsentOK(v, people)

RowsOK == \A t \in Tasks : RowOK(task[t], signer[t])

\* The inductive invariant.
IInv == TypeOK /\ RowsOK /\ LogbookMatchesChain

-----------------------------------------------------------------------------
LEMMA StepsFinite ==
  ASSUME NEW S, S \subseteq CertSteps
  PROVE  IsFiniteSet(S) /\ Cardinality(S) \in Nat
<1>1. IsFiniteSet({} \cup {"performed"})
  BY FS_EmptySet, FS_AddElement
<1>2. IsFiniteSet(({} \cup {"performed"}) \cup {"inspected"})
  BY <1>1, FS_AddElement
<1>3. IsFiniteSet((({} \cup {"performed"}) \cup {"inspected"}) \cup {"independent_inspection"})
  BY <1>2, FS_AddElement
<1>4. IsFiniteSet(((({} \cup {"performed"}) \cup {"inspected"}) \cup {"independent_inspection"})
                  \cup {"aca_certified"})
  BY <1>3, FS_AddElement
<1>5. IsFiniteSet((((({} \cup {"performed"}) \cup {"inspected"}) \cup {"independent_inspection"})
                   \cup {"aca_certified"}) \cup {"aircraft_released"})
  BY <1>4, FS_AddElement
<1>6. CertSteps = (((({} \cup {"performed"}) \cup {"inspected"}) \cup {"independent_inspection"})
                   \cup {"aca_certified"}) \cup {"aircraft_released"}
  BY DEF CertSteps, OptionalSteps
<1> QED BY <1>5, <1>6, FS_Subset, FS_CardinalityType

(* The index the code computes, len(required & existing), picks the first  *)
(* unsigned step: when it lands on s, what is signed is what precedes s.   *)
LEMMA SignedSoFar ==
  ASSUME NEW v \in TaskRecords, NEW people \in Chains, NEW s \in CertSteps,
         ChainOK(v, people), IsNextStep(v.req, people, s)
  PROVE  Done(people) = Before(v.req, s)
<1> DEFINE D == Done(people)
           B == Before(v.req, s)
<1>1. D \subseteq CertSteps /\ B \subseteq CertSteps /\ D \subseteq Needed(v.req)
  BY DEF Done, Before, Needed, ChainOK, TaskRecords, CertSteps, OptionalSteps
<1>2. D \subseteq B
  <2> SUFFICES ASSUME NEW r \in D, r \notin B PROVE FALSE
    OBVIOUS
  <2>1. r \in CertSteps /\ r \in Needed(v.req) /\ r # s
    BY <1>1 DEF IsNextStep
  <2>2. Rank[r] > Rank[s]
    BY <2>1 DEF Before, Rank, CertSteps, OptionalSteps
  <2>3. s \in Before(v.req, r)
    BY <2>2, <2>1 DEF Before, IsNextStep, Rank, CertSteps, OptionalSteps
  <2> QED BY <2>3 DEF ChainOK, IsNextStep
<1>3. Cardinality(B) = Cardinality(D)
  <2>1. Needed(v.req) \cap D = D BY <1>1
  <2> QED BY <2>1 DEF IsNextStep
<1> QED BY <1>1, <1>2, <1>3, StepsFinite, FS_Subset

-----------------------------------------------------------------------------
(* Signing keeps what is required of a row.                                *)
LEMMA SignKeepsRow ==
  ASSUME CertificationAssumption,
         NEW v \in TaskRecords, NEW people \in Chains,
         NEW s \in CertSteps, NEW e \in Employees, NEW u \in Users,
         RowOK(v, people), CanSign(v, people, s, e, u)
  PROVE  /\ Signed(v, people, s) \in TaskRecords
         /\ RowOK(Signed(v, people, s), [people EXCEPT ![s] = e])
<1> DEFINE new == [people EXCEPT ![s] = e]
           w   == Signed(v, people, s)
<1>1. Done(people) = Before(v.req, s) /\ s \in Needed(v.req)
  BY SignedSoFar DEF RowOK, CanSign, IsNextStep
<1>2. Done(new) = Before(v.req, s) \cup {s}
  BY <1>1 DEF Done, Chains, CertificationAssumption
<1>3. /\ w.req = v.req
      /\ w.status = SignedStatus(v.req, people, s)
      /\ w.rel = IF s = "aircraft_released" THEN "released" ELSE v.rel
      /\ w.version = v.version + 1
  <2> HIDE DEF new
  <2> DEFINE st == SignedStatus(v.req, people, s)
  <2>1. w = [v EXCEPT !.status = st,
                      !.rel = IF s = "aircraft_released" THEN "released" ELSE @,
                      !.version = @ + 1]
    BY DEF Signed
  <2> HIDE DEF w, st
  <2>2. /\ w.req = v.req /\ w.status = st /\ w.version = v.version + 1
        /\ w.rel = IF s = "aircraft_released" THEN "released" ELSE v.rel
    BY <2>1 DEF TaskRecords
  <2> QED BY <2>2 DEF st
<1>4. w.status \in TaskStatuses
  BY <1>3 DEF SignedStatus, TaskStatuses
<1>5. w \in TaskRecords
  <2> DEFINE st == SignedStatus(v.req, people, s)
             rl == IF s = "aircraft_released" THEN "released" ELSE v.rel
  <2>1. st \in TaskStatuses \cup {"absent"}
    BY <1>3, <1>4
  <2>2. rl \in {"not_released", "released"} /\ v.version + 1 \in Nat
    BY DEF TaskRecords
  <2>3. w = [v EXCEPT !.status = st, !.rel = rl, !.version = v.version + 1]
    BY DEF Signed
  <2> HIDE DEF w, st, rl
  <2> QED BY <2>1, <2>2, <2>3 DEF TaskRecords
<1>6. v.rel = "not_released"
  BY DEF RowOK, ReleaseOK, CanSign, TerminalStatuses, TaskRecords
<1>7. ChainOK(w, new)
  <2>1. Before(v.req, s) \cup {s} \subseteq Needed(v.req)
    BY <1>1 DEF Before
  <2>2. ASSUME NEW r \in Before(v.req, s) \cup {s}
        PROVE  Before(v.req, r) \subseteq Before(v.req, s) \cup {s}
    BY <1>1 DEF Before, Needed, Rank, TaskRecords, CertSteps, OptionalSteps
  <2> HIDE DEF w, new
  <2> QED BY <1>2, <1>3, <2>1, <2>2 DEF ChainOK
<1>8. DutiesOK(new)
  <2>1. \A r \in SeparateFrom(s) : people[r] # e /\ r # s /\ r \in CertSteps
    BY DEF CanSign, HasAuthority, SeparateFrom, CertSteps, OptionalSteps
  <2>2. ASSUME NEW q \in Done(people), NEW r \in SeparateFrom(q)
        PROVE  new[r] # new[q]
    <3>1. q \in CertSteps /\ r \in CertSteps /\ q # s
      BY <1>1 DEF Done, Before, SeparateFrom, CertSteps, OptionalSteps, Rank
    <3>2. r # s
      BY <1>1, <3>1 DEF Before, SeparateFrom, Rank, CertSteps, OptionalSteps
    <3>3. people[r] # people[q]
      BY DEF RowOK, DutiesOK
    <3> QED BY <3>1, <3>2, <3>3 DEF Chains
  <2> QED BY <1>1, <1>2, <2>1, <2>2 DEF DutiesOK, Chains
<1>9. GateOK(w, new)
  <2> DEFINE d == Before(v.req, s) \cup {s}
             gate == (Needed(v.req) \ d) \cap {"inspected", "independent_inspection"}
  <2>1. w.status = IF s = "aircraft_released" THEN "released"
                   ELSE IF gate # {} THEN "awaiting_inspection"
                   ELSE IF "aca_certified" \in (Needed(v.req) \ d) \cup d THEN "awaiting_aca"
                   ELSE IF d \cap {"inspected", "independent_inspection"} # {} THEN "completed"
                   ELSE "started"
    BY <1>1, <1>3, Zenon DEF SignedStatus
  <2>2. s = "aircraft_released" => gate = {}
    BY DEF Before, Needed, Rank, TaskRecords, CertSteps, OptionalSteps
  <2>3. "aca_certified" \in (Needed(v.req) \ d) \cup d => "aca_certified" \in v.req
    BY <1>1 DEF Before, Needed, Rank, CertSteps, OptionalSteps
  <2> HIDE DEF d
  <2>4. gate = (Needed(w.req) \ Done(new)) \cap {"inspected", "independent_inspection"}
    BY <1>2, <1>3 DEF d
  <2> HIDE DEF gate, w, new
  <2> QED BY <2>1, <2>2, <2>3, <2>4, <1>3 DEF GateOK
<1>10. ReleaseOK(w, new)
  <2>1. Needed(v.req) \subseteq Before(v.req, s) \cup {s} <=> s = "aircraft_released"
    BY <1>1 DEF Before, Needed, Rank, TaskRecords, CertSteps, OptionalSteps
  <2>2. w.status = "released" <=> s = "aircraft_released"
    BY <1>3 DEF SignedStatus
  <2> QED BY <2>1, <2>2, <1>2, <1>3, <1>6 DEF ReleaseOK
<1>11. AbsentOK(w, new)
  BY <1>3 DEF AbsentOK, SignedStatus
<1> QED BY <1>5, <1>7, <1>8, <1>9, <1>10, <1>11 DEF RowOK

(* So does a move, by a transition or by the assignment of a job card.     *)
MayMove(v, to) == \/ CanTransition(v, to)
                  \/ v.status \in {"open", "assigned"} /\ to = "assigned"

LEMMA MoveKeepsRow ==
  ASSUME NEW v \in TaskRecords, NEW people \in Chains, NEW to \in TaskStatuses,
         RowOK(v, people), MayMove(v, to)
  PROVE  /\ Moved(v, to) \in TaskRecords
         /\ RowOK(Moved(v, to), people)
         /\ Moved(v, to).rel = v.rel
<1> DEFINE w == Moved(v, to)
<1>1. /\ w.status = to /\ w.req = v.req /\ w.rel = v.rel /\ w.version = v.version + 1
      /\ w \in TaskRecords
  <2>1. w = [v EXCEPT !.status = to, !.version = v.version + 1] /\ v.version + 1 \in Nat
    BY DEF Moved, TaskRecords
  <2> HIDE DEF w
  <2> QED BY <2>1 DEF TaskRecords
<1>2. /\ to \notin {"awaiting_inspection", "awaiting_aca", "released", "absent"}
      /\ v.status = "awaiting_inspection" => to \in {"cancelled", "rejected"}
      /\ v.status \notin TerminalStatuses
      /\ v.status = "released" => to = "closed"
  <2>1. CASE CanTransition(v, to)
    <3>1. v.status \in TaskStatuses /\ to \in TaskTransitions[v.status]
      BY <2>1 DEF CanTransition, TaskRecords
    <3> QED BY <3>1 DEF TaskTransitions, TaskStatuses, TerminalStatuses
  <2>2. CASE v.status \in {"open", "assigned"} /\ to = "assigned"
    BY <2>2 DEF TerminalStatuses
  <2> QED BY <2>1, <2>2 DEF MayMove
<1> HIDE DEF w
<1>8. ChainOK(w, people) /\ DutiesOK(people)
  BY <1>1 DEF RowOK, ChainOK
<1>9. GateOK(w, people)
  BY <1>1, <1>2 DEF RowOK, GateOK, TerminalStatuses
<1>10. ReleaseOK(w, people)
  BY <1>1, <1>2 DEF RowOK, ReleaseOK, TerminalStatuses
<1>11. AbsentOK(w, people)
  BY <1>1, <1>2 DEF AbsentOK
<1> QED BY <1>1, <1>8, <1>9, <1>10, <1>11 DEF RowOK, w

LEMMA UnsignedRow ==
  ASSUME NEW v \in TaskRecords, v.status \in {"absent", "open", "assigned"},
         v.rel = "not_released", v.status = "absent" => v = Absent
  PROVE  Unsigned \in Chains /\ RowOK(v, Unsigned)
<1>1. Unsigned \in Chains /\ Done(Unsigned) = {}
  BY DEF Unsigned, Chains, Done
<1>2. Needed(v.req) # {}
  BY DEF Needed
<1> QED
  BY <1>1, <1>2 DEF RowOK, ChainOK, DutiesOK, GateOK, ReleaseOK, AbsentOK, Needed

-----------------------------------------------------------------------------
LEMMA InitIInv == ASSUME Init PROVE IInv
<1>1. Absent \in TaskRecords
  BY DEF Absent, TaskRecords
<1>2. Unsigned \in Chains /\ RowOK(Absent, Unsigned)
  BY <1>1, UnsignedRow DEF Absent
<1>3. TypeOK
  BY <1>1, <1>2, CertificationAssumption DEF TypeOK, Init, Chains
<1>4. RowsOK
  BY <1>2 DEF RowsOK, Init
<1>5. LogbookMatchesChain
  BY DEF LogbookMatchesChain, Originals, Init, Absent
<1> QED BY <1>3, <1>4, <1>5 DEF IInv

LEMMA CreateKeeps ==
  ASSUME IInv, NEW t \in Tasks, NEW st \in {"open", "assigned"},
         NEW req \in SUBSET OptionalSteps, CreateTask(t, st, req)
  PROVE  IInv'
<1> DEFINE w == NewTask(st, req)
<1>1. /\ task \in [Tasks -> TaskRecords] /\ signer \in [Tasks -> Chains]
      /\ signer' = signer /\ log' = log /\ staff' = staff /\ churn' = churn
      /\ task' = [task EXCEPT ![t] = w]
  BY DEF CreateTask, IInv, TypeOK, Chains
<1>2. w \in TaskRecords /\ w.status = st /\ w.rel = "not_released"
  BY DEF NewTask, TaskRecords, TaskStatuses
<1>3. signer[t] = Unsigned /\ task[t].rel = "not_released"
  BY DEF IInv, RowsOK, RowOK, AbsentOK, CreateTask, Absent
<1>4. RowOK(w, Unsigned)
  BY <1>2, UnsignedRow
<1> HIDE DEF w
<1>5. TypeOK'
  BY <1>1, <1>2 DEF IInv, TypeOK
<1>6. RowsOK'
  BY <1>1, <1>3, <1>4 DEF IInv, RowsOK
<1>7. \A q \in Tasks : task'[q].rel = task[q].rel
  BY <1>1, <1>2, <1>3
<1>8. LogbookMatchesChain'
  BY <1>1, <1>7 DEF IInv, LogbookMatchesChain, Originals
<1> QED BY <1>5, <1>6, <1>8 DEF IInv

(* The step common to TransitionTask and AssignTask.                       *)
MoveTask(t, to) == /\ MayMove(task[t], to)
                   /\ task' = [task EXCEPT ![t] = Moved(@, to)]
                   /\ UNCHANGED <<signer, log, staff, churn>>

LEMMA TasksMove ==
  ASSUME NEW t \in Tasks
  PROVE  /\ \A to \in TaskStatuses : TransitionTask(t, to) => MoveTask(t, to)
         /\ AssignTask(t) => MoveTask(t, "assigned")
<1>1. \A to \in TaskStatuses : TransitionTask(t, to) => MoveTask(t, to)
  BY DEF TransitionTask, MoveTask, MayMove
<1>2. AssignTask(t) => MoveTask(t, "assigned")
  BY DEF AssignTask, MoveTask, MayMove
<1> QED BY <1>1, <1>2

LEMMA MoveKeeps ==
  ASSUME IInv, NEW t \in Tasks, NEW to \in TaskStatuses, MoveTask(t, to)
  PROVE  IInv'
<1> DEFINE w == Moved(task[t], to)
<1>1. /\ task \in [Tasks -> TaskRecords] /\ signer \in [Tasks -> Chains]
      /\ signer' = signer /\ log' = log /\ staff' = staff /\ churn' = churn
      /\ task' = [task EXCEPT ![t] = w]
  BY DEF MoveTask, IInv, TypeOK, Chains
<1>2. w \in TaskRecords /\ RowOK(w, signer[t]) /\ w.rel = task[t].rel
  BY <1>1, MoveKeepsRow DEF IInv, RowsOK, MoveTask
<1> HIDE DEF w
<1>3. TypeOK'
  BY <1>1, <1>2 DEF IInv, TypeOK
<1>4. RowsOK'
  BY <1>1, <1>2 DEF IInv, RowsOK
<1>5. \A q \in Tasks : task'[q].rel = task[q].rel
  BY <1>1, <1>2
<1>6. LogbookMatchesChain'
  BY <1>1, <1>5 DEF IInv, LogbookMatchesChain, Originals
<1> QED BY <1>3, <1>4, <1>6 DEF IInv

LEMMA SignKeeps ==
  ASSUME IInv, NEW t \in Tasks, NEW s \in CertSteps, NEW e \in Employees,
         NEW u \in Users, SignAction(t, s, e, u)
  PROVE  IInv'
<1> DEFINE people == [signer[t] EXCEPT ![s] = e]
           w == Signed(task[t], signer[t], s)
<1>1. /\ task \in [Tasks -> TaskRecords] /\ signer \in [Tasks -> Chains]
      /\ log \in Seq(LogRecords)
      /\ signer' = [signer EXCEPT ![t] = people]
      /\ staff' = staff /\ churn' = churn
      /\ log' = LogAfter(t, people, s)
      /\ task' = [task EXCEPT ![t] = w]
  BY DEF SignAction, IInv, TypeOK, Chains
<1>2. w \in TaskRecords /\ RowOK(w, people)
  BY <1>1, SignKeepsRow, CertificationAssumption DEF IInv, RowsOK, SignAction
<1>3. people \in Chains
  BY <1>1 DEF Chains
<1>4. w.rel = IF s = "aircraft_released" THEN "released" ELSE task[t].rel
  BY <1>1 DEF Signed, TaskRecords
<1>5. task[t].rel = "not_released"
  BY <1>1 DEF IInv, RowsOK, RowOK, ReleaseOK, SignAction, CanSign, TerminalStatuses, TaskRecords
<1>6. \A i \in DOMAIN log : log[i].task \in Tasks /\ log[i].amends \in Nat
  <2> SUFFICES ASSUME NEW i \in DOMAIN log PROVE log[i] \in LogRecords
    BY DEF LogRecords
  <2> QED BY <1>1
<1> HIDE DEF people, w
<1>7. RowsOK'
  BY <1>1, <1>2, <1>3 DEF IInv, RowsOK
<1>8. \A i \in DOMAIN log : log[i].task # t
  BY <1>5 DEF IInv, LogbookMatchesChain
<1>9. CASE s # "aircraft_released"
  <2>1. log' = log
    BY <1>1, <1>9 DEF LogAfter
  <2>2. TypeOK'
    BY <1>1, <1>2, <1>3, <2>1 DEF IInv, TypeOK, Chains
  <2>3. \A q \in Tasks : task'[q].rel = task[q].rel
    BY <1>1, <1>4, <1>9
  <2>4. \A q \in Tasks : q # t => signer'[q] = signer[q]
    BY <1>1
  <2>5. LogbookMatchesChain'
    BY <2>1, <2>3, <2>4, <1>6, <1>8 DEF IInv, LogbookMatchesChain, Originals
  <2> QED BY <1>7, <2>2, <2>5 DEF IInv
<1>10. CASE s = "aircraft_released"
  <2> DEFINE r == ReleaseEntry(t, people)
             n == Len(log) + 1
  <2>1. log' = Append(log, r)
    BY <1>1, <1>10 DEF LogAfter
  <2>2. r \in LogRecords /\ r.task = t /\ r.amends = 0 /\ r.people = people
    BY <1>3 DEF ReleaseEntry, LogRecords, Chains
  <2> HIDE DEF r
  <2>3. /\ log' \in Seq(LogRecords) /\ DOMAIN log' = DOMAIN log \cup {n}
        /\ n \notin DOMAIN log /\ log'[n] = r
        /\ \A i \in DOMAIN log : log'[i] = log[i]
    BY <1>1, <2>1, <2>2
  <2>4. TypeOK'
    BY <1>1, <1>2, <1>3, <2>3 DEF IInv, TypeOK, Chains
  <2>5. /\ task'[t].rel = "released" /\ signer'[t] = people
        /\ \A q \in Tasks \ {t} : task'[q] = task[q] /\ signer'[q] = signer[q]
    BY <1>1, <1>4, <1>10
  <2>6. \A q \in Tasks \ {t} : Originals(q)' = Originals(q)
    BY <2>2, <2>3 DEF Originals
  <2>7. Originals(t)' = {n}
    BY <2>2, <2>3, <1>8 DEF Originals
  <2>8. \A q \in Tasks : /\ task'[q].rel = "released" <=> Originals(q)' # {}
                         /\ \A i, j \in Originals(q)' : i = j
    <3>1. ASSUME NEW q \in Tasks \ {t}
          PROVE  /\ task'[q].rel = "released" <=> Originals(q)' # {}
                 /\ \A i, j \in Originals(q)' : i = j
      <4>1. /\ task[q].rel = "released" <=> Originals(q) # {}
            /\ \A i, j \in Originals(q) : i = j
        BY DEF IInv, LogbookMatchesChain
      <4> QED BY <4>1, <2>5, <2>6
    <3> QED BY SMTT(30), <3>1, <2>5, <2>7
  <2>9. \A i \in DOMAIN log' : /\ task'[log'[i].task].rel = "released"
                               /\ log'[i].people = signer'[log'[i].task]
    BY <2>2, <2>3, <2>5, <1>6, <1>8 DEF IInv, LogbookMatchesChain
  <2>10. LogbookMatchesChain'
    BY <2>8, <2>9 DEF LogbookMatchesChain
  <2> QED BY <1>7, <2>4, <2>10 DEF IInv
<1> QED BY <1>9, <1>10

LEMMA AmendKeeps ==
  ASSUME IInv, NEW k \in DOMAIN log, AmendLogbookEntry(k)
  PROVE  IInv'
<1> DEFINE r == [log[k] EXCEPT !.amends = k]
           n == Len(log) + 1
<1>1. /\ log \in Seq(LogRecords) /\ log' = Append(log, r)
      /\ task' = task /\ signer' = signer /\ staff' = staff /\ churn' = churn
  BY DEF AmendLogbookEntry, Amended, IInv, TypeOK
<1>2. k \in Nat /\ k # 0 /\ log[k] \in LogRecords
  BY <1>1
<1>3. r \in LogRecords /\ r.task = log[k].task /\ r.amends = k /\ r.people = log[k].people
  BY <1>2 DEF LogRecords
<1> HIDE DEF r
<1>4. /\ log' \in Seq(LogRecords) /\ DOMAIN log' = DOMAIN log \cup {n}
      /\ n \notin DOMAIN log /\ log'[n] = r
      /\ \A i \in DOMAIN log : log'[i] = log[i]
  BY <1>1, <1>3
<1>5. \A q \in Tasks : Originals(q)' = Originals(q)
  BY <1>2, <1>3, <1>4 DEF Originals
<1>6. RowsOK' /\ TypeOK'
  BY <1>1, <1>4 DEF IInv, RowsOK, TypeOK
<1>7. LogbookMatchesChain'
  BY <1>1, <1>3, <1>4, <1>5 DEF IInv, LogbookMatchesChain
<1> QED BY <1>6, <1>7 DEF IInv

LEMMA StaffKeeps ==
  ASSUME IInv, NEW e \in Employees,
         UpdateEmployee(e) \/ GrantCredential(e) \/ CredentialExpires(e)
  PROVE  IInv'
<1>1. staff[e] \in StaffRecords /\ staff \in [Employees -> StaffRecords] /\ churn \in Nat
  BY DEF IInv, TypeOK
<1>2. PICK rec \in StaffRecords : ChangeStaff(e, rec)
  BY <1>1 DEF UpdateEmployee, GrantCredential, CredentialExpires, StaffRecords
<1>3. /\ staff' = [staff EXCEPT ![e] = rec] /\ churn' = churn + 1
      /\ UNCHANGED <<task, signer, log>>
  BY <1>2 DEF ChangeStaff
<1>4. staff' \in [Employees -> StaffRecords] /\ churn' \in Nat
  BY <1>1, <1>3
<1>5. TypeOK'
  BY <1>3, <1>4 DEF IInv, TypeOK
<1>6. RowsOK' /\ LogbookMatchesChain'
  BY <1>3 DEF IInv, RowsOK, LogbookMatchesChain, Originals
<1> QED BY <1>5, <1>6 DEF IInv

LEMMA StepIInv == ASSUME IInv, [Next]_vars PROVE IInv'
<1>1. CASE TaskNext
  <2>1. "assigned" \in TaskStatuses
    BY DEF TaskStatuses
  <2> QED BY <1>1, <2>1, CreateKeeps, TasksMove, MoveKeeps, SignKeeps DEF TaskNext
<1>2. CASE \E i \in DOMAIN log : AmendLogbookEntry(i)
  BY <1>2, AmendKeeps
<1>3. CASE StaffNext
  BY <1>3, StaffKeeps DEF StaffNext
<1>4. CASE UNCHANGED vars
  BY <1>4 DEF vars, IInv, TypeOK, RowsOK, LogbookMatchesChain, Originals
<1> QED BY <1>1, <1>2, <1>3, <1>4 DEF Next

(* IInv holds in every reachable state.                                    *)
THEOREM Invariance == Spec => []IInv
<1>1. Init => IInv
  BY InitIInv
<1>2. IInv /\ [Next]_vars => IInv'
  BY StepIInv
<1> QED BY <1>1, <1>2, PTL DEF Spec

-----------------------------------------------------------------------------
(* The rows keep the shape of the database records.                        *)
THEOREM TypeCorrect == Spec => []TypeOK
<1>1. IInv => TypeOK
  BY DEF IInv
<1> QED BY <1>1, Invariance, PTL

(* Signatures are given in the order of CERT_STEPS, none skipped, none     *)
(* that is not required.                                                   *)
THEOREM OrderOfSteps == Spec => []ChainInOrder
<1>1. IInv => ChainInOrder
  BY DEF IInv, RowsOK, RowOK, ChainInOrder
<1> QED BY <1>1, Invariance, PTL

(* Performer, inspector and independent inspector are different people.    *)
THEOREM Segregation == Spec => []DutiesSegregated
<1>1. IInv => DutiesSegregated
  BY DEF IInv, RowsOK, RowOK, DutiesSegregated
<1> QED BY <1>1, Invariance, PTL

(* A task at a gate waits for the signature the gate is named for.         *)
THEOREM Gates == Spec => []GateMatchesChain
<1>1. IInv => GateMatchesChain
  BY DEF IInv, RowsOK, RowOK, GateMatchesChain
<1> QED BY <1>1, Invariance, PTL

(* Release status and complete chain are the same thing.                   *)
THEOREM Release == Spec => []ReleasedMeansCertified
<1>1. IInv => ReleasedMeansCertified
  BY DEF IInv, RowsOK, RowOK, ReleasedMeansCertified
<1> QED BY <1>1, Invariance, PTL

(* One original logbook entry for each released task, and every entry names *)
(* the people of the chain.                                                *)
THEOREM Logbook == Spec => []LogbookMatchesChain
<1>1. IInv => LogbookMatchesChain
  BY DEF IInv
<1> QED BY <1>1, Invariance, PTL

-----------------------------------------------------------------------------
(* What a step may do to one task, whichever action it is: nothing, create *)
(* it, move it along TASK_TRANSITIONS, or add one signature.               *)
TaskStep(t) ==
    \/ task'[t] = task[t] /\ signer'[t] = signer[t]
    \/ /\ task[t].status = "absent" /\ task'[t].version = task[t].version + 1
       /\ signer'[t] = signer[t]
    \/ /\ \E to \in TaskStatuses : MayMove(task[t], to) /\ task'[t] = Moved(task[t], to)
       /\ signer'[t] = signer[t]
    \/ \E s \in CertSteps, e \in Employees, u \in Users :
          /\ CanSign(task[t], signer[t], s, e, u)
          /\ task'[t] = Signed(task[t], signer[t], s)
          /\ signer'[t] = [signer[t] EXCEPT ![s] = e]

LEMMA EveryTaskStep ==
  ASSUME IInv, [Next]_vars, NEW t \in Tasks
  PROVE  TaskStep(t)
<1>0. /\ task \in [Tasks -> TaskRecords] /\ signer \in [Tasks -> Chains]
  BY DEF IInv, TypeOK, Chains
<1>1. ASSUME NEW q \in Tasks, NEW st \in {"open", "assigned"},
             NEW req \in SUBSET OptionalSteps, CreateTask(q, st, req)
      PROVE  TaskStep(t)
  <2>1. task[q].status = "absent" => task[q].version = 0
    BY DEF IInv, RowsOK, RowOK, AbsentOK, Absent
  <2>2. NewTask(st, req).version = 1
    BY DEF NewTask
  <2> QED BY <1>0, <1>1, <2>1, <2>2 DEF CreateTask, TaskStep
<1>2. ASSUME NEW q \in Tasks, NEW to \in TaskStatuses, MoveTask(q, to)
      PROVE  TaskStep(t)
  BY <1>0, <1>2 DEF MoveTask, TaskStep
<1>3. ASSUME NEW q \in Tasks, NEW s \in CertSteps, NEW e \in Employees, NEW u \in Users,
             SignAction(q, s, e, u)
      PROVE  TaskStep(t)
  BY <1>0, <1>3 DEF SignAction, TaskStep
<1>4. CASE \E i \in DOMAIN log : AmendLogbookEntry(i)
  BY <1>4 DEF AmendLogbookEntry, TaskStep
<1>5. CASE StaffNext
  BY <1>5 DEF StaffNext, UpdateEmployee, GrantCredential, CredentialExpires, ChangeStaff, TaskStep
<1>6. CASE UNCHANGED vars
  BY <1>6 DEF vars, TaskStep
<1>7. "assigned" \in TaskStatuses
  BY DEF TaskStatuses
<1>8. CASE TaskNext
  BY <1>1, <1>2, <1>3, <1>7, <1>8, TasksMove DEF TaskNext
<1> QED BY <1>4, <1>5, <1>6, <1>8 DEF Next

LEMMA VersionOfMove ==
  ASSUME NEW v \in TaskRecords, NEW people \in Chains, NEW to, NEW s
  PROVE  /\ Moved(v, to).version = v.version + 1
         /\ Moved(v, to).status = to
         /\ Signed(v, people, s).version = v.version + 1
<1> DEFINE st == SignedStatus(v.req, people, s)
           rl == IF s = "aircraft_released" THEN "released" ELSE v.rel
<1>1. Signed(v, people, s) = [v EXCEPT !.status = st, !.rel = rl, !.version = v.version + 1]
  BY DEF Signed
<1> HIDE DEF st, rl
<1> QED BY <1>1 DEF Moved, TaskRecords

LEMMA VersionStep ==
  ASSUME IInv, [Next]_vars, NEW t \in Tasks, task'[t] # task[t] \/ signer'[t] # signer[t]
  PROVE  task'[t].version = task[t].version + 1
<1>1. task[t] \in TaskRecords /\ signer[t] \in Chains
  BY DEF IInv, TypeOK, Chains
<1>2. CASE \E to \in TaskStatuses : task'[t] = Moved(task[t], to)
  BY SMTT(30), <1>1, <1>2, VersionOfMove
<1>3. CASE \E s \in CertSteps : task'[t] = Signed(task[t], signer[t], s)
  BY <1>1, <1>3, VersionOfMove
<1>4. TaskStep(t)
  BY EveryTaskStep
<1> QED BY <1>2, <1>3, <1>4 DEF TaskStep

LEMMA FinalStep ==
  ASSUME IInv, [Next]_vars, NEW t \in Tasks
  PROVE  /\ \A s \in Done(signer[t]) : signer'[t][s] = signer[t][s]
         /\ task[t].status \in TerminalStatuses =>
               task'[t] = task[t] /\ signer'[t] = signer[t]
         /\ task[t].status = "released" =>
               task'[t].status \in {"released", "closed"} /\ signer'[t] = signer[t]
<1>1. task[t] \in TaskRecords /\ signer[t] \in Chains
  BY DEF IInv, TypeOK, Chains
<1>2. ASSUME NEW s \in CertSteps, NEW e \in Employees, NEW u \in Users,
             CanSign(task[t], signer[t], s, e, u),
             signer'[t] = [signer[t] EXCEPT ![s] = e]
      PROVE  /\ \A r \in Done(signer[t]) : signer'[t][r] = signer[t][r]
             /\ task[t].status \notin TerminalStatuses \cup {"released"}
  BY <1>1, <1>2 DEF CanSign, IsNextStep, Done, Chains
<1>3. ASSUME NEW to \in TaskStatuses, MayMove(task[t], to)
      PROVE  /\ task[t].status \notin TerminalStatuses
             /\ task[t].status = "released" => to = "closed"
  BY <1>1, <1>3 DEF MayMove, CanTransition, TaskTransitions, TerminalStatuses
<1>4. TaskStep(t)
  BY EveryTaskStep
<1>5. CASE signer'[t] = signer[t] /\ (task'[t] = task[t] \/ task[t].status = "absent")
  BY <1>5 DEF TerminalStatuses
<1>6. CASE /\ \E to \in TaskStatuses : MayMove(task[t], to) /\ task'[t] = Moved(task[t], to)
           /\ signer'[t] = signer[t]
  <2>1. PICK to \in TaskStatuses : MayMove(task[t], to) /\ task'[t] = Moved(task[t], to)
    BY <1>6
  <2>2. task'[t].status = to
    BY <1>1, <2>1, VersionOfMove
  <2> QED BY <1>3, <1>6, <2>1, <2>2
<1>7. CASE \E s \in CertSteps, e \in Employees, u \in Users :
              /\ CanSign(task[t], signer[t], s, e, u)
              /\ signer'[t] = [signer[t] EXCEPT ![s] = e]
  BY <1>2, <1>7
<1> QED BY <1>4, <1>5, <1>6, <1>7 DEF TaskStep

LEMMA LogStep ==
  ASSUME IInv, [Next]_vars
  PROVE  Len(log) <= Len(log') /\ \A i \in DOMAIN log : log'[i] = log[i]
<1>0. log \in Seq(LogRecords) /\ signer \in [Tasks -> Chains]
  BY DEF IInv, TypeOK, Chains
<1>1. ASSUME NEW r \in LogRecords, log' = Append(log, r)
      PROVE  Len(log) <= Len(log') /\ \A i \in DOMAIN log : log'[i] = log[i]
  BY <1>0, <1>1
<1>2. CASE log' = log
  BY <1>0, <1>2
<1>3. ASSUME NEW t \in Tasks, NEW s \in CertSteps, NEW e \in Employees, NEW u \in Users,
             SignAction(t, s, e, u)
      PROVE  Len(log) <= Len(log') /\ \A i \in DOMAIN log : log'[i] = log[i]
  <2>1. ReleaseEntry(t, [signer[t] EXCEPT ![s] = e]) \in LogRecords
    BY <1>0 DEF ReleaseEntry, LogRecords, Chains
  <2>2. \/ log' = log
        \/ log' = Append(log, ReleaseEntry(t, [signer[t] EXCEPT ![s] = e]))
    BY <1>3 DEF SignAction, LogAfter
  <2> QED BY <2>1, <2>2, <1>1, <1>2
<1>4. ASSUME NEW k \in DOMAIN log, AmendLogbookEntry(k)
      PROVE  Len(log) <= Len(log') /\ \A i \in DOMAIN log : log'[i] = log[i]
  <2>0. k \in Nat /\ log[k] \in LogRecords
    BY <1>0
  <2>1. [log[k] EXCEPT !.amends = k] \in LogRecords
    BY <2>0 DEF LogRecords
  <2> QED BY <1>4, <2>1, <1>1 DEF AmendLogbookEntry, Amended
<1>5. CASE StaffNext \/ UNCHANGED vars
  BY <1>5, <1>2 DEF StaffNext, UpdateEmployee, GrantCredential, CredentialExpires,
                    ChangeStaff, vars
<1>6. ASSUME NEW t \in Tasks, NEW st, NEW req, CreateTask(t, st, req)
      PROVE  log' = log
  BY <1>6 DEF CreateTask
<1>7. ASSUME NEW t \in Tasks, NEW to, TransitionTask(t, to) \/ AssignTask(t)
      PROVE  log' = log
  BY <1>7 DEF TransitionTask, AssignTask
<1> QED BY <1>2, <1>3, <1>4, <1>5, <1>6, <1>7 DEF Next, TaskNext

(* The technical logbook is append-only.                                   *)
THEOREM AppendOnly == Spec => LogbookAppendOnly
<1>1. IInv /\ [Next]_vars =>
        [Len(log) <= Len(log') /\ \A i \in DOMAIN log : log'[i] = log[i]]_vars
  BY LogStep
<1> QED BY <1>1, Invariance, PTL DEF Spec, LogbookAppendOnly

(* Signatures are immutable and final tasks stay final.                    *)
THEOREM Finality == Spec => FinalIsFinal
<1>1. IInv /\ [Next]_vars =>
        [\A t \in Tasks :
            /\ \A s \in Done(signer[t]) : signer'[t][s] = signer[t][s]
            /\ task[t].status \in TerminalStatuses =>
                  task'[t] = task[t] /\ signer'[t] = signer[t]
            /\ task[t].status = "released" =>
                  task'[t].status \in {"released", "closed"} /\ signer'[t] = signer[t]]_vars
  BY FinalStep
<1> QED BY <1>1, Invariance, PTL DEF Spec, FinalIsFinal

(* A task never changes without its version changing.                      *)
THEOREM Versions == Spec => VersionMoves
<1>1. IInv /\ [Next]_vars =>
        [\A t \in Tasks :
            task'[t] # task[t] \/ signer'[t] # signer[t] =>
                task'[t].version = task[t].version + 1]_vars
  BY VersionStep
<1> QED BY <1>1, Invariance, PTL DEF Spec, VersionMoves

-----------------------------------------------------------------------------
(* The refinement.                                                         *)

LEMMA CreateIsTaskStep ==
  ASSUME NEW w \in Workers, NEW t \in Tasks, NEW st \in {"draft", "assigned"},
         NEW req \in ReqChoices, CreateCardTask(w, t, st, req)
  PROVE  Next
<1> DEFINE s == IF st = "assigned" THEN "assigned" ELSE "open"
<1>1. CreateTask(t, s, req) /\ s \in {"open", "assigned"} /\ req \in SUBSET OptionalSteps
  BY WorkOrdersAssumption DEF CreateCardTask
<1> HIDE DEF s
<1> QED BY <1>1 DEF Next, TaskNext

LEMMA StartIsTaskStep ==
  ASSUME NEW w \in Workers, Starts(w)
  PROVE  Next \/ UNCHANGED taskVars
<1>1. CASE \E t \in Tasks, st \in {"draft", "assigned"}, req \in ReqChoices :
              CreateCardTask(w, t, st, req)
  BY <1>1, CreateIsTaskStep
<1>2. CASE \E t \in Tasks, to \in CardTargets : TransitionDefines(w, t, to)
  BY <1>2 DEF TransitionDefines
<1>3. ASSUME NEW t \in Tasks, NEW e \in Employees, NEW u \in Users,
             \/ CompleteSigns(w, t, e, u)
             \/ \E s \in {"inspected", "independent_inspection"} : InspectSigns(w, t, s, e, u)
             \/ ReleaseSignsACA(w, t, e, u)
             \/ ReleaseSigns(w, t, e, u)
      PROVE  Next
  <2>1. \E s \in CertSteps : SignAction(t, s, e, u)
    BY <1>3 DEF CompleteSigns, InspectSigns, ReleaseSignsACA, ReleaseSigns,
                CertSteps, OptionalSteps
  <2> QED BY <2>1 DEF Next, TaskNext
<1> QED BY <1>1, <1>2, <1>3 DEF Starts

LEMMA ContinueIsTaskStep ==
  ASSUME WOTypeOK, NEW w \in Workers, Continues(w)
  PROVE  Next \/ UNCHANGED taskVars
<1>1. CASE CreateCardRow(w) \/ TransitionResumes(w) \/ CardFollows(w)
  BY <1>1 DEF CreateCardRow, TransitionResumes, CardFollows
<1>2. CASE ReleaseResumes(w)
  <2>1. inflight[w] \in Requests
    BY <1>2 DEF ReleaseResumes, At, WOTypeOK
  <2>2. /\ inflight[w].card \in Tasks /\ inflight[w].by \in Employees
        /\ inflight[w].user \in Users
    BY <2>1 DEF Requests
  <2>3. /\ SignAction(inflight[w].card, "aircraft_released", inflight[w].by, inflight[w].user)
        /\ "aircraft_released" \in CertSteps
    BY <1>2 DEF ReleaseResumes, CertSteps
  <2> QED BY <2>2, <2>3 DEF Next, TaskNext
<1> QED BY <1>1, <1>2 DEF Continues

LEMMA EveryStepIsTaskStep ==
  ASSUME WOTypeOK, [WONext]_allVars
  PROVE  Next \/ UNCHANGED vars
<1>2. ASSUME NEW o \in Orders, CreateOrder(o)
      PROVE  UNCHANGED taskVars
  BY <1>2 DEF CreateOrder
<1>3. ASSUME NEW t \in Tasks, NEW to, TransitionCard(t, to) \/ InspectRefuses(t, to)
      PROVE  UNCHANGED taskVars
  BY <1>3 DEF TransitionCard, InspectRefuses
<1>4. ASSUME NEW t \in Tasks, AssignCard(t)
      PROVE  Next \/ UNCHANGED taskVars
  BY <1>4 DEF AssignCard, Next, TaskNext
<1>5. ASSUME NEW w \in Workers, Starts(w) \/ Continues(w) \/ Abort(w)
      PROVE  Next \/ UNCHANGED taskVars
  BY <1>5, StartIsTaskStep, ContinueIsTaskStep DEF Abort
<1>6. CASE DirectNext
  <2>1. TaskTargets \subseteq TaskStatuses
    BY WorkOrdersAssumption
  <2> QED BY <1>6, <2>1 DEF DirectNext, Next, TaskNext
<1>7. CASE UNCHANGED allVars
  BY <1>7 DEF allVars, vars
<1>8. CASE WONext
  <2>1. UNCHANGED taskVars => UNCHANGED vars
    BY DEF taskVars, vars
  <2> QED BY <1>8, <1>2, <1>3, <1>4, <1>5, <1>6, <2>1 DEF WONext
<1> QED BY <1>7, <1>8

-----------------------------------------------------------------------------
(* What the task side guarantees the cards: signatures and tasks stay.     *)
TasksStay == \A t \in Tasks : /\ Done(signer[t]) \subseteq Done(signer'[t])
                              /\ task[t].status # "absent" => task'[t].status # "absent"

LEMMA EveryStepStays ==
  ASSUME IInv, [Next]_vars
  PROVE  TasksStay
<1> SUFFICES ASSUME NEW t \in Tasks
             PROVE  /\ Done(signer[t]) \subseteq Done(signer'[t])
                    /\ task[t].status # "absent" => task'[t].status # "absent"
  BY DEF TasksStay
<1>1. task[t] \in TaskRecords /\ signer[t] \in Chains
  BY DEF IInv, TypeOK, Chains
<1>2. Done(signer[t]) \subseteq Done(signer'[t])
  BY FinalStep DEF Done
<1>3. ASSUME NEW to \in TaskStatuses, task'[t] = Moved(task[t], to)
      PROVE  task'[t].status # "absent"
  BY <1>1, <1>3, VersionOfMove DEF TaskStatuses, TerminalStatuses
<1>4. ASSUME NEW s \in CertSteps, task'[t] = Signed(task[t], signer[t], s)
      PROVE  task'[t].status # "absent"
  <2> DEFINE st == SignedStatus(task[t].req, signer[t], s)
             rl == IF s = "aircraft_released" THEN "released" ELSE task[t].rel
  <2>1. st # "absent"
    BY DEF SignedStatus
  <2>2. task'[t] = [task[t] EXCEPT !.status = st, !.rel = rl, !.version = task[t].version + 1]
    BY <1>4 DEF Signed
  <2> HIDE DEF st, rl
  <2>3. task'[t].status = st
    BY <1>1, <2>2 DEF TaskRecords
  <2> QED BY <2>1, <2>3
<1> QED BY <1>2, <1>3, <1>4, EveryTaskStep DEF TaskStep

-----------------------------------------------------------------------------
(* What a request half-way through relies on.                              *)
Relies(r, c, people, status) ==
    /\ r.stage \in {"complete", "inspect", "release"} =>
          r.to \in CertGated /\ GateOfCard[r.to] \in Done(people)
    /\ r.stage \in {"create", "transition"} => r.to \notin CertGated
    /\ r.stage = "sign_release" => r.to = "released"
    /\ r.stage = "create" =>
          r.to \in {"draft", "assigned"} /\ c.status = "absent" /\ status # "absent"
    /\ r.stage # "create" => c.status # "absent"
    /\ r.stage \in {"transition", "inspect", "release", "sign_release"} =>
          c.tech \/ r.to \in {"draft", "assigned", "closed"}

FlightOK(w) ==
    inflight[w] # NoRequest =>
        LET t == inflight[w].card
        IN  Relies(inflight[w], card[t], signer[t], task[t].status)

\* No two requests are creating the same card.
CreatorsDiffer == \A v, w \in Workers :
    At(v, "create") /\ At(w, "create") /\ inflight[v].card = inflight[w].card => v = w

CardOK(c, people) ==
    /\ c.status \in CertGated => GateOfCard[c.status] \in Done(people)
    /\ c.status \notin {"absent", "draft", "assigned", "closed"} => c.tech

CardsOK == \A t \in Tasks : /\ CardOK(card[t], signer[t])
                            /\ card[t].status # "absent" => task[t].status # "absent"

\* The inductive invariant of the cards, beside IInv of the tasks.
CInv == WOTypeOK /\ CardsOK /\ CreatorsDiffer /\ \A w \in Workers : FlightOK(w)

LEMMA InitCInv == ASSUME WOInit PROVE CInv
<1>1. WOTypeOK
  BY DEF WOInit, WOTypeOK, CardRecords, NoCard, PackageStatuses
<1>2. CardsOK
  BY DEF WOInit, CardsOK, CardOK, NoCard, CertGated
<1>3. CreatorsDiffer /\ \A w \in Workers : FlightOK(w)
  BY DEF WOInit, CreatorsDiffer, FlightOK, At
<1> QED BY <1>1, <1>2, <1>3 DEF CInv

(* What a step may do to the cards that are not being created.             *)
CardsGrow == \A t \in Tasks :
    /\ card[t].status = "absent" => card'[t] = card[t]
    /\ card[t].status # "absent" => card'[t].status # "absent"
    /\ card[t].tech => card'[t].tech

(* A request that does not move keeps what it relies on.                   *)
LEMMA FlightStays ==
  ASSUME TasksStay, CardsGrow, WOTypeOK, NEW w \in Workers, FlightOK(w),
         inflight'[w] = inflight[w]
  PROVE  FlightOK(w)'
<1> SUFFICES ASSUME inflight[w] # NoRequest
             PROVE  FlightOK(w)'
  BY DEF FlightOK
<1>1. inflight[w].card \in Tasks
  BY DEF WOTypeOK, Requests
<1> QED BY <1>1 DEF FlightOK, Relies, TasksStay, CardsGrow

LEMMA FlightsStay ==
  ASSUME TasksStay, CardsGrow, CInv,
         \A w \in Workers : \/ inflight'[w] = inflight[w]
                            \/ FlightOK(w)' /\ ~At(w, "create")'
  PROVE  CreatorsDiffer' /\ \A w \in Workers : FlightOK(w)'
<1>1. \A w \in Workers : FlightOK(w)'
  BY FlightStays DEF CInv
<1>2. \A w \in Workers : At(w, "create")' => At(w, "create") /\ inflight'[w] = inflight[w]
  BY DEF At
<1>3. CreatorsDiffer'
  BY <1>2 DEF CInv, CreatorsDiffer, At
<1> QED BY <1>1, <1>3

LEMMA RollUpTypes ==
  ASSUME NEW S, NEW old
  PROVE  /\ old \in OrderStatuses \cup {"absent"} =>
               OrderRollUp(S, old) \in OrderStatuses \cup {"absent"}
         /\ old \in PackageStatuses => PackageRollUp(S, old) \in PackageStatuses
BY DEF OrderRollUp, PackageRollUp, OrderStatuses, PackageStatuses

(* Saving a card keeps the cards in order when the new status is one the   *)
(* signatures justify and somebody is named for the work.                  *)
LEMMA SaveKeeps ==
  ASSUME TasksStay, CInv, NEW t \in Tasks, NEW seen, NEW new \in CardStatuses,
         NEW tech \in BOOLEAN, SaveCard(t, seen, new, tech), card[t].status # "absent",
         new \in CertGated => GateOfCard[new] \in Done(signer'[t]),
         card[t].tech \/ tech \/ new \in {"draft", "assigned", "closed"}
  PROVE  /\ card' \in [Tasks -> CardRecords]
         /\ order' \in [Orders -> OrderStatuses \cup {"absent"}]
         /\ package' \in PackageStatuses
         /\ CardsOK' /\ CardsGrow
<1> DEFINE c == [status |-> IF new = seen THEN card[t].status ELSE new,
                 tech |-> card[t].tech \/ tech]
<1>1. /\ card \in [Tasks -> CardRecords] /\ card' = [card EXCEPT ![t] = c]
  BY DEF CInv, WOTypeOK, SaveCard
<1>2. order' \in [Orders -> OrderStatuses \cup {"absent"}]
  <2>1. order \in [Orders -> OrderStatuses \cup {"absent"}] /\ OrderOf[t] \in Orders
    BY WorkOrdersAssumption DEF CInv, WOTypeOK
  <2>2. PICK S : order' = [order EXCEPT ![OrderOf[t]] = OrderRollUp(S, order[OrderOf[t]])]
    BY DEF SaveCard
  <2> QED BY <2>1, <2>2, RollUpTypes
<1>3. package' \in PackageStatuses
  <2>1. \E S : package' = PackageRollUp(S, package)
    BY DEF SaveCard
  <2> QED BY <2>1, RollUpTypes DEF CInv, WOTypeOK
<1>4. c \in CardRecords /\ c.status # "absent" /\ (card[t].tech => c.tech)
  BY <1>1 DEF CardRecords, CardStatuses
<1>5. CardOK(c, signer'[t])
  <2>1. CardOK(card[t], signer[t]) /\ Done(signer[t]) \subseteq Done(signer'[t])
    BY DEF CInv, CardsOK, TasksStay
  <2>2. c.status = card[t].status \/ c.status = new
    OBVIOUS
  <2>3. c.tech <=> card[t].tech \/ tech
    OBVIOUS
  <2> HIDE DEF c
  <2> QED BY <2>1, <2>2, <2>3 DEF CardOK
<1> HIDE DEF c
<1>6. card' \in [Tasks -> CardRecords] /\ CardsGrow
  BY <1>1, <1>4 DEF CardsGrow
<1>7. \A q \in Tasks : CardOK(card'[q], signer'[q])
  <2>1. ASSUME NEW q \in Tasks, q # t PROVE CardOK(card'[q], signer'[q])
    <3>1. card'[q] = card[q] /\ CardOK(card[q], signer[q]) /\ Done(signer[q]) \subseteq Done(signer'[q])
      BY <1>1, <2>1 DEF CInv, CardsOK, TasksStay
    <3> QED BY <3>1 DEF CardOK
  <2>2. card'[t] = c
    BY <1>1
  <2> QED BY <1>5, <2>1, <2>2
<1>8. \A q \in Tasks : card'[q].status # "absent" => task'[q].status # "absent"
  <2>1. \A q \in Tasks : card'[q].status # "absent" => card[q].status # "absent"
    BY <1>1
  <2> QED BY <2>1 DEF CInv, CardsOK, TasksStay
<1> QED BY <1>2, <1>3, <1>6, <1>7, <1>8 DEF CardsOK

(* When no card changes, the cards stay in order.                          *)
LEMMA CardsStay ==
  ASSUME TasksStay, CInv, UNCHANGED card
  PROVE  CardsOK' /\ CardsGrow
<1>1. CardsGrow
  BY DEF CardsGrow
<1>2. ASSUME NEW q \in Tasks
      PROVE  /\ CardOK(card'[q], signer'[q])
             /\ card'[q].status # "absent" => task'[q].status # "absent"
  <2>1. /\ CardOK(card[q], signer[q]) /\ Done(signer[q]) \subseteq Done(signer'[q])
        /\ card[q].status # "absent" => task[q].status # "absent"
    BY DEF CInv, CardsOK, TasksStay
  <2> QED BY <2>1 DEF CardOK, TasksStay
<1> QED BY <1>1, <1>2 DEF CardsOK

(* A request that stops between its transactions.                          *)
LEMMA BeginKeeps ==
  ASSUME TasksStay, CInv, NEW w \in Workers, NEW stage \in Stages \ {"create"}, NEW t \in Tasks,
         NEW seen \in CardStatuses, NEW e \in Employees, NEW u \in Users, NEW to \in CardStatuses,
         Begin(w, stage, t, seen, e, u, to), UNCHANGED cardVars, defined' \in BOOLEAN,
         FlightOK(w)'
  PROVE  CInv'
<1> DEFINE r == [stage |-> stage, card |-> t, seen |-> seen, by |-> e, user |-> u, to |-> to]
<1>1. /\ inflight \in [Workers -> Requests \cup {NoRequest}]
      /\ inflight' = [inflight EXCEPT ![w] = r]
  BY DEF CInv, WOTypeOK, Begin
<1>2. r \in Requests /\ r.stage # "create"
  BY DEF Requests
<1> HIDE DEF r
<1>3. UNCHANGED card
  BY DEF cardVars
<1>4. CardsOK' /\ CardsGrow
  BY <1>3, CardsStay
<1>5. \A v \in Workers : \/ inflight'[v] = inflight[v]
                         \/ FlightOK(v)' /\ ~At(v, "create")'
  <2>1. \A v \in Workers : v # w => inflight'[v] = inflight[v]
    BY <1>1
  <2>2. ~At(w, "create")'
    BY <1>1, <1>2 DEF At
  <2> QED BY <2>1, <2>2 DEF FlightOK, At
<1>6. WOTypeOK'
  BY <1>1, <1>2 DEF CInv, WOTypeOK, cardVars
<1>7. CreatorsDiffer' /\ \A v \in Workers : FlightOK(v)'
  BY <1>4, <1>5, FlightsStay
<1> QED BY <1>4, <1>6, <1>7 DEF CInv

(* A card that is saved while no request moves.                            *)
LEMMA SaveAloneKeeps ==
  ASSUME TasksStay, CInv, NEW t \in Tasks, NEW seen, NEW new \in CardStatuses,
         NEW tech \in BOOLEAN, SaveCard(t, seen, new, tech), card[t].status # "absent",
         new \in CertGated => GateOfCard[new] \in Done(signer'[t]),
         card[t].tech \/ tech \/ new \in {"draft", "assigned", "closed"},
         UNCHANGED <<defined, inflight>>
  PROVE  CInv'
<1>1. /\ card' \in [Tasks -> CardRecords]
      /\ order' \in [Orders -> OrderStatuses \cup {"absent"}]
      /\ package' \in PackageStatuses
      /\ CardsOK' /\ CardsGrow
  BY SaveKeeps
<1>2. CreatorsDiffer' /\ \A w \in Workers : FlightOK(w)'
  BY <1>1, FlightsStay
<1>3. WOTypeOK'
  BY <1>1 DEF CInv, WOTypeOK
<1> QED BY <1>1, <1>2, <1>3 DEF CInv

(* A request that saves its card and ends.                                 *)
LEMMA SaveEndKeeps ==
  ASSUME TasksStay, CInv, NEW w \in Workers, inflight[w] # NoRequest,
         NEW tech \in BOOLEAN, End(w), UNCHANGED <<taskVars, defined>>,
         inflight[w].stage # "create",
         SaveCard(inflight[w].card, inflight[w].seen, inflight[w].to, tech),
         inflight[w].stage \in {"transition", "complete", "inspect", "release"},
         inflight[w].stage = "complete" => tech
  PROVE  CInv'
<1> DEFINE r == inflight[w]
<1>0. r \in Requests /\ r.card \in Tasks /\ r.to \in CardStatuses
  BY DEF CInv, WOTypeOK, Requests
<1>1. Relies(r, card[r.card], signer[r.card], task[r.card].status)
  BY DEF CInv, FlightOK
<1>2. /\ card[r.card].status # "absent"
      /\ r.to \in CertGated => GateOfCard[r.to] \in Done(signer'[r.card])
      /\ card[r.card].tech \/ tech \/ r.to \in {"draft", "assigned", "closed"}
  BY <1>1 DEF Relies, taskVars
<1>3. /\ card' \in [Tasks -> CardRecords]
      /\ order' \in [Orders -> OrderStatuses \cup {"absent"}]
      /\ package' \in PackageStatuses
      /\ CardsOK' /\ CardsGrow
  BY <1>0, <1>2, SaveKeeps
<1>4. inflight' = [inflight EXCEPT ![w] = NoRequest] /\ inflight \in [Workers -> Requests \cup {NoRequest}]
  BY DEF End, CInv, WOTypeOK
<1>5. \A v \in Workers : \/ inflight'[v] = inflight[v]
                         \/ FlightOK(v)' /\ ~At(v, "create")'
  BY <1>4 DEF FlightOK, At
<1>6. CreatorsDiffer' /\ \A v \in Workers : FlightOK(v)'
  BY <1>3, <1>5, FlightsStay
<1>7. WOTypeOK'
  BY <1>3, <1>4 DEF CInv, WOTypeOK
<1> QED BY <1>3, <1>6, <1>7 DEF CInv

-----------------------------------------------------------------------------
(* One lemma for each group of handlers.                                   *)

LEMMA OrderKeeps ==
  ASSUME TasksStay, CInv, NEW o \in Orders, CreateOrder(o)
  PROVE  CInv'
<1>1. CardsOK' /\ CardsGrow
  BY CardsStay DEF CreateOrder
<1>2. CreatorsDiffer' /\ \A w \in Workers : FlightOK(w)'
  BY <1>1, FlightsStay DEF CreateOrder
<1>3. WOTypeOK'
  BY DEF CreateOrder, CInv, WOTypeOK, OrderStatuses, PackageStatuses
<1> QED BY <1>1, <1>2, <1>3 DEF CInv

LEMMA UnchangedKeeps ==
  ASSUME TasksStay, CInv, UNCHANGED woVars
  PROVE  CInv'
<1>0. UNCHANGED <<card, order, package, defined, inflight>>
  BY DEF woVars
<1>1. CardsOK' /\ CardsGrow
  BY <1>0, CardsStay
<1>2. CreatorsDiffer' /\ \A w \in Workers : FlightOK(w)'
  BY <1>0, <1>1, FlightsStay
<1>3. WOTypeOK'
  BY <1>0 DEF CInv, WOTypeOK
<1> QED BY <1>1, <1>2, <1>3 DEF CInv

LEMMA MoveCardFacts ==
  ASSUME CInv, NEW t \in Tasks, NEW to \in CardStatuses, CanMoveCard(t, to)
  PROVE  /\ card[t].status \in CardStatuses
         /\ card[t].status # "absent"
         /\ to \notin CertGated
         /\ card[t].tech \/ to \in {"draft", "assigned", "closed"}
<1>1. card[t] \in CardRecords /\ CardOK(card[t], signer[t])
  BY DEF CInv, WOTypeOK, CardsOK
<1>2. card[t].status # "absent"
  BY DEF CanMoveCard, CardTransitions
<1>3. to \in {"draft", "assigned", "closed", "accepted"} \/ card[t].status \notin {"draft", "assigned", "closed"}
  BY DEF CanMoveCard, CardTransitions
<1> QED BY <1>1, <1>2, <1>3 DEF CanMoveCard, CardOK, CardRecords

LEMMA TransitionCardKeeps ==
  ASSUME TasksStay, CInv, NEW t \in Tasks, NEW to \in CardStatuses, TransitionCard(t, to)
  PROVE  CInv'
<1>1. PICK named \in {FALSE, to = "assigned"} : SaveCard(t, card[t].status, to, named)
  BY DEF TransitionCard
<1>2. CanMoveCard(t, to) /\ UNCHANGED <<defined, inflight>> /\ named \in BOOLEAN
  BY DEF TransitionCard
<1> QED BY <1>1, <1>2, MoveCardFacts, SaveAloneKeeps

LEMMA RefusalKeeps ==
  ASSUME TasksStay, CInv, NEW t \in Tasks, NEW to \in {"rejected", "in_progress"},
         InspectRefuses(t, to)
  PROVE  CInv'
<1>1. /\ SaveCard(t, card[t].status, to, FALSE) /\ card[t].status = "waiting_inspection"
      /\ UNCHANGED <<defined, inflight>> /\ to \in CardStatuses /\ to \notin CertGated
  BY DEF InspectRefuses, CardStatuses, CertGated
<1>2. card[t].tech
  BY <1>1 DEF CInv, CardsOK, CardOK
<1> QED BY <1>1, <1>2, SaveAloneKeeps

LEMMA AssignCardKeeps ==
  ASSUME TasksStay, CInv, NEW t \in Tasks, AssignCard(t)
  PROVE  CInv'
<1> DEFINE c == [status |-> "assigned", tech |-> TRUE]
<1>1. /\ card \in [Tasks -> CardRecords] /\ card' = [card EXCEPT ![t] = c]
      /\ UNCHANGED <<order, package, defined, inflight>>
      /\ card[t].status # "absent"
  BY DEF CInv, WOTypeOK, AssignCard
<1>2. c \in CardRecords /\ c.status = "assigned" /\ c.tech
  BY DEF CardRecords, CardStatuses
<1> HIDE DEF c
<1>3. CardsGrow
  BY <1>1, <1>2 DEF CardsGrow
<1>4. ASSUME NEW q \in Tasks
      PROVE  /\ CardOK(card'[q], signer'[q])
             /\ card'[q].status # "absent" => task'[q].status # "absent"
  <2>1. /\ CardOK(card[q], signer[q]) /\ Done(signer[q]) \subseteq Done(signer'[q])
        /\ card[q].status # "absent" => task'[q].status # "absent"
    BY DEF CInv, CardsOK, TasksStay
  <2>2. CardOK(c, signer'[q])
    BY <1>2 DEF CardOK, CertGated
  <2> QED BY <1>1, <2>1, <2>2 DEF CardOK
<1>5. CreatorsDiffer' /\ \A w \in Workers : FlightOK(w)'
  BY <1>1, <1>3, FlightsStay
<1>6. WOTypeOK'
  BY <1>1, <1>2 DEF CInv, WOTypeOK
<1> QED BY <1>4, <1>5, <1>6 DEF CInv, CardsOK

LEMMA SignedIsDone ==
  ASSUME TypeOK, NEW t \in Tasks, NEW s \in CertSteps, NEW e \in Employees, NEW u \in Users,
         SignAction(t, s, e, u)
  PROVE  s \in Done(signer'[t])
<1>1. signer \in [Tasks -> Chains] /\ signer' = [signer EXCEPT ![t] = [signer[t] EXCEPT ![s] = e]]
  BY DEF TypeOK, Chains, SignAction
<1>2. signer'[t][s] = e /\ e # Nobody
  BY <1>1, CertificationAssumption DEF Chains
<1> QED BY <1>2 DEF Done

(* The requests that sign and then stop: each relies on what it signed.    *)
LEMMA SignersKeep ==
  ASSUME TypeOK, TasksStay, CInv, NEW w \in Workers, NEW t \in Tasks,
         NEW e \in Employees, NEW u \in Users,
         \/ CompleteSigns(w, t, e, u)
         \/ \E s \in {"inspected", "independent_inspection"} : InspectSigns(w, t, s, e, u)
         \/ ReleaseSignsACA(w, t, e, u)
         \/ ReleaseSigns(w, t, e, u)
  PROVE  CInv'
<1>1. CardOK(card[t], signer[t]) /\ card[t] \in CardRecords
  BY DEF CInv, CardsOK, WOTypeOK
<1>2. PICK stage \in Stages \ {"create"}, seen \in CardStatuses, to \in CardStatuses, s \in CertSteps :
        /\ Begin(w, stage, t, seen, e, u, to) /\ SignAction(t, s, e, u)
        /\ UNCHANGED <<cardVars, defined>>
        /\ card[t].status # "absent"
        /\ \/ stage = "complete" /\ to = "waiting_inspection" /\ s = "performed"
           \/ /\ stage = "inspect" /\ to = "completed" /\ card[t].tech
              /\ s = "inspected" \/ "inspected" \in Done(signer[t])
           \/ stage = "release" /\ to = "released" /\ s = "aircraft_released" /\ card[t].tech
           \/ stage = "sign_release" /\ to = "released" /\ card[t].tech
  <2>0. /\ {"waiting_inspection", "completed", "released"} \subseteq CardStatuses
        /\ {"complete", "inspect", "release", "sign_release"} \subseteq Stages \ {"create"}
        /\ {"performed", "inspected", "independent_inspection", "aca_certified",
            "aircraft_released"} \subseteq CertSteps
    BY DEF CardStatuses, Stages, CertSteps, OptionalSteps
  <2>1. CASE CompleteSigns(w, t, e, u)
    <3>1. card[t].status \in CardStatuses \ {"absent"}
      BY <2>1 DEF CompleteSigns, CardStatuses
    <3> QED BY <2>0, <2>1, <3>1 DEF CompleteSigns
  <2>2. ASSUME NEW s \in {"inspected", "independent_inspection"}, InspectSigns(w, t, s, e, u)
        PROVE  /\ card[t].status \in CardStatuses \ {"absent"} /\ card[t].tech
               /\ s = "inspected" \/ "inspected" \in Done(signer[t])
    BY <2>2, <1>1 DEF InspectSigns, CardOK, CertGated, GateOfCard, CardStatuses
  <2>3. CASE \E s \in {"inspected", "independent_inspection"} : InspectSigns(w, t, s, e, u)
    <3>1. PICK s \in {"inspected", "independent_inspection"} : InspectSigns(w, t, s, e, u)
      BY <2>3
    <3> QED BY <2>0, <2>2, <3>1 DEF InspectSigns
  <2>4. CASE ReleaseSignsACA(w, t, e, u) \/ ReleaseSigns(w, t, e, u)
    <3>1. card[t].status = "completed" /\ card[t].tech
      BY <2>4, <1>1 DEF ReleaseSignsACA, ReleaseSigns, ReleaseChecks, CardOK
    <3> QED BY <2>0, <2>4, <3>1 DEF ReleaseSignsACA, ReleaseSigns
  <2> QED BY <2>1, <2>3, <2>4
<1> DEFINE r == [stage |-> stage, card |-> t, seen |-> seen, by |-> e, user |-> u, to |-> to]
<1>3. inflight'[w] = r
  BY <1>2 DEF Begin, CInv, WOTypeOK
<1>4. s \in Done(signer'[t]) /\ Done(signer[t]) \subseteq Done(signer'[t])
  BY <1>2, SignedIsDone DEF TasksStay
<1>5. Relies(r, card[t], signer'[t], task'[t].status)
  BY <1>2, <1>4 DEF Relies, CertGated, GateOfCard
<1>6. r.card = t
  OBVIOUS
<1> HIDE DEF r
<1>7. FlightOK(w)' /\ UNCHANGED cardVars
  BY <1>2, <1>3, <1>5, <1>6 DEF FlightOK, cardVars
<1>8. defined' \in BOOLEAN
  BY <1>2 DEF CInv, WOTypeOK
<1> QED BY <1>2, <1>7, <1>8, BeginKeeps

LEMMA DefinesKeeps ==
  ASSUME TasksStay, CInv, NEW w \in Workers, NEW t \in Tasks, NEW to \in CardTargets,
         TransitionDefines(w, t, to)
  PROVE  CInv'
<1>1. to \in CardStatuses
  BY WorkOrdersAssumption
<1>2. CASE ~CanMoveCard(t, to)
  <2>1. defined' = TRUE /\ UNCHANGED <<card, order, package, inflight>>
    BY <1>2 DEF TransitionDefines, cardVars
  <2>2. \A v \in Workers : inflight'[v] = inflight[v]
    BY <2>1
  <2>3. CardsOK' /\ CardsGrow
    BY <2>1, CardsStay
  <2>4. CreatorsDiffer' /\ \A v \in Workers : FlightOK(v)'
    BY <2>2, <2>3, FlightsStay
  <2>5. WOTypeOK'
    BY <2>1 DEF CInv, WOTypeOK
  <2> QED BY <2>3, <2>4, <2>5 DEF CInv
<1>3. CASE CanMoveCard(t, to)
  <2>1. /\ card[t].status \in CardStatuses /\ card[t].status # "absent"
        /\ to \notin CertGated
        /\ card[t].tech \/ to \in {"draft", "assigned", "closed"}
    BY <1>1, <1>3, MoveCardFacts
  <2>2. PICK e \in Employees, u \in Users :
             Begin(w, "transition", t, card[t].status, e, u, to)
    BY <1>3 DEF TransitionDefines
  <2> DEFINE r == [stage |-> "transition", card |-> t, seen |-> card[t].status,
                   by |-> e, user |-> u, to |-> to]
  <2>3. inflight'[w] = r /\ r.card = t
    BY <2>2 DEF Begin, CInv, WOTypeOK
  <2>4. Relies(r, card[t], signer'[t], task'[t].status)
    BY <2>1 DEF Relies
  <2> HIDE DEF r
  <2>5. FlightOK(w)' /\ UNCHANGED cardVars /\ defined' \in BOOLEAN
    BY <2>3, <2>4 DEF FlightOK, cardVars, TransitionDefines
  <2>6. "transition" \in Stages \ {"create"}
    BY DEF Stages
  <2> QED BY <1>1, <2>1, <2>2, <2>5, <2>6, BeginKeeps
<1> QED BY <1>2, <1>3

LEMMA AbortKeeps ==
  ASSUME TasksStay, CInv, NEW w \in Workers, Abort(w)
  PROVE  CInv'
<1>1. /\ inflight' = [inflight EXCEPT ![w] = NoRequest]
      /\ inflight \in [Workers -> Requests \cup {NoRequest}]
      /\ UNCHANGED <<card, order, package, defined>>
  BY DEF Abort, End, CInv, WOTypeOK, cardVars
<1>2. \A v \in Workers : \/ inflight'[v] = inflight[v]
                         \/ FlightOK(v)' /\ ~At(v, "create")'
  BY <1>1 DEF FlightOK, At
<1>3. CardsOK' /\ CardsGrow
  BY <1>1, CardsStay
<1>4. CreatorsDiffer' /\ \A v \in Workers : FlightOK(v)'
  BY <1>2, <1>3, FlightsStay
<1>5. WOTypeOK'
  BY <1>1 DEF CInv, WOTypeOK
<1> QED BY <1>3, <1>4, <1>5 DEF CInv

LEMMA ResumesKeep ==
  ASSUME TypeOK, TasksStay, CInv, NEW w \in Workers, ReleaseResumes(w)
  PROVE  CInv'
<1> DEFINE old == inflight[w]
           r == [old EXCEPT !.stage = "release"]
<1>1. /\ inflight \in [Workers -> Requests \cup {NoRequest}]
      /\ inflight' = [inflight EXCEPT ![w] = r]
      /\ UNCHANGED <<card, order, package, defined>>
      /\ old \in Requests /\ old # NoRequest /\ old.stage = "sign_release"
      /\ SignAction(old.card, "aircraft_released", old.by, old.user)
  BY DEF ReleaseResumes, At, CInv, WOTypeOK, cardVars
<1>2. /\ r \in Requests /\ r.stage = "release" /\ r.card = old.card /\ r.to = old.to
      /\ old.card \in Tasks /\ old.by \in Employees /\ old.user \in Users
  BY <1>1 DEF Requests, Stages
<1>3. Relies(old, card[old.card], signer[old.card], task[old.card].status)
  BY <1>1 DEF CInv, FlightOK
<1> HIDE DEF r, old
<1>4. "aircraft_released" \in Done(signer'[old.card])
  BY <1>1, <1>2, SignedIsDone DEF CertSteps
<1>5. Relies(r, card[old.card], signer'[old.card], task'[old.card].status)
  BY <1>1, <1>2, <1>3, <1>4 DEF Relies, CertGated, GateOfCard
<1>6. FlightOK(w)' /\ ~At(w, "create")'
  BY <1>1, <1>2, <1>5 DEF FlightOK, At
<1>7. \A v \in Workers : \/ inflight'[v] = inflight[v]
                         \/ FlightOK(v)' /\ ~At(v, "create")'
  BY <1>1, <1>6 DEF FlightOK, At
<1>8. CardsOK' /\ CardsGrow
  BY <1>1, CardsStay
<1>9. CreatorsDiffer' /\ \A v \in Workers : FlightOK(v)'
  BY <1>7, <1>8, FlightsStay
<1>10. WOTypeOK'
  BY <1>1, <1>2 DEF CInv, WOTypeOK
<1> QED BY <1>8, <1>9, <1>10 DEF CInv

LEMMA FollowersKeep ==
  ASSUME TasksStay, CInv, NEW w \in Workers, TransitionResumes(w) \/ CardFollows(w)
  PROVE  CInv'
<1>1. CASE TransitionResumes(w)
  <2>1. PICK named \in {FALSE, inflight[w].to = "assigned"} :
          SaveCard(inflight[w].card, inflight[w].seen, inflight[w].to, named)
    BY <1>1 DEF TransitionResumes
  <2>2. /\ inflight[w] # NoRequest /\ inflight[w].stage = "transition"
        /\ End(w) /\ UNCHANGED <<taskVars, defined>> /\ named \in BOOLEAN
    BY <1>1 DEF TransitionResumes, At
  <2> QED BY <2>1, <2>2, SaveEndKeeps
<1>2. CASE CardFollows(w)
  <2> DEFINE tech == inflight[w].stage = "complete"
  <2>1. /\ SaveCard(inflight[w].card, inflight[w].seen, inflight[w].to, tech)
        /\ inflight[w] # NoRequest /\ inflight[w].stage \in {"complete", "inspect", "release"}
        /\ End(w) /\ UNCHANGED <<taskVars, defined>> /\ tech \in BOOLEAN
        /\ inflight[w].stage = "complete" => tech
    BY <1>2 DEF CardFollows, At
  <2> HIDE DEF tech
  <2> QED BY <2>1, SaveEndKeeps
<1> QED BY <1>1, <1>2

LEMMA CreateCardTaskKeeps ==
  ASSUME TasksStay, CInv, NEW w \in Workers, NEW t \in Tasks, NEW st \in {"draft", "assigned"},
         NEW req, IInv, CreateCardTask(w, t, st, req)
  PROVE  CInv'
<1>1. PICK e \in Employees, u \in Users : Begin(w, "create", t, order[OrderOf[t]], e, u, st)
  BY DEF CreateCardTask
<1> DEFINE r == [stage |-> "create", card |-> t, seen |-> order[OrderOf[t]],
                 by |-> e, user |-> u, to |-> st]
<1>2. /\ inflight \in [Workers -> Requests \cup {NoRequest}]
      /\ inflight' = [inflight EXCEPT ![w] = r]
      /\ UNCHANGED <<card, order, package, defined>>
  BY <1>1 DEF Begin, CInv, WOTypeOK, CreateCardTask, cardVars
<1>3. /\ order[OrderOf[t]] \in OrderStatuses /\ st \in CardStatuses
      /\ st \notin CertGated /\ "create" \in Stages
  BY WorkOrdersAssumption DEF CreateCardTask, CInv, WOTypeOK, CardStatuses, CertGated, Stages
<1>4. r \in Requests /\ r.card = t /\ r.stage = "create"
  BY <1>3 DEF Requests
<1>5. task[t].status = "absent" /\ task'[t].status # "absent"
  BY DEF CreateCardTask, CreateTask, NewTask, IInv, TypeOK
<1>6. card[t].status = "absent"
  BY <1>5 DEF CInv, CardsOK
<1>7. Relies(r, card[t], signer'[t], task'[t].status)
  BY <1>3, <1>5, <1>6 DEF Relies
<1> HIDE DEF r
<1>8. CardsOK' /\ CardsGrow
  BY <1>2, CardsStay
<1>9. ASSUME NEW v \in Workers PROVE FlightOK(v)'
  <2>1. CASE v = w
    BY <1>2, <1>4, <1>7, <2>1 DEF FlightOK
  <2>2. CASE v # w
    BY <1>2, <1>8, <2>2, FlightStays DEF CInv
  <2> QED BY <2>1, <2>2
<1>10. ASSUME NEW v \in Workers, At(v, "create") PROVE inflight[v].card # t
  BY <1>5, <1>10 DEF CInv, FlightOK, Relies, At
<1>11. CreatorsDiffer'
  BY <1>2, <1>4, <1>10 DEF CInv, CreatorsDiffer, At
<1>12. WOTypeOK'
  BY <1>2, <1>4 DEF CInv, WOTypeOK
<1> QED BY <1>8, <1>9, <1>11, <1>12 DEF CInv

LEMMA CreateCardRowKeeps ==
  ASSUME TasksStay, CInv, NEW w \in Workers, CreateCardRow(w)
  PROVE  CInv'
<1> DEFINE r == inflight[w]
           t == r.card
           c == [status |-> r.to, tech |-> r.to = "assigned"]
<1>1. /\ inflight \in [Workers -> Requests \cup {NoRequest}]
      /\ inflight' = [inflight EXCEPT ![w] = NoRequest]
      /\ card \in [Tasks -> CardRecords] /\ card' = [card EXCEPT ![t] = c]
      /\ UNCHANGED taskVars /\ defined' = defined
      /\ r \in Requests /\ At(w, "create") /\ r # NoRequest /\ r.stage = "create"
  BY DEF CreateCardRow, At, End, CInv, WOTypeOK
<1>2. t \in Tasks /\ r.to \in CardStatuses
  BY <1>1 DEF Requests
<1>3. Relies(r, card[t], signer[t], task[t].status)
  BY <1>1 DEF CInv, FlightOK
<1>4. /\ r.to \in {"draft", "assigned"} /\ card[t].status = "absent"
      /\ task[t].status # "absent"
  BY <1>1, <1>3 DEF Relies
<1>5. c \in CardRecords /\ CardOK(c, signer[t])
  BY <1>4 DEF CardRecords, CardStatuses, CardOK, CertGated
<1>6. order' \in [Orders -> OrderStatuses \cup {"absent"}] /\ package' \in PackageStatuses
  BY DEF CreateCardRow, CInv, WOTypeOK, OrderStatuses, PackageStatuses
<1>7. WOTypeOK'
  BY <1>1, <1>2, <1>5, <1>6 DEF CInv, WOTypeOK
<1>8. ASSUME NEW v \in Workers, inflight'[v] # NoRequest
      PROVE  v # w /\ inflight'[v] = inflight[v] /\ inflight[v].card # t /\ inflight[v].card \in Tasks
  <2>1. /\ v # w /\ inflight'[v] = inflight[v] /\ inflight[v] \in Requests
        /\ inflight[v] # NoRequest /\ inflight[v].card \in Tasks
    BY <1>1, <1>8 DEF Requests
  <2>2. Relies(inflight[v], card[inflight[v].card], signer[inflight[v].card],
               task[inflight[v].card].status)
    BY <1>8, <2>1 DEF CInv, FlightOK
  <2>3. inflight[v].stage = "create" => inflight[v].card # t
    BY <1>1, <2>1 DEF CInv, CreatorsDiffer, At
  <2>4. inflight[v].stage # "create" => inflight[v].card # t
    BY <1>4, <2>2 DEF Relies
  <2> QED BY <2>1, <2>3, <2>4
<1> HIDE DEF c, t, r
<1>9. ASSUME NEW v \in Workers PROVE FlightOK(v)'
  BY <1>1, <1>2, <1>8 DEF CInv, FlightOK, taskVars
<1>10. CreatorsDiffer'
  BY <1>8 DEF CInv, CreatorsDiffer, At
<1>11. CardsOK'
  BY <1>1, <1>2, <1>4, <1>5 DEF CInv, CardsOK, taskVars
<1> QED BY <1>7, <1>9, <1>10, <1>11 DEF CInv

LEMMA StepCInv ==
  ASSUME IInv, CInv, [WONext]_allVars
  PROVE  CInv'
<1>1. Next \/ UNCHANGED vars
  BY EveryStepIsTaskStep DEF CInv
<1>2. TasksStay /\ TypeOK
  BY <1>1, EveryStepStays DEF IInv
<1>3. ASSUME NEW t \in Tasks, \/ AssignCard(t)
                              \/ \E to \in CardTargets : TransitionCard(t, to)
                              \/ \E to \in {"rejected", "in_progress"} : InspectRefuses(t, to)
      PROVE  CInv'
  <2>1. CardTargets \subseteq CardStatuses
    BY WorkOrdersAssumption
  <2> QED BY <1>2, <1>3, <2>1, AssignCardKeeps, TransitionCardKeeps, RefusalKeeps
<1>4. ASSUME NEW w \in Workers, Starts(w)
      PROVE  CInv'
  BY <1>2, <1>4, CreateCardTaskKeeps, DefinesKeeps, SignersKeep DEF Starts
<1>5. ASSUME NEW w \in Workers, Continues(w) \/ Abort(w)
      PROVE  CInv'
  BY <1>2, <1>5, CreateCardRowKeeps, FollowersKeep, ResumesKeep, AbortKeeps DEF Continues
<1>6. CASE DirectNext \/ UNCHANGED allVars
  BY <1>2, <1>6, UnchangedKeeps DEF DirectNext, allVars, woVars
<1>7. CASE WONext
  BY <1>2, <1>3, <1>4, <1>5, <1>6, <1>7, OrderKeeps DEF WONext
<1> QED BY <1>6, <1>7

(* Both invariants hold in every reachable state.                          *)
THEOREM WOInvariance == WOSpec => [](IInv /\ CInv)
<1>1. WOInit => IInv /\ CInv
  BY InitIInv, InitCInv DEF WOInit
<1>2. IInv /\ CInv /\ [WONext]_allVars => IInv' /\ CInv'
  BY EveryStepIsTaskStep, StepIInv, StepCInv DEF CInv
<1> QED BY <1>1, <1>2, PTL DEF WOSpec

-----------------------------------------------------------------------------
(* The job card endpoints use the task engine within its rules: what they  *)
(* do to tasks, chains and logbook is a behaviour of Certification.        *)
THEOREM Implementation == WOSpec => ImplementsCertification
<1>1. WOInit => Init
  BY DEF WOInit
<1>2. IInv /\ CInv /\ [WONext]_allVars => [Next]_vars
  BY EveryStepIsTaskStep DEF CInv
<1> QED BY <1>1, <1>2, WOInvariance, PTL DEF WOSpec, Spec, ImplementsCertification

(* The rows of the work order module keep their shape.                     *)
THEOREM WOTypeCorrect == WOSpec => []WOTypeOK
<1>1. CInv => WOTypeOK
  BY DEF CInv
<1> QED BY <1>1, WOInvariance, PTL

(* A card at a gate has the signature the gate stands for, although card   *)
(* and task are written in different transactions.                         *)
THEOREM CardGates == WOSpec => []CardGatesCertified
<1>1. CInv => CardGatesCertified
  BY DEF CInv, CardsOK, CardOK, CardGatesCertified, GateOfCard, CertGated
<1> QED BY <1>1, WOInvariance, PTL

(* A card past assignment names its technician.                            *)
THEOREM TechnicianNamed == WOSpec => []WorkHasTechnician
<1>1. CInv => WorkHasTechnician
  BY DEF CInv, CardsOK, CardOK, WorkHasTechnician
<1> QED BY <1>1, WOInvariance, PTL

(* A released card has a task that is released, with its whole chain       *)
(* signed and its entry in the logbook.                                    *)
THEOREM ReleasedCards == WOSpec => []ReleasedCardHasEntry
<1>1. IInv /\ CInv => ReleasedCardHasEntry
  <2> SUFFICES ASSUME IInv, CInv, NEW t \in Tasks, card[t].status = "released"
               PROVE  task[t].rel = "released" /\ Originals(t) # {}
    BY DEF ReleasedCardHasEntry
  <2>1. "aircraft_released" \in Done(signer[t])
    BY DEF CInv, CardsOK, CardOK, GateOfCard, CertGated
  <2>2. ChainOK(task[t], signer[t]) /\ ReleaseOK(task[t], signer[t])
    BY DEF IInv, RowsOK, RowOK
  <2>3. task[t].req \subseteq OptionalSteps
    BY DEF IInv, TypeOK, TaskRecords
  <2>4. Needed(task[t].req) \subseteq Before(task[t].req, "aircraft_released") \cup {"aircraft_released"}
    BY <2>3 DEF Needed, Before, Rank, OptionalSteps
  <2>5. Needed(task[t].req) \subseteq Done(signer[t])
    BY <2>1, <2>2, <2>4 DEF ChainOK
  <2>6. task[t].rel = "released"
    BY <2>2, <2>5 DEF ReleaseOK
  <2> QED BY <2>6 DEF IInv, LogbookMatchesChain
<1> QED BY <1>1, WOInvariance, PTL

-----------------------------------------------------------------------------
(* What an order says of its cards.                                        *)

\* A request that goes on with an old reading writes another status than the one it has
\* read, except where it leaves a completed card completed.
WritesAnother(r) ==
    r.stage # "create" /\ r.to = r.seen => r.to = "completed"

ReadingsOK == \A w \in Workers : inflight[w] # NoRequest => WritesAnother(inflight[w])

\* The status an order takes from its cards shows a card that is worked on.
LEMMA RollUpShows ==
  ASSUME NEW statuses, NEW old, NEW s \in statuses, s \in Working \cup {"rejected"}
  PROVE  OrderRollUp(statuses, old) \in {"in_progress", "delayed"}
BY DEF OrderRollUp, Working, Finished

LEMMA NoSelfLoop ==
  ASSUME CInv, NEW t \in Tasks, NEW to, CanMoveCard(t, to)
  PROVE  to # card[t].status
<1>1. card[t].status \in CardStatuses \cup {"absent"}
  BY DEF CInv, WOTypeOK, CardRecords
<1> QED BY <1>1 DEF CanMoveCard, CardTransitions, CardStatuses

LEMMA SaveShows ==
  ASSUME CInv, OrderShowsWork, NEW t \in Tasks, NEW seen, NEW new \in CardStatuses,
         NEW tech, SaveCard(t, seen, new, tech), new = seen => new \in Working
  PROVE  OrderShowsWork'
<1> DEFINE o == OrderOf[t]
           statuses == {new} \cup {card[c].status : c \in CardsOf(o) \ {t}}
<1>1. /\ card \in [Tasks -> CardRecords] /\ order \in [Orders -> OrderStatuses \cup {"absent"}]
      /\ OrderOf \in [Tasks -> Orders]
  BY WorkOrdersAssumption DEF CInv, WOTypeOK
<1>2. \A x \in Orders : order'[x] = IF x = o THEN OrderRollUp(statuses, order[o]) ELSE order[x]
  BY <1>1 DEF SaveCard
<1>3. /\ \A c \in Tasks : c # t => card'[c] = card[c]
      /\ new # seen => card'[t].status = new
  BY <1>1 DEF SaveCard
<1> SUFFICES ASSUME NEW c \in Tasks, card'[c].status \in Working \cup {"rejected"}
             PROVE  order'[OrderOf[c]] \in {"in_progress", "delayed"}
  BY DEF OrderShowsWork
<1>4. CASE OrderOf[c] # o
  BY <1>1, <1>2, <1>3, <1>4 DEF OrderShowsWork
<1>5. CASE OrderOf[c] = o
  <2>1. \E s \in statuses : s \in Working \cup {"rejected"}
    <3>1. CASE c = t
      BY <1>3, <3>1
    <3>2. CASE c # t
      <4>1. card[c].status \in Working \cup {"rejected"}
        BY <1>3, <3>2
      <4>2. card[c].status # "absent"
        BY <4>1 DEF Working
      <4>3. c \in CardsOf(o)
        BY <4>2, <1>5 DEF CardsOf
      <4> QED BY <3>2, <4>1, <4>3
    <3> QED BY <3>1, <3>2
  <2> HIDE DEF statuses
  <2>2. OrderRollUp(statuses, order[o]) \in {"in_progress", "delayed"}
    BY <2>1, RollUpShows
  <2> QED BY <1>1, <1>2, <1>5, <2>2
<1> QED BY <1>4, <1>5

\* A card that is only assigned or created is not worked on yet.
LEMMA AssignmentShows ==
  ASSUME CInv, OrderShowsWork,
         \A c \in Tasks : card'[c].status \in {card[c].status, "draft", "assigned"},
         \A o \in Orders : order'[o] \in {order[o], "in_progress"}
  PROVE  OrderShowsWork'
<1>1. OrderOf \in [Tasks -> Orders]
  BY WorkOrdersAssumption
<1> QED BY <1>1 DEF OrderShowsWork, Working

LEMMA ReadingsStay ==
  ASSUME ReadingsOK, \A w \in Workers : \/ inflight'[w] \in {inflight[w], NoRequest}
                                        \/ WritesAnother(inflight'[w])
  PROVE  ReadingsOK'
BY DEF ReadingsOK, WritesAnother

LEMMA BeginReads ==
  ASSUME CInv, ReadingsOK, NEW w \in Workers, NEW stage, NEW t, NEW seen, NEW e, NEW u, NEW to,
         Begin(w, stage, t, seen, e, u, to),
         stage # "create" /\ to = seen => to = "completed"
  PROVE  ReadingsOK'
<1> DEFINE r == [stage |-> stage, card |-> t, seen |-> seen, by |-> e, user |-> u, to |-> to]
<1>1. inflight' = [inflight EXCEPT ![w] = r] /\ inflight \in [Workers -> Requests \cup {NoRequest}]
  BY DEF Begin, CInv, WOTypeOK
<1>2. WritesAnother(r)
  BY DEF WritesAnother
<1> HIDE DEF r
<1> QED BY <1>1, <1>2, ReadingsStay

\* The inductive invariant of what orders show, beside CInv.
ShowInv == OrderShowsWork /\ ReadingsOK

LEMMA SaversShow ==
  ASSUME CInv, ShowInv, NEW w \in Workers, TransitionResumes(w) \/ CardFollows(w)
  PROVE  ShowInv'
<1>1. inflight \in [Workers -> Requests \cup {NoRequest}]
  BY DEF CInv, WOTypeOK
<1>2. inflight[w] # NoRequest /\ inflight[w].stage # "create" /\ End(w)
  BY DEF TransitionResumes, CardFollows, At
<1> DEFINE r == inflight[w]
<1>3. r \in Requests /\ WritesAnother(r)
  BY <1>1, <1>2 DEF ShowInv, ReadingsOK
<1>4. r.card \in Tasks /\ r.to \in CardStatuses /\ (r.to = r.seen => r.to \in Working)
  BY <1>2, <1>3 DEF Requests, WritesAnother, Working
<1>5. \E tech : SaveCard(r.card, r.seen, r.to, tech)
  BY DEF TransitionResumes, CardFollows
<1>6. OrderShowsWork'
  BY <1>4, <1>5, SaveShows DEF ShowInv
<1>7. ReadingsOK'
  BY <1>1, <1>2, ReadingsStay DEF End, ShowInv
<1> QED BY <1>6, <1>7 DEF ShowInv

LEMMA StartsShow ==
  ASSUME CInv, ShowInv, NEW w \in Workers, Starts(w)
  PROVE  ShowInv'
<1>1. OrderShowsWork'
  <2>1. card' = card /\ order' = order
    BY DEF Starts, CreateCardTask, TransitionDefines, CompleteSigns, InspectSigns,
           ReleaseSignsACA, ReleaseSigns, cardVars
  <2> QED BY <2>1 DEF ShowInv, OrderShowsWork
<1>2. ASSUME NEW t \in Tasks, NEW st, NEW req, CreateCardTask(w, t, st, req)
      PROVE  ReadingsOK'
  BY <1>2, BeginReads DEF CreateCardTask, ShowInv
<1>3. ASSUME NEW t \in Tasks, NEW to, TransitionDefines(w, t, to)
      PROVE  ReadingsOK'
  <2>1. CASE CanMoveCard(t, to)
    BY <1>3, <2>1, NoSelfLoop, BeginReads DEF TransitionDefines, ShowInv
  <2>2. CASE inflight' = inflight
    BY <2>2, ReadingsStay DEF ShowInv
  <2> QED BY <1>3, <2>1, <2>2 DEF TransitionDefines
<1>4. ASSUME NEW t \in Tasks, NEW e, NEW u,
             \/ CompleteSigns(w, t, e, u)
             \/ \E s \in {"inspected", "independent_inspection"} : InspectSigns(w, t, s, e, u)
             \/ ReleaseSignsACA(w, t, e, u)
             \/ ReleaseSigns(w, t, e, u)
      PROVE  ReadingsOK'
  BY <1>4, BeginReads DEF CompleteSigns, InspectSigns, ReleaseSignsACA, ReleaseSigns, ShowInv
<1> QED BY <1>1, <1>2, <1>3, <1>4 DEF Starts, ShowInv

LEMMA StepShows ==
  ASSUME CInv, ShowInv, [WONext]_allVars
  PROVE  ShowInv'
<1>1. /\ card \in [Tasks -> CardRecords] /\ order \in [Orders -> OrderStatuses \cup {"absent"}]
      /\ inflight \in [Workers -> Requests \cup {NoRequest}] /\ OrderOf \in [Tasks -> Orders]
  BY WorkOrdersAssumption DEF CInv, WOTypeOK
<1>2. ASSUME NEW o \in Orders, CreateOrder(o)
      PROVE  ShowInv'
  <2>1. card' = card /\ inflight' = inflight /\ order[o] = "absent"
        /\ \A x \in Orders : x # o => order'[x] = order[x]
    BY <1>1, <1>2 DEF CreateOrder
  <2>2. \A t \in Tasks : card[t].status \in Working \cup {"rejected"} => OrderOf[t] # o
    BY <2>1 DEF ShowInv, OrderShowsWork
  <2> QED BY <1>1, <2>1, <2>2 DEF ShowInv, OrderShowsWork, ReadingsOK
<1>3. ASSUME NEW t \in Tasks, AssignCard(t)
      PROVE  ShowInv'
  <2>1. /\ \A c \in Tasks : card'[c].status \in {card[c].status, "draft", "assigned"}
        /\ order' = order /\ inflight' = inflight
    BY <1>1, <1>3 DEF AssignCard
  <2> QED BY <2>1, AssignmentShows, ReadingsStay DEF ShowInv
<1>4. ASSUME NEW t \in Tasks, NEW to \in CardStatuses, TransitionCard(t, to)
      PROVE  ShowInv'
  <2>1. (\E tech : SaveCard(t, card[t].status, to, tech)) /\ to # card[t].status /\ inflight' = inflight
    BY <1>4, NoSelfLoop DEF TransitionCard
  <2> QED BY <2>1, SaveShows, ReadingsStay DEF ShowInv
<1>5. ASSUME NEW t \in Tasks, NEW to \in {"rejected", "in_progress"}, InspectRefuses(t, to)
      PROVE  ShowInv'
  <2>1. SaveCard(t, card[t].status, to, FALSE) /\ to # card[t].status /\ inflight' = inflight
        /\ to \in CardStatuses
    BY <1>5 DEF InspectRefuses, CardStatuses
  <2> QED BY <2>1, SaveShows, ReadingsStay DEF ShowInv
<1>6. ASSUME NEW w \in Workers, CreateCardRow(w)
      PROVE  ShowInv'
  <2> DEFINE r == inflight[w]
  <2>1. r # NoRequest /\ r.stage = "create" /\ End(w)
    BY <1>6 DEF CreateCardRow, At
  <2>2. r.to \in {"draft", "assigned"}
    BY <2>1 DEF CInv, FlightOK, Relies
  <2>3. /\ \A c \in Tasks : card'[c].status \in {card[c].status, "draft", "assigned"}
        /\ \A o \in Orders : order'[o] \in {order[o], "in_progress"}
    BY <1>1, <1>6, <2>2 DEF CreateCardRow
  <2> QED BY <1>1, <2>1, <2>3, AssignmentShows, ReadingsStay DEF ShowInv, End
<1>7. ASSUME NEW w \in Workers, ReleaseResumes(w)
      PROVE  ShowInv'
  <2> DEFINE r == inflight[w]
  <2>1. r \in Requests /\ WritesAnother(r) /\ r.stage # "create"
    BY <1>1, <1>7 DEF ReleaseResumes, At, ShowInv, ReadingsOK
  <2>2. WritesAnother([r EXCEPT !.stage = "release"])
    BY <2>1 DEF WritesAnother, Requests
  <2>3. card' = card /\ order' = order /\ inflight' = [inflight EXCEPT ![w] = [r EXCEPT !.stage = "release"]]
    BY <1>7 DEF ReleaseResumes, cardVars
  <2> HIDE DEF r
  <2>4. ReadingsOK'
    BY <1>1, <2>2, <2>3, ReadingsStay DEF ShowInv
  <2> QED BY <2>3, <2>4 DEF ShowInv, OrderShowsWork
<1>8. ASSUME NEW w \in Workers, Abort(w)
      PROVE  ShowInv'
  <2>1. ReadingsOK'
    BY <1>1, <1>8, ReadingsStay DEF Abort, End, ShowInv
  <2> QED BY <1>8, <2>1 DEF Abort, ShowInv, OrderShowsWork, cardVars
<1>9. CASE DirectNext \/ UNCHANGED allVars
  BY <1>9 DEF DirectNext, woVars, allVars, ShowInv, OrderShowsWork, ReadingsOK
<1> QED
  BY <1>2, <1>3, <1>4, <1>5, <1>6, <1>7, <1>8, <1>9, StartsShow, SaversShow, WorkOrdersAssumption
     DEF WONext, Continues

(* An order never hides a card that is worked on or was rejected, although *)
(* requests roll up statuses they have read before they lost their lock.   *)
THEOREM OrdersShowWork == WOSpec => []OrderShowsWork
<1>1. WOInit => ShowInv
  BY DEF WOInit, ShowInv, OrderShowsWork, ReadingsOK, NoCard, Working
<1>2. WOSpec => []ShowInv
  BY <1>1, StepShows, WOInvariance, PTL DEF WOSpec
<1>3. ShowInv => OrderShowsWork
  BY DEF ShowInv
<1> QED BY <1>2, <1>3, PTL
=============================================================================

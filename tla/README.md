# Mercury Enterprise in TLA+

Specifications, model-checking configurations and proofs for the backend of
Mercury Enterprise (`src/Mercury_Enterprise_v16`), an aviation maintenance,
logistics and operations platform. Paths below are relative to
`src/Mercury_Enterprise_v16/backend/app/` unless they start with `docs/`.

Contents: 1 the system, 2 what is common to all models, 3 the modules,
4 the runs, 5 the proofs, 6 where code and documentation disagree,
7 what is not modelled, 8 what could come next.

## 1. The system

A FastAPI application over one relational database (PostgreSQL in production).
Handlers are ordinary functions run in a thread pool; the production compose file
starts two worker processes (`docker-compose.production.yml:32`), which share the
database and a Redis session store. So requests really run side by side, and meet in
the database: a lock in one process protects nothing.

What each component keeps, does, relies on, and what makes it correct:

| component | state | operations | talks to | hard behaviour | correct when |
|---|---|---|---|---|---|
| Maintenance task engine (`maintenance/`) | `maintenance_tasks`, `certification_events`, `technical_log_entries` | create, transition, sign a certification step, amend a logbook entry | personnel (reads authority), called by work orders | the next step is found by counting signatures; personnel records change between signatures; one signature writes four things | steps in order, duties segregated, status and release agree with the chain, logbook append-only |
| Personnel (`personnel/`) | employees, qualifications, authorizations | update, grant, expiry | read by the task engine | expiry needs no request | signatures once given keep their meaning |
| Work packages, orders, job cards (`work_orders/`) | packages, orders, cards | create, assign, transition, complete, inspect, release | task engine, workflow bridge, event framework | the task engine's calls commit in the middle of a handler, which loses the card lock; the session keeps a stale card; crash between transactions | a gated card has its signature; only steps the task engine allows; roll-up shows work |
| Workflow bridge (`platform/workflow_bridge.py`) | workflow definitions, instances | create the default definition (commits), mirror status | called by cards, purchase orders | commit inside another handler's critical section; mirror written after the commit | default transitions are those of the cards, the mirror follows |
| Inventory (`logistics/`) | balances, units, movements, reservations, transfers | receive, issue, scrap, adjust, bulk adjust, reserve, release, transfer | material requests, purchasing | unlocked reads, absolute writes at READ COMMITTED; two books of the same stock (balances and units) | no oversell, reservations covered and spent once, ledger adds up |
| Material requests (`logistics/`) | requests, lines, their reservations | create, approve, reserve, issue, return, cancel | inventory | reservations listed without a lock and held by part | stock conserved, promises kept, nothing held back when settled |
| Purchasing and receiving (`logistics/`) | requests, RFQs, quotes, orders, receipts | create, approve, quote, order, approve, send, receive, inspect, put away, close | inventory, workflow bridge | several receipts and entries, repeated inspections, a commit in mid-handler, the mirror | columns, statuses, stock and mirror agree |
| Tools and calibration (`logistics/`) | tools, loans, calibrations, tool plan lines | loan, return, calibrate, update, lose, plan | planning | tool planning reads without a lock among loans and calibrations | no plan line promises a tool that is not reserved |
| Planning (`planning/`) | programs, revisions, MPD tasks, checks, directives, bulletins, orders, deferred defects, counters | create and revise, generate a work package, forecast, dashboard, aircraft status | work orders, logistics | a generation commits many times and loses its lock; views read by several queries with limits | packages whole, nothing overdue missing, one revision in force |
| Serialized components (`components/`) | components, installation history, life limits | create, install, remove, transfer, set limits and times | fleet (identifiers) | a position looked at without a lock; unlocked updates | one occupant, history and hours true, limits kept |
| Publications (`publications/`) | publications, revisions, links | create, update, revise, activate, archive, link | event framework | re-activation of older revisions | one revision in force, revisions immutable |
| Event fabric (`event_fabric/`) | event store, subscriptions, dead letters, replays | publish, subscribe, dead letter, retry, replay, ingest | event framework (both ways) | announcement before commit; dual write in a session of its own; unlocked read, late write | store append-only and truthful, marks follow letters |
| Event framework, core bus (`platform/event_framework.py`, `core/event_bus.py`) | handlers, bounded histories per process | publish, publish_sync, history | every service, dual write | history without lock, task scheduled beside a synchronous append | bounded, in order |
| Sessions, accounts, organizations, approvals (`main.py`, `security/`, `org/`, `platform/`) | session store, login directory of each process, accounts, memberships, temporary access, approvals, incidents | login, logout, switch, change role or password, grant, ask, review, use | every request | role and organization copied into the session; directory per process; an approval checked and used by two requests | the role is that of the tenant, duties apart, an approval used once |
| Guards of the endpoints (all routers) | none | which permissions each endpoint asks for | sessions | hundreds of lists written by hand, in three forms | roles that only read change nothing |
| Fleet, marketplace, registries (network, ecosystem, connect, plugins, twin, fabric, oem, authority) | rows with a status | create, update, list | event framework | none across requests, two exceptions in section 6 | rows keep their state machines |
| Missions, response, fusion, decision, AI, alerts, connectors | memory of one process | score, classify, feed | core bus | track table shared by threads | bounded tables |
| Web layer, audit, reporting, frontend, deployment | - | wiring, write-only audit, screens | all | an audit row that cannot be written fails the request | - |

`PROJECT.json` lists the same components with their sources and status.

## 2. What is common to all models

* **Requests, sessions, commits.** One session per request (`database.py`), with
  `expire_on_commit=False` and `autoflush=False`, at READ COMMITTED. A handler that
  locks its rows (`SELECT ... FOR UPDATE`) and commits once is one atomic action. A
  handler is cut where it commits in the middle, where it reads without a lock
  something it writes later, and where another session sees its effect early.
* **Stale sessions.** After a commit in mid-handler the session still holds the
  object as read, and an attribute is written only if it differs from that reading.
  `WorkOrders` and `Inventory` keep it as `seen`, `EventFabric` as `writes`,
  `Components` as `changed`.
* **Failures.** A request that is refused raises before it writes: it is the absence
  of a step. Where a handler is cut, `Abort` (`Stop`, `Crash`, `Rollback`) may end it
  there at any time (a crash, a lost connection, an index that refuses, an audit row
  that fails: `AuditEngine.require` rolls back).
* **Names.** Actions have the names of the methods they model; a definition with the
  comment "Faulty:" is a plausible mistake, unused by the specifications, kept to
  show that a property notices it.
* **Rows that may be missing** have the status `absent` until they are created.
* **Fairness.** A step that follows a request which a client may or may not send is
  never assumed. The one assumption is `WF_purchaseVars(SyncStep)` in `Purchasing`: a
  request that has committed its order goes on to the transactions that mirror it,
  because nothing blocks its server thread; a crash may still end it. That is what
  `ClosedReachesMirror` needs, and all other properties are safety properties.
* **Deadlock** is not checked because clients that have used up the bounded
  identifiers and versions stop, and nothing waits for them.

## 3. The modules

**`Certification`** is the task engine. State: `task` (status, release status,
required optional steps, version), `signer` (who signed which step), `log` (the
technical logbook), `staff` (what the authority checks read of personnel), and the
counter `churn` that bounds personnel changes. One action per handler:
`CreateTask`, `TransitionTask`, `AssignTask` (the status write of
`assign_job_card`), `SignAction`, `AmendLogbookEntry`, `UpdateEmployee`,
`GrantCredential`, `CredentialExpires`. `IsNextStep` is the index
`len(required & existing)` of the code, `HasAuthority` is `_assert_step_authority`,
`Signed` and `SignedStatus` compute the status after a signature, and a release
appends its logbook entry in the same step. Three kinds of licence that the code
never tells apart are one.

**`WorkOrders`** extends it with cards, the order and package roll-up
(`_sync_order_package_status`, part of every action that changes a card) and
`inflight`, the requests between two of their transactions:

| code | first transaction | rest |
|---|---|---|
| `create_job_card` | `CreateCardTask` (create_task commits) | `CreateCardRow` |
| `transition_job_card` | `TransitionCard`, or `TransitionDefines` when the definition is created | `TransitionResumes` |
| `complete_job_card_work` | `CompleteSigns` | `CardFollows` |
| `inspect_job_card` | `InspectSigns`, or `InspectRefuses` (reject, rework) | `CardFollows` |
| `release_job_card` | `ReleaseSignsACA`, `ReleaseSigns` | `ReleaseResumes`, `CardFollows` |

Beside them run the task engine's own endpoints (`DirectNext`) and `AssignCard`.
`Certification` is the abstract specification; `ImplementsCertification` says that
the job card handlers make only its steps, the refinement mapping being the
identity on the task variables.

**`Inventory`** is the stock of one part. State: `stock` (on hand, reserved, and the
quantity left in units, per balance), `ledger` (what the movements of a balance add
up to), `reservation`, `transfer`, `request`. Each handler is a `Start` (it reads,
passes its checks and works out what it will write) and a `Commit` (absolute
writes of the columns that changed); reservations and transfers are locked from one
to the other. History variables that only the properties read: `late`, `stale`,
`asked`, `spent`.

**`OrderFlow`** says what moving goods promises, whatever the handlers do in
between: an item is ordered once, no more arrives than was ordered, no more is
stored than has arrived, nothing is taken back. Two modules refine it:

* **`Purchasing`**: purchase request, RFQ, quote, order, receipt, inspection,
  putaway, closing, down to the stock each entry ends in, and the workflow instance
  that mirrors the order. `close_purchase_order` is cut where
  `ensure_purchase_order_definition` commits and the lock is lost; the mirror is
  read and written by later transactions (`ThenSync`, `SyncReads`, `SyncWrites`)
  that a `Crash` may prevent. `Flow` maps the lines of all orders to items.
* **`MaterialRequests`**: requests with lines over several parts and places. Issue
  and cancel list the reservations of the request without a lock (`Begin`) and then
  act (`Finish`); `_reserve`, `_release`, `_withdraw` work on the balances; goods
  come in and reservations are made and released by hand beside them. A handler's
  loop over the lines is a recursive function (`ReserveRun`, `IssueRun`,
  `ReturnRun`): each line goes on with the balances the line before left. A row read
  at the start is written column by column at the end (`Written`), as the session
  does. Its `Handing` reads the same module for the lines of the requests: asked for,
  handed out, given back.

**`Routes`** is the table of what every endpoint asks of its caller: the permissions
of the roles (`security/authorization.py`), the guard each endpoint names, and
whether it changes anything. It is data: it has no variables. **`Access`** extends it with accounts, the
login directory of every process, memberships, temporary access, sessions and the
requests that work on a copy of theirs, approvals and incidents. A request is
`Begin` (it reads its session and passes its guard) and the steps of its endpoint.
An organization stands for an organization and its site; directory reads within one
handler step are one read.

**`ToolCrib`** has tools, loans, calibration dates, tool plan lines and the steps of
`run_tool_planning`, which reads tools unlocked and writes what it computed.
**`Planning`** extends it with checks and
`generate_work_package_from_check`, cut at each commit of the services it calls:
`BeginGenerate`, `MakePackage`, `MakeOrder`, `MakeCard`, `MakeGeneralCard`,
`PlanMaterials` or `NoMaterials`, `PlanTools`, `CommitTools`, `Finish`, with `Stop`
anywhere. **`Forecast`** has the five kinds of due items, the counters of the
aircraft and the three views; a forecast reads the clock and the counters, then one
page of each kind, while others write. **`Programs`** has the maintenance programs,
their revisions and MPD tasks.

**`Components`** cuts each handler where it has read and computed but not committed
(`Install`, `Remove`, `TransferInstall`, `TransferAway` lock the component;
`UpdateLifeLimits`, `UpdateTimeCycles` do not), then `CommitMove` (the index on
aircraft and position may refuse), `CommitUpdate` or `Rollback`. `Fly` is the world:
meters and flown hours are not in the database and say whether its columns are true.

**`Publications`** has publications, revisions and links, each handler one action
under the lock of its publication. **`RevisionControl`** is what `Publications` and
`Programs` promise alike: a revision belongs to one document for good, at most one
is in force, a document is not without one until it is closed, a closed one is not
revised. Both refine it.

**`EventFabric`** is the event store of one organization. State: `store`, `letter`
(dead letters), `watched` (a subscription matches), `bus` (stored events that were
announced), `made` (what the domain services have committed), `job` (the requests
in progress). A publication is `Publish` or `IngestNew`/`IngestAgain` (flush and
announcement) followed by `PublishCommits` or `DualWriteFails`; `dead_letter`,
`retry_dlq` and `replay` read first (`DeadLetter`, `RetryReadsLetter`,
`RetryReadsEvent`, `Replay`), emit event by event, and write statuses at `Finish`.

`MC<module>` gives constants and constraints for TLC, the `Proofs` modules (section
5) hold theorems, for related modules together. The modules compose as follows:
`WorkOrders` extends `Certification`, `Planning` extends `ToolCrib`, `Access` extends `Routes`; `Purchasing` and
`MaterialRequests` instantiate `OrderFlow`, `Publications` and `Programs`
instantiate `RevisionControl`.

## 4. The runs

| run | shows | bounds, and why they are enough | states |
|---|---|---|---|
| `certification` | `ChainInOrder`, `DutiesSegregated`, `GateMatchesChain`, `ReleasedMeansCertified`, `LogbookMatchesChain`, `LogbookAppendOnly` | one task (no action reads two), the seeded staff of three (the fewest that can sign a full chain), `MaxVersion` 8 (create, start, complete, five signatures, or a detour), `MaxLog` 3 (an amendment of an amendment), `MaxChurn` 2 (a credential lost and gained) | 1.2 M |
| `work_orders` | `CardGatesCertified`, `ReleasedCardHasEntry`, `OrderShowsWork`, `ImplementsCertification` | two cards of one order (the roll-up needs two), two requests at a time beside the direct task endpoints, `MaxVersion` 8; `OneFullLife` lets a single card require any steps and run a whole life, two cards require only an inspection and are handled one request at a time | 0.31 M |
| `inventory` | `InvTypeOK`, `BalancesSound`, `UnitsAccounted`, `PromisesCovered`, `ReservationSpentOnce` | two bins and a quarantine balance, two requests, two reservations, one transfer (`TwoDocuments`: two of these three in one behaviour), quantities 1 and 2, up to 2 pieces: the smallest stock over which two requests can contend. `UntilStale` ends behaviours at the first overwriting commit, whose state is still checked; `MCView` drops the fields of finished rows that nothing reads | 0.73 M |
| `event_fabric` | `DeadLetterIsOpen`, `StoreTellsTruth`, `StoreAppendOnly` | one domain row, one API call, three stored events (an original, its copy, another), two letters (of one event or of two), two requests, `MaxRetries` 2 (a letter retried again) | 2.1 M |
| `purchasing` | `ReceivedIsDelivered`, `ShelvedOnce`, `StatusFollowsLines`, `ImplementsOrderFlow`, `ClosedReachesMirror` | one purchase request of up to two lines and two pieces (`SmallRequests`), two RFQs and two orders (of which a second must not come), two receipts of up to two entries (parts of an order, two entries of one line); `InOrder` and `SortedEntries` name rows in one order only. No symmetry, since one property is liveness | 0.46 M |
| `material_requests` | `HeldIsPromised`, `NothingLost`, `SettledHoldsNothing`, `ImplementsFlow` | one request of up to two lines over two parts and two places, three pieces, returns of up to two entries, three reservations of which one at most is made by hand (`OneByHand`): a part on two places, two lines on a part, and a reservation from outside that contends. `UntilRaced` ends behaviours at two overlapping writes of one reservation | 0.10 M |
| `access` | `RoleOfTheTenant`, `RolesKeptApart` | three users, two processes, two organizations, two sessions, two requests at a time, two changes of accounts, memberships or access (one to make a role stale, one to meet it); `CreatedAlone` explores a new user with that change alone | 1.4 M |
| `approvals` | `ApprovalSpentOnce`, `TwoSignatures` | one process, two approvals for one incident that may be opened again, two requests at a time, one change | 1.8 M |
| `planning` | `LinkedPackageIsWhole`, `PartsPromised`, `ToolsPromised` | one check, two generations at a time, two packages, one tool and one piece of two parts, of which one is in the part master: everything two planners can contend for. `Tended` keeps the tool from being lost and from two updates that the crib makes look like loans (section 6), `WholeProgram` lets a program have no or all tasks, `FewBookings` leaves out what follows a booking by hand | 1.2 M |
| `planning_twice` | `PlannedOnce` is violated | as `planning`; section 6 | - |
| `forecast` | `OverdueIsShown`, `ViewsAgree` | two checks, or one item of another kind (`OneKind`: pages of two kinds never meet), pages of one row, so that a full page leaves one out; three days, two hours | 0.47 M |
| `components` | `OneOccupant`, `HistoryTellsWhere`, `HoursAreFlown`, `LifeLeftWhenInstalled` | a component, another that takes its place (`PlaceTaker`), one position on each of two aircraft, two requests, a limit of one hour, meters of one hour (`ShortLives`): enough to spend a life and to read two different meters | 2.3 M |

What could go wrong and is shown not to, in short: signatures given while personnel
changes never break order or segregation; a crash or another request between the
transactions of a card handler never leaves a gated card without its signature;
stock requests side by side are sound up to the moment one overwrites another, and
a reservation is spent once even beyond it; an event is marked dead-lettered only
while somebody can still find its letter; goods of an order arrive, are inspected
again and again and are put away once, and an order closed without its lock still
has the status of its lines; a closed order reaches its mirror unless a request died
or two of them overlapped; stale roles in sessions and directories never let anyone
act in a tenant they do not belong to; the package a check points to is whole
although it was written in a dozen transactions; hours of components are neither
lost nor counted twice.

In `inventory` four properties speak of the behaviour before the first lost update
(`~stale`), in `material_requests` `HeldIsPromised` before two requests have written
one reservation (`~raced`). They are not emptied by that: they cover every
interleaving in which requests overlap on different rows or abort. What happens
after it is in section 6.

Symmetry is used for identifiers that no action distinguishes, and only in runs of
safety properties. Type invariants are stated in every module (`TypeOK`, `WOTypeOK`
and so on); most are proved, so that the runs leave them out.

## 5. The proofs

All theorems hold for every value of the constants. The assumptions are the named
`ASSUME`s of the modules (types of the constants, "no employee" is no employee, the
identifiers of domain rows and calls differ, tables that are summed up are finite),
which TLC evaluates in the runs; `GenerationTypes` and the theorems of the forecast
take one more, in their statement: that there are finitely many cards and items.
They are rows of tables.

A leaf that names `Zenon`, `ZenonT(60)` or `SMTT(30)` says which prover closes it, or
that the default time is too tight for it on a slow machine. Leaves about rows of
records are kept small: what a step needs of the invariant is stated first
(`SeenIssueStep` and `SoundIssueStep` of `OrderFlowProofs` show the form), then the
abbreviations are hidden and only named facts are used.

* **`WorkOrdersProofs`** is about `Certification` and `WorkOrders`. Of the first:
  `TypeCorrect`, `OrderOfSteps`, `Segregation`, `Gates`,
  `Release`, `Logbook`, `AppendOnly`, `Finality`, `Versions`, one for each property
  of the run and two more. The inductive invariant `IInv` is the type invariant, the
  four statements about a row and its chain, "an absent task is unsigned", and the
  logbook's. The argument: what `sign_action` does to a row and its chain is proved
  as a lemma about data, then every action is shown to change one row at most. The
  key lemma `SignedSoFar` says that the count the code compares determines the set
  of steps signed, which is why counting is enough.
  Of the second: `Implementation` (every step is a step of `Certification`
  or leaves its variables alone), hence all theorems above hold there too;
  `WOTypeCorrect`, `CardGates`, `TechnicianNamed`, `ReleasedCards`, `OrdersShowWork`.
  The invariant adds what a half-way request still relies on (`FlightOK`): signatures
  are never taken back, so the one it made is still there when the card follows. For
  the orders it adds `ReadingsOK`: a request that goes on with the status it has read
  before it lost its lock writes another status than that, unless it leaves a completed
  card completed. A request that wrote the same status again would not roll it up.
* **`StockProofs`** is about `Inventory` and `Components`. Of the first:
  `StockTypeCorrect`, `SoundBalances`, `AccountedUnits`, `SpentOnce`, `PromisesKept`.
  `StockInv` says that a plan applied to the rows it has READ is sound
  (`SoundPlans`), that those rows are current unless the request was overtaken
  (`FreshPlans`), and that a locked reservation is unchanged (`LockedRows`,
  `OneHolder`). `PromisesKept`, that what is reserved of a balance covers its open
  reservations, speaks of a sum over all of them: `BackedPlans` says of every
  plan not yet committed that it claims no more than it adds to the reserved column,
  and a commit changes one summand.
  Of the second: `ComponentTypes`, `Occupancy`, `History`, `FlownHours`,
  `LifeLeft`: every property of the run. The invariant adds `Pending`: what a
  request holds that has locked its component is `Fit` to be committed at any later
  time, because nobody else writes the row (`OneLocker`) and its aircraft does not
  fly meanwhile. A transfer between two aircraft is the one exception to the hours,
  since it takes one reading for both meters.
* **`Sums`** proves what the others use of sums over finite sets of rows: one more
  row, one row changed, a part of the rows, two functions added. They are proved from
  the definition of the fold, by looking at a smallest set that would be a
  counterexample; the induction rule of the library cannot be applied here (see
  below), but well-foundedness of the strict subsets of a finite set can.
* **`OrderFlowProofs`** is about the two modules that refine `OrderFlow`. Of
  `Purchasing`: `PurchasingTypes`, `OneOrder`, `Deliveries`, `Shelving`,
  `OrderStatusTrue` for the properties of the run, and `GoodsFlow`, that every step of
  `Purchasing` is a step of `OrderFlow` or a stutter. `PurchasingInv` adds
  `BuyingInTurn` (a purchase request is in one RFQ at most and its status tells how
  far it is) and `GoodsBelong` (an entry of a receipt is for a line of its order).
  Deliveries are sums over all entries of all receipts of an order; receiving adds the
  entries of one receipt, inspecting rearranges them, and putting away books exactly
  those that were inspected since.
  Of `MaterialRequests`: `MRTypes`, `HeldPromised`, `GoodsKept`, `SettledFree`, and
  `LinesFlow`, that its every step is a step of `OrderFlow` or a stutter. The loops of
  its handlers are the difficulty: `ReserveFits`, `IssueFits` and `ReturnFits` say of
  the lines, balances and rows after any number of lines what still holds of them and
  what has been taken so far. Each is shown to survive one more line
  (`ReserveLineFits`, `IssueLineFits`, `ReturnEntryFits`) and hence the run, by a
  count up to its end (`CountUp`) in place of the induction rule. The invariant
  `MRInv` adds `RequestFits`: a line is handed out no more than it asks for, a
  reservation of a request is for one of its lines, and what a request under way has
  read of its reservations is behind the rows by releases only (`ReadingFits`), so
  that whatever is still open is among what it releases or issues.
* **`EventFabricProofs`**: `EFTypeCorrect`, `OpenLetters`, `TruthfulStore`,
  `ImmutableStore`. The strengthening of `DeadLetterIsOpen` is `Behind`: behind a
  dead-lettered event is an open letter such that every retry of it that has read
  the event will write the event's status. Without it a retry that found the event
  delivered, and so does not write the status, could close the only letter.
  `Apart` and `FlushesOnce` keep concurrent publications of unmapped events apart.
* **`PublicationsProofs`**: `PublicationTypes`, `CurrentRevision`, `Supersession`,
  `Immutability`, `PublicationsControlled`. The last is the refinement of
  `RevisionControl`: each handler is one of its steps or a stutter. The invariant
  says that the reference to the current revision and the statuses of the revisions
  tell the same, which is why superseding the one pointed to supersedes all.
* **`PlanningProofs`** is about the three modules of planning. Of `Programs`:
  `ProgramTypes`, `ProgramCurrent`, `ProgramOrphans`,
  `ProgramImmutability`, `ProgramsControlled`, along the lines of the publications;
  here the code only ever looks at the revision pointed to, so that the invariant
  needs a program to point to one from its first revision on.
  Of `Planning`: `GenerationTypes`, `PackagesWhole`, `PartsHeld`, `ToolsHeld`, the
  properties of the run. A package is written in a dozen transactions and may be
  left half-way by a crash. `GenerationInv` says of every generation under way
  what its package has so far (`JobFits`), that two generations never work on one
  package (`Apart`), and of a package nobody works on that it is linked only if whole
  (`RowFits`); a tool is in the results of its generation until the commit and
  among the bookings after it.
  Of `Forecast`: `ForecastTypes`, `ForecastShows`, `ForecastAgrees`. `ForecastInv` adds
  `ListedRightly`: of the kinds read so far, every item asked for is in the list its
  date and hours call for, unless it is crowded out. A row missing from a page has a
  full page of rows due no later (`FirstPage`), and dates are not changed, so that
  what is crowded out stays so while other items are recorded.
* **`AccessProofs`**: `AccessTypes`, `TenantRoles`, `ApprovalsOnce`, `Signatories`,
  `DutiesApart`. Memberships are never taken away, so a role that
  was given in an organization stays given, in the session as in the copy a request
  works with. Resolutions are counted against the approvals of the incident that are
  spent, of which every resolution adds one; that takes finitely many approvals and a
  "nothing" that is no row (`RowsAssumption`). `Signatories` and
  `DutiesApart` rest on the whole table in `Routes`: `TableKept` says of every route
  which roles pass its guard, `SignedRightly` that a signature given on the role of
  the session alone is by one of them, and `TableFits` that no role but the
  administrator's reaches both of two duties kept apart.

`Publications`, `Programs` and `RevisionControl` have no run: all that is stated of
them is proved.

Every property of a passing run is proved for every value of the constants, with
one exception: `ClosedReachesMirror` is liveness under fairness, out of the prover's
reach, and stays with TLC. So does what the fold and the recursive functions compute
in general: the library's induction rules take an operator as a parameter, which is
why sums and loops are treated as above. No module declares a recursive operator.
`PlannedOnce` does not hold.

## 6. Where code and documentation disagree

`planning_twice` shows one disagreement: `generate_work_package_from_check` locks
its check, but the first commit of the work order service gives the lock back long
before the link is written that refuses a second generation, so that a check gets
two complete packages (`planning/service.py:1803`, `:1938`;
`docs/PLANNING_DASHBOARD.md`: "duplicate generate returns HTTP 409").

The following statements of documents and comments are definitions of the modules,
named as properties by no run because they do not hold. Naming one in the module's
configuration gives the counterexample.

| statement | module | what the code does |
|---|---|---|
| `ClosedOnlyAfterRelease` | `Certification` | a task goes started, completed, closed without any signature; `docs/MAINTENANCE_TASKS.md` knows only released tasks as closed |
| `ClosedIsTerminal` | `WorkOrders` | `ensure_job_card_definition` commits after the card was read; a card closed in the gap is opened again (`docs/JOB_CARDS.md`: closed is terminal) |
| `ReworkReopensWork` | `WorkOrders` | the decision "rework" leaves `performed` signed, so `complete-work` cannot follow as the drawn life cycle says |
| `OversellFailsClosed` | `Inventory` | two requests read the same balance and both take from it (`docs/INVENTORY.md`: oversell fails closed) |
| `LedgerIsStockTruth` | `Inventory` | a withdrawal that units cover in part is recorded in part (`docs/INVENTORY.md`: the ledger is the truth) |
| `StoredOnce` | `EventFabric` | retry and replay pass through the dual write and store mapped events anew (`docs/architecture/EVENT_OWNERSHIP_MATRIX.md`: mirrors pass `dual_write=False`) |
| `MirroredIsDurable` | `EventFabric` | an event is announced as "already durable" before its commit, which may fail |
| `AdministratorRemains` | `Access` | administrators are counted in the directory of one process; another process demotes the other one (`routers/admin.py`: "Cannot demote the last Administrator") |
| `TimeSinceNew` | `Components` | a transfer takes one reading for two meters, so that the difference of the meters is added to the component (`docs/AIRCRAFT_CONFIGURATION.md:22,27`) |

Further observations, met while reading and kept here for the maintainers of the
code. Some are visible in the models, where their actions allow them.

* Job cards: a crash between the transactions of `create_job_card` or
  `release_job_card` leaves a card that no retry completes, because the task number
  is taken or the task is released already (`work_orders/service.py:585,1038`).
* Material requests: two lines for one part share the reservation found last, so that
  the other one stays held when the request is issued. `SettledHoldsNothing` holds
  for requests whose lines ask for different parts.
* Tools: the calibration check may write `overdue` over `issued`, after which a tool
  is lent twice; `update_tool` writes any status; tool planning overwrites a loan made
  after it has read the tool; plan lines are created as `reserved` before anything is.
* Planning: a check whose program revision has no MPD tasks gives a package without
  cards; remaining hours below zero count as overdue only if the calendar agrees; a
  last reading of 0 hours counts as missing (`planning/service.py:711`); the traffic
  light never leaves red, so that a repaired aircraft stays grounded; the status of a
  check and the level of a defect are computed when they are created only; the
  dashboard does not count checks that are overdue by hours alone; the aircraft
  status ignores defects that are open; material planning is not idempotent; draft
  program revisions can never be activated, and tasks are still added to superseded
  ones.
* Components: updates of limits and times without a lock leave `remaining_hours`
  stale. In `install`, `create_revision`, `add_program_revision` and
  `create_publication` the index refuses at a flush outside the conflict handler, so
  that the client gets a server error and not a conflict.
* Publications: activating an old revision again makes two revisions supersede each
  other; a publication may name itself as superseded; an archived publication keeps
  its reference to the current revision.
* Fleet: two registrations made at once are both current (`fleet/service.py:598`).

## 7. What is not modelled, and why

* In modelled components: descriptive fields, comments, attachments, parts, tooling
  and time records of cards (no status depends on them); the mirrored workflow
  instances of cards (the same code as those of orders, never read back); the
  version of a card; the choice among lots; the event type catalog, payloads and
  queries; unmapped bus events of domain services, which never reach the store;
  prices and invoices; titles, dates, storage locators and fleet references of
  publications; flight cycles, which the code treats as it treats hours.
* Simplifications: all rows of one inventory request are read in one step, although
  the code reads them one after the other; in `MaterialRequests` a balance is read
  and written in one step, because lost updates of balances are the subject of
  `Inventory`; in `Access` the machine principal of an API key and password stamps
  are left out, and custom roles are part of what is granted.
* Rotables, kits, shipments and vendors: state machines over single rows, locked
  from read to commit, read by none of the modelled parts.
* OIDC, rate limits, CSRF, redaction: tests of one request, or counters of one store
  command.
* Directives, bulletins, engineering orders and the minimum equipment list beyond
  what the views read of them; hangar and workforce plans.
* Fleet, marketplace and the registries: records written once, in one transaction.
* Missions, response, fusion, decision, AI, alerts and connectors: values in the
  memory of one process, computed from one input, with simulated providers.
* Audit, reporting, frontend, migrations and deployment: write-only rows, read-only
  screens and scripts. That an audit row may fail is in every `Abort`.

## 8. What could come next

1. `Rotables`: exchange, repair and return beside shipments, with the stock they
   come from.
2. The card version in `WorkOrders` and a run under fairness of the second halves of
   requests: which cards can always be brought to an end.
3. `EventBus`: histories, handlers and scheduled tasks of one process, composed with
   `EventFabric`.
4. OIDC pending states and the rate limit, in the Redis and the in-memory form.

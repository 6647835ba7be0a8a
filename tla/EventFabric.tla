----------------------------- MODULE EventFabric ------------------------------
(***************************************************************************)
(* The enterprise event store of one organization, its dead letters and    *)
(* replays (backend/app/event_fabric/service.py), with the in-process bus  *)
(* (platform/event_framework.py publish_sync) and the dual write that      *)
(* mirrors mapped bus events into the store (event_fabric/dual_write.py).  *)
(*                                                                         *)
(* A domain service commits its own row and then hands an event to         *)
(* publish_sync.  The dual write opens a session of its own, so it commits *)
(* whatever becomes of the request that emitted, and its failures are only *)
(* logged.  Retry and replay emit in the middle of a transaction: they     *)
(* have read rows, without locks, and write the statuses when they commit. *)
(* A status is written only where it differs from the one the session has  *)
(* read.  A request may end anywhere (Abort): a crash, a failed audit row. *)
(*                                                                         *)
(* Bus events that BUS_TO_CATALOG does not map never reach the store and   *)
(* are left out.  Payload, family, severity and the ids that correlate     *)
(* events are abstracted to the occurrence the event tells of.             *)
(***************************************************************************)
EXTENDS Naturals

CONSTANTS Domain,   \* what domain services record and announce, once each
          Calls,    \* calls of POST /events, each with an event of its own
          Events,   \* identifiers of enterprise_event_store rows
          Letters,  \* identifiers of enterprise_event_dlq rows
          Workers,  \* requests the server works on at the same time
          Nothing,  \* no request, no occurrence, no row
          MaxRetries \* bound: a letter is not retried past this count

Statuses == {"published", "delivered", "replayed", "dead_lettered"}

\* An event row: what it tells of, and whether its bus type is mapped.
EventRows == [status : Statuses \cup {"absent"},
              of : Domain \cup Calls \cup {Nothing}, mapped : BOOLEAN]
LetterRows == [status : {"absent", "open", "retried"},
               event : Events \cup {Nothing}, count : Nat]
NoEvent == [status |-> "absent", of |-> Nothing, mapped |-> FALSE]
NoLetter == [status |-> "absent", event |-> Nothing, count |-> 0]

\* A request: the events it still has to emit, the events whose status it will
\* write, the letter it works on and the count it has read; in the stage "store",
\* the row a publication has flushed and not yet committed.
Jobs == [op : {"publish", "create", "bury", "retry", "replay"},
         stage : {"letter", "emit", "store"},
         todo : SUBSET Events, writes : SUBSET Events,
         letter : Letters \cup {Nothing}, count : Nat,
         event : Events \cup {Nothing}, row : EventRows]

ASSUME EventFabricAssumption ==
    /\ Nothing \notin Domain \cup Calls /\ Nothing \notin Events
    /\ Nothing \notin Letters /\ Nothing \notin Jobs
    /\ Domain \cap Calls = {}
    /\ MaxRetries \in Nat

VARIABLES made,    \* what the domain services have committed, and calls made
          store,   \* enterprise_event_store
          letter,  \* enterprise_event_dlq
          watched, \* a subscription for the events exists
          bus,     \* stored events announced on the bus with their event_id
          job      \* what each worker is in the middle of

efVars == <<made, store, letter, watched, bus, job>>

EFInit == /\ made = {}
          /\ store = [e \in Events |-> NoEvent]
          /\ letter = [d \in Letters |-> NoLetter]
          /\ watched = FALSE
          /\ bus = {}
          /\ job = [w \in Workers |-> Nothing]

-----------------------------------------------------------------------------
(* Helpers                                                                 *)

Busy == {w \in Workers : job[w] # Nothing}
Stored == {e \in Events : store[e].status # "absent"}
At(w, stage) == job[w] # Nothing /\ job[w].stage = stage

\* Faulty: a retry leaves the event as it was marked.
OutcomeStill == [bury |-> "dead_lettered", retry |-> "dead_lettered", replay |-> "replayed"]

\* Faulty: a replay makes its events new again.
OutcomeAgain == [bury |-> "dead_lettered", retry |-> "delivered", replay |-> "published"]

\* The status each operation gives to the events it handles.
Outcome == [bury |-> "dead_lettered", retry |-> "delivered", replay |-> "replayed"]

\* Of the events an operation handles, those whose status it will write.
Changed(op, events) == {e \in events : store[e].status # Outcome[op]}

Idle == [op |-> "create", stage |-> "emit", todo |-> {}, writes |-> {},
         letter |-> Nothing, count |-> 0, event |-> Nothing, row |-> NoEvent]

\* uuid4: an identifier nobody has.
Fresh(e) == e \notin Stored /\ \A w \in Busy : job[w].event # e
FreshLetter(d) == letter[d].status = "absent" /\ \A w \in Busy : job[w].letter # d

Begin(w, q) == job[w] = Nothing /\ job' = [job EXCEPT ![w] = q]

\* Faulty: every bus event is taken into the store.
IsMappedAll(e) == TRUE

\* dual_write: "if ... bus_event_type not in BUS_TO_CATALOG: return".
IsMapped(e) == store[e].mapped

\* EventFabricService.publish up to its commit: a flushed row, delivered if there
\* is a subscription, and already on the bus.
Flush(w, q, e, of, mapped) ==
    /\ Fresh(e)
    /\ job' = [job EXCEPT ![w] = [q EXCEPT
          !.stage = "store", !.event = e,
          !.row = [status |-> IF watched THEN "delivered" ELSE "published",
                   of |-> of, mapped |-> mapped]]]
    /\ bus' = bus \cup {e}

-----------------------------------------------------------------------------
(* Actions                                                                 *)

\* create_subscription; there is no way to end one.
CreateSubscription ==
    /\ ~watched
    /\ watched' = TRUE
    /\ UNCHANGED <<made, store, letter, bus, job>>

\* POST /events; the caller may name any bus type.
Publish(w, e, c, mapped) ==
    /\ c \in Calls \ made /\ job[w] = Nothing
    /\ made' = made \cup {c}
    /\ Flush(w, [Idle EXCEPT !.op = "publish"], e, c, mapped)
    /\ UNCHANGED <<store, letter, watched>>

\* create_order, create_aircraft, create_twin and the other services that
\* announce a mapped event: the row is committed, publish_sync comes next.
Create(w, f) ==
    /\ f \in Domain \ made
    /\ made' = made \cup {f}
    /\ Begin(w, [Idle EXCEPT !.row.of = f])
    /\ UNCHANGED <<store, letter, watched, bus>>

\* dead_letter: the event is looked up; letter and status follow in Finish.
DeadLetter(w, d, e) ==
    /\ FreshLetter(d) /\ e \in Stored
    /\ Begin(w, [Idle EXCEPT !.op = "bury", !.writes = Changed("bury", {e}),
                             !.letter = d, !.event = e])
    /\ UNCHANGED <<made, store, letter, watched, bus>>

\* retry_dlq: it reads the letter, whatever its status, ...
RetryReadsLetter(w, d) ==
    /\ letter[d].status # "absent" /\ letter[d].count < MaxRetries
    /\ Begin(w, [Idle EXCEPT !.op = "retry", !.stage = "letter", !.letter = d,
                             !.count = letter[d].count])
    /\ UNCHANGED <<made, store, letter, watched, bus>>

\* ... then the event behind it.
RetryReadsEvent(w) ==
    /\ At(w, "letter")
    /\ LET e == letter[job[w].letter].event
       IN job' = [job EXCEPT ![w] = [@ EXCEPT
                     !.stage = "emit", !.todo = {e}, !.writes = Changed("retry", {e})]]
    /\ UNCHANGED <<made, store, letter, watched, bus>>

\* replay: the events a code, a window and a limit select.
Replay(w, events) ==
    /\ events \subseteq Stored
    /\ Begin(w, [Idle EXCEPT !.op = "replay", !.todo = events,
                             !.writes = Changed("replay", events)])
    /\ UNCHANGED <<made, store, letter, watched, bus>>

\* publish_sync for a new domain row: ingest_bus_event publishes it.
IngestNew(w, e) ==
    /\ At(w, "emit") /\ job[w].op = "create"
    /\ Flush(w, job[w], e, job[w].row.of, TRUE)
    /\ UNCHANGED <<made, store, letter, watched>>

\* publish_sync for an event that is retried or replayed (in the order of
\* occurred_at, any order here): the dual write takes it in once more, if it
\* is mapped.
IngestAgain(w, e, old) ==
    /\ At(w, "emit") /\ old \in job[w].todo /\ IsMapped(old)
    /\ Flush(w, [job[w] EXCEPT !.todo = @ \ {old}], e, store[old].of, TRUE)
    /\ UNCHANGED <<made, store, letter, watched>>

EmitUnmapped(w, old) ==
    /\ At(w, "emit") /\ old \in job[w].todo /\ ~IsMapped(old)
    /\ job' = [job EXCEPT ![w].todo = @ \ {old}]
    /\ UNCHANGED <<made, store, letter, watched, bus>>

\* What goes on when a publication has ended: retry and replay do.
Resumed(q) == IF q.op \in {"retry", "replay"}
              THEN [q EXCEPT !.stage = "emit", !.event = Nothing, !.row = NoEvent]
              ELSE Nothing

\* publish commits the flushed row.
PublishCommits(w) ==
    /\ At(w, "store")
    /\ store' = [store EXCEPT ![job[w].event] = job[w].row]
    /\ job' = [job EXCEPT ![w] = Resumed(@)]
    /\ UNCHANGED <<made, letter, watched, bus>>

\* maybe_dual_write_to_fabric swallows every failure.
DualWriteFails(w) ==
    /\ At(w, "store") /\ job[w].op # "publish"
    /\ job' = [job EXCEPT ![w] = Resumed(@)]
    /\ UNCHANGED <<made, store, letter, watched, bus>>

\* dead_letter, retry_dlq and replay commit.
Finish(w) ==
    /\ At(w, "emit") /\ job[w].todo = {} /\ job[w].op # "create"
    /\ LET q == job[w]
       IN /\ store' = [e \in Events |-> IF e \in q.writes
                                        THEN [store[e] EXCEPT !.status = Outcome[q.op]]
                                        ELSE store[e]]
          /\ letter' = CASE q.op = "bury" ->
                              [letter EXCEPT ![q.letter] =
                                  [status |-> "open", event |-> q.event, count |-> 0]]
                         [] q.op = "retry" ->
                              [letter EXCEPT ![q.letter].status = "retried",
                                             ![q.letter].count = q.count + 1]
                         [] OTHER -> letter
    /\ job' = [job EXCEPT ![w] = Nothing]
    /\ UNCHANGED <<made, watched, bus>>

Abort(w) ==
    /\ job[w] # Nothing
    /\ job' = [job EXCEPT ![w] = Nothing]
    /\ UNCHANGED <<made, store, letter, watched, bus>>

EFNext ==
    \/ CreateSubscription
    \/ \E w \in Workers :
        \/ \E e \in Events, c \in Calls, mapped \in BOOLEAN : Publish(w, e, c, mapped)
        \/ \E f \in Domain : Create(w, f)
        \/ \E d \in Letters, e \in Events : DeadLetter(w, d, e)
        \/ \E d \in Letters : RetryReadsLetter(w, d)
        \/ RetryReadsEvent(w)
        \/ \E events \in SUBSET Events : Replay(w, events)
        \/ \E e \in Events : IngestNew(w, e)
        \/ \E e, old \in Events : IngestAgain(w, e, old)
        \/ \E old \in Events : EmitUnmapped(w, old)
        \/ PublishCommits(w) \/ DualWriteFails(w) \/ Finish(w) \/ Abort(w)

EFSpec == EFInit /\ [][EFNext]_efVars

-----------------------------------------------------------------------------
(* Properties                                                              *)

\* Every variable keeps the shape of the rows it stands for; statuses stay among
\* EVENT_STATUSES (event_fabric/catalog.py).
EFTypeOK ==
    /\ made \subseteq Domain \cup Calls
    /\ store \in [Events -> EventRows]
    /\ letter \in [Letters -> LetterRows]
    /\ watched \in BOOLEAN /\ bus \subseteq Events
    /\ job \in [Workers -> Jobs \cup {Nothing}]

\* A stored event is marked dead_lettered only while a letter for it is open,
\* however letters, retries and replays of it overlap, with their unlocked reads
\* and their writes only where the status differs (dead_letter, retry_dlq).
DeadLetterIsOpen == \A e \in Events :
    store[e].status = "dead_lettered" =>
        \E d \in Letters : letter[d].status = "open" /\ letter[d].event = e

\* What the store tells has happened: an event tells of a row that was committed,
\* whatever became of the requests, and an event of a type that is not mapped is
\* stored once only, whatever is retried and replayed.
StoreTellsTruth ==
    /\ \A e \in Stored : store[e].of \in made
    /\ \A e1, e2 \in Stored :
          store[e1].of = store[e2].of /\ ~store[e1].mapped => e1 = e2

\* The store is append-only (models.py, "Immutable enterprise event log"): rows
\* stay and tell of the same, and an event that was handled is never new again.
StoreAppendOnly ==
    [][\A e \in Stored :
        /\ store'[e].of = store[e].of /\ store'[e].mapped = store[e].mapped
        /\ store'[e].status # "absent"
        /\ store[e].status # "published" => store'[e].status # "published"]_efVars

\* docs/architecture/EVENT_OWNERSHIP_MATRIX.md: "Fabric -> Framework mirrors pass
\* dual_write=False to prevent recursion": what happened once is stored once.
StoredOnce ==
    \A e1, e2 \in Stored : store[e1].of = store[e2].of => e1 = e2

\* service.py: "Mirror to Event Framework bus (... already durable here)": an
\* event on the bus is stored, or its publication is still under way.
MirroredIsDurable ==
    \A e \in bus : e \in Stored \/ \E w \in Busy : job[w].event = e
=============================================================================

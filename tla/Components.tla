----------------------------- MODULE Components -----------------------------
(***************************************************************************)
(* Serialized components and the aircraft they are installed on            *)
(* (backend/app/components/service.py).                                    *)
(*                                                                         *)
(* Install, remove and transfer lock the component and commit once; the    *)
(* updates of limits and of times do not lock it.  A request is cut where  *)
(* it has read and computed and not yet committed.  Only one count of      *)
(* hours is kept: cycles and the times since overhaul are treated alike.   *)
(*                                                                         *)
(* What the handlers are told of an aircraft is its meter when they run;   *)
(* meter and flown are the world's, the database has neither.              *)
(***************************************************************************)
EXTENDS Integers, FiniteSets

CONSTANTS Components,   \* identifiers
          Aircraft,     \* aircraft of the organization
          Positions,
          Requests,     \* requests under way
          Destinations, \* statuses a component may be moved to
          Limits,       \* life limits in hours
          MaxHours,     \* bound: hours of a meter, of a new component
          NoAircraft, NoPosition, NoHours, NoComponent

ASSUME ComponentsAssumption ==
    /\ "stores" \in Destinations /\ Destinations \subseteq {"stores", "maintenance", "retired", "quarantine"}
    /\ MaxHours \in Nat /\ Limits \subseteq Nat /\ NoHours \notin Int
    /\ NoAircraft \notin Aircraft /\ NoPosition \notin Positions /\ NoComponent \notin Components

VARIABLES component, \* serialized_components
          newest,    \* component_installation_history: the newest row of each component
          unsaved,   \* what a request has read, computed, and will commit
          meter,     \* hours of each aircraft
          flown,     \* hours each component has really flown (for the properties only)
          moved      \* components once moved from aircraft to aircraft in one transfer (likewise)

vars == <<component, newest, unsaved, meter, flown, moved>>

Statuses == {"absent", "installed"} \cup Destinations
Hours == Int \cup {NoHours}
ComponentRows ==
    [status : Statuses, craft : Aircraft \cup {NoAircraft}, position : Positions \cup {NoPosition},
     time : Int, base : Hours, limit : Hours, remaining : Hours]
Events ==
    [type : {"none", "install", "remove", "transfer"}, craft : Aircraft \cup {NoAircraft},
     position : Positions \cup {NoPosition}, to : Statuses]
Columns == {"limit", "time", "remaining"}
RequestRows ==
    [component : Components \cup {NoComponent}, locks : BOOLEAN, row : ComponentRows, event : Events,
     changed : SUBSET Columns, moves : BOOLEAN]

NoEvent == [type |-> "none", craft |-> NoAircraft, position |-> NoPosition, to |-> "absent"]
NoRow ==
    [status |-> "absent", craft |-> NoAircraft, position |-> NoPosition, time |-> 0,
     base |-> NoHours, limit |-> NoHours, remaining |-> NoHours]
NoRequest ==
    [component |-> NoComponent, locks |-> FALSE, row |-> NoRow, event |-> NoEvent,
     changed |-> {}, moves |-> FALSE]

Init ==
    /\ component = [c \in Components |-> NoRow]
    /\ newest = [c \in Components |-> NoEvent]
    /\ unsaved = [r \in Requests |-> NoRequest]
    /\ meter \in [Aircraft -> 0 .. MaxHours]
    /\ flown = [c \in Components |-> 0]
    /\ moved = {}

-----------------------------------------------------------------------------
(* Reading a component                                                     *)

Idle(r) == unsaved[r].component = NoComponent
There(c) == component[c].status # "absent"
Locked(c) == \E r \in Requests : unsaved[r].component = c /\ unsaved[r].locks

\* _recompute_remaining: a limit that is not set leaves the old remainder.
Recomputed(row) ==
    [row EXCEPT !.remaining = IF row.limit = NoHours THEN @ ELSE row.limit - row.time]

Exhausted(row) == row.limit # NoHours /\ row.limit - row.time <= 0

\* get_installed_at_position, read without a lock: somebody else is there.
Occupied(c, a, p) ==
    \E d \in Components \ {c} :
        component[d].status = "installed" /\ component[d].craft = a /\ component[d].position = p

\* What a request that has read a row is about to commit.
Holds(r, c, row, event, moves) ==
    unsaved' = [unsaved EXCEPT ![r] =
                  [component |-> c, locks |-> TRUE, row |-> row, event |-> event,
                   changed |-> {}, moves |-> moves]]

-----------------------------------------------------------------------------
(* _apply_install and _apply_remove: on a row that is locked               *)

MayInstall(row, c, a, p) ==
    /\ row.status \notin {"absent", "installed", "retired", "quarantine"}
    /\ ~Exhausted(row)
    /\ ~Occupied(c, a, p)

Installed(row, a, p, hours) ==
    [Recomputed(row) EXCEPT !.status = "installed", !.craft = a, !.position = p, !.base = hours]

InstallEvent(a, p) == [type |-> "install", craft |-> a, position |-> p, to |-> "installed"]

\* The meter may not have run backwards.
MayRemove(row, hours) == row.status = "installed" /\ row.base <= hours

\* Faulty: the hours flown since the installation are not added.
RemovedUncounted(row, to, hours) ==
    Recomputed([row EXCEPT !.status = to, !.craft = NoAircraft, !.position = NoPosition, !.base = NoHours])

Removed(row, to, hours) ==
    Recomputed([row EXCEPT !.status = to, !.craft = NoAircraft, !.position = NoPosition,
                           !.time = @ + hours - row.base, !.base = NoHours])

\* Faulty: every removal is recorded as one to the stores.
ToStores(row, to) == [type |-> "remove", craft |-> row.craft, position |-> row.position, to |-> "stores"]

RemoveEvent(row, to) == [type |-> "remove", craft |-> row.craft, position |-> row.position, to |-> to]

-----------------------------------------------------------------------------
(* The handlers                                                            *)

\* The limit is the component's or its catalog item's.
CreateComponent(c, status, time, limit) ==
    /\ ~There(c)
    /\ component' = [component EXCEPT ![c] =
                       Recomputed([NoRow EXCEPT !.status = status, !.time = time, !.limit = limit])]
    /\ flown' = [flown EXCEPT ![c] = time]
    /\ UNCHANGED <<newest, unsaved, meter, moved>>

Install(r, c, a, p) ==
    /\ Idle(r) /\ There(c) /\ ~Locked(c)
    /\ MayInstall(component[c], c, a, p)
    /\ Holds(r, c, Installed(component[c], a, p, meter[a]), InstallEvent(a, p), FALSE)
    /\ UNCHANGED <<component, newest, meter, flown, moved>>

Remove(r, c, to) ==
    LET row == component[c]
    IN /\ Idle(r) /\ There(c) /\ ~Locked(c)
       /\ row.status = "installed" /\ MayRemove(row, meter[row.craft])
       /\ Holds(r, c, Removed(row, to, meter[row.craft]), RemoveEvent(row, to), FALSE)
       /\ UNCHANGED <<component, newest, meter, flown, moved>>

\* Faulty: the life that is left is looked at before the hours just flown are added.
ReinstalledUnchecked(r, c, a, p, hours) ==
    LET row == component[c]
    IN /\ MayRemove(row, hours) /\ ~Exhausted(row) /\ ~Occupied(c, a, p)
       /\ Holds(r, c, Installed(Removed(row, "stores", hours), a, p, hours),
                InstallEvent(a, p), row.craft # a)

\* Removed to the stores and installed anew, with one reading for both; if it may not be
\* installed, nothing happens.
Reinstalled(r, c, a, p, hours) ==
    LET row == component[c]
        removed == Removed(row, "stores", hours)
    IN /\ MayRemove(row, hours) /\ MayInstall(removed, c, a, p)
       /\ Holds(r, c, Installed(removed, a, p, hours), InstallEvent(a, p), row.craft # a)

\* transfer to an aircraft.
TransferInstall(r, c, a, p) ==
    /\ Idle(r) /\ There(c) /\ ~Locked(c)
    /\ \/ /\ component[c].status = "installed"
          /\ \E hours \in {meter[a], meter[component[c].craft]} : Reinstalled(r, c, a, p, hours)
       \/ /\ MayInstall(component[c], c, a, p)
          /\ Holds(r, c, Installed(component[c], a, p, meter[a]), InstallEvent(a, p), FALSE)
    /\ UNCHANGED <<component, newest, meter, flown, moved>>

\* transfer to a shelf: from an aircraft a removal, else a change of status alone.
TransferAway(r, c, to) ==
    LET row == component[c]
    IN /\ Idle(r) /\ There(c) /\ ~Locked(c)
       /\ \/ /\ row.status = "installed" /\ MayRemove(row, meter[row.craft])
             /\ Holds(r, c, Removed(row, to, meter[row.craft]), RemoveEvent(row, to), FALSE)
          \/ /\ row.status # "installed"
             /\ Holds(r, c, [row EXCEPT !.status = to],
                      [type |-> "transfer", craft |-> NoAircraft, position |-> NoPosition, to |-> to],
                      FALSE)
       /\ UNCHANGED <<component, newest, meter, flown, moved>>

\* The updates read without a lock and write the columns they have changed.
Writes(r, c, row) ==
    unsaved' = [unsaved EXCEPT ![r] =
                  [component |-> c, locks |-> FALSE, row |-> row, event |-> NoEvent,
                   changed |-> {k \in Columns : row[k] # component[c][k]}, moves |-> FALSE]]

UpdateLifeLimits(r, c, limit) ==
    /\ Idle(r) /\ There(c)
    /\ Writes(r, c, Recomputed([component[c] EXCEPT !.limit = limit]))
    /\ UNCHANGED <<component, newest, meter, flown, moved>>

UpdateTimeCycles(r, c, time) ==
    /\ Idle(r) /\ There(c)
    /\ Writes(r, c, Recomputed([component[c] EXCEPT !.time = time]))
    /\ UNCHANGED <<component, newest, meter, flown, moved>>

-----------------------------------------------------------------------------
(* Commits                                                                 *)

\* Faulty: the index on aircraft and position is not unique.
AnyPosition(c, row) == TRUE

\* uq_aircraft_position_occupant.
PositionFree(c, row) ==
    row.status = "installed" =>
        \A d \in Components \ {c} :
            component[d].craft # row.craft \/ component[d].position # row.position

\* A handler that has locked the component writes its row and its history.
CommitMove(r) ==
    LET q == unsaved[r]
        c == q.component
    IN /\ ~Idle(r) /\ q.locks
       /\ PositionFree(c, q.row)
       /\ component' = [component EXCEPT ![c] = q.row]
       /\ newest' = [newest EXCEPT ![c] = q.event]
       /\ moved' = IF q.moves THEN moved \cup {c} ELSE moved
       /\ unsaved' = [unsaved EXCEPT ![r] = NoRequest]
       /\ UNCHANGED <<meter, flown>>

\* Hours set by hand are taken to be the true ones.
CommitUpdate(r) ==
    LET q == unsaved[r]
        c == q.component
        row == [component[c] EXCEPT
                  !.limit = IF "limit" \in q.changed THEN q.row.limit ELSE @,
                  !.time = IF "time" \in q.changed THEN q.row.time ELSE @,
                  !.remaining = IF "remaining" \in q.changed THEN q.row.remaining ELSE @]
    IN /\ ~Idle(r) /\ ~q.locks /\ ~Locked(c)
       /\ component' = [component EXCEPT ![c] = row]
       /\ flown' = IF "time" \in q.changed
                     THEN [flown EXCEPT ![c] =
                             row.time + IF row.status = "installed" THEN meter[row.craft] - row.base ELSE 0]
                     ELSE flown
       /\ unsaved' = [unsaved EXCEPT ![r] = NoRequest]
       /\ UNCHANGED <<newest, meter, moved>>

\* The index refuses, the handler fails or its process ends: nothing is written.
Rollback(r) ==
    /\ ~Idle(r)
    /\ unsaved' = [unsaved EXCEPT ![r] = NoRequest]
    /\ UNCHANGED <<component, newest, meter, flown, moved>>

\* An aircraft flies, and with it what is installed on it; nobody is at work on it then.
WorkedOn(a) ==
    \E r \in Requests : ~Idle(r) /\ a \in {unsaved[r].row.craft, component[unsaved[r].component].craft}

Fly(a) ==
    /\ meter[a] < MaxHours
    /\ ~WorkedOn(a)
    /\ meter' = [meter EXCEPT ![a] = @ + 1]
    /\ flown' = [c \in Components |->
                   IF component[c].status = "installed" /\ component[c].craft = a
                     THEN flown[c] + 1 ELSE flown[c]]
    /\ UNCHANGED <<component, newest, unsaved, moved>>

-----------------------------------------------------------------------------
Next ==
    \/ \E c \in Components, status \in Destinations, time \in 0 .. MaxHours,
          limit \in Limits \cup {NoHours} : CreateComponent(c, status, time, limit)
    \/ \E r \in Requests, c \in Components, a \in Aircraft, p \in Positions : Install(r, c, a, p)
    \/ \E r \in Requests, c \in Components, to \in Destinations : Remove(r, c, to)
    \/ \E r \in Requests, c \in Components, a \in Aircraft, p \in Positions : TransferInstall(r, c, a, p)
    \/ \E r \in Requests, c \in Components, to \in Destinations : TransferAway(r, c, to)
    \/ \E r \in Requests, c \in Components, limit \in Limits : UpdateLifeLimits(r, c, limit)
    \/ \E r \in Requests, c \in Components, time \in 0 .. MaxHours : UpdateTimeCycles(r, c, time)
    \/ \E r \in Requests : CommitMove(r)
    \/ \E r \in Requests : CommitUpdate(r)
    \/ \E r \in Requests : Rollback(r)
    \/ \E a \in Aircraft : Fly(a)

Spec == Init /\ [][Next]_vars

-----------------------------------------------------------------------------
(* Properties                                                              *)

\* The variables have the types of the tables.
ComponentsTypeOK ==
    /\ component \in [Components -> ComponentRows]
    /\ newest \in [Components -> Events]
    /\ unsaved \in [Requests -> RequestRows]
    /\ meter \in [Aircraft -> 0 .. MaxHours]
    /\ flown \in [Components -> Int]
    /\ moved \subseteq Components

\* A position of an aircraft holds one component, although the handlers look at it
\* without locking it.
OneOccupant ==
    \A c, d \in Components :
        component[c].status = "installed" /\ component[d].status = "installed"
        /\ component[c].craft = component[d].craft /\ component[c].position = component[d].position
          => c = d

\* The newest row of the history says where a component is and in which state, and only
\* an installed component has an aircraft, a position and a reading to start from.
HistoryTellsWhere ==
    \A c \in Components :
        LET row == component[c]
        IN /\ newest[c] # NoEvent => newest[c].to = row.status
           /\ row.status = "installed"
                => newest[c] = [type |-> "install", craft |-> row.craft,
                                position |-> row.position, to |-> "installed"]
           /\ (row.craft # NoAircraft) = (row.status = "installed")
           /\ (row.base # NoHours) = (row.status = "installed")

\* TrueTime(c): what the row says the component has flown is what it has flown.
TrueTime(c) ==
    LET row == component[c]
    IN There(c) => flown[c] = row.time + IF row.status = "installed" THEN meter[row.craft] - row.base ELSE 0

\* Hours are neither lost nor counted twice, whatever installs, removals, refused and
\* interrupted transfers and corrections a component has seen, except by a transfer from
\* one aircraft to another.
HoursAreFlown == \A c \in Components \ moved : TrueTime(c)

\* The same without the exception: the time since new is the time flown since new.
TimeSinceNew == \A c \in Components : TrueTime(c)

\* A component whose life is spent is never put on an aircraft, not even by a transfer
\* that adds the last hours itself.
LifeLeftWhenInstalled ==
    [][\A c \in Components :
          component[c]'.status = "installed"
          /\ <<component[c]'.craft, component[c]'.position, component[c]'.base>>
                # <<component[c].craft, component[c].position, component[c].base>>
            => ~Exhausted(component[c])']_vars
=============================================================================

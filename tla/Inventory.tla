------------------------------ MODULE Inventory ------------------------------
(***************************************************************************)
(* Stock balances, stock units, reservations, warehouse transfers and the  *)
(* movement ledger of one part (backend/app/logistics/service.py).         *)
(*                                                                         *)
(* A balance is read without a lock (repository.get_balance and the        *)
(* balances_* queries take no FOR UPDATE) and written back as an absolute  *)
(* number when the request commits, at the READ COMMITTED isolation the    *)
(* engine is created with; of a row only the columns that changed are      *)
(* written.  So a request has two steps: Start reads the rows, passes the  *)
(* handler's checks and keeps what it has read, and Commit writes.  A      *)
(* request may also be rolled back (Abort).  Reservation and transfer rows *)
(* are read FOR UPDATE and stay locked from Start to Commit.  All the rows *)
(* of one request are read in one step.                                    *)
(*                                                                         *)
(* Next to its balance, a place has stock units (lots, serials), which only *)
(* goods-in creates.  They too are read without a lock; what two requests  *)
(* that drew from them side by side leave behind depends on which lots     *)
(* they picked, so the model lets it be any amount.                        *)
(*                                                                         *)
(* Only to state the properties, a request knows which of its rows another *)
(* commit has written since it read them (late), stale remembers that such *)
(* a request went on to commit, and a reservation remembers what was asked *)
(* for and issued.                                                         *)
(***************************************************************************)
EXTENDS Integers, FiniteSets, Functions

CONSTANTS Locations,    \* bins, each in a warehouse of its own
          Conditions,   \* conditions a balance is kept for
          Places,       \* the balances there are: a location and a condition
          Reservations, \* identifiers of reservation rows
          Transfers,    \* identifiers of transfer rows
          Workers,      \* requests the server works on at the same time
          Nothing,      \* no reservation, no transfer, no request
          Quantities,   \* quantities a request may ask for
          BulkLines,    \* deltas of one bulk adjustment, per balance
          MaxOnHand     \* bound: stock a request may build up over all balances

ServiceableCondition == "serviceable"
Serviceable(l) == <<l, ServiceableCondition>>

ASSUME InventoryAssumption ==
    /\ Places \subseteq Locations \X Conditions
    /\ \A l \in Locations : Serviceable(l) \in Places
    /\ Quantities \subseteq Nat \ {0}
    /\ BulkLines \subseteq [Places -> Int]
    /\ MaxOnHand \in Nat
    /\ Nothing \notin Reservations \cup Transfers
    /\ IsFiniteSet(Reservations)

\* Of the ledger, the movements that put into a place or take from it count; the
\* inbound row of a transfer, which names both ends, counts for its destination.
VARIABLES stock,       \* logistics_stock_balances, logistics_stock_units
          ledger,      \* per balance, the sum of its logistics_stock_movements
          reservation, \* logistics_reservations
          transfer,    \* logistics_warehouse_transfers, of one line each
          request,     \* what each worker has read and is about to write
          stale        \* history: a commit overwrote a change it had not seen

invVars == <<stock, ledger, reservation, transfer, request, stale>>

\* qty_on_hand, qty_reserved, and the quantity left in the active units.
Rows == [hand : Nat, held : Nat, lots : Nat]
ReservationRows == [status : {"absent", "open", "issued", "released"},
                    at : Locations \cup {Nothing}, qty : Nat, asked : Nat, spent : Nat]
TransferRows == [status : {"absent", "in_transit", "completed"},
                 from : Locations \cup {Nothing}, qty : Nat]

\* move, hold, lots and book are the changes to the on-hand and reserved columns,
\* the units and the ledger, seen the rows they are computed from, row the new
\* version of reservation res, and issue what is issued against it.
RequestRecords == [move : [Places -> Int], hold : [Places -> Int], lots : [Places -> Int],
                   book : [Places -> Int], seen : [Places -> Rows], late : SUBSET Places,
                   res : Reservations \cup {Nothing}, row : ReservationRows, issue : Nat,
                   transfer : Transfers \cup {Nothing}]

EmptyRow == [hand |-> 0, held |-> 0, lots |-> 0]
NoReservation == [status |-> "absent", at |-> Nothing, qty |-> 0, asked |-> 0, spent |-> 0]
NoTransfer == [status |-> "absent", from |-> Nothing, qty |-> 0]

\* A bulk adjustment leaves a row of zeros even where its line is rejected, so
\* every balance may exist from the start.
InvInit == /\ stock = [p \in Places |-> EmptyRow]
           /\ ledger = [p \in Places |-> 0]
           /\ reservation = [r \in Reservations |-> NoReservation]
           /\ transfer = [t \in Transfers |-> NoTransfer]
           /\ request = [w \in Workers |-> Nothing]
           /\ stale = FALSE

-----------------------------------------------------------------------------
(* Helpers                                                                 *)

Lesser(a, b) == IF a < b THEN a ELSE b
NoChange == [p \in Places |-> 0]
Only(p, n) == [NoChange EXCEPT ![p] = n]

Running == {w \in Workers : request[w] # Nothing}

\* Faulty: reservations are read without a lock, as balances are.
ReservationUnlocked(r) == FALSE

\* SELECT ... FOR UPDATE waits for the request that holds the row.
ReservationLocked(r) == \E w \in Running : request[w].res = r
TransferLocked(t) == \E w \in Running : request[w].transfer = t

\* Faulty: what is reserved counts as available.
FreeOnHand(row) == row.hand

\* Available = on_hand - reserved.
Free(row) == row.hand - row.held

\* Faulty: any correction is accepted.
CanAdjustAny(row, delta) == delta # 0

\* The test of adjust_stock and bulk_adjust.
CanAdjust(row, delta) ==
    delta # 0 /\ row.hand + delta >= 0 /\ row.hand + delta >= row.held

\* _withdraw from one balance, credit of it from a reservation: the test, and
\* how much of the reserved column is used up.
CanWithdraw(row, qty, credit) ==
    /\ Free(row) + credit >= qty
    /\ Free(row) + Lesser(credit, row.held) >= qty
UsedReserved(row, qty, credit) == Lesser(Lesser(credit, row.held), qty)

\* _withdraw without a location: the balances with free stock are drained one
\* after the other (by updated_at, any order here), only the last in part.
Draws(condition, qty) ==
    {take \in [Places -> 0..qty] :
        /\ \A p \in Places : take[p] > 0 => p[2] = condition /\ take[p] <= Free(stock[p])
        /\ SumFunction(take) = qty
        /\ \E last \in Places : \A p \in Places \ {last} :
              take[p] > 0 => take[p] = Free(stock[p])}

\* Faulty: it gives back what was reserved at first.
RemainingAsked(r) == reservation[r].asked

\* What the release of a reservation gives back.
Remaining(r) == reservation[r].qty

\* _consume_units takes what it finds in the units of a place, up to n.
Drawn(p, n) == Lesser(stock[p].lots, n)

\* The movements _withdraw records of a balance that gives n: one for each unit
\* drawn from and, only if there was none, one for n.
Booked(p, n) == IF Drawn(p, n) > 0 THEN Drawn(p, n) ELSE n

\* What goods-in, a withdrawal and a correction do to balance, units and ledger.
Putting(p, qty) == [move |-> Only(p, qty), lots |-> Only(p, qty), book |-> Only(p, qty)]

Taking(take) == [move |-> [p \in Places |-> -take[p]],
                 lots |-> [p \in Places |-> -Drawn(p, take[p])],
                 book |-> [p \in Places |-> -Booked(p, take[p])]]

\* Faulty: a correction leaves the units alone.
CorrectingBalance(delta) == [move |-> delta, lots |-> NoChange, book |-> delta]

Correcting(delta) ==
    [move |-> delta,
     lots |-> [p \in Places |-> IF delta[p] < 0 THEN -Drawn(p, -delta[p]) ELSE 0],
     book |-> delta]

\* Out of one balance, with its units, into another.
Carrying(source, target, qty) ==
    LET out == Taking(Only(source, qty))
    IN [move |-> [out.move EXCEPT ![target] = @ + qty],
        lots |-> out.lots,
        book |-> [out.book EXCEPT ![target] = @ + qty]]

Staying == [move |-> NoChange, lots |-> NoChange, book |-> NoChange]

Moves(change, hold, p) == change.move[p] # 0 \/ hold[p] # 0 \/ change.lots[p] # 0

\* A request passes its checks; it has read the rows it is going to change.
Start(w, change, hold, r, row, issue, t) ==
    /\ request[w] = Nothing
    /\ (\E p \in Places : change.move[p] > 0) =>
          /\ SumFunction([p \in Places |-> stock[p].hand + change.move[p]]) <= MaxOnHand
          /\ SumFunction([p \in Places |-> ledger[p] + change.move[p]]) <= MaxOnHand
    /\ request' = [request EXCEPT ![w] =
          [move |-> change.move, hold |-> hold, lots |-> change.lots, book |-> change.book,
           seen |-> [p \in Places |-> IF Moves(change, hold, p) THEN stock[p] ELSE EmptyRow],
           late |-> {}, res |-> r, row |-> row, issue |-> issue, transfer |-> t]]
    /\ UNCHANGED <<stock, ledger, reservation, transfer, stale>>

StartMove(w, change) == Start(w, change, NoChange, Nothing, NoReservation, 0, Nothing)

-----------------------------------------------------------------------------
(* Actions                                                                 *)

\* receive_stock.
Receive(w, p, qty) == StartMove(w, Putting(p, qty))

\* issue_stock and scrap_stock at a location, without a reservation.
Withdraw(w, p, qty) ==
    /\ CanWithdraw(stock[p], qty, 0)
    /\ StartMove(w, Taking(Only(p, qty)))

\* scrap_stock of a named unit, wherever it is: what the withdrawal does not take
\* of that unit (rest) is no active unit any more.
ScrapUnit(w, p, qty, at, rest) ==
    LET change == Taking(Only(p, qty))
    IN /\ CanWithdraw(stock[p], qty, 0)
       /\ stock[at].lots + change.lots[at] >= rest
       /\ StartMove(w, [change EXCEPT !.lots[at] = @ - rest])

\* issue_stock without a location.
IssueAnywhere(w, condition, qty) ==
    \E take \in Draws(condition, qty) : StartMove(w, Taking(take))

\* issue_stock against a reservation; the caller names the condition.
IssueReserved(w, r, condition, qty) ==
    LET old == reservation[r]
        p == <<old.at, condition>>
        left == old.qty - qty
    IN /\ ~ReservationLocked(r) /\ old.status = "open" /\ qty <= old.qty
       /\ p \in Places
       /\ CanWithdraw(stock[p], qty, qty)
       /\ Start(w, Taking(Only(p, qty)), Only(p, -UsedReserved(stock[p], qty, qty)), r,
                [old EXCEPT !.qty = left, !.status = IF left = 0 THEN "issued" ELSE "open"],
                qty, Nothing)

\* adjust_stock.
Adjust(w, p, delta) ==
    /\ CanAdjust(stock[p], delta)
    /\ StartMove(w, Correcting(Only(p, delta)))

\* bulk_adjust: the lines that fail the test are reported, the others applied.
BulkAdjust(w, lines) ==
    StartMove(w, Correcting([p \in Places |->
                                IF CanAdjust(stock[p], lines[p]) THEN lines[p] ELSE 0]))

\* reserve_stock, at a location or wherever one balance has enough.
Reserve(w, r, l, qty) ==
    /\ reservation[r].status = "absent" /\ ~ReservationLocked(r)
    /\ Free(stock[Serviceable(l)]) >= qty
    /\ Start(w, Staying, Only(Serviceable(l), qty), r,
             [status |-> "open", at |-> l, qty |-> qty, asked |-> qty, spent |-> 0], 0, Nothing)

\* release_reservation: always on the serviceable balance, never below zero.
Release(w, r) ==
    LET p == Serviceable(reservation[r].at)
    IN /\ ~ReservationLocked(r) /\ reservation[r].status = "open"
       /\ Start(w, Staying, Only(p, -Lesser(Remaining(r), stock[p].held)), r,
                [reservation[r] EXCEPT !.status = "released"], 0, Nothing)

\* create_transfer, which moves nothing.
CreateTransfer(t, from, qty) ==
    /\ transfer[t].status = "absent"
    /\ transfer' = [transfer EXCEPT ![t] = [status |-> "in_transit", from |-> from, qty |-> qty]]
    /\ UNCHANGED <<stock, ledger, reservation, request, stale>>

\* complete_transfer: out of one serviceable balance, into another; the units
\* drawn from the first do not appear at the second.
CompleteTransfer(w, t, to) ==
    LET qty == transfer[t].qty
        source == Serviceable(transfer[t].from)
        target == Serviceable(to)
    IN /\ ~TransferLocked(t) /\ transfer[t].status = "in_transit"
       /\ CanWithdraw(stock[source], qty, 0)
       /\ Start(w, Carrying(source, target, qty), NoChange, Nothing, NoReservation, 0, t)

Touches(q, p) == q.move[p] # 0 \/ q.hold[p] # 0 \/ q.lots[p] # 0

\* The row as the UPDATE leaves it: the columns that changed, from what was read;
\* left is what remains of units that another request has drawn from as well.
Written(q, p, left) ==
    [hand |-> IF q.move[p] = 0 THEN stock[p].hand ELSE q.seen[p].hand + q.move[p],
     held |-> IF q.hold[p] = 0 THEN stock[p].held ELSE q.seen[p].held + q.hold[p],
     lots |-> IF p \in q.late /\ q.lots[p] < 0 THEN left[p] ELSE stock[p].lots + q.lots[p]]

\* A request that is still running learns which of its rows q has written.
Overtaken(x, q) ==
    IF x = Nothing THEN x
    ELSE [x EXCEPT !.late = @ \cup {p \in Places : Touches(q, p) /\ Touches(x, p)}]

\* _commit_or_conflict: balances, movements, reservation and transfer at once.
Commit(w) ==
    LET q == request[w]
    IN /\ q # Nothing
       /\ \E left \in [q.late -> 0..MaxOnHand] :
             stock' = [p \in Places |-> Written(q, p, left)]
       /\ ledger' = [p \in Places |-> ledger[p] + q.book[p]]
       /\ reservation' = IF q.res = Nothing THEN reservation
                         ELSE [reservation EXCEPT ![q.res] =
                                 [q.row EXCEPT !.spent = reservation[q.res].spent + q.issue]]
       /\ transfer' = IF q.transfer = Nothing THEN transfer
                      ELSE [transfer EXCEPT ![q.transfer].status = "completed"]
       /\ stale' = (stale \/ q.late # {})
       /\ request' = [x \in Workers |-> IF x = w THEN Nothing ELSE Overtaken(request[x], q)]

\* The transaction is rolled back: a crash, a lost connection, a failed audit.
Abort(w) ==
    /\ request[w] # Nothing
    /\ request' = [request EXCEPT ![w] = Nothing]
    /\ UNCHANGED <<stock, ledger, reservation, transfer, stale>>

InvNext ==
    \/ \E w \in Workers \ Running, p \in Places, qty \in Quantities :
          \/ Receive(w, p, qty)
          \/ Withdraw(w, p, qty)
          \/ \E at \in Places, rest \in Quantities : ScrapUnit(w, p, qty, at, rest)
          \/ Adjust(w, p, qty)
          \/ Adjust(w, p, -qty)
    \/ \E w \in Workers \ Running, condition \in Conditions, qty \in Quantities :
          \/ IssueAnywhere(w, condition, qty)
          \/ \E r \in Reservations : IssueReserved(w, r, condition, qty)
    \/ \E w \in Workers \ Running, lines \in BulkLines : BulkAdjust(w, lines)
    \/ \E w \in Workers \ Running, r \in Reservations :
          \/ \E l \in Locations, qty \in Quantities : Reserve(w, r, l, qty)
          \/ Release(w, r)
    \/ \E t \in Transfers, l \in Locations, qty \in Quantities : CreateTransfer(t, l, qty)
    \/ \E w \in Workers \ Running, t \in Transfers, l \in Locations : CompleteTransfer(w, t, l)
    \/ \E w \in Workers : Commit(w) \/ Abort(w)

InvSpec == InvInit /\ [][InvNext]_invVars

-----------------------------------------------------------------------------
(* Properties                                                              *)

\* The shape of every row; neither column of a balance ever goes below zero.
InvTypeOK ==
    /\ stock \in [Places -> Rows]
    /\ ledger \in [Places -> Int]
    /\ reservation \in [Reservations -> ReservationRows]
    /\ transfer \in [Transfers -> TransferRows]
    /\ request \in [Workers -> RequestRecords \cup {Nothing}]
    /\ stale \in BOOLEAN

\* Until a commit overwrites a change it has not seen, no balance has more
\* reserved than it has on hand: the checks of the handlers and the amounts they
\* write agree with each other whatever requests run side by side.
BalancesSound == ~stale => \A p \in Places : stock[p].held <= stock[p].hand

\* Until then, the units of a place (what an issue picks from, FIFO or FEFO) never
\* amount to more than its balance, and the ledger never shows less than the
\* balance: neither corrections, transfers nor scrapping leave units behind that
\* are not on hand, or a withdrawal in the ledger that did not happen.
UnitsAccounted ==
    ~stale => \A p \in Places :
        stock[p].lots <= stock[p].hand /\ stock[p].hand <= ledger[p]

OpenAt(l) == {r \in Reservations : reservation[r].status = "open" /\ reservation[r].at = l}
Promised(l) == SumFunctionOnSet([r \in Reservations |-> reservation[r].qty], OpenAt(l))

\* Until such a commit, the open reservations of a location are covered by what
\* its serviceable balance holds back: nobody can be issued, and no release or
\* withdrawal can free, stock that is promised to somebody else.
PromisesCovered == ~stale => \A l \in Locations : Promised(l) <= stock[Serviceable(l)].held

\* A reservation is spent once, even when issues and releases of it race: what
\* was issued against it and what is left of it is always what was asked for.
ReservationSpentOnce ==
    \A r \in Reservations : reservation[r].spent + reservation[r].qty = reservation[r].asked

\* docs/INVENTORY.md: "Available = on_hand - reserved (oversell fails closed)".
\* Never more is issued than has arrived, nor promised than is on hand.
OversellFailsClosed ==
    /\ \A p \in Places : ledger[p] >= 0
    /\ \A l \in Locations : Promised(l) <= stock[Serviceable(l)].hand

\* docs/INVENTORY.md: "Stock truth is the immutable logistics_stock_movements
\* ledger.  Balances are derived and updated in the same transaction": also
\* without any overwriting, on hand is what the movements add up to.
LedgerIsStockTruth ==
    ~stale => \A p \in Places : stock[p].hand = ledger[p]
=============================================================================

-------------------------- MODULE MaterialRequests --------------------------
(***************************************************************************)
(* Material requests of job cards: requested, approved, reserved, issued,  *)
(* returned or cancelled (backend/app/logistics/service.py).               *)
(*                                                                         *)
(* A handler locks its request (FOR UPDATE).  Reserve and return read and  *)
(* write in one step; issue and cancel first list the reservations of the  *)
(* request, without a lock, and then read and write the balances (Begin,   *)
(* Finish).  Between the two a reservation of theirs may be released.      *)
(* What happens when two requests overwrite each other's balances is the   *)
(* subject of Inventory; here a balance is read and written in one step.   *)
(* Reservations are numbered in the order of their creation.               *)
(***************************************************************************)
EXTENDS Integers, Sequences, FiniteSets, Functions

CONSTANTS Requests,   \* identifiers of material requests
          Parts, Places, \* part masters and locations
          Pieces,     \* quantities asked for, received, returned
          MaxLines,   \* bound: lines of a request
          MaxStock,   \* bound: goods received
          MaxRows,    \* bound: reservations
          Nothing

ASSUME RequestsAssumption ==
    /\ Pieces \subseteq Nat \ {0}
    /\ IsFiniteSet(Requests) /\ IsFiniteSet(Parts) /\ IsFiniteSet(Places)
    /\ {MaxLines, MaxStock, MaxRows} \subseteq Nat
    /\ Nothing \notin Requests \cup Places

VARIABLES mr,      \* logistics_material_requests and their lines
          balance, \* logistics_stock_balances, condition serviceable
          rows,    \* logistics_reservations
          pending, \* issue and cancel requests under way, with what they have read
          came,    \* history: serviceable goods that came in, by receipt or return
          raced    \* history: a reservation was written by two requests side by side

mrVars == <<mr, balance, rows, pending, came, raced>>

Statuses == {"absent", "requested", "approved", "reserved", "issued", "returned", "cancelled"}
LineRows == [part : Parts, requested : Pieces, reserved : Nat, issued : Nat, returned : Nat]
ReservationRows == [status : {"open", "released", "issued"}, part : Parts, at : Places, qty : Nat,
                    source : Requests \cup {Nothing}]
Readings == [kind : {"issue", "cancel"}, picked : [Parts -> Nat], read : Seq(ReservationRows)]

MRTypeOK ==
    /\ mr \in [Requests -> [status : Statuses, lines : Seq(LineRows)]]
    /\ balance \in [Parts \X Places -> [hand : Nat, held : Nat]]
    /\ rows \in Seq(ReservationRows)
    /\ pending \in [Requests -> Readings \cup {Nothing}]
    /\ came \in Nat
    /\ raced \in BOOLEAN

MRInit ==
    /\ mr = [r \in Requests |-> [status |-> "absent", lines |-> <<>>]]
    /\ balance = [b \in Parts \X Places |-> [hand |-> 0, held |-> 0]]
    /\ rows = <<>>
    /\ pending = [r \in Requests |-> Nothing]
    /\ came = 0
    /\ raced = FALSE

-----------------------------------------------------------------------------
(* Helpers                                                                 *)

MRTransitions(status) ==
    CASE status = "requested" -> {"approved", "cancelled"}
      [] status = "approved" -> {"reserved", "issued", "cancelled"}
      [] status = "reserved" -> {"issued", "cancelled"}
      [] status = "issued" -> {"returned"}
      [] OTHER -> {}

Free(b) == b.hand - b.held
Smaller(a, b) == IF a < b THEN a ELSE b

\* What is free of a part, over all locations.
Available(stock, part) == SumFunctionOnSet([l \in Places |-> Free(stock[<<part, l>>])], Places)

\* The handler may go to this status and no other one holds the request.
May(r, status) == pending[r] = Nothing /\ status \in MRTransitions(mr[r].status)

OpenRows(r) == {i \in DOMAIN rows : rows[i].status = "open" /\ rows[i].source = r}

Row(part, at, qty, source) ==
    [status |-> "open", part |-> part, at |-> at, qty |-> qty, source |-> source]

\* _release: the reserved column is clamped at zero.
Unheld(b, n) == [b EXCEPT !.held = IF @ > n THEN @ - n ELSE 0]

-----------------------------------------------------------------------------
(* What goes on beside the requests                                        *)

ReceiveGoods(part, at, n) ==
    /\ came + n <= MaxStock
    /\ balance' = [balance EXCEPT ![<<part, at>>].hand = @ + n]
    /\ came' = came + n
    /\ UNCHANGED <<mr, rows, pending, raced>>

ReserveByHand(part, at, n) ==
    /\ Len(rows) < MaxRows
    /\ Free(balance[<<part, at>>]) >= n
    /\ balance' = [balance EXCEPT ![<<part, at>>].held = @ + n]
    /\ rows' = Append(rows, Row(part, at, n, Nothing))
    /\ UNCHANGED <<mr, pending, came, raced>>

ReleaseReservation(i) ==
    /\ rows[i].status = "open"
    /\ balance' = [balance EXCEPT ![<<rows[i].part, rows[i].at>>] = Unheld(@, rows[i].qty)]
    /\ rows' = [rows EXCEPT ![i].status = "released"]
    /\ UNCHANGED <<mr, pending, came, raced>>

-----------------------------------------------------------------------------
(* The request                                                             *)

CreateMaterialRequest(r, wanted) ==
    /\ mr[r].status = "absent"
    /\ mr' = [mr EXCEPT ![r] = [status |-> "requested",
                                lines |-> [i \in DOMAIN wanted |->
                                   [part |-> wanted[i][1], requested |-> wanted[i][2],
                                    reserved |-> 0, issued |-> 0, returned |-> 0]]]]
    /\ UNCHANGED <<balance, rows, pending, came, raced>>

ApproveMaterialRequest(r) ==
    /\ May(r, "approved")
    /\ mr' = [mr EXCEPT ![r].status = "approved"]
    /\ UNCHANGED <<balance, rows, pending, came, raced>>

\* One line of a reservation.  A run holds the request's lines, the balances, the rows,
\* and whether all went well so far.  at is the location each line is reserved at: any
\* that has enough.  The amount taken is tested against the sum over locations, so a
\* line may find no location with enough, and then the whole request is refused.
ReserveLine(r, at, run, i) ==
    LET line == run.lines[i]
        take == Smaller(line.requested - line.reserved - line.issued,
                        Available(run.balance, line.part))
    IN  IF take <= 0 THEN run
        ELSE [lines |-> [run.lines EXCEPT ![i].reserved = @ + take],
              balance |-> [run.balance EXCEPT ![<<line.part, at[i]>>].held = @ + take],
              rows |-> Append(run.rows, Row(line.part, at[i], take, r)),
              ok |-> run.ok /\ Free(run.balance[<<line.part, at[i]>>]) >= take]

\* The lines are taken in their order.
ReserveRun(r, at) ==
    LET lines == mr[r].lines
        run[i \in 0 .. Len(lines)] ==
            IF i = 0 THEN [lines |-> lines, balance |-> balance, rows |-> rows, ok |-> TRUE]
            ELSE ReserveLine(r, at, run[i - 1], i)
    IN  run[Len(lines)]

ReserveMaterialRequest(r, at) ==
    /\ May(r, "reserved")
    /\ LET run == ReserveRun(r, at)
       IN  /\ run.ok
           /\ Len(run.rows) <= MaxRows
           /\ mr' = [mr EXCEPT ![r] = [status |-> "reserved", lines |-> run.lines]]
           /\ balance' = run.balance
           /\ rows' = run.rows
    /\ UNCHANGED <<pending, came, raced>>

\* The open reservations are listed newest first and put into a dictionary by part,
\* which keeps the last one: the oldest.
Picked(r) == [p \in Parts |-> LET found == {i \in OpenRows(r) : rows[i].part = p}
                              IN  IF found = {} THEN 0 ELSE CHOOSE i \in found : \A j \in found : i <= j]

BeginIssue(r) ==
    /\ May(r, "issued")
    /\ pending' = [pending EXCEPT ![r] = [kind |-> "issue", picked |-> Picked(r), read |-> rows]]
    /\ UNCHANGED <<mr, balance, rows, came, raced>>

\* Faulty: a line is issued what is left of it, reserved or not.
WholeLine(left, reserved) == left

\* A reservation is issued from as far as it goes.
IssueQty(left, reserved) == Smaller(left, reserved)

\* Faulty: of what is taken only the reserved part leaves the shelf.
WithdrawnHeld(b, n, credit) ==
    LET own == Smaller(Smaller(credit, b.held), n) IN [hand |-> b.hand - own, held |-> b.held - own]

\* _withdraw at one balance, credit being what the caller has reserved.
Withdrawn(b, n, credit) ==
    LET own == Smaller(credit, b.held)
        take == Smaller(Free(b) + own, n)
    IN  [hand |-> b.hand - take, held |-> b.held - Smaller(own, take)]

\* A line once n are issued, and a reservation once n are issued from it.
Issued(line, n) == [line EXCEPT !.issued = @ + n, !.reserved = IF @ > n THEN @ - n ELSE 0]
Used(row, n) == [row EXCEPT !.qty = @ - n, !.status = IF row.qty <= n THEN "issued" ELSE @]

\* One line of an issue with reservation k: from its location, with its quantity as credit.
IssueFromRow(run, i, k) ==
    LET line == run.lines[i]
        row == run.seen[k]
        n == IssueQty(line.requested - line.issued, row.qty)
        b == run.balance[<<line.part, row.at>>]
    IN  [lines |-> [run.lines EXCEPT ![i] = Issued(line, n)],
         balance |-> [run.balance EXCEPT ![<<line.part, row.at>>] = Withdrawn(b, n, n)],
         seen |-> [run.seen EXCEPT ![k] = Used(row, n)],
         ok |-> run.ok /\ Free(b) + Smaller(n, b.held) >= n]

\* One line of an issue without reservation: drawn says what comes from which location,
\* each but the last one drawn from being emptied.
IssueFromShelf(drawn, run, i) ==
    LET line == run.lines[i]
        left == line.requested - line.issued
        shelf == {x \in DOMAIN run.balance : x[1] = line.part}
    IN  [lines |-> [run.lines EXCEPT ![i] = Issued(line, left)],
         balance |-> [x \in DOMAIN run.balance |->
                         IF x \in shelf THEN [run.balance[x] EXCEPT !.hand = @ - drawn[x[2]]]
                         ELSE run.balance[x]],
         seen |-> run.seen,
         ok |-> /\ run.ok
                /\ SumFunctionOnSet([x \in shelf |-> drawn[x[2]]], shelf) = left
                /\ \A x \in shelf : drawn[x[2]] <= Smaller(left, Free(run.balance[x]))
                /\ \A x, y \in shelf :
                      x # y /\ drawn[x[2]] > 0 /\ drawn[y[2]] > 0
                      => \E z \in {x, y} : drawn[z[2]] = Free(run.balance[z])]

IssueLine(picked, draw, run, i) ==
    LET line == run.lines[i]
        k == picked[line.part]
    IN  IF line.requested <= line.issued THEN run
        ELSE IF k # 0 THEN IssueFromRow(run, i, k) ELSE IssueFromShelf(draw[i], run, i)

IssueRun(r, draw) ==
    LET lines == mr[r].lines
        run[i \in 0 .. Len(lines)] ==
            IF i = 0 THEN [lines |-> lines, balance |-> balance, seen |-> pending[r].read, ok |-> TRUE]
            ELSE IssueLine(pending[r].picked, draw, run[i - 1], i)
    IN  run[Len(lines)]

\* The rows picked were changed since they were listed.
Changed(r) == \E i \in DOMAIN pending[r].read :
    pending[r].read[i].source = r /\ pending[r].read[i] # rows[i]

\* A row that was read and changed in memory is written column by column.
Written(row, read, seen) ==
    [row EXCEPT !.qty = IF seen.qty # read.qty THEN seen.qty ELSE @,
                !.status = IF seen.status # read.status THEN seen.status ELSE @]

FinishIssue(r, draw) ==
    /\ pending[r] # Nothing /\ pending[r].kind = "issue"
    /\ LET run == IssueRun(r, draw)
           read == pending[r].read
       IN  /\ run.ok
           /\ mr' = [mr EXCEPT ![r] = [status |-> "issued", lines |-> run.lines]]
           /\ balance' = run.balance
           /\ rows' = [i \in DOMAIN rows |->
                         IF i \in DOMAIN read THEN Written(rows[i], read[i], run.seen[i]) ELSE rows[i]]
    /\ raced' = (raced \/ Changed(r))
    /\ pending' = [pending EXCEPT ![r] = Nothing]
    /\ UNCHANGED came

\* Faulty: an entry is compared with what was issued, whatever has come back already.
FitsLine(line, n) == n <= line.issued

\* An entry brings back at most what was issued and not returned.
Returnable(line, n) == n <= line.issued - line.returned

\* One entry of a return: line, quantity and whether the goods are still serviceable.
ReturnEntry(at, run, entry) ==
    LET line == run.lines[entry[1]]
        n == entry[2]
    IN  [lines |-> [run.lines EXCEPT ![entry[1]].returned = @ + n],
         balance |-> IF entry[3] THEN [run.balance EXCEPT ![<<line.part, at>>].hand = @ + n] ELSE run.balance,
         came |-> IF entry[3] THEN run.came + n ELSE run.came,
         ok |-> run.ok /\ Returnable(line, n)]

ReturnRun(r, at, entries) ==
    LET run[j \in 0 .. Len(entries)] ==
            IF j = 0 THEN [lines |-> mr[r].lines, balance |-> balance, came |-> came, ok |-> TRUE]
            ELSE ReturnEntry(at, run[j - 1], entries[j])
    IN  run[Len(entries)]

ReturnMaterialRequest(r, at, entries) ==
    /\ May(r, "returned")
    /\ \A j \in DOMAIN entries : entries[j][1] \in DOMAIN mr[r].lines
    /\ LET run == ReturnRun(r, at, entries)
       IN  /\ run.ok
           /\ mr' = [mr EXCEPT ![r] = [status |-> "returned", lines |-> run.lines]]
           /\ balance' = run.balance
           /\ came' = run.came
    /\ UNCHANGED <<rows, pending, raced>>

BeginCancel(r) ==
    /\ May(r, "cancelled")
    /\ pending' = [pending EXCEPT ![r] = [kind |-> "cancel", picked |-> [p \in Parts |-> 0], read |-> rows]]
    /\ UNCHANGED <<mr, balance, rows, came, raced>>

\* Faulty: the reservations are kept for the next request.
KeptRows(r) == {}

\* The reservations listed as open are released, whatever became of them since; of each
\* balance the reserved column goes down by one after the other, never below zero.
ListedRows(r) == {i \in DOMAIN pending[r].read : pending[r].read[i].status = "open" /\ pending[r].read[i].source = r}

FinishCancel(r) ==
    /\ pending[r] # Nothing /\ pending[r].kind = "cancel"
    /\ LET listed == ListedRows(r)
           read == pending[r].read
           At(b) == {i \in listed : <<read[i].part, read[i].at>> = b}
           qty == [i \in DOMAIN read |-> read[i].qty]
       IN  /\ balance' = [b \in DOMAIN balance |-> Unheld(balance[b], SumFunctionOnSet(qty, At(b)))]
           /\ rows' = [i \in DOMAIN rows |-> IF i \in listed THEN [rows[i] EXCEPT !.status = "released"] ELSE rows[i]]
    /\ LET lines == mr[r].lines
       IN  mr' = [mr EXCEPT ![r] = [status |-> "cancelled",
                                    lines |-> [i \in DOMAIN lines |-> [lines[i] EXCEPT !.reserved = 0]]]]
    /\ raced' = (raced \/ Changed(r))
    /\ pending' = [pending EXCEPT ![r] = Nothing]
    /\ UNCHANGED came

\* A handler that fails, or dies, leaves everything as it was.
GiveUp(r) ==
    /\ pending[r] # Nothing
    /\ pending' = [pending EXCEPT ![r] = Nothing]
    /\ UNCHANGED <<mr, balance, rows, came, raced>>

-----------------------------------------------------------------------------
WantedLists == UNION {[1..n -> Parts \X Pieces] : n \in 1..MaxLines}
\* Bound: a return has two entries at most, perhaps for the same line.
ReturnLists == UNION {[1..n -> (1..MaxLines) \X Pieces \X BOOLEAN] : n \in 1..2}
Draws(r) == [DOMAIN mr[r].lines -> [Places -> 0..MaxStock]]

StockNext ==
    \/ \E p \in Parts, l \in Places, n \in Pieces : ReceiveGoods(p, l, n) \/ ReserveByHand(p, l, n)
    \/ \E i \in DOMAIN rows : ReleaseReservation(i)

RequestNext ==
    \E r \in Requests :
        \/ \E wanted \in WantedLists : CreateMaterialRequest(r, wanted)
        \/ ApproveMaterialRequest(r)
        \/ \E at \in [DOMAIN mr[r].lines -> Places] : ReserveMaterialRequest(r, at)
        \/ BeginIssue(r)
        \/ pending[r] # Nothing /\ \E draw \in Draws(r) : FinishIssue(r, draw)
        \/ \E l \in Places, entries \in ReturnLists : ReturnMaterialRequest(r, l, entries)
        \/ BeginCancel(r)
        \/ FinishCancel(r)
        \/ GiveUp(r)

MRNext == StockNext \/ RequestNext

MRSpec == MRInit /\ [][MRNext]_mrVars

-----------------------------------------------------------------------------
(* Properties                                                              *)

Quantity == [i \in DOMAIN rows |-> rows[i].qty]
OpenAt(b) == {i \in DOMAIN rows : rows[i].status = "open" /\ <<rows[i].part, rows[i].at>> = b}

\* The reserved column of a balance is what its open reservations promise, whatever
\* was reserved, released, issued and cancelled, and there is that much, as long as no
\* reservation was written by two requests side by side (_reserve, _release, _withdraw).
HeldIsPromised ==
    ~raced => \A b \in DOMAIN balance :
        /\ balance[b].held <= balance[b].hand
        /\ balance[b].held = SumFunctionOnSet(Quantity, OpenAt(b))

OnHand == [b \in DOMAIN balance |-> balance[b].hand]
IssuedOf(lines) == SumFunctionOnSet([i \in DOMAIN lines |-> lines[i].issued], DOMAIN lines)
IssuedBy == [r \in Requests |-> IssuedOf(mr[r].lines)]

\* Goods are neither lost nor made up: what came in is on hand or issued
\* (issue_material_request, return_material_request).
NothingLost ==
    came = SumFunctionOnSet(OnHand, DOMAIN balance) + SumFunctionOnSet(IssuedBy, Requests)

\* A request that is done with holds no stock back, provided its lines ask for
\* different parts: issue_material_request looks for one reservation per part, and of
\* two lines for the same part one keeps its reservation.
SettledHoldsNothing ==
    \A r \in Requests :
        /\ mr[r].status \in {"issued", "returned", "cancelled"}
        /\ \A i, j \in DOMAIN mr[r].lines : i # j => mr[r].lines[i].part # mr[r].lines[j].part
        => OpenRows(r) = {}

\* The lines as items of the abstract flow of goods: asked for, handed out, given back.
Asked == Requests \X (1 .. MaxLines)
There(x) == x[2] \in DOMAIN mr[x[1]].lines
Handing == INSTANCE OrderFlow WITH
    Items <- Asked,
    ordered <- [x \in Asked |-> IF There(x) THEN mr[x[1]].lines[x[2]].requested ELSE 0],
    delivered <- [x \in Asked |-> IF There(x) THEN mr[x[1]].lines[x[2]].issued ELSE 0],
    stored <- [x \in Asked |-> IF There(x) THEN mr[x[1]].lines[x[2]].returned ELSE 0]

\* A request is handed out no more than it asked for and gives back no more than it
\* was handed out, however often it is sent (OrderFlow, read for one request's lines).
ImplementsFlow == Handing!FlowSpec
=============================================================================

----------------------------- MODULE StockProofs -----------------------------
(***************************************************************************)
(* Proofs about Inventory, the balances of loose stock, and Components,    *)
(* the serialized parts, for every value of their constants.               *)
(*                                                                         *)
(* Inventory.  The inductive invariant adds to the properties what a       *)
(* request between its two steps still knows: applied to the rows it has   *)
(* READ, its changes keep every column at or above zero and keep reserved  *)
(* and units below on hand (SoundPlans); those rows still are what the     *)
(* table holds, unless the request has been overtaken there (FreshPlans);  *)
(* the reservation it has locked is still the one it worked out the new    *)
(* row from (LockedRows, OneHolder); and the quantity it is about to take  *)
(* off the promised column is what that reservation adds to it             *)
(* (BackedPlans).  That the column is the sum of the open reservations is  *)
(* then a matter of one term of a sum changing, see Sums.                  *)
(*                                                                         *)
(* Components.  One component per position, a history that agrees with the *)
(* rows, hours that are flown, no spent component on an aircraft: all from *)
(* what a request that holds the lock of a row is about to write (Fit).    *)
(***************************************************************************)
EXTENDS Inventory, Components, Sums, TLAPS

-----------------------------------------------------------------------------
(* Inventory                                                               *)

SoundPlan(q) ==
    \A p \in Places :
        Touches(q, p) =>
            /\ q.seen[p].hand + q.move[p] >= 0
            /\ q.seen[p].held + q.hold[p] >= 0
            /\ q.seen[p].lots + q.lots[p] >= 0
            /\ q.seen[p].held <= q.seen[p].hand =>
                  q.seen[p].held + q.hold[p] <= q.seen[p].hand + q.move[p]
            /\ q.seen[p].lots <= q.seen[p].hand =>
                  q.seen[p].lots + q.lots[p] <= q.seen[p].hand + q.move[p]

SoundPlans == \A w \in Workers :
    request[w] # Nothing =>
        SoundPlan(request[w]) /\ \A p \in Places : request[w].move[p] <= request[w].book[p]

FreshPlan(q) == \A p \in Places : Touches(q, p) /\ p \notin q.late => q.seen[p] = stock[p]

FreshPlans == \A w \in Workers : request[w] # Nothing => FreshPlan(request[w])

LockedRow(q) ==
    q.res # Nothing =>
        /\ reservation[q.res].spent + q.issue + q.row.qty = q.row.asked
        /\ q.row.status # "absent" /\ q.row.at \in Locations

LockedRows == \A w \in Workers : request[w] # Nothing => LockedRow(request[w])

OneHolder ==
    \A v, w \in Workers :
        request[v] # Nothing /\ request[w] # Nothing /\ request[v].res # Nothing
        /\ request[v].res = request[w].res => v = w

WellPlaced ==
    /\ \A r \in Reservations :
          IF reservation[r].status = "absent" THEN reservation[r].spent = 0
          ELSE reservation[r].at \in Locations
    /\ \A t \in Transfers :
          transfer[t].status # "absent" => transfer[t].from \in Locations
    /\ \A w \in Workers :
          request[w] # Nothing /\ request[w].transfer # Nothing =>
             transfer[request[w].transfer].from \in Locations

StockInv ==
    InvTypeOK /\ BalancesSound /\ UnitsAccounted /\ ReservationSpentOnce
    /\ SoundPlans /\ FreshPlans /\ LockedRows /\ OneHolder /\ WellPlaced

-----------------------------------------------------------------------------
(* What the handlers' arithmetic gives, of one balance.                    *)

\* A withdrawal that passes its test takes no more than there is, and no more
\* from the reserved column than is in it.
LEMMA WithdrawalSound ==
    ASSUME NEW row \in Rows, NEW qty \in Nat \ {0}, NEW credit \in {0, qty},
           CanWithdraw(row, qty, credit)
    PROVE  /\ UsedReserved(row, qty, credit) \in Nat
           /\ row.hand - qty >= 0
           /\ row.held - UsedReserved(row, qty, credit) >= 0
           /\ row.held <= row.hand =>
                 row.held - UsedReserved(row, qty, credit) <= row.hand - qty
BY DEF Rows, CanWithdraw, UsedReserved, Free, Lesser

\* A correction that passes its test leaves what is reserved on hand.
LEMMA AdjustmentSound ==
    ASSUME NEW row \in Rows, NEW delta \in Int, CanAdjust(row, delta)
    PROVE  row.hand + delta >= 0 /\ row.held <= row.hand + delta
BY DEF Rows, CanAdjust

\* A change of one balance is a change of every balance, by zero elsewhere.
LEMMA OnlyValues ==
    ASSUME NEW p \in Places, NEW n \in Int
    PROVE  /\ Only(p, n) \in [Places -> Int]
           /\ \A x \in Places : Only(p, n)[x] = IF x = p THEN n ELSE 0
BY DEF Only, NoChange

Changes == [move : [Places -> Int], lots : [Places -> Int], book : [Places -> Int]]

\* The units and the ledger follow the balance, as it stands.
SoundUnits(change) ==
    \A p \in Places :
        /\ stock[p].lots + change.lots[p] >= 0
        /\ stock[p].lots <= stock[p].hand =>
              stock[p].lots + change.lots[p] <= stock[p].hand + change.move[p]
        /\ change.move[p] <= change.book[p]

LEMMA NoChangeValues ==
    NoChange \in [Places -> Int] /\ \A x \in Places : NoChange[x] = 0
BY DEF NoChange

\* What goods-in, a withdrawal and a correction do to units and ledger is sound.
LEMMA PuttingSound ==
    ASSUME InvTypeOK, NEW p \in Places, NEW qty \in Nat
    PROVE  Putting(p, qty) \in Changes /\ SoundUnits(Putting(p, qty))
<1>1. Only(p, qty) \in [Places -> Int] /\ \A x \in Places : Only(p, qty)[x] = IF x = p THEN qty ELSE 0
  BY OnlyValues
<1>2. \A x \in Places : stock[x].lots \in Nat /\ stock[x].hand \in Nat
  BY DEF InvTypeOK, Rows
<1> QED BY <1>1, <1>2 DEF Putting, Changes, SoundUnits

LEMMA TakingSound ==
    ASSUME InvTypeOK, NEW take \in [Places -> Nat],
           \A p \in Places : take[p] <= stock[p].hand
    PROVE  /\ Taking(take) \in Changes /\ SoundUnits(Taking(take))
           /\ \A p \in Places : /\ Taking(take).move[p] = -take[p]
                                 /\ Taking(take).lots[p] = -Drawn(p, take[p])
                                 /\ Taking(take).book[p] = -Booked(p, take[p])
<1>1. \A p \in Places : stock[p].lots \in Nat /\ stock[p].hand \in Nat /\ take[p] \in Nat
  BY DEF InvTypeOK, Rows
<1>2. \A p \in Places : /\ Drawn(p, take[p]) \in Nat /\ Drawn(p, take[p]) <= stock[p].lots
                        /\ Drawn(p, take[p]) = stock[p].lots \/ Drawn(p, take[p]) = take[p]
                        /\ Booked(p, take[p]) \in Nat /\ Booked(p, take[p]) <= take[p]
  BY <1>1 DEF Drawn, Booked, Lesser
<1> QED BY <1>1, <1>2 DEF Taking, Changes, SoundUnits

LEMMA CorrectingSound ==
    ASSUME InvTypeOK, NEW delta \in [Places -> Int],
           \A p \in Places : stock[p].hand + delta[p] >= 0
    PROVE  /\ Correcting(delta) \in Changes /\ SoundUnits(Correcting(delta))
           /\ Correcting(delta).move = delta
<1>1. \A p \in Places : stock[p].lots \in Nat /\ stock[p].hand \in Nat /\ delta[p] \in Int
  BY DEF InvTypeOK, Rows
<1>2. \A p \in Places : delta[p] < 0 =>
          /\ Drawn(p, -delta[p]) \in Nat /\ Drawn(p, -delta[p]) <= stock[p].lots
          /\ Drawn(p, -delta[p]) = stock[p].lots \/ Drawn(p, -delta[p]) = -delta[p]
  BY <1>1 DEF Drawn, Lesser
<1> QED BY <1>1, <1>2 DEF Correcting, Changes, SoundUnits

LEMMA StayingSound ==
    ASSUME InvTypeOK
    PROVE  Staying \in Changes /\ SoundUnits(Staying) /\ Staying.move = NoChange
BY NoChangeValues DEF Staying, Changes, SoundUnits, InvTypeOK, Rows

\* A request that has been overtaken is the same request.
LEMMA OvertakenValues ==
    ASSUME NEW x \in RequestRecords, x # Nothing, NEW q
    PROVE  LET y == Overtaken(x, q)
           IN  /\ y \in RequestRecords
               /\ y.move = x.move /\ y.hold = x.hold /\ y.lots = x.lots /\ y.book = x.book
               /\ y.seen = x.seen /\ y.res = x.res /\ y.row = x.row /\ y.issue = x.issue
               /\ y.transfer = x.transfer
               /\ y.late = x.late \cup {p \in Places : Touches(q, p) /\ Touches(x, p)}
<1> DEFINE more == x.late \cup {p \in Places : Touches(q, p) /\ Touches(x, p)}
<1>1. Overtaken(x, q) = [x EXCEPT !.late = more]
  BY DEF Overtaken
<1>2. more \in SUBSET Places
  BY DEF RequestRecords
<1> HIDE DEF more
<1>3. /\ [x EXCEPT !.late = more] \in RequestRecords
      /\ [x EXCEPT !.late = more].late = more
  BY <1>2 DEF RequestRecords
<1> QED BY <1>1, <1>3 DEF RequestRecords, more

-----------------------------------------------------------------------------
(* The steps                                                               *)

LEMMA StockInit == InvInit => StockInv
PROOF
<1> SUFFICES ASSUME InvInit PROVE StockInv
  OBVIOUS
<1> USE DEF InvInit
<1>1. EmptyRow \in Rows /\ NoReservation \in ReservationRows /\ NoTransfer \in TransferRows
  BY DEF EmptyRow, Rows, NoReservation, ReservationRows, NoTransfer, TransferRows
<1>2. InvTypeOK
PROOF
  <2>1. stock \in [Places -> Rows] /\ ledger \in [Places -> Int]
    BY <1>1
  <2>2. /\ reservation \in [Reservations -> ReservationRows]
        /\ transfer \in [Transfers -> TransferRows]
    BY <1>1
  <2>3. request \in [Workers -> RequestRecords \cup {Nothing}] /\ stale \in BOOLEAN
    OBVIOUS
  <2> QED BY <2>1, <2>2, <2>3 DEF InvTypeOK
<1>3. BalancesSound /\ UnitsAccounted
  BY DEF BalancesSound, UnitsAccounted, EmptyRow
<1>4. ReservationSpentOnce /\ WellPlaced
  BY DEF ReservationSpentOnce, WellPlaced, NoReservation, NoTransfer
<1>5. SoundPlans /\ FreshPlans /\ LockedRows /\ OneHolder
  BY DEF SoundPlans, FreshPlans, LockedRows, OneHolder
<1> QED BY <1>2, <1>3, <1>4, <1>5 DEF StockInv

\* The changes a request may start with are sound of the rows as they stand.
SoundChange(move, hold) ==
    \A p \in Places :
        move[p] # 0 \/ hold[p] # 0 =>
            /\ stock[p].hand + move[p] >= 0
            /\ stock[p].held + hold[p] >= 0
            /\ stock[p].held <= stock[p].hand =>
                  stock[p].held + hold[p] <= stock[p].hand + move[p]

LEMMA StartKeeps ==
    ASSUME StockInv,
           NEW w \in Workers, NEW change \in Changes, NEW hold \in [Places -> Int],
           NEW r \in Reservations \cup {Nothing}, NEW row \in ReservationRows,
           NEW issue \in Nat, NEW t \in Transfers \cup {Nothing},
           SoundChange(change.move, hold), SoundUnits(change),
           r # Nothing => /\ ~ReservationLocked(r)
                          /\ reservation[r].spent + issue + row.qty = row.asked
                          /\ row.status # "absent" /\ row.at \in Locations,
           t # Nothing => transfer[t].from \in Locations,
           Start(w, change, hold, r, row, issue, t)
    PROVE  StockInv'
PROOF
<1> DEFINE seen == [p \in Places |-> IF Moves(change, hold, p) THEN stock[p] ELSE EmptyRow]
           q == [move |-> change.move, hold |-> hold, lots |-> change.lots,
                 book |-> change.book, seen |-> seen,
                 late |-> {}, res |-> r, row |-> row, issue |-> issue, transfer |-> t]
<1>1. /\ request[w] = Nothing
      /\ request' = [request EXCEPT ![w] = q]
      /\ UNCHANGED <<stock, ledger, reservation, transfer, stale>>
  BY DEF Start
<1>2. /\ change.move \in [Places -> Int] /\ change.lots \in [Places -> Int]
      /\ change.book \in [Places -> Int]
      /\ seen \in [Places -> Rows] /\ \A p \in Places : stock[p] \in Rows
  BY DEF Changes, StockInv, InvTypeOK, Rows, EmptyRow
<1>3. \A v \in Workers : request'[v] = IF v = w THEN q ELSE request[v]
  BY <1>1 DEF StockInv, InvTypeOK
<1>4. q \in RequestRecords
  <2> HIDE DEF seen
  <2> QED BY <1>2 DEF RequestRecords
<1>5. SoundPlan(q) /\ FreshPlan(q) /\ \A p \in Places : q.move[p] <= q.book[p]
  <2>1. \A p \in Places : Touches(q, p) => seen[p] = stock[p]
    BY DEF Touches, Moves
  <2>2. ASSUME NEW p \in Places
        PROVE  /\ stock[p].hand + change.move[p] >= 0
               /\ stock[p].held + hold[p] >= 0
               /\ stock[p].held <= stock[p].hand =>
                     stock[p].held + hold[p] <= stock[p].hand + change.move[p]
    BY <1>2 DEF SoundChange, Rows
  <2> HIDE DEF seen
  <2> QED BY ZenonT(60), <2>1, <2>2 DEF SoundPlan, FreshPlan, SoundUnits
<1> HIDE DEF q
<1>6. LockedRow(q) /\ q.res = r /\ q.transfer = t
  BY DEF q, LockedRow
<1>7. InvTypeOK'
  BY <1>1, <1>4 DEF StockInv, InvTypeOK
<1>8. SoundPlans' /\ FreshPlans' /\ LockedRows'
  BY <1>1, <1>3, <1>5, <1>6 DEF StockInv, SoundPlans, FreshPlans, LockedRows, SoundPlan, FreshPlan,
                                LockedRow, Touches
<1>9. OneHolder'
  BY <1>1, <1>3, <1>6 DEF StockInv, OneHolder, ReservationLocked, Running
<1>10. BalancesSound' /\ UnitsAccounted' /\ ReservationSpentOnce' /\ WellPlaced'
  BY <1>1, <1>3, <1>6 DEF StockInv, BalancesSound, UnitsAccounted, ReservationSpentOnce, WellPlaced
<1> QED BY <1>7, <1>8, <1>9, <1>10 DEF StockInv

\* A request that only moves stock, and touches no reservation.
LEMMA StartMoveKeeps ==
    ASSUME StockInv, NEW w \in Workers, NEW change \in Changes,
           NEW t \in Transfers \cup {Nothing},
           SoundChange(change.move, NoChange), SoundUnits(change),
           t # Nothing => transfer[t].from \in Locations,
           Start(w, change, NoChange, Nothing, NoReservation, 0, t)
    PROVE  StockInv'
PROOF
<1>1. NoReservation \in ReservationRows
  BY DEF NoReservation, ReservationRows
<1> QED BY <1>1, StartKeeps, NoChangeValues

LEMMA ReceiveKeeps ==
    ASSUME StockInv, NEW w \in Workers, NEW p \in Places, NEW qty \in Quantities,
           Receive(w, p, qty)
    PROVE  StockInv'
PROOF
<1>1. qty \in Nat \ {0}
  BY InventoryAssumption
<1>2. Putting(p, qty) \in Changes /\ SoundUnits(Putting(p, qty)) /\ Putting(p, qty).move = Only(p, qty)
  BY <1>1, PuttingSound DEF StockInv, Putting
<1>3. SoundChange(Only(p, qty), NoChange)
  BY <1>1, OnlyValues, NoChangeValues DEF SoundChange, StockInv, InvTypeOK, Rows
<1> QED BY <1>2, <1>3, StartMoveKeeps DEF Receive, StartMove

\* What a withdrawal without reservation reads and passes makes it sound.
LEMMA PlainWithdrawal ==
    ASSUME StockInv, NEW p \in Places, NEW qty \in Nat, CanWithdraw(stock[p], qty, 0)
    PROVE  LET change == Taking(Only(p, qty))
           IN  /\ change \in Changes /\ SoundUnits(change)
               /\ SoundChange(change.move, NoChange)
               /\ \A x \in Places : change.move[x] = IF x = p THEN -qty ELSE 0
PROOF
<1> DEFINE take == Only(p, qty)
           change == Taking(take)
<1>1. /\ take \in [Places -> Nat] /\ \A x \in Places : take[x] = IF x = p THEN qty ELSE 0
  BY OnlyValues DEF Only, NoChange
<1>2. \A x \in Places : stock[x] \in Rows
  BY DEF StockInv, InvTypeOK
<1>3. qty <= stock[p].hand - stock[p].held /\ stock[p].held \in Nat /\ stock[p].hand \in Nat
  BY <1>2 DEF CanWithdraw, Free, Lesser, Rows
<1> HIDE DEF take
<1>4. \A x \in Places : take[x] <= stock[x].hand
  BY <1>1, <1>2, <1>3 DEF Rows
<1>5. /\ change \in Changes /\ SoundUnits(change)
      /\ \A x \in Places : change.move[x] = IF x = p THEN -qty ELSE 0
  BY <1>1, <1>4, TakingSound DEF StockInv
<1> HIDE DEF change
<1>6. SoundChange(change.move, NoChange)
  BY <1>2, <1>3, <1>5, NoChangeValues DEF SoundChange, Rows
<1> QED BY <1>5, <1>6 DEF change, take

LEMMA WithdrawKeeps ==
    ASSUME StockInv, NEW w \in Workers, NEW p \in Places, NEW qty \in Quantities,
           Withdraw(w, p, qty)
    PROVE  StockInv'
PROOF
<1>1. qty \in Nat
  BY InventoryAssumption
<1> QED BY <1>1, PlainWithdrawal, StartMoveKeeps DEF Withdraw, StartMove

LEMMA ScrapUnitKeeps ==
    ASSUME StockInv, NEW w \in Workers, NEW p \in Places, NEW qty \in Quantities,
           NEW at \in Places, NEW rest \in Quantities, ScrapUnit(w, p, qty, at, rest)
    PROVE  StockInv'
PROOF
<1> DEFINE take == Taking(Only(p, qty))
           change == [take EXCEPT !.lots[at] = @ - rest]
<1>1. qty \in Nat /\ rest \in Nat
  BY InventoryAssumption
<1>2. CanWithdraw(stock[p], qty, 0) /\ stock[at].lots + take.lots[at] >= rest /\ StartMove(w, change)
  BY DEF ScrapUnit
<1>3. take \in Changes /\ SoundUnits(take) /\ SoundChange(take.move, NoChange)
  BY <1>1, <1>2, PlainWithdrawal
<1> HIDE DEF take
<1>4. /\ change \in Changes /\ change.move = take.move /\ change.book = take.book
      /\ \A x \in Places : change.lots[x] = IF x = at THEN take.lots[at] - rest ELSE take.lots[x]
  BY <1>1, <1>3 DEF Changes
<1> HIDE DEF change
<1>5. SoundUnits(change)
  BY <1>1, <1>2, <1>3, <1>4 DEF SoundUnits, Changes, StockInv, InvTypeOK, Rows
<1> QED BY <1>2, <1>3, <1>4, <1>5, StartMoveKeeps DEF StartMove

LEMMA IssueAnywhereKeeps ==
    ASSUME StockInv, NEW w \in Workers, NEW condition \in Conditions, NEW qty \in Quantities,
           IssueAnywhere(w, condition, qty)
    PROVE  StockInv'
PROOF
<1>1. PICK take \in Draws(condition, qty) : StartMove(w, Taking(take))
  BY DEF IssueAnywhere
<1>2. /\ take \in [Places -> 0..qty] /\ qty \in Nat
      /\ \A p \in Places : take[p] > 0 => take[p] <= stock[p].hand - stock[p].held
  BY <1>1, InventoryAssumption DEF Draws, Free
<1>3. \A p \in Places : stock[p].hand \in Nat /\ stock[p].held \in Nat /\ take[p] \in Nat
  BY <1>2 DEF StockInv, InvTypeOK, Rows
<1>4. take \in [Places -> Nat] /\ \A p \in Places : take[p] <= stock[p].hand
  BY <1>2, <1>3
<1> DEFINE change == Taking(take)
<1>5. /\ change \in Changes /\ SoundUnits(change)
      /\ \A p \in Places : change.move[p] = -take[p]
  BY <1>4, TakingSound DEF StockInv
<1> HIDE DEF change
<1>6. SoundChange(change.move, NoChange)
  BY <1>2, <1>3, <1>5, NoChangeValues DEF SoundChange
<1> QED BY <1>1, <1>5, <1>6, StartMoveKeeps DEF StartMove, change

LEMMA IssueReservedKeeps ==
    ASSUME StockInv, NEW w \in Workers, NEW r \in Reservations,
           NEW condition \in Conditions, NEW qty \in Quantities,
           IssueReserved(w, r, condition, qty)
    PROVE  StockInv'
PROOF
<1> DEFINE old == reservation[r]
           p == <<old.at, condition>>
           left == old.qty - qty
           used == UsedReserved(stock[p], qty, qty)
           row == [old EXCEPT !.qty = left, !.status = IF left = 0 THEN "issued" ELSE "open"]
<1>1. /\ ~ReservationLocked(r) /\ old.status = "open" /\ qty <= old.qty /\ p \in Places
      /\ CanWithdraw(stock[p], qty, qty)
      /\ Start(w, Taking(Only(p, qty)), Only(p, -used), r, row, qty, Nothing)
  BY DEF IssueReserved
<1>2. qty \in Nat \ {0} /\ -qty \in Int
  BY InventoryAssumption
<1>3. /\ old \in ReservationRows /\ stock[p] \in Rows /\ old.spent + old.qty = old.asked
      /\ old.at \in Locations
  BY <1>1 DEF StockInv, InvTypeOK, ReservationSpentOnce, WellPlaced
<1>4. /\ left \in Nat /\ row \in ReservationRows /\ row.qty = left /\ row.asked = old.asked
      /\ row.status # "absent" /\ row.at \in Locations
  <2>1. left \in Nat
    BY <1>1, <1>2, <1>3 DEF ReservationRows
  <2> DEFINE after == IF left = 0 THEN "issued" ELSE "open"
  <2>2. after \in {"issued", "open"}
    OBVIOUS
  <2> HIDE DEF left, after, old
  <2>3. row = [old EXCEPT !.qty = left, !.status = after]
    BY DEF after
  <2> QED BY <1>3, <2>1, <2>2, <2>3 DEF ReservationRows
<1>5. /\ used \in Nat /\ -used \in Int
      /\ stock[p].hand - qty >= 0 /\ stock[p].held - used >= 0
      /\ stock[p].held <= stock[p].hand => stock[p].held - used <= stock[p].hand - qty
  BY <1>1, <1>2, <1>3, WithdrawalSound
<1>6. old.spent + qty + row.qty = row.asked
  BY <1>2, <1>3, <1>4 DEF ReservationRows
<1>7. r # Nothing
  BY InventoryAssumption
<1> DEFINE change == Taking(Only(p, qty))
<1> HIDE DEF old, p, left, used, row
<1>8. /\ change \in Changes /\ SoundUnits(change)
      /\ \A x \in Places : change.move[x] = IF x = p THEN -qty ELSE 0
PROOF
  <2>1. /\ Only(p, qty) \in [Places -> Nat]
        /\ \A x \in Places : Only(p, qty)[x] = IF x = p THEN qty ELSE 0
    BY <1>1, <1>2, OnlyValues DEF Only, NoChange
  <2>2. \A x \in Places : Only(p, qty)[x] <= stock[x].hand
    BY <1>2, <1>3, <1>5, <2>1 DEF StockInv, InvTypeOK, Rows
  <2> QED BY <2>1, <2>2, TakingSound DEF StockInv
<1> HIDE DEF change
<1>9. SoundChange(change.move, Only(p, -used)) /\ Only(p, -used) \in [Places -> Int]
PROOF
  <2>1. /\ Only(p, -used) \in [Places -> Int]
        /\ \A x \in Places : Only(p, -used)[x] = IF x = p THEN -used ELSE 0
    BY <1>1, <1>5, OnlyValues
  <2> QED BY <1>2, <1>3, <1>5, <1>8, <2>1 DEF SoundChange, Rows
<1>10. reservation[r].spent + qty + row.qty = row.asked
  BY <1>6 DEF old
<1> QED BY <1>1, <1>2, <1>4, <1>8, <1>9, <1>10, StartKeeps DEF change

LEMMA AdjustKeeps ==
    ASSUME StockInv, NEW w \in Workers, NEW p \in Places, NEW delta \in Int,
           Adjust(w, p, delta)
    PROVE  StockInv'
PROOF
<1>1. stock[p] \in Rows
  BY DEF StockInv, InvTypeOK
<1>2. stock[p].hand + delta >= 0 /\ stock[p].held <= stock[p].hand + delta
  BY <1>1, AdjustmentSound DEF Adjust
<1>3. /\ Only(p, delta) \in [Places -> Int]
      /\ \A x \in Places : Only(p, delta)[x] = IF x = p THEN delta ELSE 0
  BY OnlyValues
<1>4. /\ SoundChange(Only(p, delta), NoChange)
      /\ \A x \in Places : stock[x].hand + Only(p, delta)[x] >= 0
  BY <1>1, <1>2, <1>3, NoChangeValues DEF SoundChange, StockInv, InvTypeOK, Rows
<1> DEFINE change == Correcting(Only(p, delta))
<1>5. change \in Changes /\ SoundUnits(change) /\ change.move = Only(p, delta)
  BY <1>3, <1>4, CorrectingSound DEF StockInv
<1> HIDE DEF change
<1> QED BY <1>4, <1>5, StartMoveKeeps DEF Adjust, StartMove, change

LEMMA BulkAdjustKeeps ==
    ASSUME StockInv, NEW w \in Workers, NEW lines \in BulkLines, BulkAdjust(w, lines)
    PROVE  StockInv'
PROOF
<1> DEFINE move == [p \in Places |-> IF CanAdjust(stock[p], lines[p]) THEN lines[p] ELSE 0]
<1>1. lines \in [Places -> Int] /\ \A p \in Places : stock[p] \in Rows
  BY InventoryAssumption DEF StockInv, InvTypeOK
<1>2. move \in [Places -> Int]
  BY <1>1
<1>3. \A p \in Places : move[p] # 0 =>
          stock[p].hand + move[p] >= 0 /\ stock[p].held <= stock[p].hand + move[p]
  BY <1>1, AdjustmentSound
<1>4. StartMove(w, Correcting(move))
  BY DEF BulkAdjust
<1> HIDE DEF move
<1>5. SoundChange(move, NoChange) /\ \A p \in Places : stock[p].hand + move[p] >= 0
  BY <1>1, <1>2, <1>3, NoChangeValues DEF SoundChange, Rows
<1> DEFINE change == Correcting(move)
<1>6. change \in Changes /\ SoundUnits(change) /\ change.move = move
  BY <1>2, <1>5, CorrectingSound DEF StockInv
<1> HIDE DEF change
<1> QED BY <1>4, <1>5, <1>6, StartMoveKeeps DEF StartMove, change

LEMMA ReserveKeeps ==
    ASSUME StockInv, NEW w \in Workers, NEW r \in Reservations, NEW l \in Locations,
           NEW qty \in Quantities, Reserve(w, r, l, qty)
    PROVE  StockInv'
PROOF
<1> DEFINE p == Serviceable(l)
           row == [status |-> "open", at |-> l, qty |-> qty, asked |-> qty, spent |-> 0]
<1>1. /\ reservation[r].status = "absent" /\ ~ReservationLocked(r)
      /\ stock[p].hand - stock[p].held >= qty
      /\ Start(w, Staying, Only(p, qty), r, row, 0, Nothing)
  BY DEF Reserve, Free
<1>2. qty \in Nat \ {0} /\ p \in Places
  BY InventoryAssumption
<1>3. /\ row \in ReservationRows /\ row.qty = qty /\ row.asked = qty
      /\ row.status # "absent" /\ row.at \in Locations
  BY <1>2 DEF ReservationRows
<1>4. reservation[r].spent = 0
  BY <1>1 DEF StockInv, WellPlaced
<1> HIDE DEF p, row
<1>5. SoundChange(NoChange, Only(p, qty)) /\ Only(p, qty) \in [Places -> Int]
  BY <1>1, <1>2, OnlyValues, NoChangeValues DEF SoundChange, StockInv, InvTypeOK, Rows
<1>6. Staying \in Changes /\ SoundUnits(Staying) /\ Staying.move = NoChange
  BY StayingSound DEF StockInv
<1> QED BY <1>1, <1>2, <1>3, <1>4, <1>5, <1>6, StartKeeps

LEMMA ReleaseKeeps ==
    ASSUME StockInv, NEW w \in Workers, NEW r \in Reservations, Release(w, r)
    PROVE  StockInv'
PROOF
<1> DEFINE p == Serviceable(reservation[r].at)
           back == Lesser(Remaining(r), stock[p].held)
           row == [reservation[r] EXCEPT !.status = "released"]
<1>1. /\ reservation[r].status = "open" /\ ~ReservationLocked(r)
      /\ Start(w, Staying, Only(p, -back), r, row, 0, Nothing)
  BY DEF Release
<1>2. reservation[r] \in ReservationRows /\ reservation[r].at \in Locations
  BY <1>1 DEF StockInv, InvTypeOK, WellPlaced
<1>3. /\ row \in ReservationRows /\ row.qty = reservation[r].qty
      /\ reservation[r].spent + 0 + row.qty = row.asked
      /\ row.status # "absent" /\ row.at \in Locations
  BY <1>2 DEF ReservationRows, StockInv, ReservationSpentOnce
<1>4. p \in Places /\ stock[p] \in Rows
  BY <1>2, InventoryAssumption DEF StockInv, InvTypeOK
<1>5. back \in Nat /\ -back \in Int /\ stock[p].held - back >= 0
  BY <1>2, <1>4 DEF Lesser, Remaining, ReservationRows, Rows
<1> HIDE DEF p, back, row
<1>6. SoundChange(NoChange, Only(p, -back)) /\ Only(p, -back) \in [Places -> Int]
  BY <1>4, <1>5, OnlyValues, NoChangeValues DEF SoundChange, Rows
<1>7. Staying \in Changes /\ SoundUnits(Staying) /\ Staying.move = NoChange
  BY StayingSound DEF StockInv
<1> QED BY <1>1, <1>3, <1>6, <1>7, StartKeeps

LEMMA CreateTransferKeeps ==
    ASSUME StockInv, NEW t \in Transfers, NEW from \in Locations, NEW qty \in Quantities,
           CreateTransfer(t, from, qty)
    PROVE  StockInv'
PROOF
<1>1. [status |-> "in_transit", from |-> from, qty |-> qty] \in TransferRows
  BY InventoryAssumption DEF TransferRows
<1>2. InvTypeOK'
  BY <1>1 DEF CreateTransfer, StockInv, InvTypeOK
<1>3. /\ BalancesSound' /\ UnitsAccounted' /\ ReservationSpentOnce' /\ WellPlaced'
      /\ OneHolder'
  BY DEF CreateTransfer, StockInv, InvTypeOK, BalancesSound, UnitsAccounted, ReservationSpentOnce,
         WellPlaced, OneHolder
<1>4. SoundPlans' /\ FreshPlans' /\ LockedRows'
  BY DEF CreateTransfer, StockInv, SoundPlans, FreshPlans, LockedRows, SoundPlan, FreshPlan,
         LockedRow, Touches
<1> QED BY <1>2, <1>3, <1>4 DEF StockInv

LEMMA CompleteTransferKeeps ==
    ASSUME StockInv, NEW w \in Workers, NEW t \in Transfers, NEW to \in Locations,
           CompleteTransfer(w, t, to)
    PROVE  StockInv'
PROOF
<1> DEFINE qty == transfer[t].qty
           source == Serviceable(transfer[t].from)
           target == Serviceable(to)
           out == Taking(Only(source, qty))
           change == Carrying(source, target, qty)
<1>1. /\ transfer[t].status = "in_transit" /\ CanWithdraw(stock[source], qty, 0)
      /\ Start(w, change, NoChange, Nothing, NoReservation, 0, t)
  BY DEF CompleteTransfer
<1>2. transfer[t].from \in Locations /\ qty \in Nat
  BY <1>1 DEF StockInv, InvTypeOK, WellPlaced, TransferRows
<1>3. source \in Places /\ target \in Places
  BY <1>2, InventoryAssumption
<1> HIDE DEF qty, source, target
<1>4. out \in Changes /\ SoundUnits(out) /\ SoundChange(out.move, NoChange)
  BY <1>1, <1>2, <1>3, PlainWithdrawal
<1> HIDE DEF out
<1>5. /\ change \in Changes /\ change.lots = out.lots
      /\ \A x \in Places :
            /\ change.move[x] = IF x = target THEN out.move[x] + qty ELSE out.move[x]
            /\ change.book[x] = IF x = target THEN out.book[x] + qty ELSE out.book[x]
  <2> DEFINE taken == [out.move EXCEPT ![target] = @ + qty]
             booked == [out.book EXCEPT ![target] = @ + qty]
  <2>1. /\ out.move \in [Places -> Int] /\ out.lots \in [Places -> Int]
        /\ out.book \in [Places -> Int]
        /\ out = [move |-> out.move, lots |-> out.lots, book |-> out.book]
    BY <1>4 DEF Changes
  <2>2. change = [move |-> taken, lots |-> out.lots, book |-> booked]
    BY DEF Carrying, out
  <2>3. change.move = taken /\ change.lots = out.lots /\ change.book = booked
    BY <2>2
  <2> HIDE DEF change
  <2>4. taken \in [Places -> Int] /\ booked \in [Places -> Int]
    BY <1>2, <1>3, <2>1
  <2>5. change \in Changes
    <3> HIDE DEF taken, booked
    <3> QED BY <2>1, <2>2, <2>4 DEF Changes
  <2>6. \A x \in Places :
            /\ taken[x] = IF x = target THEN out.move[x] + qty ELSE out.move[x]
            /\ booked[x] = IF x = target THEN out.book[x] + qty ELSE out.book[x]
    BY <1>3, <2>1
  <2> QED BY <2>3, <2>5, <2>6
<1> HIDE DEF change
<1>6. \A x \in Places : /\ stock[x] \in Rows /\ out.move[x] \in Int /\ out.lots[x] \in Int
                        /\ out.book[x] \in Int
  BY <1>4 DEF Changes, StockInv, InvTypeOK
<1>7. SoundUnits(change)
  BY <1>2, <1>4, <1>5, <1>6 DEF SoundUnits, Rows
<1>8. SoundChange(change.move, NoChange)
  BY <1>2, <1>4, <1>5, <1>6, NoChangeValues DEF SoundChange, Rows
<1> QED BY <1>1, <1>2, <1>5, <1>7, <1>8, StartMoveKeeps

LEMMA AbortKeeps ==
    ASSUME StockInv, NEW w \in Workers, Abort(w)
    PROVE  StockInv'
PROOF
<1>1. \A v \in Workers : request'[v] = IF v = w THEN Nothing ELSE request[v]
  BY DEF Abort, StockInv, InvTypeOK
<1>2. InvTypeOK'
  BY DEF Abort, StockInv, InvTypeOK
<1>3. BalancesSound' /\ UnitsAccounted' /\ ReservationSpentOnce' /\ WellPlaced'
  BY <1>1 DEF Abort, StockInv, BalancesSound, UnitsAccounted, ReservationSpentOnce, WellPlaced
<1>4. SoundPlans' /\ FreshPlans' /\ LockedRows' /\ OneHolder'
  BY <1>1 DEF Abort, StockInv, SoundPlans, FreshPlans, LockedRows, OneHolder, SoundPlan, FreshPlan,
              LockedRow, Touches
<1> QED BY <1>2, <1>3, <1>4 DEF StockInv

LEMMA CommitKeeps ==
    ASSUME StockInv, NEW w \in Workers, Commit(w)
    PROVE  StockInv'
PROOF
<1> DEFINE q == request[w]
<1>0. PICK left \in [q.late -> 0..MaxOnHand] : stock' = [p \in Places |-> Written(q, p, left)]
  BY DEF Commit
<1>1. /\ q # Nothing /\ q \in RequestRecords /\ SoundPlan(q) /\ FreshPlan(q) /\ LockedRow(q)
      /\ \A p \in Places : q.move[p] <= q.book[p]
  BY DEF Commit, StockInv, InvTypeOK, SoundPlans, FreshPlans, LockedRows
<1>2. \A v \in Workers : request'[v] = IF v = w THEN Nothing ELSE Overtaken(request[v], q)
  BY DEF Commit
<1>3. ASSUME NEW p \in Places PROVE Written(q, p, left) \in Rows
  <2>1. /\ stock[p] \in Rows /\ q.seen[p] \in Rows /\ q.move[p] \in Int /\ q.hold[p] \in Int
        /\ q.lots[p] \in Int
    BY <1>1 DEF StockInv, InvTypeOK, RequestRecords
  <2>2. p \in q.late => left[p] \in Nat
    BY <1>0, InventoryAssumption
  <2>3. p \notin q.late /\ q.lots[p] # 0 => stock[p].lots + q.lots[p] >= 0
    BY <1>1 DEF FreshPlan, SoundPlan, Touches
  <2>4. (IF p \in q.late /\ q.lots[p] < 0 THEN left[p] ELSE stock[p].lots + q.lots[p]) \in Nat
    BY <2>1, <2>2, <2>3 DEF Rows
  <2>5. /\ (IF q.move[p] = 0 THEN stock[p].hand ELSE q.seen[p].hand + q.move[p]) \in Nat
        /\ (IF q.hold[p] = 0 THEN stock[p].held ELSE q.seen[p].held + q.hold[p]) \in Nat
    BY <1>1, <2>1 DEF SoundPlan, Touches, Rows
  <2> QED BY <2>4, <2>5 DEF Written, Rows
<1>4. /\ stock' = [p \in Places |-> Written(q, p, left)]
      /\ ledger' = [p \in Places |-> ledger[p] + q.book[p]]
      /\ stale' = (stale \/ q.late # {})
  BY <1>0 DEF Commit
<1>20. ASSUME NEW v \in Workers, request'[v] # Nothing
      PROVE  /\ v # w /\ request[v] # Nothing /\ request[v] \in RequestRecords
             /\ request'[v] = Overtaken(request[v], q)
  BY <1>2, <1>20 DEF Overtaken, StockInv, InvTypeOK
<1>5. \A r \in Reservations : reservation'[r] =
          IF r = q.res THEN [q.row EXCEPT !.spent = reservation[q.res].spent + q.issue]
          ELSE reservation[r]
  BY InventoryAssumption DEF Commit, StockInv, InvTypeOK
<1>6. reservation' \in [Reservations -> ReservationRows]
  <2>1. CASE q.res = Nothing
    BY <2>1 DEF Commit, StockInv, InvTypeOK
  <2>2. CASE q.res # Nothing
    <3> DEFINE spent == reservation[q.res].spent + q.issue
    <3>1. q.res \in Reservations /\ q.row \in ReservationRows /\ spent \in Nat
      BY <1>1, <2>2 DEF RequestRecords, StockInv, InvTypeOK, ReservationRows
    <3>2. reservation' = [reservation EXCEPT ![q.res] = [q.row EXCEPT !.spent = spent]]
      BY <2>2 DEF Commit
    <3> HIDE DEF q, spent
    <3>3. [q.row EXCEPT !.spent = spent] \in ReservationRows
      BY <3>1 DEF ReservationRows
    <3> QED BY <3>1, <3>2, <3>3 DEF StockInv, InvTypeOK
  <2> QED BY <2>1, <2>2
<1>7. /\ transfer' \in [Transfers -> TransferRows]
      /\ \A t \in Transfers :
            /\ transfer'[t].from = transfer[t].from
            /\ t # q.transfer => transfer'[t].status = transfer[t].status
  BY SMTT(30), <1>1 DEF Commit, StockInv, InvTypeOK, TransferRows, RequestRecords
<1>8. InvTypeOK'
  <2>1. stock' \in [Places -> Rows] /\ ledger' \in [Places -> Int]
    BY <1>1, <1>3, <1>4 DEF StockInv, InvTypeOK, RequestRecords
  <2>2. request' \in [Workers -> RequestRecords \cup {Nothing}]
    <3>1. \A v \in Workers : request'[v] \in RequestRecords \cup {Nothing}
      BY <1>20, OvertakenValues
    <3>2. request' = [v \in Workers |-> request'[v]]
      BY DEF Commit
    <3> QED BY <3>1, <3>2
  <2>3. stale' \in BOOLEAN
    BY <1>4 DEF StockInv, InvTypeOK
  <2> QED BY <1>6, <1>7, <2>1, <2>2, <2>3 DEF InvTypeOK
<1>9. BalancesSound' /\ UnitsAccounted'
  <2> SUFFICES ASSUME ~stale', NEW p \in Places
               PROVE  /\ stock'[p].held <= stock'[p].hand /\ stock'[p].lots <= stock'[p].hand
                      /\ stock'[p].hand <= ledger'[p]
    BY DEF BalancesSound, UnitsAccounted
  <2>1. ~stale /\ q.late = {} /\ (Touches(q, p) => q.seen[p] = stock[p])
    BY <1>1, <1>4 DEF FreshPlan
  <2>2. /\ stock[p].held <= stock[p].hand /\ stock[p].lots <= stock[p].hand
        /\ stock[p].hand <= ledger[p] /\ ledger[p] \in Int /\ stock[p] \in Rows
        /\ q.move[p] \in Int /\ q.hold[p] \in Int /\ q.lots[p] \in Int /\ q.book[p] \in Int
        /\ q.move[p] <= q.book[p]
    BY <1>1, <2>1 DEF StockInv, BalancesSound, UnitsAccounted, InvTypeOK, RequestRecords
  <2>3. /\ stock'[p].hand = stock[p].hand + q.move[p]
        /\ stock'[p].held = stock[p].held + q.hold[p]
        /\ stock'[p].lots = stock[p].lots + q.lots[p]
        /\ ledger'[p] = ledger[p] + q.book[p]
    <3>1. stock'[p] = Written(q, p, left) /\ ledger'[p] = ledger[p] + q.book[p]
      BY <1>4
    <3>2. /\ q.move[p] # 0 \/ q.hold[p] # 0 => q.seen[p] = stock[p]
          /\ p \notin q.late
      BY <2>1 DEF Touches
    <3>3. stock[p].hand \in Nat /\ stock[p].held \in Nat
      BY <2>2 DEF Rows
    <3> HIDE DEF q
    <3>4. Written(q, p, left).hand = stock[p].hand + q.move[p]
      BY <2>2, <3>2, <3>3 DEF Written
    <3>5. Written(q, p, left).held = stock[p].held + q.hold[p]
      BY <2>2, <3>2, <3>3 DEF Written
    <3>6. Written(q, p, left).lots = stock[p].lots + q.lots[p]
      BY <3>2 DEF Written
    <3> QED BY <3>1, <3>4, <3>5, <3>6
  <2>4. CASE Touches(q, p)
    <3>1. /\ stock[p].held + q.hold[p] <= stock[p].hand + q.move[p]
          /\ stock[p].lots + q.lots[p] <= stock[p].hand + q.move[p]
      BY <1>1, <2>1, <2>2, <2>4 DEF SoundPlan
    <3> HIDE DEF q
    <3> QED BY <2>2, <2>3, <3>1 DEF Rows
  <2>5. CASE ~Touches(q, p)
    <3>1. q.move[p] = 0 /\ q.hold[p] = 0 /\ q.lots[p] = 0
      BY <2>5 DEF Touches
    <3> HIDE DEF q
    <3> QED BY <2>2, <2>3, <3>1 DEF Rows
  <2> QED BY <2>4, <2>5
<1>10. \A r \in Reservations : r = q.res =>
          /\ reservation'[r].spent = reservation[r].spent + q.issue
          /\ reservation'[r].qty = q.row.qty /\ reservation'[r].asked = q.row.asked
          /\ reservation'[r].status = q.row.status /\ reservation'[r].at = q.row.at
  BY <1>1, <1>5 DEF RequestRecords, ReservationRows
<1>11. ReservationSpentOnce' /\ WellPlaced'
  <2>1. \A r \in Reservations : r = q.res => q.res # Nothing
    BY InventoryAssumption
  <2>2. \A r \in Reservations : r # q.res => reservation'[r] = reservation[r]
    BY <1>5
  <2>3. ASSUME NEW r \in Reservations, r = q.res
        PROVE  /\ reservation'[r].spent + reservation'[r].qty = reservation'[r].asked
               /\ reservation'[r].status # "absent" /\ reservation'[r].at \in Locations
    <3>1. /\ reservation[r].spent \in Nat /\ q.issue \in Nat /\ q.row.qty \in Nat
          /\ reservation[r].spent + q.issue + q.row.qty = q.row.asked
          /\ q.row.status # "absent" /\ q.row.at \in Locations
      BY <1>1, <2>1, <2>3 DEF LockedRow, StockInv, InvTypeOK, RequestRecords, ReservationRows
    <3> QED BY <1>10, <2>3, <3>1
  <2>4. ReservationSpentOnce'
    BY <2>2, <2>3 DEF StockInv, ReservationSpentOnce
  <2>5. \A r \in Reservations :
           IF reservation'[r].status = "absent" THEN reservation'[r].spent = 0
           ELSE reservation'[r].at \in Locations
    BY <2>2, <2>3 DEF StockInv, WellPlaced
  <2>6. \A t \in Transfers : transfer'[t].status # "absent" => transfer'[t].from \in Locations
    BY <1>1, <1>7, InventoryAssumption DEF StockInv, WellPlaced
  <2>7. \A v \in Workers : request'[v] # Nothing /\ request'[v].transfer # Nothing =>
           transfer'[request'[v].transfer].from \in Locations
    BY SMTT(30), <1>20, <1>7, OvertakenValues DEF StockInv, RequestRecords, WellPlaced
  <2> QED BY <2>4, <2>5, <2>6, <2>7 DEF WellPlaced
<1>12. SoundPlans' /\ OneHolder'
  <2>1. ASSUME NEW v \in Workers, request'[v] # Nothing
        PROVE  SoundPlan(request[v])' /\ \A p \in Places : request'[v].move[p] <= request'[v].book[p]
    <3>1. request[v] # Nothing /\ request[v] \in RequestRecords /\ request'[v] = Overtaken(request[v], q)
      BY <1>20, <2>1
    <3>2. /\ SoundPlan(request[v])
          /\ \A p \in Places : request[v].move[p] <= request[v].book[p]
      BY <3>1 DEF StockInv, SoundPlans
    <3> HIDE DEF q
    <3>3. /\ request'[v].move = request[v].move /\ request'[v].hold = request[v].hold
          /\ request'[v].lots = request[v].lots /\ request'[v].book = request[v].book
          /\ request'[v].seen = request[v].seen
      BY <3>1, OvertakenValues
    <3>4. \A p \in Places : request'[v].move[p] <= request'[v].book[p]
      BY <3>2, <3>3
    <3>5. SoundPlan(request'[v])
      BY <3>2, <3>3 DEF SoundPlan, Touches
    <3>6. SoundPlan(request'[v]) = SoundPlan(request[v])'
      BY DEF SoundPlan, Touches
    <3> QED BY <3>4, <3>5, <3>6
  <2>2. OneHolder'
    BY <1>20, OvertakenValues DEF StockInv, OneHolder
  <2> QED BY <2>1, <2>2 DEF SoundPlans
<1>13. FreshPlans'
  <2> SUFFICES ASSUME NEW v \in Workers, request'[v] # Nothing, NEW p \in Places,
                      Touches(request'[v], p), p \notin request'[v].late
               PROVE  request'[v].seen[p] = stock'[p]
    BY DEF FreshPlans, FreshPlan, Touches
  <2>1. /\ Touches(request[v], p) /\ request'[v].seen = request[v].seen
        /\ p \notin request[v].late /\ ~Touches(q, p)
    BY <1>20, OvertakenValues DEF Touches
  <2>2. request[v].seen[p] = stock[p]
    BY <1>20, <2>1 DEF StockInv, FreshPlans, FreshPlan
  <2>3. stock'[p] = stock[p]
    <3>1. stock[p] \in Rows
      BY DEF StockInv, InvTypeOK
    <3>2. stock'[p] = [hand |-> stock[p].hand, held |-> stock[p].held, lots |-> stock[p].lots]
      BY <1>4, <2>1, <3>1 DEF Written, Touches, Rows
    <3> QED BY <3>1, <3>2 DEF Rows
  <2> QED BY <2>1, <2>2, <2>3
<1>14. LockedRows'
  <2> SUFFICES ASSUME NEW v \in Workers, request'[v] # Nothing, request'[v].res # Nothing
               PROVE  LockedRow(request[v])'
    BY DEF LockedRows, LockedRow
  <2>1. /\ v # w /\ request[v] # Nothing /\ request[v] \in RequestRecords
        /\ request'[v].res = request[v].res /\ request'[v].row = request[v].row
        /\ request'[v].issue = request[v].issue
    BY <1>20, OvertakenValues
  <2>2. request[v].res # q.res /\ LockedRow(request[v])
    BY <1>1, <2>1 DEF StockInv, OneHolder, LockedRows
  <2>3. reservation'[request[v].res] = reservation[request[v].res]
    BY <1>5, <2>1, <2>2 DEF RequestRecords
  <2> QED BY <2>1, <2>2, <2>3 DEF LockedRow
<1> QED BY <1>8, <1>9, <1>11, <1>12, <1>13, <1>14 DEF StockInv

LEMMA StockStep == StockInv /\ [InvNext]_invVars => StockInv'
PROOF
<1> SUFFICES ASSUME StockInv, [InvNext]_invVars PROVE StockInv'
  OBVIOUS
<1>1. ASSUME NEW w \in Workers \ Running, NEW p \in Places, NEW qty \in Quantities,
             \/ Receive(w, p, qty) \/ Withdraw(w, p, qty)
             \/ \E at \in Places, rest \in Quantities : ScrapUnit(w, p, qty, at, rest)
             \/ Adjust(w, p, qty) \/ Adjust(w, p, -qty)
      PROVE  StockInv'
  <2>1. qty \in Int /\ -qty \in Int
    BY InventoryAssumption
  <2> QED BY <1>1, <2>1, ReceiveKeeps, WithdrawKeeps, ScrapUnitKeeps, AdjustKeeps
<1>2. ASSUME NEW w \in Workers \ Running, NEW condition \in Conditions, NEW qty \in Quantities,
             \/ IssueAnywhere(w, condition, qty)
             \/ \E r \in Reservations : IssueReserved(w, r, condition, qty)
      PROVE  StockInv'
  BY <1>2, IssueAnywhereKeeps, IssueReservedKeeps
<1>3. ASSUME NEW w \in Workers \ Running, NEW lines \in BulkLines, BulkAdjust(w, lines)
      PROVE  StockInv'
  BY <1>3, BulkAdjustKeeps
<1>4. ASSUME NEW w \in Workers \ Running, NEW r \in Reservations,
             \/ \E l \in Locations, qty \in Quantities : Reserve(w, r, l, qty)
             \/ Release(w, r)
      PROVE  StockInv'
  BY <1>4, ReserveKeeps, ReleaseKeeps
<1>5. ASSUME NEW t \in Transfers, NEW l \in Locations, NEW qty \in Quantities,
             CreateTransfer(t, l, qty)
      PROVE  StockInv'
  BY <1>5, CreateTransferKeeps
<1>6. ASSUME NEW w \in Workers \ Running, NEW t \in Transfers, NEW l \in Locations,
             CompleteTransfer(w, t, l)
      PROVE  StockInv'
  BY <1>6, CompleteTransferKeeps
<1>7. ASSUME NEW w \in Workers, Commit(w) \/ Abort(w)
      PROVE  StockInv'
  BY <1>7, CommitKeeps, AbortKeeps
<1>8. CASE UNCHANGED invVars
  BY <1>8 DEF invVars, StockInv, InvTypeOK, BalancesSound, UnitsAccounted, ReservationSpentOnce,
              WellPlaced, SoundPlans, FreshPlans, LockedRows, OneHolder, SoundPlan, FreshPlan,
              LockedRow, Touches
<1> QED BY <1>1, <1>2, <1>3, <1>4, <1>5, <1>6, <1>7, <1>8 DEF InvNext

-----------------------------------------------------------------------------
(* Theorems                                                                *)

\* The inductive invariant holds in every reachable state.
THEOREM StockInvariance == InvSpec => []StockInv
BY StockInit, StockStep, PTL DEF InvSpec

\* Every row keeps its shape; no column of a balance goes below zero, not even
\* when requests overwrite each other's balances.
THEOREM StockTypeCorrect == InvSpec => []InvTypeOK
BY StockInvariance, PTL DEF StockInv

\* Short of such an overwrite, reserved stays within on hand, for any number of
\* requests side by side.
THEOREM SoundBalances == InvSpec => []BalancesSound
BY StockInvariance, PTL DEF StockInv

\* Short of such an overwrite, the units of a place stay within its balance and
\* the ledger shows at least the balance.
THEOREM AccountedUnits == InvSpec => []UnitsAccounted
BY StockInvariance, PTL DEF StockInv

\* A reservation is never spent twice, overwrites or not.
THEOREM SpentOnce == InvSpec => []ReservationSpentOnce
BY StockInvariance, PTL DEF StockInv

-----------------------------------------------------------------------------
(* What is promised                                                        *)

\* What a reservation row takes of the stock of a location.
Claim(row, l) == IF row.status = "open" /\ row.at = l THEN row.qty ELSE 0
Claims(l) == [r \in Reservations |-> Claim(reservation[r], l)]

\* What a request takes from the reserved column of a balance is at most what its new
\* version of the reservation claims less than the old one.
Backed(q) ==
    \A l \in Locations :
        IF q.res = Nothing THEN q.hold[Serviceable(l)] >= 0
        ELSE Claim(q.row, l) <= Claim(reservation[q.res], l) + q.hold[Serviceable(l)]

BackedPlans == \A w \in Workers : request[w] # Nothing => Backed(request[w])

PromiseInv == StockInv /\ BackedPlans /\ PromisesCovered

ClaimsAddUp ==
    \A l \in Locations :
        Promised(l) = SumFunctionOnSet(Claims(l), Reservations) /\ Promised(l) \in Nat

LEMMA PromisedIsClaimed == InvTypeOK => ClaimsAddUp
<1> SUFFICES ASSUME InvTypeOK, NEW l \in Locations
             PROVE  Promised(l) = SumFunctionOnSet(Claims(l), Reservations) /\ Promised(l) \in Nat
  BY DEF ClaimsAddUp
<1> DEFINE qty == [r \in Reservations |-> reservation[r].qty]
           part == [r \in Reservations |-> IF r \in OpenAt(l) THEN qty[r] ELSE 0]
<1>1. \A r \in Reservations : reservation[r] \in ReservationRows /\ qty[r] \in Nat
  BY DEF InvTypeOK, ReservationRows
<1>2. OpenAt(l) \in SUBSET Reservations /\ IsFiniteSet(Reservations) /\ IsFiniteSet(OpenAt(l))
  BY FS_Subset, InventoryAssumption DEF OpenAt
<1>3. part = Claims(l)
  BY DEF Claims, Claim, OpenAt
<1> HIDE DEF qty
<1>4. SumFunctionOnSet(qty, OpenAt(l)) = SumFunctionOnSet(part, Reservations)
  BY <1>1, <1>2, SumOfPart
<1>5. SumFunctionOnSet(qty, OpenAt(l)) \in Nat
  BY <1>1, <1>2, SumIsNat
<1> QED BY <1>3, <1>4, <1>5 DEF Promised, qty

\* A request that starts: neither balances nor reservations change.
LEMMA StartBacked ==
    ASSUME PromiseInv, NEW w \in Workers, NEW change, NEW hold, NEW r, NEW row, NEW issue, NEW t,
           \A l \in Locations :
               IF r = Nothing THEN hold[Serviceable(l)] >= 0
               ELSE Claim(row, l) <= Claim(reservation[r], l) + hold[Serviceable(l)],
           Start(w, change, hold, r, row, issue, t)
    PROVE  BackedPlans' /\ PromisesCovered'
<1>1. /\ UNCHANGED <<stock, reservation, stale>>
      /\ request'[w].hold = hold /\ request'[w].res = r /\ request'[w].row = row
      /\ \A v \in Workers \ {w} : request'[v] = request[v]
  BY DEF Start, PromiseInv, StockInv, InvTypeOK
<1>2. BackedPlans'
  <2> SUFFICES ASSUME NEW v \in Workers, request'[v] # Nothing PROVE Backed(request[v])'
    BY DEF BackedPlans
  <2>1. CASE v = w
    BY <1>1, <2>1 DEF Backed, Claim
  <2>2. CASE v # w
    BY <1>1, <2>2 DEF PromiseInv, BackedPlans, Backed, Claim
  <2> QED BY <2>1, <2>2
<1>3. PromisesCovered'
  BY <1>1 DEF PromiseInv, PromisesCovered, Promised, OpenAt
<1> QED BY <1>2, <1>3

LEMMA StartMoveBacked ==
    ASSUME PromiseInv, NEW w \in Workers, NEW change, NEW t,
           Start(w, change, NoChange, Nothing, NoReservation, 0, t)
    PROVE  BackedPlans' /\ PromisesCovered'
<1>1. \A l \in Locations : NoChange[Serviceable(l)] >= 0
  BY InventoryAssumption, NoChangeValues
<1> QED BY <1>1, StartBacked

LEMMA IssueReservedBacked ==
    ASSUME PromiseInv, NEW w \in Workers, NEW r \in Reservations,
           NEW condition \in Conditions, NEW qty \in Quantities,
           IssueReserved(w, r, condition, qty)
    PROVE  BackedPlans' /\ PromisesCovered'
<1> DEFINE old == reservation[r]
           p == <<old.at, condition>>
           left == old.qty - qty
           used == UsedReserved(stock[p], qty, qty)
           row == [old EXCEPT !.qty = left, !.status = IF left = 0 THEN "issued" ELSE "open"]
<1>1. /\ old.status = "open" /\ qty <= old.qty /\ p \in Places
      /\ Start(w, Taking(Only(p, qty)), Only(p, -used), r, row, qty, Nothing)
  BY DEF IssueReserved
<1>2. qty \in Nat \ {0} /\ r # Nothing
  BY InventoryAssumption
<1>3. old \in ReservationRows /\ stock[p] \in Rows
  BY <1>1 DEF PromiseInv, StockInv, InvTypeOK
<1>4. used \in Nat /\ used <= qty /\ -used \in Int
  BY <1>2, <1>3 DEF UsedReserved, Lesser, Rows
<1>5. row.at = old.at /\ row.qty = left /\ (left # 0 => row.status = "open") /\ (left = 0 => row.status = "issued")
  <2> HIDE DEF left
  <2> QED BY <1>3 DEF ReservationRows
<1>6. \A x \in Places : Only(p, -used)[x] = IF x = p THEN -used ELSE 0
  BY ZenonT(60), <1>1, <1>4, OnlyValues
<1>7. ASSUME NEW l \in Locations
      PROVE  Claim(row, l) <= Claim(old, l) + Only(p, -used)[Serviceable(l)]
  <2>1. Only(p, -used)[Serviceable(l)] = IF Serviceable(l) = p THEN -used ELSE 0
    BY <1>6, InventoryAssumption
  <2>2. l # old.at => Serviceable(l) # p
    BY DEF Serviceable
  <2>3. old.qty \in Nat
    BY <1>3 DEF ReservationRows
  <2> HIDE DEF p, used, old, row
  <2>4. CASE l = old.at
    <3>1. Claim(old, l) = old.qty /\ Claim(row, l) = old.qty - qty
      BY <1>1, <1>2, <1>5, <2>3, <2>4 DEF Claim
    <3> QED BY <1>2, <1>4, <2>1, <2>3, <3>1
  <2>5. CASE l # old.at
    <3>1. Claim(old, l) = 0 /\ Claim(row, l) = 0
      BY <1>5, <2>5 DEF Claim
    <3> QED BY <2>1, <2>2, <2>5, <3>1
  <2> QED BY <2>4, <2>5
<1> HIDE DEF p, used, row
<1> QED BY <1>1, <1>2, <1>7, StartBacked

LEMMA ReserveBacked ==
    ASSUME PromiseInv, NEW w \in Workers, NEW r \in Reservations, NEW at \in Locations,
           NEW qty \in Quantities, Reserve(w, r, at, qty)
    PROVE  BackedPlans' /\ PromisesCovered'
<1> DEFINE row == [status |-> "open", at |-> at, qty |-> qty, asked |-> qty, spent |-> 0]
<1>1. /\ reservation[r].status = "absent"
      /\ Start(w, Staying, Only(Serviceable(at), qty), r, row, 0, Nothing)
  BY DEF Reserve
<1>2. qty \in Nat \ {0} /\ r # Nothing /\ Serviceable(at) \in Places
  BY InventoryAssumption
<1>3. ASSUME NEW l \in Locations
      PROVE  Claim(row, l) <= Claim(reservation[r], l) + Only(Serviceable(at), qty)[Serviceable(l)]
  <2>1. Only(Serviceable(at), qty)[Serviceable(l)] = IF l = at THEN qty ELSE 0
    <3>1. Serviceable(l) \in Places /\ (Serviceable(l) = Serviceable(at) => l = at)
      BY InventoryAssumption DEF Serviceable
    <3> QED BY <1>2, <3>1, OnlyValues
  <2>2. Claim(reservation[r], l) = 0 /\ Claim(row, l) = IF l = at THEN qty ELSE 0
    BY <1>1 DEF Claim
  <2> QED BY <1>2, <2>1, <2>2
<1> HIDE DEF row
<1> QED BY <1>1, <1>2, <1>3, StartBacked

LEMMA ReleaseBacked ==
    ASSUME PromiseInv, NEW w \in Workers, NEW r \in Reservations, Release(w, r)
    PROVE  BackedPlans' /\ PromisesCovered'
<1> DEFINE old == reservation[r]
           p == Serviceable(old.at)
           back == Lesser(Remaining(r), stock[p].held)
           row == [old EXCEPT !.status = "released"]
<1>1. old.status = "open" /\ Start(w, Staying, Only(p, -back), r, row, 0, Nothing)
  BY DEF Release
<1>2. old \in ReservationRows /\ old.at \in Locations /\ r # Nothing
  BY <1>1, InventoryAssumption DEF PromiseInv, StockInv, InvTypeOK, WellPlaced
<1>3. p \in Places /\ stock[p] \in Rows
  BY <1>2, InventoryAssumption DEF PromiseInv, StockInv, InvTypeOK
<1>4. back \in Nat /\ -back \in Int /\ back <= old.qty /\ old.qty \in Nat
  BY <1>2, <1>3 DEF Lesser, Remaining, ReservationRows, Rows
<1>5. ASSUME NEW l \in Locations
      PROVE  Claim(row, l) <= Claim(old, l) + Only(p, -back)[Serviceable(l)]
  <2>1. Only(p, -back)[Serviceable(l)] = IF l = old.at THEN -back ELSE 0
    <3>1. Serviceable(l) \in Places /\ (Serviceable(l) = p => l = old.at)
      BY InventoryAssumption DEF Serviceable
    <3> HIDE DEF back
    <3> QED BY <1>3, <1>4, <3>1, OnlyValues
  <2>2. Claim(row, l) = 0 /\ Claim(old, l) = IF l = old.at THEN old.qty ELSE 0
    BY <1>1, <1>2 DEF Claim, ReservationRows
  <2> HIDE DEF back, old, p
  <2> QED BY <1>4, <2>1, <2>2
<1> HIDE DEF p, back, row
<1> QED BY <1>1, <1>2, <1>5, StartBacked

LEMMA AbortBacked ==
    ASSUME PromiseInv, NEW w \in Workers, Abort(w)
    PROVE  BackedPlans' /\ PromisesCovered'
<1>1. \A v \in Workers : request'[v] = IF v = w THEN Nothing ELSE request[v]
  BY DEF Abort, PromiseInv, StockInv, InvTypeOK
<1>2. BackedPlans'
  BY <1>1 DEF Abort, PromiseInv, BackedPlans, Backed, Claim
<1>3. PromisesCovered'
  BY DEF Abort, PromiseInv, PromisesCovered, Promised, OpenAt
<1> QED BY <1>2, <1>3

LEMMA CreateTransferBacked ==
    ASSUME PromiseInv, NEW t \in Transfers, NEW from \in Locations, NEW qty \in Quantities,
           CreateTransfer(t, from, qty)
    PROVE  BackedPlans' /\ PromisesCovered'
<1>1. BackedPlans'
  BY DEF CreateTransfer, PromiseInv, BackedPlans, Backed, Claim
<1>2. PromisesCovered'
  BY DEF CreateTransfer, PromiseInv, PromisesCovered, Promised, OpenAt
<1> QED BY <1>1, <1>2

LEMMA CommitBacked ==
    ASSUME PromiseInv, NEW w \in Workers, Commit(w)
    PROVE  BackedPlans' /\ PromisesCovered'
<1> DEFINE q == request[w]
<1>0. PICK left \in [q.late -> 0..MaxOnHand] : stock' = [p \in Places |-> Written(q, p, left)]
  BY DEF Commit
<1>1. /\ q # Nothing /\ q \in RequestRecords /\ FreshPlan(q) /\ Backed(q)
      /\ stale' = (stale \/ q.late # {})
  BY DEF Commit, PromiseInv, StockInv, InvTypeOK, FreshPlans, BackedPlans
<1>2. \A v \in Workers : request'[v] = IF v = w THEN Nothing ELSE Overtaken(request[v], q)
  BY DEF Commit
<1>3. \A r \in Reservations : r # q.res => reservation'[r] = reservation[r]
  BY DEF Commit, PromiseInv, StockInv, InvTypeOK
<1>4. q.res # Nothing => /\ q.res \in Reservations
                         /\ reservation'[q.res].status = q.row.status
                         /\ reservation'[q.res].at = q.row.at
                         /\ reservation'[q.res].qty = q.row.qty
  <2> HAVE q.res # Nothing
  <2>1. q.res \in Reservations /\ q.row \in ReservationRows
    BY <1>1 DEF RequestRecords
  <2> DEFINE spent == reservation[q.res].spent + q.issue
  <2>2. reservation' = [reservation EXCEPT ![q.res] = [q.row EXCEPT !.spent = spent]]
    BY DEF Commit
  <2> HIDE DEF spent, q
  <2>3. reservation'[q.res] = [q.row EXCEPT !.spent = spent]
    BY <2>1, <2>2 DEF PromiseInv, StockInv, InvTypeOK
  <2> QED BY <2>1, <2>3 DEF ReservationRows
<1>5. \A l \in Locations : \A r \in Reservations :
          Claim(reservation'[r], l) = Claim(IF r = q.res THEN q.row ELSE reservation[r], l)
  BY <1>3, <1>4, InventoryAssumption DEF Claim
<1>6. BackedPlans'
  <2> SUFFICES ASSUME NEW v \in Workers, request'[v] # Nothing PROVE Backed(request[v])'
    BY DEF BackedPlans
  <2>1. v # w /\ request[v] # Nothing /\ request[v] \in RequestRecords
    BY <1>2 DEF Overtaken, PromiseInv, StockInv, InvTypeOK
  <2>2. /\ request'[v].hold = request[v].hold /\ request'[v].res = request[v].res
        /\ request'[v].row = request[v].row
    BY <1>2, <2>1, OvertakenValues
  <2>3. Backed(request[v])
    BY <2>1 DEF PromiseInv, BackedPlans
  <2>4. request[v].res # Nothing => request[v].res # q.res /\ request[v].res \in Reservations
    BY <1>1, <2>1 DEF PromiseInv, StockInv, OneHolder, RequestRecords
  <2>5. request[v].res # Nothing => reservation'[request[v].res] = reservation[request[v].res]
    BY <1>3, <2>4
  <2> HIDE DEF q
  <2> QED BY <2>2, <2>3, <2>5 DEF Backed, Claim
<1>7. PromisesCovered'
  <2> SUFFICES ASSUME ~stale', NEW l \in Locations
               PROVE  Promised(l)' <= stock'[Serviceable(l)].held
    BY DEF PromisesCovered, Serviceable
  <2> DEFINE p == Serviceable(l)
  <2>1. p \in Places /\ q.hold[p] \in Int /\ stock[p] \in Rows /\ ~stale
        /\ (q.hold[p] # 0 => q.seen[p] = stock[p])
    BY <1>1, InventoryAssumption DEF PromiseInv, StockInv, InvTypeOK, RequestRecords, FreshPlan, Touches
  <2>2. stock[p].held \in Nat
    BY <2>1 DEF Rows
  <2>3. stock'[p].held = stock[p].held + q.hold[p]
    <3> HIDE DEF q, p
    <3>1. stock'[p].held = IF q.hold[p] = 0 THEN stock[p].held ELSE q.seen[p].held + q.hold[p]
      BY <1>0, <2>1 DEF Written
    <3> QED BY <2>1, <2>2, <3>1
  <2>4. Promised(l) <= stock[p].held
    BY <2>1 DEF PromiseInv, PromisesCovered
  <2>5. Promised(l) = SumFunctionOnSet(Claims(l), Reservations) /\ Promised(l) \in Nat
    BY PromisedIsClaimed DEF PromiseInv, StockInv, ClaimsAddUp
  <2>6. InvTypeOK'
    BY CommitKeeps DEF PromiseInv, StockInv
  <2>7. Promised(l)' = SumFunctionOnSet(Claims(l)', Reservations) /\ Promised(l)' \in Nat
    <3>1. ClaimsAddUp'
      BY <2>6, PromisedIsClaimed, PTL
    <3> QED BY <3>1 DEF ClaimsAddUp
  <2>8. \A r \in Reservations :
            /\ Claims(l)[r] = Claim(reservation[r], l) /\ Claims(l)[r] \in Int
            /\ Claims(l)'[r] = Claim(reservation'[r], l) /\ Claims(l)'[r] \in Int
    BY <2>6 DEF Claims, Claim, InvTypeOK, ReservationRows, PromiseInv, StockInv
  <2>9. CASE q.res = Nothing
    <3>1. \A r \in Reservations : Claims(l)'[r] = Claims(l)[r]
      BY <1>3, <2>8, <2>9, InventoryAssumption
    <3>2. Promised(l)' = Promised(l)
      BY <2>5, <2>7, <3>1, SumOfEqual, InventoryAssumption
    <3>3. q.hold[p] >= 0
      BY <1>1, <2>9 DEF Backed
    <3> HIDE DEF q, p
    <3> QED BY <2>1, <2>2, <2>3, <2>4, <2>5, <3>2, <3>3 DEF p
  <2>10. CASE q.res # Nothing
    <3>1. q.res \in Reservations /\ \A r \in Reservations \ {q.res} : Claims(l)[r] = Claims(l)'[r]
      BY <1>3, <1>4, <2>8, <2>10
    <3>2. Promised(l)' = Promised(l) - Claims(l)[q.res] + Claims(l)'[q.res]
      <4>1. SumFunctionOnSet(Claims(l)', Reservations) =
               SumFunctionOnSet(Claims(l), Reservations) - Claims(l)[q.res] + Claims(l)'[q.res]
        BY <2>8, <3>1, SumOfChanged, InventoryAssumption
      <4> QED BY <2>5, <2>7, <4>1
    <3>3. Claims(l)'[q.res] <= Claims(l)[q.res] + q.hold[p]
      <4>1. Claims(l)'[q.res] = Claim(q.row, l) /\ Claims(l)[q.res] = Claim(reservation[q.res], l)
        BY <1>5, <2>8, <3>1
      <4> QED BY <1>1, <2>10, <4>1 DEF Backed
    <3>4. Claims(l)[q.res] \in Int /\ Claims(l)'[q.res] \in Int
      BY <2>8, <3>1
    <3> HIDE DEF q, p
    <3> QED BY <2>1, <2>2, <2>3, <2>4, <2>5, <2>7, <3>2, <3>3, <3>4 DEF p
  <2> QED BY <2>9, <2>10
<1> QED BY <1>6, <1>7

LEMMA PromiseStart == InvInit => PromiseInv
<1> SUFFICES ASSUME InvInit PROVE PromiseInv
  OBVIOUS
<1>1. StockInv
  BY StockInit
<1>2. BackedPlans
  BY DEF InvInit, BackedPlans
<1>3. ASSUME NEW l \in Locations PROVE Promised(l) <= stock[Serviceable(l)].held
  <2>1. OpenAt(l) = {}
    BY DEF InvInit, OpenAt, NoReservation
  <2>2. Promised(l) = 0
    BY <2>1, SumOfNone DEF Promised
  <2> QED BY <2>2, InventoryAssumption DEF InvInit, EmptyRow
<1> QED BY <1>1, <1>2, <1>3 DEF PromiseInv, PromisesCovered

LEMMA PromiseStep == PromiseInv /\ [InvNext]_invVars => PromiseInv'
<1> SUFFICES ASSUME PromiseInv, [InvNext]_invVars PROVE BackedPlans' /\ PromisesCovered'
  BY StockStep DEF PromiseInv
<1>1. ASSUME NEW w \in Workers \ Running, NEW p \in Places, NEW qty \in Quantities,
             \/ Receive(w, p, qty) \/ Withdraw(w, p, qty)
             \/ \E at \in Places, rest \in Quantities : ScrapUnit(w, p, qty, at, rest)
             \/ Adjust(w, p, qty) \/ Adjust(w, p, -qty)
      PROVE  BackedPlans' /\ PromisesCovered'
  <2>1. \E change : Start(w, change, NoChange, Nothing, NoReservation, 0, Nothing)
    BY <1>1 DEF Receive, Withdraw, ScrapUnit, Adjust, StartMove
  <2> QED BY <2>1, StartMoveBacked
<1>2. ASSUME NEW w \in Workers \ Running, NEW condition \in Conditions, NEW qty \in Quantities,
             IssueAnywhere(w, condition, qty)
      PROVE  BackedPlans' /\ PromisesCovered'
  BY <1>2, StartMoveBacked DEF IssueAnywhere, StartMove
<1>3. ASSUME NEW w \in Workers \ Running, NEW lines \in BulkLines, BulkAdjust(w, lines)
      PROVE  BackedPlans' /\ PromisesCovered'
  BY <1>3, StartMoveBacked DEF BulkAdjust, StartMove
<1>4. ASSUME NEW w \in Workers \ Running, NEW t \in Transfers, NEW l \in Locations,
             CompleteTransfer(w, t, l)
      PROVE  BackedPlans' /\ PromisesCovered'
  BY <1>4, StartMoveBacked DEF CompleteTransfer
<1>5. CASE UNCHANGED invVars
  BY <1>5 DEF invVars, PromiseInv, BackedPlans, Backed, Claim, PromisesCovered, Promised, OpenAt
<1> QED BY <1>1, <1>2, <1>3, <1>4, <1>5, IssueReservedBacked, ReserveBacked, ReleaseBacked,
           CreateTransferBacked, CommitBacked, AbortBacked DEF InvNext

\* Short of an overwrite, what is promised to the open reservations of a location is
\* held back there, for any number of reservations and requests side by side.
THEOREM PromisesKept == InvSpec => []PromisesCovered
<1>1. InvSpec => []PromiseInv
  BY PromiseStart, PromiseStep, PTL DEF InvSpec
<1> QED BY <1>1, PTL DEF PromiseInv

-----------------------------------------------------------------------------
(* Components                                                              *)

\* The hours that a row stands for, with those flown since the installation.
Flown(row) == row.time + IF row.status = "installed" THEN meter[row.craft] - row.base ELSE 0

\* An aircraft and a reading for installed components, and for them only.
Placed(row) ==
    /\ (row.craft # NoAircraft) = (row.status = "installed")
    /\ (row.base # NoHours) = (row.status = "installed")

\* What a locked handler is about to commit is right for the aircraft and the meters at
\* any time until it does.
Fit(c, row, event, moves) ==
    /\ row.status # "absent"
    /\ event # NoEvent /\ event.to = row.status
    /\ Placed(row)
    /\ row.status = "installed" =>
          /\ event = InstallEvent(row.craft, row.position)
          /\ ~Exhausted(row)
    /\ moves \/ c \in moved \/ flown[c] = Flown(row)

Known ==
    /\ \A r \in Requests : ~Idle(r) => There(unsaved[r].component)
    /\ \A c \in Components : ~There(c) => newest[c] = NoEvent

OneLocker ==
    \A r, s \in Requests :
        unsaved[r].locks /\ unsaved[s].locks /\ unsaved[r].component = unsaved[s].component => r = s

Pending ==
    \A r \in Requests :
        unsaved[r].locks =>
            /\ ~Idle(r)
            /\ Fit(unsaved[r].component, unsaved[r].row, unsaved[r].event, unsaved[r].moves)

\* The inductive invariant.
CInv ==
    /\ ComponentsTypeOK /\ Known /\ OneLocker /\ Pending
    /\ OneOccupant /\ HistoryTellsWhere /\ HoursAreFlown

\* No step puts a spent component on an aircraft.
LifeIsLeft ==
    \A c \in Components :
        component[c]'.status = "installed"
        /\ <<component[c]'.craft, component[c]'.position, component[c]'.base>>
              # <<component[c].craft, component[c].position, component[c].base>>
          => ~Exhausted(component[c])'

-----------------------------------------------------------------------------
(* Rows                                                                    *)

\* An update of the remaining life changes nothing else.
LEMMA RecomputedRow ==
    ASSUME NEW row \in ComponentRows
    PROVE  /\ Recomputed(row) \in ComponentRows
           /\ Recomputed(row).status = row.status /\ Recomputed(row).craft = row.craft
           /\ Recomputed(row).position = row.position /\ Recomputed(row).time = row.time
           /\ Recomputed(row).base = row.base /\ Recomputed(row).limit = row.limit
BY DEF Recomputed, ComponentRows, Hours

\* A limit or a time set by hand.
LEMMA CorrectedRow ==
    ASSUME NEW row \in ComponentRows
    PROVE  /\ \A limit \in Hours : [row EXCEPT !.limit = limit] \in ComponentRows
           /\ \A time \in Int : [row EXCEPT !.time = time] \in ComponentRows
BY DEF ComponentRows

\* A row as an installation leaves it.
LEMMA InstalledRow ==
    ASSUME NEW row \in ComponentRows, NEW a \in Aircraft, NEW p \in Positions, NEW hours \in Int
    PROVE  LET new == Installed(row, a, p, hours)
           IN /\ new \in ComponentRows
              /\ new.status = "installed" /\ new.craft = a /\ new.position = p
              /\ new.base = hours /\ new.time = row.time /\ new.limit = row.limit
<1> DEFINE old == Recomputed(row)
<1>1. /\ old \in ComponentRows /\ old.time = row.time /\ old.limit = row.limit
  BY RecomputedRow
<1> HIDE DEF old
<1>2. Installed(row, a, p, hours) =
        [old EXCEPT !.status = "installed", !.craft = a, !.position = p, !.base = hours]
  BY DEF Installed, old
<1>3. QED  BY ZenonT(60), <1>1, <1>2 DEF ComponentRows, Hours, Statuses

\* A row as a removal leaves it.
LEMMA RemovedRow ==
    ASSUME NEW row \in ComponentRows, NEW to \in Statuses, NEW hours \in Int, row.base \in Int
    PROVE  LET new == Removed(row, to, hours)
           IN /\ new \in ComponentRows
              /\ new.status = to /\ new.craft = NoAircraft /\ new.position = NoPosition
              /\ new.base = NoHours /\ new.time = row.time + hours - row.base
              /\ new.limit = row.limit
<1> DEFINE time == row.time + hours - row.base
           old == [row EXCEPT !.status = to, !.craft = NoAircraft, !.position = NoPosition,
                              !.time = time, !.base = NoHours]
<1>0. time \in Int
  BY DEF ComponentRows
<1>1. Removed(row, to, hours) = Recomputed(old)
  BY DEF Removed
<1> HIDE DEF time
<1>2. /\ old \in ComponentRows
      /\ old.status = to /\ old.craft = NoAircraft /\ old.position = NoPosition
      /\ old.base = NoHours /\ old.time = time /\ old.limit = row.limit
  BY <1>0 DEF ComponentRows, Hours, Statuses
<1> HIDE DEF old
<1>3. QED  BY <1>1, <1>2, RecomputedRow DEF time

\* What the handlers read of a component that is there.
LEMMA Read ==
    ASSUME CInv, NEW c \in Components
    PROVE  /\ component[c] \in ComponentRows /\ newest[c] \in Events /\ flown[c] \in Int
           /\ Placed(component[c])
           /\ component[c].status = "installed" =>
                /\ component[c].craft \in Aircraft /\ component[c].base \in Int
                /\ meter[component[c].craft] \in 0 .. MaxHours
           /\ There(c) => c \in moved \/ flown[c] = Flown(component[c])
           /\ \A a \in Aircraft : meter[a] \in 0 .. MaxHours
<1>1. /\ component[c] \in ComponentRows /\ newest[c] \in Events /\ flown[c] \in Int
      /\ \A a \in Aircraft : meter[a] \in 0 .. MaxHours
  BY DEF CInv, ComponentsTypeOK
<1>2. Placed(component[c])
  BY DEF CInv, HistoryTellsWhere, Placed
<1>3. component[c].craft \in Aircraft \cup {NoAircraft} /\ component[c].base \in Int \cup {NoHours}
  BY <1>1 DEF ComponentRows, Hours
<1>4. There(c) => c \in moved \/ flown[c] = Flown(component[c])
  BY DEF CInv, HoursAreFlown, TrueTime, Flown
<1>5. QED  BY <1>1, <1>2, <1>3, <1>4 DEF Placed

\* An installation, also one that follows a removal, is fit to be committed.
LEMMA InstallFits ==
    ASSUME CInv, NEW c \in Components, NEW row \in ComponentRows, NEW a \in Aircraft, NEW p \in Positions,
           NEW hours \in Int, NEW moves \in BOOLEAN, MayInstall(row, c, a, p),
           moves \/ c \in moved \/ flown[c] = row.time + meter[a] - hours
    PROVE  /\ Installed(row, a, p, hours) \in ComponentRows /\ InstallEvent(a, p) \in Events
           /\ Fit(c, Installed(row, a, p, hours), InstallEvent(a, p), moves)
<1> DEFINE new == Installed(row, a, p, hours)
<1>1. /\ new \in ComponentRows
      /\ new.status = "installed" /\ new.craft = a /\ new.position = p
      /\ new.base = hours /\ new.time = row.time /\ new.limit = row.limit
  BY InstalledRow
<1> HIDE DEF new
<1>2. InstallEvent(a, p) \in Events /\ InstallEvent(a, p) # NoEvent
  BY DEF InstallEvent, Events, Statuses, NoEvent
<1>3. ~Exhausted(new)
  BY <1>1 DEF MayInstall, Exhausted
<1>4. Placed(new)
  BY <1>1, ComponentsAssumption DEF Placed
<1>5. meter[a] \in Int /\ row.time \in Int
  BY Read DEF ComponentRows
<1>6. moves \/ c \in moved \/ flown[c] = Flown(new)
  BY <1>1, <1>5 DEF Flown
<1>7. Fit(c, new, InstallEvent(a, p), moves)
  BY <1>1, <1>2, <1>3, <1>4, <1>6 DEF Fit, InstallEvent
<1>8. QED  BY <1>1, <1>2, <1>7 DEF new

\* So is a removal.
LEMMA RemoveFits ==
    ASSUME CInv, NEW c \in Components, NEW to \in Destinations,
           component[c].status = "installed"
    PROVE  LET row == component[c]
               new == Removed(row, to, meter[row.craft])
           IN /\ new \in ComponentRows /\ RemoveEvent(row, to) \in Events
              /\ Fit(c, new, RemoveEvent(row, to), FALSE)
<1> DEFINE row == component[c]
           new == Removed(row, to, meter[row.craft])
<1>1. /\ row \in ComponentRows /\ row.craft \in Aircraft /\ row.base \in Int /\ meter[row.craft] \in Int
      /\ c \in moved \/ flown[c] = Flown(row)
  BY Read DEF There
<1>2. to # "installed" /\ to # "absent" /\ to \in Statuses
  BY ComponentsAssumption DEF Statuses
<1>3. /\ new \in ComponentRows
      /\ new.status = to /\ new.craft = NoAircraft /\ new.position = NoPosition
      /\ new.base = NoHours /\ new.time = row.time + meter[row.craft] - row.base
  BY <1>1, <1>2, RemovedRow
<1> HIDE DEF new
<1>4. RemoveEvent(row, to) \in Events /\ RemoveEvent(row, to) # NoEvent
      /\ RemoveEvent(row, to).to = to
  BY <1>1, <1>2 DEF RemoveEvent, Events, NoEvent, ComponentRows
<1>5. row.time \in Int
  BY <1>1 DEF ComponentRows
<1>6. c \in moved \/ flown[c] = Flown(new)
  BY <1>1, <1>2, <1>3, <1>5 DEF Flown
<1>7. Placed(new)
  BY <1>2, <1>3 DEF Placed
<1>8. Fit(c, new, RemoveEvent(row, to), FALSE)
  BY <1>2, <1>3, <1>4, <1>6, <1>7 DEF Fit
<1>9. QED  BY <1>3, <1>4, <1>8 DEF new

\* A step after which a request holds a fit row for a component nobody has locked.
LEMMA Held ==
    ASSUME CInv, NEW r \in Requests, NEW c \in Components, NEW row \in ComponentRows,
           NEW event \in Events, NEW moves \in BOOLEAN,
           There(c), ~Locked(c), Fit(c, row, event, moves), Holds(r, c, row, event, moves),
           UNCHANGED <<component, newest, meter, flown, moved>>
    PROVE  CInv' /\ LifeIsLeft
<1>1. unsaved \in [Requests -> RequestRows]
  BY DEF CInv, ComponentsTypeOK
<1>2. /\ unsaved'[r] = [component |-> c, locks |-> TRUE, row |-> row, event |-> event,
                        changed |-> {}, moves |-> moves]
      /\ \A s \in Requests \ {r} : unsaved'[s] = unsaved[s]
  BY <1>1 DEF Holds
<1>3. ComponentsTypeOK'
  BY <1>1 DEF CInv, ComponentsTypeOK, Holds, RequestRows
<1>4. Known'
  BY <1>2 DEF CInv, Known, Idle, There
<1>5. OneLocker'
  BY <1>2 DEF CInv, OneLocker, Locked
<1>6. c # NoComponent
  BY ComponentsAssumption
<1>7. Pending'
  <2> SUFFICES ASSUME NEW s \in Requests, unsaved'[s].locks
               PROVE  /\ ~Idle(s)'
                      /\ Fit(unsaved[s].component, unsaved[s].row, unsaved[s].event, unsaved[s].moves)'
    BY DEF Pending
  <2>1. CASE s = r
    BY <2>1, <1>2, <1>6 DEF Idle, Fit, Flown, Placed, Exhausted
  <2>2. CASE s # r
    BY <2>2, <1>2 DEF CInv, Pending, Idle, Fit, Flown, Placed, Exhausted
  <2>3. QED  BY <2>1, <2>2
<1>8. (OneOccupant /\ HistoryTellsWhere /\ HoursAreFlown)'
  BY DEF CInv, OneOccupant, HistoryTellsWhere, HoursAreFlown, TrueTime, There
<1>9. LifeIsLeft
  BY DEF LifeIsLeft
<1>10. QED  BY <1>3, <1>4, <1>5, <1>7, <1>8, <1>9 DEF CInv

-----------------------------------------------------------------------------
(* Steps                                                                   *)

LEMMA Installs ==
    ASSUME CInv, NEW r \in Requests, NEW c \in Components, NEW a \in Aircraft, NEW p \in Positions,
           Install(r, c, a, p)
    PROVE  CInv' /\ LifeIsLeft
<1>1. component[c] \in ComponentRows /\ meter[a] \in Int /\ component[c].time \in Int
      /\ (c \in moved \/ flown[c] = Flown(component[c]))
  BY Read DEF Install, ComponentRows
<1>2. c \in moved \/ flown[c] = component[c].time + meter[a] - meter[a]
  BY <1>1 DEF Install, MayInstall, Flown
<1> DEFINE new == Installed(component[c], a, p, meter[a])
<1>3. new \in ComponentRows /\ InstallEvent(a, p) \in Events /\ Fit(c, new, InstallEvent(a, p), FALSE)
  BY <1>1, <1>2, InstallFits DEF Install
<1>4. Holds(r, c, new, InstallEvent(a, p), FALSE)
  BY DEF Install
<1> HIDE DEF new
<1>5. QED  BY <1>3, <1>4, Held DEF Install

LEMMA Removes ==
    ASSUME CInv, NEW r \in Requests, NEW c \in Components, NEW to \in Destinations, Remove(r, c, to)
    PROVE  CInv' /\ LifeIsLeft
BY RemoveFits, Held DEF Remove

\* The reading is the meter of one of the two aircraft: if they are one, it is its own.
LEMMA TransfersToAircraft ==
    ASSUME CInv, NEW r \in Requests, NEW c \in Components, NEW a \in Aircraft, NEW p \in Positions,
           TransferInstall(r, c, a, p)
    PROVE  CInv' /\ LifeIsLeft
<1> DEFINE row == component[c]
<1>1. row \in ComponentRows /\ meter[a] \in Int /\ row.time \in Int
      /\ (c \in moved \/ flown[c] = Flown(row))
  BY Read DEF TransferInstall, ComponentRows
<1>2. CASE row.status = "installed"
             /\ \E hours \in {meter[a], meter[row.craft]} : Reinstalled(r, c, a, p, hours)
  <2>1. PICK hours \in {meter[a], meter[row.craft]} : Reinstalled(r, c, a, p, hours)
    BY <1>2
  <2>2. hours \in Int /\ row.base \in Int /\ meter[row.craft] \in Int
    BY <1>1, <1>2, Read
  <2> DEFINE removed == Removed(row, "stores", hours)
  <2>3. removed \in ComponentRows /\ removed.time = row.time + hours - row.base /\ removed.time \in Int
    <3>1. "stores" \in Statuses
      BY ComponentsAssumption DEF Statuses
    <3>2. QED  BY <3>1, <1>1, <2>2, RemovedRow
  <2>4. /\ MayInstall(removed, c, a, p)
        /\ Holds(r, c, Installed(removed, a, p, hours), InstallEvent(a, p), row.craft # a)
    BY <2>1 DEF Reinstalled
  <2>5. row.craft # a \/ c \in moved \/ flown[c] = removed.time + meter[a] - hours
    BY <1>1, <1>2, <2>2, <2>3 DEF Flown
  <2> DEFINE new == Installed(removed, a, p, hours)
  <2> HIDE DEF removed
  <2>6. new \in ComponentRows /\ InstallEvent(a, p) \in Events
        /\ Fit(c, new, InstallEvent(a, p), row.craft # a)
    BY <1>1, <2>2, <2>3, <2>4, <2>5, InstallFits
  <2> HIDE DEF new
  <2>7. Holds(r, c, new, InstallEvent(a, p), row.craft # a)
    BY <2>4 DEF new
  <2>8. QED  BY <2>6, <2>7, Held DEF TransferInstall
<1>3. CASE MayInstall(row, c, a, p)
             /\ Holds(r, c, Installed(row, a, p, meter[a]), InstallEvent(a, p), FALSE)
  <2>1. c \in moved \/ flown[c] = row.time + meter[a] - meter[a]
    BY <1>1, <1>3 DEF MayInstall, Flown
  <2> DEFINE new == Installed(row, a, p, meter[a])
  <2>2. new \in ComponentRows /\ InstallEvent(a, p) \in Events /\ Fit(c, new, InstallEvent(a, p), FALSE)
    BY <1>1, <1>3, <2>1, InstallFits
  <2> HIDE DEF new
  <2>3. Holds(r, c, new, InstallEvent(a, p), FALSE)
    BY <1>3 DEF new
  <2>4. QED  BY <2>2, <2>3, Held DEF TransferInstall
<1>4. QED  BY <1>2, <1>3 DEF TransferInstall

LEMMA TransfersAway ==
    ASSUME CInv, NEW r \in Requests, NEW c \in Components, NEW to \in Destinations,
           TransferAway(r, c, to)
    PROVE  CInv' /\ LifeIsLeft
<1> DEFINE row == component[c]
           new == [row EXCEPT !.status = to]
           event == [type |-> "transfer", craft |-> NoAircraft, position |-> NoPosition, to |-> to]
<1>1. CASE row.status = "installed" /\ MayRemove(row, meter[row.craft])
             /\ Holds(r, c, Removed(row, to, meter[row.craft]), RemoveEvent(row, to), FALSE)
  BY <1>1, RemoveFits, Held DEF TransferAway
<1>2. CASE row.status # "installed" /\ Holds(r, c, new, event, FALSE)
  <2>1. row \in ComponentRows /\ Placed(row) /\ (c \in moved \/ flown[c] = Flown(row))
    BY Read DEF TransferAway
  <2>2. to # "installed" /\ to # "absent" /\ to \in Statuses
    BY ComponentsAssumption DEF Statuses
  <2>3. /\ new \in ComponentRows /\ new.status = to /\ new.craft = row.craft /\ new.base = row.base
        /\ new.time = row.time
    BY <2>1, <2>2 DEF ComponentRows
  <2>4. event \in Events /\ event # NoEvent /\ event.to = to
    BY <2>2 DEF Events, NoEvent
  <2> HIDE DEF new, event
  <2>5. Fit(c, new, event, FALSE)
    BY <1>2, <2>1, <2>2, <2>3, <2>4 DEF Fit, Placed, Flown
  <2>6. QED  BY <1>2, <2>3, <2>4, <2>5, Held DEF TransferAway
<1>3. QED  BY <1>1, <1>2 DEF TransferAway

LEMMA Creates ==
    ASSUME CInv, NEW c \in Components, NEW status \in Destinations, NEW time \in 0 .. MaxHours,
           NEW limit \in Limits \cup {NoHours}, CreateComponent(c, status, time, limit)
    PROVE  CInv' /\ LifeIsLeft
<1> DEFINE old == [NoRow EXCEPT !.status = status, !.time = time, !.limit = limit]
           new == Recomputed(old)
<1>1. status # "installed" /\ status # "absent" /\ status \in Statuses /\ time \in Int
      /\ limit \in Hours
  BY ComponentsAssumption DEF Statuses, Hours
<1>2. /\ old \in ComponentRows /\ old.status = status /\ old.craft = NoAircraft /\ old.base = NoHours
      /\ old.time = time
  BY <1>1 DEF ComponentRows, NoRow, Hours
<1> HIDE DEF old
<1>3. /\ new \in ComponentRows /\ new.status = status /\ new.craft = NoAircraft /\ new.base = NoHours
      /\ new.time = time
  BY <1>2, RecomputedRow
<1>4. component' = [component EXCEPT ![c] = new]
  BY DEF CreateComponent, old
<1> HIDE DEF new
<1>5. /\ component \in [Components -> ComponentRows] /\ flown \in [Components -> Int]
      /\ newest[c] = NoEvent /\ ~There(c)
  BY DEF CInv, ComponentsTypeOK, Known, CreateComponent
<1>6. ComponentsTypeOK'
  BY <1>1, <1>3, <1>4 DEF CInv, ComponentsTypeOK, CreateComponent
<1>7. Known'
  BY <1>1, <1>3, <1>4, <1>5 DEF CInv, Known, There, Idle, CreateComponent
<1>8. OneLocker'
  BY DEF CInv, OneLocker, CreateComponent
<1>9. Pending'
  BY <1>5 DEF CInv, Pending, Known, Idle, Fit, Placed, Flown, Exhausted, CreateComponent
<1>10. OneOccupant'
  BY <1>1, <1>3, <1>4, <1>5 DEF CInv, OneOccupant
<1>11. HistoryTellsWhere'
  BY <1>1, <1>3, <1>4, <1>5 DEF CInv, HistoryTellsWhere, CreateComponent
<1>12. HoursAreFlown'
  BY <1>1, <1>3, <1>4, <1>5 DEF CInv, HoursAreFlown, TrueTime, There, CreateComponent
<1>13. LifeIsLeft
  BY <1>1, <1>3, <1>4, <1>5 DEF LifeIsLeft
<1>14. QED  BY <1>6, <1>7, <1>8, <1>9, <1>10, <1>11, <1>12, <1>13 DEF CInv

\* The updates read, and lock nothing.
LEMMA Updates ==
    ASSUME CInv, NEW r \in Requests, NEW c \in Components, NEW row \in ComponentRows, Idle(r),
           There(c), Writes(r, c, row), UNCHANGED <<component, newest, meter, flown, moved>>
    PROVE  CInv' /\ LifeIsLeft
<1>1. unsaved \in [Requests -> RequestRows]
  BY DEF CInv, ComponentsTypeOK
<1>2. /\ unsaved'[r] = [component |-> c, locks |-> FALSE, row |-> row, event |-> NoEvent,
                        changed |-> {k \in Columns : row[k] # component[c][k]}, moves |-> FALSE]
      /\ \A s \in Requests \ {r} : unsaved'[s] = unsaved[s]
  BY <1>1 DEF Writes
<1>3. NoEvent \in Events
  BY DEF NoEvent, Events, Statuses
<1>4. ComponentsTypeOK'
  BY <1>1, <1>3 DEF CInv, ComponentsTypeOK, Writes, RequestRows
<1>5. Known'
  BY <1>2 DEF CInv, Known, Idle, There
<1>6. OneLocker'
  BY <1>2 DEF CInv, OneLocker
<1>7. Pending'
  BY <1>2 DEF CInv, Pending, Idle, Fit, Flown, Placed, Exhausted
<1>8. (OneOccupant /\ HistoryTellsWhere /\ HoursAreFlown)'
  BY DEF CInv, OneOccupant, HistoryTellsWhere, HoursAreFlown, TrueTime, There
<1>9. LifeIsLeft
  BY DEF LifeIsLeft
<1>10. QED  BY <1>4, <1>5, <1>6, <1>7, <1>8, <1>9 DEF CInv

\* A commit gives the row its place; the index has the last word on it.
LEMMA CommittedMove ==
    ASSUME CInv, NEW r \in Requests, CommitMove(r)
    PROVE  CInv' /\ LifeIsLeft
<1> DEFINE q == unsaved[r]
           c == q.component
<1>1. unsaved \in [Requests -> RequestRows] /\ q \in RequestRows /\ q.locks /\ ~Idle(r)
  BY DEF CInv, ComponentsTypeOK, CommitMove
<1>2. c \in Components /\ q.row \in ComponentRows /\ q.event \in Events /\ q.moves \in BOOLEAN
      /\ There(c) /\ Fit(c, q.row, q.event, q.moves)
  BY <1>1 DEF RequestRows, Idle, CInv, Known, Pending
<1>3. component \in [Components -> ComponentRows] /\ newest \in [Components -> Events]
  BY DEF CInv, ComponentsTypeOK
<1>4. /\ component' = [component EXCEPT ![c] = q.row]
      /\ newest' = [newest EXCEPT ![c] = q.event]
      /\ moved' = IF q.moves THEN moved \cup {c} ELSE moved
      /\ unsaved' = [unsaved EXCEPT ![r] = NoRequest]
      /\ meter' = meter /\ flown' = flown
      /\ PositionFree(c, q.row)
  BY DEF CommitMove
<1>5. NoRequest \in RequestRows /\ NoRequest.component = NoComponent /\ ~NoRequest.locks
  BY DEF NoRequest, RequestRows, NoRow, NoEvent, ComponentRows, Events, Statuses, Hours
<1>6. /\ component'[c] = q.row /\ newest'[c] = q.event
      /\ \A d \in Components \ {c} : component'[d] = component[d] /\ newest'[d] = newest[d]
      /\ unsaved'[r] = NoRequest
      /\ \A s \in Requests \ {r} : unsaved'[s] = unsaved[s]
      /\ \A s \in Requests \ {r} : unsaved[s].locks => unsaved[s].component # c
  BY <1>1, <1>2, <1>3, <1>4 DEF CInv, OneLocker
<1>7. ComponentsTypeOK'
  BY <1>1, <1>2, <1>3, <1>4, <1>5 DEF CInv, ComponentsTypeOK
<1> HIDE DEF c, q
<1>8. Known'
  <2>1. \A s \in Requests : ~Idle(s) => unsaved[s].component \in Components
    BY <1>1 DEF RequestRows, Idle
  <2>2. QED  BY <1>2, <1>5, <1>6, <2>1 DEF CInv, Known, There, Idle, Fit
<1>9. OneLocker'
  BY <1>5, <1>6 DEF CInv, OneLocker
<1>10. Pending'
  BY <1>4, <1>5, <1>6 DEF CInv, Pending, Idle, Fit, Placed, Flown, Exhausted
<1>11. OneOccupant'
  BY <1>2, <1>4, <1>6 DEF CInv, OneOccupant, PositionFree
<1>12. HistoryTellsWhere'
  BY <1>2, <1>6 DEF CInv, HistoryTellsWhere, Fit, Placed, InstallEvent
<1>13. HoursAreFlown'
  BY <1>2, <1>4, <1>6 DEF CInv, HoursAreFlown, TrueTime, There, Fit, Flown
<1>14. LifeIsLeft
  BY <1>2, <1>6 DEF LifeIsLeft, Fit, Exhausted
<1>15. QED  BY <1>7, <1>8, <1>9, <1>10, <1>11, <1>12, <1>13, <1>14 DEF CInv

\* An update changes limit, time and remaining life, where nobody has the row locked.
LEMMA Corrects ==
    ASSUME CInv, NEW r \in Requests, CommitUpdate(r)
    PROVE  CInv' /\ LifeIsLeft
<1> DEFINE q == unsaved[r]
           c == q.component
           limit == IF "limit" \in q.changed THEN q.row.limit ELSE component[c].limit
           time == IF "time" \in q.changed THEN q.row.time ELSE component[c].time
           remaining == IF "remaining" \in q.changed THEN q.row.remaining ELSE component[c].remaining
           row == [component[c] EXCEPT !.limit = limit, !.time = time, !.remaining = remaining]
           hours == row.time + IF row.status = "installed" THEN meter[row.craft] - row.base ELSE 0
<1>1. unsaved \in [Requests -> RequestRows] /\ q \in RequestRows /\ ~q.locks /\ ~Idle(r)
  BY DEF CInv, ComponentsTypeOK, CommitUpdate
<1>2. c \in Components /\ q.row \in ComponentRows /\ There(c) /\ ~Locked(c)
  BY <1>1 DEF RequestRows, Idle, CInv, Known, CommitUpdate
<1>3. /\ component \in [Components -> ComponentRows] /\ flown \in [Components -> Int]
      /\ component[c] \in ComponentRows /\ flown[c] \in Int
      /\ component[c].status = "installed" =>
           component[c].base \in Int /\ meter[component[c].craft] \in Int
      /\ c \in moved \/ flown[c] = Flown(component[c])
  BY <1>2, Read DEF CInv, ComponentsTypeOK
<1>4. /\ row \in ComponentRows
      /\ row.status = component[c].status /\ row.craft = component[c].craft
      /\ row.position = component[c].position /\ row.base = component[c].base
      /\ row.time = time
  <2>1. limit \in Hours /\ time \in Int /\ remaining \in Hours
    BY <1>2, <1>3 DEF ComponentRows
  <2> HIDE DEF limit, time, remaining
  <2>2. QED  BY <2>1, <1>3 DEF ComponentRows
<1>5. row.time \in Int /\ ("time" \notin q.changed => row.time = component[c].time)
  BY <1>2, <1>3, <1>4 DEF ComponentRows
<1>6. /\ component' = [component EXCEPT ![c] = row]
      /\ flown' = IF "time" \in q.changed THEN [flown EXCEPT ![c] = hours] ELSE flown
      /\ unsaved' = [unsaved EXCEPT ![r] = NoRequest]
      /\ newest' = newest /\ meter' = meter /\ moved' = moved
  BY DEF CommitUpdate
<1> HIDE DEF row
<1>7. hours \in Int
  BY <1>3, <1>4, <1>5
<1>8. NoRequest \in RequestRows /\ NoRequest.component = NoComponent /\ ~NoRequest.locks
  BY DEF NoRequest, RequestRows, NoRow, NoEvent, ComponentRows, Events, Statuses, Hours
<1>9. /\ component'[c] = row
      /\ \A d \in Components \ {c} : component'[d] = component[d] /\ flown'[d] = flown[d]
      /\ c \in moved \/ flown'[c] = hours
      /\ unsaved'[r] = NoRequest
      /\ \A s \in Requests \ {r} : unsaved'[s] = unsaved[s]
      /\ \A s \in Requests : unsaved[s].locks => unsaved[s].component # c
  BY Zenon, <1>1, <1>2, <1>3, <1>4, <1>5, <1>6 DEF Locked, Flown
<1>10. ComponentsTypeOK'
  BY <1>1, <1>2, <1>3, <1>4, <1>6, <1>7, <1>8 DEF CInv, ComponentsTypeOK
<1>11. \A s \in Requests : ~Idle(s) => unsaved[s].component \in Components
  BY <1>1 DEF RequestRows, Idle
<1> HIDE DEF c, q
<1>12. Known'
  BY <1>2, <1>4, <1>6, <1>8, <1>9, <1>11 DEF CInv, Known, There, Idle
<1>13. OneLocker'
  BY <1>8, <1>9 DEF CInv, OneLocker
<1>14. Pending'
  BY <1>6, <1>8, <1>9, <1>11 DEF CInv, Pending, Idle, Fit, Placed, Flown, Exhausted
<1>15. OneOccupant'
  BY <1>2, <1>4, <1>9 DEF CInv, OneOccupant
<1>16. HistoryTellsWhere'
  BY <1>2, <1>4, <1>6, <1>9 DEF CInv, HistoryTellsWhere
<1>17. HoursAreFlown'
  BY <1>2, <1>6, <1>9 DEF CInv, HoursAreFlown, TrueTime, There
<1>18. LifeIsLeft
  BY <1>2, <1>4, <1>9 DEF LifeIsLeft
<1>19. QED  BY <1>10, <1>12, <1>13, <1>14, <1>15, <1>16, <1>17, <1>18 DEF CInv

LEMMA Fails ==
    ASSUME CInv, NEW r \in Requests, Rollback(r)
    PROVE  CInv' /\ LifeIsLeft
<1>1. NoRequest \in RequestRows /\ NoRequest.component = NoComponent /\ ~NoRequest.locks
  BY DEF NoRequest, RequestRows, NoRow, NoEvent, ComponentRows, Events, Statuses, Hours
<1>2. /\ unsaved \in [Requests -> RequestRows]
      /\ unsaved' = [unsaved EXCEPT ![r] = NoRequest]
      /\ UNCHANGED <<component, newest, meter, flown, moved>>
  BY DEF CInv, ComponentsTypeOK, Rollback
<1>3. ComponentsTypeOK'
  BY <1>1, <1>2 DEF CInv, ComponentsTypeOK
<1>4. Known' /\ OneLocker'
  BY <1>1, <1>2 DEF CInv, Known, There, Idle, OneLocker
<1>5. Pending'
  BY <1>1, <1>2 DEF CInv, Pending, Idle, Fit, Placed, Flown, Exhausted
<1>6. (OneOccupant /\ HistoryTellsWhere /\ HoursAreFlown)' /\ LifeIsLeft
  BY <1>2 DEF CInv, OneOccupant, HistoryTellsWhere, HoursAreFlown, TrueTime, There, LifeIsLeft
<1>7. QED  BY <1>3, <1>4, <1>5, <1>6 DEF CInv

\* An aircraft that flies carries no component that a handler has in its hands.
LEMMA Flies ==
    ASSUME CInv, NEW a \in Aircraft, Fly(a)
    PROVE  CInv' /\ LifeIsLeft
<1>1. /\ meter \in [Aircraft -> 0 .. MaxHours] /\ flown \in [Components -> Int]
      /\ component \in [Components -> ComponentRows] /\ unsaved \in [Requests -> RequestRows]
  BY DEF CInv, ComponentsTypeOK
<1>2. /\ meter' = [meter EXCEPT ![a] = @ + 1] /\ meter[a] < MaxHours
      /\ flown' = [c \in Components |->
                     IF component[c].status = "installed" /\ component[c].craft = a
                       THEN flown[c] + 1 ELSE flown[c]]
      /\ UNCHANGED <<component, newest, unsaved, moved>>
  BY DEF Fly
<1>3. ComponentsTypeOK'
  BY <1>1, <1>2, ComponentsAssumption DEF CInv, ComponentsTypeOK
<1>4. \A r \in Requests : ~Idle(r) => unsaved[r].component \in Components
  BY <1>1 DEF RequestRows, Idle
<1>5. Pending'
  <2> SUFFICES ASSUME NEW r \in Requests, unsaved[r].locks
               PROVE  /\ ~Idle(r)
                      /\ Fit(unsaved[r].component, unsaved[r].row, unsaved[r].event, unsaved[r].moves)'
    BY <1>2 DEF Pending, Idle
  <2> DEFINE c == unsaved[r].component
             row == unsaved[r].row
  <2>1. /\ ~Idle(r) /\ Fit(c, row, unsaved[r].event, unsaved[r].moves) /\ c \in Components
        /\ row \in ComponentRows
    BY <1>1, <1>4 DEF CInv, Pending, RequestRows
  <2>2. component[c].craft # a /\ row.craft # a
    BY <2>1 DEF Fly, WorkedOn
  <2>3. flown'[c] = flown[c]
    BY <1>2, <2>1, <2>2
  <2>4. row.status = "installed" => row.craft \in Aircraft
    BY <2>1 DEF Fit, Placed, ComponentRows
  <2>5. row.status = "installed" => meter'[row.craft] = meter[row.craft]
    BY <1>1, <1>2, <2>2, <2>4
  <2>6. Flown(row)' = Flown(row)
    BY <2>5, <1>2 DEF Flown
  <2>7. QED  BY <1>2, <2>1, <2>3, <2>6 DEF Fit, Placed, Exhausted
<1>6. HoursAreFlown'
  <2> SUFFICES ASSUME NEW c \in Components, c \notin moved, There(c)
               PROVE  flown'[c] = Flown(component[c])'
    BY <1>2 DEF HoursAreFlown, TrueTime, Flown, There
  <2> DEFINE row == component[c]
  <2>1. /\ row \in ComponentRows /\ row.time \in Int /\ flown[c] = Flown(row)
        /\ row.status = "installed" => row.craft \in Aircraft /\ row.base \in Int
                                       /\ meter[row.craft] \in Int
    BY Read DEF ComponentRows
  <2>2. CASE row.status = "installed" /\ row.craft = a
    BY <1>1, <1>2, <2>1, <2>2 DEF Flown
  <2>3. CASE ~(row.status = "installed" /\ row.craft = a)
    BY <1>1, <1>2, <2>1, <2>3 DEF Flown
  <2>4. QED  BY <2>2, <2>3
<1>7. (Known /\ OneLocker /\ OneOccupant /\ HistoryTellsWhere)' /\ LifeIsLeft
  BY <1>2 DEF CInv, Known, There, Idle, OneLocker, OneOccupant, HistoryTellsWhere, LifeIsLeft
<1>8. QED  BY <1>3, <1>5, <1>6, <1>7 DEF CInv

-----------------------------------------------------------------------------
(* Theorems                                                                *)

LEMMA CStart == Init => CInv
<1> SUFFICES ASSUME Init PROVE CInv
  OBVIOUS
<1>1. NoRow \in ComponentRows /\ NoEvent \in Events /\ NoRequest \in RequestRows
  BY DEF NoRequest, RequestRows, NoRow, NoEvent, ComponentRows, Events, Statuses, Hours
<1>2. ComponentsTypeOK
  BY <1>1 DEF Init, ComponentsTypeOK
<1>3. Known /\ OneLocker /\ Pending
  BY DEF Init, Known, OneLocker, Pending, Idle, There, NoRequest
<1>4. OneOccupant /\ HistoryTellsWhere /\ HoursAreFlown
  BY DEF Init, OneOccupant, HistoryTellsWhere, HoursAreFlown, TrueTime, There, NoRow
<1>5. QED  BY <1>2, <1>3, <1>4 DEF CInv

LEMMA CStep == CInv /\ [Next]_vars => CInv' /\ [LifeIsLeft]_vars
<1> SUFFICES ASSUME CInv, [Next]_vars PROVE CInv' /\ [LifeIsLeft]_vars
  OBVIOUS
<1>1. CASE UNCHANGED vars
  BY <1>1 DEF vars, CInv, ComponentsTypeOK, Known, There, Idle, OneLocker, Pending, Fit, Placed,
              Flown, Exhausted, OneOccupant, HistoryTellsWhere, HoursAreFlown, TrueTime
<1>2. CASE \E c \in Components, status \in Destinations, time \in 0 .. MaxHours,
              limit \in Limits \cup {NoHours} : CreateComponent(c, status, time, limit)
  BY <1>2, Creates
<1>3. CASE \E r \in Requests, c \in Components, a \in Aircraft, p \in Positions : Install(r, c, a, p)
  BY <1>3, Installs
<1>4. CASE \E r \in Requests, c \in Components, to \in Destinations : Remove(r, c, to)
  BY <1>4, Removes
<1>5. CASE \E r \in Requests, c \in Components, a \in Aircraft, p \in Positions :
              TransferInstall(r, c, a, p)
  BY <1>5, TransfersToAircraft
<1>6. CASE \E r \in Requests, c \in Components, to \in Destinations : TransferAway(r, c, to)
  BY <1>6, TransfersAway
<1>7. CASE \E r \in Requests, c \in Components, limit \in Limits : UpdateLifeLimits(r, c, limit)
  <2>1. PICK r \in Requests, c \in Components, limit \in Limits : UpdateLifeLimits(r, c, limit)
    BY <1>7
  <2> DEFINE old == [component[c] EXCEPT !.limit = limit]
  <2>2. old \in ComponentRows
    <3>1. component[c] \in ComponentRows /\ limit \in Hours
      BY ComponentsAssumption DEF CInv, ComponentsTypeOK, Hours
    <3>2. QED  BY <3>1, CorrectedRow
  <2>3. Writes(r, c, Recomputed(old))
    BY <2>1 DEF UpdateLifeLimits
  <2> HIDE DEF old
  <2> DEFINE new == Recomputed(old)
  <2>4. new \in ComponentRows /\ Writes(r, c, new)
    BY <2>2, <2>3, RecomputedRow
  <2> HIDE DEF new
  <2>5. QED  BY <2>1, <2>4, Updates DEF UpdateLifeLimits
<1>8. CASE \E r \in Requests, c \in Components, time \in 0 .. MaxHours : UpdateTimeCycles(r, c, time)
  <2>1. PICK r \in Requests, c \in Components, time \in 0 .. MaxHours : UpdateTimeCycles(r, c, time)
    BY <1>8
  <2> DEFINE old == [component[c] EXCEPT !.time = time]
  <2>2. old \in ComponentRows
    <3>1. component[c] \in ComponentRows /\ time \in Int
      BY DEF CInv, ComponentsTypeOK
    <3>2. QED  BY <3>1, CorrectedRow
  <2>3. Writes(r, c, Recomputed(old))
    BY <2>1 DEF UpdateTimeCycles
  <2> HIDE DEF old
  <2> DEFINE new == Recomputed(old)
  <2>4. new \in ComponentRows /\ Writes(r, c, new)
    BY <2>2, <2>3, RecomputedRow
  <2> HIDE DEF new
  <2>5. QED  BY <2>1, <2>4, Updates DEF UpdateTimeCycles
<1>9. CASE \E r \in Requests : CommitMove(r)
  BY <1>9, CommittedMove
<1>10. CASE \E r \in Requests : CommitUpdate(r)
  BY <1>10, Corrects
<1>11. CASE \E r \in Requests : Rollback(r)
  BY <1>11, Fails
<1>12. CASE \E a \in Aircraft : Fly(a)
  BY <1>12, Flies
<1>13. QED
  BY <1>1, <1>2, <1>3, <1>4, <1>5, <1>6, <1>7, <1>8, <1>9, <1>10, <1>11, <1>12 DEF Next

LEMMA CAlways == Spec => []CInv
BY CStart, CStep, PTL DEF Spec

\* The rows keep the types of the tables.
THEOREM ComponentTypes == Spec => []ComponentsTypeOK
<1>1. CInv => ComponentsTypeOK
  BY DEF CInv
<1>2. QED  BY CAlways, <1>1, PTL

\* uq_aircraft_position_occupant: one component in a position, although the handlers look
\* without a lock.
THEOREM Occupancy == Spec => []OneOccupant
<1>1. CInv => OneOccupant
  BY DEF CInv
<1>2. QED  BY CAlways, <1>1, PTL

\* The newest row of the history says where a component is.
THEOREM History == Spec => []HistoryTellsWhere
<1>1. CInv => HistoryTellsWhere
  BY DEF CInv
<1>2. QED  BY CAlways, <1>1, PTL

\* The hours of a component are those it has flown, unless a transfer took it from one
\* aircraft to another.
THEOREM FlownHours == Spec => []HoursAreFlown
<1>1. CInv => HoursAreFlown
  BY DEF CInv
<1>2. QED  BY CAlways, <1>1, PTL

\* No component whose life is spent is installed.
THEOREM LifeLeft == Spec => LifeLeftWhenInstalled
<1>1. CInv /\ [Next]_vars => [LifeIsLeft]_vars
  BY CStep
<1>2. QED  BY CAlways, <1>1, PTL DEF Spec, LifeLeftWhenInstalled, LifeIsLeft

=============================================================================

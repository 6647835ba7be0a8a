----------------------------- MODULE MCInventory -----------------------------
(***************************************************************************)
(* Instances of Inventory for TLC.                                         *)
(***************************************************************************)
EXTENDS Inventory, TLC

CONSTANTS l1, l2, r1, r2, w1, w2, t1

MCPlaces == {<<l1, "serviceable">>, <<l2, "serviceable">>, <<l1, "quarantine">>}

\* A correction down in one bin that is only found, in part, in another.
MCBulkLines == {[p \in Places |-> IF p[2] # "serviceable" THEN 0 ELSE IF p[1] = l1 THEN -1 ELSE 1]}

\* What follows a stale write is not explored; the state it leads to is checked.
\* Nor is what others start beside a request that has been overtaken: it can only
\* abort, which leaves what was there, or make the stale write.
UntilStale == ~stale /\ \A w \in Running : request[w].late # {} => Running = {w}

\* Of the two reservations and the transfer, two are there at most.
TwoDocuments == \E x \in Reservations \cup Transfers :
    IF x \in Reservations THEN reservation[x].status = "absent"
    ELSE transfer[x].status = "absent"

\* No action and no property reads more of a reservation or transfer that is
\* finished than what this view keeps.  Of the ledger it keeps whether it shows
\* more than is on hand: a request decides by the rest how much it adds to that.
FinishedReservation(row) ==
    [NoReservation EXCEPT !.status = "released", !.spent = IF row.spent + row.qty = row.asked THEN 0 ELSE 1]
MCView ==
    <<stock, [p \in Places |-> Lesser(ledger[p] - stock[p].hand, 1)], request, stale,
      [r \in Reservations |-> IF reservation[r].status \in {"issued", "released"}
                              THEN FinishedReservation(reservation[r]) ELSE reservation[r]],
      [t \in Transfers |-> IF transfer[t].status = "completed" THEN "completed" ELSE transfer[t]]>>

MCSymmetry == Permutations(Workers) \cup Permutations(Reservations)
=============================================================================

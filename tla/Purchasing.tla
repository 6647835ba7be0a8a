----------------------------- MODULE Purchasing -----------------------------
(***************************************************************************)
(* From the purchase request to the goods in stock, and the workflow       *)
(* instance that mirrors the order (backend/app/logistics/service.py,      *)
(* backend/app/platform/workflow_bridge.py).                               *)
(*                                                                         *)
(* Every handler locks the row it starts from (FOR UPDATE) and commits     *)
(* once, with three exceptions, each cut where another request may come    *)
(* between: add_quote reads the RFQ without a lock; close_purchase_order,  *)
(* when the workflow definition is missing, commits it and so gives up its *)
(* lock before it writes; and the mirror is read and written by            *)
(* transactions of their own after the commit.  A request may die between  *)
(* any two of its transactions.                                            *)
(***************************************************************************)
EXTENDS Integers, Sequences, FiniteSets, Functions

CONSTANTS PurchaseRequests, Rfqs, Quotes, Orders, Receipts, \* identifiers of rows
          Lines,      \* lines a purchase request, and so its order, may have
          Quantities, \* quantities of a line
          MaxEntries, \* bound: lines of one receipt
          None        \* no row

ASSUME PurchasingAssumption ==
    /\ Quantities \subseteq Nat \ {0}
    /\ MaxEntries \in Nat \ {0}
    /\ IsFiniteSet(Receipts)
    /\ None \notin PurchaseRequests \cup Rfqs \cup Quotes \cup Orders

VARIABLES request,  \* logistics_purchase_requests with their lines
          rfq,      \* logistics_rfqs with their quotes
          quoting,  \* add_quote requests that found their RFQ open
          order,    \* logistics_purchase_orders with their lines
          closing,  \* close requests that lost the lock, with the status they read
          receipt,  \* logistics_receipts with their lines
          shelf,    \* per order line, what putaway has booked, by condition
          defined,  \* the workflow definition logistics.purchase_order exists
          mirror,   \* platform_workflow_instances, per order
          syncs,    \* requests about to write the mirror
          astray    \* history: orders whose mirror missed an update

purchaseVars == <<request, rfq, quoting, order, closing, receipt, shelf, defined, mirror, syncs, astray>>
buying == <<request, rfq, quoting>>
mirroring == <<mirror, astray>>

OrderStatuses == {"absent", "open", "partial", "received", "closed"}
Marks == {"pending", "accepted", "rejected"}

\* One entry of a receipt: the order line it is for, its quantity and inspection.
Entries == [line : Lines, qty : Quantities, mark : Marks]
Amounts == UNION {0..q : q \in Quantities}
OrderLines == [ordered : Quantities, received : Amounts, backordered : Amounts,
               status : {"open", "partial", "received", "closed"}]

RequestRows == [status : {"absent", "draft", "approved", "rfq", "po_created"},
                need : UNION {[L -> Quantities] : L \in SUBSET Lines}]
RfqRows == [status : {"absent", "open", "closed"}, of : PurchaseRequests \cup {None},
            quotes : SUBSET Quotes, chosen : Quotes \cup {None}]
OrderRows == [status : OrderStatuses, of : PurchaseRequests \cup {None},
              vendor : Quotes \cup {None}, lines : UNION {[L -> OrderLines] : L \in SUBSET Lines}]
ReceiptRows == [status : {"absent", "inspection", "closed"}, of : Orders \cup {None},
                entries : Seq(Entries)]
Instances == [states : Seq(OrderStatuses), latest : Nat]
Syncs == [order : Orders, to : OrderStatuses \ {"absent"}, read : BOOLEAN, at : Nat,
          seen : OrderStatuses \cup {"none"}]

NoRequest == [status |-> "absent", need |-> <<>>]
NoRfq == [status |-> "absent", of |-> None, quotes |-> {}, chosen |-> None]
NoOrder == [status |-> "absent", of |-> None, vendor |-> None, lines |-> <<>>]
NoReceipt == [status |-> "absent", of |-> None, entries |-> <<>>]
NoInstance == [states |-> <<>>, latest |-> 0]

PurchasingInit ==
    /\ request = [r \in PurchaseRequests |-> NoRequest]
    /\ rfq = [f \in Rfqs |-> NoRfq]
    /\ quoting = {}
    /\ order = [o \in Orders |-> NoOrder]
    /\ closing = {}
    /\ receipt = [d \in Receipts |-> NoReceipt]
    /\ shelf = [o \in Orders |-> [l \in Lines |-> [serviceable |-> 0, quarantine |-> 0]]]
    /\ defined \in BOOLEAN
    /\ mirror = [o \in Orders |-> NoInstance]
    /\ syncs = {}
    /\ astray = {}

-----------------------------------------------------------------------------
(* Helpers                                                                 *)

\* Faulty: an order that is delivered in part has to be received first.
TransitionsInTurn(status) ==
    CASE status = "open" -> {"partial", "received", "closed", "cancelled"}
      [] status = "partial" -> {"partial", "received", "cancelled"}
      [] status = "received" -> {"closed", "returned", "cancelled"}
      [] OTHER -> {}

\* The transitions of the definition the bridge seeds.
POTransitions(status) ==
    CASE status \in {"open", "partial"} -> {"partial", "received", "closed", "cancelled"}
      [] status = "received" -> {"closed", "returned", "cancelled"}
      [] status = "returned" -> {"closed"}
      [] OTHER -> {}

\* The quantity the entries of a receipt bring for a line, with one of the marks.
Total(entries, l, marks) ==
    SumFunctionOnSet([i \in DOMAIN entries |-> entries[i].qty],
                     {i \in DOMAIN entries : entries[i].line = l /\ entries[i].mark \in marks})

Outstanding(line) == line.ordered - line.received

\* A line once n more have arrived.
Arrived(line, n) ==
    LET left == line.ordered - (line.received + n)
    IN  IF n = 0 THEN line
        ELSE [line EXCEPT !.received = @ + n, !.backordered = left,
                          !.status = IF left <= 0 THEN "received" ELSE "partial"]

\* Faulty: the order is received as soon as one of its lines is.
AnyLineStatus(lines) ==
    IF \A l \in DOMAIN lines : lines[l].backordered > 0 THEN "partial" ELSE "received"

OrderStatus(lines) ==
    IF \E l \in DOMAIN lines : lines[l].backordered > 0 THEN "partial" ELSE "received"

\* A request that has committed goes on to mirror the status it has written.
ThenSync(o, status) == [order |-> o, to |-> status, read |-> FALSE, at |-> 0, seen |-> "none"]

-----------------------------------------------------------------------------
(* Request, quotation, order                                               *)

CreatePurchaseRequest(r) ==
    /\ request[r].status = "absent"
    /\ \E L \in SUBSET Lines \ {{}} : \E need \in [L -> Quantities] :
           request' = [request EXCEPT ![r] = [status |-> "draft", need |-> need]]
    /\ UNCHANGED <<rfq, quoting, order, closing, receipt, shelf, defined, syncs, mirroring>>

ApprovePurchaseRequest(r) ==
    /\ request[r].status = "draft"
    /\ request' = [request EXCEPT ![r].status = "approved"]
    /\ UNCHANGED <<rfq, quoting, order, closing, receipt, shelf, defined, syncs, mirroring>>

CreateRfq(f, r) ==
    /\ request[r].status = "approved"
    /\ rfq[f].status = "absent"
    /\ rfq' = [rfq EXCEPT ![f] = [NoRfq EXCEPT !.status = "open", !.of = r]]
    /\ request' = [request EXCEPT ![r].status = "rfq"]
    /\ UNCHANGED <<quoting, order, closing, receipt, shelf, defined, syncs, mirroring>>

\* add_quote reads the RFQ without a lock ...
BeginQuote(f, q) ==
    /\ rfq[f].status = "open"
    /\ \A g \in Rfqs : q \notin rfq[g].quotes
    /\ \A other \in quoting : other[2] # q
    /\ quoting' = quoting \cup {<<f, q>>}
    /\ UNCHANGED <<request, rfq, order, closing, receipt, shelf, defined, syncs, mirroring>>

\* ... so that the quote may come in after the order was placed.
AddQuote(f, q) ==
    /\ <<f, q>> \in quoting
    /\ quoting' = quoting \ {<<f, q>>}
    /\ rfq' = [rfq EXCEPT ![f].quotes = @ \cup {q}]
    /\ UNCHANGED <<request, order, closing, receipt, shelf, defined, syncs, mirroring>>

\* The status of the RFQ is not asked for: the choice may change after the order.
SelectQuote(f, q) ==
    /\ q \in rfq[f].quotes
    /\ rfq' = [rfq EXCEPT ![f].chosen = q]
    /\ UNCHANGED <<request, quoting, order, closing, receipt, shelf, defined, syncs, mirroring>>

OrderedLines(need) ==
    [l \in DOMAIN need |-> [ordered |-> need[l], received |-> 0, backordered |-> need[l], status |-> "open"]]

MayOrder(f) == rfq[f].status = "open" /\ rfq[f].chosen # None

CreatePurchaseOrder(o, f) ==
    /\ MayOrder(f)
    /\ order[o].status = "absent"
    /\ order' = [order EXCEPT ![o] = [status |-> "open", of |-> rfq[f].of, vendor |-> rfq[f].chosen,
                                      lines |-> OrderedLines(request[rfq[f].of].need)]]
    /\ rfq' = [rfq EXCEPT ![f].status = "closed"]
    /\ request' = [request EXCEPT ![rfq[f].of].status = "po_created"]
    /\ syncs' = syncs \cup {ThenSync(o, "open")}
    /\ UNCHANGED <<quoting, closing, receipt, shelf, defined, mirroring>>

-----------------------------------------------------------------------------
(* Goods in                                                                *)

\* Faulty: every entry is compared with what was outstanding before the receipt.
EachFits(lines, entries) ==
    \A i \in DOMAIN entries :
        /\ entries[i].line \in DOMAIN lines
        /\ entries[i].qty <= Outstanding(lines[entries[i].line])

\* The entries are booked one by one, each against what those before it have left.
Fits(lines, entries) ==
    \A i \in DOMAIN entries :
        /\ entries[i].line \in DOMAIN lines
        /\ Total(entries, entries[i].line, Marks) <= Outstanding(lines[entries[i].line])

\* receive_purchase_order holds the order's lock up to the commit that writes
\* everything, be it its own or that of a missing definition.
Receive(d, o, entries) ==
    /\ order[o].status \in OrderStatuses \ {"absent", "closed"}
    /\ receipt[d].status = "absent"
    /\ Fits(order[o].lines, entries)
    /\ LET lines == [l \in DOMAIN order[o].lines |->
                         Arrived(order[o].lines[l], Total(entries, l, Marks))]
           status == OrderStatus(lines)
       IN  /\ order' = [order EXCEPT ![o].lines = lines, ![o].status = status]
           /\ IF status = order[o].status
              THEN UNCHANGED <<defined, syncs>>
              ELSE /\ status \in POTransitions(order[o].status)
                   /\ defined' = TRUE
                   /\ syncs' = syncs \cup {ThenSync(o, status)}
    /\ receipt' = [receipt EXCEPT ![d] = [status |-> "inspection", of |-> o, entries |-> entries]]
    /\ UNCHANGED <<buying, closing, shelf, mirroring>>

\* Faulty: the inspection asks for no status.
ReceiptExists(d) == receipt[d].status # "absent"

MayInspect(d) == receipt[d].status = "inspection"

\* mark decides about some of the entries, also those decided about before.
InspectReceipt(d, mark) ==
    /\ MayInspect(d)
    /\ receipt' = [receipt EXCEPT
                     ![d].entries = [i \in DOMAIN @ |-> IF i \in DOMAIN mark
                                                        THEN [@[i] EXCEPT !.mark = mark[i]] ELSE @[i]]]
    /\ UNCHANGED <<buying, order, closing, shelf, defined, syncs, mirroring>>

\* Faulty: a receipt that is closed is not refused.
Inspected(d) ==
    /\ receipt[d].status # "absent"
    /\ \A i \in DOMAIN receipt[d].entries : receipt[d].entries[i].mark # "pending"

MayPutAway(d) ==
    /\ receipt[d].status \notin {"absent", "closed"}
    /\ \A i \in DOMAIN receipt[d].entries : receipt[d].entries[i].mark # "pending"

PutawayReceipt(d) ==
    /\ MayPutAway(d)
    /\ shelf' = [shelf EXCEPT ![receipt[d].of] = [l \in Lines |->
                   [serviceable |-> @[l].serviceable + Total(receipt[d].entries, l, {"accepted"}),
                    quarantine |-> @[l].quarantine + Total(receipt[d].entries, l, {"rejected"})]]]
    /\ receipt' = [receipt EXCEPT ![d].status = "closed"]
    /\ UNCHANGED <<buying, order, closing, defined, syncs, mirroring>>

-----------------------------------------------------------------------------
(* Closing                                                                 *)

\* The order read with status was closed: lines not received in full are given up.
Closed(o) == [order[o] EXCEPT !.status = "closed",
                !.lines = [l \in DOMAIN @ |-> IF @[l].status = "received" THEN @[l]
                                              ELSE [@[l] EXCEPT !.status = "closed"]]]

ClosePurchaseOrder(o) ==
    /\ order[o].status # "absent" /\ defined
    /\ "closed" \in POTransitions(order[o].status)
    /\ order' = [order EXCEPT ![o] = Closed(o)]
    /\ syncs' = syncs \cup {ThenSync(o, "closed")}
    /\ UNCHANGED <<buying, closing, receipt, shelf, defined, mirroring>>

\* The definition is missing: it is committed, and the lock on the order is gone.
CloseDefines(o) ==
    /\ order[o].status # "absent" /\ ~defined
    /\ "closed" \in POTransitions(order[o].status)
    /\ defined' = TRUE
    /\ closing' = closing \cup {o}
    /\ UNCHANGED <<buying, order, receipt, shelf, syncs, mirroring>>

\* The transition was checked from the status read before; the lines are read now.
CloseGoesOn(o) ==
    /\ o \in closing
    /\ closing' = closing \ {o}
    /\ order' = [order EXCEPT ![o] = Closed(o)]
    /\ syncs' = syncs \cup {ThenSync(o, "closed")}
    /\ UNCHANGED <<buying, receipt, shelf, defined, mirroring>>

-----------------------------------------------------------------------------
(* The mirror                                                              *)

\* sync_instance takes the instance that was updated last.
SyncReads(s) ==
    /\ ~s.read
    /\ defined' = TRUE
    /\ LET m == mirror[s.order]
       IN  syncs' = (syncs \ {s}) \cup
             {[s EXCEPT !.read = TRUE, !.at = m.latest,
                        !.seen = IF m.latest = 0 THEN "none" ELSE m.states[m.latest]]}
    /\ UNCHANGED <<buying, order, closing, receipt, shelf, mirroring>>

\* start_workflow for a first instance; else a transition the definition allows,
\* from the state read; anything else is swallowed.
Writes(s) == s.at = 0 \/ (s.to # s.seen /\ s.to \in POTransitions(s.seen))

MirrorAfter(m, s) ==
    IF ~Writes(s) THEN m
    ELSE IF s.at = 0 THEN [states |-> Append(m.states, s.to), latest |-> Len(m.states) + 1]
    ELSE [states |-> [m.states EXCEPT ![s.at] = s.to], latest |-> s.at]

\* The mirror changed between the two steps: two of its requests overlapped.
Overtaken(s) == \/ mirror[s.order].latest # s.at
                \/ s.at # 0 /\ mirror[s.order].states[s.at] # s.seen

SyncWrites(s) ==
    /\ s.read
    /\ mirror' = [mirror EXCEPT ![s.order] = MirrorAfter(@, s)]
    /\ syncs' = syncs \ {s}
    /\ astray' = IF Overtaken(s) THEN astray \cup {s.order} ELSE astray
    /\ UNCHANGED <<buying, order, closing, receipt, shelf, defined>>

\* The process dies after a commit: what the request had left to do is not done.
Crash ==
    \/ \E s \in syncs : /\ syncs' = syncs \ {s}
                        /\ astray' = astray \cup {s.order}
                        /\ UNCHANGED <<buying, order, closing, receipt, shelf, defined, mirror>>
    \/ \E o \in closing : /\ closing' = closing \ {o}
                          /\ UNCHANGED <<buying, order, receipt, shelf, defined, syncs, mirroring>>
    \/ \E p \in quoting : /\ quoting' = quoting \ {p}
                          /\ UNCHANGED <<request, rfq, order, closing, receipt, shelf, defined, syncs, mirroring>>

-----------------------------------------------------------------------------
(* The whole                                                               *)

EntryLists == UNION {[1..n -> [line : Lines, qty : Quantities, mark : {"pending"}]] : n \in 1..MaxEntries}
MarkLists(d) == UNION {[I -> Marks \ {"pending"}] : I \in (SUBSET DOMAIN receipt[d].entries) \ {{}}}

BuyNext ==
    \/ \E r \in PurchaseRequests : CreatePurchaseRequest(r) \/ ApprovePurchaseRequest(r)
    \/ \E f \in Rfqs, r \in PurchaseRequests : CreateRfq(f, r)
    \/ \E f \in Rfqs, q \in Quotes : BeginQuote(f, q) \/ AddQuote(f, q) \/ SelectQuote(f, q)
    \/ \E o \in Orders, f \in Rfqs : CreatePurchaseOrder(o, f)

GoodsNext ==
    \/ \E d \in Receipts, o \in Orders : \E entries \in EntryLists : Receive(d, o, entries)
    \/ \E d \in Receipts : \/ \E mark \in MarkLists(d) : InspectReceipt(d, mark)
                           \/ PutawayReceipt(d)

CloseNext == \E o \in Orders : ClosePurchaseOrder(o) \/ CloseDefines(o) \/ CloseGoesOn(o)

SyncStep == \E s \in syncs : SyncReads(s) \/ SyncWrites(s)

PurchasingNext == BuyNext \/ GoodsNext \/ CloseNext \/ SyncStep \/ Crash

\* A request that is left alone goes on to its next transaction: nothing blocks
\* the server thread that runs it.
PurchasingSpec ==
    PurchasingInit /\ [][PurchasingNext]_purchaseVars /\ WF_purchaseVars(SyncStep)

-----------------------------------------------------------------------------
(* Properties                                                              *)

\* Type invariant: the rows have the columns and statuses of the tables, an instance of
\* the mirror that a request has read is still there when the request writes it.
PurchasingTypeOK ==
    /\ request \in [PurchaseRequests -> RequestRows]
    /\ rfq \in [Rfqs -> RfqRows]
    /\ quoting \subseteq Rfqs \X Quotes
    /\ order \in [Orders -> OrderRows]
    /\ closing \subseteq Orders
    /\ receipt \in [Receipts -> ReceiptRows]
    /\ shelf \in [Orders -> [Lines -> [serviceable : Nat, quarantine : Nat]]]
    /\ defined \in BOOLEAN
    /\ mirror \in [Orders -> Instances]
    /\ \A o \in Orders : mirror[o].latest \in DOMAIN mirror[o].states \cup {0}
    /\ syncs \subseteq Syncs
    /\ \A s \in syncs : s.at \in DOMAIN mirror[s.order].states \cup {0}
    /\ astray \subseteq Orders

\* A purchase request ends in one purchase order: create_rfq and
\* create_purchase_order_from_rfq lock and move on the rows they start from.
OneOrderPerRequest ==
    \A o1, o2 \in Orders : /\ order[o1].status # "absent" /\ order[o2].status # "absent"
                           /\ order[o1].of = order[o2].of
                           => o1 = o2

\* What the receipts of an order bring for a line, put away or not.
Brought(o, l, marks, statuses) ==
    SumFunctionOnSet([d \in Receipts |-> Total(receipt[d].entries, l, marks)],
                     {d \in Receipts : receipt[d].of = o /\ receipt[d].status \in statuses})

\* However the goods arrive, in parts, over several receipts and several entries of
\* one receipt, the columns of an order line agree with its receipts and no line is
\* received beyond what was ordered (receive_purchase_order).
ReceivedIsDelivered ==
    \A o \in Orders : \A l \in DOMAIN order[o].lines :
        LET line == order[o].lines[l]
        IN  /\ line.received = Brought(o, l, Marks, {"inspection", "closed"})
            /\ line.received <= line.ordered
            /\ line.backordered = line.ordered - line.received

\* Stock gets every inspected entry once: what was accepted as serviceable, what was
\* rejected into quarantine, however often the receipt was inspected before
\* (inspect_receipt, putaway_receipt).
ShelvedOnce ==
    \A o \in Orders, l \in Lines :
        /\ shelf[o][l].serviceable = Brought(o, l, {"accepted"}, {"closed"})
        /\ shelf[o][l].quarantine = Brought(o, l, {"rejected"}, {"closed"})

\* The order's status sums up its lines, also when it is closed by a request that lost
\* its lock on it while goods arrived (receive_purchase_order, close_purchase_order).
StatusFollowsLines ==
    \A o \in Orders :
        LET lines == order[o].lines
            missing == {l \in DOMAIN lines : lines[l].backordered > 0}
        IN  /\ order[o].status = "open" => \A l \in DOMAIN lines : lines[l].received = 0
            /\ order[o].status = "partial" => missing # {} /\ \E l \in DOMAIN lines : lines[l].received > 0
            /\ order[o].status = "received" => missing = {}
            /\ order[o].status = "closed" => \A l \in missing : lines[l].status = "closed"
            /\ \A l \in DOMAIN lines : lines[l].status = "received" <=> l \notin missing

\* The lines of all orders, as the items of the abstract flow of goods.
Flow == INSTANCE OrderFlow WITH
    Items <- Orders \X Lines,
    ordered <- [i \in Orders \X Lines |-> IF i[2] \in DOMAIN order[i[1]].lines
                                          THEN order[i[1]].lines[i[2]].ordered ELSE 0],
    delivered <- [i \in Orders \X Lines |-> IF i[2] \in DOMAIN order[i[1]].lines
                                            THEN order[i[1]].lines[i[2]].received ELSE 0],
    stored <- [i \in Orders \X Lines |-> shelf[i[1]][i[2]].serviceable + shelf[i[1]][i[2]].quarantine]

\* Purchasing keeps the promise of OrderFlow: nothing is ordered twice, delivered
\* beyond the order, stored beyond the delivery or taken back.
ImplementsOrderFlow == Flow!FlowSpec

Mirrored(o) == IF mirror[o].latest = 0 THEN "none" ELSE mirror[o].states[mirror[o].latest]

\* A closed order ends up closed in the mirror, in whatever order its updates are
\* written, unless two of them overlapped or one died on the way (sync_instance).
ClosedReachesMirror ==
    \A o \in Orders : order[o].status = "closed" ~> Mirrored(o) = "closed" \/ o \in astray
=============================================================================

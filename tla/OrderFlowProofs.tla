--------------------------- MODULE OrderFlowProofs ---------------------------
(***************************************************************************)
(* Theorems about the two modules that implement OrderFlow, for every      *)
(* value of their constants.                                               *)
(*                                                                         *)
(* Purchasing: nothing requested is ordered twice, what an order line      *)
(* counts as received is what its receipts delivered, and putaway books    *)
(* what they accepted.  MaterialRequests: what is reserved is what open    *)
(* reservations promise, no goods are lost, and a request that is done     *)
(* with holds nothing back.                                                *)
(***************************************************************************)
EXTENDS Purchasing, MaterialRequests, Sums, TLAPS

LineTables(S) == UNION {[L -> S] : L \in SUBSET Lines}

\* A purchase request is at most in one RFQ and ends in one order, and its status tells
\* how far it is.
BuyingInTurn ==
    /\ \A f \in Rfqs :
           rfq[f].status # "absent" =>
               /\ rfq[f].of \in PurchaseRequests
               /\ request[rfq[f].of].status = IF rfq[f].status = "open" THEN "rfq" ELSE "po_created"
    /\ \A f, g \in Rfqs :
           rfq[f].status # "absent" /\ rfq[g].status # "absent" /\ rfq[f].of = rfq[g].of => f = g
    /\ \A o \in Orders :
           order[o].status # "absent" =>
               /\ order[o].of \in PurchaseRequests
               /\ request[order[o].of].status = "po_created"

\* An order that is not there has no line, a receipt is for lines of an order, and only
\* an order can lose its lock.
GoodsBelong ==
    /\ \A o \in Orders : order[o].status = "absent" => DOMAIN order[o].lines = {}
    /\ \A d \in Receipts :
           receipt[d].status # "absent" =>
               /\ receipt[d].of \in Orders
               /\ order[receipt[d].of].status # "absent"
               /\ \A i \in DOMAIN receipt[d].entries :
                      receipt[d].entries[i].line \in DOMAIN order[receipt[d].of].lines
    /\ \A o \in closing : order[o].status # "absent"

\* The inductive invariant.
PurchasingInv ==
    /\ PurchasingTypeOK /\ BuyingInTurn /\ GoodsBelong
    /\ OneOrderPerRequest /\ ReceivedIsDelivered /\ ShelvedOnce /\ StatusFollowsLines

-----------------------------------------------------------------------------
(* Types                                                                   *)

LEMMA LineTable ==
    ASSUME NEW S, NEW v
    PROVE  v \in LineTables(S) <=> DOMAIN v \subseteq Lines /\ v \in [DOMAIN v -> S]
BY DEF LineTables

LEMMA EmptyTable == ASSUME NEW S PROVE <<>> \in LineTables(S) /\ DOMAIN <<>> = {}
<1>1. DOMAIN <<>> = {}
  OBVIOUS
<1>2. <<>> \in [{} -> S]
  OBVIOUS
<1> QED BY <1>1, <1>2 DEF LineTables

LEMMA Numbers ==
    /\ \A q \in Quantities : q \in Nat /\ q > 0
    /\ \A n \in Amounts : n \in Nat
<1>1. \A q \in Quantities : q \in Nat /\ q > 0
  BY PurchasingAssumption
<1>2. ASSUME NEW n \in Amounts PROVE n \in Nat
  <2>1. PICK q \in Quantities : n \in 0..q
    BY DEF Amounts
  <2> QED BY <1>1, <2>1
<1> QED BY <1>1, <1>2

LEMMA EmptyRows ==
    /\ NoRequest \in RequestRows /\ NoRfq \in RfqRows /\ NoOrder \in OrderRows
    /\ NoReceipt \in ReceiptRows /\ NoInstance \in Instances
<1>1. NoRequest \in RequestRows
  BY EmptyTable DEF NoRequest, RequestRows, LineTables
<1>2. NoRfq \in RfqRows
  BY DEF NoRfq, RfqRows
<1>3. NoOrder \in OrderRows
  BY EmptyTable DEF NoOrder, OrderRows, LineTables, OrderStatuses
<1>4. NoReceipt \in ReceiptRows
  BY DEF NoReceipt, ReceiptRows
<1>5. NoInstance \in Instances
  BY DEF NoInstance, Instances
<1> QED BY <1>1, <1>2, <1>3, <1>4, <1>5

LEMMA TypesStart == PurchasingInit => PurchasingTypeOK
<1> SUFFICES ASSUME PurchasingInit PROVE PurchasingTypeOK
  OBVIOUS
<1>1. \A o \in Orders : mirror[o].latest \in DOMAIN mirror[o].states \cup {0}
  BY DEF PurchasingInit, NoInstance
<1> QED BY <1>1, EmptyRows DEF PurchasingInit, PurchasingTypeOK

LEMMA BuyTypes ==
    ASSUME PurchasingTypeOK, BuyingInTurn, BuyNext
    PROVE  PurchasingTypeOK'
<1> USE DEF PurchasingTypeOK
<1>1. CASE \E r \in PurchaseRequests : CreatePurchaseRequest(r) \/ ApprovePurchaseRequest(r)
  <2>1. ASSUME NEW r \in PurchaseRequests, CreatePurchaseRequest(r) PROVE PurchasingTypeOK'
    <3>1. PICK L \in SUBSET Lines : \E need \in [L -> Quantities] :
              request' = [request EXCEPT ![r] = [status |-> "draft", need |-> need]]
      BY <2>1 DEF CreatePurchaseRequest
    <3>2. request' \in [PurchaseRequests -> RequestRows]
      BY <3>1 DEF RequestRows
    <3> QED BY <2>1, <3>2 DEF CreatePurchaseRequest, mirroring
  <2>2. ASSUME NEW r \in PurchaseRequests, ApprovePurchaseRequest(r) PROVE PurchasingTypeOK'
    <3>1. request' \in [PurchaseRequests -> RequestRows]
      BY <2>2 DEF RequestRows, ApprovePurchaseRequest
    <3> QED BY <2>2, <3>1 DEF ApprovePurchaseRequest, mirroring
  <2> QED BY <1>1, <2>1, <2>2
<1>2. ASSUME NEW f \in Rfqs, NEW r \in PurchaseRequests, CreateRfq(f, r) PROVE PurchasingTypeOK'
  <2>1. request' \in [PurchaseRequests -> RequestRows]
    BY <1>2 DEF RequestRows, CreateRfq
  <2>2. rfq' \in [Rfqs -> RfqRows]
    BY <1>2 DEF RfqRows, CreateRfq, NoRfq
  <2> QED BY <1>2, <2>1, <2>2 DEF CreateRfq, mirroring
<1>3. ASSUME NEW f \in Rfqs, NEW q \in Quotes, BeginQuote(f, q) \/ AddQuote(f, q) \/ SelectQuote(f, q)
      PROVE  PurchasingTypeOK'
  <2>1. rfq' \in [Rfqs -> RfqRows]
    <3>1. rfq[f] \in RfqRows
      OBVIOUS
    <3>2. [rfq[f] EXCEPT !.quotes = @ \cup {q}] \in RfqRows /\ [rfq[f] EXCEPT !.chosen = q] \in RfqRows
      BY <3>1 DEF RfqRows
    <3> QED BY <1>3, <3>2 DEF BeginQuote, AddQuote, SelectQuote
  <2>2. quoting' \subseteq Rfqs \X Quotes
    BY <1>3 DEF BeginQuote, AddQuote, SelectQuote
  <2> QED BY <1>3, <2>1, <2>2 DEF BeginQuote, AddQuote, SelectQuote, mirroring
<1>4. ASSUME NEW o \in Orders, NEW f \in Rfqs, CreatePurchaseOrder(o, f) PROVE PurchasingTypeOK'
  <2> DEFINE r == rfq[f].of
  <2>1. r \in PurchaseRequests /\ rfq[f].chosen \in Quotes \cup {None}
    BY <1>4 DEF CreatePurchaseOrder, MayOrder, BuyingInTurn, RfqRows
  <2>2. OrderedLines(request[r].need) \in LineTables(OrderLines)
    <3>1. request[r].need \in LineTables(Quantities)
      BY <2>1 DEF RequestRows, LineTables
    <3>2. DOMAIN request[r].need \subseteq Lines
          /\ \A l \in DOMAIN request[r].need : request[r].need[l] \in Quantities
      BY <3>1, LineTable
    <3>3. \A q \in Quantities : [ordered |-> q, received |-> 0, backordered |-> q, status |-> "open"]
                                   \in OrderLines
      BY PurchasingAssumption DEF OrderLines, Amounts
    <3> QED BY <3>2, <3>3 DEF OrderedLines, LineTables
  <2>3. order' \in [Orders -> OrderRows]
    BY <1>4, <2>1, <2>2 DEF CreatePurchaseOrder, OrderRows, OrderStatuses, LineTables
  <2>4. rfq' \in [Rfqs -> RfqRows]
    BY ZenonT(60), <1>4 DEF CreatePurchaseOrder, RfqRows
  <2>5. request' \in [PurchaseRequests -> RequestRows]
    BY <1>4, <2>1 DEF CreatePurchaseOrder, RequestRows
  <2>6. ThenSync(o, "open") \in Syncs /\ ThenSync(o, "open").at = 0
    BY DEF ThenSync, Syncs, OrderStatuses
  <2>7. syncs' \subseteq Syncs /\ \A s \in syncs' : s.at \in DOMAIN mirror[s.order].states \cup {0}
    BY <1>4, <2>6 DEF CreatePurchaseOrder
  <2> QED BY <1>4, <2>3, <2>4, <2>5, <2>7 DEF CreatePurchaseOrder, mirroring
<1> QED BY <1>1, <1>2, <1>3, <1>4 DEF BuyNext

\* What the entries of a receipt bring for a line.
LEMMA Totals ==
    ASSUME NEW e \in Seq(Entries), NEW l, NEW marks
    PROVE  /\ Total(e, l, marks) \in Nat
           /\ (\A i \in DOMAIN e : e[i].line # l) => Total(e, l, marks) = 0
           /\ (\E i \in DOMAIN e : e[i].line = l /\ e[i].mark \in marks) => Total(e, l, marks) > 0
<1> DEFINE I == {i \in DOMAIN e : e[i].line = l /\ e[i].mark \in marks}
           q == [i \in DOMAIN e |-> e[i].qty]
<1>1. IsFiniteSet(DOMAIN e)
  <2>1. DOMAIN e = 1..Len(e) /\ Len(e) \in Nat
    OBVIOUS
  <2> QED BY <2>1, FS_Interval
<1>2. IsFiniteSet(I)
  BY <1>1, FS_Subset
<1>3. \A i \in I : q[i] \in Nat /\ q[i] > 0
  <2>1. \A i \in DOMAIN e : e[i] \in Entries
    OBVIOUS
  <2>2. \A i \in DOMAIN e : e[i].qty \in Quantities
    BY <2>1 DEF Entries
  <2>3. \A i \in I : q[i] = e[i].qty /\ i \in DOMAIN e
    OBVIOUS
  <2> HIDE DEF I, q
  <2> QED BY <2>2, <2>3, Numbers
<1>4. Total(e, l, marks) = SumFunctionOnSet(q, I)
  BY DEF Total
<1> HIDE DEF q
<1>5. SumFunctionOnSet(q, I) \in Nat /\ \A i \in I : q[i] <= SumFunctionOnSet(q, I)
  <2> HIDE DEF I
  <2> QED BY <1>2, <1>3, SumIsNat
<1>6. (\A i \in DOMAIN e : e[i].line # l) => Total(e, l, marks) = 0
  <2>1. (\A i \in DOMAIN e : e[i].line # l) => I = {}
    OBVIOUS
  <2> QED BY <1>4, <2>1, SumOfNone
<1>7. (\E i \in DOMAIN e : e[i].line = l /\ e[i].mark \in marks) => Total(e, l, marks) > 0
  <2>1. (\E i \in DOMAIN e : e[i].line = l /\ e[i].mark \in marks) => \E i \in I : TRUE
    OBVIOUS
  <2> HIDE DEF I
  <2> QED BY <1>3, <1>4, <1>5, <2>1
<1> QED BY <1>4, <1>5, <1>6, <1>7

\* A line once n more have arrived, when they fit.
LEMMA ArrivedLine ==
    ASSUME NEW line \in OrderLines, NEW n \in Nat, n > 0 => n <= Outstanding(line)
    PROVE  LET new == Arrived(line, n)
           IN  /\ new \in OrderLines
               /\ new.ordered = line.ordered
               /\ new.received = line.received + n
               /\ line.received <= line.ordered => new.received <= new.ordered
               /\ line.backordered = line.ordered - line.received =>
                      new.backordered = new.ordered - new.received
               /\ n = 0 => new = line
               /\ n > 0 => new.status = IF new.backordered <= 0 THEN "received" ELSE "partial"
<1>1. /\ line.ordered \in Nat /\ line.received \in Nat /\ line.backordered \in Nat
      /\ line.ordered \in Quantities
  BY Numbers DEF OrderLines
<1>2. CASE n = 0
  BY <1>1, <1>2 DEF Arrived
<1>3. CASE n > 0
  <2> DEFINE left == line.ordered - (line.received + n)
  <2>1. n <= line.ordered - line.received
    BY <1>3 DEF Outstanding
  <2>2. left \in 0..line.ordered /\ line.received + n \in 0..line.ordered
    BY <1>1, <2>1
  <2>3. left \in Amounts /\ line.received + n \in Amounts
    BY <1>1, <2>2 DEF Amounts
  <2>4. Arrived(line, n) = [line EXCEPT !.received = @ + n, !.backordered = left,
                                        !.status = IF left <= 0 THEN "received" ELSE "partial"]
    BY <1>1, <1>3 DEF Arrived
  <2> HIDE DEF left
  <2>5. Arrived(line, n) \in OrderLines
    BY <2>3, <2>4 DEF OrderLines
  <2>6. /\ Arrived(line, n).ordered = line.ordered
        /\ Arrived(line, n).received = line.received + n
        /\ Arrived(line, n).backordered = left
        /\ Arrived(line, n).status = IF left <= 0 THEN "received" ELSE "partial"
    BY <2>4 DEF OrderLines
  <2> QED BY <1>1, <1>3, <2>2, <2>5, <2>6 DEF left
<1> QED BY <1>2, <1>3

\* Every line of the order, once the receipt is booked.
LEMMA ReceivedLines ==
    ASSUME PurchasingTypeOK, NEW o \in Orders, NEW e \in Seq(Entries), Fits(order[o].lines, e)
    PROVE  \A l \in DOMAIN order[o].lines :
               LET n == Total(e, l, Marks)
               IN  /\ order[o].lines[l] \in OrderLines
                   /\ n \in Nat
                   /\ n > 0 => n <= Outstanding(order[o].lines[l])
<1> TAKE l \in DOMAIN order[o].lines
<1>1. order[o].lines[l] \in OrderLines
  <2>1. order[o].lines \in LineTables(OrderLines)
    BY DEF PurchasingTypeOK, OrderRows, LineTables
  <2> QED BY <2>1, LineTable
<1>2. Total(e, l, Marks) > 0 => \E i \in DOMAIN e : e[i].line = l
  BY Totals
<1>3. Total(e, l, Marks) \in Nat
  BY Totals
<1> QED BY <1>1, <1>2, <1>3 DEF Fits

LEMMA NextSync ==
    ASSUME PurchasingTypeOK, NEW o \in Orders, NEW status \in OrderStatuses \ {"absent"},
           syncs' = syncs \cup {ThenSync(o, status)}, mirror' = mirror
    PROVE  syncs' \subseteq Syncs /\ \A s \in syncs' : s.at \in DOMAIN mirror'[s.order].states \cup {0}
<1>1. ThenSync(o, status) \in Syncs /\ ThenSync(o, status).at = 0
  BY DEF ThenSync, Syncs
<1> QED BY <1>1 DEF PurchasingTypeOK

LEMMA ReceiveTypes ==
    ASSUME PurchasingTypeOK, NEW d \in Receipts, NEW o \in Orders, NEW e \in EntryLists,
           Receive(d, o, e)
    PROVE  PurchasingTypeOK' /\ e \in Seq(Entries)
<1>1. e \in Seq(Entries)
  <2>1. PICK n \in 1..MaxEntries : e \in [1..n -> [line : Lines, qty : Quantities, mark : {"pending"}]]
    BY DEF EntryLists
  <2>2. n \in Nat
    BY PurchasingAssumption
  <2>3. e \in [1..n -> Entries]
    BY <2>1 DEF Entries, Marks
  <2> QED BY <2>2, <2>3
<1> DEFINE lines == [l \in DOMAIN order[o].lines |->
                        Arrived(order[o].lines[l], Total(e, l, Marks))]
           status == OrderStatus(lines)
<1>2. lines \in LineTables(OrderLines)
  <2>1. DOMAIN order[o].lines \subseteq Lines
    <3>1. order[o].lines \in LineTables(OrderLines)
      BY DEF PurchasingTypeOK, OrderRows, LineTables
    <3> QED BY <3>1, LineTable
  <2>2. \A l \in DOMAIN order[o].lines : Arrived(order[o].lines[l], Total(e, l, Marks)) \in OrderLines
    <3> TAKE l \in DOMAIN order[o].lines
    <3>1. Fits(order[o].lines, e)
      BY DEF Receive
    <3> QED BY <1>1, <3>1, ReceivedLines, ArrivedLine
  <2> QED BY <2>1, <2>2 DEF LineTables
<1>3. status \in OrderStatuses \ {"absent"}
  BY DEF OrderStatus, OrderStatuses
<1> HIDE DEF lines, status
<1>4. order' = [order EXCEPT ![o].lines = lines, ![o].status = status]
  BY DEF Receive, lines, status
<1>5. order' \in [Orders -> OrderRows]
  <2>1. order \in [Orders -> OrderRows]
    BY DEF PurchasingTypeOK
  <2>2. [order[o] EXCEPT !.lines = lines, !.status = status] \in OrderRows
    BY ZenonT(60), <1>2, <1>3, <2>1 DEF OrderRows, LineTables
  <2>3. order' = [order EXCEPT ![o] = [order[o] EXCEPT !.lines = lines, !.status = status]]
    BY <1>4, <2>1
  <2> QED BY <2>1, <2>2, <2>3
<1>6. receipt' \in [Receipts -> ReceiptRows]
  <2>1. [status |-> "inspection", of |-> o, entries |-> e] \in ReceiptRows
    BY <1>1 DEF ReceiptRows
  <2> QED BY <2>1 DEF Receive, PurchasingTypeOK
<1>7. /\ UNCHANGED <<request, rfq, quoting, closing, shelf, mirror, astray>>
      /\ \/ UNCHANGED <<defined, syncs>>
         \/ defined' = TRUE /\ syncs' = syncs \cup {ThenSync(o, status)}
  BY DEF Receive, lines, status, buying, mirroring
<1>8. syncs' \subseteq Syncs /\ \A s \in syncs' : s.at \in DOMAIN mirror'[s.order].states \cup {0}
  <2>1. CASE syncs' = syncs
    BY <1>7, <2>1 DEF PurchasingTypeOK
  <2>2. CASE syncs' = syncs \cup {ThenSync(o, status)}
    BY <1>3, <1>7, <2>2, NextSync
  <2> QED BY <1>7, <2>1, <2>2
<1> QED BY <1>1, <1>5, <1>6, <1>7, <1>8 DEF PurchasingTypeOK

LEMMA InspectTypes ==
    ASSUME PurchasingTypeOK, NEW d \in Receipts, NEW mark \in MarkLists(d), InspectReceipt(d, mark)
    PROVE  /\ PurchasingTypeOK'
           /\ LET old == receipt[d].entries
                  new == receipt'[d].entries
              IN  /\ DOMAIN new = DOMAIN old
                  /\ \A i \in DOMAIN old : /\ new[i].line = old[i].line /\ new[i].qty = old[i].qty
                                           /\ old[i].mark \in Marks /\ new[i].mark \in Marks
           /\ receipt'[d].status = receipt[d].status /\ receipt'[d].of = receipt[d].of
           /\ \A x \in Receipts \ {d} : receipt'[x] = receipt[x]
<1> DEFINE old == receipt[d].entries
           new == [i \in DOMAIN old |-> IF i \in DOMAIN mark
                                        THEN [old[i] EXCEPT !.mark = mark[i]] ELSE old[i]]
<1>1. receipt \in [Receipts -> ReceiptRows] /\ old \in Seq(Entries)
  BY DEF PurchasingTypeOK, ReceiptRows
<1>2. receipt' = [receipt EXCEPT ![d].entries = new]
  BY DEF InspectReceipt
<1>3. DOMAIN old = 1..Len(old) /\ Len(old) \in Nat /\ \A i \in DOMAIN old : old[i] \in Entries
  BY <1>1
<1>4. \A i \in DOMAIN mark : mark[i] \in Marks
  BY DEF MarkLists
<1>5. \A i \in DOMAIN old : /\ new[i] \in Entries
                            /\ new[i].line = old[i].line /\ new[i].qty = old[i].qty
                            /\ old[i].mark \in Marks /\ new[i].mark \in Marks
  <2> TAKE i \in DOMAIN old
  <2>1. old[i] \in Entries
    BY <1>3
  <2>2. CASE i \in DOMAIN mark
    <3>1. new[i] = [old[i] EXCEPT !.mark = mark[i]]
      BY <2>2
    <3> HIDE DEF old, new
    <3> QED BY <1>4, <2>1, <2>2, <3>1 DEF Entries
  <2>3. CASE i \notin DOMAIN mark
    BY <2>1, <2>3 DEF Entries
  <2> QED BY <2>2, <2>3
<1>6. DOMAIN new = DOMAIN old
  OBVIOUS
<1>7. new \in Seq(Entries)
  <2>1. new \in [1..Len(old) -> Entries]
    BY <1>3, <1>5
  <2> QED BY <1>3, <2>1
<1> HIDE DEF new, old
<1>8. receipt' \in [Receipts -> ReceiptRows]
  BY ZenonT(60), <1>1, <1>2, <1>7 DEF ReceiptRows
<1>9. /\ receipt'[d].entries = new
      /\ receipt'[d].status = receipt[d].status /\ receipt'[d].of = receipt[d].of
      /\ \A x \in Receipts \ {d} : receipt'[x] = receipt[x]
  BY <1>1, <1>2 DEF ReceiptRows
<1>10. UNCHANGED <<request, rfq, quoting, order, closing, shelf, defined, syncs, mirror, astray>>
  BY DEF InspectReceipt, buying, mirroring
<1>11. PurchasingTypeOK'
  BY <1>8, <1>10 DEF PurchasingTypeOK
<1> QED BY <1>5, <1>6, <1>9, <1>11 DEF old

LEMMA PutawayTypes ==
    ASSUME PurchasingTypeOK, GoodsBelong, NEW d \in Receipts, PutawayReceipt(d)
    PROVE  /\ PurchasingTypeOK'
           /\ receipt[d].of \in Orders
           /\ receipt' = [receipt EXCEPT ![d].status = "closed"]
           /\ \A o \in Orders, l \in Lines :
                  LET brings(mark) == IF o = receipt[d].of THEN Total(receipt[d].entries, l, {mark}) ELSE 0
                  IN  /\ shelf'[o][l].serviceable = shelf[o][l].serviceable + brings("accepted")
                      /\ shelf'[o][l].quarantine = shelf[o][l].quarantine + brings("rejected")
<1> DEFINE of == receipt[d].of
           e == receipt[d].entries
           full == [l \in Lines |->
                       [serviceable |-> shelf[of][l].serviceable + Total(e, l, {"accepted"}),
                        quarantine |-> shelf[of][l].quarantine + Total(e, l, {"rejected"})]]
<1>1. receipt \in [Receipts -> ReceiptRows] /\ e \in Seq(Entries)
      /\ shelf \in [Orders -> [Lines -> [serviceable : Nat, quarantine : Nat]]]
  BY DEF PurchasingTypeOK, ReceiptRows
<1>2. of \in Orders
  BY DEF PutawayReceipt, MayPutAway, GoodsBelong
<1>3. shelf' = [shelf EXCEPT ![of] = full]
  BY <1>1, <1>2 DEF PutawayReceipt
<1>4. \A l \in Lines : Total(e, l, {"accepted"}) \in Nat /\ Total(e, l, {"rejected"}) \in Nat
  BY <1>1, Totals
<1>5. full \in [Lines -> [serviceable : Nat, quarantine : Nat]]
  <2> HIDE DEF e, of
  <2> QED BY <1>1, <1>2, <1>4
<1>6. shelf' \in [Orders -> [Lines -> [serviceable : Nat, quarantine : Nat]]]
  BY <1>1, <1>3, <1>5
<1>7. receipt' = [receipt EXCEPT ![d].status = "closed"]
  BY DEF PutawayReceipt
<1>8. receipt' \in [Receipts -> ReceiptRows]
  BY ZenonT(60), <1>1, <1>7 DEF ReceiptRows
<1>9. UNCHANGED <<request, rfq, quoting, order, closing, defined, syncs, mirror, astray>>
  BY DEF PutawayReceipt, buying, mirroring
<1>10. PurchasingTypeOK'
  BY <1>6, <1>8, <1>9 DEF PurchasingTypeOK
<1>11. ASSUME NEW o \in Orders, NEW l \in Lines
       PROVE  /\ shelf'[o][l].serviceable = shelf[o][l].serviceable +
                     IF o = of THEN Total(e, l, {"accepted"}) ELSE 0
              /\ shelf'[o][l].quarantine = shelf[o][l].quarantine +
                     IF o = of THEN Total(e, l, {"rejected"}) ELSE 0
  <2>1. CASE o = of
    <3>1. shelf'[o] = full
      BY <1>1, <1>3, <2>1
    <3> HIDE DEF e, of
    <3> QED BY <2>1, <3>1
  <2>2. CASE o # of
    <3>1. shelf'[o] = shelf[o]
      BY <1>1, <1>3, <2>2
    <3>2. shelf[o][l].serviceable \in Nat /\ shelf[o][l].quarantine \in Nat
      BY <1>1
    <3> HIDE DEF e, of
    <3> QED BY <2>2, <3>1, <3>2
  <2> QED BY <2>1, <2>2
<1> QED BY <1>2, <1>7, <1>10, <1>11

LEMMA ClosedOrder ==
    ASSUME PurchasingTypeOK, NEW o \in Orders
    PROVE  LET new == Closed(o)
               old == order[o]
           IN  /\ new \in OrderRows
               /\ new.status = "closed" /\ new.of = old.of /\ DOMAIN new.lines = DOMAIN old.lines
               /\ \A l \in DOMAIN old.lines :
                      /\ new.lines[l].ordered = old.lines[l].ordered
                      /\ new.lines[l].received = old.lines[l].received
                      /\ new.lines[l].backordered = old.lines[l].backordered
                      /\ new.lines[l].status = IF old.lines[l].status = "received"
                                               THEN "received" ELSE "closed"
<1> DEFINE old == order[o]
           lines == [l \in DOMAIN old.lines |-> IF old.lines[l].status = "received" THEN old.lines[l]
                                                ELSE [old.lines[l] EXCEPT !.status = "closed"]]
<1>1. old \in OrderRows
  BY DEF PurchasingTypeOK
<1>2. DOMAIN old.lines \subseteq Lines /\ \A l \in DOMAIN old.lines : old.lines[l] \in OrderLines
  <2>1. old.lines \in LineTables(OrderLines)
    BY <1>1 DEF OrderRows, LineTables
  <2> QED BY <2>1, LineTable
<1>3. Closed(o) = [old EXCEPT !.status = "closed", !.lines = lines]
  BY DEF Closed
<1>4. ASSUME NEW l \in DOMAIN old.lines
      PROVE  /\ lines[l] \in OrderLines
             /\ lines[l].ordered = old.lines[l].ordered
             /\ lines[l].received = old.lines[l].received
             /\ lines[l].backordered = old.lines[l].backordered
             /\ lines[l].status = IF old.lines[l].status = "received" THEN "received" ELSE "closed"
  <2> DEFINE line == old.lines[l]
  <2>1. line \in OrderLines
    BY <1>2
  <2>2. lines[l] = IF line.status = "received" THEN line ELSE [line EXCEPT !.status = "closed"]
    OBVIOUS
  <2> HIDE DEF line, lines
  <2>3. lines[l] \in OrderLines
    BY <2>1, <2>2 DEF OrderLines
  <2>4. /\ lines[l].ordered = line.ordered /\ lines[l].received = line.received
        /\ lines[l].backordered = line.backordered
        /\ lines[l].status = IF line.status = "received" THEN "received" ELSE "closed"
    BY <2>1, <2>2 DEF OrderLines
  <2> QED BY <2>3, <2>4 DEF line
<1>5. DOMAIN lines = DOMAIN old.lines
  OBVIOUS
<1>6. lines \in LineTables(OrderLines)
  <2>1. lines \in [DOMAIN old.lines -> OrderLines]
    BY <1>4
  <2> HIDE DEF lines
  <2> QED BY <1>2, <2>1 DEF LineTables
<1> HIDE DEF lines
<1>7. Closed(o) \in OrderRows
  BY <1>1, <1>3, <1>6 DEF OrderRows, OrderStatuses, LineTables
<1>8. Closed(o).status = "closed" /\ Closed(o).of = old.of /\ Closed(o).lines = lines
  BY <1>1, <1>3 DEF OrderRows
<1> QED BY <1>4, <1>5, <1>7, <1>8

\* The ways an order is closed, and what they write.
CloseWrites(o) ==
    /\ order[o].status # "absent" \/ o \in closing
    /\ order' = [order EXCEPT ![o] = Closed(o)]
    /\ closing' \subseteq closing
    /\ syncs' = syncs \cup {ThenSync(o, "closed")}
    /\ UNCHANGED <<request, rfq, quoting, receipt, shelf, defined, mirror, astray>>

LEMMA CloseTypes ==
    ASSUME PurchasingTypeOK, NEW o \in Orders, CloseWrites(o)
    PROVE  PurchasingTypeOK'
<1>1. order' \in [Orders -> OrderRows]
  BY ClosedOrder DEF CloseWrites, PurchasingTypeOK
<1>2. "closed" \in OrderStatuses \ {"absent"}
  BY DEF OrderStatuses
<1>3. syncs' \subseteq Syncs /\ \A s \in syncs' : s.at \in DOMAIN mirror'[s.order].states \cup {0}
  BY <1>2, NextSync DEF CloseWrites
<1>4. closing' \subseteq Orders
  BY DEF CloseWrites, PurchasingTypeOK
<1> QED BY <1>1, <1>3, <1>4 DEF PurchasingTypeOK, CloseWrites

\* What a close that has to define the workflow first leaves for later.
CloseWaits(o) ==
    /\ order[o].status # "absent"
    /\ closing' = closing \cup {o}
    /\ defined' = TRUE
    /\ UNCHANGED <<request, rfq, quoting, order, receipt, shelf, mirror, syncs, astray>>

LEMMA ClosingSteps ==
    ASSUME NEW o \in Orders, ClosePurchaseOrder(o) \/ CloseDefines(o) \/ CloseGoesOn(o)
    PROVE  CloseWrites(o) \/ CloseWaits(o)
<1>1. ClosePurchaseOrder(o) => CloseWrites(o)
  BY DEF ClosePurchaseOrder, CloseWrites, buying, mirroring
<1>2. CloseDefines(o) => CloseWaits(o)
  BY DEF CloseDefines, CloseWaits, buying, mirroring
<1>3. CloseGoesOn(o) => CloseWrites(o)
  BY DEF CloseGoesOn, CloseWrites, buying, mirroring
<1> QED BY <1>1, <1>2, <1>3

LEMMA ReplaceInSeq ==
    ASSUME NEW S, NEW s \in Seq(S), NEW i, NEW x \in S
    PROVE  [s EXCEPT ![i] = x] \in Seq(S) /\ DOMAIN [s EXCEPT ![i] = x] = DOMAIN s
<1>1. s \in [1..Len(s) -> S] /\ Len(s) \in Nat
  OBVIOUS
<1>2. [s EXCEPT ![i] = x] \in [1..Len(s) -> S]
  BY <1>1
<1>3. \A n \in Nat : \A f \in [1..n -> S] : f \in Seq(S)
  OBVIOUS
<1> QED BY <1>1, <1>2, <1>3

LEMMA SyncTypes ==
    ASSUME PurchasingTypeOK, SyncStep
    PROVE  /\ PurchasingTypeOK'
           /\ UNCHANGED <<request, rfq, quoting, order, closing, receipt, shelf>>
<1>1. PICK s \in syncs : SyncReads(s) \/ SyncWrites(s)
  BY DEF SyncStep
<1> DEFINE o == s.order
           m == mirror[o]
<1>2. /\ s \in Syncs /\ s.at \in DOMAIN m.states \cup {0}
      /\ o \in Orders /\ m \in Instances /\ m.latest \in DOMAIN m.states \cup {0}
      /\ m.states \in Seq(OrderStatuses) /\ s.at \in Nat /\ s.to \in OrderStatuses
  BY DEF PurchasingTypeOK, Syncs, Instances
<1>3. UNCHANGED <<request, rfq, quoting, order, closing, receipt, shelf>>
  BY <1>1 DEF SyncReads, SyncWrites, buying
<1>4. CASE SyncReads(s)
  <2> DEFINE seen == IF m.latest = 0 THEN "none" ELSE m.states[m.latest]
             t == [s EXCEPT !.read = TRUE, !.at = m.latest, !.seen = seen]
  <2>1. seen \in OrderStatuses \cup {"none"} /\ m.latest \in Nat
    BY <1>2
  <2> HIDE DEF seen
  <2>2. t \in Syncs /\ t.at = m.latest /\ t.order = o
    BY <1>2, <2>1 DEF Syncs
  <2>3. syncs' = (syncs \ {s}) \cup {t} /\ UNCHANGED <<mirror, astray>> /\ defined' = TRUE
    BY <1>4 DEF SyncReads, mirroring, seen
  <2> HIDE DEF t
  <2>4. syncs' \subseteq Syncs /\ \A x \in syncs' : x.at \in DOMAIN mirror'[x.order].states \cup {0}
    <3>1. \A x \in syncs : x \in Syncs /\ x.at \in DOMAIN mirror[x.order].states \cup {0}
      BY DEF PurchasingTypeOK
    <3>2. t \in Syncs /\ t.at \in DOMAIN mirror[t.order].states \cup {0}
      BY <1>2, <2>2
    <3> QED BY <2>3, <3>1, <3>2
  <2> QED BY <1>3, <2>3, <2>4 DEF PurchasingTypeOK
<1>5. CASE SyncWrites(s)
  <2> DEFINE n == MirrorAfter(m, s)
  <2>1. /\ n \in Instances /\ n.latest \in DOMAIN n.states \cup {0}
        /\ DOMAIN m.states \subseteq DOMAIN n.states
    <3>1. CASE ~Writes(s)
      BY <1>2, <3>1 DEF MirrorAfter
    <3>2. CASE Writes(s) /\ s.at = 0
      <4>1. n = [states |-> Append(m.states, s.to), latest |-> Len(m.states) + 1]
        BY <3>2 DEF MirrorAfter
      <4>2. Append(m.states, s.to) \in Seq(OrderStatuses) /\ Len(Append(m.states, s.to)) = Len(m.states) + 1
        BY <1>2
      <4>3. Len(m.states) \in Nat /\ DOMAIN m.states = 1..Len(m.states)
            /\ DOMAIN Append(m.states, s.to) = 1..(Len(m.states) + 1)
        BY <1>2, <4>2
      <4> QED BY <4>1, <4>2, <4>3 DEF Instances
    <3>3. CASE Writes(s) /\ s.at # 0
      <4>1. n = [states |-> [m.states EXCEPT ![s.at] = s.to], latest |-> s.at]
        BY <3>3 DEF MirrorAfter
      <4>2. [m.states EXCEPT ![s.at] = s.to] \in Seq(OrderStatuses)
            /\ DOMAIN [m.states EXCEPT ![s.at] = s.to] = DOMAIN m.states
        BY <1>2, ReplaceInSeq
      <4> QED BY <1>2, <3>3, <4>1, <4>2 DEF Instances
    <3> QED BY <3>1, <3>2, <3>3
  <2>2. mirror' = [mirror EXCEPT ![o] = n] /\ syncs' = syncs \ {s} /\ defined' = defined
        /\ astray' \subseteq astray \cup {o}
    BY <1>5 DEF SyncWrites
  <2> HIDE DEF n
  <2>3. mirror' \in [Orders -> Instances]
    BY <2>1, <2>2 DEF PurchasingTypeOK
  <2>4. \A x \in Orders : /\ mirror'[x].latest \in DOMAIN mirror'[x].states \cup {0}
                          /\ DOMAIN mirror[x].states \subseteq DOMAIN mirror'[x].states
    BY <2>1, <2>2 DEF PurchasingTypeOK
  <2>5. \A x \in syncs' : x.order \in Orders /\ x.at \in DOMAIN mirror[x.order].states \cup {0}
    BY <2>2 DEF PurchasingTypeOK, Syncs
  <2>6. \A x \in syncs' : x.at \in DOMAIN mirror'[x.order].states \cup {0}
    BY <2>4, <2>5
  <2>7. syncs' \subseteq Syncs /\ astray' \subseteq Orders
    BY <1>2, <2>2 DEF PurchasingTypeOK
  <2> QED BY <1>3, <2>2, <2>3, <2>4, <2>6, <2>7 DEF PurchasingTypeOK
<1> QED BY <1>1, <1>3, <1>4, <1>5

LEMMA CrashTypes ==
    ASSUME PurchasingTypeOK, Crash
    PROVE  /\ PurchasingTypeOK'
           /\ UNCHANGED <<request, rfq, order, receipt, shelf>>
           /\ closing' \subseteq closing
<1>1. ASSUME NEW s \in syncs, syncs' = syncs \ {s}, astray' = astray \cup {s.order},
             UNCHANGED <<buying, order, closing, receipt, shelf, defined, mirror>>
      PROVE  PurchasingTypeOK'
  <2>1. s.order \in Orders
    BY DEF PurchasingTypeOK, Syncs
  <2> QED BY <1>1, <2>1 DEF PurchasingTypeOK, buying
<1>2. ASSUME NEW o \in closing, closing' = closing \ {o},
             UNCHANGED <<buying, order, receipt, shelf, defined, syncs, mirroring>>
      PROVE  PurchasingTypeOK'
  BY <1>2 DEF PurchasingTypeOK, buying, mirroring
<1>3. ASSUME NEW p \in quoting, quoting' = quoting \ {p},
             UNCHANGED <<request, rfq, order, closing, receipt, shelf, defined, syncs, mirroring>>
      PROVE  PurchasingTypeOK'
  BY <1>3 DEF PurchasingTypeOK, mirroring
<1>4. UNCHANGED <<request, rfq, order, receipt, shelf>> /\ closing' \subseteq closing
  BY DEF Crash, buying
<1> QED BY <1>1, <1>2, <1>3, <1>4 DEF Crash

-----------------------------------------------------------------------------
(* Requests, quotations and orders                                         *)

\* What is said about orders and goods.
GoodsInv == GoodsBelong /\ ReceivedIsDelivered /\ ShelvedOnce /\ StatusFollowsLines

LEMMA GoodsUntouched ==
    ASSUME GoodsInv, UNCHANGED <<order, receipt, shelf>>, closing' \subseteq closing
    PROVE  GoodsInv'
<1>1. GoodsBelong'
  BY DEF GoodsInv, GoodsBelong
<1>2. ReceivedIsDelivered'
  BY ZenonT(60) DEF GoodsInv, ReceivedIsDelivered, Brought
<1>3. ShelvedOnce'
  BY ZenonT(60) DEF GoodsInv, ShelvedOnce, Brought
<1>4. StatusFollowsLines'
  BY DEF GoodsInv, StatusFollowsLines
<1> QED BY <1>1, <1>2, <1>3, <1>4 DEF GoodsInv

LEMMA BuyingUntouched ==
    ASSUME BuyingInTurn, OneOrderPerRequest, UNCHANGED <<request, rfq>>,
           \A o \in Orders : /\ order'[o].status = "absent" <=> order[o].status = "absent"
                             /\ order'[o].of = order[o].of
    PROVE  BuyingInTurn' /\ OneOrderPerRequest'
BY DEF BuyingInTurn, OneOrderPerRequest

LEMMA RequestsInTurn ==
    ASSUME PurchasingTypeOK, BuyingInTurn, OneOrderPerRequest, NEW r \in PurchaseRequests,
           CreatePurchaseRequest(r) \/ ApprovePurchaseRequest(r)
    PROVE  BuyingInTurn' /\ OneOrderPerRequest' /\ UNCHANGED <<order, receipt, shelf, closing>>
<1>1. \A x \in PurchaseRequests : request[x].status \in {"rfq", "po_created"} =>
          request'[x].status = request[x].status
  <2>1. request \in [PurchaseRequests -> RequestRows]
    BY DEF PurchasingTypeOK
  <2>2. CASE CreatePurchaseRequest(r)
    <3>1. request[r].status = "absent" /\ \E row : request' = [request EXCEPT ![r] = row]
      BY <2>2 DEF CreatePurchaseRequest
    <3> QED BY <2>1, <3>1
  <2>3. CASE ApprovePurchaseRequest(r)
    BY <2>1, <2>3 DEF ApprovePurchaseRequest
  <2> QED BY <2>2, <2>3
<1>2. UNCHANGED <<rfq, order, receipt, shelf, closing>>
  BY DEF CreatePurchaseRequest, ApprovePurchaseRequest
<1> QED BY <1>1, <1>2 DEF BuyingInTurn, OneOrderPerRequest

LEMMA RfqsInTurn ==
    ASSUME PurchasingTypeOK, BuyingInTurn, OneOrderPerRequest, NEW f \in Rfqs,
           NEW r \in PurchaseRequests, CreateRfq(f, r)
    PROVE  BuyingInTurn' /\ OneOrderPerRequest' /\ UNCHANGED <<order, receipt, shelf, closing>>
<1>1. /\ request[r].status = "approved" /\ rfq[f].status = "absent"
      /\ request' = [request EXCEPT ![r].status = "rfq"]
      /\ rfq' = [rfq EXCEPT ![f] = [NoRfq EXCEPT !.status = "open", !.of = r]]
      /\ UNCHANGED <<order, receipt, shelf, closing>>
  BY DEF CreateRfq
<1>2. /\ \A x \in PurchaseRequests \ {r} : request'[x] = request[x]
      /\ request'[r].status = "rfq"
  BY <1>1 DEF PurchasingTypeOK, RequestRows
<1>3. /\ \A g \in Rfqs \ {f} : rfq'[g] = rfq[g]
      /\ rfq'[f].status = "open" /\ rfq'[f].of = r
  BY <1>1 DEF PurchasingTypeOK, NoRfq
<1>4. /\ \A g \in Rfqs : rfq[g].status # "absent" => rfq[g].of # r
      /\ \A o \in Orders : order[o].status # "absent" => order[o].of # r
  BY <1>1 DEF BuyingInTurn
<1>5. BuyingInTurn'
  BY <1>1, <1>2, <1>3, <1>4 DEF BuyingInTurn
<1> QED BY <1>1, <1>5 DEF OneOrderPerRequest

LEMMA QuotesInTurn ==
    ASSUME PurchasingTypeOK, BuyingInTurn, OneOrderPerRequest, NEW f \in Rfqs, NEW q \in Quotes,
           BeginQuote(f, q) \/ AddQuote(f, q) \/ SelectQuote(f, q)
    PROVE  BuyingInTurn' /\ OneOrderPerRequest' /\ UNCHANGED <<order, receipt, shelf, closing>>
<1>1. \A g \in Rfqs : rfq'[g].status = rfq[g].status /\ rfq'[g].of = rfq[g].of
  <2>1. rfq \in [Rfqs -> RfqRows]
    BY DEF PurchasingTypeOK
  <2>2. CASE BeginQuote(f, q)
    BY <2>2 DEF BeginQuote
  <2>3. CASE AddQuote(f, q)
    BY <2>1, <2>3 DEF AddQuote, RfqRows
  <2>4. CASE SelectQuote(f, q)
    BY <2>1, <2>4 DEF SelectQuote, RfqRows
  <2> QED BY <2>2, <2>3, <2>4
<1>2. UNCHANGED <<request, order, receipt, shelf, closing>>
  BY DEF BeginQuote, AddQuote, SelectQuote
<1> QED BY <1>1, <1>2 DEF BuyingInTurn, OneOrderPerRequest

LEMMA Ordering ==
    ASSUME PurchasingTypeOK, BuyingInTurn, OneOrderPerRequest, GoodsInv, NEW o \in Orders, NEW f \in Rfqs,
           CreatePurchaseOrder(o, f)
    PROVE  /\ BuyingInTurn' /\ OneOrderPerRequest' /\ GoodsInv'
           /\ order[o].status = "absent"
           /\ \A x \in Orders \ {o} : order'[x] = order[x]
           /\ \A l \in DOMAIN order'[o].lines :
                  order'[o].lines[l].ordered \in Quantities /\ order'[o].lines[l].received = 0
           /\ UNCHANGED <<receipt, shelf, closing>>
<1> DEFINE r == rfq[f].of
           row == [status |-> "open", of |-> r, vendor |-> rfq[f].chosen,
                   lines |-> OrderedLines(request[r].need)]
<1>1. /\ rfq[f].status = "open" /\ order[o].status = "absent"
      /\ order' = [order EXCEPT ![o] = row]
      /\ rfq' = [rfq EXCEPT ![f].status = "closed"]
      /\ request' = [request EXCEPT ![r].status = "po_created"]
      /\ UNCHANGED <<receipt, shelf, closing>>
  BY DEF CreatePurchaseOrder, MayOrder
<1>2. r \in PurchaseRequests /\ request[r].status = "rfq"
  BY <1>1 DEF BuyingInTurn
<1>3. /\ \A x \in PurchaseRequests \ {r} : request'[x] = request[x]
      /\ request'[r].status = "po_created"
  BY <1>1, <1>2 DEF PurchasingTypeOK, RequestRows
<1>4. /\ \A g \in Rfqs \ {f} : rfq'[g] = rfq[g]
      /\ rfq'[f].status = "closed" /\ rfq'[f].of = r
  BY <1>1 DEF PurchasingTypeOK, RfqRows
<1>5. /\ \A x \in Orders \ {o} : order'[x] = order[x]
      /\ order'[o] = row
  BY <1>1 DEF PurchasingTypeOK
<1>6. \A x \in Orders : order[x].status # "absent" => order[x].of # r
  BY <1>2 DEF BuyingInTurn
<1>7. BuyingInTurn' /\ OneOrderPerRequest'
  <2> HIDE DEF r
  <2>1. order'[o].status = "open" /\ order'[o].of = r
    BY <1>5
  <2>2. BuyingInTurn'
    <3>1. \A g \in Rfqs : rfq'[g].status # "absent" =>
              /\ rfq'[g].of \in PurchaseRequests
              /\ request'[rfq'[g].of].status = IF rfq'[g].status = "open" THEN "rfq" ELSE "po_created"
      BY <1>1, <1>2, <1>3, <1>4 DEF BuyingInTurn, r
    <3>2. \A g, h \in Rfqs :
              rfq'[g].status # "absent" /\ rfq'[h].status # "absent" /\ rfq'[g].of = rfq'[h].of => g = h
      BY <1>1, <1>4 DEF BuyingInTurn, r
    <3>3. \A x \in Orders : order'[x].status # "absent" =>
              order'[x].of \in PurchaseRequests /\ request'[order'[x].of].status = "po_created"
      BY <1>2, <1>3, <1>5, <1>6, <2>1 DEF BuyingInTurn
    <3> QED BY <3>1, <3>2, <3>3 DEF BuyingInTurn
  <2>3. OneOrderPerRequest'
    BY <1>5, <1>6, <2>1 DEF OneOrderPerRequest
  <2> QED BY <2>2, <2>3
<1>8. ASSUME NEW l \in DOMAIN order'[o].lines
      PROVE  LET line == order'[o].lines[l]
             IN  /\ line.ordered \in Quantities /\ line.ordered \in Nat /\ line.ordered > 0
                 /\ line.received = 0 /\ line.backordered = line.ordered /\ line.status = "open"
  <2>1. request[r].need \in LineTables(Quantities)
    BY <1>2 DEF PurchasingTypeOK, RequestRows, LineTables
  <2>2. \A x \in DOMAIN request[r].need : request[r].need[x] \in Quantities
    BY <2>1, LineTable
  <2>3. order'[o].lines = OrderedLines(request[r].need)
    BY <1>5
  <2>4. l \in DOMAIN request[r].need
        /\ order'[o].lines[l] = [ordered |-> request[r].need[l], received |-> 0,
                                 backordered |-> request[r].need[l], status |-> "open"]
    BY <1>8, <2>3 DEF OrderedLines
  <2> QED BY <2>2, <2>4, Numbers
<1>9. {d \in Receipts : receipt[d].of = o /\ receipt[d].status \in {"inspection", "closed"}} = {}
  BY <1>1 DEF GoodsInv, GoodsBelong
<1>10. \A l : Brought(o, l, Marks, {"inspection", "closed"})' = 0
  BY <1>1, <1>9, SumOfNone DEF Brought
<1> HIDE DEF row
<1>11. GoodsBelong'
  <2>1. order'[o].status = "open"
    BY <1>5 DEF row
  <2> QED BY <1>1, <1>5, <2>1 DEF GoodsInv, GoodsBelong
<1>12. ReceivedIsDelivered'
  <2> SUFFICES ASSUME NEW x \in Orders, NEW l \in DOMAIN order'[x].lines
               PROVE  LET line == order'[x].lines[l]
                      IN  /\ line.received = Brought(x, l, Marks, {"inspection", "closed"})'
                          /\ line.received <= line.ordered
                          /\ line.backordered = line.ordered - line.received
    BY DEF ReceivedIsDelivered
  <2>1. CASE x = o
    BY <1>8, <1>10, <2>1
  <2>2. CASE x # o
    <3>1. Brought(x, l, Marks, {"inspection", "closed"})' = Brought(x, l, Marks, {"inspection", "closed"})
      BY <1>1 DEF Brought
    <3> QED BY <1>5, <2>2, <3>1 DEF GoodsInv, ReceivedIsDelivered
  <2> QED BY <2>1, <2>2
<1>13. ShelvedOnce'
  <2>1. ShelvedOnce /\ UNCHANGED <<receipt, shelf>>
    BY <1>1 DEF GoodsInv
  <2> QED BY ZenonT(60), <2>1 DEF ShelvedOnce, Brought
<1>14. StatusFollowsLines'
  <2> SUFFICES ASSUME NEW x \in Orders
               PROVE  LET lines == order'[x].lines
                          missing == {l \in DOMAIN lines : lines[l].backordered > 0}
                      IN  /\ order'[x].status = "open" => \A l \in DOMAIN lines : lines[l].received = 0
                          /\ order'[x].status = "partial" =>
                                missing # {} /\ \E l \in DOMAIN lines : lines[l].received > 0
                          /\ order'[x].status = "received" => missing = {}
                          /\ order'[x].status = "closed" => \A l \in missing : lines[l].status = "closed"
                          /\ \A l \in DOMAIN lines : lines[l].status = "received" <=> l \notin missing
    BY DEF StatusFollowsLines
  <2>1. CASE x = o
    <3>1. order'[o].status = "open"
      BY <1>5 DEF row
    <3> QED BY <1>8, <2>1, <3>1
  <2>2. CASE x # o
    BY <1>5, <2>2 DEF GoodsInv, StatusFollowsLines
  <2> QED BY <2>1, <2>2
<1> QED BY <1>1, <1>5, <1>7, <1>8, <1>11, <1>12, <1>13, <1>14 DEF GoodsInv

-----------------------------------------------------------------------------
(* Goods                                                                   *)

\* The receipts that count, and what each of them counts for.
Counted(o, statuses) == {d \in Receipts : receipt[d].of = o /\ receipt[d].status \in statuses}
Brings(l, marks) == [d \in Receipts |-> Total(receipt[d].entries, l, marks)]

LEMMA BringsNumbers ==
    ASSUME NEW l, NEW marks
    PROVE  receipt \in [Receipts -> ReceiptRows] => \A d \in Receipts : Brings(l, marks)[d] \in Nat
<1> SUFFICES ASSUME receipt \in [Receipts -> ReceiptRows], NEW d \in Receipts
             PROVE  Total(receipt[d].entries, l, marks) \in Nat
  BY DEF Brings
<1>1. receipt[d].entries \in Seq(Entries)
  BY DEF ReceiptRows
<1> QED BY <1>1, Totals

LEMMA CountedFinite == ASSUME NEW o, NEW statuses PROVE IsFiniteSet(Counted(o, statuses))
BY PurchasingAssumption, FS_Subset DEF Counted

LEMMA BroughtIsSum ==
    ASSUME NEW o, NEW l, NEW marks, NEW statuses
    PROVE  /\ Brought(o, l, marks, statuses) = SumFunctionOnSet(Brings(l, marks), Counted(o, statuses))
           /\ receipt \in [Receipts -> ReceiptRows] => Brought(o, l, marks, statuses) \in Nat
<1>1. Brought(o, l, marks, statuses) = SumFunctionOnSet(Brings(l, marks), Counted(o, statuses))
  BY DEF Brought, Brings, Counted
<1>2. receipt \in [Receipts -> ReceiptRows] =>
          SumFunctionOnSet(Brings(l, marks), Counted(o, statuses)) \in Nat
  <2>1. Counted(o, statuses) \subseteq Receipts
    BY DEF Counted
  <2> QED BY <2>1, BringsNumbers, CountedFinite, SumIsNat
<1> QED BY <1>1, <1>2

\* The receipts that count stay the same and count for as much.
LEMMA BroughtSame ==
    ASSUME NEW o, NEW l, NEW marks, NEW statuses,
           \A d \in Receipts :
               /\ receipt'[d].of = o /\ receipt'[d].status \in statuses
                     <=> receipt[d].of = o /\ receipt[d].status \in statuses
               /\ receipt[d].of = o /\ receipt[d].status \in statuses =>
                     Total(receipt'[d].entries, l, marks) = Total(receipt[d].entries, l, marks)
    PROVE  Brought(o, l, marks, statuses)' = Brought(o, l, marks, statuses)
<1> DEFINE S == Counted(o, statuses)
           f == Brings(l, marks)
           g == [d \in Receipts |-> Total(receipt'[d].entries, l, marks)]
           T == {d \in Receipts : receipt'[d].of = o /\ receipt'[d].status \in statuses}
<1>1. T = S
  BY DEF Counted
<1>2. \A d \in S : g[d] = f[d]
  BY DEF Counted, Brings
<1>3. SumFunctionOnSet(g, S) = SumFunctionOnSet(f, S)
  <2> HIDE DEF f, g
  <2> QED BY <1>2, CountedFinite, SumOfEqual
<1>4. Brought(o, l, marks, statuses)' = SumFunctionOnSet(g, T)
  BY DEF Brought
<1> HIDE DEF f, g, S, T
<1>5. Brought(o, l, marks, statuses) = SumFunctionOnSet(f, S)
  BY BroughtIsSum DEF f, S
<1> QED BY <1>1, <1>3, <1>4, <1>5

\* One receipt comes to count.
LEMMA BroughtMore ==
    ASSUME receipt \in [Receipts -> ReceiptRows], receipt' \in [Receipts -> ReceiptRows],
           NEW d \in Receipts, NEW o, NEW l, NEW marks, NEW statuses,
           \A x \in Receipts \ {d} : receipt'[x] = receipt[x],
           d \notin Counted(o, statuses)
    PROVE  Brought(o, l, marks, statuses)' = Brought(o, l, marks, statuses) +
               IF receipt'[d].of = o /\ receipt'[d].status \in statuses
               THEN Total(receipt'[d].entries, l, marks) ELSE 0
<1>1. CASE receipt'[d].of = o /\ receipt'[d].status \in statuses
  <2> DEFINE S == Counted(o, statuses)
             f == Brings(l, marks)
             g == [x \in Receipts |-> Total(receipt'[x].entries, l, marks)]
             T == {x \in Receipts : receipt'[x].of = o /\ receipt'[x].status \in statuses}
  <2>1. T = S \cup {d} /\ d \notin S
    BY <1>1 DEF Counted
  <2>2. \A x \in S : g[x] = f[x]
    BY DEF Counted, Brings
  <2>3. \A x \in S \cup {d} : x \in Receipts
    BY DEF Counted
  <2>4. \A x \in Receipts : g[x] \in Nat
    <3> SUFFICES ASSUME NEW x \in Receipts PROVE Total(receipt'[x].entries, l, marks) \in Nat
      OBVIOUS
    <3>1. receipt'[x].entries \in Seq(Entries)
      BY DEF ReceiptRows
    <3> QED BY <3>1, Totals
  <2>5. Brought(o, l, marks, statuses)' = SumFunctionOnSet(g, T)
    BY DEF Brought
  <2>6. g[d] = Total(receipt'[d].entries, l, marks)
    OBVIOUS
  <2> HIDE DEF f, g, T
  <2>7. SumFunctionOnSet(g, S) = SumFunctionOnSet(f, S)
    BY <2>2, CountedFinite, SumOfEqual
  <2>8. SumFunctionOnSet(g, S \cup {d}) = SumFunctionOnSet(g, S) + g[d]
    <3>1. IsFiniteSet(S)
      BY CountedFinite
    <3>2. \A x \in S \cup {d} : g[x] \in Int
      BY <2>3, <2>4
    <3> HIDE DEF S
    <3> QED BY <2>1, <3>1, <3>2, SumWithElement
  <2> HIDE DEF S
  <2>9. Brought(o, l, marks, statuses) = SumFunctionOnSet(f, S)
    BY BroughtIsSum DEF f, S
  <2> QED BY <1>1, <2>1, <2>5, <2>6, <2>7, <2>8, <2>9
<1>2. CASE ~(receipt'[d].of = o /\ receipt'[d].status \in statuses)
  <2>1. ASSUME NEW x \in Receipts
        PROVE  /\ receipt'[x].of = o /\ receipt'[x].status \in statuses
                     <=> receipt[x].of = o /\ receipt[x].status \in statuses
               /\ receipt[x].of = o /\ receipt[x].status \in statuses =>
                     Total(receipt'[x].entries, l, marks) = Total(receipt[x].entries, l, marks)
    <3>1. CASE x = d
      BY <1>2, <3>1 DEF Counted
    <3>2. CASE x # d
      BY <3>2
    <3> QED BY <3>1, <3>2
  <2>2. Brought(o, l, marks, statuses)' = Brought(o, l, marks, statuses)
    BY <2>1, BroughtSame
  <2>3. Brought(o, l, marks, statuses) \in Nat
    BY BroughtIsSum
  <2> QED BY <1>2, <2>2, <2>3
<1> QED BY <1>1, <1>2

\* What receive_purchase_order does to the order and to the receipts.
LEMMA ReceiveWrites ==
    ASSUME PurchasingTypeOK, GoodsInv, NEW d \in Receipts, NEW o \in Orders, NEW e \in EntryLists,
           Receive(d, o, e)
    PROVE  /\ e \in Seq(Entries)
           /\ order[o].status \in {"open", "partial", "received"} /\ receipt[d].status = "absent"
           /\ receipt'[d].status = "inspection" /\ receipt'[d].of = o /\ receipt'[d].entries = e
           /\ \A x \in Receipts \ {d} : receipt'[x] = receipt[x]
           /\ \A x \in Orders \ {o} : order'[x] = order[x]
           /\ order'[o].of = order[o].of
           /\ DOMAIN order'[o].lines = DOMAIN order[o].lines
           /\ \A l \in DOMAIN order[o].lines :
                  /\ order[o].lines[l] \in OrderLines
                  /\ order'[o].lines[l] = Arrived(order[o].lines[l], Total(e, l, Marks))
                  /\ Total(e, l, Marks) \in Nat
                  /\ Total(e, l, Marks) > 0 => Total(e, l, Marks) <= Outstanding(order[o].lines[l])
           /\ order'[o].status = OrderStatus(order'[o].lines)
           /\ \A i \in DOMAIN e : e[i].line \in DOMAIN order[o].lines
           /\ \E i \in DOMAIN e : e[i].mark \in Marks
           /\ UNCHANGED <<request, rfq, shelf, closing>>
<1> DEFINE lines == [l \in DOMAIN order[o].lines |->
                        Arrived(order[o].lines[l], Total(e, l, Marks))]
<1>1. e \in Seq(Entries)
  BY ReceiveTypes
<1>2. order' = [order EXCEPT ![o].lines = lines, ![o].status = OrderStatus(lines)]
  BY DEF Receive
<1>3. \A l \in DOMAIN order[o].lines :
          /\ lines[l] = Arrived(order[o].lines[l], Total(e, l, Marks))
          /\ order[o].lines[l] \in OrderLines
          /\ Total(e, l, Marks) \in Nat
          /\ Total(e, l, Marks) > 0 => Total(e, l, Marks) <= Outstanding(order[o].lines[l])
  <2>1. Fits(order[o].lines, e)
    BY DEF Receive
  <2> QED BY <1>1, <2>1, ReceivedLines
<1>4. DOMAIN lines = DOMAIN order[o].lines
  OBVIOUS
<1> HIDE DEF lines
<1>5. /\ order'[o].lines = lines /\ order'[o].status = OrderStatus(lines) /\ order'[o].of = order[o].of
      /\ \A x \in Orders \ {o} : order'[x] = order[x]
  BY <1>2 DEF PurchasingTypeOK, OrderRows
<1>6. /\ order[o].status \in {"open", "partial", "received"} /\ receipt[d].status = "absent"
      /\ \A i \in DOMAIN e : e[i].line \in DOMAIN order[o].lines
      /\ receipt' = [receipt EXCEPT ![d] = [status |-> "inspection", of |-> o, entries |-> e]]
      /\ UNCHANGED <<request, rfq, shelf, closing>>
  BY DEF Receive, OrderStatuses, Fits, buying
<1>7. \E i \in DOMAIN e : e[i].mark \in Marks
  <2>1. PICK n \in 1..MaxEntries : e \in [1..n -> [line : Lines, qty : Quantities, mark : {"pending"}]]
    BY DEF EntryLists
  <2>2. 1 \in DOMAIN e /\ e[1].mark = "pending"
    BY <2>1, PurchasingAssumption
  <2> QED BY <2>2 DEF Marks
<1>8. /\ receipt'[d].status = "inspection" /\ receipt'[d].of = o /\ receipt'[d].entries = e
      /\ \A x \in Receipts \ {d} : receipt'[x] = receipt[x]
  BY <1>6 DEF PurchasingTypeOK
<1> QED BY <1>1, <1>3, <1>4, <1>5, <1>6, <1>7, <1>8

LEMMA ReceiveKeeps ==
    ASSUME PurchasingTypeOK, PurchasingTypeOK', BuyingInTurn, OneOrderPerRequest, GoodsInv,
           NEW d \in Receipts, NEW o \in Orders, NEW e \in EntryLists, Receive(d, o, e)
    PROVE  BuyingInTurn' /\ OneOrderPerRequest' /\ GoodsInv'
<1> DEFINE n(l) == Total(e, l, Marks)
           both == {"inspection", "closed"}
<1>1. /\ e \in Seq(Entries)
      /\ order[o].status \in {"open", "partial", "received"} /\ receipt[d].status = "absent"
      /\ receipt'[d].status = "inspection" /\ receipt'[d].of = o /\ receipt'[d].entries = e
      /\ \A x \in Receipts \ {d} : receipt'[x] = receipt[x]
      /\ \A x \in Orders \ {o} : order'[x] = order[x]
      /\ order'[o].of = order[o].of
      /\ DOMAIN order'[o].lines = DOMAIN order[o].lines
      /\ order'[o].status = OrderStatus(order'[o].lines)
      /\ \A i \in DOMAIN e : e[i].line \in DOMAIN order[o].lines
      /\ UNCHANGED <<request, rfq, shelf, closing>>
  BY ReceiveWrites
<1>2. \A l \in DOMAIN order[o].lines :
          /\ order[o].lines[l] \in OrderLines
          /\ order'[o].lines[l] = Arrived(order[o].lines[l], n(l))
          /\ n(l) \in Nat
          /\ n(l) > 0 => n(l) <= Outstanding(order[o].lines[l])
  BY ReceiveWrites
<1>3. \E i \in DOMAIN e : e[i].line \in DOMAIN order[o].lines /\ n(e[i].line) > 0
  <2>1. PICK i \in DOMAIN e : e[i].mark \in Marks
    BY ReceiveWrites
  <2>2. n(e[i].line) > 0
    BY <1>1, <2>1, Totals
  <2> QED BY <1>1, <2>2
<1> HIDE DEF n
<1>4. \A l \in DOMAIN order[o].lines :
          LET new == order'[o].lines[l]
              old == order[o].lines[l]
          IN  /\ new.ordered = old.ordered
              /\ new.received = old.received + n(l)
              /\ old.received <= old.ordered => new.received <= new.ordered
              /\ old.backordered = old.ordered - old.received =>
                     new.backordered = new.ordered - new.received
              /\ n(l) = 0 => new = old
              /\ n(l) > 0 => new.status = IF new.backordered <= 0 THEN "received" ELSE "partial"
              /\ old.received \in Nat /\ new.backordered \in Nat /\ new.received \in Nat
  <2> SUFFICES ASSUME NEW l \in DOMAIN order[o].lines
               PROVE  LET new == order'[o].lines[l]
                          old == order[o].lines[l]
                      IN  /\ new.ordered = old.ordered
                          /\ new.received = old.received + n(l)
                          /\ old.received <= old.ordered => new.received <= new.ordered
                          /\ old.backordered = old.ordered - old.received =>
                                 new.backordered = new.ordered - new.received
                          /\ n(l) = 0 => new = old
                          /\ n(l) > 0 => new.status = IF new.backordered <= 0 THEN "received" ELSE "partial"
                          /\ old.received \in Nat /\ new.backordered \in Nat /\ new.received \in Nat
    OBVIOUS
  <2> DEFINE new == order'[o].lines[l]
             old == order[o].lines[l]
  <2>1. new = Arrived(old, n(l)) /\ old \in OrderLines /\ n(l) \in Nat
        /\ (n(l) > 0 => n(l) <= Outstanding(old))
    BY <1>2
  <2> HIDE DEF new, old
  <2>2. /\ new \in OrderLines
        /\ new.ordered = old.ordered
        /\ new.received = old.received + n(l)
        /\ old.received <= old.ordered => new.received <= new.ordered
        /\ old.backordered = old.ordered - old.received =>
               new.backordered = new.ordered - new.received
        /\ n(l) = 0 => new = old
        /\ n(l) > 0 => new.status = IF new.backordered <= 0 THEN "received" ELSE "partial"
    BY <2>1, ArrivedLine
  <2>3. old.received \in Nat /\ new.backordered \in Nat /\ new.received \in Nat
    BY <2>1, <2>2, Numbers DEF OrderLines
  <2> QED BY <2>2, <2>3 DEF new, old
<1>5. order'[o].status \in {"partial", "received"}
  BY <1>1 DEF OrderStatus
<1>6. BuyingInTurn' /\ OneOrderPerRequest'
  <2>1. \A x \in Orders : /\ order'[x].status = "absent" <=> order[x].status = "absent"
                          /\ order'[x].of = order[x].of
    BY <1>1, <1>5
  <2> QED BY <1>1, <2>1, BuyingUntouched
<1>7. GoodsBelong'
  <2>1. \A x \in Orders : /\ order'[x].status = "absent" <=> order[x].status = "absent"
                          /\ DOMAIN order'[x].lines = DOMAIN order[x].lines
    BY <1>1, <1>5
  <2>2. ASSUME NEW x \in Receipts, receipt'[x].status # "absent"
        PROVE  /\ receipt'[x].of \in Orders
               /\ order'[receipt'[x].of].status # "absent"
               /\ \A i \in DOMAIN receipt'[x].entries :
                      receipt'[x].entries[i].line \in DOMAIN order'[receipt'[x].of].lines
    <3>1. CASE x = d
      BY <1>1, <1>5, <3>1
    <3>2. CASE x # d
      BY <1>1, <2>1, <2>2, <3>2 DEF GoodsInv, GoodsBelong
    <3> QED BY <3>1, <3>2
  <2>3. \A x \in closing' : order'[x].status # "absent"
    BY Zenon, <1>1, <2>1 DEF GoodsInv, GoodsBelong, PurchasingTypeOK
  <2> QED BY <2>1, <2>2, <2>3 DEF GoodsInv, GoodsBelong
<1>8. receipt \in [Receipts -> ReceiptRows] /\ receipt' \in [Receipts -> ReceiptRows]
  BY DEF PurchasingTypeOK
<1>9. ReceivedIsDelivered'
  <2> SUFFICES ASSUME NEW x \in Orders, NEW l \in DOMAIN order'[x].lines
               PROVE  LET line == order'[x].lines[l]
                      IN  /\ line.received = Brought(x, l, Marks, both)'
                          /\ line.received <= line.ordered
                          /\ line.backordered = line.ordered - line.received
    BY DEF ReceivedIsDelivered
  <2>1. Brought(x, l, Marks, both)' = Brought(x, l, Marks, both) +
            IF receipt'[d].of = x /\ receipt'[d].status \in both
            THEN Total(receipt'[d].entries, l, Marks) ELSE 0
    <3>1. d \notin Counted(x, both)
      BY <1>1 DEF Counted
    <3> HIDE DEF both
    <3> QED BY <1>1, <1>8, <3>1, BroughtMore
  <2>2. Brought(x, l, Marks, both) \in Nat
    BY <1>8, BroughtIsSum
  <2>3. Brought(x, l, Marks, both)' = Brought(x, l, Marks, both) + IF x = o THEN n(l) ELSE 0
    BY <1>1, <2>1 DEF n
  <2>4. CASE x = o
    <3>1. /\ l \in DOMAIN order[o].lines
          /\ order[o].lines[l].received = Brought(o, l, Marks, both)
          /\ order[o].lines[l].received <= order[o].lines[l].ordered
          /\ order[o].lines[l].backordered = order[o].lines[l].ordered - order[o].lines[l].received
      BY <1>1, <2>4 DEF GoodsInv, ReceivedIsDelivered
    <3> HIDE DEF both
    <3> QED BY <1>4, <2>3, <2>4, <3>1
  <2>5. CASE x # o
    <3>1. Brought(x, l, Marks, both)' = Brought(x, l, Marks, both)
      BY <2>2, <2>3, <2>5
    <3> QED BY <1>1, <2>5, <3>1 DEF GoodsInv, ReceivedIsDelivered
  <2> QED BY <2>4, <2>5
<1>10. ShelvedOnce'
  <2>1. ASSUME NEW x \in Orders, NEW l \in Lines, NEW marks
        PROVE  Brought(x, l, marks, {"closed"})' = Brought(x, l, marks, {"closed"})
    <3>1. \A y \in Receipts :
            /\ receipt'[y].of = x /\ receipt'[y].status \in {"closed"}
                     <=> receipt[y].of = x /\ receipt[y].status \in {"closed"}
            /\ receipt[y].of = x /\ receipt[y].status \in {"closed"} =>
                     Total(receipt'[y].entries, l, marks) = Total(receipt[y].entries, l, marks)
      <4> TAKE y \in Receipts
      <4>1. CASE y = d
        BY <1>1, <4>1
      <4>2. CASE y # d
        BY <1>1, <4>2
      <4> QED BY <4>1, <4>2
    <3> QED BY <3>1, BroughtSame
  <2>2. ShelvedOnce /\ shelf' = shelf
    BY <1>1 DEF GoodsInv
  <2> QED BY <2>1, <2>2 DEF ShelvedOnce
<1>11. StatusFollowsLines'
  <2> DEFINE Missing(lines) == {l \in DOMAIN lines : lines[l].backordered > 0}
             Says(status, lines) ==
                /\ status = "open" => \A l \in DOMAIN lines : lines[l].received = 0
                /\ status = "partial" =>
                      Missing(lines) # {} /\ \E l \in DOMAIN lines : lines[l].received > 0
                /\ status = "received" => Missing(lines) = {}
                /\ status = "closed" => \A l \in Missing(lines) : lines[l].status = "closed"
                /\ \A l \in DOMAIN lines : lines[l].status = "received" <=> l \notin Missing(lines)
  <2>1. \A x \in Orders : Says(order[x].status, order[x].lines)
    BY DEF GoodsInv, StatusFollowsLines
  <2>2. Says(order'[o].status, order'[o].lines)
    <3> DEFINE lines == order'[o].lines
    <3>1. order'[o].status = IF Missing(lines) # {} THEN "partial" ELSE "received"
      BY <1>1 DEF OrderStatus
    <3>2. PICK i \in DOMAIN e : e[i].line \in DOMAIN order[o].lines /\ n(e[i].line) > 0
      BY <1>3
    <3>3. e[i].line \in DOMAIN lines /\ lines[e[i].line].received > 0
      BY SMTT(30), <1>1, <1>2, <1>4, <3>2
    <3>4. ASSUME NEW l \in DOMAIN lines
          PROVE  lines[l].status = "received" <=> l \notin Missing(lines)
      <4>1. l \in DOMAIN order[o].lines /\ lines[l].backordered \in Nat /\ n(l) \in Nat
        BY <1>1, <1>2, <1>4
      <4>2. CASE n(l) = 0
        <5>1. lines[l] = order[o].lines[l]
          BY <1>4, <4>1, <4>2
        <5> QED BY <2>1, <4>1, <5>1
      <4>3. CASE n(l) > 0
        <5>1. lines[l].status = IF lines[l].backordered <= 0 THEN "received" ELSE "partial"
          BY <1>4, <4>1, <4>3
        <5> QED BY <4>1, <5>1
      <4> QED BY <4>1, <4>2, <4>3
    <3> HIDE DEF lines
    <3> QED BY <3>1, <3>3, <3>4 DEF lines
  <2>3. \A x \in Orders : Says(order'[x].status, order'[x].lines)
    <3> HIDE DEF Says
    <3> QED BY <1>1, <2>1, <2>2
  <2> QED BY <2>3 DEF StatusFollowsLines
<1> QED BY <1>6, <1>7, <1>9, <1>10, <1>11 DEF GoodsInv

LEMMA InspectKeeps ==
    ASSUME PurchasingTypeOK, BuyingInTurn, OneOrderPerRequest, GoodsInv,
           NEW d \in Receipts, NEW mark \in MarkLists(d), InspectReceipt(d, mark)
    PROVE  BuyingInTurn' /\ OneOrderPerRequest' /\ GoodsInv'
<1>1. receipt[d].status = "inspection" /\ UNCHANGED <<request, rfq, order, shelf, closing>>
  BY DEF InspectReceipt, MayInspect, buying
<1>2. /\ DOMAIN receipt'[d].entries = DOMAIN receipt[d].entries
      /\ \A i \in DOMAIN receipt[d].entries :
             /\ receipt'[d].entries[i].line = receipt[d].entries[i].line
             /\ receipt'[d].entries[i].qty = receipt[d].entries[i].qty
             /\ receipt[d].entries[i].mark \in Marks /\ receipt'[d].entries[i].mark \in Marks
      /\ receipt'[d].status = receipt[d].status /\ receipt'[d].of = receipt[d].of
      /\ \A x \in Receipts \ {d} : receipt'[x] = receipt[x]
  BY InspectTypes
<1>3. \A l : Total(receipt'[d].entries, l, Marks) = Total(receipt[d].entries, l, Marks)
  <2> TAKE l
  <2> DEFINE old == receipt[d].entries
             new == receipt'[d].entries
  <2>1. {i \in DOMAIN new : new[i].line = l /\ new[i].mark \in Marks}
           = {i \in DOMAIN old : old[i].line = l /\ old[i].mark \in Marks}
    BY <1>2
  <2>2. [i \in DOMAIN new |-> new[i].qty] = [i \in DOMAIN old |-> old[i].qty]
    BY <1>2
  <2> QED BY <2>1, <2>2 DEF Total
<1>4. BuyingInTurn' /\ OneOrderPerRequest'
  BY <1>1, BuyingUntouched
<1>5. GoodsBelong'
  BY <1>1, <1>2 DEF GoodsInv, GoodsBelong
<1>6. ReceivedIsDelivered'
  <2>1. ASSUME NEW o, NEW l
        PROVE  Brought(o, l, Marks, {"inspection", "closed"})' = Brought(o, l, Marks, {"inspection", "closed"})
    BY <1>2, <1>3, BroughtSame
  <2>2. ReceivedIsDelivered /\ order' = order
    BY <1>1 DEF GoodsInv
  <2> QED BY <2>1, <2>2 DEF ReceivedIsDelivered
<1>7. ShelvedOnce'
  <2>1. ASSUME NEW o, NEW l, NEW marks
        PROVE  Brought(o, l, marks, {"closed"})' = Brought(o, l, marks, {"closed"})
    <3>1. \A x \in Receipts :
            /\ receipt'[x].of = o /\ receipt'[x].status \in {"closed"}
                     <=> receipt[x].of = o /\ receipt[x].status \in {"closed"}
            /\ receipt[x].of = o /\ receipt[x].status \in {"closed"} =>
                     Total(receipt'[x].entries, l, marks) = Total(receipt[x].entries, l, marks)
      BY <1>1, <1>2
    <3> QED BY <3>1, BroughtSame
  <2>2. ShelvedOnce /\ shelf' = shelf
    BY <1>1 DEF GoodsInv
  <2> QED BY <2>1, <2>2 DEF ShelvedOnce
<1>8. StatusFollowsLines'
  BY <1>1 DEF GoodsInv, StatusFollowsLines
<1> QED BY <1>4, <1>5, <1>6, <1>7, <1>8 DEF GoodsInv

LEMMA PutawayKeeps ==
    ASSUME PurchasingTypeOK, BuyingInTurn, OneOrderPerRequest, GoodsInv,
           NEW d \in Receipts, PutawayReceipt(d)
    PROVE  BuyingInTurn' /\ OneOrderPerRequest' /\ GoodsInv'
<1>1. receipt[d].status = "inspection" /\ UNCHANGED <<request, rfq, order, closing>>
  BY DEF PutawayReceipt, MayPutAway, PurchasingTypeOK, ReceiptRows, buying
<1>2. receipt \in [Receipts -> ReceiptRows] /\ receipt' \in [Receipts -> ReceiptRows]
  BY PutawayTypes DEF PurchasingTypeOK, GoodsInv
<1>3. /\ receipt'[d].status = "closed" /\ receipt'[d].of = receipt[d].of
      /\ receipt'[d].entries = receipt[d].entries
      /\ \A x \in Receipts \ {d} : receipt'[x] = receipt[x]
  <2>1. receipt' = [receipt EXCEPT ![d].status = "closed"]
    BY PutawayTypes DEF GoodsInv
  <2> QED BY <1>2, <2>1 DEF ReceiptRows
<1>4. BuyingInTurn' /\ OneOrderPerRequest'
  BY <1>1, BuyingUntouched
<1>5. GoodsBelong'
  BY <1>1, <1>3 DEF GoodsInv, GoodsBelong
<1>6. ReceivedIsDelivered'
  <2>1. ASSUME NEW o, NEW l
        PROVE  Brought(o, l, Marks, {"inspection", "closed"})' = Brought(o, l, Marks, {"inspection", "closed"})
    <3>1. \A x \in Receipts :
            /\ receipt'[x].of = o /\ receipt'[x].status \in {"inspection", "closed"}
                     <=> receipt[x].of = o /\ receipt[x].status \in {"inspection", "closed"}
            /\ receipt[x].of = o /\ receipt[x].status \in {"inspection", "closed"} =>
                     Total(receipt'[x].entries, l, Marks) = Total(receipt[x].entries, l, Marks)
      BY <1>1, <1>3
    <3> QED BY <3>1, BroughtSame
  <2>2. ReceivedIsDelivered /\ order' = order
    BY <1>1 DEF GoodsInv
  <2> QED BY <2>1, <2>2 DEF ReceivedIsDelivered
<1>7. ShelvedOnce'
  <2> SUFFICES ASSUME NEW o \in Orders, NEW l \in Lines
               PROVE  /\ shelf'[o][l].serviceable = Brought(o, l, {"accepted"}, {"closed"})'
                      /\ shelf'[o][l].quarantine = Brought(o, l, {"rejected"}, {"closed"})'
    BY DEF ShelvedOnce
  <2>1. ASSUME NEW mark
        PROVE  Brought(o, l, {mark}, {"closed"})' = Brought(o, l, {mark}, {"closed"}) +
                   IF o = receipt[d].of THEN Total(receipt[d].entries, l, {mark}) ELSE 0
    <3>1. d \notin Counted(o, {"closed"})
      BY <1>1 DEF Counted
    <3>2. Brought(o, l, {mark}, {"closed"})' = Brought(o, l, {mark}, {"closed"}) +
              IF receipt'[d].of = o /\ receipt'[d].status \in {"closed"}
              THEN Total(receipt'[d].entries, l, {mark}) ELSE 0
      BY <1>2, <1>3, <3>1, BroughtMore
    <3> QED BY <1>3, <3>2
  <2>2. /\ shelf'[o][l].serviceable = shelf[o][l].serviceable +
               IF o = receipt[d].of THEN Total(receipt[d].entries, l, {"accepted"}) ELSE 0
        /\ shelf'[o][l].quarantine = shelf[o][l].quarantine +
               IF o = receipt[d].of THEN Total(receipt[d].entries, l, {"rejected"}) ELSE 0
    BY PutawayTypes DEF GoodsInv
  <2>3. /\ shelf[o][l].serviceable = Brought(o, l, {"accepted"}, {"closed"})
        /\ shelf[o][l].quarantine = Brought(o, l, {"rejected"}, {"closed"})
    BY DEF GoodsInv, ShelvedOnce
  <2> QED BY <2>1, <2>2, <2>3
<1>8. StatusFollowsLines'
  BY <1>1 DEF GoodsInv, StatusFollowsLines
<1> QED BY <1>4, <1>5, <1>6, <1>7, <1>8 DEF GoodsInv

LEMMA CloseKeeps ==
    ASSUME PurchasingTypeOK, BuyingInTurn, OneOrderPerRequest, GoodsInv, NEW o \in Orders,
           CloseWrites(o)
    PROVE  /\ BuyingInTurn' /\ OneOrderPerRequest' /\ GoodsInv'
           /\ \A x \in Orders :
                  /\ DOMAIN order'[x].lines = DOMAIN order[x].lines
                  /\ \A l \in DOMAIN order[x].lines :
                         /\ order'[x].lines[l].ordered = order[x].lines[l].ordered
                         /\ order'[x].lines[l].received = order[x].lines[l].received
<1>1. /\ order[o].status # "absent"
      /\ closing' \subseteq closing
      /\ UNCHANGED <<request, rfq, receipt, shelf>>
  BY DEF CloseWrites, GoodsInv, GoodsBelong
<1>2. order'[o] = Closed(o) /\ \A x \in Orders \ {o} : order'[x] = order[x]
  BY DEF CloseWrites, PurchasingTypeOK
<1>3. /\ order'[o].status = "closed" /\ order'[o].of = order[o].of
      /\ DOMAIN order'[o].lines = DOMAIN order[o].lines
      /\ \A l \in DOMAIN order[o].lines :
             /\ order'[o].lines[l].ordered = order[o].lines[l].ordered
             /\ order'[o].lines[l].received = order[o].lines[l].received
             /\ order'[o].lines[l].backordered = order[o].lines[l].backordered
             /\ order'[o].lines[l].status = IF order[o].lines[l].status = "received"
                                            THEN "received" ELSE "closed"
  BY <1>2, ClosedOrder
<1>4. BuyingInTurn' /\ OneOrderPerRequest'
  <2>1. \A x \in Orders : /\ order'[x].status = "absent" <=> order[x].status = "absent"
                          /\ order'[x].of = order[x].of
    BY <1>1, <1>2, <1>3
  <2> QED BY <1>1, <2>1, BuyingUntouched
<1>5. GoodsBelong'
  <2>1. \A x \in Orders : /\ order'[x].status = "absent" <=> order[x].status = "absent"
                          /\ DOMAIN order'[x].lines = DOMAIN order[x].lines
    BY <1>1, <1>2, <1>3
  <2>2. \A x \in closing' : x \in Orders /\ order'[x].status # "absent"
    BY <1>1, <2>1 DEF GoodsInv, GoodsBelong, PurchasingTypeOK
  <2> QED BY <1>1, <2>1, <2>2 DEF GoodsInv, GoodsBelong
<1>6. ReceivedIsDelivered'
  <2>1. ASSUME NEW x, NEW l
        PROVE  Brought(x, l, Marks, {"inspection", "closed"})' = Brought(x, l, Marks, {"inspection", "closed"})
    BY <1>1 DEF Brought
  <2> QED BY <1>2, <1>3, <2>1 DEF GoodsInv, ReceivedIsDelivered
<1>7. ShelvedOnce'
  <2>1. ShelvedOnce /\ UNCHANGED <<receipt, shelf>>
    BY <1>1 DEF GoodsInv
  <2> QED BY ZenonT(60), <2>1 DEF ShelvedOnce, Brought
<1>8. StatusFollowsLines'
  <2>1. \A l \in DOMAIN order[o].lines : order[o].lines[l].status = "received" <=>
             l \notin {k \in DOMAIN order[o].lines : order[o].lines[k].backordered > 0}
    BY DEF GoodsInv, StatusFollowsLines
  <2>2. ASSUME NEW x \in Orders
        PROVE  LET lines == order'[x].lines
                   missing == {l \in DOMAIN lines : lines[l].backordered > 0}
               IN  /\ order'[x].status = "open" => \A l \in DOMAIN lines : lines[l].received = 0
                   /\ order'[x].status = "partial" =>
                         missing # {} /\ \E l \in DOMAIN lines : lines[l].received > 0
                   /\ order'[x].status = "received" => missing = {}
                   /\ order'[x].status = "closed" => \A l \in missing : lines[l].status = "closed"
                   /\ \A l \in DOMAIN lines : lines[l].status = "received" <=> l \notin missing
    <3>1. CASE x = o
      BY <1>3, <2>1, <3>1
    <3>2. CASE x # o
      BY <1>2, <3>2 DEF GoodsInv, StatusFollowsLines
    <3> QED BY <3>1, <3>2
  <2> QED BY <2>2 DEF StatusFollowsLines
<1> QED BY <1>2, <1>3, <1>4, <1>5, <1>6, <1>7, <1>8 DEF GoodsInv

LEMMA WaitKeeps ==
    ASSUME PurchasingTypeOK, BuyingInTurn, OneOrderPerRequest, GoodsInv, NEW o \in Orders,
           CloseWaits(o)
    PROVE  PurchasingTypeOK' /\ BuyingInTurn' /\ OneOrderPerRequest' /\ GoodsInv'
<1>1. PurchasingTypeOK'
  BY DEF CloseWaits, PurchasingTypeOK
<1>2. BuyingInTurn' /\ OneOrderPerRequest'
  BY BuyingUntouched DEF CloseWaits
<1>3. GoodsBelong'
  BY DEF GoodsInv, GoodsBelong, CloseWaits
<1>4. ReceivedIsDelivered'
  <2>1. ReceivedIsDelivered /\ UNCHANGED <<order, receipt>>
    BY DEF GoodsInv, CloseWaits
  <2> QED BY ZenonT(60), <2>1 DEF ReceivedIsDelivered, Brought
<1>5. ShelvedOnce'
  <2>1. ShelvedOnce /\ UNCHANGED <<receipt, shelf>>
    BY DEF GoodsInv, CloseWaits
  <2> QED BY ZenonT(60), <2>1 DEF ShelvedOnce, Brought
<1>6. StatusFollowsLines'
  BY DEF GoodsInv, StatusFollowsLines, CloseWaits
<1> QED BY <1>1, <1>2, <1>3, <1>4, <1>5, <1>6 DEF GoodsInv

-----------------------------------------------------------------------------
(* The whole                                                               *)

LEMMA PurchasingStart == PurchasingInit => PurchasingInv
<1> SUFFICES ASSUME PurchasingInit PROVE PurchasingInv
  BY Zenon
<1>1. PurchasingTypeOK
  BY TypesStart
<1>2. /\ \A f \in Rfqs : rfq[f].status = "absent"
      /\ \A o \in Orders : order[o].status = "absent" /\ order[o].lines = <<>>
      /\ \A d \in Receipts : receipt[d].status = "absent"
      /\ closing = {}
      /\ \A o \in Orders, l \in Lines : shelf[o][l].serviceable = 0 /\ shelf[o][l].quarantine = 0
  BY DEF PurchasingInit, NoRfq, NoOrder, NoReceipt
<1>3. BuyingInTurn /\ OneOrderPerRequest
  BY <1>2 DEF BuyingInTurn, OneOrderPerRequest
<1>4. \A o \in Orders : DOMAIN order[o].lines = {}
  BY <1>2, EmptyTable
<1>5. GoodsBelong
  BY <1>2, <1>4 DEF GoodsBelong
<1>6. ReceivedIsDelivered
  BY <1>4 DEF ReceivedIsDelivered
<1>7. ShelvedOnce
  <2>1. ASSUME NEW o, NEW l, NEW marks PROVE Brought(o, l, marks, {"closed"}) = 0
    <3>1. {d \in Receipts : receipt[d].of = o /\ receipt[d].status \in {"closed"}} = {}
      BY <1>2
    <3> QED BY <3>1, SumOfNone DEF Brought
  <2> QED BY <1>2, <2>1 DEF ShelvedOnce
<1>8. StatusFollowsLines
  BY <1>2, <1>4 DEF StatusFollowsLines
<1> QED BY <1>1, <1>3, <1>5, <1>6, <1>7, <1>8 DEF PurchasingInv

LEMMA PurchasingStep == PurchasingInv /\ [PurchasingNext]_purchaseVars => PurchasingInv'
<1> SUFFICES ASSUME PurchasingInv, [PurchasingNext]_purchaseVars PROVE PurchasingInv'
  OBVIOUS
<1> DEFINE Kept == PurchasingTypeOK' /\ BuyingInTurn' /\ OneOrderPerRequest' /\ GoodsInv'
<1> SUFFICES Kept
  BY DEF PurchasingInv, GoodsInv
<1>1. PurchasingTypeOK /\ BuyingInTurn /\ OneOrderPerRequest /\ GoodsInv /\ GoodsBelong
  BY DEF PurchasingInv, GoodsInv
<1>2. CASE BuyNext
  <2>1. PurchasingTypeOK'
    BY <1>1, <1>2, BuyTypes
  <2>2. \/ BuyingInTurn' /\ OneOrderPerRequest' /\ GoodsInv'
        \/ BuyingInTurn' /\ OneOrderPerRequest' /\ UNCHANGED <<order, receipt, shelf, closing>>
    BY <1>1, <1>2, RequestsInTurn, RfqsInTurn, QuotesInTurn, Ordering DEF BuyNext
  <2>3. UNCHANGED <<order, receipt, shelf, closing>> => GoodsInv'
    BY <1>1, GoodsUntouched
  <2> QED BY <2>1, <2>2, <2>3
<1>3. CASE GoodsNext
  <2>1. ASSUME NEW d \in Receipts, NEW o \in Orders, NEW e \in EntryLists, Receive(d, o, e) PROVE Kept
    BY <1>1, <2>1, ReceiveTypes, ReceiveKeeps
  <2>2. ASSUME NEW d \in Receipts, NEW mark \in MarkLists(d), InspectReceipt(d, mark) PROVE Kept
    BY <1>1, <2>2, InspectTypes, InspectKeeps
  <2>3. ASSUME NEW d \in Receipts, PutawayReceipt(d) PROVE Kept
    BY <1>1, <2>3, PutawayTypes, PutawayKeeps
  <2> QED BY <1>3, <2>1, <2>2, <2>3 DEF GoodsNext
<1>4. CASE CloseNext
  <2>1. PICK o \in Orders : CloseWrites(o) \/ CloseWaits(o)
    BY <1>4, ClosingSteps DEF CloseNext
  <2>2. CloseWrites(o) => Kept
    BY <1>1, CloseTypes, CloseKeeps
  <2>3. CloseWaits(o) => Kept
    BY <1>1, WaitKeeps
  <2> QED BY <2>1, <2>2, <2>3
<1>5. ASSUME PurchasingTypeOK', UNCHANGED <<request, rfq, order, receipt, shelf>>, closing' \subseteq closing
      PROVE  Kept
  BY <1>1, <1>5, GoodsUntouched, BuyingUntouched
<1>6. CASE SyncStep
  BY <1>1, <1>5, <1>6, SyncTypes
<1>7. CASE Crash
  BY <1>1, <1>5, <1>7, CrashTypes
<1>8. CASE UNCHANGED purchaseVars
  <2>1. PurchasingTypeOK'
    BY <1>1, <1>8 DEF PurchasingTypeOK, purchaseVars
  <2> QED BY <1>5, <1>8, <2>1 DEF purchaseVars
<1> QED BY <1>2, <1>3, <1>4, <1>6, <1>7, <1>8 DEF PurchasingNext

LEMMA PurchasingAlways == PurchasingSpec => []PurchasingInv
BY PurchasingStart, PurchasingStep, PTL DEF PurchasingSpec

\* Rows, mirror and requests keep their types.
THEOREM PurchasingTypes == PurchasingSpec => []PurchasingTypeOK
<1>1. PurchasingInv => PurchasingTypeOK
  BY DEF PurchasingInv
<1> QED BY <1>1, PurchasingAlways, PTL

\* A purchase request ends in one order, however many RFQs, quotes and orders there are.
THEOREM OneOrder == PurchasingSpec => []OneOrderPerRequest
<1>1. PurchasingInv => OneOrderPerRequest
  BY DEF PurchasingInv
<1> QED BY <1>1, PurchasingAlways, PTL

\* The columns of an order line are what its receipts brought, and within the order.
THEOREM Deliveries == PurchasingSpec => []ReceivedIsDelivered
<1>1. PurchasingInv => ReceivedIsDelivered
  BY DEF PurchasingInv
<1> QED BY <1>1, PurchasingAlways, PTL

\* Stock got every inspected entry of a closed receipt once.
THEOREM Shelving == PurchasingSpec => []ShelvedOnce
<1>1. PurchasingInv => ShelvedOnce
  BY DEF PurchasingInv
<1> QED BY <1>1, PurchasingAlways, PTL

\* The status of an order sums up its lines.
THEOREM OrderStatusTrue == PurchasingSpec => []StatusFollowsLines
<1>1. PurchasingInv => StatusFollowsLines
  BY DEF PurchasingInv
<1> QED BY <1>1, PurchasingAlways, PTL

-----------------------------------------------------------------------------
(* The flow of goods                                                       *)

OrderedOf(o, l) == IF l \in DOMAIN order[o].lines THEN order[o].lines[l].ordered ELSE 0
DeliveredOf(o, l) == IF l \in DOMAIN order[o].lines THEN order[o].lines[l].received ELSE 0
StoredOf(o, l) == shelf[o][l].serviceable + shelf[o][l].quarantine

LEMMA OrderMaps ==
    ASSUME \A o \in Orders, l \in Lines :
              /\ OrderedOf(o, l)' # OrderedOf(o, l) => OrderedOf(o, l) = 0 /\ OrderedOf(o, l)' > 0
              /\ DeliveredOf(o, l)' = DeliveredOf(o, l)
              /\ StoredOf(o, l)' = StoredOf(o, l)
    PROVE  Flow!Order
BY ZenonT(60) DEF Flow!Order, OrderedOf, DeliveredOf, StoredOf

LEMMA DeliverMaps ==
    ASSUME \A o \in Orders, l \in Lines :
              /\ OrderedOf(o, l)' = OrderedOf(o, l)
              /\ DeliveredOf(o, l)' # DeliveredOf(o, l) =>
                    DeliveredOf(o, l) < DeliveredOf(o, l)' /\ DeliveredOf(o, l)' <= OrderedOf(o, l)
              /\ StoredOf(o, l)' = StoredOf(o, l)
    PROVE  Flow!Deliver
BY ZenonT(60) DEF Flow!Deliver, OrderedOf, DeliveredOf, StoredOf

LEMMA StoreMaps ==
    ASSUME \A o \in Orders, l \in Lines :
              /\ OrderedOf(o, l)' = OrderedOf(o, l)
              /\ DeliveredOf(o, l)' = DeliveredOf(o, l)
              /\ StoredOf(o, l)' # StoredOf(o, l) =>
                    StoredOf(o, l) < StoredOf(o, l)' /\ StoredOf(o, l)' <= DeliveredOf(o, l)
    PROVE  Flow!Store
BY ZenonT(60) DEF Flow!Store, OrderedOf, DeliveredOf, StoredOf

LEMMA StutterMaps ==
    ASSUME \A o \in Orders, l \in Lines :
              /\ OrderedOf(o, l)' = OrderedOf(o, l)
              /\ DeliveredOf(o, l)' = DeliveredOf(o, l)
              /\ StoredOf(o, l)' = StoredOf(o, l)
    PROVE  UNCHANGED Flow!flow
BY ZenonT(60) DEF Flow!flow, OrderedOf, DeliveredOf, StoredOf

\* What was accepted and what was rejected is no more than what came.
LEMMA PartsOfTotal ==
    ASSUME NEW e \in Seq(Entries), NEW l
    PROVE  Total(e, l, {"accepted"}) + Total(e, l, {"rejected"}) <= Total(e, l, Marks)
<1> DEFINE I(marks) == {i \in DOMAIN e : e[i].line = l /\ e[i].mark \in marks}
           q == [i \in DOMAIN e |-> e[i].qty]
           D == DOMAIN e
<1>1. \A marks : Total(e, l, marks) = SumFunctionOnSet(q, I(marks))
  BY DEF Total
<1>2. IsFiniteSet(D)
  <2>1. D = 1..Len(e) /\ Len(e) \in Nat
    OBVIOUS
  <2> QED BY <2>1, FS_Interval
<1>3. \A i \in D : q[i] \in Nat
  <2>1. \A i \in D : e[i] \in Entries /\ q[i] = e[i].qty
    OBVIOUS
  <2>2. \A i \in D : q[i] \in Quantities
    BY <2>1 DEF Entries
  <2> QED BY <2>2, Numbers
<1> DEFINE A == I({"accepted"})
           R == I({"rejected"})
           M == I(Marks)
<1>4. A \in SUBSET D /\ R \in SUBSET D /\ M \in SUBSET D /\ A \cap R = {} /\ A \cup R \in SUBSET M
  BY DEF Marks
<1> HIDE DEF q, D, A, R, M
<1>5. SumFunctionOnSet(q, A \cup R) = SumFunctionOnSet(q, A) + SumFunctionOnSet(q, R)
  <2>1. \A i \in D : q[i] \in Int
    BY <1>3
  <2> QED BY <1>2, <1>4, <2>1, SumOfTwoParts
<1>6. SumFunctionOnSet(q, A \cup R) <= SumFunctionOnSet(q, M)
  <2>1. IsFiniteSet(M) /\ \A i \in M : q[i] \in Nat
    BY <1>2, <1>3, <1>4, FS_Subset
  <2>2. \A i \in A \cup R : q[i] \in Nat /\ q[i] <= q[i]
    BY <1>3, <1>4
  <2> QED BY <1>4, <2>1, <2>2, SumGrows
<1> QED BY <1>1, <1>5, <1>6 DEF A, R, M

LEMMA ShelvedIsBrought ==
    ASSUME NEW o, NEW l
    PROVE  receipt \in [Receipts -> ReceiptRows] =>
             Brought(o, l, {"accepted"}, {"closed"}) + Brought(o, l, {"rejected"}, {"closed"})
                <= Brought(o, l, Marks, {"inspection", "closed"})
<1> SUFFICES ASSUME receipt \in [Receipts -> ReceiptRows]
             PROVE  Brought(o, l, {"accepted"}, {"closed"}) + Brought(o, l, {"rejected"}, {"closed"})
                       <= Brought(o, l, Marks, {"inspection", "closed"})
  OBVIOUS
<1> DEFINE S == Counted(o, {"closed"})
           T == Counted(o, {"inspection", "closed"})
           a == Brings(l, {"accepted"})
           r == Brings(l, {"rejected"})
           m == Brings(l, Marks)
           h == [d \in S |-> a[d] + r[d]]
<1>1. S \in SUBSET T /\ S \subseteq Receipts /\ T \subseteq Receipts
  BY DEF Counted
<1>2. IsFiniteSet(S) /\ IsFiniteSet(T)
  BY CountedFinite
<1>3. \A d \in Receipts : a[d] \in Nat /\ r[d] \in Nat /\ m[d] \in Nat
  BY BringsNumbers
<1>4. \A d \in Receipts : a[d] + r[d] <= m[d]
  <2> TAKE d \in Receipts
  <2>1. receipt[d].entries \in Seq(Entries)
    BY Zenon DEF ReceiptRows
  <2> QED BY <2>1, PartsOfTotal DEF Brings
<1>5. \A d \in S : h[d] = a[d] + r[d]
  OBVIOUS
<1>6. SumFunctionOnSet(h, S) = SumFunctionOnSet(a, S) + SumFunctionOnSet(r, S)
  <2> HIDE DEF a, r, S
  <2>1. \A d \in S : a[d] \in Int /\ r[d] \in Int
    BY <1>1, <1>3
  <2> QED BY <1>2, <2>1, SumOfBoth
<1>7. SumFunctionOnSet(h, S) <= SumFunctionOnSet(m, T)
  <2> HIDE DEF a, r, m, h, S, T
  <2>1. \A d \in T : m[d] \in Nat
    BY <1>1, <1>3
  <2>2. \A d \in S : h[d] \in Nat /\ h[d] <= m[d]
    BY <1>1, <1>3, <1>4, <1>5
  <2> QED BY <1>1, <1>2, <2>1, <2>2, SumGrows
<1> QED BY <1>6, <1>7, BroughtIsSum

\* Nothing the flow of goods knows about has changed.
Same == \A o \in Orders, l \in Lines :
            /\ OrderedOf(o, l)' = OrderedOf(o, l)
            /\ DeliveredOf(o, l)' = DeliveredOf(o, l)
            /\ StoredOf(o, l)' = StoredOf(o, l)

LEMMA SameOrders == ASSUME UNCHANGED <<order, shelf>> PROVE Same
BY DEF Same, OrderedOf, DeliveredOf, StoredOf

LEMMA OrderFlows ==
    ASSUME PurchasingInv, NEW o \in Orders, NEW f \in Rfqs, CreatePurchaseOrder(o, f)
    PROVE  Flow!Order
<1>1. /\ order[o].status = "absent"
      /\ \A x \in Orders \ {o} : order'[x] = order[x]
      /\ \A l \in DOMAIN order'[o].lines :
             order'[o].lines[l].ordered \in Quantities /\ order'[o].lines[l].received = 0
      /\ shelf' = shelf
  BY Ordering DEF PurchasingInv, GoodsInv
<1>2. DOMAIN order[o].lines = {}
  BY <1>1 DEF PurchasingInv, GoodsBelong
<1> QED BY <1>1, <1>2, OrderMaps, Numbers DEF OrderedOf, DeliveredOf, StoredOf

LEMMA ReceiveFlows ==
    ASSUME PurchasingInv, PurchasingInv', NEW d \in Receipts, NEW o \in Orders, NEW e \in EntryLists,
           Receive(d, o, e)
    PROVE  Flow!Deliver
<1>1. /\ \A x \in Orders \ {o} : order'[x] = order[x]
      /\ DOMAIN order'[o].lines = DOMAIN order[o].lines
      /\ shelf' = shelf
      /\ \A l \in DOMAIN order[o].lines :
             /\ order[o].lines[l] \in OrderLines
             /\ order'[o].lines[l] = Arrived(order[o].lines[l], Total(e, l, Marks))
             /\ Total(e, l, Marks) \in Nat
             /\ Total(e, l, Marks) > 0 => Total(e, l, Marks) <= Outstanding(order[o].lines[l])
  BY ReceiveWrites DEF PurchasingInv, GoodsInv
<1>2. ASSUME NEW l \in DOMAIN order[o].lines
      PROVE  /\ order'[o].lines[l].ordered = order[o].lines[l].ordered
             /\ order'[o].lines[l].received # order[o].lines[l].received =>
                   /\ order[o].lines[l].received < order'[o].lines[l].received
                   /\ order'[o].lines[l].received <= order[o].lines[l].ordered
  <2> DEFINE old == order[o].lines[l]
             new == order'[o].lines[l]
             n == Total(e, l, Marks)
  <2>1. old \in OrderLines /\ new = Arrived(old, n) /\ n \in Nat /\ (n > 0 => n <= Outstanding(old))
    BY <1>1
  <2>2. old.received <= old.ordered
    BY DEF PurchasingInv, ReceivedIsDelivered
  <2> HIDE DEF old, new, n
  <2>3. new.ordered = old.ordered /\ new.received = old.received + n /\ new.received <= new.ordered
    BY <2>1, <2>2, ArrivedLine
  <2>4. old.received \in Nat
    BY <2>1, Numbers DEF OrderLines
  <2> QED BY <2>1, <2>3, <2>4 DEF old, new
<1> QED BY <1>1, <1>2, DeliverMaps DEF OrderedOf, DeliveredOf, StoredOf

LEMMA PutawayFlows ==
    ASSUME PurchasingInv, PurchasingInv', NEW d \in Receipts, PutawayReceipt(d)
    PROVE  Flow!Store
<1>1. order' = order
  BY DEF PutawayReceipt
<1> SUFFICES ASSUME NEW o \in Orders, NEW l \in Lines, StoredOf(o, l)' # StoredOf(o, l)
             PROVE  StoredOf(o, l) < StoredOf(o, l)' /\ StoredOf(o, l)' <= DeliveredOf(o, l)
  BY <1>1, StoreMaps DEF OrderedOf, DeliveredOf
<1> DEFINE a == Total(receipt[d].entries, l, {"accepted"})
           r == Total(receipt[d].entries, l, {"rejected"})
           v == receipt[d].of
<1>2. /\ shelf'[o][l].serviceable = shelf[o][l].serviceable + IF o = v THEN a ELSE 0
      /\ shelf'[o][l].quarantine = shelf[o][l].quarantine + IF o = v THEN r ELSE 0
  BY PutawayTypes DEF PurchasingInv
<1>3. shelf[o][l].serviceable \in Nat /\ shelf[o][l].quarantine \in Nat
  BY DEF PurchasingInv, PurchasingTypeOK
<1>4. receipt[d].entries \in Seq(Entries)
  BY DEF PurchasingInv, PurchasingTypeOK, ReceiptRows
<1>5. a \in Nat /\ r \in Nat
  BY <1>4, Totals
<1>6. o = v /\ (a > 0 \/ r > 0)
  <2> HIDE DEF a, r, v
  <2> QED BY <1>2, <1>3, <1>5 DEF StoredOf
<1>7. l \in DOMAIN order[o].lines
  <2>1. \E i \in DOMAIN receipt[d].entries : receipt[d].entries[i].line = l
    BY <1>4, <1>6, Totals
  <2>2. receipt[d].status # "absent"
    BY DEF PutawayReceipt, MayPutAway
  <2> QED BY <1>6, <2>1, <2>2 DEF PurchasingInv, GoodsBelong
<1>8. StoredOf(o, l)' <= Brought(o, l, Marks, {"inspection", "closed"})'
  <2>1. (receipt \in [Receipts -> ReceiptRows])'
    BY DEF PurchasingInv, PurchasingTypeOK
  <2>2. (Brought(o, l, {"accepted"}, {"closed"}) + Brought(o, l, {"rejected"}, {"closed"})
            <= Brought(o, l, Marks, {"inspection", "closed"}))'
    BY <2>1, ShelvedIsBrought, PTL
  <2>3. /\ shelf'[o][l].serviceable = Brought(o, l, {"accepted"}, {"closed"})'
        /\ shelf'[o][l].quarantine = Brought(o, l, {"rejected"}, {"closed"})'
    BY DEF PurchasingInv, ShelvedOnce
  <2> QED BY <2>2, <2>3 DEF StoredOf
<1>9. DeliveredOf(o, l) = Brought(o, l, Marks, {"inspection", "closed"})'
  <2>1. order'[o].lines[l].received = Brought(o, l, Marks, {"inspection", "closed"})'
    BY <1>1, <1>7 DEF PurchasingInv, ReceivedIsDelivered
  <2> QED BY <1>1, <1>7, <2>1 DEF DeliveredOf
<1> HIDE DEF a, r, v
<1> QED BY <1>2, <1>3, <1>5, <1>6, <1>8, <1>9 DEF StoredOf

LEMMA FlowStep ==
    PurchasingInv /\ PurchasingInv' /\ [PurchasingNext]_purchaseVars
      => [Flow!Order \/ Flow!Deliver \/ Flow!Store]_(Flow!flow)
<1> SUFFICES ASSUME PurchasingInv, PurchasingInv', [PurchasingNext]_purchaseVars
             PROVE  Flow!Order \/ Flow!Deliver \/ Flow!Store \/ UNCHANGED Flow!flow
  OBVIOUS
<1>1. Same => UNCHANGED Flow!flow
  BY StutterMaps DEF Same
<1>2. PurchasingTypeOK /\ BuyingInTurn /\ OneOrderPerRequest /\ GoodsInv
  BY DEF PurchasingInv, GoodsInv
<1>3. CASE BuyNext
  <2>1. \/ \E o \in Orders, f \in Rfqs : CreatePurchaseOrder(o, f)
        \/ UNCHANGED <<order, shelf>>
    BY <1>2, <1>3, RequestsInTurn, RfqsInTurn, QuotesInTurn DEF BuyNext
  <2> QED BY <1>1, <2>1, SameOrders, OrderFlows
<1>4. CASE GoodsNext
  <2>1. \/ \E d \in Receipts, o \in Orders : \E e \in EntryLists : Receive(d, o, e)
        \/ \E d \in Receipts : PutawayReceipt(d)
        \/ UNCHANGED <<order, shelf>>
    BY <1>4 DEF GoodsNext, InspectReceipt
  <2> QED BY <1>1, <2>1, SameOrders, ReceiveFlows, PutawayFlows
<1>5. CASE CloseNext
  <2>1. PICK o \in Orders : CloseWrites(o) \/ CloseWaits(o)
    BY <1>5, ClosingSteps DEF CloseNext
  <2>2. CloseWrites(o) => Same
    <3> SUFFICES ASSUME CloseWrites(o) PROVE Same
      OBVIOUS
    <3>1. \A x \in Orders :
              /\ DOMAIN order'[x].lines = DOMAIN order[x].lines
              /\ \A l \in DOMAIN order[x].lines :
                     /\ order'[x].lines[l].ordered = order[x].lines[l].ordered
                     /\ order'[x].lines[l].received = order[x].lines[l].received
      BY <1>2, CloseKeeps
    <3>2. shelf' = shelf
      BY DEF CloseWrites
    <3> QED BY <3>1, <3>2 DEF Same, OrderedOf, DeliveredOf, StoredOf
  <2>3. CloseWaits(o) => Same
    BY SameOrders DEF CloseWaits
  <2> QED BY <1>1, <2>1, <2>2, <2>3
<1>6. CASE SyncStep
  BY <1>1, <1>2, <1>6, SyncTypes, SameOrders
<1>7. CASE Crash
  BY <1>1, <1>2, <1>7, CrashTypes, SameOrders
<1>8. CASE UNCHANGED purchaseVars
  BY <1>1, <1>8, SameOrders DEF purchaseVars
<1> QED BY <1>3, <1>4, <1>5, <1>6, <1>7, <1>8 DEF PurchasingNext

LEMMA FlowStart == PurchasingInit => Flow!Start
<1> SUFFICES ASSUME PurchasingInit PROVE Flow!Start
  BY ZenonT(60)
<1>1. \A o \in Orders : DOMAIN order[o].lines = {}
  BY EmptyTable DEF PurchasingInit, NoOrder
<1>2. \A o \in Orders, l \in Lines : shelf[o][l].serviceable + shelf[o][l].quarantine = 0
  BY DEF PurchasingInit
<1> QED BY <1>1, <1>2 DEF Flow!Start

\* Purchasing implements OrderFlow: its steps order, deliver, store or change nothing of it.
THEOREM GoodsFlow == PurchasingSpec => ImplementsOrderFlow
<1>1. PurchasingSpec => [][Flow!Order \/ Flow!Deliver \/ Flow!Store]_(Flow!flow)
  BY PurchasingAlways, FlowStep, PTL DEF PurchasingSpec
<1> QED BY <1>1, FlowStart, PTL DEF PurchasingSpec, ImplementsOrderFlow, Flow!FlowSpec

-----------------------------------------------------------------------------
(* Material requests: the inductive invariant                              *)

Apart(lines) == \A i, j \in DOMAIN lines : i # j => lines[i].part # lines[j].part

\* Lines are handed out no more than they ask for, and nothing before the issue.
LinesFit(r) ==
    LET lines == mr[r].lines
    IN  /\ mr[r].status = "absent" => lines = <<>>
        /\ Len(lines) <= MaxLines
        /\ \A j \in DOMAIN lines :
              /\ lines[j].returned <= lines[j].issued /\ lines[j].issued <= lines[j].requested
              /\ mr[r].status \in {"absent", "requested", "approved", "reserved"} => lines[j].issued = 0

\* Reservations of a request came with its reserve step, each for one of its lines.
RowsFit(r) ==
    \A i \in DOMAIN rows : rows[i].source = r =>
        LET lines == mr[r].lines
        IN  /\ mr[r].status \notin {"absent", "requested", "approved"}
            /\ \E j \in DOMAIN lines : lines[j].part = rows[i].part /\ rows[i].qty <= lines[j].requested
            /\ Apart(lines) => \A k \in DOMAIN rows :
                   rows[k].source = r /\ rows[k].part = rows[i].part => k = i

FoundIn(read, r, p) ==
    {i \in DOMAIN read : read[i].status = "open" /\ read[i].source = r /\ read[i].part = p}

\* What a request has read of the reservations is behind by releases only.
ReadingFits(r) ==
    LET read == pending[r].read
    IN  /\ mr[r].status \in {"requested", "approved", "reserved"}
        /\ Len(read) <= Len(rows)
        /\ \A i \in DOMAIN rows : rows[i].source = r => i \in DOMAIN read
        /\ \A i \in DOMAIN read :
              /\ read[i].part = rows[i].part /\ read[i].at = rows[i].at /\ read[i].source = rows[i].source
              /\ rows[i].source = r => read[i].qty = rows[i].qty
              /\ rows[i].status = "open" => read[i].status = "open"
        /\ pending[r].kind = "issue" =>
              \A p \in Parts : pending[r].picked[p] \in
                  IF FoundIn(read, r, p) = {} THEN {0} ELSE FoundIn(read, r, p)

\* SettledHoldsNothing, of one request.
SettledFits(r) ==
    mr[r].status \in {"issued", "returned", "cancelled"} /\ Apart(mr[r].lines) => OpenRows(r) = {}

RequestFits(r) ==
    /\ LinesFit(r) /\ RowsFit(r) /\ SettledFits(r)
    /\ pending[r] # Nothing => ReadingFits(r)

\* What holds of every request, of the balances and of the goods in all.
MRInv ==
    /\ MRTypeOK
    /\ \A r \in Requests : RequestFits(r)
    /\ HeldIsPromised /\ NothingLost

-----------------------------------------------------------------------------
(* Runs through the lines                                                  *)

\* What holds before the first line and is kept by each holds after the last.
LEMMA CountUp ==
    ASSUME NEW n \in Nat, NEW S, 0 \in S, \A i \in 0 .. n : i \in S /\ i < n => i + 1 \in S
    PROVE  n \in S
<1> DEFINE Bad == {T \in SUBSET (0 .. n) : \E i \in 0 .. n : T = 0 .. i /\ i \notin S}
<1> SUFFICES ASSUME n \notin S PROVE FALSE
  OBVIOUS
<1>1. Bad # {} /\ Bad \in SUBSET SUBSET (0 .. n)
  <2>1. 0 .. n \in Bad
    OBVIOUS
  <2> QED BY <2>1
<1>2. PICK T \in Bad : \A U \in SUBSET T : U \in Bad => U = T
  <2>1. IsFiniteSet(0 .. n)
    BY FS_Interval
  <2> DEFINE X == 0 .. n
  <2>2. IsFiniteSet(X) /\ Bad \in SUBSET SUBSET X /\ Bad # {}
    BY <1>1, <2>1
  <2> HIDE DEF Bad, X
  <2> QED BY <2>2, SmallestCounterexample
<1>3. PICK i \in 0 .. n : T = 0 .. i /\ i \notin S
  OBVIOUS
<1>4. i # 0 /\ i - 1 \in 0 .. n /\ i - 1 < n /\ (i - 1) + 1 = i
  BY <1>3
<1>5. i - 1 \notin S
  BY <1>3, <1>4
<1>6. 0 .. (i - 1) \in SUBSET T /\ 0 .. (i - 1) \in Bad
  BY <1>3, <1>4, <1>5
<1>7. 0 .. (i - 1) = 0 .. i
  <2> HIDE DEF Bad
  <2> QED BY <1>2, <1>3, <1>6
<1> QED BY <1>3, <1>4, <1>7

\* A run starts with what the request finds, and the last row of its table is what it makes.
FirstReserve(r) == [lines |-> mr[r].lines, balance |-> balance, rows |-> rows, ok |-> TRUE]

LEMMA ReserveRuns ==
    ASSUME NEW r, NEW at, Len(mr[r].lines) \in Nat
    PROVE  \E run : /\ run[0] = FirstReserve(r)
                    /\ \A i \in 1 .. Len(mr[r].lines) : run[i] = ReserveLine(r, at, run[i - 1], i)
                    /\ ReserveRun(r, at) = run[Len(mr[r].lines)]
<1> DEFINE n == Len(mr[r].lines)
           Tab(g, m) == g = [i \in 0 .. m |-> IF i = 0 THEN FirstReserve(r)
                                                ELSE ReserveLine(r, at, g[i - 1], i)]
           S == {m \in 0 .. n : \E g : Tab(g, m)}
<1>1. 0 \in S
  <2>1. Tab([i \in 0 .. 0 |-> FirstReserve(r)], 0)
    OBVIOUS
  <2> HIDE DEF Tab
  <2> QED BY <2>1
<1>2. ASSUME NEW m \in 0 .. n, m \in S, m < n PROVE m + 1 \in S
  <2>1. PICK g : Tab(g, m)
    BY <1>2
  <2> DEFINE h == [i \in 0 .. m + 1 |-> IF i \in 0 .. m THEN g[i] ELSE ReserveLine(r, at, g[m], m + 1)]
  <2>2. \A i \in 0 .. m + 1 : h[i] = IF i = 0 THEN FirstReserve(r) ELSE ReserveLine(r, at, h[i - 1], i)
    <3> SUFFICES ASSUME NEW i \in 0 .. m + 1
                 PROVE  h[i] = IF i = 0 THEN FirstReserve(r) ELSE ReserveLine(r, at, h[i - 1], i)
      OBVIOUS
    <3>1. CASE i = 0
      BY <2>1, <3>1
    <3>2. CASE i \in 1 .. m
      <4>1. h[i] = g[i] /\ h[i - 1] = g[i - 1] /\ i # 0
        BY <3>2
      <4> QED BY <2>1, <3>2, <4>1
    <3>3. CASE i = m + 1
      <4>1. h[i - 1] = g[m] /\ h[i] = ReserveLine(r, at, g[m], m + 1) /\ i # 0
        BY <3>3
      <4> QED BY <3>3, <4>1
    <3> QED BY <3>1, <3>2, <3>3
  <2>3. Tab(h, m + 1)
    BY <2>2
  <2> HIDE DEF Tab, h
  <2>4. m + 1 \in 0 .. n
    BY <1>2
  <2> QED BY <2>3, <2>4
<1>3. n \in S
  <2> HIDE DEF S
  <2> QED BY <1>1, <1>2, CountUp
<1> DEFINE run == CHOOSE g : Tab(g, n)
<1>4. Tab(run, n)
  BY <1>3
<1>5. ReserveRun(r, at) = run[n]
  BY DEF ReserveRun, FirstReserve
<1> HIDE DEF run
<1>6. run[0] = FirstReserve(r)
  BY <1>4
<1>7. \A i \in 1 .. n : run[i] = ReserveLine(r, at, run[i - 1], i)
  <2>1. \A i \in 1 .. n : i \in 0 .. n /\ i # 0
    OBVIOUS
  <2> QED BY Zenon, <1>4, <2>1
<1> QED BY <1>5, <1>6, <1>7

FirstIssue(r) == [lines |-> mr[r].lines, balance |-> balance, seen |-> pending[r].read, ok |-> TRUE]

LEMMA IssueRuns ==
    ASSUME NEW r, NEW draw, Len(mr[r].lines) \in Nat
    PROVE  \E run : /\ run[0] = FirstIssue(r)
                    /\ \A i \in 1 .. Len(mr[r].lines) : run[i] = IssueLine(pending[r].picked, draw, run[i - 1], i)
                    /\ IssueRun(r, draw) = run[Len(mr[r].lines)]
<1> DEFINE n == Len(mr[r].lines)
           Tab(g, m) == g = [i \in 0 .. m |-> IF i = 0 THEN FirstIssue(r)
                                                ELSE IssueLine(pending[r].picked, draw, g[i - 1], i)]
           S == {m \in 0 .. n : \E g : Tab(g, m)}
<1>1. 0 \in S
  <2>1. Tab([i \in 0 .. 0 |-> FirstIssue(r)], 0)
    OBVIOUS
  <2> HIDE DEF Tab
  <2> QED BY <2>1
<1>2. ASSUME NEW m \in 0 .. n, m \in S, m < n PROVE m + 1 \in S
  <2>1. PICK g : Tab(g, m)
    BY <1>2
  <2> DEFINE h == [i \in 0 .. m + 1 |-> IF i \in 0 .. m THEN g[i] ELSE IssueLine(pending[r].picked, draw, g[m], m + 1)]
  <2>2. \A i \in 0 .. m + 1 : h[i] = IF i = 0 THEN FirstIssue(r) ELSE IssueLine(pending[r].picked, draw, h[i - 1], i)
    <3> SUFFICES ASSUME NEW i \in 0 .. m + 1
                 PROVE  h[i] = IF i = 0 THEN FirstIssue(r) ELSE IssueLine(pending[r].picked, draw, h[i - 1], i)
      OBVIOUS
    <3>1. CASE i = 0
      BY <2>1, <3>1
    <3>2. CASE i \in 1 .. m
      <4>1. h[i] = g[i] /\ h[i - 1] = g[i - 1] /\ i # 0
        BY <3>2
      <4> QED BY <2>1, <3>2, <4>1
    <3>3. CASE i = m + 1
      <4>1. h[i - 1] = g[m] /\ h[i] = IssueLine(pending[r].picked, draw, g[m], m + 1) /\ i # 0
        BY <3>3
      <4> QED BY <3>3, <4>1
    <3> QED BY <3>1, <3>2, <3>3
  <2>3. Tab(h, m + 1)
    BY <2>2
  <2> HIDE DEF Tab, h
  <2>4. m + 1 \in 0 .. n
    BY <1>2
  <2> QED BY <2>3, <2>4
<1>3. n \in S
  <2> HIDE DEF S
  <2> QED BY ZenonT(60), <1>1, <1>2, CountUp
<1> DEFINE run == CHOOSE g : Tab(g, n)
<1>4. Tab(run, n)
  BY <1>3
<1>5. IssueRun(r, draw) = run[n]
  BY DEF IssueRun, FirstIssue
<1> HIDE DEF run
<1>6. run[0] = FirstIssue(r)
  BY <1>4
<1>7. \A i \in 1 .. n : run[i] = IssueLine(pending[r].picked, draw, run[i - 1], i)
  <2>1. \A i \in 1 .. n : i \in 0 .. n /\ i # 0
    OBVIOUS
  <2> QED BY Zenon, <1>4, <2>1
<1> QED BY <1>5, <1>6, <1>7

FirstReturn(r) == [lines |-> mr[r].lines, balance |-> balance, came |-> came, ok |-> TRUE]

LEMMA ReturnRuns ==
    ASSUME NEW r, NEW at, NEW entries, Len(entries) \in Nat
    PROVE  \E run : /\ run[0] = FirstReturn(r)
                    /\ \A i \in 1 .. Len(entries) : run[i] = ReturnEntry(at, run[i - 1], entries[i])
                    /\ ReturnRun(r, at, entries) = run[Len(entries)]
<1> DEFINE n == Len(entries)
           Tab(g, m) == g = [i \in 0 .. m |-> IF i = 0 THEN FirstReturn(r)
                                                ELSE ReturnEntry(at, g[i - 1], entries[i])]
           S == {m \in 0 .. n : \E g : Tab(g, m)}
<1>1. 0 \in S
  <2>1. Tab([i \in 0 .. 0 |-> FirstReturn(r)], 0)
    OBVIOUS
  <2> HIDE DEF Tab
  <2> QED BY <2>1
<1>2. ASSUME NEW m \in 0 .. n, m \in S, m < n PROVE m + 1 \in S
  <2>1. PICK g : Tab(g, m)
    BY <1>2
  <2> DEFINE h == [i \in 0 .. m + 1 |-> IF i \in 0 .. m THEN g[i] ELSE ReturnEntry(at, g[m], entries[m + 1])]
  <2>2. \A i \in 0 .. m + 1 : h[i] = IF i = 0 THEN FirstReturn(r) ELSE ReturnEntry(at, h[i - 1], entries[i])
    <3> SUFFICES ASSUME NEW i \in 0 .. m + 1
                 PROVE  h[i] = IF i = 0 THEN FirstReturn(r) ELSE ReturnEntry(at, h[i - 1], entries[i])
      OBVIOUS
    <3>1. CASE i = 0
      BY <2>1, <3>1
    <3>2. CASE i \in 1 .. m
      <4>1. h[i] = g[i] /\ h[i - 1] = g[i - 1] /\ i # 0
        BY <3>2
      <4> QED BY <2>1, <3>2, <4>1
    <3>3. CASE i = m + 1
      <4>1. h[i - 1] = g[m] /\ h[i] = ReturnEntry(at, g[m], entries[m + 1]) /\ i # 0
        BY <3>3
      <4> QED BY <3>3, <4>1
    <3> QED BY <3>1, <3>2, <3>3
  <2>3. Tab(h, m + 1)
    BY <2>2
  <2> HIDE DEF Tab, h
  <2>4. m + 1 \in 0 .. n
    BY <1>2
  <2> QED BY <2>3, <2>4
<1>3. n \in S
  <2> HIDE DEF S
  <2> QED BY <1>1, <1>2, CountUp
<1> DEFINE run == CHOOSE g : Tab(g, n)
<1>4. Tab(run, n)
  BY <1>3
<1>5. ReturnRun(r, at, entries) = run[n]
  BY DEF ReturnRun, FirstReturn
<1> HIDE DEF run
<1>6. run[0] = FirstReturn(r)
  BY <1>4
<1>7. \A i \in 1 .. n : run[i] = ReturnEntry(at, run[i - 1], entries[i])
  BY <1>4
<1> QED BY <1>5, <1>6, <1>7

-----------------------------------------------------------------------------
(* Stock and what is promised of it                                        *)

Shelves == Parts \X Places
Stock == [Shelves -> [hand : Nat, held : Nat]]

HandSum(stock) == SumFunctionOnSet([x \in DOMAIN stock |-> stock[x].hand], DOMAIN stock)

OpenIn(rs, x) == {i \in DOMAIN rs : rs[i].status = "open" /\ <<rs[i].part, rs[i].at>> = x}
PromisedIn(rs, x) == SumFunctionOnSet([i \in DOMAIN rs |-> rs[i].qty], OpenIn(rs, x))
Claim(row, x) == IF row.status = "open" /\ <<row.part, row.at>> = x THEN row.qty ELSE 0

\* The reserved column is what these rows promise, and there is that much.
Sound(stock, rs) ==
    \A x \in Shelves : stock[x].held <= stock[x].hand /\ stock[x].held = PromisedIn(rs, x)

LEMMA ShelvesFinite == IsFiniteSet(Shelves)
BY RequestsAssumption, FS_Product DEF Shelves

LEMMA SeqFinite == ASSUME NEW T, NEW s \in Seq(T) PROVE IsFiniteSet(DOMAIN s) /\ DOMAIN s = 1 .. Len(s) /\ Len(s) \in Nat
BY FS_Interval

LEMMA PromisedIsClaimed ==
    ASSUME NEW rs \in Seq(ReservationRows), NEW x
    PROVE  /\ PromisedIn(rs, x) = SumFunctionOnSet([i \in DOMAIN rs |-> Claim(rs[i], x)], DOMAIN rs)
           /\ PromisedIn(rs, x) \in Nat
           /\ \A i \in DOMAIN rs : Claim(rs[i], x) \in Nat /\ Claim(rs[i], x) <= PromisedIn(rs, x)
<1> DEFINE D == DOMAIN rs
           q == [i \in D |-> rs[i].qty]
           c == [i \in D |-> Claim(rs[i], x)]
           T == OpenIn(rs, x)
<1>1. IsFiniteSet(D) /\ T \in SUBSET D
  BY SeqFinite DEF OpenIn
<1>2. \A i \in D : q[i] \in Nat /\ c[i] \in Nat
  <2> SUFFICES ASSUME NEW i \in D PROVE rs[i].qty \in Nat /\ Claim(rs[i], x) \in Nat
    OBVIOUS
  <2>1. rs[i] \in ReservationRows
    OBVIOUS
  <2> QED BY <2>1 DEF ReservationRows, Claim
<1> DEFINE p == [i \in D |-> IF i \in T THEN q[i] ELSE 0]
<1>3. \A i \in D : p[i] = c[i]
  BY DEF OpenIn, Claim
<1>4. PromisedIn(rs, x) = SumFunctionOnSet(q, T)
  BY DEF PromisedIn
<1> HIDE DEF D, q, c, T
<1>5. SumFunctionOnSet(q, T) = SumFunctionOnSet(p, D)
  BY <1>1, <1>2, SumOfPart
<1> HIDE DEF p
<1>6. SumFunctionOnSet(p, D) = SumFunctionOnSet(c, D)
  BY <1>1, <1>3, SumOfEqual
<1>7. SumFunctionOnSet(c, D) \in Nat /\ \A i \in D : c[i] <= SumFunctionOnSet(c, D)
  BY <1>1, <1>2, SumIsNat
<1> QED BY <1>2, <1>4, <1>5, <1>6, <1>7 DEF D, c

LEMMA RowAdded ==
    ASSUME NEW rs \in Seq(ReservationRows), NEW row \in ReservationRows, NEW x
    PROVE  PromisedIn(Append(rs, row), x) = PromisedIn(rs, x) + Claim(row, x)
<1> DEFINE more == Append(rs, row)
           e == Len(rs) + 1
           D == DOMAIN rs
           c == [i \in D |-> Claim(rs[i], x)]
           d == [i \in DOMAIN more |-> Claim(more[i], x)]
<1>1. more \in Seq(ReservationRows) /\ DOMAIN more = D \cup {e} /\ e \notin D
      /\ more[e] = row /\ \A i \in D : more[i] = rs[i]
  OBVIOUS
<1>2. \A i \in D \cup {e} : d[i] \in Int
  <2>1. \A i \in DOMAIN more : Claim(more[i], x) \in Nat
    <3> HIDE DEF more
    <3> QED BY <1>1, PromisedIsClaimed
  <2> HIDE DEF more
  <2> QED BY <1>1, <2>1
<1>3. IsFiniteSet(D)
  BY SeqFinite
<1>4. /\ PromisedIn(more, x) = SumFunctionOnSet(d, D \cup {e})
      /\ PromisedIn(rs, x) = SumFunctionOnSet(c, D)
  BY <1>1, PromisedIsClaimed
<1>5. (\A i \in D : c[i] = d[i]) /\ d[e] = Claim(row, x)
  BY <1>1
<1> HIDE DEF more, D, c, d, e
<1>6. SumFunctionOnSet(d, D \cup {e}) = SumFunctionOnSet(d, D) + d[e]
  BY <1>1, <1>2, <1>3, SumWithElement
<1>7. SumFunctionOnSet(c, D) = SumFunctionOnSet(d, D)
  BY <1>3, <1>5, SumOfEqual
<1> QED BY <1>4, <1>5, <1>6, <1>7 DEF more

LEMMA RowChanged ==
    ASSUME NEW rs \in Seq(ReservationRows), NEW ts \in Seq(ReservationRows), NEW x,
           DOMAIN ts = DOMAIN rs, NEW k \in DOMAIN rs, \A i \in DOMAIN rs : i # k => ts[i] = rs[i]
    PROVE  PromisedIn(ts, x) = PromisedIn(rs, x) - Claim(rs[k], x) + Claim(ts[k], x)
<1> DEFINE D == DOMAIN rs
           c == [i \in D |-> Claim(rs[i], x)]
           d == [i \in D |-> Claim(ts[i], x)]
<1>1. IsFiniteSet(D)
  BY SeqFinite
<1>2. /\ PromisedIn(rs, x) = SumFunctionOnSet(c, D)
      /\ PromisedIn(ts, x) = SumFunctionOnSet(d, D)
      /\ \A i \in D : c[i] \in Int /\ d[i] \in Int
  BY PromisedIsClaimed
<1>3. (\A i \in D \ {k} : c[i] = d[i]) /\ k \in D /\ c[k] = Claim(rs[k], x) /\ d[k] = Claim(ts[k], x)
  OBVIOUS
<1> HIDE DEF D, c, d
<1>4. SumFunctionOnSet(d, D) = SumFunctionOnSet(c, D) - c[k] + d[k]
  BY <1>1, <1>2, <1>3, SumOfChanged
<1> QED BY <1>2, <1>3, <1>4

\* Rows that are open are closed, all at once.
Closes(rs, ts, L) ==
    /\ DOMAIN ts = DOMAIN rs /\ L \subseteq DOMAIN rs
    /\ \A i \in L : rs[i].status = "open" /\ ts[i].status # "open"
    /\ \A i \in DOMAIN rs \ L : ts[i] = rs[i]

AtShelf(rs, L, x) == {i \in L : <<rs[i].part, rs[i].at>> = x}
RowQuantities(rs) == [i \in DOMAIN rs |-> rs[i].qty]

LEMMA RowsClosed ==
    ASSUME NEW rs \in Seq(ReservationRows), NEW ts \in Seq(ReservationRows), NEW x,
           NEW L, Closes(rs, ts, L)
    PROVE  PromisedIn(ts, x) = PromisedIn(rs, x) - SumFunctionOnSet(RowQuantities(rs), AtShelf(rs, L, x))
<1> DEFINE D == DOMAIN rs
           A == OpenIn(ts, x)
           B == AtShelf(rs, L, x)
           f == [i \in D |-> rs[i].qty]
           g == [i \in D |-> ts[i].qty]
<1>1. IsFiniteSet(D) /\ A \in SUBSET D /\ B \in SUBSET D /\ A \cap B = {}
  BY SeqFinite DEF OpenIn, Closes, AtShelf
<1>2. OpenIn(rs, x) = A \cup B
  BY DEF OpenIn, Closes, AtShelf
<1>3. \A i \in D : f[i] \in Nat
  <2> SUFFICES ASSUME NEW i \in D PROVE rs[i].qty \in Nat
    OBVIOUS
  <2>1. rs[i] \in ReservationRows
    OBVIOUS
  <2> QED BY <2>1 DEF ReservationRows
<1>4. \A i \in A : f[i] = g[i]
  BY <1>1, <1>3 DEF OpenIn, Closes
<1>5. IsFiniteSet(A) /\ IsFiniteSet(B)
  BY <1>1, FS_Subset
<1>6. PromisedIn(rs, x) = SumFunctionOnSet(f, A \cup B) /\ PromisedIn(ts, x) = SumFunctionOnSet(g, A)
  BY <1>2 DEF PromisedIn, Closes
<1>7. SumFunctionOnSet(RowQuantities(rs), B) = SumFunctionOnSet(f, B)
  BY DEF RowQuantities
<1> HIDE DEF D, A, B, f, g
<1>8. SumFunctionOnSet(f, A \cup B) = SumFunctionOnSet(f, A) + SumFunctionOnSet(f, B)
  <2>1. \A i \in D : f[i] \in Int
    BY <1>3
  <2> QED BY SMTT(60), <1>1, <2>1, SumOfTwoParts
<1>9. SumFunctionOnSet(f, A) = SumFunctionOnSet(g, A)
  BY <1>4, <1>5, SumOfEqual
<1>10. SumFunctionOnSet(f, B) \in Nat /\ SumFunctionOnSet(f, A) \in Nat
  <2>1. (\A i \in A : f[i] \in Nat) /\ \A i \in B : f[i] \in Nat
    BY <1>1, <1>3
  <2> QED BY <1>5, <2>1, SumIsNat
<1> QED BY <1>6, <1>7, <1>8, <1>9, <1>10 DEF B

\* The goods on hand after a change on one shelf.
LEMMA HandChanged ==
    ASSUME NEW b \in Stock, NEW c \in Stock, NEW x \in Shelves,
           \A y \in Shelves \ {x} : c[y].hand = b[y].hand
    PROVE  HandSum(c) = HandSum(b) - b[x].hand + c[x].hand
<1> DEFINE f == [y \in Shelves |-> b[y].hand]
           g == [y \in Shelves |-> c[y].hand]
<1>1. DOMAIN b = Shelves /\ DOMAIN c = Shelves
  BY DEF Stock
<1>2. HandSum(b) = SumFunctionOnSet(f, Shelves) /\ HandSum(c) = SumFunctionOnSet(g, Shelves)
  BY <1>1 DEF HandSum
<1>3. \A y \in Shelves : f[y] \in Int /\ g[y] \in Int
  BY DEF Stock
<1>4. (\A y \in Shelves \ {x} : f[y] = g[y]) /\ f[x] = b[x].hand /\ g[x] = c[x].hand
  OBVIOUS
<1> HIDE DEF f, g
<1>5. SumFunctionOnSet(g, Shelves) = SumFunctionOnSet(f, Shelves) - f[x] + g[x]
  BY <1>3, <1>4, ShelvesFinite, SumOfChanged
<1> QED BY <1>2, <1>4, <1>5

LEMMA HandSumType == ASSUME NEW b \in Stock PROVE HandSum(b) \in Nat
<1> DEFINE f == [y \in Shelves |-> b[y].hand]
<1>1. HandSum(b) = SumFunctionOnSet(f, Shelves) /\ \A y \in Shelves : f[y] \in Nat
  BY DEF HandSum, Stock
<1> HIDE DEF f
<1> QED BY <1>1, ShelvesFinite, SumIsNat

LEMMA HandsSame ==
    ASSUME NEW b \in Stock, NEW c \in Stock, \A y \in Shelves : c[y].hand = b[y].hand
    PROVE  HandSum(c) = HandSum(b)
<1> DEFINE f == [y \in Shelves |-> b[y].hand]
           g == [y \in Shelves |-> c[y].hand]
<1>1. HandSum(b) = SumFunctionOnSet(f, Shelves) /\ HandSum(c) = SumFunctionOnSet(g, Shelves)
  BY DEF HandSum, Stock
<1>2. f = g
  OBVIOUS
<1> QED BY <1>1, <1>2

\* The goods on hand after something was taken from several shelves.
LEMMA HandDrawn ==
    ASSUME NEW b \in Stock, NEW c \in Stock, NEW T \in SUBSET Shelves, NEW d,
           \A y \in T : d[y] \in Nat /\ c[y].hand = b[y].hand - d[y],
           \A y \in Shelves \ T : c[y].hand = b[y].hand
    PROVE  SumFunctionOnSet(d, T) \in Nat /\ HandSum(c) = HandSum(b) - SumFunctionOnSet(d, T)
<1> DEFINE f == [y \in Shelves |-> b[y].hand]
           g == [y \in Shelves |-> c[y].hand]
           p == [y \in Shelves |-> IF y \in T THEN d[y] ELSE 0]
           h == [y \in Shelves |-> g[y] + p[y]]
<1>1. HandSum(b) = SumFunctionOnSet(f, Shelves) /\ HandSum(c) = SumFunctionOnSet(g, Shelves)
  BY DEF HandSum, Stock
<1>2. \A y \in Shelves : b[y].hand \in Nat /\ c[y].hand \in Nat
  BY DEF Stock
<1>3. (\A y \in Shelves : f[y] \in Int /\ g[y] \in Int /\ p[y] \in Int /\ f[y] = h[y])
      /\ \A y \in T : d[y] \in Nat
  BY <1>2
<1>4. IsFiniteSet(Shelves) /\ IsFiniteSet(T)
  BY ShelvesFinite, FS_Subset
<1>5. SumFunctionOnSet(d, T) = SumFunctionOnSet(p, Shelves)
  <2> HIDE DEF f, g, h
  <2> QED BY <1>3, <1>4, SumOfPart
<1>6. SumFunctionOnSet(h, Shelves) = SumFunctionOnSet(g, Shelves) + SumFunctionOnSet(p, Shelves)
  <2> HIDE DEF f, g, p
  <2> QED BY <1>3, <1>4, SumOfBoth
<1> HIDE DEF f, g, h, p
<1>7. SumFunctionOnSet(f, Shelves) = SumFunctionOnSet(h, Shelves)
  BY <1>3, <1>4, SumOfEqual
<1>8. SumFunctionOnSet(d, T) \in Nat
  BY <1>3, <1>4, SumIsNat
<1>9. SumFunctionOnSet(g, Shelves) \in Int
  BY <1>3, <1>4, SumIsInt
<1> QED BY <1>1, <1>5, <1>6, <1>7, <1>8, <1>9

LEMMA IssuedType ==
    ASSUME NEW a \in Seq(LineRows) PROVE IssuedOf(a) \in Nat
<1> DEFINE f == [i \in DOMAIN a |-> a[i].issued]
<1>1. \A i \in DOMAIN a : f[i] \in Nat
  <2> SUFFICES ASSUME NEW i \in DOMAIN a PROVE a[i].issued \in Nat
    OBVIOUS
  <2>1. a[i] \in LineRows
    OBVIOUS
  <2> QED BY <2>1 DEF LineRows
<1>2. IsFiniteSet(DOMAIN a)
  BY SeqFinite
<1> HIDE DEF f
<1>3. SumFunctionOnSet(f, DOMAIN a) \in Nat
  BY <1>1, <1>2, SumIsNat
<1> QED BY <1>3 DEF IssuedOf, f

LEMMA IssuedSame ==
    ASSUME NEW a \in Seq(LineRows), NEW z \in Seq(LineRows), DOMAIN z = DOMAIN a,
           \A i \in DOMAIN a : z[i].issued = a[i].issued
    PROVE  IssuedOf(z) = IssuedOf(a)
<1>1. [i \in DOMAIN z |-> z[i].issued] = [i \in DOMAIN a |-> a[i].issued]
  OBVIOUS
<1> QED BY <1>1 DEF IssuedOf

LEMMA IssuedChanged ==
    ASSUME NEW a \in Seq(LineRows), NEW z \in Seq(LineRows), DOMAIN z = DOMAIN a, NEW k \in DOMAIN a,
           \A i \in DOMAIN a : i # k => z[i].issued = a[i].issued
    PROVE  IssuedOf(z) = IssuedOf(a) - a[k].issued + z[k].issued
<1> DEFINE D == DOMAIN a
           f == [i \in D |-> a[i].issued]
           g == [i \in D |-> z[i].issued]
<1>1. \A i \in D : f[i] \in Int /\ g[i] \in Int
  <2> SUFFICES ASSUME NEW i \in D PROVE a[i].issued \in Int /\ z[i].issued \in Int
    OBVIOUS
  <2>1. a[i] \in LineRows /\ z[i] \in LineRows
    OBVIOUS
  <2> QED BY <2>1 DEF LineRows
<1>2. IsFiniteSet(D) /\ k \in D
  BY SeqFinite
<1>3. (\A i \in D \ {k} : f[i] = g[i]) /\ f[k] = a[k].issued /\ g[k] = z[k].issued
  OBVIOUS
<1>4. IssuedOf(a) = SumFunctionOnSet(f, D) /\ IssuedOf(z) = SumFunctionOnSet(g, D)
  BY DEF IssuedOf
<1> HIDE DEF D, f, g
<1>5. SumFunctionOnSet(g, D) = SumFunctionOnSet(f, D) - f[k] + g[k]
  BY SMTT(30), <1>1, <1>2, <1>3, SumOfChanged
<1> QED BY <1>3, <1>4, <1>5

LEMMA AllIssuedChanged ==
    ASSUME MRTypeOK, MRTypeOK', NEW r \in Requests, \A q \in Requests \ {r} : mr'[q] = mr[q]
    PROVE  SumFunctionOnSet(IssuedBy, Requests)'
             = SumFunctionOnSet(IssuedBy, Requests) - IssuedOf(mr[r].lines) + IssuedOf(mr'[r].lines)
<1> DEFINE f == [q \in Requests |-> IssuedOf(mr[q].lines)]
           g == [q \in Requests |-> IssuedOf(mr'[q].lines)]
<1>1. \A q \in Requests : mr[q].lines \in Seq(LineRows) /\ mr'[q].lines \in Seq(LineRows)
  BY DEF MRTypeOK
<1>2. \A q \in Requests : f[q] \in Int /\ g[q] \in Int
  BY <1>1, IssuedType
<1>3. (\A q \in Requests \ {r} : f[q] = g[q]) /\ f[r] = IssuedOf(mr[r].lines) /\ g[r] = IssuedOf(mr'[r].lines)
  OBVIOUS
<1>4. /\ SumFunctionOnSet(IssuedBy, Requests) = SumFunctionOnSet(f, Requests)
      /\ SumFunctionOnSet(IssuedBy, Requests)' = SumFunctionOnSet(g, Requests)
  BY DEF IssuedBy
<1> HIDE DEF f, g
<1>5. SumFunctionOnSet(g, Requests) = SumFunctionOnSet(f, Requests) - f[r] + g[r]
  BY <1>2, <1>3, RequestsAssumption, SumOfChanged
<1> QED BY <1>3, <1>4, <1>5

-----------------------------------------------------------------------------
(* Requests that are not the one that takes a step                         *)

LEMMA SettledAlike ==
    SettledHoldsNothing <=> \A r \in Requests : SettledFits(r)
BY DEF SettledHoldsNothing, SettledFits, Apart

\* The reservations, as a request sees others change them.
RowsMoveOn(r) ==
    /\ DOMAIN rows \subseteq DOMAIN rows'
    /\ \A i \in DOMAIN rows :
          /\ rows'[i].part = rows[i].part /\ rows'[i].at = rows[i].at /\ rows'[i].source = rows[i].source
          /\ rows'[i].status = "open" => rows[i].status = "open"
          /\ rows[i].source = r => rows'[i].qty = rows[i].qty
    /\ \A i \in DOMAIN rows' \ DOMAIN rows : rows'[i].source # r

LEMMA OtherRequest ==
    ASSUME MRTypeOK, MRTypeOK', NEW r \in Requests, RequestFits(r),
           mr'[r] = mr[r], pending'[r] \in {pending[r], Nothing}, RowsMoveOn(r)
    PROVE  RequestFits(r)'
<1>1. LinesFit(r)' /\ RowsFit(r)' /\ SettledFits(r)'
  BY DEF RequestFits, LinesFit, RowsFit, SettledFits, OpenRows, Apart, RowsMoveOn
<1>2. ASSUME pending'[r] # Nothing PROVE ReadingFits(r)'
  <2>1. pending'[r] = pending[r] /\ ReadingFits(r)
    BY <1>2 DEF RequestFits
  <2>2. Len(rows) <= Len(rows') /\ pending[r].read \in Seq(ReservationRows)
    <3>1. rows \in Seq(ReservationRows) /\ rows' \in Seq(ReservationRows)
      BY DEF MRTypeOK
    <3>2. DOMAIN rows = 1 .. Len(rows) /\ DOMAIN rows' = 1 .. Len(rows')
          /\ Len(rows) \in Nat /\ Len(rows') \in Nat
      BY <3>1
    <3>3. pending[r] \in Readings
      BY <1>2, <2>1 DEF MRTypeOK
    <3> QED BY <3>2, <3>3 DEF RowsMoveOn, Readings
  <2>3. Len(pending[r].read) \in Nat /\ Len(rows) \in Nat /\ Len(rows') \in Nat
        /\ DOMAIN pending[r].read \subseteq DOMAIN rows
    <3>1. rows \in Seq(ReservationRows) /\ rows' \in Seq(ReservationRows)
      BY Zenon DEF MRTypeOK
    <3> QED BY <2>1, <2>2, <3>1 DEF ReadingFits
  <2>4. /\ mr'[r].status \in {"requested", "approved", "reserved"}
        /\ Len(pending'[r].read) <= Len(rows')
        /\ \A i \in DOMAIN rows' : rows'[i].source = r => i \in DOMAIN pending'[r].read
    BY SMTT(30), <2>1, <2>2, <2>3 DEF ReadingFits, RowsMoveOn
  <2>5. ASSUME NEW i \in DOMAIN pending[r].read
        PROVE  /\ pending[r].read[i].part = rows'[i].part
               /\ pending[r].read[i].at = rows'[i].at
               /\ pending[r].read[i].source = rows'[i].source
               /\ rows'[i].source = r => pending[r].read[i].qty = rows'[i].qty
               /\ rows'[i].status = "open" => pending[r].read[i].status = "open"
    BY <2>1, <2>3, <2>5 DEF ReadingFits, RowsMoveOn
  <2>6. pending[r].kind = "issue" =>
            \A p \in Parts : pending[r].picked[p] \in
                IF FoundIn(pending[r].read, r, p) = {} THEN {0} ELSE FoundIn(pending[r].read, r, p)
    BY <2>1 DEF ReadingFits
  <2> QED BY <2>1, <2>4, <2>5, <2>6 DEF ReadingFits
<1> QED BY <1>1, <1>2 DEF RequestFits

LEMMA RowsUntouched == ASSUME NEW r, UNCHANGED rows PROVE RowsMoveOn(r)
BY DEF RowsMoveOn

\* What HeldIsPromised and NothingLost say, in the words of the lemmas.
LEMMA HeldAlike ==
    ASSUME MRTypeOK PROVE HeldIsPromised <=> (~raced => Sound(balance, rows))
BY DEF HeldIsPromised, Sound, PromisedIn, OpenIn, OpenAt, Quantity, MRTypeOK, Shelves

LEMMA HeldAlikeNext ==
    ASSUME MRTypeOK' PROVE HeldIsPromised' <=> (~raced' => Sound(balance', rows'))
BY DEF HeldIsPromised, Sound, PromisedIn, OpenIn, OpenAt, Quantity, MRTypeOK, Shelves

LEMMA LostAlike == NothingLost <=> came = HandSum(balance) + SumFunctionOnSet(IssuedBy, Requests)
BY DEF NothingLost, HandSum, OnHand

LEMMA LostAlikeNext ==
    NothingLost' <=> came' = HandSum(balance') + SumFunctionOnSet(IssuedBy, Requests)'
BY DEF NothingLost, HandSum, OnHand

LEMMA StockType == MRTypeOK => balance \in Stock
BY DEF MRTypeOK, Stock, Shelves

-----------------------------------------------------------------------------
(* The stock beside the requests                                           *)

LEMMA ReceiveGoodsKeeps ==
    ASSUME MRInv, NEW p \in Parts, NEW l \in Places, NEW n \in Pieces, ReceiveGoods(p, l, n)
    PROVE  MRInv'
<1> DEFINE x == <<p, l>>
<1>1. x \in Shelves /\ balance \in Stock /\ n \in Nat /\ MRTypeOK
  BY StockType, RequestsAssumption DEF MRInv, Shelves
<1>2. balance' = [balance EXCEPT ![x].hand = @ + n] /\ came' = came + n
      /\ UNCHANGED <<mr, rows, pending, raced>>
  BY DEF ReceiveGoods
<1> HIDE DEF x
<1>3. /\ balance' \in Stock
      /\ balance'[x].hand = balance[x].hand + n
      /\ \A y \in Shelves \ {x} : balance'[y] = balance[y]
      /\ \A y \in Shelves : balance'[y].held = balance[y].held /\ balance[y].hand <= balance'[y].hand
  BY <1>1, <1>2 DEF Stock
<1>4. MRTypeOK'
  BY <1>1, <1>2, <1>3 DEF MRTypeOK, Stock, Shelves
<1>5. \A r \in Requests : RequestFits(r)'
  BY <1>1, <1>2, <1>4, RowsUntouched, OtherRequest DEF MRInv
<1>6. HeldIsPromised'
  <2>1. HeldIsPromised' <=> (~raced' => Sound(balance', rows'))
    BY <1>4, HeldAlikeNext
  <2>2. \A y \in Shelves : balance[y].held \in Nat /\ balance[y].hand \in Nat /\ balance'[y].hand \in Nat
    BY <1>1, <1>3 DEF Stock
  <2>3. ~raced => Sound(balance, rows)
    BY <1>1, HeldAlike DEF MRInv
  <2> QED BY <1>2, <1>3, <2>1, <2>2, <2>3 DEF Sound
<1>7. NothingLost'
  <2>1. NothingLost' <=> came' = HandSum(balance') + SumFunctionOnSet(IssuedBy, Requests)'
    BY LostAlikeNext
  <2>2. HandSum(balance') = HandSum(balance) - balance[x].hand + (balance[x].hand + n)
    BY <1>1, <1>3, HandChanged
  <2>3. SumFunctionOnSet(IssuedBy, Requests)' = SumFunctionOnSet(IssuedBy, Requests)
    BY <1>2 DEF IssuedBy
  <2>4. HandSum(balance) \in Nat /\ balance[x].hand \in Nat /\ SumFunctionOnSet(IssuedBy, Requests) \in Nat
    <3>1. \A r \in Requests : IssuedBy[r] \in Nat
      BY <1>1, IssuedType DEF MRTypeOK, IssuedBy
    <3> QED BY <1>1, <3>1, HandSumType, RequestsAssumption, SumIsNat DEF Stock
  <2>5. came = HandSum(balance) + SumFunctionOnSet(IssuedBy, Requests)
    BY LostAlike DEF MRInv
  <2> QED BY <1>1, <1>2, <2>1, <2>2, <2>3, <2>4, <2>5
<1> QED BY <1>4, <1>5, <1>6, <1>7 DEF MRInv

\* What NothingLost says stays as long as goods and lines do.
LEMMA NothingMoved ==
    ASSUME MRInv, MRTypeOK', came' = came,
           \A y \in Shelves : balance'[y].hand = balance[y].hand,
           \A r \in Requests : IssuedOf(mr'[r].lines) = IssuedOf(mr[r].lines)
    PROVE  NothingLost'
<1>1. NothingLost' <=> came' = HandSum(balance') + SumFunctionOnSet(IssuedBy, Requests)'
  BY LostAlikeNext
<1>2. HandSum(balance') = HandSum(balance)
  <2>1. balance \in Stock /\ balance' \in Stock
    BY DEF MRInv, MRTypeOK, Stock, Shelves
  <2> QED BY <2>1, HandsSame
<1>3. SumFunctionOnSet(IssuedBy, Requests)' = SumFunctionOnSet(IssuedBy, Requests)
  <2>1. IssuedBy' = IssuedBy
    BY DEF IssuedBy
  <2> QED BY <2>1
<1>4. came = HandSum(balance) + SumFunctionOnSet(IssuedBy, Requests)
  BY LostAlike DEF MRInv
<1> QED BY <1>1, <1>2, <1>3, <1>4

LEMMA ReserveByHandKeeps ==
    ASSUME MRInv, NEW p \in Parts, NEW l \in Places, NEW n \in Pieces, ReserveByHand(p, l, n)
    PROVE  MRInv'
<1> DEFINE x == <<p, l>>
           row == Row(p, l, n, Nothing)
<1>1. x \in Shelves /\ balance \in Stock /\ n \in Nat /\ MRTypeOK /\ rows \in Seq(ReservationRows)
  BY StockType, RequestsAssumption DEF MRInv, Shelves, MRTypeOK
<1>2. row \in ReservationRows /\ row.source = Nothing
      /\ \A y : Claim(row, y) = IF y = x THEN n ELSE 0
  BY <1>1 DEF Row, ReservationRows, Claim
<1>3. /\ balance' = [balance EXCEPT ![x].held = @ + n] /\ rows' = Append(rows, row)
      /\ UNCHANGED <<mr, pending, came, raced>>
      /\ balance[x].hand - balance[x].held >= n
  BY DEF ReserveByHand, Free
<1> HIDE DEF x, row
<1>4. /\ balance' \in Stock
      /\ \A y \in Shelves : balance'[y].hand = balance[y].hand
      /\ \A y \in Shelves : balance'[y].held = balance[y].held + Claim(row, y)
      /\ \A y \in Shelves : balance[y].held <= balance[y].hand => balance'[y].held <= balance[y].hand
  <2> DEFINE b == balance[x]
             c == balance'[x]
  <2>1. /\ balance' \in Stock /\ c.hand = b.hand /\ c.held = b.held + n
        /\ \A y \in Shelves : y # x => balance'[y] = balance[y]
    BY <1>1, <1>3 DEF Stock
  <2>2. b.hand \in Nat /\ b.held \in Nat /\ b.hand - b.held >= n
    BY <1>1, <1>3 DEF Stock
  <2>3. b.held + n <= b.hand
    BY <1>1, <2>2
  <2> SUFFICES ASSUME NEW y \in Shelves
               PROVE  /\ balance'[y].hand = balance[y].hand
                      /\ balance'[y].held = balance[y].held + Claim(row, y)
                      /\ balance[y].held <= balance[y].hand => balance'[y].held <= balance[y].hand
    BY Zenon, <2>1
  <2>4. CASE y = x
    <3>1. Claim(row, x) = n
      BY Zenon, <1>2
    <3> QED BY Zenon, <2>1, <2>3, <2>4, <3>1
  <2>5. CASE y # x
    <3>1. Claim(row, y) = 0 /\ balance'[y] = balance[y]
      BY Zenon, <1>2, <2>1, <2>5
    <3>2. balance[y].held \in Nat
      BY <1>1 DEF Stock
    <3>3. balance[y].held = balance[y].held + 0
      BY <3>2
    <3> QED BY Zenon, <3>1, <3>3
  <2> QED BY <2>4, <2>5
<1>5. MRTypeOK'
  BY <1>1, <1>2, <1>3, <1>4 DEF MRTypeOK, Stock, Shelves
<1>6. \A r \in Requests : RequestFits(r)'
  <2>1. ASSUME NEW r \in Requests PROVE RowsMoveOn(r)
    <3>1. r # Nothing
      BY RequestsAssumption
    <3> QED BY <1>1, <1>2, <1>3, <3>1 DEF RowsMoveOn
  <2> QED BY <1>1, <1>3, <1>5, <2>1, OtherRequest DEF MRInv
<1>7. HeldIsPromised'
  <2>1. HeldIsPromised' <=> (~raced' => Sound(balance', rows'))
    BY Zenon, <1>5, HeldAlikeNext
  <2>2. ~raced => Sound(balance, rows)
    BY <1>1, HeldAlike DEF MRInv
  <2>3. \A y : PromisedIn(rows', y) = PromisedIn(rows, y) + Claim(row, y)
    BY <1>1, <1>2, <1>3, RowAdded
  <2> QED BY <1>3, <1>4, <2>1, <2>2, <2>3 DEF Sound
<1>8. NothingLost'
  BY <1>3, <1>4, <1>5, NothingMoved
<1> QED BY Zenon, <1>5, <1>6, <1>7, <1>8 DEF MRInv

\* A row that is closed gives back what it promised, and no more than is reserved.
LEMMA ReleaseKeeps ==
    ASSUME MRInv, NEW k \in DOMAIN rows, ReleaseReservation(k)
    PROVE  MRInv'
<1> DEFINE row == rows[k]
           x == <<row.part, row.at>>
<1>1. balance \in Stock /\ MRTypeOK /\ rows \in Seq(ReservationRows) /\ row \in ReservationRows
  <2>1. rows \in Seq(ReservationRows)
    BY DEF MRInv, MRTypeOK
  <2> QED BY <2>1, StockType DEF MRInv
<1>2. x \in Shelves /\ row.qty \in Nat /\ row.status = "open"
  BY <1>1 DEF ReservationRows, Shelves, ReleaseReservation
<1>3. /\ balance' = [balance EXCEPT ![x] = Unheld(@, row.qty)]
      /\ rows' = [rows EXCEPT ![k].status = "released"]
      /\ UNCHANGED <<mr, pending, came, raced>>
  BY DEF ReleaseReservation
<1>4. /\ rows' \in Seq(ReservationRows) /\ DOMAIN rows' = DOMAIN rows
      /\ \A i \in DOMAIN rows : i # k => rows'[i] = rows[i]
      /\ rows'[k] = [row EXCEPT !.status = "released"]
  <2>1. [row EXCEPT !.status = "released"] \in ReservationRows
    BY <1>1 DEF ReservationRows
  <2> QED BY <1>1, <1>3, <2>1
<1>5. \A y : Claim(rows'[k], y) = 0 /\ Claim(row, y) = IF y = x THEN row.qty ELSE 0
  <2>1. rows'[k].status = "released"
    BY <1>1, <1>4 DEF ReservationRows
  <2> QED BY <1>2, <2>1 DEF Claim
<1> HIDE DEF x, row
<1>6. /\ balance' \in Stock
      /\ \A y \in Shelves : balance'[y].hand = balance[y].hand
      /\ \A y \in Shelves : y # x => balance'[y] = balance[y]
      /\ row.qty <= balance[x].held => balance'[x].held = balance[x].held - row.qty
  BY <1>1, <1>2, <1>3 DEF Stock, Unheld
<1>7. MRTypeOK'
  BY <1>1, <1>3, <1>4, <1>6 DEF MRTypeOK, Stock, Shelves
<1>8. \A r \in Requests : RequestFits(r)'
  <2>1. \A r \in Requests : RowsMoveOn(r)
    BY <1>1, <1>4 DEF RowsMoveOn, row, ReservationRows
  <2> QED BY <1>1, <1>3, <1>7, <2>1, OtherRequest DEF MRInv
<1>9. HeldIsPromised'
  <2> SUFFICES ASSUME ~raced PROVE Sound(balance', rows')
    BY <1>3, <1>7, HeldAlikeNext
  <2>1. Sound(balance, rows)
    BY <1>1, HeldAlike DEF MRInv
  <2>2. \A y : PromisedIn(rows', y) = PromisedIn(rows, y) - Claim(row, y) + 0
    <3>1. rows \in Seq(ReservationRows) /\ k \in DOMAIN rows
      BY <1>1
    <3>2. \A y : PromisedIn(rows', y) = PromisedIn(rows, y) - Claim(rows[k], y) + Claim(rows'[k], y)
      BY <1>4, <3>1, RowChanged
    <3> QED BY <1>5, <3>2 DEF row
  <2>3. \A y : PromisedIn(rows, y) \in Nat /\ Claim(row, y) \in Nat /\ Claim(row, y) <= PromisedIn(rows, y)
    BY <1>1, PromisedIsClaimed DEF row
  <2>4. \A y \in Shelves : balance[y].held \in Nat /\ balance[y].hand \in Nat
    BY <1>1 DEF Stock
  <2>5. row.qty <= balance[x].held
    BY <1>2, <1>5, <2>1, <2>3 DEF Sound
  <2>6. \A y \in Shelves : balance'[y].held = balance[y].held - Claim(row, y)
    BY <1>2, <1>5, <1>6, <2>4, <2>5
  <2> QED BY <1>6, <2>1, <2>2, <2>3, <2>4, <2>6 DEF Sound
<1>10. NothingLost'
  BY <1>3, <1>6, <1>7, NothingMoved
<1> QED BY <1>7, <1>8, <1>9, <1>10 DEF MRInv

-----------------------------------------------------------------------------
(* Steps of a request that go through no lines                             *)

LEMMA NothingIssued ==
    ASSUME NEW a \in Seq(LineRows), \A i \in DOMAIN a : a[i].issued = 0
    PROVE  IssuedOf(a) = 0
<1> DEFINE f == [i \in DOMAIN a |-> a[i].issued]
<1>1. IsFiniteSet(DOMAIN a) /\ \A i \in DOMAIN a : f[i] = 0
  BY SeqFinite
<1> HIDE DEF f
<1>2. SumFunctionOnSet(f, DOMAIN a) = 0
  BY <1>1, SumOfZeros
<1> QED BY <1>2 DEF IssuedOf, f

\* One request moves, the stock and the reservations do not.
LEMMA OneMoves ==
    ASSUME MRInv, NEW r \in Requests, MRTypeOK', UNCHANGED <<balance, rows, came, raced>>,
           \A q \in Requests \ {r} : mr'[q] = mr[q] /\ pending'[q] = pending[q],
           IssuedOf(mr'[r].lines) = IssuedOf(mr[r].lines), RequestFits(r)'
    PROVE  MRInv'
<1>1. \A q \in Requests : RequestFits(q)'
  BY RowsUntouched, OtherRequest DEF MRInv
<1>2. HeldIsPromised'
  BY DEF MRInv, HeldIsPromised, Quantity, OpenAt
<1>3. NothingLost'
  BY NothingMoved
<1> QED BY <1>1, <1>2, <1>3 DEF MRInv

LEMMA CreateKeeps ==
    ASSUME MRInv, NEW r \in Requests, NEW wanted \in WantedLists, CreateMaterialRequest(r, wanted)
    PROVE  MRInv'
<1> DEFINE lines == [i \in DOMAIN wanted |->
                        [part |-> wanted[i][1], requested |-> wanted[i][2],
                         reserved |-> 0, issued |-> 0, returned |-> 0]]
<1>1. PICK n \in 1 .. MaxLines : wanted \in [1 .. n -> Parts \X Pieces]
  BY DEF WantedLists
<1>2. MaxLines \in Nat /\ n \in Nat /\ Pieces \subseteq Nat
  BY RequestsAssumption
<1>3. lines \in Seq(LineRows) /\ Len(lines) = n /\ DOMAIN lines = 1 .. n
  <2>1. \A i \in 1 .. n : lines[i] \in LineRows
    BY <1>1 DEF LineRows
  <2>2. lines \in [1 .. n -> LineRows]
    BY <1>1, <2>1
  <2> QED BY <1>2, <2>2
<1>4. \A i \in DOMAIN lines : lines[i].issued = 0 /\ lines[i].returned = 0 /\ lines[i].requested \in Nat
  BY <1>1, <1>2, <1>3
<1>5. mr' = [mr EXCEPT ![r] = [status |-> "requested", lines |-> lines]]
      /\ UNCHANGED <<balance, rows, pending, came, raced>> /\ mr[r].status = "absent"
  BY DEF CreateMaterialRequest
<1> HIDE DEF lines
<1>6. MRTypeOK'
  BY <1>3, <1>5 DEF MRInv, MRTypeOK, Statuses
<1>7. mr'[r] = [status |-> "requested", lines |-> lines]
      /\ \A q \in Requests \ {r} : mr'[q] = mr[q]
  BY <1>5 DEF MRInv, MRTypeOK
<1>8. LinesFit(r) /\ RowsFit(r) /\ (pending[r] # Nothing => ReadingFits(r)) /\ MRTypeOK
  BY DEF MRInv, RequestFits
<1>9. LinesFit(r)'
  BY <1>2, <1>3, <1>4, <1>7 DEF LinesFit
<1>10. RequestFits(r)'
  <2>1. \A i \in DOMAIN rows : rows[i].source # r
    BY <1>5, <1>8 DEF RowsFit
  <2>2. pending[r] = Nothing
    BY <1>5, <1>8 DEF ReadingFits
  <2>3. RowsFit(r)'
    BY <1>5, <2>1 DEF RowsFit
  <2>4. SettledFits(r)'
    BY <1>7 DEF SettledFits
  <2> QED BY <1>5, <1>9, <2>2, <2>3, <2>4 DEF RequestFits
<1>11. IssuedOf(mr'[r].lines) = 0 /\ IssuedOf(mr[r].lines) = 0
  <2>1. mr[r].lines \in Seq(LineRows) /\ \A i \in DOMAIN mr[r].lines : mr[r].lines[i].issued = 0
    BY <1>5, <1>8 DEF LinesFit, MRTypeOK
  <2>2. mr'[r].lines = lines
    BY <1>7
  <2> QED BY <1>3, <1>4, <2>1, <2>2, NothingIssued
<1> QED BY <1>5, <1>6, <1>7, <1>10, <1>11, OneMoves

LEMMA ApproveKeeps ==
    ASSUME MRInv, NEW r \in Requests, ApproveMaterialRequest(r)
    PROVE  MRInv'
<1>1. mr[r].status = "requested" /\ pending[r] = Nothing
      /\ mr' = [mr EXCEPT ![r].status = "approved"] /\ UNCHANGED <<balance, rows, pending, came, raced>>
  BY DEF ApproveMaterialRequest, May, MRTransitions
<1>2. MRTypeOK'
  BY ZenonT(60), <1>1 DEF MRInv, MRTypeOK, Statuses
<1>3. mr'[r].status = "approved" /\ mr'[r].lines = mr[r].lines
      /\ \A q \in Requests \ {r} : mr'[q] = mr[q]
  BY <1>1 DEF MRInv, MRTypeOK
<1>4. LinesFit(r) /\ RowsFit(r) /\ MRTypeOK
  BY DEF MRInv, RequestFits
<1>5. LinesFit(r)'
  BY <1>1, <1>3, <1>4 DEF LinesFit
<1>6. RowsFit(r)' /\ SettledFits(r)'
  BY <1>1, <1>3, <1>4 DEF RowsFit, SettledFits
<1> QED BY <1>1, <1>2, <1>3, <1>5, <1>6, OneMoves DEF RequestFits

LEMMA GiveUpKeeps ==
    ASSUME MRInv, NEW r \in Requests, GiveUp(r)
    PROVE  MRInv'
<1>1. pending' = [pending EXCEPT ![r] = Nothing] /\ UNCHANGED <<mr, balance, rows, came, raced>>
  BY DEF GiveUp
<1>2. MRTypeOK'
  BY <1>1 DEF MRInv, MRTypeOK
<1>3. RequestFits(r)'
  BY <1>1, <1>2, RowsUntouched, OtherRequest DEF MRInv, MRTypeOK
<1> QED BY <1>1, <1>2, <1>3, OneMoves DEF MRInv, MRTypeOK

LEMMA LeastIndex ==
    ASSUME NEW n \in Nat, NEW F \in SUBSET (1 .. n), F # {}
    PROVE  \E i \in F : \A j \in F : i <= j
<1> SUFFICES ASSUME \A i \in F : \E j \in F : j < i PROVE FALSE
  OBVIOUS
<1> DEFINE S == {i \in 0 .. n : \A j \in F : i < j}
<1>1. 0 \in S
  OBVIOUS
<1>2. \A i \in 0 .. n : i \in S /\ i < n => i + 1 \in S
  <2> SUFFICES ASSUME NEW i \in 0 .. n, i \in S, i < n, NEW j \in F PROVE i + 1 < j
    OBVIOUS
  <2>1. i < j /\ i \in Int /\ j \in Int
    OBVIOUS
  <2>2. i + 1 # j
    OBVIOUS
  <2> QED BY <2>1, <2>2
<1>3. n \in S
  <2> HIDE DEF S
  <2> QED BY <1>1, <1>2, CountUp
<1>4. PICK j \in F : TRUE
  OBVIOUS
<1>5. n < j
  BY <1>3, <1>4
<1>6. j \in 1 .. n
  BY <1>4
<1> QED BY <1>5, <1>6

LEMMA BeginKeeps ==
    ASSUME MRInv, NEW r \in Requests, BeginIssue(r) \/ BeginCancel(r)
    PROVE  MRInv'
<1>1. MRTypeOK /\ rows \in Seq(ReservationRows) /\ RequestFits(r)
      /\ UNCHANGED <<mr, balance, rows, came, raced>>
  BY DEF MRInv, MRTypeOK, BeginIssue, BeginCancel
<1>2. ASSUME NEW p \in Parts
      PROVE  Picked(r)[p] \in IF FoundIn(rows, r, p) = {} THEN {0} ELSE FoundIn(rows, r, p)
  <2> DEFINE found == {i \in OpenRows(r) : rows[i].part = p}
  <2>1. found = FoundIn(rows, r, p)
    BY DEF FoundIn, OpenRows
  <2>2. Picked(r)[p] = IF found = {} THEN 0 ELSE CHOOSE i \in found : \A j \in found : i <= j
    BY DEF Picked
  <2>3. found \in SUBSET (1 .. Len(rows)) /\ Len(rows) \in Nat
    BY <1>1 DEF OpenRows
  <2> HIDE DEF found
  <2>4. found # {} => \E i \in found : \A j \in found : i <= j
    BY <2>3, LeastIndex
  <2> QED BY <2>1, <2>2, <2>4
<1>3. Picked(r) \in [Parts -> Nat]
  <2>1. \A p \in Parts : FoundIn(rows, r, p) \subseteq Nat
    BY <1>1 DEF FoundIn
  <2>2. \A p \in Parts : Picked(r)[p] \in Nat
    BY <1>2, <2>1
  <2> QED BY <2>2 DEF Picked
<1> DEFINE new == IF BeginIssue(r) THEN [kind |-> "issue", picked |-> Picked(r), read |-> rows]
                  ELSE [kind |-> "cancel", picked |-> [p \in Parts |-> 0], read |-> rows]
<1>4. pending' = [pending EXCEPT ![r] = new]
  BY DEF BeginIssue, BeginCancel
<1>5. new \in Readings /\ new.read = rows /\ (new.kind = "issue" => new.picked = Picked(r))
  BY <1>1, <1>3 DEF Readings
<1>6. mr[r].status \in {"requested", "approved", "reserved"}
  BY <1>1 DEF BeginIssue, BeginCancel, May, MRTransitions
<1> HIDE DEF new
<1>7. pending'[r] = new /\ \A q \in Requests \ {r} : pending'[q] = pending[q]
  BY <1>1, <1>4 DEF MRTypeOK
<1>8. MRTypeOK'
  BY <1>1, <1>4, <1>5 DEF MRTypeOK
<1>9. ReadingFits(r)'
  <2>1. /\ mr'[r].status \in {"requested", "approved", "reserved"}
        /\ Len(rows) <= Len(rows')
    BY <1>1, <1>6
  <2> QED BY <1>1, <1>2, <1>5, <1>7, <2>1 DEF ReadingFits
<1>10. LinesFit(r)' /\ RowsFit(r)' /\ SettledFits(r)'
  BY <1>1 DEF RequestFits, LinesFit, RowsFit, SettledFits, OpenRows
<1> QED BY <1>1, <1>7, <1>8, <1>9, <1>10, OneMoves DEF RequestFits

\* The reservations a request has read, as they are now.
LEMMA ReadingType ==
    ASSUME MRInv, NEW r \in Requests, pending[r] # Nothing
    PROVE  /\ pending[r] \in Readings /\ pending[r].read \in Seq(ReservationRows)
           /\ rows \in Seq(ReservationRows) /\ ReadingFits(r)
           /\ DOMAIN pending[r].read \subseteq DOMAIN rows
<1>1. pending[r] \in Readings /\ rows \in Seq(ReservationRows)
  BY DEF MRInv, MRTypeOK
<1>2. pending[r].read \in Seq(ReservationRows) /\ ReadingFits(r)
  BY <1>1 DEF Readings, MRInv, RequestFits
<1>3. /\ DOMAIN pending[r].read = 1 .. Len(pending[r].read) /\ DOMAIN rows = 1 .. Len(rows)
      /\ Len(pending[r].read) \in Nat /\ Len(rows) \in Nat
  BY <1>1, <1>2
<1>4. Len(pending[r].read) <= Len(rows)
  BY <1>2 DEF ReadingFits
<1> QED BY <1>1, <1>2, <1>3, <1>4

LEMMA CancelKeeps ==
    ASSUME MRInv, NEW r \in Requests, FinishCancel(r)
    PROVE  MRInv'
<1> DEFINE L == ListedRows(r)
           read == pending[r].read
           qty == [i \in DOMAIN read |-> read[i].qty]
           At(b) == {i \in L : <<read[i].part, read[i].at>> = b}
           N(b) == SumFunctionOnSet(qty, At(b))
           lines == mr[r].lines
<1>1. /\ pending[r] # Nothing
      /\ balance' = [b \in DOMAIN balance |-> Unheld(balance[b], N(b))]
      /\ rows' = [i \in DOMAIN rows |-> IF i \in L THEN [rows[i] EXCEPT !.status = "released"] ELSE rows[i]]
      /\ mr' = [mr EXCEPT ![r] = [status |-> "cancelled",
                                  lines |-> [i \in DOMAIN lines |-> [lines[i] EXCEPT !.reserved = 0]]]]
      /\ raced' = (raced \/ Changed(r))
      /\ pending' = [pending EXCEPT ![r] = Nothing]
      /\ came' = came
  BY DEF FinishCancel
<1>2. /\ MRTypeOK /\ RequestFits(r) /\ ReadingFits(r) /\ balance \in Stock
      /\ read \in Seq(ReservationRows) /\ rows \in Seq(ReservationRows)
      /\ DOMAIN read \subseteq DOMAIN rows
  BY <1>1, ReadingType, StockType DEF MRInv
<1>3. L \in SUBSET DOMAIN read /\ \A i \in L : read[i].status = "open" /\ read[i].source = r
  BY DEF ListedRows
<1>4. \A b : N(b) \in Nat
  <2> TAKE b
  <2>1. IsFiniteSet(DOMAIN read)
    BY <1>2, SeqFinite
  <2>2. \A i \in DOMAIN read : read[i] \in ReservationRows
    BY <1>2
  <2>3. IsFiniteSet(At(b)) /\ \A i \in At(b) : qty[i] \in Nat
    BY <1>3, <2>1, <2>2, FS_Subset DEF ReservationRows
  <2> HIDE DEF At, qty
  <2> QED BY <2>3, SumIsNat
<1>5. /\ rows' \in Seq(ReservationRows) /\ DOMAIN rows' = DOMAIN rows
      /\ \A i \in L : rows'[i] = [rows[i] EXCEPT !.status = "released"] /\ rows'[i].status = "released"
      /\ \A i \in DOMAIN rows \ L : rows'[i] = rows[i]
  <2>1. \A i \in DOMAIN rows : rows[i] \in ReservationRows
    BY <1>2
  <2>2. \A i \in DOMAIN rows : /\ [rows[i] EXCEPT !.status = "released"] \in ReservationRows
                               /\ [rows[i] EXCEPT !.status = "released"].status = "released"
    BY <2>1 DEF ReservationRows
  <2>3. DOMAIN rows = 1 .. Len(rows) /\ Len(rows) \in Nat
    BY <1>2
  <2> HIDE DEF L
  <2>4. rows' \in [1 .. Len(rows) -> ReservationRows]
    BY <1>1, <2>1, <2>2, <2>3
  <2>5. rows' \in Seq(ReservationRows) /\ DOMAIN rows' = DOMAIN rows
    BY <2>3, <2>4
  <2>6. L \subseteq DOMAIN rows
    BY <1>2, <1>3
  <2>7. \A i \in DOMAIN rows :
            rows'[i] = IF i \in L THEN [rows[i] EXCEPT !.status = "released"] ELSE rows[i]
    BY <1>1
  <2> QED BY <2>2, <2>5, <2>6, <2>7
<1> HIDE DEF N, L
<1>6. /\ balance' \in Stock
      /\ \A y \in Shelves : balance'[y] = Unheld(balance[y], N(y))
      /\ \A y \in Shelves : balance'[y].hand = balance[y].hand
  <2>1. \A y \in Shelves : balance[y] \in [hand : Nat, held : Nat]
    BY <1>2 DEF Stock
  <2>2. \A y \in Shelves : /\ Unheld(balance[y], N(y)) \in [hand : Nat, held : Nat]
                            /\ Unheld(balance[y], N(y)).hand = balance[y].hand
    BY <1>4, <2>1 DEF Unheld
  <2>3. balance' = [y \in Shelves |-> Unheld(balance[y], N(y))]
    BY <1>1, <1>2 DEF Stock
  <2> QED BY <2>2, <2>3 DEF Stock
<1>7. lines \in Seq(LineRows)
  BY <1>2 DEF MRTypeOK
<1> DEFINE new == [i \in DOMAIN lines |-> [lines[i] EXCEPT !.reserved = 0]]
<1>8. /\ new \in Seq(LineRows) /\ DOMAIN new = DOMAIN lines /\ Len(new) = Len(lines)
      /\ \A i \in DOMAIN lines : /\ new[i].part = lines[i].part /\ new[i].requested = lines[i].requested
                                 /\ new[i].issued = lines[i].issued /\ new[i].returned = lines[i].returned
  <2>1. \A i \in DOMAIN lines : lines[i] \in LineRows
    BY <1>7
  <2>2. \A i \in DOMAIN lines : new[i] \in LineRows
    BY Zenon, <2>1 DEF LineRows
  <2>3. DOMAIN lines = 1 .. Len(lines) /\ Len(lines) \in Nat
    BY <1>7
  <2>4. new \in [1 .. Len(lines) -> LineRows]
    BY <2>2, <2>3
  <2> QED BY <2>1, <2>3, <2>4 DEF LineRows
<1>9. mr' = [mr EXCEPT ![r] = [status |-> "cancelled", lines |-> new]]
  BY <1>1
<1> HIDE DEF new
<1>10. MRTypeOK'
  <2>1. raced' \in BOOLEAN
    BY <1>1, <1>2 DEF MRTypeOK, Changed
  <2>2. balance' \in [Parts \X Places -> [hand : Nat, held : Nat]]
    BY <1>6 DEF Stock, Shelves
  <2>3. [status |-> "cancelled", lines |-> new] \in [status : Statuses, lines : Seq(LineRows)]
    BY <1>8 DEF Statuses
  <2>4. mr' \in [Requests -> [status : Statuses, lines : Seq(LineRows)]]
    BY <1>2, <1>9, <2>3 DEF MRTypeOK
  <2>5. pending' \in [Requests -> Readings \cup {Nothing}] /\ came' \in Nat
    BY <1>1, <1>2 DEF MRTypeOK
  <2> QED BY <1>5, <2>1, <2>2, <2>4, <2>5 DEF MRTypeOK
<1>11. mr'[r].status = "cancelled" /\ mr'[r].lines = new /\ pending'[r] = Nothing
       /\ \A q \in Requests \ {r} : mr'[q] = mr[q] /\ pending'[q] = pending[q]
  BY <1>1, <1>2, <1>9 DEF MRTypeOK
<1>12. ASSUME NEW q \in Requests PROVE RowsMoveOn(q)
  <2>1. \A i \in DOMAIN rows : rows[i] \in ReservationRows
    BY <1>2
  <2>2. ASSUME NEW i \in DOMAIN rows
        PROVE  /\ rows'[i].part = rows[i].part /\ rows'[i].at = rows[i].at
               /\ rows'[i].source = rows[i].source /\ rows'[i].qty = rows[i].qty
               /\ rows'[i].status = "open" => rows[i].status = "open"
    <3>1. CASE i \in L
      <4> DEFINE row == rows[i]
                 released == rows'[i]
      <4>1. released = [row EXCEPT !.status = "released"] /\ row \in ReservationRows
        BY <1>5, <2>1, <3>1
      <4> HIDE DEF row, released
      <4>2. /\ released.part = row.part /\ released.at = row.at /\ released.source = row.source
            /\ released.qty = row.qty /\ released.status = "released"
        BY <4>1 DEF ReservationRows
      <4> QED BY <4>2 DEF row, released
    <3>2. CASE i \notin L
      BY <1>5, <3>2
    <3> QED BY <3>1, <3>2
  <2> QED BY <1>5, <2>2 DEF RowsMoveOn
<1>13. RequestFits(r)'
  <2>1. LinesFit(r)'
    BY <1>2, <1>8, <1>11 DEF RequestFits, LinesFit
  <2>2. RowsFit(r)'
    <3> SUFFICES ASSUME NEW i \in DOMAIN rows', rows'[i].source = r
                 PROVE  /\ \E j \in DOMAIN new : new[j].part = rows'[i].part /\ rows'[i].qty <= new[j].requested
                        /\ Apart(new) => \A k \in DOMAIN rows' :
                               rows'[k].source = r /\ rows'[k].part = rows'[i].part => k = i
      BY <1>11 DEF RowsFit
    <3>1. \A k \in DOMAIN rows : /\ rows'[k].part = rows[k].part /\ rows'[k].source = rows[k].source
                                 /\ rows[k].source = r => rows'[k].qty = rows[k].qty
      BY <1>12 DEF RowsMoveOn
    <3>2. Apart(new) => Apart(lines)
      BY <1>8 DEF Apart
    <3>3. i \in DOMAIN rows /\ rows[i].source = r /\ rows'[i].part = rows[i].part /\ rows'[i].qty = rows[i].qty
      BY <1>5, <3>1
    <3>4. /\ \E j \in DOMAIN lines : lines[j].part = rows[i].part /\ rows[i].qty <= lines[j].requested
          /\ Apart(lines) => \A k \in DOMAIN rows :
                 rows[k].source = r /\ rows[k].part = rows[i].part => k = i
      BY <1>2, <3>3 DEF RequestFits, RowsFit, lines
    <3>5. \E j \in DOMAIN new : new[j].part = rows'[i].part /\ rows'[i].qty <= new[j].requested
      BY <1>8, <3>3, <3>4
    <3>6. Apart(new) => \A k \in DOMAIN rows' : rows'[k].source = r /\ rows'[k].part = rows'[i].part => k = i
      BY <1>5, <3>1, <3>2, <3>3, <3>4
    <3> QED BY <3>5, <3>6
  <2>3. OpenRows(r)' = {}
    <3> SUFFICES ASSUME NEW i \in DOMAIN rows', rows'[i].status = "open", rows'[i].source = r
                 PROVE  FALSE
      BY DEF OpenRows
    <3>1. i \in DOMAIN rows \ L /\ rows[i].status = "open" /\ rows[i].source = r
      BY <1>5, <1>12 DEF RowsMoveOn
    <3>2. i \in DOMAIN read /\ read[i].status = "open" /\ read[i].source = r
      BY <1>2, <3>1 DEF ReadingFits
    <3> QED BY <3>1, <3>2 DEF L, ListedRows
  <2> QED BY <1>11, <2>1, <2>2, <2>3 DEF RequestFits, SettledFits
<1>14. \A q \in Requests : RequestFits(q)'
  BY <1>2, <1>10, <1>11, <1>12, <1>13, OtherRequest DEF MRInv
<1>15. HeldIsPromised'
  <2> SUFFICES ASSUME ~raced' PROVE Sound(balance', rows')
    BY <1>10, HeldAlikeNext
  <2>1. ~raced /\ \A i \in DOMAIN read : read[i].source = r => read[i] = rows[i]
    BY Zenon, <1>1 DEF Changed
  <2>2. Sound(balance, rows)
    BY <1>2, <2>1, HeldAlike DEF MRInv
  <2>3. \A y : PromisedIn(rows', y) = PromisedIn(rows, y) - N(y)
    <3> TAKE y
    <3>1. Closes(rows, rows', L)
      BY Zenon, <1>2, <1>3, <1>5, <2>1 DEF Closes
    <3>2. At(y) = AtShelf(rows, L, y)
      BY <1>3, <2>1 DEF AtShelf
    <3>3. \A i \in At(y) : qty[i] = RowQuantities(rows)[i]
      BY <1>2, <1>3, <2>1 DEF RowQuantities
    <3>4. IsFiniteSet(At(y))
      BY <1>2, <1>3, SeqFinite, FS_Subset
    <3>5. N(y) = SumFunctionOnSet(qty, At(y))
      BY DEF N
    <3> HIDE DEF At, qty
    <3>6. SumFunctionOnSet(qty, At(y)) = SumFunctionOnSet(RowQuantities(rows), AtShelf(rows, L, y))
      BY <3>2, <3>3, <3>4, SumOfEqual
    <3>7. PromisedIn(rows', y) = PromisedIn(rows, y)
              - SumFunctionOnSet(RowQuantities(rows), AtShelf(rows, L, y))
      BY <1>2, <1>5, <3>1, RowsClosed
    <3> QED BY <3>5, <3>6, <3>7
  <2>4. \A y : PromisedIn(rows, y) \in Nat /\ PromisedIn(rows', y) \in Nat
    BY <1>2, <1>5, PromisedIsClaimed
  <2>5. \A y \in Shelves : balance[y].held \in Nat /\ balance[y].hand \in Nat
    BY <1>2 DEF Stock
  <2>6. ASSUME NEW y \in Shelves PROVE balance'[y].held = balance[y].held - N(y)
    <3>1. balance[y].held = PromisedIn(rows, y)
      BY <2>2 DEF Sound
    <3>2. N(y) <= balance[y].held
      BY <1>4, <2>3, <2>4, <3>1
    <3>3. balance'[y].held = IF balance[y].held > N(y) THEN balance[y].held - N(y) ELSE 0
      BY <1>2, <1>6 DEF Unheld, Stock
    <3> QED BY <1>4, <2>5, <3>2, <3>3
  <2> QED BY <1>4, <1>6, <2>2, <2>3, <2>4, <2>5, <2>6 DEF Sound
<1>16. NothingLost'
  <2>1. IssuedOf(new) = IssuedOf(lines)
    BY <1>7, <1>8, IssuedSame
  <2> QED BY <1>1, <1>6, <1>10, <1>11, <2>1, NothingMoved
<1> QED BY <1>10, <1>14, <1>15, <1>16 DEF MRInv

-----------------------------------------------------------------------------
(* Reserving line by line                                                  *)

\* The lines of a run ask for what the request's lines ask for.
SameAsked(r, lines) ==
    /\ lines \in Seq(LineRows) /\ DOMAIN lines = DOMAIN mr[r].lines /\ Len(lines) = Len(mr[r].lines)
    /\ \A j \in DOMAIN lines : /\ lines[j].part = mr[r].lines[j].part
                               /\ lines[j].requested = mr[r].lines[j].requested

\* A run that has reserved the first m lines.
ReserveFits(r, run, m) ==
    /\ SameAsked(r, run.lines)
    /\ \A j \in DOMAIN run.lines : /\ run.lines[j].issued = mr[r].lines[j].issued
                                   /\ run.lines[j].returned = mr[r].lines[j].returned
    /\ run.balance \in Stock
    /\ \A x \in Shelves : run.balance[x].hand = balance[x].hand
    /\ run.rows \in Seq(ReservationRows) /\ DOMAIN rows \subseteq DOMAIN run.rows
    /\ \A i \in DOMAIN rows : run.rows[i] = rows[i]
    /\ \A i \in DOMAIN run.rows \ DOMAIN rows :
          /\ run.rows[i].source = r
          /\ \E j \in 1 .. m : /\ j \in DOMAIN run.lines /\ mr[r].lines[j].part = run.rows[i].part
                               /\ run.rows[i].qty <= mr[r].lines[j].requested
    /\ Apart(mr[r].lines) =>
          \A i, k \in DOMAIN run.rows \ DOMAIN rows : run.rows[i].part = run.rows[k].part => i = k
    /\ ~raced => Sound(run.balance, run.rows)

LEMMA LineType ==
    ASSUME MRTypeOK, NEW r \in Requests
    PROVE  /\ mr[r].lines \in Seq(LineRows) /\ Len(mr[r].lines) \in Nat
           /\ DOMAIN mr[r].lines = 1 .. Len(mr[r].lines)
           /\ \A j \in DOMAIN mr[r].lines : mr[r].lines[j] \in LineRows
<1>1. mr[r].lines \in Seq(LineRows)
  BY DEF MRTypeOK
<1> QED BY <1>1

\* The quantities of a line are numbers.
LEMMA LineNumbers ==
    ASSUME NEW line \in LineRows
    PROVE  /\ line.part \in Parts /\ line.requested \in Nat /\ line.requested > 0
           /\ line.reserved \in Nat /\ line.issued \in Nat /\ line.returned \in Nat
<1>1. /\ line.part \in Parts /\ line.requested \in Pieces
      /\ line.reserved \in Nat /\ line.issued \in Nat /\ line.returned \in Nat
  BY DEF LineRows
<1>2. line.requested \in Nat \ {0}
  BY <1>1, RequestsAssumption
<1> QED BY <1>1, <1>2

LEMMA LineReserved ==
    ASSUME NEW line \in LineRows, NEW n \in Nat, NEW new, new = [line EXCEPT !.reserved = n]
    PROVE  /\ new \in LineRows /\ new.part = line.part /\ new.requested = line.requested
           /\ new.issued = line.issued /\ new.returned = line.returned
BY DEF LineRows

LEMMA AvailableType == ASSUME NEW b \in Stock, NEW p \in Parts PROVE Available(b, p) \in Int
<1> DEFINE f == [l \in Places |-> Free(b[<<p, l>>])]
<1>1. \A l \in Places : f[l] \in Int
  BY DEF Stock, Shelves, Free
<1> HIDE DEF f
<1>2. SumFunctionOnSet(f, Places) \in Int
  BY <1>1, RequestsAssumption, SumIsInt
<1> QED BY <1>2 DEF Available, f

LEMMA FirstReserveFits ==
    ASSUME MRInv, NEW r \in Requests PROVE ReserveFits(r, FirstReserve(r), 0)
<1>1. MRTypeOK /\ balance \in Stock /\ rows \in Seq(ReservationRows)
      /\ (~raced => Sound(balance, rows))
  BY StockType, HeldAlike DEF MRInv, MRTypeOK
<1> QED BY <1>1, LineType DEF ReserveFits, FirstReserve, SameAsked

LEMMA ReserveLineFits ==
    ASSUME MRInv, NEW r \in Requests, NEW at \in [DOMAIN mr[r].lines -> Places], NEW run,
           NEW i \in 1 .. Len(mr[r].lines), ReserveFits(r, run, i - 1), ReserveLine(r, at, run, i).ok
    PROVE  ReserveFits(r, ReserveLine(r, at, run, i), i)
<1> DEFINE line == run.lines[i]
           take == Smaller(line.requested - line.reserved - line.issued, Available(run.balance, line.part))
           x == <<line.part, at[i]>>
           row == Row(line.part, at[i], take, r)
           next == ReserveLine(r, at, run, i)
<1>1. /\ MRTypeOK /\ i \in DOMAIN mr[r].lines /\ DOMAIN run.lines = DOMAIN mr[r].lines
      /\ run.lines \in Seq(LineRows) /\ line \in LineRows
      /\ line.part = mr[r].lines[i].part /\ line.requested = mr[r].lines[i].requested
      /\ i \in Nat /\ run.balance \in Stock /\ run.rows \in Seq(ReservationRows)
  <2>1. MRTypeOK /\ i \in DOMAIN mr[r].lines
    BY LineType DEF MRInv
  <2> QED BY <2>1 DEF ReserveFits, SameAsked
<1>2. at[i] \in Places /\ x \in Shelves
  BY <1>1, LineNumbers DEF Shelves
<1>3. CASE take <= 0
  <2>1. next = run
    BY <1>3 DEF ReserveLine
  <2>2. \A j : j \in 1 .. i - 1 => j \in 1 .. i
    BY <1>1
  <2> QED BY <2>1, <2>2 DEF ReserveFits
<1>4. CASE ~(take <= 0)
  <2>1. next = [lines |-> [run.lines EXCEPT ![i].reserved = @ + take],
                balance |-> [run.balance EXCEPT ![x].held = @ + take],
                rows |-> Append(run.rows, row),
                ok |-> run.ok /\ Free(run.balance[x]) >= take]
    BY <1>4 DEF ReserveLine
  <2>2. take \in Nat /\ take <= line.requested
    <3>1. Available(run.balance, line.part) \in Int
      BY <1>1, AvailableType, LineNumbers
    <3> DEFINE a == line.requested - line.reserved - line.issued
               b == Available(run.balance, line.part)
    <3>2. a \in Int /\ a <= line.requested /\ line.requested \in Nat
      <4>1. /\ line.requested \in Nat /\ line.reserved \in Nat /\ line.issued \in Nat
        BY Zenon, <1>1, LineNumbers
      <4> HIDE DEF line
      <4> QED BY <4>1
    <3>3. b \in Int /\ ~(Smaller(a, b) <= 0)
      BY <1>4, <3>1
    <3> HIDE DEF a, b, line
    <3>4. Smaller(a, b) \in Nat /\ Smaller(a, b) <= line.requested
      BY <3>2, <3>3 DEF Smaller
    <3> QED BY <3>4 DEF a, b
  <2>3. row \in ReservationRows /\ row.source = r /\ row.part = line.part /\ row.qty = take
        /\ \A y : Claim(row, y) = IF y = x THEN take ELSE 0
    BY Zenon, <1>1, <1>2, <2>2, LineNumbers DEF Row, ReservationRows, Claim
  <2>4. run.balance[x].hand - run.balance[x].held >= take
    <3>1. next.ok
      OBVIOUS
    <3> HIDE DEF next, take, x
    <3>2. next.ok = (run.ok /\ Free(run.balance[x]) >= take)
      BY <2>1, Zenon
    <3> QED BY <3>1, <3>2 DEF Free
  <2> HIDE DEF take, x, row
  <2> DEFINE newLine == [line EXCEPT !.reserved = @ + take]
  <2>5. /\ newLine \in LineRows /\ newLine.part = line.part /\ newLine.requested = line.requested
        /\ newLine.issued = line.issued /\ newLine.returned = line.returned
    <3>1. line.reserved + take \in Nat
      <4> HIDE DEF line
      <4> QED BY <1>1, <2>2, LineNumbers
    <3>2. newLine = [line EXCEPT !.reserved = line.reserved + take]
      OBVIOUS
    <3> HIDE DEF line, newLine
    <3> QED BY <1>1, <3>1, <3>2, LineReserved
  <2>6. /\ next.lines \in Seq(LineRows) /\ DOMAIN next.lines = DOMAIN run.lines /\ Len(next.lines) = Len(run.lines)
        /\ next.lines[i] = newLine
        /\ \A j \in DOMAIN run.lines : j # i => next.lines[j] = run.lines[j]
    <3>1. next.lines = [run.lines EXCEPT ![i] = newLine]
      BY <2>1
    <3> HIDE DEF newLine, next
    <3> QED BY <1>1, <2>5, <3>1
  <2>7. /\ next.balance \in Stock
        /\ \A y \in Shelves : next.balance[y].hand = run.balance[y].hand
        /\ \A y \in Shelves : next.balance[y].held = run.balance[y].held + Claim(row, y)
        /\ \A y \in Shelves : run.balance[y].held <= run.balance[y].hand
                                  => next.balance[y].held <= run.balance[y].hand
    <3>1. next.balance = [run.balance EXCEPT ![x].held = @ + take]
      BY <2>1
    <3> HIDE DEF next
    <3>2. /\ DOMAIN run.balance = Shelves
          /\ \A y \in Shelves : /\ run.balance[y] \in [hand : Nat, held : Nat]
                               /\ run.balance[y].hand \in Nat /\ run.balance[y].held \in Nat
      BY <1>1 DEF Stock
    <3>3. /\ DOMAIN next.balance = Shelves
          /\ \A y \in Shelves : y # x => next.balance[y] = run.balance[y]
          /\ next.balance[x] = [run.balance[x] EXCEPT !.held = @ + take]
      BY <1>2, <3>1, <3>2
    <3>4. /\ next.balance[x] \in [hand : Nat, held : Nat]
          /\ next.balance[x].hand = run.balance[x].hand
          /\ next.balance[x].held = run.balance[x].held + take
      <4> DEFINE old == run.balance[x]
                 new == next.balance[x]
      <4>1. /\ old \in [hand : Nat, held : Nat] /\ old.held \in Nat /\ old.held + take \in Nat
            /\ new = [old EXCEPT !.held = old.held + take]
        BY <1>2, <2>2, <3>2, <3>3
      <4> HIDE DEF old, new
      <4>2. new \in [hand : Nat, held : Nat] /\ new.hand = old.hand /\ new.held = old.held + take
        BY <4>1
      <4> QED BY <4>2 DEF old, new
    <3>5. next.balance \in Stock
      <4>1. next.balance = [run.balance EXCEPT ![x] = next.balance[x]]
        BY <1>2, <3>1, <3>2, <3>3
      <4> QED BY Zenon, <1>1, <1>2, <3>4, <4>1 DEF Stock
    <3>6. ASSUME NEW y \in Shelves
          PROVE  /\ next.balance[y].hand = run.balance[y].hand
                 /\ next.balance[y].held = run.balance[y].held + Claim(row, y)
                 /\ run.balance[y].held <= run.balance[y].hand => next.balance[y].held <= run.balance[y].hand
      <4>1. CASE y = x
        BY <2>2, <2>3, <2>4, <3>2, <3>4, <4>1
      <4>2. CASE y # x
        BY <2>3, <3>2, <3>3, <4>2
      <4> QED BY <4>1, <4>2
    <3> QED BY <3>5, <3>6
  <2> DEFINE e == Len(run.rows) + 1
  <2>8. /\ next.rows \in Seq(ReservationRows) /\ DOMAIN next.rows = DOMAIN run.rows \cup {e}
        /\ next.rows[e] = row /\ e \notin DOMAIN run.rows
        /\ \A k \in DOMAIN run.rows : next.rows[k] = run.rows[k]
    <3>1. next.rows = Append(run.rows, row)
      BY <2>1
    <3> HIDE DEF next
    <3> QED BY <1>1, <2>3, <3>1
  <2>9. ~raced => Sound(next.balance, next.rows)
    <3>1. \A y : PromisedIn(next.rows, y) = PromisedIn(run.rows, y) + Claim(row, y)
      <4>1. next.rows = Append(run.rows, row)
        BY <2>1
      <4> HIDE DEF next
      <4> QED BY <1>1, <2>3, <4>1, RowAdded
    <3>2. ~raced => Sound(run.balance, run.rows)
      BY DEF ReserveFits
    <3> HIDE DEF next
    <3> QED BY <2>7, <3>1, <3>2 DEF Sound
  <2> HIDE DEF next, newLine, e, line
  <2>10. /\ SameAsked(r, next.lines)
         /\ \A j \in DOMAIN next.lines : /\ next.lines[j].issued = mr[r].lines[j].issued
                                         /\ next.lines[j].returned = mr[r].lines[j].returned
    <3>1. /\ SameAsked(r, run.lines)
          /\ \A j \in DOMAIN run.lines : /\ run.lines[j].issued = mr[r].lines[j].issued
                                         /\ run.lines[j].returned = mr[r].lines[j].returned
      BY DEF ReserveFits
    <3>2. ASSUME NEW j \in DOMAIN run.lines
          PROVE  /\ next.lines[j].part = run.lines[j].part /\ next.lines[j].requested = run.lines[j].requested
                 /\ next.lines[j].issued = run.lines[j].issued /\ next.lines[j].returned = run.lines[j].returned
      BY Zenon, <2>5, <2>6 DEF line
    <3> QED BY Zenon, <2>6, <3>1, <3>2 DEF SameAsked
  <2>11. /\ DOMAIN rows \subseteq DOMAIN next.rows
         /\ \A k \in DOMAIN rows : next.rows[k] = rows[k]
         /\ \A y \in Shelves : next.balance[y].hand = balance[y].hand
    BY <2>7, <2>8 DEF ReserveFits
  <2>12. ASSUME NEW k \in DOMAIN next.rows \ DOMAIN rows
         PROVE  /\ next.rows[k].source = r
                /\ \E j \in 1 .. i : /\ j \in DOMAIN next.lines /\ mr[r].lines[j].part = next.rows[k].part
                                     /\ next.rows[k].qty <= mr[r].lines[j].requested
    <3>1. CASE k = e
      <4>1. /\ next.rows[k] = row /\ row.source = r /\ row.part = mr[r].lines[i].part
            /\ row.qty <= mr[r].lines[i].requested
        BY <1>1, <2>2, <2>3, <2>8, <3>1
      <4>2. i \in 1 .. i /\ i \in DOMAIN next.lines
        BY <1>1, <2>6
      <4> QED BY Zenon, <4>1, <4>2
    <3>2. CASE k # e
      <4>1. k \in DOMAIN run.rows \ DOMAIN rows /\ next.rows[k] = run.rows[k]
        BY <2>8, <3>2
      <4>2. \A j : j \in 1 .. i - 1 => j \in 1 .. i
        BY <1>1
      <4>3. /\ run.rows[k].source = r
            /\ \E j \in 1 .. i - 1 : /\ j \in DOMAIN run.lines /\ mr[r].lines[j].part = run.rows[k].part
                                     /\ run.rows[k].qty <= mr[r].lines[j].requested
        BY Zenon, <4>1 DEF ReserveFits
      <4> QED BY Zenon, <2>6, <4>1, <4>2, <4>3
    <3> QED BY <3>1, <3>2
  <2>13. ASSUME Apart(mr[r].lines), NEW k \in DOMAIN next.rows \ DOMAIN rows,
                NEW n \in DOMAIN next.rows \ DOMAIN rows, next.rows[k].part = next.rows[n].part
         PROVE  k = n
    <3>1. ASSUME NEW m \in DOMAIN run.rows \ DOMAIN rows PROVE run.rows[m].part # row.part
      <4>1. PICK j \in 1 .. i - 1 : j \in DOMAIN run.lines /\ mr[r].lines[j].part = run.rows[m].part
        BY DEF ReserveFits
      <4>2. j # i
        BY <1>1
      <4> QED BY <1>1, <2>3, <2>13, <4>1, <4>2 DEF Apart
    <3>2. DOMAIN next.rows \ DOMAIN rows \subseteq (DOMAIN run.rows \ DOMAIN rows) \cup {e}
      BY <2>8
    <3>3. \A m \in DOMAIN run.rows \ DOMAIN rows : next.rows[m].part # next.rows[e].part
      BY <2>8, <3>1
    <3>4. CASE k # e /\ n # e
      <4>1. {k, n} \subseteq DOMAIN run.rows \ DOMAIN rows
            /\ next.rows[k] = run.rows[k] /\ next.rows[n] = run.rows[n]
        BY <2>8, <3>4
      <4> QED BY <2>13, <4>1 DEF ReserveFits
    <3> QED BY <2>13, <3>2, <3>3, <3>4
  <2>14. ReserveFits(r, next, i)
    BY <2>7, <2>8, <2>9, <2>10, <2>11, <2>12, <2>13 DEF ReserveFits
  <2> QED BY <2>14 DEF next
<1> QED BY <1>3, <1>4

LEMMA ReserveRunFits ==
    ASSUME MRInv, NEW r \in Requests, NEW at \in [DOMAIN mr[r].lines -> Places], ReserveRun(r, at).ok
    PROVE  ReserveFits(r, ReserveRun(r, at), Len(mr[r].lines))
<1> DEFINE n == Len(mr[r].lines)
<1>1. n \in Nat
  BY LineType DEF MRInv
<1>2. PICK run : /\ run[0] = FirstReserve(r)
                 /\ \A i \in 1 .. n : run[i] = ReserveLine(r, at, run[i - 1], i)
                 /\ ReserveRun(r, at) = run[n]
  BY <1>1, ReserveRuns
<1> DEFINE S == {m \in 0 .. n : run[m].ok => ReserveFits(r, run[m], m)}
<1>3. 0 \in S
  BY <1>1, <1>2, FirstReserveFits
<1>4. ASSUME NEW m \in 0 .. n, m \in S, m < n PROVE m + 1 \in S
  <2>1. m + 1 \in 1 .. n /\ (m + 1) - 1 = m /\ m + 1 \in 0 .. n
    BY <1>1, <1>4
  <2>2. run[m + 1] = ReserveLine(r, at, run[m], m + 1)
    BY <1>2, <2>1
  <2> SUFFICES ASSUME ReserveLine(r, at, run[m], m + 1).ok
               PROVE  ReserveFits(r, ReserveLine(r, at, run[m], m + 1), m + 1)
    BY <2>1, <2>2
  <2>3. run[m].ok
    BY Zenon DEF ReserveLine
  <2>4. ReserveFits(r, run[m], (m + 1) - 1)
    BY <1>4, <2>1, <2>3
  <2> QED BY <2>1, <2>4, ReserveLineFits
<1>5. n \in S
  <2> HIDE DEF S, n
  <2> QED BY <1>1, <1>3, <1>4, CountUp
<1> QED BY <1>2, <1>5

LEMMA ReserveKeeps ==
    ASSUME MRInv, NEW r \in Requests, NEW at \in [DOMAIN mr[r].lines -> Places],
           ReserveMaterialRequest(r, at)
    PROVE  MRInv'
<1> DEFINE run == ReserveRun(r, at)
           lines == mr[r].lines
           n == Len(lines)
<1>1. /\ mr[r].status = "approved" /\ pending[r] = Nothing /\ run.ok
      /\ mr' = [mr EXCEPT ![r] = [status |-> "reserved", lines |-> run.lines]]
      /\ balance' = run.balance /\ rows' = run.rows /\ UNCHANGED <<pending, came, raced>>
  BY DEF ReserveMaterialRequest, May, MRTransitions
<1>2. ReserveFits(r, run, n)
  BY <1>1, ReserveRunFits
<1>3. /\ MRTypeOK /\ RequestFits(r) /\ n \in Nat /\ lines \in Seq(LineRows) /\ DOMAIN lines = 1 .. n
      /\ DOMAIN rows \subseteq DOMAIN run.rows /\ run.balance \in Stock /\ run.rows \in Seq(ReservationRows)
      /\ \A y \in Shelves : run.balance[y].hand = balance[y].hand
      /\ \A i \in DOMAIN rows : run.rows[i] = rows[i]
      /\ \A i \in DOMAIN run.rows \ DOMAIN rows : run.rows[i].source = r
      /\ ~raced => Sound(run.balance, run.rows)
  BY <1>2, LineType DEF MRInv, ReserveFits
<1>4. /\ run.lines \in Seq(LineRows) /\ DOMAIN run.lines = DOMAIN lines /\ Len(run.lines) = n
      /\ \A j \in DOMAIN lines : /\ run.lines[j].part = lines[j].part
                                 /\ run.lines[j].requested = lines[j].requested
                                 /\ run.lines[j].issued = lines[j].issued
                                 /\ run.lines[j].returned = lines[j].returned
  BY <1>2 DEF ReserveFits, SameAsked
<1> HIDE DEF run, lines, n
<1>5. /\ mr'[r] = [status |-> "reserved", lines |-> run.lines]
      /\ mr'[r].status = "reserved" /\ mr'[r].lines = run.lines /\ mr[r].lines = lines
      /\ \A q \in Requests \ {r} : mr'[q] = mr[q]
  BY <1>1, <1>3 DEF MRTypeOK, lines
<1>6. MRTypeOK'
  <2>1. mr' \in [Requests -> [status : Statuses, lines : Seq(LineRows)]]
    BY <1>1, <1>3, <1>4 DEF MRTypeOK, Statuses
  <2>2. balance' \in [Parts \X Places -> [hand : Nat, held : Nat]]
    BY <1>1, <1>3 DEF Stock, Shelves
  <2> QED BY <1>1, <1>3, <2>1, <2>2 DEF MRTypeOK
<1>7. RequestFits(r)'
  <2>1. LinesFit(r) /\ RowsFit(r) /\ n = Len(mr[r].lines)
    BY <1>3, <1>5 DEF RequestFits, n
  <2>2. LinesFit(r)'
    <3>1. /\ Len(lines) <= MaxLines
          /\ \A j \in DOMAIN lines : /\ lines[j].returned <= lines[j].issued
                                     /\ lines[j].issued <= lines[j].requested /\ lines[j].issued = 0
      BY <1>1, <1>5, <2>1 DEF LinesFit
    <3>2. \A j \in DOMAIN run.lines : /\ run.lines[j].returned <= run.lines[j].issued
                                     /\ run.lines[j].issued <= run.lines[j].requested /\ run.lines[j].issued = 0
      BY Zenon, <1>4, <3>1
    <3>3. Len(run.lines) <= MaxLines
      BY <1>4, <1>5, <2>1, <3>1
    <3> QED BY <1>5, <3>2, <3>3 DEF LinesFit
  <2>3. \A i \in DOMAIN rows : rows[i].source # r
    BY <1>1, <2>1 DEF RowsFit
  <2>4. Apart(run.lines) => Apart(lines)
    BY <1>4 DEF Apart
  <2>5. \A i \in DOMAIN run.rows : run.rows[i].source = r => i \in DOMAIN run.rows \ DOMAIN rows
    BY <1>3, <2>3
  <2>6. \A i \in DOMAIN run.rows \ DOMAIN rows :
           \E j \in DOMAIN lines : lines[j].part = run.rows[i].part /\ run.rows[i].qty <= lines[j].requested
    BY <1>2, <1>4 DEF ReserveFits, lines
  <2>7. Apart(lines) => \A i, k \in DOMAIN run.rows \ DOMAIN rows : run.rows[i].part = run.rows[k].part => i = k
    BY <1>2 DEF ReserveFits, lines
  <2>8. RowsFit(r)'
    BY <1>1, <1>4, <1>5, <2>4, <2>5, <2>6, <2>7 DEF RowsFit
  <2> QED BY <1>1, <1>5, <2>2, <2>8 DEF RequestFits, SettledFits
<1>8. \A q \in Requests : RequestFits(q)'
  <2>1. ASSUME NEW q \in Requests \ {r} PROVE RowsMoveOn(q)
    BY <1>1, <1>3 DEF RowsMoveOn
  <2> QED BY Zenon, <1>1, <1>3, <1>5, <1>6, <1>7, <2>1, OtherRequest DEF MRInv
<1>9. HeldIsPromised'
  BY <1>1, <1>3, <1>6, HeldAlikeNext
<1>10. NothingLost'
  <2>1. lines \in Seq(LineRows) /\ IssuedOf(run.lines) = IssuedOf(lines)
    BY <1>3, <1>4, IssuedSame
  <2> QED BY <1>1, <1>3, <1>5, <1>6, <2>1, NothingMoved
<1> QED BY <1>6, <1>8, <1>9, <1>10 DEF MRInv

-----------------------------------------------------------------------------
(* Issuing line by line                                                    *)

\* Line i is issued n more.
MoreIssued(lines, i, n, new) == new = [lines EXCEPT ![i] = Issued(lines[i], n)]

LEMMA LinesIssued ==
    ASSUME NEW lines \in Seq(LineRows), NEW i \in DOMAIN lines, NEW n \in Nat, NEW new,
           MoreIssued(lines, i, n, new)
    PROVE  /\ new \in Seq(LineRows) /\ DOMAIN new = DOMAIN lines /\ Len(new) = Len(lines)
           /\ new[i].part = lines[i].part /\ new[i].requested = lines[i].requested
           /\ new[i].returned = lines[i].returned /\ new[i].issued = lines[i].issued + n
           /\ \A j \in DOMAIN lines : j # i => new[j] = lines[j]
           /\ IssuedOf(new) = IssuedOf(lines) + n
<1> DEFINE line == lines[i]
           one == Issued(line, n)
<1>1. line \in LineRows
  OBVIOUS
<1>2. /\ one \in LineRows /\ one.part = line.part /\ one.requested = line.requested
      /\ one.returned = line.returned /\ one.issued = line.issued + n
  <2> HIDE DEF line
  <2>1. line.issued + n \in Nat /\ (IF line.reserved > n THEN line.reserved - n ELSE 0) \in Nat
    BY <1>1, LineNumbers
  <2> DEFINE more == line.issued + n
             less == IF line.reserved > n THEN line.reserved - n ELSE 0
  <2>2. one = [line EXCEPT !.issued = more, !.reserved = less]
    BY DEF Issued
  <2> HIDE DEF more, less, one
  <2>3. more \in Nat /\ less \in Nat
    BY <2>1 DEF more, less
  <2>4. /\ one \in LineRows /\ one.part = line.part /\ one.requested = line.requested
        /\ one.returned = line.returned /\ one.issued = more
    BY <1>1, <2>2, <2>3 DEF LineRows
  <2> QED BY <2>4 DEF more
<1> HIDE DEF one
<1>3. /\ new \in Seq(LineRows) /\ DOMAIN new = DOMAIN lines /\ Len(new) = Len(lines) /\ new[i] = one
      /\ \A j \in DOMAIN lines : j # i => new[j] = lines[j]
  <2>1. new = [lines EXCEPT ![i] = one]
    BY DEF one, MoreIssued
  <2> HIDE DEF line
  <2> QED BY <1>2, <2>1
<1>4. IssuedOf(new) = IssuedOf(lines) - lines[i].issued + new[i].issued
  BY <1>3, IssuedChanged
<1>5. line.issued \in Nat /\ IssuedOf(lines) \in Nat
  BY <1>1, LineNumbers, IssuedType
<1> HIDE DEF line
<1>6. IssuedOf(new) = IssuedOf(lines) + n
  <2>1. IssuedOf(new) = IssuedOf(lines) - line.issued + (line.issued + n)
    BY <1>2, <1>3, <1>4 DEF line
  <2> QED BY <1>5, <2>1
<1> QED BY <1>2, <1>3, <1>6 DEF line

LEMMA RowUsed ==
    ASSUME NEW row \in ReservationRows, NEW n \in Nat, n <= row.qty, NEW u, u = Used(row, n)
    PROVE  /\ u \in ReservationRows /\ u.part = row.part /\ u.at = row.at /\ u.source = row.source
           /\ u.qty = row.qty - n /\ u.status = IF row.qty <= n THEN "issued" ELSE row.status
           /\ row.qty \in Nat
<1>1. row.qty \in Nat
  BY DEF ReservationRows
<1>2. row.qty - n \in Nat
  BY <1>1
<1> QED BY <1>1, <1>2 DEF Used, ReservationRows

\* n pieces leave shelf x, with what is reserved of them.
Withdraws(b, x, n, c) ==
    /\ Free(b[x]) + Smaller(n, b[x].held) >= n
    /\ c = [b EXCEPT ![x] = Withdrawn(b[x], n, n)]

LEMMA StockWithdrawn ==
    ASSUME NEW b \in Stock, NEW x \in Shelves, NEW n \in Nat, NEW c, Withdraws(b, x, n, c)
    PROVE  /\ c \in Stock /\ c[x].hand = b[x].hand - n
           /\ c[x].held = b[x].held - Smaller(n, b[x].held)
           /\ \A y \in Shelves : y # x => c[y] = b[y]
           /\ HandSum(c) = HandSum(b) - n
<1> DEFINE old == b[x]
           one == Withdrawn(old, n, n)
           own == Smaller(n, old.held)
<1>1. old.hand \in Nat /\ old.held \in Nat
  BY DEF Stock
<1>2. own \in Nat /\ own <= n /\ own <= old.held /\ old.hand - old.held + own >= n
  <2>1. Free(old) + Smaller(n, old.held) >= n
    BY DEF Withdraws
  <2> HIDE DEF old
  <2> QED BY <1>1, <2>1 DEF Smaller, Free
<1> HIDE DEF old
<1>3. Smaller(Free(old) + own, n) = n /\ Smaller(own, n) = own
  <2> HIDE DEF own
  <2> QED BY <1>1, <1>2 DEF Smaller, Free
<1>4. one = [hand |-> old.hand - n, held |-> old.held - own]
  BY <1>3 DEF Withdrawn
<1> HIDE DEF one, own
<1>5. old.hand - n \in Nat /\ old.held - own \in Nat
  BY <1>1, <1>2
<1>6. one \in [hand : Nat, held : Nat] /\ one.hand = old.hand - n /\ one.held = old.held - own
  BY <1>4, <1>5
<1>7. c \in Stock /\ c[x] = one /\ \A y \in Shelves : y # x => c[y] = b[y]
  <2>1. c = [b EXCEPT ![x] = one]
    BY DEF one, old, Withdraws
  <2> QED BY <1>6, <2>1 DEF Stock
<1>8. HandSum(c) = HandSum(b) - b[x].hand + c[x].hand
  BY <1>7, HandChanged
<1>9. HandSum(b) \in Nat
  BY HandSumType
<1>10. HandSum(c) = HandSum(b) - n
  <2>1. HandSum(c) = HandSum(b) - old.hand + (old.hand - n)
    BY <1>6, <1>7, <1>8 DEF old
  <2> QED BY <1>1, <1>9, <2>1
<1> QED BY <1>6, <1>7, <1>10 DEF old, own

LEMMA StockDrawn ==
    ASSUME NEW run, NEW i, run.balance \in Stock, NEW drawn \in [Places -> 0 .. MaxStock],
           run.lines[i] \in LineRows, run.lines[i].issued <= run.lines[i].requested,
           IssueFromShelf(drawn, run, i).ok
    PROVE  LET next == IssueFromShelf(drawn, run, i)
               left == run.lines[i].requested - run.lines[i].issued
           IN  /\ next.balance \in Stock
               /\ \A y \in Shelves : /\ next.balance[y].held = run.balance[y].held
                                     /\ run.balance[y].held <= run.balance[y].hand
                                           => next.balance[y].held <= next.balance[y].hand
               /\ HandSum(next.balance) = HandSum(run.balance) - left
<1> DEFINE b == run.balance
           line == run.lines[i]
           left == line.requested - line.issued
           bins == {x \in DOMAIN b : x[1] = line.part}
           c == [x \in DOMAIN b |-> IF x \in bins THEN [b[x] EXCEPT !.hand = @ - drawn[x[2]]] ELSE b[x]]
           d == [x \in bins |-> drawn[x[2]]]
           next == IssueFromShelf(drawn, run, i)
<1>1. /\ next.balance = c
      /\ SumFunctionOnSet(d, bins) = left
      /\ \A x \in bins : drawn[x[2]] <= Smaller(left, Free(b[x]))
  BY DEF IssueFromShelf
<1>2. b \in Stock /\ DOMAIN b = Shelves /\ left \in Nat
  <2>1. b \in Stock
    OBVIOUS
  <2>2. left \in Nat
    <3>1. line \in LineRows /\ line.issued <= line.requested
      OBVIOUS
    <3> HIDE DEF line
    <3> QED BY <3>1, LineNumbers
  <2> QED BY <2>1, <2>2 DEF Stock
<1> HIDE DEF b, left, next, line
<1>3. \A x \in Shelves : b[x] \in [hand : Nat, held : Nat] /\ b[x].hand \in Nat /\ b[x].held \in Nat
  BY <1>2 DEF Stock
<1>4. \A x \in bins : drawn[x[2]] \in Nat
  <2>1. MaxStock \in Nat
    BY RequestsAssumption
  <2> QED BY <1>2, <2>1 DEF Shelves
<1>5. ASSUME NEW x \in bins
      PROVE  /\ c[x] \in [hand : Nat, held : Nat] /\ c[x].hand = b[x].hand - drawn[x[2]]
             /\ c[x].held = b[x].held /\ (b[x].held <= b[x].hand => c[x].held <= c[x].hand)
  <2>1. c[x] = [b[x] EXCEPT !.hand = b[x].hand - drawn[x[2]]] /\ x \in Shelves
    BY <1>2
  <2>2. drawn[x[2]] \in Nat /\ drawn[x[2]] <= b[x].hand - b[x].held
    BY <1>1, <1>2, <1>3, <1>4 DEF Smaller, Free
  <2> DEFINE old == b[x]
             m == old.hand - drawn[x[2]]
  <2> HIDE DEF c
  <2>3. m \in Nat /\ m >= old.held /\ old \in [hand : Nat, held : Nat]
    BY <1>3, <2>1, <2>2
  <2>4. c[x] = [old EXCEPT !.hand = m]
    BY <2>1
  <2> HIDE DEF old, m
  <2>5. c[x] \in [hand : Nat, held : Nat] /\ c[x].hand = m /\ c[x].held = old.held
    BY <2>3, <2>4
  <2> QED BY <2>3, <2>5 DEF old, m
<1>6. \A x \in Shelves \ bins : c[x] = b[x]
  BY <1>2
<1>7. c \in Stock
  BY <1>2, <1>3, <1>5, <1>6 DEF Stock
<1>8. /\ bins \in SUBSET Shelves /\ \A x \in bins : d[x] = drawn[x[2]]
  BY <1>2
<1> HIDE DEF c, d, bins
<1>9. HandSum(c) = HandSum(b) - SumFunctionOnSet(d, bins)
  BY <1>2, <1>4, <1>5, <1>6, <1>7, <1>8, HandDrawn
<1>10. \A y \in Shelves : c[y].held = b[y].held /\ (b[y].held <= b[y].hand => c[y].held <= c[y].hand)
  BY <1>5, <1>6
<1> QED BY <1>1, <1>7, <1>9, <1>10 DEF b, next, left, line

\* The reservations with what a request has made of those it read.
Merged(r, seen) ==
    [i \in DOMAIN rows |-> IF i \in DOMAIN pending[r].read THEN Written(rows[i], pending[r].read[i], seen[i])
                           ELSE rows[i]]

\* No reservation was written by two requests side by side, nor will this request do so.
Alone(r) == ~raced /\ ~Changed(r)

\* A run that has issued the first m lines.
LinesIssue(r, run, m) ==
    /\ SameAsked(r, run.lines)
    /\ \A j \in DOMAIN run.lines :
          /\ run.lines[j].returned = mr[r].lines[j].returned
          /\ run.lines[j].issued <= run.lines[j].requested /\ mr[r].lines[j].issued <= run.lines[j].issued
          /\ j > m => run.lines[j].issued = 0
    /\ run.balance \in Stock
    /\ HandSum(run.balance) + IssuedOf(run.lines) = HandSum(balance) + IssuedOf(mr[r].lines)

\* The reservations it has in hand: those of its first m lines are used up as far as they go.
SeenIssue(r, run, m) ==
    LET read == pending[r].read
        picked == pending[r].picked
        lines == mr[r].lines
    IN  /\ run.seen \in Seq(ReservationRows) /\ DOMAIN run.seen = DOMAIN read
        /\ \A k \in DOMAIN read :
              /\ run.seen[k].part = read[k].part /\ run.seen[k].at = read[k].at /\ run.seen[k].source = read[k].source
              /\ run.seen[k].qty <= read[k].qty
              /\ run.seen[k].status = read[k].status \/ (run.seen[k].status = "issued" /\ run.seen[k].qty = 0)
              /\ run.seen[k] = read[k] \/ \E j \in 1 .. m : j \in DOMAIN lines /\ k = picked[lines[j].part]
        /\ Apart(lines) => \A j \in 1 .. m : j \in DOMAIN lines /\ picked[lines[j].part] # 0 =>
                               run.seen[picked[lines[j].part]].status = "issued"

\* With these written, the balances are right.
IssueFits(r, run, m) ==
    /\ LinesIssue(r, run, m)
    /\ SeenIssue(r, run, m)
    /\ Alone(r) => Sound(run.balance, Merged(r, run.seen))

\* The reservation picked for a part is one of the request's, for that part.
LEMMA PickedRow ==
    ASSUME MRInv, NEW r \in Requests, pending[r] # Nothing, pending[r].kind = "issue",
           NEW p \in Parts, NEW k, k = pending[r].picked[p], k # 0
    PROVE  /\ k \in DOMAIN pending[r].read /\ k \in DOMAIN rows
           /\ pending[r].read[k].status = "open" /\ pending[r].read[k].source = r
           /\ pending[r].read[k].part = p /\ pending[r].read[k].at = rows[k].at
           /\ rows[k].source = r /\ rows[k].part = p /\ pending[r].read[k].qty = rows[k].qty
<1>1. ReadingFits(r) /\ DOMAIN pending[r].read \subseteq DOMAIN rows
  BY ReadingType
<1>2. k \in FoundIn(pending[r].read, r, p)
  BY <1>1 DEF ReadingFits
<1>3. /\ k \in DOMAIN pending[r].read /\ pending[r].read[k].status = "open"
      /\ pending[r].read[k].source = r /\ pending[r].read[k].part = p
  BY Zenon, <1>2 DEF FoundIn
<1> QED BY Zenon, <1>1, <1>3 DEF ReadingFits

LEMMA WrittenType ==
    ASSUME NEW row \in ReservationRows, NEW read \in ReservationRows, NEW seen \in ReservationRows
    PROVE  /\ Written(row, read, seen) \in ReservationRows
           /\ Written(row, read, seen).part = row.part /\ Written(row, read, seen).at = row.at
           /\ Written(row, read, seen).source = row.source
           /\ Written(row, read, seen).qty = IF seen.qty # read.qty THEN seen.qty ELSE row.qty
           /\ Written(row, read, seen).status = IF seen.status # read.status THEN seen.status ELSE row.status
           /\ seen = read => Written(row, read, seen) = row
           /\ /\ read = row
              /\ seen.part = read.part /\ seen.at = read.at /\ seen.source = read.source
              => Written(row, read, seen) = seen
<1> DEFINE q == IF seen.qty # read.qty THEN seen.qty ELSE row.qty
           s == IF seen.status # read.status THEN seen.status ELSE row.status
           w == Written(row, read, seen)
<1>1. q \in Nat /\ s \in {"open", "released", "issued"}
  BY DEF ReservationRows
<1>2. w = [row EXCEPT !.qty = q, !.status = s]
  BY DEF Written
<1>3. seen = read => q = row.qty /\ s = row.status
  OBVIOUS
<1>4. read = row => q = seen.qty /\ s = seen.status
  OBVIOUS
<1>5. w.qty = q /\ w.status = s
  <2> HIDE DEF q, s, w
  <2> QED BY <1>2 DEF ReservationRows
<1> SUFFICES /\ w \in ReservationRows
             /\ w.part = row.part /\ w.at = row.at /\ w.source = row.source
             /\ seen = read => w = row
             /\ /\ read = row
                /\ seen.part = read.part /\ seen.at = read.at /\ seen.source = read.source
                => w = seen
  BY <1>5
<1> HIDE DEF q, s, w
<1>6. /\ w \in ReservationRows /\ w.part = row.part /\ w.at = row.at /\ w.source = row.source
  BY <1>1, <1>2 DEF ReservationRows
<1>7. seen = read => w = row
  BY <1>2, <1>3 DEF ReservationRows
<1>8. ASSUME read = row, seen.part = read.part, seen.at = read.at, seen.source = read.source
      PROVE  w = seen
  BY ZenonT(60), <1>2, <1>4, <1>8 DEF ReservationRows
<1> QED BY <1>6, <1>7, <1>8

LEMMA MergedType ==
    ASSUME MRInv, NEW r \in Requests, pending[r] # Nothing,
           NEW seen \in Seq(ReservationRows), DOMAIN seen = DOMAIN pending[r].read
    PROVE  /\ Merged(r, seen) \in Seq(ReservationRows) /\ DOMAIN Merged(r, seen) = DOMAIN rows
           /\ \A i \in DOMAIN rows : rows[i] \in ReservationRows
           /\ \A i \in DOMAIN pending[r].read : pending[r].read[i] \in ReservationRows /\ seen[i] \in ReservationRows
<1>1. pending[r].read \in Seq(ReservationRows) /\ rows \in Seq(ReservationRows)
      /\ DOMAIN rows = 1 .. Len(rows) /\ Len(rows) \in Nat
  BY ReadingType, SeqFinite
<1>2. \A i \in DOMAIN rows : rows[i] \in ReservationRows
  BY <1>1
<1>3. \A i \in DOMAIN pending[r].read : pending[r].read[i] \in ReservationRows /\ seen[i] \in ReservationRows
  BY <1>1
<1>4. \A i \in DOMAIN rows : Merged(r, seen)[i] \in ReservationRows
  BY <1>2, <1>3, WrittenType DEF Merged
<1>5. DOMAIN Merged(r, seen) = 1 .. Len(rows)
      /\ Merged(r, seen) = [i \in 1 .. Len(rows) |-> Merged(r, seen)[i]]
  BY <1>1 DEF Merged
<1> QED BY <1>1, <1>2, <1>3, <1>4, <1>5

LEMMA FirstIssueFits ==
    ASSUME MRInv, NEW r \in Requests, pending[r] # Nothing, pending[r].kind = "issue"
    PROVE  IssueFits(r, FirstIssue(r), 0)
<1> DEFINE run == FirstIssue(r)
<1>1. /\ MRTypeOK /\ balance \in Stock /\ rows \in Seq(ReservationRows) /\ LinesFit(r) /\ ReadingFits(r)
      /\ pending[r].read \in Seq(ReservationRows) /\ DOMAIN pending[r].read \subseteq DOMAIN rows
      /\ (~raced => Sound(balance, rows))
  BY StockType, HeldAlike, ReadingType DEF MRInv, RequestFits
<1>2. LinesIssue(r, run, 0)
  <2>1. \A j \in DOMAIN mr[r].lines : mr[r].lines[j].issued = 0 /\ mr[r].lines[j].requested \in Nat
    BY <1>1, LineType, LineNumbers DEF LinesFit, ReadingFits
  <2>2. \A j \in DOMAIN mr[r].lines : j \in Nat
    BY <1>1, LineType
  <2> QED BY <1>1, <2>1, <2>2, LineType DEF LinesIssue, FirstIssue, SameAsked
<1>3. SeenIssue(r, run, 0)
  <2>1. \A k \in DOMAIN pending[r].read : pending[r].read[k].qty \in Nat
    <3>1. \A k \in DOMAIN pending[r].read : pending[r].read[k] \in ReservationRows
      BY <1>1
    <3> QED BY <3>1 DEF ReservationRows
  <2> QED BY <1>1, <2>1 DEF SeenIssue, FirstIssue
<1>4. Merged(r, pending[r].read) = rows
  <2>1. \A i \in DOMAIN rows : rows[i] \in ReservationRows
        /\ (i \in DOMAIN pending[r].read => pending[r].read[i] \in ReservationRows)
    BY <1>1
  <2>2. \A i \in DOMAIN rows : Merged(r, pending[r].read)[i] = rows[i]
    BY <2>1, WrittenType DEF Merged
  <2>3. DOMAIN Merged(r, pending[r].read) = DOMAIN rows
        /\ Merged(r, pending[r].read) = [i \in DOMAIN rows |-> Merged(r, pending[r].read)[i]]
    BY DEF Merged
  <2> QED BY <1>1, <2>2, <2>3
<1> QED BY <1>1, <1>2, <1>3, <1>4 DEF IssueFits, FirstIssue, Alone

\* The line is handed out n more, which leave the shelves.
HandsOut(run, i, n, next) ==
    /\ n <= run.lines[i].requested - run.lines[i].issued
    /\ MoreIssued(run.lines, i, n, next.lines)
    /\ next.balance \in Stock /\ HandSum(next.balance) = HandSum(run.balance) - n

LEMMA LinesIssueStep ==
    ASSUME MRInv, NEW r \in Requests, NEW run, NEW i \in 1 .. Len(mr[r].lines), LinesIssue(r, run, i - 1),
           NEW n \in Nat, NEW next, HandsOut(run, i, n, next)
    PROVE  LinesIssue(r, next, i)
<1>0. /\ n <= run.lines[i].requested - run.lines[i].issued
      /\ next.balance \in Stock /\ HandSum(next.balance) = HandSum(run.balance) - n
  BY DEF HandsOut
<1>1. /\ run.lines \in Seq(LineRows) /\ DOMAIN run.lines = DOMAIN mr[r].lines /\ i \in DOMAIN run.lines
      /\ i \in Nat /\ \A j \in DOMAIN mr[r].lines : j \in Nat /\ run.lines[j] \in LineRows
      /\ DOMAIN mr[r].lines = 1 .. Len(mr[r].lines)
  BY LineType DEF MRInv, LinesIssue, SameAsked
<1>2. /\ next.lines \in Seq(LineRows) /\ DOMAIN next.lines = DOMAIN run.lines
      /\ Len(next.lines) = Len(run.lines)
      /\ next.lines[i].part = run.lines[i].part /\ next.lines[i].requested = run.lines[i].requested
      /\ next.lines[i].returned = run.lines[i].returned /\ next.lines[i].issued = run.lines[i].issued + n
      /\ \A j \in DOMAIN run.lines : j # i => next.lines[j] = run.lines[j]
      /\ IssuedOf(next.lines) = IssuedOf(run.lines) + n
  <2> DEFINE old == run.lines
             new == next.lines
  <2>1. old \in Seq(LineRows) /\ i \in DOMAIN old /\ MoreIssued(old, i, n, new)
    BY <1>1 DEF HandsOut
  <2> HIDE DEF old, new
  <2>2. /\ new \in Seq(LineRows) /\ DOMAIN new = DOMAIN old
        /\ Len(new) = Len(old)
        /\ new[i].part = old[i].part /\ new[i].requested = old[i].requested
        /\ new[i].returned = old[i].returned /\ new[i].issued = old[i].issued + n
        /\ \A j \in DOMAIN old : j # i => new[j] = old[j]
        /\ IssuedOf(new) = IssuedOf(old) + n
    BY <2>1, LinesIssued
  <2> QED BY <2>2 DEF old, new
<1>3. SameAsked(r, next.lines)
  BY ZenonT(60), <1>1, <1>2 DEF LinesIssue, SameAsked
<1>4. ASSUME NEW j \in DOMAIN next.lines
      PROVE  /\ next.lines[j].returned = mr[r].lines[j].returned
             /\ next.lines[j].issued <= next.lines[j].requested
             /\ mr[r].lines[j].issued <= next.lines[j].issued
             /\ j > i => next.lines[j].issued = 0
  <2>1. /\ run.lines[j].returned = mr[r].lines[j].returned
        /\ run.lines[j].issued <= run.lines[j].requested /\ mr[r].lines[j].issued <= run.lines[j].issued
        /\ j > i - 1 => run.lines[j].issued = 0
    BY <1>2 DEF LinesIssue
  <2>2. run.lines[j].issued \in Nat /\ run.lines[j].requested \in Nat /\ mr[r].lines[j].issued \in Nat
    BY <1>1, <1>2, LineNumbers, LineType DEF MRInv
  <2>3. CASE j = i
    <3>1. /\ next.lines[j].returned = run.lines[j].returned /\ next.lines[j].requested = run.lines[j].requested
          /\ next.lines[j].issued = run.lines[j].issued + n
          /\ n <= run.lines[j].requested - run.lines[j].issued
      BY <1>0, <1>2, <2>3
    <3> DEFINE a == run.lines[j].issued
               b == run.lines[j].requested
               c == mr[r].lines[j].issued
    <3>2. a \in Nat /\ b \in Nat /\ c \in Nat /\ c <= a /\ n <= b - a
      BY <2>1, <2>2, <3>1
    <3> HIDE DEF a, b, c
    <3>3. a + n <= b /\ c <= a + n
      BY <3>2
    <3>4. ~(j > i)
      <4>1. i \in Nat
        BY Zenon, <1>1
      <4> QED BY <2>3, <4>1
    <3> QED BY Zenon, <2>1, <3>1, <3>3, <3>4 DEF a, b, c
  <2>4. CASE j # i
    <3>1. next.lines[j] = run.lines[j] /\ j \in Nat /\ i \in Nat
      BY Zenon, <1>1, <1>2, <2>4
    <3>2. j > i => j > i - 1
      BY <3>1
    <3> QED BY Zenon, <2>1, <3>1, <3>2
  <2> QED BY <2>3, <2>4
<1>5. HandSum(next.balance) + IssuedOf(next.lines) = HandSum(balance) + IssuedOf(mr[r].lines)
  <2>1. HandSum(run.balance) \in Nat /\ IssuedOf(run.lines) \in Nat
    BY <1>1, HandSumType, IssuedType DEF LinesIssue
  <2>2. HandSum(run.balance) + IssuedOf(run.lines) = HandSum(balance) + IssuedOf(mr[r].lines)
    BY DEF LinesIssue
  <2> QED BY <1>0, <1>2, <2>1, <2>2
<1> QED BY <1>0, <1>3, <1>4, <1>5 DEF LinesIssue

\* Line i is issued from reservation k.
UsesRow(r, run, i, k, n, next) ==
    /\ k = pending[r].picked[mr[r].lines[i].part] /\ k # 0
    /\ n = IssueQty(mr[r].lines[i].requested, run.seen[k].qty)
    /\ next.seen = [run.seen EXCEPT ![k] = Used(run.seen[k], n)]

\* An item of a list, and a list with one of its items replaced.
LEMMA ListItem ==
    ASSUME NEW S, NEW s \in Seq(S), NEW k \in DOMAIN s
    PROVE  s[k] \in S
  OBVIOUS

LEMMA ListPut ==
    ASSUME NEW S, NEW s \in Seq(S), NEW k \in DOMAIN s, NEW e \in S, NEW t, t = [s EXCEPT ![k] = e]
    PROVE  /\ t \in Seq(S) /\ DOMAIN t = DOMAIN s /\ t[k] = e
           /\ \A m \in DOMAIN s : m # k => t[m] = s[m]
  OBVIOUS

\* Two lines never use the same reservation unless they are for the same part.
LEMMA SeenIssueStep ==
    ASSUME MRInv, NEW r \in Requests, pending[r] # Nothing, pending[r].kind = "issue",
           NEW run, NEW i \in 1 .. Len(mr[r].lines), SeenIssue(r, run, i - 1),
           NEW k, NEW n \in Nat, NEW next, UsesRow(r, run, i, k, n, next)
    PROVE  /\ SeenIssue(r, next, i) /\ k \in DOMAIN pending[r].read
           /\ n <= run.seen[k].qty /\ n <= mr[r].lines[i].requested
<1> DEFINE read == pending[r].read
           picked == pending[r].picked
           lines == mr[r].lines
           row == run.seen[k]
           used == Used(row, n)
\* What is known of them, after which their definitions are not needed.
<1>1. /\ k = picked[lines[i].part] /\ k # 0 /\ n = IssueQty(lines[i].requested, row.qty)
      /\ next.seen = [run.seen EXCEPT ![k] = used] /\ row = run.seen[k]
  BY Zenon DEF UsesRow
<1>2. MRTypeOK /\ RequestFits(r)
  BY DEF MRInv
<1>3. /\ DOMAIN lines = 1 .. Len(lines) /\ Len(lines) \in Nat /\ i \in DOMAIN lines /\ i \in Nat
      /\ \A j \in DOMAIN lines : lines[j] \in LineRows
  BY <1>2, LineType
<1>4. \A j \in DOMAIN lines : lines[j].part \in Parts /\ lines[j].requested \in Nat
  BY Zenon, <1>3, LineNumbers
<1>5. /\ run.seen \in Seq(ReservationRows) /\ DOMAIN run.seen = DOMAIN read
      /\ \A m \in DOMAIN read :
            /\ run.seen[m].part = read[m].part /\ run.seen[m].at = read[m].at
            /\ run.seen[m].source = read[m].source /\ run.seen[m].qty <= read[m].qty
            /\ run.seen[m].status = read[m].status \/ (run.seen[m].status = "issued" /\ run.seen[m].qty = 0)
            /\ run.seen[m] = read[m] \/ \E j \in 1 .. i - 1 : j \in DOMAIN lines /\ m = picked[lines[j].part]
  BY Zenon DEF SeenIssue
<1>6. ASSUME Apart(lines), NEW j \in 1 .. i - 1, j \in DOMAIN lines, picked[lines[j].part] # 0
      PROVE  run.seen[picked[lines[j].part]].status = "issued"
  BY Zenon, <1>6 DEF SeenIssue
<1>7. ASSUME NEW p \in Parts, picked[p] # 0
      PROVE  /\ picked[p] \in DOMAIN read /\ picked[p] \in DOMAIN rows
             /\ read[picked[p]].status = "open" /\ read[picked[p]].part = p
             /\ rows[picked[p]].source = r /\ rows[picked[p]].part = p
             /\ read[picked[p]].qty = rows[picked[p]].qty
  BY SMTT(60), <1>7, PickedRow
<1>8. ASSUME NEW m \in DOMAIN rows, rows[m].source = r
      PROVE  \E j \in DOMAIN lines : lines[j].part = rows[m].part /\ rows[m].qty <= lines[j].requested
  BY Zenon, <1>2, <1>8 DEF RequestFits, RowsFit
<1>9. \A m \in DOMAIN read : read[m] \in ReservationRows
  BY ReadingType
<1> HIDE DEF read, picked, lines, row, used
<1>10. /\ k \in DOMAIN read /\ k \in DOMAIN rows /\ read[k].status = "open" /\ read[k].part = lines[i].part
       /\ rows[k].source = r /\ rows[k].part = lines[i].part /\ read[k].qty = rows[k].qty
  BY Zenon, <1>1, <1>3, <1>4, <1>7
<1>11. row \in ReservationRows /\ row.qty \in Nat
  <2>1. row \in ReservationRows
    BY Zenon, <1>1, <1>5, <1>10, ListItem
  <2> QED BY <2>1 DEF ReservationRows
<1>12. n <= row.qty /\ n <= lines[i].requested
  <2> DEFINE a == lines[i].requested
             b == row.qty
  <2>1. a \in Nat /\ b \in Nat /\ n = IssueQty(a, b)
    BY Zenon, <1>1, <1>3, <1>4, <1>11
  <2> HIDE DEF a, b
  <2>2. n <= b /\ n <= a
    BY <2>1 DEF IssueQty, Smaller
  <2> QED BY <2>2 DEF a, b
<1>13. /\ used \in ReservationRows /\ used.part = row.part /\ used.at = row.at /\ used.source = row.source
       /\ used.qty = row.qty - n /\ used.status = IF row.qty <= n THEN "issued" ELSE row.status
  <2>1. used = Used(row, n)
    BY Zenon DEF used
  <2>2. /\ Used(row, n) \in ReservationRows /\ Used(row, n).part = row.part /\ Used(row, n).at = row.at
        /\ Used(row, n).source = row.source /\ Used(row, n).qty = row.qty - n
        /\ Used(row, n).status = IF row.qty <= n THEN "issued" ELSE row.status
    BY <1>11, <1>12, RowUsed
  <2> QED BY Zenon, <2>1, <2>2
<1>14. /\ next.seen \in Seq(ReservationRows) /\ DOMAIN next.seen = DOMAIN read /\ next.seen[k] = used
       /\ \A m \in DOMAIN read : m # k => next.seen[m] = run.seen[m]
  <2>1. run.seen \in Seq(ReservationRows) /\ DOMAIN run.seen = DOMAIN read /\ k \in DOMAIN run.seen
    BY Zenon, <1>5, <1>10
  <2>2. used \in ReservationRows /\ next.seen = [run.seen EXCEPT ![k] = used]
    BY Zenon, <1>1, <1>13
  <2>3. /\ next.seen \in Seq(ReservationRows) /\ DOMAIN next.seen = DOMAIN run.seen /\ next.seen[k] = used
        /\ \A m \in DOMAIN run.seen : m # k => next.seen[m] = run.seen[m]
    BY <2>1, <2>2
  <2> QED BY Zenon, <2>1, <2>3
<1>15. ASSUME NEW m \in DOMAIN read
       PROVE  /\ next.seen[m].part = read[m].part /\ next.seen[m].at = read[m].at
              /\ next.seen[m].source = read[m].source /\ next.seen[m].qty <= read[m].qty
              /\ next.seen[m].status = read[m].status \/ (next.seen[m].status = "issued" /\ next.seen[m].qty = 0)
              /\ next.seen[m] = read[m] \/ \E j \in 1 .. i : j \in DOMAIN lines /\ m = picked[lines[j].part]
  <2>1. CASE m # k
    <3>1. next.seen[m] = run.seen[m]
      BY <1>14, <2>1
    <3>2. 1 .. i - 1 \subseteq 1 .. i
      BY <1>3
    <3> QED BY Zenon, <1>5, <3>1, <3>2
  <2>2. CASE m = k
    <3>1. used.qty <= read[m].qty
      <4>1. row.qty <= read[m].qty
        BY Zenon, <1>1, <1>5, <2>2
      <4>2. read[m].qty \in Nat /\ used.qty = row.qty - n
        BY <1>9, <1>13 DEF ReservationRows
      <4> QED BY <1>11, <4>1, <4>2
    <3>2. used.status = read[m].status \/ (used.status = "issued" /\ used.qty = 0)
      <4>1. CASE row.qty <= n
        BY <1>11, <1>12, <1>13, <4>1
      <4>2. CASE ~(row.qty <= n)
        <5>1. row.qty # 0
          BY <1>11, <4>2
        <5>2. row.status = read[m].status
          BY Zenon, <1>1, <1>5, <2>2, <5>1
        <5> QED BY Zenon, <1>13, <4>2, <5>2
      <4> QED BY <4>1, <4>2
    <3>3. i \in 1 .. i /\ i \in DOMAIN lines /\ m = picked[lines[i].part]
      <4>1. i \in 1 .. i
        BY <1>3
      <4> QED BY Zenon, <1>1, <1>3, <2>2, <4>1
    <3>4. used.part = read[m].part /\ used.at = read[m].at /\ used.source = read[m].source
      BY Zenon, <1>1, <1>5, <1>13, <2>2
    <3> QED BY Zenon, <1>14, <2>2, <3>1, <3>2, <3>3, <3>4
  <2> QED BY Zenon, <2>1, <2>2
<1>16. ASSUME Apart(lines), NEW j \in 1 .. i, j \in DOMAIN lines, picked[lines[j].part] # 0
       PROVE  next.seen[picked[lines[j].part]].status = "issued"
  <2>1. CASE j = i
    <3>1. run.seen[k] = read[k]
      <4> SUFFICES ASSUME NEW m \in 1 .. i - 1, m \in DOMAIN lines, k = picked[lines[m].part] PROVE FALSE
        BY Zenon, <1>5, <1>10
      <4>1. rows[k].part = lines[m].part
        BY Zenon, <1>1, <1>4, <1>7
      <4>2. m # i
        BY <1>3
      <4> QED BY Zenon, <1>3, <1>10, <1>16, <4>1, <4>2 DEF Apart
    <3>2. PICK m \in DOMAIN lines : lines[m].part = rows[k].part /\ rows[k].qty <= lines[m].requested
      BY Zenon, <1>8, <1>10
    <3>3. m = i
      BY Zenon, <1>3, <1>10, <1>16, <3>2 DEF Apart
    <3>4. row.qty <= lines[i].requested
      BY Zenon, <1>1, <1>10, <3>1, <3>2, <3>3
    <3>5. row.qty <= n
      <4> DEFINE a == lines[i].requested
                 b == row.qty
      <4>1. a \in Nat /\ b \in Nat /\ n = IssueQty(a, b) /\ b <= a
        BY Zenon, <1>1, <1>3, <1>4, <1>11, <3>4
      <4> HIDE DEF a, b
      <4>2. b <= n
        BY <4>1 DEF IssueQty, Smaller
      <4> QED BY <4>2 DEF b
    <3>6. used.status = "issued"
      BY Zenon, <1>13, <3>5
    <3> QED BY Zenon, <1>1, <1>14, <2>1, <3>6
  <2>2. CASE j # i
    <3>1. j \in 1 .. i - 1
      BY <1>3, <2>2
    <3>2. run.seen[picked[lines[j].part]].status = "issued"
      BY Zenon, <1>6, <1>16, <3>1
    <3>3. picked[lines[j].part] \in DOMAIN read
      BY Zenon, <1>4, <1>7, <1>16
    <3>4. CASE picked[lines[j].part] = k
      <4>1. row.status = "issued"
        BY Zenon, <1>1, <3>2, <3>4
      <4> QED BY Zenon, <1>13, <1>14, <3>4, <4>1
    <3>5. CASE picked[lines[j].part] # k
      BY Zenon, <1>14, <3>2, <3>3, <3>5
    <3> QED BY <3>4, <3>5
  <2> QED BY <2>1, <2>2
<1>17. SeenIssue(r, next, i)
  BY Zenon, <1>14, <1>15, <1>16 DEF SeenIssue, read, picked, lines
<1> QED BY Zenon, <1>1, <1>10, <1>12, <1>17 DEF read, lines

LEMMA RowClaimUsed ==
    ASSUME NEW row \in ReservationRows, NEW n \in Nat, n <= row.qty,
           row.status = "open" \/ (row.status = "issued" /\ row.qty = 0),
           NEW x, x = <<row.part, row.at>>, NEW y
    PROVE  /\ Claim(Used(row, n), y) = Claim(row, y) - (IF y = x THEN n ELSE 0)
           /\ Claim(row, x) >= n
<1> DEFINE used == Used(row, n)
<1>1. /\ used.part = row.part /\ used.at = row.at /\ row.qty \in Nat
      /\ used.qty = row.qty - n /\ used.status = IF row.qty <= n THEN "issued" ELSE row.status
  BY RowUsed
<1> HIDE DEF used
<1>2. CASE row.status = "open"
  <2>1. CASE row.qty <= n
    <3>1. row.qty = n /\ used.status = "issued"
      BY <1>1, <2>1
    <3> QED BY <1>1, <1>2, <3>1 DEF Claim, used
  <2>2. CASE ~(row.qty <= n)
    <3>1. used.status = "open"
      BY <1>1, <1>2, <2>2
    <3> QED BY <1>1, <1>2, <3>1 DEF Claim, used
  <2> QED BY <2>1, <2>2
<1>3. CASE row.status = "issued" /\ row.qty = 0
  <2>1. n = 0 /\ used.status = "issued"
    BY <1>1, <1>3
  <2> QED BY <1>1, <1>3, <2>1 DEF Claim, used
<1> QED BY <1>2, <1>3

\* The reservation a line uses is an open one of the request.
LEMMA UsedRow ==
    ASSUME MRInv, NEW r \in Requests, pending[r] # Nothing, pending[r].kind = "issue",
           NEW run, NEW i \in 1 .. Len(mr[r].lines), NEW k, NEW n \in Nat, NEW next,
           UsesRow(r, run, i, k, n, next)
    PROVE  pending[r].read[k].status = "open" /\ pending[r].read[k].source = r /\ k \in DOMAIN rows
<1> DEFINE p == mr[r].lines[i].part
<1>1. p \in Parts
  BY Zenon, LineType, LineNumbers DEF MRInv
<1>2. k = pending[r].picked[p] /\ k # 0
  BY Zenon DEF UsesRow
<1> HIDE DEF p
<1> QED BY <1>1, <1>2, PickedRow

LEMMA SoundIssueStep ==
    ASSUME MRInv, NEW r \in Requests, pending[r] # Nothing, pending[r].kind = "issue",
           NEW run, NEW i \in 1 .. Len(mr[r].lines), SeenIssue(r, run, i - 1),
           NEW k, NEW n \in Nat, NEW next, UsesRow(r, run, i, k, n, next), NEW x \in Shelves,
           x = <<run.seen[k].part, run.seen[k].at>>, Withdraws(run.balance, x, n, next.balance),
           run.balance \in Stock, Alone(r), Sound(run.balance, Merged(r, run.seen))
    PROVE  Sound(next.balance, Merged(r, next.seen))
<1> DEFINE read == pending[r].read
           ms == Merged(r, run.seen)
           mn == Merged(r, next.seen)
           row == run.seen[k]
<1>1. /\ SeenIssue(r, next, i) /\ k \in DOMAIN read /\ n <= row.qty
      /\ next.seen = [run.seen EXCEPT ![k] = Used(row, n)]
  <2>1. SeenIssue(r, next, i) /\ k \in DOMAIN pending[r].read /\ n <= run.seen[k].qty
    <3> HIDE DEF read, ms, mn, row
    <3> QED BY Zenon, SeenIssueStep
  <2> QED BY Zenon, <2>1 DEF UsesRow
<1>2. /\ run.seen \in Seq(ReservationRows) /\ DOMAIN run.seen = DOMAIN read
      /\ next.seen \in Seq(ReservationRows) /\ DOMAIN next.seen = DOMAIN read
      /\ row.part = read[k].part /\ row.at = read[k].at /\ row.source = read[k].source
      /\ row.status = read[k].status \/ (row.status = "issued" /\ row.qty = 0)
      /\ next.seen[k].part = read[k].part /\ next.seen[k].at = read[k].at
      /\ next.seen[k].source = read[k].source
  BY Zenon, <1>1 DEF SeenIssue
<1>3. next.seen[k] = Used(row, n) /\ \A m \in DOMAIN read : m # k => next.seen[m] = run.seen[m]
  BY Zenon, <1>1, <1>2
<1>4. /\ read[k].status = "open" /\ read[k].source = r /\ k \in DOMAIN rows
  BY Zenon, UsedRow
<1>5. read[k] = rows[k]
  BY <1>1, <1>4 DEF Alone, Changed
<1>6. /\ ms \in Seq(ReservationRows) /\ mn \in Seq(ReservationRows)
      /\ DOMAIN ms = DOMAIN rows /\ DOMAIN mn = DOMAIN rows
      /\ rows[k] \in ReservationRows /\ read[k] \in ReservationRows
      /\ row \in ReservationRows /\ next.seen[k] \in ReservationRows
  <2>1. /\ ms \in Seq(ReservationRows) /\ DOMAIN ms = DOMAIN rows /\ row \in ReservationRows
        /\ rows[k] \in ReservationRows /\ read[k] \in ReservationRows
    BY Zenon, <1>1, <1>2, <1>4, MergedType
  <2>2. mn \in Seq(ReservationRows) /\ DOMAIN mn = DOMAIN rows /\ next.seen[k] \in ReservationRows
    BY Zenon, <1>1, <1>2, MergedType
  <2> QED BY <2>1, <2>2
<1>7. ms[k] = row /\ mn[k] = Used(row, n) /\ \A m \in DOMAIN rows : m # k => mn[m] = ms[m]
  <2>1. ms[k] = Written(rows[k], read[k], row) /\ mn[k] = Written(rows[k], read[k], next.seen[k])
    BY <1>1, <1>4 DEF Merged
  <2>2. Written(rows[k], read[k], row) = row
    <3> HIDE DEF read, row
    <3> QED BY <1>2, <1>5, <1>6, WrittenType
  <2>3. Written(rows[k], read[k], next.seen[k]) = next.seen[k]
    <3> HIDE DEF read, row
    <3> QED BY SMTT(30), <1>2, <1>5, <1>6, WrittenType
  <2>4. \A m \in DOMAIN rows : m # k => mn[m] = ms[m]
    BY <1>3 DEF Merged
  <2> QED BY <1>3, <2>1, <2>2, <2>3, <2>4
<1> HIDE DEF ms, mn
<1>8. \A y : PromisedIn(mn, y) = PromisedIn(ms, y) - Claim(row, y) + Claim(Used(row, n), y)
  BY <1>4, <1>6, <1>7, RowChanged
<1>9. \A y : PromisedIn(ms, y) \in Nat /\ Claim(row, y) \in Nat /\ Claim(row, y) <= PromisedIn(ms, y)
  BY Zenon, <1>4, <1>6, <1>7, PromisedIsClaimed
<1>10. /\ \A y : Claim(Used(row, n), y) = Claim(row, y) - (IF y = x THEN n ELSE 0)
       /\ Claim(row, x) >= n
  <2>1. row.status = "open" \/ (row.status = "issued" /\ row.qty = 0)
    BY <1>2, <1>4
  <2>2. x = <<row.part, row.at>>
    OBVIOUS
  <2> HIDE DEF row
  <2> QED BY <1>1, <1>6, <2>1, <2>2, RowClaimUsed
<1> HIDE DEF row
<1>11. \A y : PromisedIn(mn, y) = PromisedIn(ms, y) - (IF y = x THEN n ELSE 0)
  <2> TAKE y
  <2>1. PromisedIn(mn, y) = PromisedIn(ms, y) - Claim(row, y) + (Claim(row, y) - (IF y = x THEN n ELSE 0))
    BY <1>8, <1>10
  <2> QED BY <1>9, <2>1
<1>12. \A y \in Shelves : /\ run.balance[y].held \in Nat /\ run.balance[y].hand \in Nat
                          /\ run.balance[y].held <= run.balance[y].hand
                          /\ run.balance[y].held = PromisedIn(ms, y)
  BY DEF Sound, Stock, ms
<1>13. n <= run.balance[x].held
  BY SMTT(30), <1>9, <1>10, <1>12
<1>14. /\ next.balance[x].hand = run.balance[x].hand - n
       /\ next.balance[x].held = run.balance[x].held - Smaller(n, run.balance[x].held)
       /\ \A y \in Shelves : y # x => next.balance[y] = run.balance[y]
  <2> DEFINE b == run.balance
             c == next.balance
  <2>1. b \in Stock /\ Withdraws(b, x, n, c)
    OBVIOUS
  <2> HIDE DEF b, c
  <2>2. /\ c[x].hand = b[x].hand - n /\ c[x].held = b[x].held - Smaller(n, b[x].held)
        /\ \A y \in Shelves : y # x => c[y] = b[y]
    BY <2>1, StockWithdrawn
  <2> QED BY Zenon, <2>2 DEF b, c
<1>15. Smaller(n, run.balance[x].held) = n
  BY <1>12, <1>13 DEF Smaller
<1>16. ASSUME NEW y \in Shelves
       PROVE  next.balance[y].held <= next.balance[y].hand /\ next.balance[y].held = PromisedIn(mn, y)
  <2>1. CASE y = x
    <3> DEFINE a == run.balance[x].hand
               b == run.balance[x].held
               c == PromisedIn(ms, x)
    <3>1. /\ a \in Nat /\ b \in Nat /\ b <= a /\ b = c
          /\ next.balance[y].hand = a - n /\ next.balance[y].held = b - n
      BY Zenon, <1>12, <1>14, <1>15, <2>1
    <3>2. PromisedIn(mn, y) = c - n
      BY Zenon, <1>11, <2>1
    <3> HIDE DEF a, b, c
    <3>3. b - n <= a - n
      BY <3>1
    <3> QED BY Zenon, <3>1, <3>2, <3>3
  <2>2. CASE y # x
    <3>1. next.balance[y] = run.balance[y]
      BY <1>14, <2>2
    <3>2. PromisedIn(mn, y) = PromisedIn(ms, y) - 0
      BY <1>11, <2>2
    <3>3. PromisedIn(mn, y) = PromisedIn(ms, y)
      BY <1>9, <3>2
    <3> QED BY <1>12, <3>1, <3>3
  <2> QED BY <2>1, <2>2
<1> QED BY Zenon, <1>16 DEF Sound, mn

LEMMA IssueLineFits ==
    ASSUME MRInv, NEW r \in Requests, pending[r] # Nothing, pending[r].kind = "issue",
           NEW draw \in Draws(r), NEW run, NEW i \in 1 .. Len(mr[r].lines), IssueFits(r, run, i - 1),
           IssueLine(pending[r].picked, draw, run, i).ok
    PROVE  IssueFits(r, IssueLine(pending[r].picked, draw, run, i), i)
<1> DEFINE line == run.lines[i]
           k == pending[r].picked[line.part]
           next == IssueLine(pending[r].picked, draw, run, i)
<1>1. /\ MRTypeOK /\ i \in DOMAIN mr[r].lines /\ i \in Nat /\ mr[r].lines[i] \in LineRows
      /\ DOMAIN mr[r].lines = 1 .. Len(mr[r].lines)
  BY LineType DEF MRInv
<1>2. LinesIssue(r, run, i - 1) /\ SeenIssue(r, run, i - 1) /\ run.balance \in Stock
      /\ (Alone(r) => Sound(run.balance, Merged(r, run.seen)))
  BY DEF IssueFits, LinesIssue
<1>3. /\ line \in LineRows /\ line.part = mr[r].lines[i].part /\ line.requested = mr[r].lines[i].requested
      /\ line.issued = 0
  <2>1. i > i - 1
    BY <1>1
  <2>2. run.lines \in Seq(LineRows) /\ DOMAIN run.lines = DOMAIN mr[r].lines
    BY <1>2 DEF LinesIssue, SameAsked
  <2> QED BY <1>1, <1>2, <2>1, <2>2 DEF LinesIssue, SameAsked
<1>4. line.part \in Parts /\ line.requested \in Nat /\ line.requested > 0
  BY <1>3, LineNumbers
<1>5. line.requested - line.issued = line.requested /\ ~(line.requested <= line.issued)
  BY <1>3, <1>4
<1>6. CASE k # 0
  <2> DEFINE row == run.seen[k]
             n == IssueQty(line.requested, row.qty)
             x == <<line.part, row.at>>
  <2>1. next = IssueFromRow(run, i, k)
    BY Zenon, <1>5, <1>6 DEF IssueLine
  <2>2. next = [lines |-> [run.lines EXCEPT ![i] = Issued(line, n)],
                balance |-> [run.balance EXCEPT ![x] = Withdrawn(run.balance[x], n, n)],
                seen |-> [run.seen EXCEPT ![k] = Used(row, n)],
                ok |-> run.ok /\ Free(run.balance[x]) + Smaller(n, run.balance[x].held) >= n]
    BY ZenonT(60), <1>5, <2>1 DEF IssueFromRow
  <2>3. next.ok
    OBVIOUS
  <2>4. k \in DOMAIN pending[r].read /\ row \in ReservationRows /\ row.qty \in Nat
        /\ row.part = line.part /\ row.at \in Places
    <3>1. k \in DOMAIN pending[r].read /\ pending[r].read[k].part = line.part
      <4> DEFINE p == line.part
      <4>1. p \in Parts /\ k = pending[r].picked[p] /\ k # 0
        BY Zenon, <1>4, <1>6
      <4> HIDE DEF p, k
      <4>2. k \in DOMAIN pending[r].read /\ pending[r].read[k].part = p
        BY <4>1, PickedRow
      <4> QED BY <4>2 DEF p
    <3>2. /\ run.seen \in Seq(ReservationRows) /\ DOMAIN run.seen = DOMAIN pending[r].read
          /\ \A m \in DOMAIN pending[r].read : run.seen[m].part = pending[r].read[m].part
      BY Zenon, <1>2 DEF SeenIssue
    <3> HIDE DEF k, line, next
    <3>3. row.part = line.part /\ row \in ReservationRows
      BY <3>1, <3>2
    <3> HIDE DEF row
    <3> QED BY <3>1, <3>3 DEF ReservationRows
  <2>5. n \in Nat /\ n <= line.requested
    <3> HIDE DEF k, line, next, row
    <3> QED BY SMTT(60), <1>4, <2>4 DEF IssueQty, Smaller
  <2>6. x \in Shelves /\ x = <<run.seen[k].part, run.seen[k].at>>
    BY Zenon, <1>4, <2>4 DEF Shelves
  <2>7. UsesRow(r, run, i, k, n, next)
    <3>1. next.seen = [run.seen EXCEPT ![k] = Used(row, n)]
      <4> HIDE DEF next, x, n, k, line, row
      <4> QED BY <2>2, Zenon
    <3> QED BY Zenon, <1>3, <1>6, <3>1 DEF UsesRow
  <2>8. Withdraws(run.balance, x, n, next.balance)
    <3>1. next.balance = [run.balance EXCEPT ![x] = Withdrawn(run.balance[x], n, n)]
      <4> HIDE DEF next, x, n, k, line, row
      <4> QED BY <2>2, Zenon
    <3>2. next.ok = (run.ok /\ Free(run.balance[x]) + Smaller(n, run.balance[x].held) >= n)
      <4> HIDE DEF next, x, n
      <4> QED BY <2>2, Zenon
    <3> HIDE DEF next, x, n
    <3> QED BY <2>3, <3>1, <3>2 DEF Withdraws
  <2>9. MoreIssued(run.lines, i, n, next.lines)
    <3>1. next.lines = [run.lines EXCEPT ![i] = Issued(line, n)]
      <4> HIDE DEF next, x, n, k, line, row
      <4> QED BY <2>2, Zenon
    <3> QED BY Zenon, <3>1 DEF MoreIssued
  <2> HIDE DEF next, x, n, k, line, row
  <2>10. next.balance \in Stock /\ HandSum(next.balance) = HandSum(run.balance) - n
    BY <1>2, <2>5, <2>6, <2>8, StockWithdrawn
  <2>11. LinesIssue(r, next, i)
    <3>1. n <= run.lines[i].requested - run.lines[i].issued
      BY <1>5, <2>5 DEF line
    <3>2. HandsOut(run, i, n, next)
      BY <2>9, <2>10, <3>1 DEF HandsOut
    <3> QED BY <1>2, <2>5, <3>2, LinesIssueStep
  <2>12. SeenIssue(r, next, i)
    BY <1>2, <2>5, <2>7, SeenIssueStep
  <2>13. Alone(r) => Sound(next.balance, Merged(r, next.seen))
    BY <1>2, <2>5, <2>6, <2>7, <2>8, SoundIssueStep
  <2> QED BY <2>11, <2>12, <2>13 DEF IssueFits, next
<1>7. CASE k = 0
  <2> DEFINE drawn == draw[i]
             left == line.requested - line.issued
  <2>1. next = IssueFromShelf(drawn, run, i)
    BY <1>5, <1>7 DEF IssueLine
  <2>2. drawn \in [Places -> 0 .. MaxStock]
    BY <1>1 DEF Draws
  <2>3. next.ok
    BY Zenon
  <2>4. /\ next.balance \in Stock
        /\ \A y \in Shelves : /\ next.balance[y].held = run.balance[y].held
                              /\ run.balance[y].held <= run.balance[y].hand
                                    => next.balance[y].held <= next.balance[y].hand
        /\ HandSum(next.balance) = HandSum(run.balance) - left
    <3>1. IssueFromShelf(drawn, run, i).ok
      BY <2>1, <2>3
    <3>2. run.lines[i] \in LineRows /\ run.lines[i].issued <= run.lines[i].requested
      BY <1>3, <1>4
    <3> HIDE DEF drawn
    <3>3. LET after == IssueFromShelf(drawn, run, i)
          IN  /\ after.balance \in Stock
              /\ \A y \in Shelves : /\ after.balance[y].held = run.balance[y].held
                                    /\ run.balance[y].held <= run.balance[y].hand
                                          => after.balance[y].held <= after.balance[y].hand
              /\ HandSum(after.balance) = HandSum(run.balance) - left
      BY <1>2, <2>2, <3>1, <3>2, StockDrawn
    <3> QED BY <2>1, <3>3
  <2>5. MoreIssued(run.lines, i, left, next.lines) /\ next.seen = run.seen
    BY <2>1 DEF IssueFromShelf, MoreIssued
  <2>6. left \in Nat /\ left <= run.lines[i].requested - run.lines[i].issued
    BY <1>3, <1>4, <1>5
  <2>7. k = 0 /\ k = pending[r].picked[mr[r].lines[i].part]
    BY <1>3, <1>7
  <2> HIDE DEF next, left, drawn, k, line
  <2>8. LinesIssue(r, next, i)
    <3>1. HandsOut(run, i, left, next)
      BY Zenon, <2>4, <2>5, <2>6 DEF HandsOut
    <3> QED BY <1>2, <2>6, <3>1, LinesIssueStep
  <2>9. SeenIssue(r, next, i)
    <3>1. \A j : j \in 1 .. i => j \in 1 .. i - 1 \/ j = i
      BY <1>1
    <3>2. \A j : j \in 1 .. i - 1 => j \in 1 .. i
      BY SMTT(60), <1>1
    <3>3. /\ next.seen \in Seq(ReservationRows) /\ DOMAIN next.seen = DOMAIN pending[r].read
          /\ \A m \in DOMAIN pending[r].read :
                /\ next.seen[m].part = pending[r].read[m].part /\ next.seen[m].at = pending[r].read[m].at
                /\ next.seen[m].source = pending[r].read[m].source /\ next.seen[m].qty <= pending[r].read[m].qty
                /\ next.seen[m].status = pending[r].read[m].status
                      \/ (next.seen[m].status = "issued" /\ next.seen[m].qty = 0)
      BY ZenonT(60), <1>2, <2>5 DEF SeenIssue
    <3>4. ASSUME NEW m \in DOMAIN pending[r].read, next.seen[m] # pending[r].read[m]
          PROVE  \E j \in 1 .. i : j \in DOMAIN mr[r].lines /\ m = pending[r].picked[mr[r].lines[j].part]
      <4>1. PICK j \in 1 .. i - 1 : j \in DOMAIN mr[r].lines /\ m = pending[r].picked[mr[r].lines[j].part]
        BY ZenonT(60), <1>2, <2>5, <3>4 DEF SeenIssue
      <4> QED BY Zenon, <3>2, <4>1
    <3>5. ASSUME Apart(mr[r].lines), NEW j \in 1 .. i, j \in DOMAIN mr[r].lines,
                 pending[r].picked[mr[r].lines[j].part] # 0
          PROVE  next.seen[pending[r].picked[mr[r].lines[j].part]].status = "issued"
      <4>1. j \in 1 .. i - 1
        BY <2>7, <3>1, <3>5
      <4> QED BY ZenonT(60), <1>2, <2>5, <3>5, <4>1 DEF SeenIssue
    <3> QED BY Zenon, <3>3, <3>4, <3>5 DEF SeenIssue
  <2>10. Alone(r) => Sound(next.balance, Merged(r, next.seen))
    BY <1>2, <2>4, <2>5 DEF Sound
  <2> QED BY Zenon, <2>8, <2>9, <2>10 DEF IssueFits, next
<1> QED BY <1>6, <1>7

LEMMA IssueRunFits ==
    ASSUME MRInv, NEW r \in Requests, pending[r] # Nothing, pending[r].kind = "issue",
           NEW draw \in Draws(r), IssueRun(r, draw).ok
    PROVE  IssueFits(r, IssueRun(r, draw), Len(mr[r].lines))
<1> DEFINE n == Len(mr[r].lines)
           Step(run, i) == IssueLine(pending[r].picked, draw, run, i)
<1>1. n \in Nat
  BY LineType DEF MRInv
<1>2. PICK run : /\ run[0] = FirstIssue(r)
                 /\ \A i \in 1 .. n : run[i] = Step(run[i - 1], i)
                 /\ IssueRun(r, draw) = run[n]
  BY <1>1, IssueRuns
<1> DEFINE S == {m \in 0 .. n : run[m].ok => IssueFits(r, run[m], m)}
<1>3. 0 \in S
  BY <1>1, <1>2, FirstIssueFits
<1>4. ASSUME NEW m \in 0 .. n, m \in S, m < n PROVE m + 1 \in S
  <2>1. m + 1 \in 1 .. n /\ (m + 1) - 1 = m /\ m + 1 \in 0 .. n
    BY <1>1, <1>4
  <2>2. run[m + 1] = Step(run[m], m + 1)
    BY <1>2, <2>1
  <2> SUFFICES ASSUME Step(run[m], m + 1).ok
               PROVE  IssueFits(r, Step(run[m], m + 1), m + 1)
    BY Zenon, <2>1, <2>2
  <2>3. run[m].ok
    BY Zenon DEF IssueLine, IssueFromRow, IssueFromShelf
  <2>4. IssueFits(r, run[m], (m + 1) - 1)
    BY <1>4, <2>1, <2>3
  <2> QED BY <2>1, <2>4, IssueLineFits
<1>5. n \in S
  <2> HIDE DEF S, n
  <2> QED BY <1>1, <1>3, <1>4, CountUp
<1> QED BY <1>2, <1>5

\* What the issue writes to a reservation.
LEMMA RowsIssued ==
    ASSUME MRInv, NEW r \in Requests, pending[r] # Nothing, pending[r].kind = "issue",
           NEW run, SeenIssue(r, run, Len(mr[r].lines)), NEW i \in DOMAIN rows
    PROVE  LET row == Merged(r, run.seen)[i]
           IN  /\ row.part = rows[i].part /\ row.at = rows[i].at /\ row.source = rows[i].source
               /\ row.status = "open" => rows[i].status = "open"
               /\ rows[i].source # r => row = rows[i]
               /\ rows[i].source = r => row.qty <= rows[i].qty
               /\ rows[i].source = r /\ Apart(mr[r].lines) => row.status # "open"
<1> DEFINE read == pending[r].read
           lines == mr[r].lines
           row == Merged(r, run.seen)[i]
<1>1. /\ ReadingFits(r) /\ RequestFits(r) /\ read \in Seq(ReservationRows) /\ DOMAIN read \subseteq DOMAIN rows
      /\ rows[i] \in ReservationRows /\ lines \in Seq(LineRows) /\ DOMAIN lines = 1 .. Len(lines)
      /\ \A j \in DOMAIN lines : lines[j].part \in Parts
  BY ReadingType, LineType, LineNumbers DEF MRInv
<1>2. rows[i].qty \in Nat
  BY <1>1 DEF ReservationRows
<1>3. CASE i \notin DOMAIN read
  <2>1. row = rows[i]
    BY <1>3 DEF Merged
  <2>2. rows[i].source # r
    BY <1>1, <1>3 DEF ReadingFits
  <2> QED BY <1>2, <2>1, <2>2
<1>4. CASE i \in DOMAIN read
  <2> DEFINE was == read[i]
             is == run.seen[i]
  <2>1. row = Written(rows[i], was, is)
    BY ZenonT(60), <1>4 DEF Merged
  <2>2. /\ was \in ReservationRows /\ is \in ReservationRows /\ is.part = was.part /\ is.at = was.at
        /\ is.source = was.source /\ is.qty <= was.qty
        /\ is.status = was.status \/ (is.status = "issued" /\ is.qty = 0)
    <3>1. /\ is.part = was.part /\ is.at = was.at /\ is.source = was.source /\ is.qty <= was.qty
          /\ is.status = was.status \/ (is.status = "issued" /\ is.qty = 0)
          /\ run.seen \in Seq(ReservationRows) /\ i \in DOMAIN run.seen
      BY Zenon, <1>4 DEF SeenIssue
    <3>2. was \in ReservationRows
      BY Zenon, <1>1, <1>4, ListItem
    <3>3. is \in ReservationRows
      BY Zenon, <3>1, ListItem
    <3> QED BY Zenon, <3>1, <3>2, <3>3
  <2>3. /\ was.part = rows[i].part /\ was.source = rows[i].source
        /\ rows[i].source = r => was.qty = rows[i].qty
        /\ rows[i].status = "open" => was.status = "open"
    BY <1>1, <1>4 DEF ReadingFits
  <2>4. is # was => was.source = r
    <3> SUFFICES ASSUME is # was PROVE was.source = r
      BY ZenonT(60)
    <3>1. PICK j \in DOMAIN lines : i = pending[r].picked[lines[j].part]
      BY Zenon, <1>4 DEF SeenIssue
    <3>2. i # 0
      BY SMTT(60), <1>1, <1>4
    <3> DEFINE p == lines[j].part
    <3>3. p \in Parts /\ i = pending[r].picked[p]
      BY Zenon, <1>1, <3>1
    <3> HIDE DEF p
    <3> QED BY <3>2, <3>3, PickedRow
  <2> HIDE DEF was, is, row
  <2>5. /\ row.part = rows[i].part /\ row.at = rows[i].at /\ row.source = rows[i].source
        /\ row.qty = IF is.qty # was.qty THEN is.qty ELSE rows[i].qty
        /\ row.status = IF is.status # was.status THEN is.status ELSE rows[i].status
        /\ is = was => row = rows[i]
    BY <1>1, <2>1, <2>2, WrittenType
  <2>6. row.status = "open" => rows[i].status = "open"
    BY <2>2, <2>5
  <2>7. rows[i].source # r => row = rows[i]
    BY <2>3, <2>4, <2>5
  <2>8. rows[i].source = r => row.qty <= rows[i].qty
    BY <1>2, <2>2, <2>3, <2>5
  <2>9. ASSUME rows[i].source = r, Apart(lines), row.status = "open" PROVE FALSE
    <3>1. rows[i].status = "open" /\ was.status = "open" /\ was.part = rows[i].part
      BY <2>3, <2>6, <2>9
    <3> DEFINE p == rows[i].part
               k == pending[r].picked[p]
    <3>2. p \in Parts
      BY <1>1 DEF ReservationRows
    <3>3. i \in FoundIn(read, r, p)
      BY <1>4, <2>3, <2>9, <3>1 DEF FoundIn, was
    <3>4. k \in FoundIn(read, r, p)
      BY <1>1, <3>2, <3>3 DEF ReadingFits
    <3>5. k \in DOMAIN read /\ k # 0
      BY <1>1, <3>4 DEF FoundIn
    <3>6. k \in DOMAIN rows /\ rows[k].source = r /\ rows[k].part = p
      <4> HIDE DEF p
      <4>1. k = pending[r].picked[p]
        OBVIOUS
      <4> HIDE DEF k
      <4> QED BY <3>2, <3>5, <4>1, PickedRow
    <3>7. k = i
      BY <1>1, <2>9, <3>6 DEF RequestFits, RowsFit
    <3>8. PICK j \in DOMAIN lines : lines[j].part = p
      BY <1>1, <2>9 DEF RequestFits, RowsFit
    <3>9. j \in 1 .. Len(lines) /\ pending[r].picked[lines[j].part] = k
      BY Zenon, <1>1, <3>8
    <3>10. is.status = "issued"
      <4>1. run.seen[pending[r].picked[lines[j].part]].status = "issued"
        <5> HIDE DEF read, row, p, k
        <5> QED BY Zenon, <2>9, <3>5, <3>8, <3>9 DEF SeenIssue
      <4>2. pending[r].picked[lines[j].part] = i
        BY Zenon, <3>7, <3>9
      <4> QED BY Zenon, <4>1, <4>2 DEF is
    <3> QED BY <2>5, <2>9, <3>1, <3>10
  <2> QED BY <2>5, <2>6, <2>7, <2>8, <2>9 DEF row
<1> QED BY <1>3, <1>4

LEMMA IssueKeeps ==
    ASSUME MRInv, NEW r \in Requests, pending[r] # Nothing, NEW draw \in Draws(r), FinishIssue(r, draw)
    PROVE  MRInv'
<1> DEFINE run == IssueRun(r, draw)
           lines == mr[r].lines
           n == Len(lines)
<1>1. /\ pending[r].kind = "issue" /\ run.ok
      /\ mr' = [mr EXCEPT ![r] = [status |-> "issued", lines |-> run.lines]]
      /\ balance' = run.balance /\ rows' = Merged(r, run.seen)
      /\ raced' = (raced \/ Changed(r)) /\ pending' = [pending EXCEPT ![r] = Nothing] /\ came' = came
  BY DEF FinishIssue, Merged
<1>2. IssueFits(r, run, n)
  BY <1>1, IssueRunFits
<1>3. /\ MRTypeOK /\ RequestFits(r) /\ n \in Nat /\ lines \in Seq(LineRows) /\ DOMAIN lines = 1 .. n
      /\ LinesIssue(r, run, n) /\ SeenIssue(r, run, n)
      /\ run.balance \in Stock
      /\ HandSum(run.balance) + IssuedOf(run.lines) = HandSum(balance) + IssuedOf(lines)
      /\ (Alone(r) => Sound(run.balance, Merged(r, run.seen)))
  BY <1>2, LineType DEF MRInv, IssueFits, LinesIssue
<1>4. /\ run.lines \in Seq(LineRows) /\ DOMAIN run.lines = DOMAIN lines /\ Len(run.lines) = n
      /\ \A j \in DOMAIN lines : /\ run.lines[j].part = lines[j].part
                                 /\ run.lines[j].requested = lines[j].requested
                                 /\ run.lines[j].returned = lines[j].returned
                                 /\ run.lines[j].issued <= run.lines[j].requested
                                 /\ lines[j].issued <= run.lines[j].issued
  BY <1>3 DEF LinesIssue, SameAsked
<1>5. rows' \in Seq(ReservationRows) /\ DOMAIN rows' = DOMAIN rows
  <2>1. run.seen \in Seq(ReservationRows) /\ DOMAIN run.seen = DOMAIN pending[r].read
    BY Zenon, <1>3 DEF SeenIssue
  <2> QED BY Zenon, <1>1, <2>1, MergedType
<1>6. ASSUME NEW i \in DOMAIN rows
      PROVE  /\ rows'[i].part = rows[i].part /\ rows'[i].at = rows[i].at /\ rows'[i].source = rows[i].source
             /\ rows'[i].status = "open" => rows[i].status = "open"
             /\ rows[i].source # r => rows'[i] = rows[i]
             /\ rows[i].source = r => rows'[i].qty <= rows[i].qty
             /\ rows[i].source = r /\ Apart(lines) => rows'[i].status # "open"
  BY <1>1, <1>3, RowsIssued
<1> HIDE DEF run, lines, n
<1>7. /\ mr'[r] = [status |-> "issued", lines |-> run.lines]
      /\ mr'[r].status = "issued" /\ mr'[r].lines = run.lines /\ mr[r].lines = lines /\ pending'[r] = Nothing
      /\ \A q \in Requests \ {r} : mr'[q] = mr[q] /\ pending'[q] = pending[q]
  BY <1>1, <1>3 DEF MRTypeOK, lines
<1>8. MRTypeOK'
  <2>1. mr' \in [Requests -> [status : Statuses, lines : Seq(LineRows)]]
    BY <1>1, <1>3, <1>4 DEF MRTypeOK, Statuses
  <2>2. balance' \in [Parts \X Places -> [hand : Nat, held : Nat]]
    BY <1>1, <1>3 DEF Stock, Shelves
  <2>3. raced' \in BOOLEAN
    BY <1>1, <1>3 DEF MRTypeOK, Changed
  <2>4. pending' \in [Requests -> Readings \cup {Nothing}] /\ came' \in Nat
    BY <1>1, <1>3 DEF MRTypeOK
  <2> QED BY <1>5, <2>1, <2>2, <2>3, <2>4 DEF MRTypeOK
<1>9. RequestFits(r)'
  <2>1. LinesFit(r) /\ RowsFit(r) /\ ReadingFits(r) /\ Len(run.lines) = Len(mr[r].lines)
    BY <1>3, <1>4, ReadingType DEF RequestFits, n, lines
  <2>2. LinesFit(r)'
    <3>1. \A j \in DOMAIN lines :
             /\ run.lines[j].returned \in Nat /\ run.lines[j].issued \in Nat /\ lines[j].issued \in Nat
             /\ lines[j].returned <= lines[j].issued
      <4>1. \A j \in DOMAIN lines : lines[j] \in LineRows /\ run.lines[j] \in LineRows
        BY <1>3, <1>4
      <4>2. \A j \in DOMAIN lines : lines[j].returned <= lines[j].issued
        BY <1>7, <2>1 DEF LinesFit
      <4> QED BY <4>1, <4>2, LineNumbers
    <3>2. \A j \in DOMAIN run.lines :
             run.lines[j].returned <= run.lines[j].issued /\ run.lines[j].issued <= run.lines[j].requested
      BY <1>4, <3>1
    <3>3. Len(run.lines) <= MaxLines
      BY <2>1 DEF LinesFit
    <3> QED BY <1>7, <3>2, <3>3 DEF LinesFit
  <2>3. Apart(run.lines) => Apart(lines)
    BY <1>4 DEF Apart
  <2>4. RowsFit(r)'
    <3> SUFFICES ASSUME NEW i \in DOMAIN rows', rows'[i].source = r
                 PROVE  /\ \E j \in DOMAIN run.lines : run.lines[j].part = rows'[i].part
                                                       /\ rows'[i].qty <= run.lines[j].requested
                        /\ Apart(run.lines) => \A k \in DOMAIN rows' :
                               rows'[k].source = r /\ rows'[k].part = rows'[i].part => k = i
      BY <1>7 DEF RowsFit
    <3>1. i \in DOMAIN rows /\ rows[i].source = r /\ rows'[i].part = rows[i].part /\ rows'[i].qty <= rows[i].qty
      BY <1>5, <1>6
    <3>2. PICK j \in DOMAIN lines : lines[j].part = rows[i].part /\ rows[i].qty <= lines[j].requested
      BY <1>7, <2>1, <3>1 DEF RowsFit
    <3>3. rows'[i].qty \in Nat /\ rows[i].qty \in Nat /\ lines[j].requested \in Nat
      <4>1. rows'[i] \in ReservationRows /\ rows[i] \in ReservationRows /\ lines[j] \in LineRows
        BY <1>3, <1>5, <3>1 DEF MRTypeOK
      <4> QED BY <4>1, LineNumbers DEF ReservationRows
    <3>4. rows'[i].qty <= run.lines[j].requested /\ run.lines[j].part = rows'[i].part /\ j \in DOMAIN run.lines
      BY <1>4, <3>1, <3>2, <3>3
    <3>5. ASSUME Apart(run.lines), NEW k \in DOMAIN rows', rows'[k].source = r, rows'[k].part = rows'[i].part
          PROVE  k = i
      <4>1. k \in DOMAIN rows /\ rows[k].source = r /\ rows[k].part = rows[i].part
        BY <1>5, <1>6, <3>1, <3>5
      <4> QED BY <1>7, <2>1, <2>3, <3>1, <3>5, <4>1 DEF RowsFit
    <3> QED BY <3>4, <3>5
  <2>5. SettledFits(r)'
    <3> SUFFICES ASSUME Apart(run.lines), NEW i \in DOMAIN rows', rows'[i].status = "open", rows'[i].source = r
                 PROVE  FALSE
      BY <1>7 DEF SettledFits, OpenRows
    <3> QED BY <1>5, <1>6, <2>3
  <2> QED BY <1>7, <2>2, <2>4, <2>5 DEF RequestFits
<1>10. \A q \in Requests : RequestFits(q)'
  <2>1. ASSUME NEW q \in Requests \ {r} PROVE RowsMoveOn(q)
    BY <1>5, <1>6 DEF RowsMoveOn
  <2> QED BY <1>3, <1>7, <1>8, <1>9, <2>1, OtherRequest DEF MRInv
<1>11. HeldIsPromised'
  BY <1>1, <1>3, <1>8, HeldAlikeNext DEF Alone
<1>12. NothingLost'
  <2>1. /\ SumFunctionOnSet(IssuedBy, Requests)'
              = SumFunctionOnSet(IssuedBy, Requests) - IssuedOf(lines) + IssuedOf(run.lines)
    BY <1>3, <1>7, <1>8, AllIssuedChanged
  <2>2. came = HandSum(balance) + SumFunctionOnSet(IssuedBy, Requests)
    BY LostAlike DEF MRInv
  <2>3. HandSum(balance) \in Nat /\ HandSum(run.balance) \in Nat /\ IssuedOf(lines) \in Nat
        /\ IssuedOf(run.lines) \in Nat /\ came \in Nat
    BY <1>3, <1>4, HandSumType, IssuedType, StockType DEF MRTypeOK
  <2>4. SumFunctionOnSet(IssuedBy, Requests) = came - HandSum(balance)
    <3>1. SumFunctionOnSet(IssuedBy, Requests) \in Int
      <4>1. \A q \in Requests : IssuedBy[q] \in Int
        <5>1. \A q \in Requests : mr[q].lines \in Seq(LineRows)
          BY <1>3, LineType
        <5> QED BY <5>1, IssuedType DEF IssuedBy
      <4> QED BY <4>1, RequestsAssumption, SumIsInt
    <3> QED BY <2>2, <2>3, <3>1
  <2>5. HandSum(run.balance) = HandSum(balance) + IssuedOf(lines) - IssuedOf(run.lines)
    BY <1>3, <2>3
  <2>6. came' = HandSum(balance') + SumFunctionOnSet(IssuedBy, Requests)'
    BY <1>1, <2>1, <2>3, <2>4, <2>5
  <2> QED BY <2>6, LostAlikeNext
<1> QED BY <1>8, <1>10, <1>11, <1>12 DEF MRInv

-----------------------------------------------------------------------------
(* Returning entry by entry                                                *)

\* A run that has taken some entries of a return.
ReturnFits(r, run) ==
    /\ SameAsked(r, run.lines)
    /\ \A j \in DOMAIN run.lines :
          /\ run.lines[j].issued = mr[r].lines[j].issued
          /\ mr[r].lines[j].returned <= run.lines[j].returned /\ run.lines[j].returned <= run.lines[j].issued
    /\ run.balance \in Stock
    /\ \A y \in Shelves : run.balance[y].held = balance[y].held /\ balance[y].hand <= run.balance[y].hand
    /\ run.came \in Nat /\ run.came - HandSum(run.balance) = came - HandSum(balance)

LEMMA LineReturned ==
    ASSUME NEW line \in LineRows, NEW n \in Nat, NEW new, new = [line EXCEPT !.returned = line.returned + n]
    PROVE  /\ new \in LineRows /\ new.part = line.part /\ new.requested = line.requested
           /\ new.issued = line.issued /\ new.returned = line.returned + n
<1>1. line.returned + n \in Nat
  BY LineNumbers
<1> DEFINE m == line.returned + n
<1>2. m \in Nat /\ new = [line EXCEPT !.returned = m]
  BY <1>1
<1> HIDE DEF m
<1>3. /\ new \in LineRows /\ new.part = line.part /\ new.requested = line.requested
      /\ new.issued = line.issued /\ new.returned = m
  BY <1>2 DEF LineRows
<1> QED BY <1>3 DEF m

\* n pieces are put on shelf x.
Stored(b, x, n, c) == c = [b EXCEPT ![x].hand = @ + n]

LEMMA StockStored ==
    ASSUME NEW b \in Stock, NEW x \in Shelves, NEW n \in Nat, NEW c, Stored(b, x, n, c)
    PROVE  /\ c \in Stock /\ HandSum(c) = HandSum(b) + n
           /\ \A y \in Shelves : c[y].held = b[y].held /\ b[y].hand <= c[y].hand
<1> DEFINE old == b[x]
           new == c[x]
           m == old.hand + n
<1>1. old \in [hand : Nat, held : Nat] /\ m \in Nat /\ old.hand \in Nat
  BY DEF Stock
<1>2. new = [old EXCEPT !.hand = m] /\ c = [b EXCEPT ![x] = new] /\ \A y \in Shelves : y # x => c[y] = b[y]
  BY DEF Stored, Stock
<1> HIDE DEF old, new, m
<1>3. new \in [hand : Nat, held : Nat] /\ new.hand = m /\ new.held = old.held
  BY <1>1, <1>2
<1>4. c \in Stock
  BY <1>2, <1>3 DEF Stock
<1>5. HandSum(c) = HandSum(b) - old.hand + m
  BY <1>2, <1>3, <1>4, HandChanged DEF old, new
<1>6. HandSum(c) = HandSum(b) + n
  <2>1. HandSum(b) \in Nat
    BY Zenon, HandSumType
  <2> QED BY <1>1, <1>5, <2>1 DEF m
<1>7. ASSUME NEW y \in Shelves PROVE c[y].held = b[y].held /\ b[y].hand <= c[y].hand
  <2>1. b[y].hand \in Nat
    BY DEF Stock
  <2>2. CASE y = x
    BY <1>1, <1>3, <2>2 DEF old, new, m
  <2>3. CASE y # x
    BY <1>2, <2>1, <2>3
  <2> QED BY <2>2, <2>3
<1> QED BY <1>4, <1>6, <1>7

LEMMA ReturnEntryFits ==
    ASSUME MRInv, NEW r \in Requests, NEW at \in Places, NEW run, ReturnFits(r, run),
           NEW i \in DOMAIN mr[r].lines, NEW n \in Nat, NEW good \in BOOLEAN,
           NEW entry, entry = <<i, n, good>>, ReturnEntry(at, run, entry).ok
    PROVE  ReturnFits(r, ReturnEntry(at, run, entry))
<1> DEFINE line == run.lines[i]
           x == <<line.part, at>>
           back == [line EXCEPT !.returned = line.returned + n]
           next == ReturnEntry(at, run, entry)
<1>1. next = [lines |-> [run.lines EXCEPT ![i] = back],
              balance |-> IF good THEN [run.balance EXCEPT ![x].hand = @ + n] ELSE run.balance,
              came |-> IF good THEN run.came + n ELSE run.came,
              ok |-> run.ok /\ n <= line.issued - line.returned]
  BY DEF ReturnEntry, Returnable
<1>2. next.ok
  OBVIOUS
<1>3. run.lines \in Seq(LineRows) /\ DOMAIN run.lines = DOMAIN mr[r].lines /\ line \in LineRows
  BY DEF ReturnFits, SameAsked
<1>4. x \in Shelves /\ line.issued \in Nat /\ line.returned \in Nat
  BY <1>3, LineNumbers DEF Shelves
<1> HIDE DEF next, x
<1>5. /\ next.lines = [run.lines EXCEPT ![i] = back]
      /\ next.balance = IF good THEN [run.balance EXCEPT ![x].hand = @ + n] ELSE run.balance
      /\ next.came = IF good THEN run.came + n ELSE run.came
      /\ n <= line.issued - line.returned
  <2> HIDE DEF back, line
  <2>1. next.ok = (run.ok /\ n <= line.issued - line.returned)
    BY <1>1, Zenon
  <2> QED BY <1>1, <1>2, <2>1, Zenon
<1>6. /\ back \in LineRows /\ back.part = line.part /\ back.requested = line.requested
      /\ back.issued = line.issued /\ back.returned = line.returned + n
  BY <1>3, LineReturned
<1> HIDE DEF back
<1>7. /\ next.lines \in Seq(LineRows) /\ DOMAIN next.lines = DOMAIN run.lines /\ Len(next.lines) = Len(run.lines)
      /\ next.lines[i] = back
      /\ \A j \in DOMAIN run.lines : j # i => next.lines[j] = run.lines[j]
  BY <1>3, <1>5, <1>6
<1>8. SameAsked(r, next.lines)
  BY ZenonT(60), <1>3, <1>6, <1>7 DEF ReturnFits, SameAsked
<1>9. ASSUME NEW j \in DOMAIN next.lines
      PROVE  /\ next.lines[j].issued = mr[r].lines[j].issued
             /\ mr[r].lines[j].returned <= next.lines[j].returned /\ next.lines[j].returned <= next.lines[j].issued
  <2>1. /\ run.lines[j].issued = mr[r].lines[j].issued
        /\ mr[r].lines[j].returned <= run.lines[j].returned /\ run.lines[j].returned <= run.lines[j].issued
    BY <1>7 DEF ReturnFits
  <2>2. CASE j = i
    <3>1. mr[r].lines[i].returned \in Nat /\ mr[r].lines[i].returned <= line.returned
          /\ line.issued = mr[r].lines[i].issued
      BY <2>1, <2>2, LineType, LineNumbers DEF MRInv
    <3>2. /\ line.returned \in Nat /\ line.issued \in Nat /\ n <= line.issued - line.returned
          /\ back.issued = line.issued /\ back.returned = line.returned + n
      BY Zenon, <1>4, <1>5, <1>6
    <3>3. next.lines[j] = back /\ mr[r].lines[j] = mr[r].lines[i]
      BY Zenon, <1>7, <2>2
    <3> DEFINE a == line.returned
               b == line.issued
               c == mr[r].lines[i].returned
    <3> HIDE DEF line, a, b, c
    <3>4. c <= a + n /\ a + n <= b
      BY <3>1, <3>2 DEF a, b, c
    <3> QED BY Zenon, <3>1, <3>2, <3>3, <3>4 DEF a, b, c
  <2>3. CASE j # i
    BY <1>7, <2>1, <2>3
  <2> QED BY <2>2, <2>3
<1>10. /\ run.balance \in Stock /\ run.came \in Nat /\ run.came - HandSum(run.balance) = came - HandSum(balance)
       /\ \A y \in Shelves : run.balance[y].held = balance[y].held /\ balance[y].hand <= run.balance[y].hand
  BY DEF ReturnFits
<1> HIDE DEF line
<1>11. CASE good
  <2>1. Stored(run.balance, x, n, next.balance) /\ next.came = run.came + n
    BY <1>5, <1>11 DEF Stored
  <2>2. /\ next.balance \in Stock /\ HandSum(next.balance) = HandSum(run.balance) + n
        /\ \A y \in Shelves : next.balance[y].held = run.balance[y].held
                              /\ run.balance[y].hand <= next.balance[y].hand
    BY <1>4, <1>10, <2>1, StockStored
  <2>3. HandSum(run.balance) \in Nat /\ HandSum(balance) \in Nat /\ came \in Nat
    BY <1>10, HandSumType, StockType DEF MRInv, MRTypeOK
  <2>4. next.came \in Nat /\ next.came - HandSum(next.balance) = came - HandSum(balance)
    BY <1>10, <2>1, <2>2, <2>3
  <2>5. \A y \in Shelves : balance[y].hand \in Nat /\ run.balance[y].hand \in Nat /\ next.balance[y].hand \in Nat
    BY <1>10, <2>2, StockType DEF MRInv, Stock
  <2>6. \A y \in Shelves : next.balance[y].held = balance[y].held /\ balance[y].hand <= next.balance[y].hand
    BY <1>10, <2>2, <2>5
  <2> QED BY <1>8, <1>9, <2>2, <2>4, <2>6 DEF ReturnFits, next
<1>12. CASE ~good
  <2>1. next.balance = run.balance /\ next.came = run.came
    BY <1>5, <1>12
  <2> QED BY <1>8, <1>9, <1>10, <2>1 DEF ReturnFits, next
<1> QED BY <1>11, <1>12

LEMMA FirstReturnFits ==
    ASSUME MRInv, NEW r \in Requests PROVE ReturnFits(r, FirstReturn(r))
<1>1. /\ balance \in Stock /\ came \in Nat /\ LinesFit(r)
      /\ mr[r].lines \in Seq(LineRows) /\ \A j \in DOMAIN mr[r].lines : mr[r].lines[j] \in LineRows
      /\ \A y \in Shelves : balance[y].hand \in Nat
  BY StockType, LineType DEF MRInv, MRTypeOK, RequestFits, Stock
<1>2. \A j \in DOMAIN mr[r].lines : mr[r].lines[j].returned \in Nat /\ mr[r].lines[j].returned <= mr[r].lines[j].issued
  BY <1>1, LineNumbers DEF LinesFit
<1>3. \A y \in Shelves : balance[y].hand <= balance[y].hand
  BY <1>1
<1>4. HandSum(balance) \in Nat
  BY <1>1, HandSumType
<1>5. \A j \in DOMAIN mr[r].lines : mr[r].lines[j].returned <= mr[r].lines[j].returned
  BY <1>2
<1> QED BY <1>1, <1>2, <1>3, <1>4, <1>5 DEF ReturnFits, FirstReturn, SameAsked

LEMMA ReturnRunFits ==
    ASSUME MRInv, NEW r \in Requests, NEW at \in Places, NEW entries \in ReturnLists,
           \A j \in DOMAIN entries : entries[j][1] \in DOMAIN mr[r].lines, ReturnRun(r, at, entries).ok
    PROVE  ReturnFits(r, ReturnRun(r, at, entries))
<1> DEFINE n == Len(entries)
<1>1. /\ n \in Nat /\ DOMAIN entries = 1 .. n
      /\ \A j \in 1 .. n : entries[j] \in (1..MaxLines) \X Pieces \X BOOLEAN
  <2>1. PICK k \in 1 .. 2 : entries \in [1..k -> (1..MaxLines) \X Pieces \X BOOLEAN]
    BY DEF ReturnLists
  <2>2. entries \in Seq((1..MaxLines) \X Pieces \X BOOLEAN) /\ Len(entries) = k
    BY <2>1
  <2> QED BY <2>1, <2>2
<1>2. PICK run : /\ run[0] = FirstReturn(r)
                 /\ \A i \in 1 .. n : run[i] = ReturnEntry(at, run[i - 1], entries[i])
                 /\ ReturnRun(r, at, entries) = run[n]
  <2>1. Len(entries) \in Nat
    BY <1>1
  <2> HIDE DEF n
  <2> QED BY <2>1, ReturnRuns DEF n
<1> DEFINE S == {m \in 0 .. n : run[m].ok => ReturnFits(r, run[m])}
<1>3. 0 \in S
  BY <1>1, <1>2, FirstReturnFits
<1>4. ASSUME NEW m \in 0 .. n, m \in S, m < n PROVE m + 1 \in S
  <2>1. m + 1 \in 1 .. n /\ (m + 1) - 1 = m /\ m + 1 \in 0 .. n
    BY <1>1, <1>4
  <2>2. run[m + 1] = ReturnEntry(at, run[m], entries[m + 1])
    BY <1>2, <2>1
  <2> SUFFICES ASSUME ReturnEntry(at, run[m], entries[m + 1]).ok
               PROVE  ReturnFits(r, ReturnEntry(at, run[m], entries[m + 1]))
    BY <2>1, <2>2
  <2>3. run[m].ok
    BY DEF ReturnEntry
  <2>4. ReturnFits(r, run[m])
    BY <1>4, <2>3
  <2> DEFINE entry == entries[m + 1]
  <2>5. PICK i \in DOMAIN mr[r].lines, k \in Nat, good \in BOOLEAN : entry = <<i, k, good>>
    <3>1. entry \in (1..MaxLines) \X Pieces \X BOOLEAN /\ entry[1] \in DOMAIN mr[r].lines
      BY <1>1, <2>1
    <3> HIDE DEF entry
    <3>2. entry[2] \in Nat
      <4>1. entry[2] \in Pieces
        BY <3>1
      <4> QED BY <4>1, RequestsAssumption
    <3>3. entry = <<entry[1], entry[2], entry[3]>> /\ entry[3] \in BOOLEAN
      BY <3>1
    <3> QED BY <3>1, <3>2, <3>3
  <2> QED BY <2>4, <2>5, ReturnEntryFits
<1>5. n \in S
  <2> HIDE DEF S, n
  <2> QED BY <1>1, <1>3, <1>4, CountUp
<1> QED BY <1>2, <1>5

LEMMA ReturnKeeps ==
    ASSUME MRInv, NEW r \in Requests, NEW at \in Places, NEW entries \in ReturnLists,
           ReturnMaterialRequest(r, at, entries)
    PROVE  MRInv'
<1> DEFINE run == ReturnRun(r, at, entries)
           lines == mr[r].lines
<1>1. /\ mr[r].status = "issued" /\ pending[r] = Nothing /\ run.ok
      /\ \A j \in DOMAIN entries : entries[j][1] \in DOMAIN mr[r].lines
      /\ mr' = [mr EXCEPT ![r] = [status |-> "returned", lines |-> run.lines]]
      /\ balance' = run.balance /\ came' = run.came /\ UNCHANGED <<rows, pending, raced>>
  BY DEF ReturnMaterialRequest, May, MRTransitions
<1>2. ReturnFits(r, run)
  BY <1>1, ReturnRunFits
<1>3. /\ MRTypeOK /\ RequestFits(r) /\ lines \in Seq(LineRows)
      /\ run.balance \in Stock /\ run.came \in Nat
      /\ run.came - HandSum(run.balance) = came - HandSum(balance)
      /\ \A y \in Shelves : run.balance[y].held = balance[y].held /\ balance[y].hand <= run.balance[y].hand
  BY <1>2, LineType DEF MRInv, ReturnFits
<1>4. /\ run.lines \in Seq(LineRows) /\ DOMAIN run.lines = DOMAIN lines /\ Len(run.lines) = Len(mr[r].lines)
      /\ \A j \in DOMAIN lines : /\ run.lines[j].part = lines[j].part
                                 /\ run.lines[j].requested = lines[j].requested
                                 /\ run.lines[j].issued = lines[j].issued
                                 /\ run.lines[j].returned <= run.lines[j].issued
  BY <1>2 DEF ReturnFits, SameAsked
<1> HIDE DEF run, lines
<1>5. /\ mr'[r] = [status |-> "returned", lines |-> run.lines]
      /\ mr'[r].status = "returned" /\ mr'[r].lines = run.lines /\ mr[r].lines = lines
      /\ \A q \in Requests \ {r} : mr'[q] = mr[q]
  BY <1>1, <1>3 DEF MRTypeOK, lines
<1>6. MRTypeOK'
  <2>1. mr' \in [Requests -> [status : Statuses, lines : Seq(LineRows)]]
    BY <1>1, <1>3, <1>4 DEF MRTypeOK, Statuses
  <2>2. balance' \in [Parts \X Places -> [hand : Nat, held : Nat]] /\ came' \in Nat
    BY <1>1, <1>3 DEF Stock, Shelves
  <2> QED BY <1>1, <1>3, <2>1, <2>2 DEF MRTypeOK
<1>7. RequestFits(r)'
  <2>1. LinesFit(r) /\ RowsFit(r) /\ SettledFits(r)
    BY <1>3 DEF RequestFits
  <2>2. LinesFit(r)'
    BY <1>4, <1>5, <2>1 DEF LinesFit
  <2>3. Apart(run.lines) => Apart(lines)
    BY <1>4 DEF Apart
  <2>4. RowsFit(r)'
    BY <1>1, <1>4, <1>5, <2>1, <2>3 DEF RowsFit
  <2>5. SettledFits(r)'
    BY <1>1, <1>5, <2>1, <2>3 DEF SettledFits, OpenRows
  <2> QED BY <1>1, <2>2, <2>4, <2>5 DEF RequestFits
<1>8. \A q \in Requests : RequestFits(q)'
  BY <1>1, <1>3, <1>5, <1>6, <1>7, RowsUntouched, OtherRequest DEF MRInv
<1>9. HeldIsPromised'
  <2>1. ~raced => Sound(balance, rows)
    BY <1>3, HeldAlike DEF MRInv
  <2>2. \A y \in Shelves : balance[y].hand \in Nat /\ balance[y].held \in Nat /\ run.balance[y].hand \in Nat
    BY <1>3, StockType DEF Stock
  <2>3. ~raced => Sound(run.balance, rows)
    BY <1>3, <2>1, <2>2 DEF Sound
  <2> QED BY <1>1, <1>6, <2>3, HeldAlikeNext
<1>10. NothingLost'
  <2>1. IssuedOf(run.lines) = IssuedOf(lines)
    BY <1>3, <1>4, IssuedSame
  <2>2. IssuedOf(lines) \in Nat /\ HandSum(balance) \in Nat /\ HandSum(run.balance) \in Nat /\ came \in Nat
    BY <1>3, IssuedType, HandSumType, StockType DEF MRTypeOK
  <2>3. SumFunctionOnSet(IssuedBy, Requests) \in Int
    <3>1. \A q \in Requests : IssuedBy[q] \in Int
      <4>1. \A q \in Requests : mr[q].lines \in Seq(LineRows)
        BY <1>3, LineType
      <4> QED BY <4>1, IssuedType DEF IssuedBy
    <3> QED BY <3>1, RequestsAssumption, SumIsInt
  <2>4. SumFunctionOnSet(IssuedBy, Requests)' = SumFunctionOnSet(IssuedBy, Requests)
    <3>1. SumFunctionOnSet(IssuedBy, Requests)'
             = SumFunctionOnSet(IssuedBy, Requests) - IssuedOf(lines) + IssuedOf(run.lines)
      BY <1>3, <1>5, <1>6, AllIssuedChanged
    <3> QED BY <2>1, <2>2, <2>3, <3>1
  <2>5. came = HandSum(balance) + SumFunctionOnSet(IssuedBy, Requests)
    BY LostAlike DEF MRInv
  <2>6. came' = HandSum(balance') + SumFunctionOnSet(IssuedBy, Requests)'
    BY SMTT(30), <1>1, <1>3, <2>2, <2>3, <2>4, <2>5
  <2> QED BY <2>6, LostAlikeNext
<1> QED BY <1>6, <1>8, <1>9, <1>10 DEF MRInv

-----------------------------------------------------------------------------
(* The invariant of the requests                                           *)

LEMMA MRStart == MRInit => MRInv
<1> SUFFICES ASSUME MRInit PROVE MRInv
  BY ZenonT(60)
<1>1. /\ mr = [r \in Requests |-> [status |-> "absent", lines |-> <<>>]]
      /\ balance = [b \in Shelves |-> [hand |-> 0, held |-> 0]]
      /\ rows = <<>> /\ pending = [r \in Requests |-> Nothing] /\ came = 0 /\ raced = FALSE
  BY DEF MRInit, Shelves
<1>2. MRTypeOK
  <2>1. [status |-> "absent", lines |-> <<>>] \in [status : Statuses, lines : Seq(LineRows)]
    BY DEF Statuses
  <2>2. mr \in [Requests -> [status : Statuses, lines : Seq(LineRows)]]
    BY <1>1, <2>1
  <2>3. balance \in [Parts \X Places -> [hand : Nat, held : Nat]]
    BY <1>1 DEF Shelves
  <2>4. rows \in Seq(ReservationRows)
    BY <1>1
  <2>5. pending \in [Requests -> Readings \cup {Nothing}] /\ came \in Nat /\ raced \in BOOLEAN
    BY <1>1
  <2> QED BY <2>2, <2>3, <2>4, <2>5 DEF MRTypeOK
<1>3. ASSUME NEW r \in Requests PROVE RequestFits(r)
  <2>1. mr[r].status = "absent" /\ mr[r].lines = <<>> /\ pending[r] = Nothing
    BY <1>1
  <2>2. MaxLines \in Nat
    BY RequestsAssumption
  <2> QED BY <1>1, <2>1, <2>2 DEF RequestFits, LinesFit, RowsFit, SettledFits
<1>4. HeldIsPromised
  <2>1. \A x : OpenIn(rows, x) = {}
    BY <1>1 DEF OpenIn
  <2>2. \A x : PromisedIn(rows, x) = 0
    BY <2>1, SumOfNone DEF PromisedIn
  <2>3. Sound(balance, rows)
    BY <1>1, <2>2 DEF Sound
  <2> QED BY <1>2, <2>3, HeldAlike
<1>5. NothingLost
  <2>1. HandSum(balance) = 0
    <3> DEFINE f == [x \in Shelves |-> balance[x].hand]
    <3>1. \A x \in Shelves : f[x] = 0
      BY <1>1
    <3>2. HandSum(balance) = SumFunctionOnSet(f, Shelves)
      BY <1>1 DEF HandSum
    <3> HIDE DEF f
    <3> QED BY <3>1, <3>2, ShelvesFinite, SumOfZeros
  <2>2. SumFunctionOnSet(IssuedBy, Requests) = 0
    <3>1. \A r \in Requests : IssuedBy[r] = 0
      <4>1. \A r \in Requests : mr[r].lines = <<>>
        BY <1>1
      <4>2. IssuedOf(<<>>) = 0
        <5>1. <<>> \in Seq(LineRows) /\ DOMAIN <<>> = {}
          OBVIOUS
        <5>2. \A i \in DOMAIN <<>> : <<>>[i].issued = 0
          BY <5>1
        <5> QED BY <5>1, <5>2, NothingIssued
      <4> QED BY <4>1, <4>2 DEF IssuedBy
    <3> QED BY <3>1, RequestsAssumption, SumOfZeros
  <2> QED BY <1>1, <2>1, <2>2, LostAlike
<1> QED BY <1>2, <1>3, <1>4, <1>5 DEF MRInv

LEMMA MRStep == MRInv /\ [MRNext]_mrVars => MRInv'
<1> SUFFICES ASSUME MRInv, [MRNext]_mrVars PROVE MRInv'
  BY Zenon
<1>1. CASE StockNext
  BY <1>1, ReceiveGoodsKeeps, ReserveByHandKeeps, ReleaseKeeps DEF StockNext
<1>2. ASSUME NEW r \in Requests,
             \/ \E wanted \in WantedLists : CreateMaterialRequest(r, wanted)
             \/ ApproveMaterialRequest(r)
             \/ \E at \in [DOMAIN mr[r].lines -> Places] : ReserveMaterialRequest(r, at)
             \/ BeginIssue(r)
             \/ pending[r] # Nothing /\ \E draw \in Draws(r) : FinishIssue(r, draw)
             \/ \E l \in Places, entries \in ReturnLists : ReturnMaterialRequest(r, l, entries)
             \/ BeginCancel(r)
             \/ FinishCancel(r)
             \/ GiveUp(r)
      PROVE  MRInv'
  BY <1>2, CreateKeeps, ApproveKeeps, ReserveKeeps, BeginKeeps, IssueKeeps, ReturnKeeps, CancelKeeps, GiveUpKeeps
<1>3. CASE RequestNext
  BY <1>2, <1>3 DEF RequestNext
<1>4. CASE UNCHANGED mrVars
  <2>1. UNCHANGED <<mr, balance, rows, pending, came, raced>>
    BY <1>4 DEF mrVars
  <2>2. MRTypeOK'
    BY <2>1 DEF MRInv, MRTypeOK
  <2>3. \A r \in Requests : RequestFits(r)'
    BY <2>1, <2>2, RowsUntouched, OtherRequest DEF MRInv
  <2>4. HeldIsPromised'
    BY <2>1 DEF MRInv, HeldIsPromised, Quantity, OpenAt
  <2>5. NothingLost'
    BY <2>1 DEF MRInv, NothingLost, OnHand, IssuedBy
  <2> QED BY <2>2, <2>3, <2>4, <2>5 DEF MRInv
<1> QED BY <1>1, <1>3, <1>4 DEF MRNext

\* The inductive invariant holds in every state.
THEOREM MRAlways == MRSpec => []MRInv
BY MRStart, MRStep, PTL DEF MRSpec

\* Requests, balances, reservations and what handlers have read of them keep their types; no
\* column of a balance goes below zero.
THEOREM MRTypes == MRSpec => []MRTypeOK
<1>1. MRInv => MRTypeOK
  BY DEF MRInv
<1> QED BY <1>1, MRAlways, PTL

\* What is reserved at a location is what the open reservations promise of it and is there,
\* as long as no reservation is written by two requests side by side.
THEOREM HeldPromised == MRSpec => []HeldIsPromised
<1>1. MRInv => HeldIsPromised
  BY DEF MRInv
<1> QED BY <1>1, MRAlways, PTL

\* What came in is on hand or was issued, whatever is reserved, issued, returned or cancelled.
THEOREM GoodsKept == MRSpec => []NothingLost
<1>1. MRInv => NothingLost
  BY DEF MRInv
<1> QED BY <1>1, MRAlways, PTL

\* A request with lines for different parts that is issued, returned or cancelled has no open
\* reservation.
THEOREM SettledFree == MRSpec => []SettledHoldsNothing
<1>1. MRInv => SettledHoldsNothing
  BY SettledAlike DEF MRInv, RequestFits
<1> QED BY <1>1, MRAlways, PTL

-----------------------------------------------------------------------------
(* The lines as a flow of goods                                            *)

\* The lines of a request ask for, got and gave back what they did before.
LinesAlike(q) ==
    /\ DOMAIN mr'[q].lines = DOMAIN mr[q].lines
    /\ \A j \in DOMAIN mr[q].lines : /\ mr'[q].lines[j].requested = mr[q].lines[j].requested
                                     /\ mr'[q].lines[j].issued = mr[q].lines[j].issued
                                     /\ mr'[q].lines[j].returned = mr[q].lines[j].returned

LEMMA HandingStill ==
    ASSUME \A q \in Requests : LinesAlike(q) PROVE UNCHANGED Handing!flow
BY DEF Handing!flow, LinesAlike, There, Asked

LEMMA HandingOrders ==
    ASSUME NEW r \in Requests, \A q \in Requests \ {r} : mr'[q] = mr[q],
           DOMAIN mr[r].lines = {},
           \A j \in DOMAIN mr'[r].lines : /\ mr'[r].lines[j].requested > 0
                                          /\ mr'[r].lines[j].issued = 0 /\ mr'[r].lines[j].returned = 0
    PROVE  Handing!Order
BY DEF Handing!Order, There, Asked

LEMMA HandingDelivers ==
    ASSUME NEW r \in Requests, \A q \in Requests \ {r} : mr'[q] = mr[q],
           DOMAIN mr'[r].lines = DOMAIN mr[r].lines,
           \A j \in DOMAIN mr[r].lines :
              /\ mr'[r].lines[j].requested = mr[r].lines[j].requested
              /\ mr'[r].lines[j].returned = mr[r].lines[j].returned
              /\ mr'[r].lines[j].issued # mr[r].lines[j].issued => mr[r].lines[j].issued < mr'[r].lines[j].issued
              /\ mr'[r].lines[j].issued <= mr[r].lines[j].requested
    PROVE  Handing!Deliver
BY SMTT(30) DEF Handing!Deliver, There, Asked

LEMMA HandingStores ==
    ASSUME NEW r \in Requests, \A q \in Requests \ {r} : mr'[q] = mr[q],
           DOMAIN mr'[r].lines = DOMAIN mr[r].lines,
           \A j \in DOMAIN mr[r].lines :
              /\ mr'[r].lines[j].requested = mr[r].lines[j].requested
              /\ mr'[r].lines[j].issued = mr[r].lines[j].issued
              /\ mr'[r].lines[j].returned # mr[r].lines[j].returned
                    => mr[r].lines[j].returned < mr'[r].lines[j].returned
              /\ mr'[r].lines[j].returned <= mr[r].lines[j].issued
    PROVE  Handing!Store
BY SMTT(30) DEF Handing!Store, There, Asked

LEMMA CreateOrders ==
    ASSUME MRInv, NEW r \in Requests, NEW wanted \in WantedLists, CreateMaterialRequest(r, wanted)
    PROVE  Handing!Order
<1>1. /\ mr[r].status = "absent" /\ LinesFit(r) /\ MRTypeOK
      /\ mr' = [mr EXCEPT ![r] = [status |-> "requested",
                                  lines |-> [i \in DOMAIN wanted |->
                                     [part |-> wanted[i][1], requested |-> wanted[i][2],
                                      reserved |-> 0, issued |-> 0, returned |-> 0]]]]
  BY DEF CreateMaterialRequest, MRInv, RequestFits
<1>2. DOMAIN mr[r].lines = {}
  BY <1>1 DEF LinesFit
<1>3. \A q \in Requests \ {r} : mr'[q] = mr[q]
  BY <1>1 DEF MRTypeOK
<1>4. mr'[r].lines = [i \in DOMAIN wanted |->
                         [part |-> wanted[i][1], requested |-> wanted[i][2],
                          reserved |-> 0, issued |-> 0, returned |-> 0]]
  BY <1>1 DEF MRTypeOK
<1>5. ASSUME NEW j \in DOMAIN wanted PROVE wanted[j][2] > 0
  <2>1. PICK n \in 1 .. MaxLines : wanted \in [1..n -> Parts \X Pieces]
    BY DEF WantedLists
  <2>2. wanted[j][2] \in Pieces
    BY <2>1
  <2>3. wanted[j][2] \in Nat \ {0}
    BY <2>2, RequestsAssumption
  <2> QED BY <2>3
<1> QED BY <1>2, <1>3, <1>4, <1>5, HandingOrders

LEMMA IssueDelivers ==
    ASSUME MRInv, NEW r \in Requests, pending[r] # Nothing, NEW draw \in Draws(r), FinishIssue(r, draw)
    PROVE  Handing!Deliver
<1> DEFINE run == IssueRun(r, draw)
<1>1. /\ pending[r].kind = "issue" /\ run.ok
      /\ mr' = [mr EXCEPT ![r] = [status |-> "issued", lines |-> run.lines]]
  BY DEF FinishIssue
<1>2. LinesIssue(r, run, Len(mr[r].lines)) /\ MRTypeOK
  BY <1>1, IssueRunFits DEF IssueFits, MRInv
<1> HIDE DEF run
<1>3. mr'[r].lines = run.lines /\ \A q \in Requests \ {r} : mr'[q] = mr[q]
  BY <1>1, <1>2 DEF MRTypeOK
<1>4. DOMAIN run.lines = DOMAIN mr[r].lines
  BY <1>2 DEF LinesIssue, SameAsked
<1>5. ASSUME NEW j \in DOMAIN mr[r].lines
      PROVE  /\ run.lines[j].requested = mr[r].lines[j].requested
             /\ run.lines[j].returned = mr[r].lines[j].returned
             /\ run.lines[j].issued # mr[r].lines[j].issued => mr[r].lines[j].issued < run.lines[j].issued
             /\ run.lines[j].issued <= mr[r].lines[j].requested
  <2>1. run.lines[j] \in LineRows /\ mr[r].lines[j] \in LineRows
    BY <1>2, <1>4, LineType DEF LinesIssue, SameAsked
  <2>2. /\ run.lines[j].requested = mr[r].lines[j].requested
        /\ run.lines[j].returned = mr[r].lines[j].returned
        /\ run.lines[j].issued <= run.lines[j].requested /\ mr[r].lines[j].issued <= run.lines[j].issued
    BY <1>2, <1>4 DEF LinesIssue, SameAsked
  <2>3. run.lines[j].issued \in Nat /\ mr[r].lines[j].issued \in Nat
    BY <2>1, LineNumbers
  <2> QED BY <2>2, <2>3
<1> QED BY <1>3, <1>4, <1>5, HandingDelivers

LEMMA ReturnStores ==
    ASSUME MRInv, NEW r \in Requests, NEW at \in Places, NEW entries \in ReturnLists,
           ReturnMaterialRequest(r, at, entries)
    PROVE  Handing!Store
<1> DEFINE run == ReturnRun(r, at, entries)
<1>1. /\ run.ok /\ \A j \in DOMAIN entries : entries[j][1] \in DOMAIN mr[r].lines
      /\ mr' = [mr EXCEPT ![r] = [status |-> "returned", lines |-> run.lines]]
  BY DEF ReturnMaterialRequest
<1>2. ReturnFits(r, run) /\ MRTypeOK
  BY <1>1, ReturnRunFits DEF MRInv
<1> HIDE DEF run
<1>3. mr'[r].lines = run.lines /\ \A q \in Requests \ {r} : mr'[q] = mr[q]
  BY <1>1, <1>2 DEF MRTypeOK
<1>4. DOMAIN run.lines = DOMAIN mr[r].lines
  BY <1>2 DEF ReturnFits, SameAsked
<1>5. ASSUME NEW j \in DOMAIN mr[r].lines
      PROVE  /\ run.lines[j].requested = mr[r].lines[j].requested
             /\ run.lines[j].issued = mr[r].lines[j].issued
             /\ run.lines[j].returned # mr[r].lines[j].returned
                   => mr[r].lines[j].returned < run.lines[j].returned
             /\ run.lines[j].returned <= mr[r].lines[j].issued
  <2>1. run.lines[j] \in LineRows /\ mr[r].lines[j] \in LineRows
    BY <1>2, <1>4, LineType DEF ReturnFits, SameAsked
  <2>2. /\ run.lines[j].requested = mr[r].lines[j].requested
        /\ run.lines[j].issued = mr[r].lines[j].issued
        /\ mr[r].lines[j].returned <= run.lines[j].returned /\ run.lines[j].returned <= run.lines[j].issued
    BY <1>2, <1>4 DEF ReturnFits, SameAsked
  <2>3. run.lines[j].returned \in Nat /\ mr[r].lines[j].returned \in Nat
    BY <2>1, LineNumbers
  <2> QED BY <2>2, <2>3
<1> QED BY <1>3, <1>4, <1>5, HandingStores

\* The other steps of a request leave what its lines ask for, got and gave back.
LEMMA OthersStill ==
    ASSUME MRInv, NEW r \in Requests,
           \/ ApproveMaterialRequest(r)
           \/ \E at \in [DOMAIN mr[r].lines -> Places] : ReserveMaterialRequest(r, at)
           \/ BeginIssue(r) \/ BeginCancel(r) \/ FinishCancel(r) \/ GiveUp(r)
    PROVE  UNCHANGED Handing!flow
<1>1. MRTypeOK
  BY DEF MRInv
<1>2. CASE mr' = mr
  BY <1>2, HandingStill DEF LinesAlike
<1>3. CASE ApproveMaterialRequest(r)
  <2>1. mr' = [mr EXCEPT ![r].status = "approved"]
    BY <1>3 DEF ApproveMaterialRequest
  <2>2. mr'[r].lines = mr[r].lines /\ \A q \in Requests \ {r} : mr'[q] = mr[q]
    BY <1>1, <2>1 DEF MRTypeOK
  <2> QED BY <2>2, HandingStill DEF LinesAlike
<1>4. ASSUME NEW at \in [DOMAIN mr[r].lines -> Places], ReserveMaterialRequest(r, at)
      PROVE  UNCHANGED Handing!flow
  <2> DEFINE run == ReserveRun(r, at)
  <2>1. run.ok /\ mr' = [mr EXCEPT ![r] = [status |-> "reserved", lines |-> run.lines]]
    BY <1>4 DEF ReserveMaterialRequest
  <2>2. ReserveFits(r, run, Len(mr[r].lines))
    BY <2>1, ReserveRunFits
  <2> HIDE DEF run
  <2>3. mr'[r].lines = run.lines /\ \A q \in Requests \ {r} : mr'[q] = mr[q]
    BY <1>1, <2>1 DEF MRTypeOK
  <2>4. LinesAlike(r)
    <3>1. /\ DOMAIN run.lines = DOMAIN mr[r].lines
          /\ \A j \in DOMAIN run.lines :
                /\ run.lines[j].requested = mr[r].lines[j].requested
                /\ run.lines[j].issued = mr[r].lines[j].issued
                /\ run.lines[j].returned = mr[r].lines[j].returned
      BY Zenon, <2>2 DEF ReserveFits, SameAsked
    <3> QED BY Zenon, <2>3, <3>1 DEF LinesAlike
  <2>5. \A q \in Requests \ {r} : LinesAlike(q)
    BY Zenon, <2>3 DEF LinesAlike
  <2> QED BY Zenon, <2>4, <2>5, HandingStill
<1>5. CASE FinishCancel(r)
  <2> DEFINE lines == mr[r].lines
             new == [i \in DOMAIN lines |-> [lines[i] EXCEPT !.reserved = 0]]
  <2>1. mr' = [mr EXCEPT ![r] = [status |-> "cancelled", lines |-> new]]
    BY <1>5 DEF FinishCancel
  <2>2. mr'[r].lines = new /\ \A q \in Requests \ {r} : mr'[q] = mr[q]
    BY <1>1, <2>1 DEF MRTypeOK
  <2>3. ASSUME NEW j \in DOMAIN lines
        PROVE  new[j].requested = lines[j].requested /\ new[j].issued = lines[j].issued
               /\ new[j].returned = lines[j].returned
    <3> DEFINE line == lines[j]
               is == new[j]
    <3>1. line \in LineRows /\ is = [line EXCEPT !.reserved = 0]
      BY <1>1, LineType
    <3> HIDE DEF line, is
    <3>2. is.requested = line.requested /\ is.issued = line.issued /\ is.returned = line.returned
      BY <3>1, LineReserved
    <3> QED BY <3>2 DEF line, is
  <2>4. DOMAIN new = DOMAIN lines
    OBVIOUS
  <2> HIDE DEF new
  <2> QED BY <2>2, <2>3, <2>4, HandingStill DEF LinesAlike
<1> QED BY <1>2, <1>3, <1>4, <1>5 DEF BeginIssue, BeginCancel, GiveUp

LEMMA HandingStep ==
    MRInv /\ [MRNext]_mrVars => [Handing!Order \/ Handing!Deliver \/ Handing!Store]_(Handing!flow)
<1> SUFFICES ASSUME MRInv, [MRNext]_mrVars
             PROVE  Handing!Order \/ Handing!Deliver \/ Handing!Store \/ UNCHANGED Handing!flow
  OBVIOUS
<1>1. CASE mr' = mr
  BY <1>1, HandingStill DEF LinesAlike
<1>2. CASE StockNext \/ UNCHANGED mrVars
  BY Zenon, <1>1, <1>2 DEF StockNext, ReceiveGoods, ReserveByHand, ReleaseReservation, mrVars
<1>3. CASE RequestNext
  <2>1. PICK r \in Requests :
           \/ \E wanted \in WantedLists : CreateMaterialRequest(r, wanted)
           \/ ApproveMaterialRequest(r)
           \/ \E at \in [DOMAIN mr[r].lines -> Places] : ReserveMaterialRequest(r, at)
           \/ BeginIssue(r)
           \/ pending[r] # Nothing /\ \E draw \in Draws(r) : FinishIssue(r, draw)
           \/ \E l \in Places, entries \in ReturnLists : ReturnMaterialRequest(r, l, entries)
           \/ BeginCancel(r)
           \/ FinishCancel(r)
           \/ GiveUp(r)
    BY <1>3 DEF RequestNext
  <2> QED BY <2>1, CreateOrders, IssueDelivers, ReturnStores, OthersStill
<1> QED BY <1>2, <1>3 DEF MRNext

LEMMA HandingStart == MRInit => Handing!Start
<1> SUFFICES ASSUME MRInit PROVE Handing!Start
  BY ZenonT(60)
<1>1. \A r \in Requests : DOMAIN mr[r].lines = {}
  BY DEF MRInit
<1> QED BY <1>1 DEF Handing!Start, There, Asked

\* MaterialRequests implements OrderFlow: its steps ask for, hand out, take back or leave
\* the quantities of the lines alone.
THEOREM LinesFlow == MRSpec => ImplementsFlow
<1>1. MRSpec => [][Handing!Order \/ Handing!Deliver \/ Handing!Store]_(Handing!flow)
  BY MRAlways, HandingStep, PTL DEF MRSpec
<1> QED BY <1>1, HandingStart, PTL DEF MRSpec, ImplementsFlow, Handing!FlowSpec
=============================================================================

---------------------------- MODULE MCPurchasing ----------------------------
(***************************************************************************)
(* An instance of Purchasing for TLC.                                      *)
(***************************************************************************)
EXTENDS Purchasing, FiniteSetsExt

CONSTANTS r1, f1, f2, q1, q2, o1, o2, d1, d2, l1, l2

\* Rows of a kind are created in the order of their names.
InOrder ==
    /\ rfq[f1].status = "absent" => rfq[f2].status = "absent"
    /\ order[o1].status = "absent" => order[o2].status = "absent"
    /\ receipt[d1].status = "absent" => receipt[d2].status = "absent"

\* One unit on each of two lines, or up to two on the first.
SmallRequests ==
    \A r \in PurchaseRequests :
        LET need == request[r].need
        IN  /\ MapThenSumSet(LAMBDA l : need[l], DOMAIN need) <= 2
            /\ l2 \in DOMAIN need => l1 \in DOMAIN need

\* The order of the entries of a receipt makes no difference.
SortedEntries ==
    \A d \in Receipts : ~\E i, j \in DOMAIN receipt[d].entries :
        i < j /\ receipt[d].entries[i].line = l2 /\ receipt[d].entries[j].line = l1
=============================================================================

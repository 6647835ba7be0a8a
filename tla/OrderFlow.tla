----------------------------- MODULE OrderFlow -----------------------------
(***************************************************************************)
(* What moving goods promises, whatever the handlers do in between: goods  *)
(* are ordered once per item, no more arrives than was ordered, and no     *)
(* more is put into stock than has arrived.  Nothing is ever taken back.   *)
(* Purchasing implements it, and so does MaterialRequests, whose lines are *)
(* asked for, handed out and given back.                                   *)
(***************************************************************************)
EXTENDS Integers

CONSTANTS Items      \* the lines of all orders, or of all requests
VARIABLES ordered,   \* quantity ordered of each item, 0 before it is ordered
          delivered, \* quantity that has arrived
          stored     \* quantity put into stock, serviceable or in quarantine

flow == <<ordered, delivered, stored>>

Start == /\ ordered = [i \in Items |-> 0]
         /\ delivered = [i \in Items |-> 0]
         /\ stored = [i \in Items |-> 0]

\* An order fixes the quantities of items nothing was ordered of.
Order == /\ \A i \in Items : ordered'[i] # ordered[i] => ordered[i] = 0 /\ ordered'[i] > 0
         /\ ordered' = [i \in Items |-> ordered'[i]]
         /\ UNCHANGED <<delivered, stored>>

\* A delivery brings several items at once, none beyond what was ordered.
Deliver == /\ delivered' = [i \in Items |-> delivered'[i]]
           /\ \A i \in Items : delivered'[i] # delivered[i] =>
                  delivered[i] < delivered'[i] /\ delivered'[i] <= ordered[i]
           /\ UNCHANGED <<ordered, stored>>

\* Only what has arrived is put into stock.
Store == /\ stored' = [i \in Items |-> stored'[i]]
         /\ \A i \in Items : stored'[i] # stored[i] =>
                stored[i] < stored'[i] /\ stored'[i] <= delivered[i]
         /\ UNCHANGED <<ordered, delivered>>

FlowSpec == Start /\ [][Order \/ Deliver \/ Store]_flow
=============================================================================

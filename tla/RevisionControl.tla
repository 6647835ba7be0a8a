-------------------------- MODULE RevisionControl --------------------------
(***************************************************************************)
(* What revision control promises, for technical publications              *)
(* (publications/service.py) and for maintenance programs                  *)
(* (planning/service.py): a revision belongs to one document for good, a   *)
(* document has at most one revision in force, once it has one it is never *)
(* again without until it is closed, and a closed document is not revised. *)
(***************************************************************************)
CONSTANTS Documents, Revisions

VARIABLES owner,   \* the document of a revision, as a set of at most one
          inForce, \* the revisions of a document in force
          closed   \* documents that are closed

vars == <<owner, inForce, closed>>

Init ==
    /\ owner = [r \in Revisions |-> {}]
    /\ inForce = [d \in Documents |-> {}]
    /\ closed = {}

-----------------------------------------------------------------------------
\* A new revision, not in force.
Add(d, r) ==
    /\ d \notin closed
    /\ owner[r] = {}
    /\ owner' = [owner EXCEPT ![r] = {d}]
    /\ UNCHANGED <<inForce, closed>>

\* A new revision that is in force at once, in place of the one before.
AddInForce(d, r) ==
    /\ d \notin closed
    /\ owner[r] = {}
    /\ owner' = [owner EXCEPT ![r] = {d}]
    /\ inForce' = [inForce EXCEPT ![d] = {r}]
    /\ UNCHANGED closed

\* A revision of the document takes the place of the one before.
PutInForce(d, r) ==
    /\ d \notin closed
    /\ owner[r] = {d}
    /\ inForce' = [inForce EXCEPT ![d] = {r}]
    /\ UNCHANGED <<owner, closed>>

Close(d) ==
    /\ d \notin closed
    /\ closed' = closed \cup {d}
    /\ inForce' = [inForce EXCEPT ![d] = {}]
    /\ UNCHANGED owner

Next ==
    \/ \E d \in Documents, r \in Revisions : Add(d, r) \/ AddInForce(d, r) \/ PutInForce(d, r)
    \/ \E d \in Documents : Close(d)

Spec == Init /\ [][Next]_vars
=============================================================================

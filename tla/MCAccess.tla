------------------------------ MODULE MCAccess ------------------------------
(***************************************************************************)
(* An instance of Access for TLC.                                          *)
(***************************************************************************)
EXTENDS Access, TLC

CONSTANTS ann, olga, rita, nils, p1, p2, east, west, s1, s2, a1, a2, i1, w1, w2

RightsRoles == ann :> "Administrator" @@ olga :> "Operator"
CaseRoles == ann :> "Administrator" @@ olga :> "Operator" @@ rita :> "Reviewer"
RightsCalls ==
    {"update_session_context", "admin_change_role", "admin_change_password",
     "admin_create_user", "create_org_user", "create_membership"}
CaseCalls ==
    {"create_membership", "create_incident", "create_approval_request", "approve_request",
     "update_incident_status", "grant_temporary_access"}
MCGrants == {{"approval.review"}}
MCRoles == {"Administrator", "Viewer"}

\* What follows the creation of a user is explored with that change alone and one session
\* at a time.
CreatedAlone ==
    account[nils] # None \/ (\E p \in Processes : directory[p][nils] # None)
    => changes = 1 /\ Cardinality({s \in Sessions : Live(s)}) <= 1

MCSymmetry ==
    Permutations(Workers) \cup Permutations(Sessions) \cup Permutations(Approvals)
        \cup Permutations(Processes)
=============================================================================

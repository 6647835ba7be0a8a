--------------------------- MODULE MCCertification ---------------------------
(***************************************************************************)
(* Instances of Certification for TLC.  The staff is the seeded one of     *)
(* personnel/service.py ensure_seed_data: E-1001 (mechanic, "operator"),    *)
(* E-2001 (ACA, "reviewer") and E-3001 (inspector, linked to "admin").      *)
(***************************************************************************)
EXTENDS Certification, TLC

CONSTANTS t1, t2, mechanic, inspector, aca, operator, reviewer, admin

MCStaff ==
    [e \in Employees |->
        IF e = mechanic
        THEN [active |-> TRUE, user |-> operator, holds |-> {"licence", "stamp"}]
        ELSE IF e = aca
        THEN [active |-> TRUE, user |-> reviewer,
              holds |-> {"licence", "independent_inspection", "aca"}]
        ELSE [active |-> TRUE, user |-> admin,
              holds |-> {"licence", "independent_inspection"}]]

MCSymmetry == Permutations(Tasks)
=============================================================================

---------------------------- MODULE AccessProofs ----------------------------
(***************************************************************************)
(* Theorems about Access, for any number of processes, users, sessions and *)
(* requests under way: whoever acts in an organization has a role there,   *)
(* an approval is used once, and asking and reviewing, planning and        *)
(* releasing stay with different roles over the whole table of Routes.     *)
(***************************************************************************)
EXTENDS Access, FiniteSetTheorems, TLAPS

\* A request that works with a copy of its session.
CallRows ==
    [call : Calls, at : Processes, id : Sessions, user : Users, role : Roles,
     org : Organizations, own : BOOLEAN]

\* The role of a session, or of a copy of it, is one of its user in its organization.
Belongs(row) == row.role = "Administrator" \/ row.role \in members[row.user][row.org]

Spent(i) ==
    {a \in Approvals : approval[a] # None /\ approval[a].consumed /\ approval[a].target = i}

-----------------------------------------------------------------------------
(* What requests work with                                                 *)

LEMMA Copies ==
    ASSUME AccessTypeOK, NEW w \in Workers, work[w] # None
    PROVE  /\ work[w].at \in Processes /\ work[w].user \in Users /\ work[w].role \in Roles
           /\ work[w].call \notin {"login", "set_role"} => work[w] \in CallRows
BY DEF AccessTypeOK, RequestRows, CallRows

\* effective_role: a role of the organization that was entered, unless an administrator's.
LEMMA Effective ==
    ASSUME AccessTypeOK, NEW p \in Processes, NEW u \in Users, NEW own \in Roles,
           NEW o \in Organizations
    PROVE  /\ EffectiveRole(p, u, own, o) \in Roles
           /\ GlobalRole(p, u, own) \in Roles
           /\ MayEnter(p, u, own, o) =>
                 \/ EffectiveRole(p, u, own, o) = "Administrator"
                 \/ EffectiveRole(p, u, own, o) \in members[u][o]
<1>1. members[u][o] \subseteq MembershipRoles /\ directory[p][u] \in Roles \cup {None}
  BY DEF AccessTypeOK
<1>2. QED
  BY <1>1 DEF EffectiveRole, GlobalRole, MayEnter, RolesIn, BestRole, MembershipRoles, Roles

-----------------------------------------------------------------------------
(* Types                                                                   *)

LEMMA SessionTypes ==
    ASSUME AccessTypeOK, SessionNext
    PROVE  AccessTypeOK'
<1>1. /\ account \in [Users -> Roles \cup {None}]
      /\ directory \in [Processes -> [Users -> Roles \cup {None}]]
      /\ session \in [Sessions -> {None, Gone} \cup SessionRows]
      /\ work \in [Workers -> RequestRows] /\ None \in RequestRows
  BY DEF AccessTypeOK, RequestRows
<1>2. ASSUME NEW w \in Workers, NEW p \in Processes, NEW u \in Users, Authenticate(w, p, u)
      PROVE  AccessTypeOK'
  <2>1. account[u] \in Roles
    BY <1>1, <1>2 DEF Authenticate
  <2> DEFINE new == [call |-> "login", at |-> p, user |-> u, role |-> account[u]]
  <2>2. new \in RequestRows
    BY <2>1 DEF RequestRows
  <2> HIDE DEF new
  <2>3. work' = [work EXCEPT ![w] = new]
    BY <1>2 DEF Authenticate, new
  <2>4. directory' \in [Processes -> [Users -> Roles \cup {None}]]
    BY <1>1, <1>2, <2>1 DEF Authenticate
  <2>5. QED
    BY <1>1, <1>2, <2>2, <2>3, <2>4 DEF Authenticate, AccessTypeOK, cases
<1>3. ASSUME NEW p \in Processes, FailLogin(p)
      PROVE  AccessTypeOK'
  BY <1>1, <1>3 DEF FailLogin, AccessTypeOK, cases
<1>4. ASSUME NEW w \in Workers, NEW s \in Sessions, OpenSession(w, s)
      PROVE  AccessTypeOK'
  <2> DEFINE c == work[w]
  <2>1. c.at \in Processes /\ c.user \in Users /\ c.role \in Roles
    BY <1>4, Copies DEF OpenSession
  <2>2. PICK o \in Organizations : session' = [session EXCEPT ![s] =
            [user |-> c.user, org |-> o, role |-> EffectiveRole(c.at, c.user, c.role, o)]]
    BY <1>4, AccessAssumption DEF OpenSession, DefaultOrganizations
  <2>3. EffectiveRole(c.at, c.user, c.role, o) \in Roles
    BY <2>1, Effective
  <2>4. session' \in [Sessions -> {None, Gone} \cup SessionRows]
    BY <1>1, <2>1, <2>2, <2>3 DEF SessionRows
  <2>5. QED
    BY <1>1, <1>4, <2>4 DEF OpenSession, AccessTypeOK, cases, rights
<1>5. ASSUME NEW s \in Sessions, EndSession(s)
      PROVE  AccessTypeOK'
  BY <1>1, <1>5 DEF EndSession, AccessTypeOK, cases, rights
<1>6. ASSUME NEW p \in Processes, Restart(p)
      PROVE  AccessTypeOK'
  BY <1>1, <1>6 DEF Restart, AccessTypeOK, cases
<1>7. ASSUME NEW w \in Workers, NEW p \in Processes, NEW s \in Sessions, NEW call \in Calls,
             Begin(w, p, s, call)
      PROVE  AccessTypeOK'
  <2> DEFINE own == Passes(RouteOf(call).guard, session[s].role, {}, None)
             new == [call |-> call, at |-> p, id |-> s, user |-> session[s].user,
                     role |-> session[s].role, org |-> session[s].org, own |-> own]
  <2>1. session[s] \in SessionRows
    BY <1>1, <1>7 DEF Begin, Live
  <2>2. own \in BOOLEAN
    BY DEF Passes
  <2> HIDE DEF own
  <2>3. new \in RequestRows
    BY <2>1, <2>2 DEF RequestRows, SessionRows
  <2> HIDE DEF new
  <2>4. work' = [work EXCEPT ![w] = new]
    BY <1>7 DEF Begin, new, own
  <2>5. QED
    BY <1>1, <1>7, <2>3, <2>4 DEF Begin, AccessTypeOK, cases, rights
<1>8. ASSUME NEW w \in Workers, Refuse(w)
      PROVE  AccessTypeOK'
  BY <1>1, <1>8 DEF Refuse, Done, AccessTypeOK, cases, rights
<1>9. ASSUME NEW w \in Workers, NEW o \in Organizations, SwitchContext(w, o)
      PROVE  AccessTypeOK'
  <2> DEFINE c == work[w]
             own == GlobalRole(c.at, c.user, c.role)
             role == EffectiveRole(c.at, c.user, own, o)
  <2>1. c \in CallRows
    BY <1>9, Copies DEF SwitchContext, Serves
  <2>2. c.at \in Processes /\ c.user \in Users /\ c.role \in Roles /\ c.id \in Sessions
    BY <2>1 DEF CallRows
  <2>3. own \in Roles
    BY <2>2, Effective
  <2> HIDE DEF own
  <2>4. role \in Roles
    BY <2>2, <2>3, Effective
  <2>5. session' = [session EXCEPT ![c.id] = [user |-> c.user, org |-> o, role |-> role]]
    BY <1>9 DEF SwitchContext, own
  <2> HIDE DEF role
  <2>6. session' \in [Sessions -> {None, Gone} \cup SessionRows]
    BY <1>1, <2>2, <2>4, <2>5 DEF SessionRows
  <2>7. QED
    BY <1>1, <1>9, <2>6 DEF SwitchContext, Done, AccessTypeOK, cases, rights
<1>10. QED
  BY <1>2, <1>3, <1>4, <1>5, <1>6, <1>7, <1>8, <1>9 DEF SessionNext

LEMMA RightsTypes ==
    ASSUME AccessTypeOK, RightsNext
    PROVE  AccessTypeOK'
<1>1. /\ account \in [Users -> Roles \cup {None}]
      /\ directory \in [Processes -> [Users -> Roles \cup {None}]]
      /\ members \in [Users -> [Organizations -> SUBSET MembershipRoles]]
      /\ grants \in [Users -> [Organizations -> SUBSET GrantChoices]]
      /\ session \in [Sessions -> {None, Gone} \cup SessionRows]
      /\ work \in [Workers -> RequestRows] /\ None \in RequestRows
      /\ changes \in 0 .. MaxChanges /\ MaxChanges \in Nat
      /\ RoleChoices \subseteq Roles
  BY AccessAssumption DEF AccessTypeOK, RequestRows
<1>2. ASSUME NEW w \in Workers, NEW u \in Users, ChangePassword(w, u)
      PROVE  AccessTypeOK'
  <2>1. account[u] \in Roles
    BY <1>1, <1>2 DEF ChangePassword
  <2>2. work[w].at \in Processes
    BY <1>2, Copies DEF ChangePassword, Serves
  <2>3. QED
    BY <1>1, <1>2, <2>1, <2>2 DEF ChangePassword, Done, AccessTypeOK, cases
<1>3. ASSUME NEW w \in Workers, NEW u \in Users, NEW role \in RoleChoices, CreateUser(w, u, role)
      PROVE  AccessTypeOK'
  <2>1. work[w].at \in Processes
    BY <1>3, Copies DEF CreateUser, Serves
  <2>2. role \in Roles
    BY <1>1
  <2>3. account' \in [Users -> Roles \cup {None}]
    BY <1>1, <1>3, <2>2 DEF CreateUser
  <2>4. directory' \in [Processes -> [Users -> Roles \cup {None}]]
    BY <1>1, <1>3, <2>1, <2>2 DEF CreateUser
  <2>5. changes' \in 0 .. MaxChanges
    BY <1>1, <1>3 DEF CreateUser
  <2>6. QED
    BY <1>1, <1>3, <2>3, <2>4, <2>5 DEF CreateUser, Done, AccessTypeOK, cases
<1>4. ASSUME NEW w \in Workers, NEW u \in Users, CreateOrgUser(w, u)
      PROVE  AccessTypeOK'
  BY <1>1, <1>4 DEF CreateOrgUser, Done, AccessTypeOK, cases, Roles
<1>5. ASSUME NEW w \in Workers, NEW u \in Users, NEW role \in RoleChoices, CheckRole(w, u, role)
      PROVE  AccessTypeOK'
  <2> DEFINE new == [call |-> "set_role", at |-> work[w].at, user |-> u, role |-> role]
  <2>1. work[w].at \in Processes
    BY <1>5, Copies DEF CheckRole, Serves
  <2>2. new \in RequestRows
    BY <1>1, <2>1 DEF RequestRows
  <2> HIDE DEF new
  <2>3. work' = [work EXCEPT ![w] = new]
    BY <1>5 DEF CheckRole, new
  <2>4. changes' \in 0 .. MaxChanges
    BY <1>1, <1>5 DEF CheckRole
  <2>5. QED
    BY <1>1, <1>5, <2>2, <2>3, <2>4 DEF CheckRole, AccessTypeOK, cases
<1>6. ASSUME NEW w \in Workers, WriteRole(w)
      PROVE  AccessTypeOK'
  <2>1. work[w].at \in Processes /\ work[w].user \in Users /\ work[w].role \in Roles
    BY <1>6, Copies DEF WriteRole, Serves
  <2>2. /\ account' \in [Users -> Roles \cup {None}]
        /\ directory' \in [Processes -> [Users -> Roles \cup {None}]]
    BY <1>1, <1>6, <2>1 DEF WriteRole
  <2>3. QED
    BY <1>1, <1>6, <2>2 DEF WriteRole, Done, AccessTypeOK, cases
<1>7. ASSUME NEW w \in Workers, NEW u \in Users, NEW o \in Organizations,
             NEW role \in RoleChoices, CreateMembership(w, u, o, role)
      PROVE  AccessTypeOK'
  <2>1. members' \in [Users -> [Organizations -> SUBSET MembershipRoles]]
    BY <1>1, <1>7 DEF CreateMembership
  <2>2. QED
    BY <1>1, <1>7, <2>1 DEF CreateMembership, Done, AccessTypeOK, cases
<1>8. ASSUME NEW w \in Workers, NEW u \in Users, NEW o \in Organizations,
             NEW permissions \in GrantChoices, GrantTemporaryAccess(w, u, o, permissions)
      PROVE  AccessTypeOK'
  <2>1. grants' \in [Users -> [Organizations -> SUBSET GrantChoices]]
    BY <1>1, <1>8 DEF GrantTemporaryAccess
  <2>2. QED
    BY <1>1, <1>8, <2>1 DEF GrantTemporaryAccess, Done, AccessTypeOK, cases
<1>9. ASSUME NEW u \in Users, NEW o \in Organizations, NEW permissions \in GrantChoices,
             AccessEnds(u, o, permissions)
      PROVE  AccessTypeOK'
  <2>1. grants' \in [Users -> [Organizations -> SUBSET GrantChoices]]
    BY <1>1, <1>9 DEF AccessEnds
  <2>2. QED
    BY <1>1, <1>9, <2>1 DEF AccessEnds, AccessTypeOK, cases
<1>10. QED
  BY <1>2, <1>3, <1>4, <1>5, <1>6, <1>7, <1>8, <1>9 DEF RightsNext

LEMMA CaseTypes ==
    ASSUME AccessTypeOK, CaseNext
    PROVE  AccessTypeOK'
<1>1. /\ work \in [Workers -> RequestRows] /\ None \in RequestRows
      /\ approval \in [Approvals -> {None} \cup ApprovalRows]
      /\ incident \in [Incidents -> {None} \cup IncidentRows]
      /\ settled \in [Incidents -> Nat]
  BY DEF AccessTypeOK, RequestRows
<1>2. ASSUME NEW w \in Workers, NEW i \in Incidents, CreateIncident(w, i)
      PROVE  AccessTypeOK'
  <2>1. work[w].org \in Organizations
    BY <1>2, Copies DEF CreateIncident, Serves, CallRows
  <2>2. incident' \in [Incidents -> {None} \cup IncidentRows]
    BY <1>1, <1>2, <2>1 DEF CreateIncident, IncidentRows
  <2>3. QED
    BY <1>1, <1>2, <2>2 DEF CreateIncident, Done, AccessTypeOK, rights
<1>3. ASSUME NEW w \in Workers, NEW a \in Approvals, NEW target \in Incidents \cup {None},
             RequestApproval(w, a, target)
      PROVE  AccessTypeOK'
  <2> DEFINE signature == Signature(work[w])
             new == [status |-> "pending", consumed |-> FALSE, org |-> work[w].org,
                     target |-> target, asker |-> signature, reviewer |-> None]
  <2>1. work[w] \in CallRows
    BY <1>3, Copies DEF RequestApproval, Serves
  <2>2. work[w].org \in Organizations /\ signature \in Signatures
    BY <2>1 DEF CallRows, Signature, Signatures
  <2> HIDE DEF signature
  <2>3. new \in ApprovalRows
    BY <2>2 DEF ApprovalRows
  <2> HIDE DEF new
  <2>4. approval' = [approval EXCEPT ![a] = new]
    BY <1>3 DEF RequestApproval, new, signature
  <2>5. QED
    BY ZenonT(60), <1>1, <1>3, <2>3, <2>4 DEF RequestApproval, Done, AccessTypeOK, rights
<1>4. ASSUME NEW w \in Workers, NEW a \in Approvals, ApproveRequest(w, a)
      PROVE  AccessTypeOK'
  <2> DEFINE signature == Signature(work[w])
  <2>1. work[w] \in CallRows
    BY <1>4, Copies DEF ApproveRequest, Serves
  <2>2. signature \in Signatures
    BY <2>1 DEF CallRows, Signature, Signatures
  <2>3. approval[a] \in ApprovalRows
    BY <1>1, <1>4 DEF ApproveRequest, InScope
  <2> HIDE DEF signature
  <2>4. approval' = [approval EXCEPT ![a] =
                       [@ EXCEPT !.status = "approved", !.reviewer = signature]]
    BY <1>1, <1>4 DEF ApproveRequest, signature
  <2>5. [approval[a] EXCEPT !.status = "approved", !.reviewer = signature] \in ApprovalRows
    BY <2>2, <2>3 DEF ApprovalRows
  <2>6. approval' \in [Approvals -> {None} \cup ApprovalRows]
    BY <1>1, <2>4, <2>5
  <2>7. QED
    BY <1>1, <1>4, <2>6 DEF ApproveRequest, Done, AccessTypeOK, rights
<1>5. ASSUME NEW w \in Workers, NEW i \in Incidents, NEW status \in {"open", "resolved"},
             UpdateStatus(w, i, status)
      PROVE  /\ incident' \in [Incidents -> {None} \cup IncidentRows]
             /\ work' \in [Workers -> RequestRows]
             /\ UNCHANGED <<rights, session>>
  <2>1. incident[i] \in IncidentRows
    BY <1>1, <1>5 DEF UpdateStatus
  <2>2. [incident[i] EXCEPT !.status = status] \in IncidentRows
    BY <2>1 DEF IncidentRows
  <2>3. QED
    BY <1>1, <1>5, <2>2 DEF UpdateStatus, Done
<1>6. ASSUME NEW w \in Workers, NEW i \in Incidents, NEW status \in {"open", "resolved"},
             UpdateIncident(w, i, status)
      PROVE  AccessTypeOK'
  BY <1>5, <1>6 DEF UpdateIncident, AccessTypeOK, rights
<1>7. ASSUME NEW w \in Workers, NEW i \in Incidents, NEW a \in Approvals, ResolveIncident(w, i, a)
      PROVE  AccessTypeOK'
  <2>1. approval[a] \in ApprovalRows
    BY <1>1, <1>7 DEF ResolveIncident, Usable, InScope
  <2>2. [approval[a] EXCEPT !.consumed = TRUE] \in ApprovalRows
    BY <2>1 DEF ApprovalRows
  <2>3. /\ approval' \in [Approvals -> {None} \cup ApprovalRows]
        /\ settled' \in [Incidents -> Nat]
    BY <1>1, <1>7, <2>2 DEF ResolveIncident
  <2>4. UpdateStatus(w, i, "resolved")
    BY <1>7 DEF ResolveIncident
  <2>5. QED
    BY <1>5, <2>3, <2>4 DEF AccessTypeOK, rights
<1>8. QED
  BY <1>2, <1>3, <1>4, <1>6, <1>7 DEF CaseNext

LEMMA TypesKept == AccessTypeOK /\ [AccessNext]_accessVars => AccessTypeOK'
<1>1. AccessTypeOK /\ UNCHANGED accessVars => AccessTypeOK'
  BY DEF AccessTypeOK, accessVars
<1>2. QED
  BY <1>1, SessionTypes, RightsTypes, CaseTypes DEF AccessNext

-----------------------------------------------------------------------------
(* Roles of the tenant                                                     *)

\* Memberships are never taken away, so that what belonged still does.
LEMMA TenantStays ==
    ASSUME AccessTypeOK, AccessTypeOK', RoleOfTheTenant,
           \A u \in Users, o \in Organizations : members[u][o] \subseteq members'[u][o],
           \A s \in Sessions :
              \/ session'[s] \in {session[s], None, Gone}
              \/ session'[s] \in SessionRows /\ Belongs(session'[s]),
           \A w \in Workers :
              \/ work'[w] \in {work[w], None}
              \/ "org" \notin DOMAIN work'[w]
              \/ work'[w] \in CallRows /\ Belongs(work'[w])
    PROVE  RoleOfTheTenant'
<1>1. ASSUME NEW s \in Sessions, Live(s)', session'[s].role # "Administrator"
      PROVE  session'[s].role \in members'[session'[s].user][session'[s].org]
  <2>1. session'[s] \in SessionRows
    BY <1>1 DEF AccessTypeOK, Live
  <2>2. session'[s].role \in members[session'[s].user][session'[s].org]
    BY <1>1 DEF RoleOfTheTenant, Belongs, Live
  <2>3. QED  BY <2>1, <2>2 DEF SessionRows
<1>2. ASSUME NEW w \in Workers, work'[w] # None, "org" \in DOMAIN work'[w],
             work'[w].role # "Administrator"
      PROVE  work'[w].role \in members'[work'[w].user][work'[w].org]
  <2>1. work'[w] \in CallRows
    <3> DEFINE row == work'[w]
    <3>1. row \in [call : {"login", "set_role"}, at : Processes, user : Users, role : Roles]
          \/ row \in CallRows
      BY <1>2 DEF AccessTypeOK, RequestRows, CallRows
    <3>2. "org" \in DOMAIN row
      BY <1>2
    <3> HIDE DEF row
    <3>3. row \in CallRows
      BY <3>1, <3>2
    <3>4. QED  BY <3>3 DEF row
  <2>2. work'[w].role \in members[work'[w].user][work'[w].org]
    BY <1>2 DEF RoleOfTheTenant, Belongs
  <2>3. QED  BY <2>1, <2>2 DEF CallRows
<1>3. QED  BY <1>1, <1>2 DEF RoleOfTheTenant

LEMMA TenantSessions ==
    ASSUME AccessTypeOK, AccessTypeOK', RoleOfTheTenant, SessionNext
    PROVE  RoleOfTheTenant'
<1>1. session \in [Sessions -> {None, Gone} \cup SessionRows] /\ work \in [Workers -> RequestRows]
  BY DEF AccessTypeOK
<1>2. members' = members
  BY Zenon DEF SessionNext, Authenticate, FailLogin, OpenSession, EndSession, Restart, Begin, Refuse,
         SwitchContext, rights
<1>3. ASSUME NEW w \in Workers, NEW p \in Processes, NEW u \in Users, Authenticate(w, p, u)
      PROVE  RoleOfTheTenant'
  <2>1. "org" \notin DOMAIN [call |-> "login", at |-> p, user |-> u, role |-> account[u]]
    OBVIOUS
  <2>2. QED  BY <1>1, <1>2, <1>3, <2>1, TenantStays DEF Authenticate
<1>4. ASSUME NEW p \in Processes, FailLogin(p)
      PROVE  RoleOfTheTenant'
  BY <1>2, <1>4, TenantStays DEF FailLogin
<1>5. ASSUME NEW w \in Workers, NEW s \in Sessions, OpenSession(w, s)
      PROVE  RoleOfTheTenant'
  <2> DEFINE c == work[w]
  <2>1. c.at \in Processes /\ c.user \in Users /\ c.role \in Roles
    BY <1>5, Copies DEF OpenSession
  <2>2. PICK o \in DefaultOrganizations(c.at, c.user, c.role) : session' = [session EXCEPT ![s] =
            [user |-> c.user, org |-> o, role |-> EffectiveRole(c.at, c.user, c.role, o)]]
    BY <1>5 DEF OpenSession
  <2>3. o \in Organizations /\ MayEnter(c.at, c.user, c.role, o)
    BY <2>2, AccessAssumption DEF DefaultOrganizations, MayEnter
  <2> DEFINE new == [user |-> c.user, org |-> o, role |-> EffectiveRole(c.at, c.user, c.role, o)]
  <2>4. new \in SessionRows /\ Belongs(new)
    BY <2>1, <2>3, Effective DEF SessionRows, Belongs
  <2> HIDE DEF new
  <2>5. \A r \in Sessions : session'[r] = IF r = s THEN new ELSE session[r]
    BY <1>1, <2>2 DEF new
  <2>6. QED  BY <1>1, <1>2, <1>5, <2>4, <2>5, TenantStays DEF OpenSession
<1>6. ASSUME NEW s \in Sessions, EndSession(s)
      PROVE  RoleOfTheTenant'
  BY <1>1, <1>2, <1>6, TenantStays DEF EndSession
<1>7. ASSUME NEW p \in Processes, Restart(p)
      PROVE  RoleOfTheTenant'
  BY <1>2, <1>7, TenantStays DEF Restart
<1>8. ASSUME NEW w \in Workers, NEW p \in Processes, NEW s \in Sessions, NEW call \in Calls,
             Begin(w, p, s, call)
      PROVE  RoleOfTheTenant'
  <2> DEFINE own == Passes(RouteOf(call).guard, session[s].role, {}, None)
             new == [call |-> call, at |-> p, id |-> s, user |-> session[s].user,
                     role |-> session[s].role, org |-> session[s].org, own |-> own]
  <2>1. session[s] \in SessionRows /\ Live(s)
    BY <1>1, <1>8 DEF Begin, Live
  <2>2. own \in BOOLEAN
    BY DEF Passes
  <2> HIDE DEF own
  <2>3. new \in CallRows
    BY <2>1, <2>2 DEF CallRows, SessionRows
  <2>4. Belongs(new)
    BY <2>1 DEF RoleOfTheTenant, Belongs
  <2> HIDE DEF new
  <2>5. work' = [work EXCEPT ![w] = new] /\ session' = session
    BY <1>8 DEF Begin, new, own
  <2>6. QED  BY <1>1, <1>2, <2>3, <2>4, <2>5, TenantStays
<1>9. ASSUME NEW w \in Workers, Refuse(w)
      PROVE  RoleOfTheTenant'
  BY <1>1, <1>2, <1>9, TenantStays DEF Refuse, Done
<1>10. ASSUME NEW w \in Workers, NEW o \in Organizations, SwitchContext(w, o)
      PROVE  RoleOfTheTenant'
  <2> DEFINE c == work[w]
             own == GlobalRole(c.at, c.user, c.role)
             new == [user |-> c.user, org |-> o, role |-> EffectiveRole(c.at, c.user, own, o)]
  <2>1. c \in CallRows
    BY <1>10, Copies DEF SwitchContext, Serves
  <2>2. c.at \in Processes /\ c.user \in Users /\ c.role \in Roles
    BY <2>1 DEF CallRows
  <2>3. own \in Roles
    BY <2>2, Effective
  <2>4. session' = [session EXCEPT ![c.id] = new] /\ MayEnter(c.at, c.user, own, o)
    BY <1>10 DEF SwitchContext
  <2> HIDE DEF own
  <2>5. new \in SessionRows /\ Belongs(new)
    BY <2>2, <2>3, <2>4, Effective DEF SessionRows, Belongs
  <2> HIDE DEF new
  <2>6. \A s \in Sessions : session'[s] \in {session[s], new}
    BY <1>1, <2>4
  <2>7. QED  BY <1>1, <1>2, <1>10, <2>5, <2>6, TenantStays DEF SwitchContext, Done
<1>11. QED
  BY <1>3, <1>4, <1>5, <1>6, <1>7, <1>8, <1>9, <1>10 DEF SessionNext

LEMMA TenantRights ==
    ASSUME AccessTypeOK, AccessTypeOK', RoleOfTheTenant, RightsNext
    PROVE  RoleOfTheTenant'
<1>1. /\ session \in [Sessions -> {None, Gone} \cup SessionRows]
      /\ work \in [Workers -> RequestRows]
      /\ members \in [Users -> [Organizations -> SUBSET MembershipRoles]]
  BY DEF AccessTypeOK
<1>2. \A u \in Users, o \in Organizations : members[u][o] \subseteq members'[u][o]
  <2>1. CASE members' = members
    BY <2>1
  <2>2. ASSUME NEW w \in Workers, NEW v \in Users, NEW org \in Organizations,
               NEW role \in RoleChoices, CreateMembership(w, v, org, role)
        PROVE  \A u \in Users, o \in Organizations : members[u][o] \subseteq members'[u][o]
    BY <1>1, <2>2 DEF CreateMembership
  <2>3. QED
    BY Zenon, <2>1, <2>2 DEF RightsNext, ChangePassword, CreateUser, CreateOrgUser, CheckRole, WriteRole,
                      GrantTemporaryAccess, AccessEnds
<1>3. \A s \in Sessions : session'[s] \in {session[s], Gone}
  BY Zenon, <1>1 DEF RightsNext, ChangePassword, CreateUser, CreateOrgUser, CheckRole, WriteRole,
              CreateMembership, GrantTemporaryAccess, AccessEnds
<1>4. \A w \in Workers : work'[w] \in {work[w], None} \/ "org" \notin DOMAIN work'[w]
  <2>1. ASSUME NEW w \in Workers, NEW u \in Users, NEW role \in RoleChoices, CheckRole(w, u, role)
        PROVE  \A v \in Workers : work'[v] = work[v] \/ "org" \notin DOMAIN work'[v]
    <3>1. "org" \notin DOMAIN [call |-> "set_role", at |-> work[w].at, user |-> u, role |-> role]
      OBVIOUS
    <3>2. QED  BY <1>1, <2>1, <3>1 DEF CheckRole
  <2>2. QED
    BY Zenon, <1>1, <2>1 DEF RightsNext, ChangePassword, CreateUser, CreateOrgUser, WriteRole,
                      CreateMembership, GrantTemporaryAccess, AccessEnds, Done
<1>5. QED  BY <1>2, <1>3, <1>4, TenantStays

LEMMA TenantKept ==
    AccessTypeOK /\ RoleOfTheTenant /\ [AccessNext]_accessVars => RoleOfTheTenant'
<1> SUFFICES ASSUME AccessTypeOK, RoleOfTheTenant, [AccessNext]_accessVars
             PROVE  RoleOfTheTenant'
  OBVIOUS
<1>1. AccessTypeOK'
  BY TypesKept
<1>2. CASE UNCHANGED accessVars
  BY <1>1, <1>2, TenantStays DEF accessVars
<1>3. CASE CaseNext
  <2>1. members' = members /\ session' = session
    BY <1>3 DEF CaseNext, CreateIncident, RequestApproval, ApproveRequest, UpdateIncident,
                ResolveIncident, UpdateStatus, rights
  <2>2. \A w \in Workers : work'[w] \in {work[w], None}
    BY <1>3 DEF CaseNext, CreateIncident, RequestApproval, ApproveRequest, UpdateIncident,
                ResolveIncident, UpdateStatus, Done, AccessTypeOK
  <2>3. QED  BY <1>1, <2>1, <2>2, TenantStays
<1>4. QED  BY <1>1, <1>2, <1>3, TenantSessions, TenantRights DEF AccessNext

-----------------------------------------------------------------------------
(* Approvals                                                               *)

\* The approvals spent, and with them the property, do not change.
LEMMA SpentStays ==
    ASSUME ApprovalSpentOnce, settled' = settled,
           \A i \in Incidents : Spent(i)' = Spent(i),
           \A i \in Incidents, a \in Approvals : a \in Spent(i) =>
              /\ approval'[a].status = approval[a].status
              /\ approval'[a].org = approval[a].org
              /\ incident'[i] # None /\ incident'[i].org = incident[i].org
    PROVE  ApprovalSpentOnce'
BY DEF ApprovalSpentOnce, Spent

LEMMA SpentKept ==
    AccessTypeOK /\ ApprovalSpentOnce /\ [AccessNext]_accessVars => ApprovalSpentOnce'
<1> SUFFICES ASSUME AccessTypeOK, ApprovalSpentOnce, [AccessNext]_accessVars
             PROVE  ApprovalSpentOnce'
  OBVIOUS
<1>1. /\ approval \in [Approvals -> {None} \cup ApprovalRows]
      /\ incident \in [Incidents -> {None} \cup IncidentRows]
      /\ settled \in [Incidents -> Nat]
  BY DEF AccessTypeOK
<1>2. \A i \in Incidents : \A a \in Spent(i) :
         /\ a \in Approvals /\ approval[a].status = "approved"
         /\ incident[i] # None /\ incident[i].org = approval[a].org
  BY DEF ApprovalSpentOnce, Spent
<1>3. CASE UNCHANGED cases
  BY <1>3 DEF cases, ApprovalSpentOnce
<1>4. CASE UNCHANGED accessVars \/ SessionNext \/ RightsNext
  BY ZenonT(60), <1>3, <1>4 DEF accessVars, cases, SessionNext, Authenticate, FailLogin, OpenSession,
        EndSession, Restart, Begin, Refuse, SwitchContext, RightsNext, ChangePassword, CreateUser,
        CreateOrgUser, CheckRole, WriteRole, CreateMembership, GrantTemporaryAccess, AccessEnds
<1>5. ASSUME NEW w \in Workers, NEW i \in Incidents, CreateIncident(w, i)
      PROVE  ApprovalSpentOnce'
  <2>1. \A j \in Incidents : Spent(j)' = Spent(j)
    BY <1>5 DEF CreateIncident, Spent
  <2>2. \A j \in Incidents : \A a \in Spent(j) : incident'[j] = incident[j]
    BY <1>1, <1>2, <1>5 DEF CreateIncident
  <2>3. QED  BY <1>2, <1>5, <2>1, <2>2, SpentStays DEF CreateIncident
<1>6. ASSUME NEW w \in Workers, NEW a \in Approvals, NEW target \in Incidents \cup {None},
             RequestApproval(w, a, target)
      PROVE  ApprovalSpentOnce'
  <2>1. \A b \in Approvals : b # a => approval'[b] = approval[b]
    BY <1>1, <1>6 DEF RequestApproval
  <2>2. approval[a] = None /\ ~approval'[a].consumed
    BY <1>1, <1>6 DEF RequestApproval
  <2>3. \A j \in Incidents : Spent(j)' = Spent(j)
    BY <2>1, <2>2 DEF Spent
  <2>4. \A j \in Incidents : \A b \in Spent(j) : approval'[b] = approval[b]
    BY <2>1, <2>2 DEF Spent
  <2>5. QED  BY <1>2, <1>6, <2>3, <2>4, SpentStays DEF RequestApproval
<1>7. ASSUME NEW w \in Workers, NEW a \in Approvals, ApproveRequest(w, a)
      PROVE  ApprovalSpentOnce'
  <2>1. \A b \in Approvals : b # a => approval'[b] = approval[b]
    BY <1>1, <1>7 DEF ApproveRequest
  <2>2. /\ approval[a] \in ApprovalRows /\ approval[a].status = "pending"
        /\ approval'[a] = [approval[a] EXCEPT !.status = "approved",
                                              !.reviewer = Signature(work[w])]
    BY <1>1, <1>7 DEF ApproveRequest, InScope
  <2>3. approval'[a].consumed = approval[a].consumed /\ approval'[a].target = approval[a].target
    BY <2>2 DEF ApprovalRows
  <2>4. \A j \in Incidents : a \notin Spent(j)
    BY <1>2, <2>2
  <2>5. \A j \in Incidents : Spent(j)' = Spent(j)
    BY ZenonT(60), <2>1, <2>2, <2>3, <2>4, RowsAssumption DEF Spent
  <2>6. \A j \in Incidents : \A b \in Spent(j) : approval'[b] = approval[b]
    BY <1>2, <2>1, <2>4
  <2>7. QED  BY <1>2, <1>7, <2>5, <2>6, SpentStays DEF ApproveRequest
<1>8. ASSUME NEW w \in Workers, NEW i \in Incidents, NEW status \in {"open", "resolved"},
             UpdateStatus(w, i, status)
      PROVE  /\ incident'[i].org = incident[i].org /\ incident[i].org = work[w].org
             /\ incident'[i] # None /\ incident[i] # None
             /\ \A j \in Incidents : j # i => incident'[j] = incident[j]
  <2>1. incident[i] \in IncidentRows
    BY <1>1, <1>8 DEF UpdateStatus
  <2>2. [incident[i] EXCEPT !.status = status] \in IncidentRows
    BY <2>1 DEF IncidentRows
  <2>3. incident' = [incident EXCEPT ![i] = [incident[i] EXCEPT !.status = status]]
    BY <1>1, <1>8 DEF UpdateStatus
  <2>4. QED  BY <1>1, <1>8, <2>1, <2>2, <2>3, RowsAssumption DEF UpdateStatus, IncidentRows
<1>9. ASSUME NEW w \in Workers, NEW i \in Incidents, NEW status \in {"open", "resolved"},
             UpdateIncident(w, i, status)
      PROVE  ApprovalSpentOnce'
  <2>1. UpdateStatus(w, i, status) /\ approval' = approval /\ settled' = settled
    BY <1>9 DEF UpdateIncident
  <2>2. \A j \in Incidents : Spent(j)' = Spent(j)
    BY <2>1 DEF Spent
  <2>3. QED  BY <1>2, <1>8, <2>1, <2>2, SpentStays
<1>10. ASSUME NEW w \in Workers, NEW i \in Incidents, NEW a \in Approvals, ResolveIncident(w, i, a)
      PROVE  ApprovalSpentOnce'
  <2>1. UpdateStatus(w, i, "resolved") /\ Usable(a, work[w], i)
        /\ approval' = [approval EXCEPT ![a].consumed = TRUE]
        /\ settled' = [settled EXCEPT ![i] = @ + 1]
    BY <1>10 DEF ResolveIncident
  <2>2. /\ approval[a] \in ApprovalRows /\ ~approval[a].consumed
        /\ approval[a].status = "approved" /\ approval[a].target = i
        /\ approval[a].org = work[w].org
    BY <1>1, <2>1 DEF Usable, InScope
  <2> DEFINE new == [approval[a] EXCEPT !.consumed = TRUE]
  <2>3. /\ new \in ApprovalRows /\ new.consumed
        /\ new.status = "approved" /\ new.target = i /\ new.org = work[w].org
    BY <2>2 DEF ApprovalRows
  <2>4. new # None
    BY <2>3, RowsAssumption
  <2>5. approval' = [approval EXCEPT ![a] = new]
    BY <1>1, <2>1
  <2> HIDE DEF new
  <2>6. approval'[a] = new /\ \A b \in Approvals : b # a => approval'[b] = approval[b]
    BY <1>1, <2>5
  <2>7. a \notin Spent(i) /\ Spent(i)' = Spent(i) \cup {a}
    BY <2>2, <2>3, <2>4, <2>6 DEF Spent
  <2>8. \A j \in Incidents : j # i => Spent(j)' = Spent(j)
    BY <2>2, <2>3, <2>6 DEF Spent
  <2>9. IsFiniteSet(Spent(i))
    BY RowsAssumption, FS_Subset DEF Spent
  <2>10. Cardinality(Spent(i)') = Cardinality(Spent(i)) + 1
    BY <2>7, <2>9, FS_AddElement
  <2>11. \A j \in Incidents : settled[j] = Cardinality(Spent(j))
    BY DEF ApprovalSpentOnce, Spent
  <2>12. \A j \in Incidents : settled'[j] = Cardinality(Spent(j)')
    BY <1>1, <2>1, <2>8, <2>10, <2>11
  <2>opened. /\ incident'[i] # None /\ incident'[i].org = work[w].org
             /\ \A j \in Incidents : j # i => incident'[j] = incident[j]
    BY <2>1, <1>8
  <2>13. \A j \in Incidents : \A b \in Spent(j)' :
           /\ approval'[b].status = "approved"
           /\ incident'[j] # None /\ incident'[j].org = approval'[b].org
    <3> SUFFICES ASSUME NEW j \in Incidents, NEW b \in Spent(j)'
                 PROVE  /\ approval'[b].status = "approved"
                        /\ incident'[j] # None /\ incident'[j].org = approval'[b].org
      OBVIOUS
    <3>1. CASE b = a
      <4>1. j = i
        BY <3>1, <2>2, <2>7, <2>8 DEF Spent
      <4>2. QED  BY <3>1, <4>1, <2>opened, <2>3, <2>6
    <3>2. CASE b # a
      <4>1. b \in Spent(j) /\ b \in Approvals
        BY <3>2, <2>7, <2>8 DEF Spent
      <4>2. approval'[b] = approval[b]
        BY <3>2, <4>1, <2>6
      <4>3. incident'[j] # None /\ incident'[j].org = incident[j].org
        BY <4>1, <1>2, <1>8, <2>1
      <4>4. QED  BY <4>1, <4>2, <4>3, <1>2
    <3>3. QED  BY <3>1, <3>2
  <2>14. QED  BY <2>12, <2>13 DEF ApprovalSpentOnce, Spent
<1>11. QED
  BY <1>4, <1>5, <1>6, <1>7, <1>9, <1>10 DEF AccessNext, CaseNext

-----------------------------------------------------------------------------
(* The table of endpoints                                                  *)

NonAdmins == Roles \ {"Administrator"}
Asking == {d[1] : d \in Duties}
Deciding == {d[2] : d \in Duties}
Signing == {"create_approval_request", "approve_request"}

\* What the table promises of an endpoint, whatever role its caller has.
Kept(r) ==
    /\ r.name \in Signing => r.writes
    /\ \A role, listed \in NonAdmins :
          r.writes /\ Passes(r.guard, role, {}, listed) =>
             /\ r.name \notin PlatformDuties
             /\ role = "Viewer" => r.name \in ViewerWrites
             /\ r.name \in Asking => role = "Operator"
             /\ r.name \in Deciding => role = "Reviewer"

\* A guard no Viewer passes, and one nobody but an administrator does.
NotForViewers(g) == \A listed \in NonAdmins : ~Passes(g, "Viewer", {}, listed)
ForAdministrators(g) == \A role, listed \in NonAdmins : ~Passes(g, role, {}, listed)

LEMMA DutyNames ==
    /\ Asking = {"create_approval_request", "create_package", "create_job_card", "assign_job_card"}
    /\ Deciding = {"approve_request", "release_job_card"}
BY DEF Asking, Deciding, Duties

LEMMA RolePermissions ==
    /\ PermissionsOf("Operator") = OperatorPermissions
    /\ PermissionsOf("Reviewer") = ReviewerPermissions
    /\ PermissionsOf("Viewer") = ViewerPermissions
    /\ NonAdmins = {"Operator", "Reviewer", "Viewer"}
BY DEF PermissionsOf, NonAdmins, Roles

LEMMA Lacked ==
    /\ \A role \in NonAdmins : {"*", "admin.system", "publication.admin"} \cap PermissionsOf(role) = {}
    /\ {"approval.review", "certification.release"} \cap OperatorPermissions = {}
    /\ {"approval.request", "work_order.manage", "maintenance.manage"} \cap ReviewerPermissions = {}
<1>1. {"*", "admin.system", "publication.admin", "approval.review", "certification.release"}
          \cap OperatorPermissions = {}
  BY DEF OperatorPermissions
<1>2. {"*", "admin.system", "publication.admin", "approval.request", "work_order.manage",
       "maintenance.manage"} \cap ReviewerPermissions = {}
  BY DEF ReviewerPermissions
<1>3. {"*", "admin.system", "publication.admin"} \cap ViewerPermissions = {}
  BY DEF ViewerPermissions
<1> QED BY <1>1, <1>2, <1>3, RolePermissions

\* Who passes a guard with nothing granted on top.
LEMMA PassesAll ==
    ASSUME NEW S, S # {}, NEW role \in NonAdmins, NEW listed \in NonAdmins
    PROVE  /\ Passes(AllOf(S), role, {}, listed) => S \subseteq PermissionsOf(role)
           /\ Passes(ByRole(S), role, {}, listed) => S \subseteq PermissionsOf(role)
           /\ Passes(ByDirectory(S), role, {}, listed) => S \subseteq PermissionsOf(listed)
           /\ Passes(ByEither(S), role, {}, listed) =>
                 S \subseteq PermissionsOf(role) \/ S \subseteq PermissionsOf(listed)
BY Lacked DEF Passes, Holds, AllOf, ByRole, ByDirectory, ByEither, Guard

LEMMA PassesAny ==
    ASSUME NEW S, NEW role \in NonAdmins, NEW listed \in NonAdmins
    PROVE  Passes(AnyOf(S), role, {}, listed) => S \cap PermissionsOf(role) # {}
BY Lacked DEF Passes, Holds, AnyOf, Guard

LEMMA AdministratorGuards ==
    /\ ForAdministrators(ComponentsGuards.catalog_admin)
    /\ ForAdministrators(FleetGuards.fleet_catalog)
    /\ ForAdministrators(OrgGuards.org_manage)
    /\ ForAdministrators(AdminGuards.admin)
    /\ ForAdministrators(PublicationsGuards.publication_admin)
BY Lacked, PassesAll
   DEF ForAdministrators, ComponentsGuards, FleetGuards, OrgGuards, AdminGuards, PublicationsGuards

\* Everything the guards of changes ask for.
Changing ==
    {"component.manage", "connect.manage", "platform.manage", "ecosystem.manage",
     "event_fabric.manage", "fabric.manage", "fleet.manage", "logistics.manage", "store.manage",
     "maintenance.manage", "work_order.manage", "logistics.stores", "logistics.purchase",
     "procurement.manage", "logistics.tools", "certification.sign", "signature.create",
     "marketplace.manage", "network.manage", "personnel.manage", "planning.manage",
     "plugins.manage", "publication.manage", "twin.manage", "work_order.execute",
     "inspector.approve", "certification.release", "connectors.manage", "ops.coordinate",
     "approval.request", "approval.review", "incident.create", "incident.update",
     "incident.event", "incident.evidence", "alerts.ack", "decisions.review"}

LEMMA ViewersChangeNothing == Changing \cap PermissionsOf("Viewer") = {}
BY RolePermissions DEF Changing, ViewerPermissions

LEMMA ChangingGuards ==
    ASSUME NEW S \in SUBSET Changing, S # {}
    PROVE  NotForViewers(AllOf(S)) /\ NotForViewers(AnyOf(S))
BY ViewersChangeNothing, PassesAll, PassesAny, RolePermissions DEF NotForViewers

LEMMA OperationGuards ==
    /\ NotForViewers(ComponentsGuards.component_manage)
    /\ NotForViewers(ConnectGuards.connect_manage)
    /\ NotForViewers(EcosystemGuards.ecosystem_manage)
    /\ NotForViewers(EventFabricGuards.ef_manage)
    /\ NotForViewers(FabricGuards.fabric_manage)
    /\ NotForViewers(FleetGuards.fleet_manage)
    /\ NotForViewers(MaintenanceGuards.maintenance_manage)
    /\ NotForViewers(MaintenanceGuards.certification_sign)
    /\ NotForViewers(MarketplaceGuards.marketplace_manage)
    /\ NotForViewers(NetworkGuards.network_manage)
BY ChangingGuards
   DEF Changing, ComponentsGuards, ConnectGuards, EcosystemGuards, EventFabricGuards, FabricGuards,
       FleetGuards, MaintenanceGuards, MarketplaceGuards, NetworkGuards

LEMMA WorkGuards ==
    /\ NotForViewers(LogisticsGuards.logistics_manage)
    /\ NotForViewers(LogisticsGuards.logistics_stores)
    /\ NotForViewers(LogisticsGuards.logistics_purchase)
    /\ NotForViewers(LogisticsGuards.logistics_tools)
    /\ NotForViewers(PersonnelGuards.personnel_manage)
    /\ NotForViewers(PlanningGuards.planning_manage)
    /\ NotForViewers(PlatformGuards.platform_manage)
    /\ NotForViewers(PluginsGuards.plugins_manage)
    /\ NotForViewers(PublicationsGuards.publication_manage)
    /\ NotForViewers(TwinGuards.twin_manage)
    /\ NotForViewers(WorkOrdersGuards.wo_manage)
    /\ NotForViewers(WorkOrdersGuards.wo_execute)
    /\ NotForViewers(WorkOrdersGuards.wo_inspect)
    /\ NotForViewers(WorkOrdersGuards.wo_release)
    /\ NotForViewers(ConnectorsGuards.connectors_manage)
    /\ NotForViewers(OpsGuards.ops_coordinate)
BY ChangingGuards
   DEF Changing, LogisticsGuards, PersonnelGuards, PlanningGuards, PlatformGuards, PluginsGuards,
       PublicationsGuards, TwinGuards, WorkOrdersGuards, ConnectorsGuards, OpsGuards

\* Planning work and asking for approval is for Operators, releasing and reviewing for
\* Reviewers.
LEMMA DutyGuards ==
    ASSUME NEW role \in NonAdmins, NEW listed \in NonAdmins
    PROVE  /\ Passes(WorkOrdersGuards.wo_manage, role, {}, listed) => role = "Operator"
           /\ Passes(AllOf({"approval.request"}), role, {}, listed) => role = "Operator"
           /\ Passes(WorkOrdersGuards.wo_release, role, {}, listed) => role = "Reviewer"
           /\ Passes(AllOf({"approval.review"}), role, {}, listed) => role = "Reviewer"
<1>1. "approval.request" \in Changing /\ "approval.review" \in Changing
      /\ "certification.release" \in Changing /\ {"work_order.manage", "maintenance.manage"} \subseteq Changing
  BY DEF Changing
<1>2. /\ Passes(WorkOrdersGuards.wo_manage, role, {}, listed) =>
             {"work_order.manage", "maintenance.manage"} \cap PermissionsOf(role) # {}
      /\ Passes(WorkOrdersGuards.wo_release, role, {}, listed) =>
             "certification.release" \in PermissionsOf(role)
  BY PassesAll, PassesAny DEF WorkOrdersGuards
<1>3. /\ Passes(AllOf({"approval.request"}), role, {}, listed) => "approval.request" \in PermissionsOf(role)
      /\ Passes(AllOf({"approval.review"}), role, {}, listed) => "approval.review" \in PermissionsOf(role)
  BY PassesAll
<1> QED BY <1>1, <1>2, <1>3, Lacked, ViewersChangeNothing, RolePermissions

LEMMA KeptNames ==
    /\ \A g, S : S \cap Signing = {} => \A r \in Reading(g, S) : Kept(r)
    /\ \A g, S : ForAdministrators(g) => \A r \in Writing(g, S) : Kept(r)
    /\ \A g, S : NotForViewers(g) /\ S \cap (PlatformDuties \cup Asking \cup Deciding) = {}
                 => \A r \in Writing(g, S) : Kept(r)
    /\ \A g, S : S \subseteq ViewerWrites => \A r \in Writing(g, S) : Kept(r)
<1>1. ViewerWrites \cap (PlatformDuties \cup Asking \cup Deciding) = {}
  BY DutyNames DEF ViewerWrites, PlatformDuties
<1>2. \A g, S : \A r \in Reading(g, S) : r.name \in S /\ r.writes = FALSE
  BY DEF Reading
<1>3. \A g, S : \A r \in Writing(g, S) : r.name \in S /\ r.writes = TRUE /\ r.guard = g
  BY DEF Writing
<1>4. \A g, S : S \cap Signing = {} => \A r \in Reading(g, S) : Kept(r)
  BY <1>2 DEF Kept
<1>5. \A g, S : ForAdministrators(g) => \A r \in Writing(g, S) : Kept(r)
  BY <1>3 DEF Kept, ForAdministrators
<1>6. \A g, S : NotForViewers(g) /\ S \cap (PlatformDuties \cup Asking \cup Deciding) = {}
                => \A r \in Writing(g, S) : Kept(r)
  BY <1>3 DEF Kept, NotForViewers
<1>7. \A g, S : S \subseteq ViewerWrites => \A r \in Writing(g, S) : Kept(r)
  BY <1>1, <1>3 DEF Kept
<1> QED BY <1>4, <1>5, <1>6, <1>7

LEMMA AircraftKept ==
    \A r \in UNION {AuthorityRoutes, CatalogRoutes, InstallationRoutes, ConfigurationRoutes,
                    FleetCatalogRoutes, AircraftRoutes, RegistrationRoutes} : Kept(r)
BY KeptNames, OperationGuards, AdministratorGuards, DutyNames
   DEF Signing, PlatformDuties, AuthorityRoutes, CatalogRoutes, InstallationRoutes,
       ConfigurationRoutes, FleetCatalogRoutes, AircraftRoutes, RegistrationRoutes

LEMMA NetworkKept ==
    \A r \in UNION {ConnectRoutes, EcosystemRoutes, EventFabricRoutes, PassportRoutes, HoldRoutes,
                    ListingRoutes, ProductRoutes, TradeRoutes, ProfileRoutes, CollaborationRoutes,
                    OemRoutes} : Kept(r)
BY KeptNames, OperationGuards, DutyNames
   DEF Signing, PlatformDuties, ConnectRoutes, EcosystemRoutes, EventFabricRoutes, PassportRoutes,
       HoldRoutes, ListingRoutes, ProductRoutes, TradeRoutes, ProfileRoutes, CollaborationRoutes,
       OemRoutes

LEMMA LogisticsKept ==
    \A r \in UNION {WarehouseRoutes, PartRoutes, StockRoutes, TransferRoutes, ToolRoutes,
                    MaterialRequestRoutes, VendorRoutes, PurchaseOrderRoutes, ReceiptRoutes,
                    LogisticsRunRoutes} : Kept(r)
BY KeptNames, WorkGuards, DutyNames
   DEF Signing, PlatformDuties, WarehouseRoutes, PartRoutes, StockRoutes, TransferRoutes,
       ToolRoutes, MaterialRequestRoutes, VendorRoutes, PurchaseOrderRoutes, ReceiptRoutes,
       LogisticsRunRoutes

LEMMA PeopleKept ==
    \A r \in UNION {TaskRoutes, CertificationRoutes, MaintenanceCatalogRoutes, CompanyRoutes,
                    DepartmentRoutes, MembershipRoutes, EmployeeRoutes, StampRoutes} : Kept(r)
BY KeptNames, OperationGuards, WorkGuards, AdministratorGuards, DutyNames
   DEF Signing, PlatformDuties, TaskRoutes, CertificationRoutes, MaintenanceCatalogRoutes,
       CompanyRoutes, DepartmentRoutes, MembershipRoutes, EmployeeRoutes, StampRoutes

LEMMA PlatformKept ==
    \A r \in UNION {ProgramRoutes, CheckRoutes, DirectiveRoutes, WorkforceRoutes, KeyRoutes,
                    RoleRoutes, WorkflowRoutes, FileRoutes, PluginsRoutes} : Kept(r)
<1>1. {"mark_notification_read"} \subseteq ViewerWrites
  BY DEF ViewerWrites
<1> QED BY <1>1, KeptNames, WorkGuards, DutyNames
        DEF Signing, PlatformDuties, ProgramRoutes, CheckRoutes, DirectiveRoutes, WorkforceRoutes,
            KeyRoutes, RoleRoutes, WorkflowRoutes, FileRoutes, PluginsRoutes

LEMMA RecordKept ==
    \A r \in UNION {PublicationRoutes, RevisionRoutes, LibraryRoutes, TwinRecordRoutes,
                    TwinHistoryRoutes, AdminUserRoutes, AdminConfigRoutes, ConnectorsRoutes,
                    OpsRoutes} : Kept(r)
BY KeptNames, WorkGuards, AdministratorGuards, DutyNames
   DEF Signing, PlatformDuties, PublicationRoutes, RevisionRoutes, LibraryRoutes, TwinRecordRoutes,
       TwinHistoryRoutes, AdminUserRoutes, AdminConfigRoutes, ConnectorsRoutes, OpsRoutes

\* The routes of packages, orders and job cards: planned by some, released by others.
LEMMA CardsKept ==
    \A r \in UNION {PackageRoutes, JobCardRoutes, CardWorkRoutes} : Kept(r)
<1>1. ASSUME NEW S, S \cap (PlatformDuties \cup Deciding \cup Signing) = {}
      PROVE  \A r \in Writing(WorkOrdersGuards.wo_manage, S) : Kept(r)
  BY <1>1, DutyGuards, WorkGuards DEF Kept, Writing, NotForViewers
<1>2. \A r \in Writing(WorkOrdersGuards.wo_release, {"release_job_card"}) : Kept(r)
  BY DutyGuards, WorkGuards, DutyNames DEF Kept, Writing, NotForViewers, PlatformDuties
<1> QED
  BY <1>1, <1>2, KeptNames, WorkGuards, DutyNames
     DEF Signing, PlatformDuties, PackageRoutes, JobCardRoutes, CardWorkRoutes

\* The endpoints of main.py name their permissions themselves.
LEMMA MainKept ==
    \A r \in UNION {LoginRoutes, OidcRoutes, ContextRoutes, ApprovalRoutes, IncidentRoutes,
                    ReportRoutes, DecisionRoutes, DashboardRoutes} : Kept(r)
<1>1. \A p \in Changing : NotForViewers(AllOf({p}))
  BY ChangingGuards
<1>2. {"incident.create", "incident.update", "incident.event", "incident.evidence", "alerts.ack",
       "decisions.review"} \subseteq Changing
  BY DEF Changing
<1>3. {"login", "logout", "oidc_login", "oidc_callback", "update_session_context",
       "evaluate_decision"} \subseteq ViewerWrites
  BY DEF ViewerWrites
<1>4. \A r \in Writing(AllOf({"approval.request"}), {"create_approval_request"}) : Kept(r)
  BY DutyGuards, DutyNames DEF Kept, Writing, PlatformDuties
<1>5. \A r \in Writing(AllOf({"approval.review"}), {"approve_request"}) : Kept(r)
  BY DutyGuards, DutyNames DEF Kept, Writing, PlatformDuties
<1>6. \A r \in UNION {LoginRoutes, OidcRoutes, ContextRoutes, ApprovalRoutes} : Kept(r)
  BY <1>1, <1>2, <1>3, <1>4, <1>5, KeptNames, DutyNames
     DEF Signing, PlatformDuties, LoginRoutes, OidcRoutes, ContextRoutes, ApprovalRoutes
<1>7. \A r \in UNION {IncidentRoutes, ReportRoutes, DecisionRoutes, DashboardRoutes} : Kept(r)
  BY <1>1, <1>2, <1>3, KeptNames, DutyNames
     DEF Signing, PlatformDuties, IncidentRoutes, ReportRoutes, DecisionRoutes, DashboardRoutes
<1> QED BY <1>6, <1>7

\* What holds of every endpoint of the server.
LEMMA TableKept == \A r \in Routes : Kept(r)
BY AircraftKept, NetworkKept, LogisticsKept, PeopleKept, PlatformKept, RecordKept, CardsKept,
   MainKept DEF Routes

\* No pair of roles without an administrator reaches two duties kept apart.
LEMMA TableFits == NonAdmins \X NonAdmins \subseteq Fitting
<1> SUFFICES ASSUME NEW role \in NonAdmins, NEW listed \in NonAdmins
             PROVE  DutiesFit(role, listed)
  BY DEF Fitting, NonAdmins
<1> DEFINE writes == {r.name : r \in {r \in Reach(role, listed) : r.writes}}
<1>1. \A n \in writes : /\ n \notin PlatformDuties
                        /\ role = "Viewer" => n \in ViewerWrites
                        /\ n \in Asking => role = "Operator"
                        /\ n \in Deciding => role = "Reviewer"
  BY TableKept DEF Reach, Kept
<1> HIDE DEF writes
<1>2. \A d \in Duties : d[1] \in Asking /\ d[2] \in Deciding
  BY DEF Asking, Deciding
<1>3. /\ \A d \in Duties : ~ {d[1], d[2]} \subseteq writes
      /\ writes \cap PlatformDuties = {}
      /\ role = "Viewer" => writes \subseteq ViewerWrites
  BY <1>1, <1>2
<1> QED BY <1>3 DEF DutiesFit, writes

\* Who passes the guards of asking and reviewing on the role of the session alone.
LEMMA OwnSignatures ==
    ASSUME NEW role \in Roles
    PROVE  /\ Passes(RouteOf("create_approval_request").guard, role, {}, None)
                 => role \in {"Operator", "Administrator"}
           /\ Passes(RouteOf("approve_request").guard, role, {}, None)
                 => role \in {"Reviewer", "Administrator"}
<1>1. \A g : Passes(g, role, {}, None) = Passes(g, role, {}, "Viewer")
  <2>1. PermissionsOf(None) = PermissionsOf("Viewer")
    BY AccessAssumption DEF PermissionsOf, Roles
  <2> QED BY <2>1 DEF Passes
<1>2. \E r \in Routes : r.name = "create_approval_request"
  <2>1. [name |-> "create_approval_request", writes |-> TRUE,
         guard |-> AllOf({"approval.request"})] \in ContextRoutes
    BY DEF ContextRoutes, Writing
  <2> QED BY <2>1 DEF Routes
<1>3. \E r \in Routes : r.name = "approve_request"
  <2>1. [name |-> "approve_request", writes |-> TRUE,
         guard |-> AllOf({"approval.review"})] \in ApprovalRoutes
    BY DEF ApprovalRoutes, Writing
  <2> QED BY <2>1 DEF Routes
<1>4. /\ RouteOf("create_approval_request") \in Routes
      /\ RouteOf("create_approval_request").name = "create_approval_request"
      /\ RouteOf("approve_request") \in Routes
      /\ RouteOf("approve_request").name = "approve_request"
  BY <1>2, <1>3 DEF RouteOf
<1> QED BY <1>1, <1>4, TableKept, DutyNames, RolePermissions DEF Kept, Signing, Roles

-----------------------------------------------------------------------------
(* Signatures                                                              *)

AskedRightly(signature) == signature.own => signature.role \in {"Operator", "Administrator"}
ReviewedRightly(signature) == signature.own => signature.role \in {"Reviewer", "Administrator"}

\* A request whose role alone let it in has one of the roles of its endpoint, and so has
\* everything it signs.
SignedRightly ==
    /\ \A w \in Workers :
          work[w] # None /\ "own" \in DOMAIN work[w] =>
             /\ work[w].call = "create_approval_request" => AskedRightly(work[w])
             /\ work[w].call = "approve_request" => ReviewedRightly(work[w])
    /\ \A a \in Approvals :
          approval[a] # None =>
             /\ AskedRightly(approval[a].asker)
             /\ approval[a].status = "approved" => ReviewedRightly(approval[a].reviewer)

LEMMA SignaturesStay ==
    ASSUME SignedRightly, approval' = approval,
           \A w \in Workers : work'[w] \in {work[w], None} \/ "own" \notin DOMAIN work'[w]
    PROVE  SignedRightly'
BY DEF SignedRightly, AskedRightly, ReviewedRightly

LEMMA SignedSessions ==
    ASSUME AccessTypeOK, SignedRightly, SessionNext
    PROVE  SignedRightly'
<1>1. work \in [Workers -> RequestRows] /\ session \in [Sessions -> {None, Gone} \cup SessionRows]
  BY DEF AccessTypeOK
<1>2. ASSUME NEW w \in Workers, NEW p \in Processes, NEW u \in Users, Authenticate(w, p, u)
      PROVE  SignedRightly'
  <2>1. "own" \notin DOMAIN [call |-> "login", at |-> p, user |-> u, role |-> account[u]]
    OBVIOUS
  <2>2. \A v \in Workers : work'[v] = work[v] \/ "own" \notin DOMAIN work'[v]
    BY <1>1, <1>2, <2>1 DEF Authenticate
  <2> QED BY <1>2, <2>2, SignaturesStay DEF Authenticate, cases
<1>3. ASSUME NEW w \in Workers, NEW p \in Processes, NEW s \in Sessions, NEW call \in Calls,
             Begin(w, p, s, call)
      PROVE  SignedRightly'
  <2> DEFINE own == Passes(RouteOf(call).guard, session[s].role, {}, None)
             new == [call |-> call, at |-> p, id |-> s, user |-> session[s].user,
                     role |-> session[s].role, org |-> session[s].org, own |-> own]
  <2>1. session[s].role \in Roles
    BY <1>1, <1>3 DEF Begin, Live, SessionRows
  <2>2. /\ call = "create_approval_request" /\ own
              => session[s].role \in {"Operator", "Administrator"}
        /\ call = "approve_request" /\ own => session[s].role \in {"Reviewer", "Administrator"}
    BY <2>1, OwnSignatures
  <2> HIDE DEF own
  <2>3. /\ new.call = "create_approval_request" => AskedRightly(new)
        /\ new.call = "approve_request" => ReviewedRightly(new)
    BY <2>2 DEF AskedRightly, ReviewedRightly
  <2>4. work' = [work EXCEPT ![w] = new] /\ approval' = approval
    BY <1>3 DEF Begin, new, own, cases
  <2> HIDE DEF new
  <2>5. \A v \in Workers : work'[v] = IF v = w THEN new ELSE work[v]
    BY <1>1, <2>4
  <2> QED BY <2>3, <2>4, <2>5 DEF SignedRightly, AskedRightly, ReviewedRightly
<1>4. CASE \/ \E p \in Processes : FailLogin(p) \/ Restart(p)
           \/ \E s \in Sessions : EndSession(s)
           \/ \E w \in Workers : Refuse(w)
           \/ \E w \in Workers, s \in Sessions : OpenSession(w, s)
           \/ \E w \in Workers, o \in Organizations : SwitchContext(w, o)
  <2>1. (\A v \in Workers : work'[v] \in {work[v], None}) /\ approval' = approval
    BY <1>1, <1>4 DEF FailLogin, Restart, EndSession, Refuse, OpenSession, SwitchContext, Done, cases
  <2> QED BY <2>1, SignaturesStay
<1> QED BY <1>2, <1>3, <1>4 DEF SessionNext

LEMMA SignedRights ==
    ASSUME AccessTypeOK, SignedRightly, RightsNext
    PROVE  SignedRightly'
<1>1. work \in [Workers -> RequestRows]
  BY DEF AccessTypeOK
<1>2. ASSUME NEW w \in Workers, NEW u \in Users, NEW role \in RoleChoices, CheckRole(w, u, role)
      PROVE  \A v \in Workers : work'[v] = work[v] \/ "own" \notin DOMAIN work'[v]
  <2>1. "own" \notin DOMAIN [call |-> "set_role", at |-> work[w].at, user |-> u, role |-> role]
    OBVIOUS
  <2> QED BY <1>1, <1>2, <2>1 DEF CheckRole
<1>3. \A w \in Workers : work'[w] \in {work[w], None} \/ "own" \notin DOMAIN work'[w]
  BY Zenon, <1>1, <1>2 DEF RightsNext, ChangePassword, CreateUser, CreateOrgUser, WriteRole,
                    CreateMembership, GrantTemporaryAccess, AccessEnds, Done
<1>4. approval' = approval
  BY Zenon DEF RightsNext, ChangePassword, CreateUser, CreateOrgUser, CheckRole, WriteRole,
         CreateMembership, GrantTemporaryAccess, AccessEnds, cases
<1> QED BY <1>3, <1>4, SignaturesStay

LEMMA SignedCases ==
    ASSUME AccessTypeOK, SignedRightly, CaseNext
    PROVE  SignedRightly'
<1>1. /\ work \in [Workers -> RequestRows]
      /\ approval \in [Approvals -> {None} \cup ApprovalRows]
  BY DEF AccessTypeOK
<1>2. \A w \in Workers : work'[w] \in {work[w], None}
  BY <1>1 DEF CaseNext, CreateIncident, RequestApproval, ApproveRequest, UpdateIncident,
              ResolveIncident, UpdateStatus, Done
<1> DEFINE Right(a, row) ==
       row # None => /\ AskedRightly(row.asker)
                     /\ row.status = "approved" => ReviewedRightly(row.reviewer)
<1>3. ASSUME \A a \in Approvals : Right(a, approval'[a])
      PROVE  SignedRightly'
  BY <1>2, <1>3 DEF SignedRightly, AskedRightly, ReviewedRightly
<1>4. \A a \in Approvals : Right(a, approval[a])
  BY DEF SignedRightly
<1>5. ASSUME NEW w \in Workers, NEW a \in Approvals, NEW target \in Incidents \cup {None},
             RequestApproval(w, a, target)
      PROVE  \A b \in Approvals : Right(b, approval'[b])
  <2> DEFINE signature == Signature(work[w])
             new == [status |-> "pending", consumed |-> FALSE, org |-> work[w].org,
                     target |-> target, asker |-> signature, reviewer |-> None]
  <2>1. "own" \in DOMAIN work[w] /\ work[w] # None /\ work[w].call = "create_approval_request"
    BY <1>5, Copies DEF RequestApproval, Serves, CallRows
  <2>2. AskedRightly(signature)
    BY <2>1 DEF SignedRightly, AskedRightly, Signature
  <2>3. approval' = [approval EXCEPT ![a] = new]
    BY <1>5 DEF RequestApproval
  <2> HIDE DEF signature
  <2>4. Right(a, new)
    BY <2>2
  <2> HIDE DEF new
  <2> QED BY <1>1, <1>4, <2>3, <2>4
<1>6. ASSUME NEW w \in Workers, NEW a \in Approvals, ApproveRequest(w, a)
      PROVE  \A b \in Approvals : Right(b, approval'[b])
  <2> DEFINE signature == Signature(work[w])
             new == [approval[a] EXCEPT !.status = "approved", !.reviewer = signature]
  <2>1. "own" \in DOMAIN work[w] /\ work[w] # None /\ work[w].call = "approve_request"
    BY <1>6, Copies DEF ApproveRequest, Serves, CallRows
  <2>2. ReviewedRightly(signature)
    BY <2>1 DEF SignedRightly, ReviewedRightly, Signature
  <2>3. approval[a] \in ApprovalRows /\ approval[a] # None /\ approval' = [approval EXCEPT ![a] = new]
    BY <1>1, <1>6 DEF ApproveRequest, InScope
  <2> HIDE DEF signature
  <2>4. new.asker = approval[a].asker /\ new.reviewer = signature
    BY <2>3 DEF ApprovalRows
  <2> HIDE DEF new
  <2> QED BY <1>1, <1>4, <2>2, <2>3, <2>4
<1>7. ASSUME NEW w \in Workers, NEW i \in Incidents, NEW a \in Approvals, ResolveIncident(w, i, a)
      PROVE  \A b \in Approvals : Right(b, approval'[b])
  <2> DEFINE new == [approval[a] EXCEPT !.consumed = TRUE]
  <2>1. approval[a] \in ApprovalRows /\ approval[a] # None /\ approval' = [approval EXCEPT ![a] = new]
    BY <1>1, <1>7 DEF ResolveIncident, Usable, InScope
  <2>2. /\ new.asker = approval[a].asker /\ new.reviewer = approval[a].reviewer
        /\ new.status = approval[a].status
    BY <2>1 DEF ApprovalRows
  <2> HIDE DEF new
  <2> QED BY <1>1, <1>4, <2>1, <2>2
<1>8. CASE approval' = approval
  BY <1>3, <1>4, <1>8
<1> HIDE DEF Right
<1> QED BY <1>3, <1>5, <1>6, <1>7, <1>8 DEF CaseNext, CreateIncident, UpdateIncident

LEMMA SignedKept ==
    AccessTypeOK /\ SignedRightly /\ [AccessNext]_accessVars => SignedRightly'
<1>1. SignedRightly /\ UNCHANGED accessVars => SignedRightly'
  BY DEF SignedRightly, accessVars
<1> QED BY <1>1, SignedSessions, SignedRights, SignedCases DEF AccessNext

-----------------------------------------------------------------------------
(* Theorems                                                                *)

\* The inductive invariant: each part is preserved with the types alone.
AInv == AccessTypeOK /\ RoleOfTheTenant /\ ApprovalSpentOnce /\ SignedRightly

LEMMA AStart == AccessInit => AInv
<1> SUFFICES ASSUME AccessInit PROVE AInv
  OBVIOUS
<1>1. \A u \in Users : account[u] \in Roles \cup {None}
  BY AccessAssumption DEF AccessInit
<1>2. \A u \in Users, o \in Organizations : members[u][o] \in SUBSET MembershipRoles
  BY AccessAssumption DEF AccessInit, MembershipRoles, Roles
<1>3. AccessTypeOK
  <2>1. members \in [Users -> [Organizations -> SUBSET MembershipRoles]]
    BY AccessAssumption DEF AccessInit, MembershipRoles, Roles
  <2>2. QED
    BY <1>1, <2>1, AccessAssumption DEF AccessInit, AccessTypeOK, RequestRows
<1>4. RoleOfTheTenant
  BY DEF AccessInit, RoleOfTheTenant, Live
<1>5. ApprovalSpentOnce
  <2>1. \A i \in Incidents : Spent(i) = {}
    BY DEF AccessInit, Spent
  <2>2. QED  BY <2>1, FS_EmptySet DEF AccessInit, ApprovalSpentOnce, Spent
<1>6. SignedRightly
  BY DEF AccessInit, SignedRightly
<1>7. QED  BY <1>3, <1>4, <1>5, <1>6 DEF AInv

LEMMA AAlways == AccessSpec => []AInv
<1>1. AInv /\ [AccessNext]_accessVars => AInv'
  BY TypesKept, TenantKept, SpentKept, SignedKept DEF AInv
<1>2. QED  BY <1>1, AStart, PTL DEF AccessSpec

\* The tables, sessions and requests keep their types.
THEOREM AccessTypes == AccessSpec => []AccessTypeOK
<1>1. AInv => AccessTypeOK
  BY DEF AInv
<1>2. QED  BY <1>1, AAlways, PTL

\* Nobody acts in an organization in a role that was not given there, whatever the
\* directories of the processes say.
THEOREM TenantRoles == AccessSpec => []RoleOfTheTenant
<1>1. AInv => RoleOfTheTenant
  BY DEF AInv
<1>2. QED  BY <1>1, AAlways, PTL

\* An approval resolves one incident once.
THEOREM ApprovalsOnce == AccessSpec => []ApprovalSpentOnce
<1>1. AInv => ApprovalSpentOnce
  BY DEF AInv
<1>2. QED  BY <1>1, AAlways, PTL

\* Who reviews an approval has not asked for it in the same role, whatever the sessions
\* and the guards of all endpoints let pass.
THEOREM Signatories == AccessSpec => []TwoSignatures
<1>1. AInv => TwoSignatures
  BY DEF AInv, SignedRightly, AskedRightly, ReviewedRightly, TwoSignatures
<1> QED BY <1>1, AAlways, PTL

\* Duties kept apart stay apart for every session, however it came by its role, over the
\* whole table of endpoints.
THEOREM DutiesApart == AccessSpec => []RolesKeptApart
<1>1. AccessTypeOK => RolesKeptApart
  <2> SUFFICES ASSUME AccessTypeOK, NEW s \in Sessions, NEW p \in Processes,
                      Live(s), session[s].role # "Administrator",
                      session[s].user \notin Administrators(p)
               PROVE  <<session[s].role, GlobalRole(p, session[s].user, session[s].role)>> \in Fitting
    BY DEF RolesKeptApart
  <2>1. session[s] \in SessionRows
    BY DEF AccessTypeOK, Live
  <2>2. session[s].role \in NonAdmins /\ session[s].user \in Users
    BY <2>1 DEF SessionRows, NonAdmins
  <2>3. directory[p][session[s].user] \in (Roles \cup {None}) \ {"Administrator"}
    BY <2>2 DEF AccessTypeOK, Administrators
  <2>4. GlobalRole(p, session[s].user, session[s].role) \in NonAdmins
    BY <2>2, <2>3 DEF GlobalRole, NonAdmins
  <2> QED BY <2>2, <2>4, TableFits
<1> QED BY <1>1, AccessTypes, PTL
=============================================================================

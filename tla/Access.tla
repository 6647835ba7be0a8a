------------------------------- MODULE Access -------------------------------
(***************************************************************************)
(* Who may do what: accounts, the login directory of every server process, *)
(* memberships, temporary access, sessions and approvals                   *)
(* (backend/app/main.py, routers/admin.py, security/, org/, platform/).    *)
(*                                                                         *)
(* Accounts, memberships, access and approvals are rows; sessions are kept *)
(* in the store the processes share; the directory is a dictionary of the  *)
(* process.  A request reads its session and passes its guard first        *)
(* (Begin) and works with that copy of the session later.  An organization *)
(* stands for an organization and its site.                                *)
(***************************************************************************)
EXTENDS Routes, FiniteSets

CONSTANTS Users, Processes, Organizations, Sessions, Approvals, Incidents,
          Workers,       \* requests under way
          Home,          \* the organization an administrator starts in
          InitialRoles,  \* users and their roles when the server is set up
          GrantChoices,  \* sets of permissions given as temporary access
          RoleChoices,   \* roles given by administrators
          Calls,         \* endpoints called
          MaxChanges,    \* bound: accounts, memberships and access changed
          None, Gone     \* nothing yet, and a session that has ended

ASSUME AccessAssumption ==
    /\ Home \in Organizations
    /\ DOMAIN InitialRoles \subseteq Users
    /\ \A u \in DOMAIN InitialRoles : InitialRoles[u] \in Roles
    /\ RoleChoices \subseteq Roles
    /\ \A g \in GrantChoices : "*" \notin g
    /\ MaxChanges \in Nat
    /\ {None, Gone} \cap (Roles \cup Users) = {}
    /\ None # Gone

VARIABLES account,   \* org_users.platform_role
          directory, \* OperatorStore of every process
          members,   \* memberships: roles of a user in an organization
          grants,    \* platform_temporary_access that is running
          session,   \* session store
          work,      \* requests under way, with what they have read
          approval,  \* approval_requests
          incident,  \* incidents: organization and status
          settled,   \* history: resolutions by others than administrators
          changes    \* history: changes by administrators and managers

accessVars == <<account, directory, members, grants, session, work, approval, incident,
                settled, changes>>
rights == <<account, directory, members, grants, changes>>
cases == <<approval, incident, settled>>

MembershipRoles == {"Operator", "Reviewer", "Viewer"}
SessionRows == [user : Users, role : Roles, org : Organizations]
Signatures == [user : Users, role : Roles, own : BOOLEAN]
ApprovalRows ==
    [status : {"pending", "approved"}, consumed : BOOLEAN, org : Organizations,
     target : Incidents \cup {None}, asker : Signatures, reviewer : Signatures \cup {None}]
IncidentRows == [org : Organizations, status : {"open", "resolved"}]

ASSUME RowsAssumption ==
    /\ IsFiniteSet(Approvals)
    /\ None \notin ApprovalRows \cup IncidentRows \cup Incidents

AccessInit ==
    /\ account = [u \in Users |-> IF u \in DOMAIN InitialRoles THEN InitialRoles[u] ELSE None]
    /\ directory = [p \in Processes |-> account]
    /\ members = [u \in Users |-> [o \in Organizations |->
                     IF u \notin DOMAIN InitialRoles THEN {}
                     ELSE IF account[u] = "Administrator" THEN {"Operator"}
                     ELSE IF o = Home THEN {account[u]} ELSE {}]]
    /\ grants = [u \in Users |-> [o \in Organizations |-> {}]]
    /\ session = [s \in Sessions |-> None]
    /\ work = [w \in Workers |-> None]
    /\ approval = [a \in Approvals |-> None]
    /\ incident = [i \in Incidents |-> None]
    /\ settled = [i \in Incidents |-> 0]
    /\ changes = 0

-----------------------------------------------------------------------------
(* Roles                                                                   *)

Live(s) == session[s] \notin {None, Gone}

\* global_role_for: the role in the directory of the process, or the one the caller has.
GlobalRole(p, u, own) == IF directory[p][u] = None THEN own ELSE directory[p][u]

BestRole(held) ==
    IF "Operator" \in held THEN "Operator"
    ELSE IF "Reviewer" \in held THEN "Reviewer" ELSE "Viewer"

\* Faulty: the organization is forgotten.
RolesAnywhere(u, o) == UNION {members[u][other] : other \in Organizations}

RolesIn(u, o) == members[u][o]

EffectiveRole(p, u, own, o) ==
    LET held == RolesIn(u, o)
    IN  IF GlobalRole(p, u, own) = "Administrator" THEN "Administrator"
        ELSE IF held # {} THEN BestRole(held)
        ELSE IF own \in MembershipRoles THEN own ELSE "Viewer"

\* assert_org_access
MayEnter(p, u, own, o) ==
    GlobalRole(p, u, own) = "Administrator" \/ members[u][o] # {}

DefaultOrganizations(p, u, own) ==
    IF GlobalRole(p, u, own) = "Administrator"
    THEN {Home}
    ELSE {o \in Organizations : members[u][o] # {}}

\* What temporary access and custom roles add in the organization of the session.
Granted(u, o) == UNION grants[u][o]

\* A session, served by a process, passes the guard of an endpoint.
Admitted(p, row, guard) ==
    Passes(guard, row.role, Granted(row.user, row.org), GlobalRole(p, row.user, row.role))

Administrators(p) == {u \in Users : directory[p][u] = "Administrator"}

-----------------------------------------------------------------------------
(* Login, logout and the life of a process                                 *)

\* Credentials are right, or the identity provider vouches for the user: the role of the
\* account goes to the directory.
Authenticate(w, p, u) ==
    /\ work[w] = None
    /\ account[u] # None
    /\ directory' = [directory EXCEPT ![p][u] = account[u]]
    /\ work' = [work EXCEPT ![w] = [call |-> "login", at |-> p, user |-> u, role |-> account[u]]]
    /\ UNCHANGED <<account, members, grants, session, changes, cases>>

\* After a login that failed the accounts are read into the directory again.
FailLogin(p) ==
    /\ directory' = [directory EXCEPT ![p] =
           [u \in Users |-> IF account[u] = None THEN directory[p][u] ELSE account[u]]]
    /\ UNCHANGED <<account, members, grants, changes, session, work, cases>>

OpenSession(w, s) ==
    LET c == work[w]
    IN  /\ c # None
        /\ c.call = "login"
        /\ session[s] = None
        /\ \E o \in DefaultOrganizations(c.at, c.user, c.role) :
              session' = [session EXCEPT ![s] =
                  [user |-> c.user, org |-> o, role |-> EffectiveRole(c.at, c.user, c.role, o)]]
        /\ work' = [work EXCEPT ![w] = None]
        /\ UNCHANGED <<rights, cases>>

\* Logout, the session runs out, or a login of its browser drops it before it opens one.
EndSession(s) ==
    /\ Live(s)
    /\ session' = [session EXCEPT ![s] = Gone]
    /\ UNCHANGED <<rights, work, cases>>

\* A process starts anew: its requests are lost, its directory is read from the accounts.
Restart(p) ==
    /\ directory' = [directory EXCEPT ![p] = account]
    /\ work' = [w \in Workers |-> IF work[w] # None /\ work[w].at = p THEN None ELSE work[w]]
    /\ UNCHANGED <<account, members, grants, session, changes, cases>>

-----------------------------------------------------------------------------
(* Requests                                                                *)

\* require_session and the guard of the endpoint.
Begin(w, p, s, call) ==
    /\ work[w] = None
    /\ Live(s)
    /\ Admitted(p, session[s], RouteOf(call).guard)
    /\ work' = [work EXCEPT ![w] =
           [call |-> call, at |-> p, id |-> s, user |-> session[s].user,
            role |-> session[s].role, org |-> session[s].org,
            own |-> Passes(RouteOf(call).guard, session[s].role, {}, None)]]
    /\ UNCHANGED <<rights, session, cases>>

Serves(w, call) == work[w] # None /\ work[w].call = call
Done(w) == work' = [work EXCEPT ![w] = None]

\* The request is refused, or fails before it changes anything.
Refuse(w) ==
    /\ work[w] # None
    /\ Done(w)
    /\ UNCHANGED <<rights, session, cases>>

\* The copy of the session is saved with its new organization and role, whatever became
\* of the session meanwhile.
SwitchContext(w, o) ==
    LET c == work[w]
        own == GlobalRole(c.at, c.user, c.role)
    IN  /\ Serves(w, "update_session_context")
        /\ MayEnter(c.at, c.user, own, o)
        /\ session' = [session EXCEPT ![c.id] =
               [user |-> c.user, org |-> o, role |-> EffectiveRole(c.at, c.user, own, o)]]
        /\ Done(w)
        /\ UNCHANGED <<rights, cases>>

\* set_password drops the sessions of the user, also when the commit then fails.
ChangePassword(w, u) ==
    /\ Serves(w, "admin_change_password")
    /\ account[u] # None
    /\ directory' = [directory EXCEPT ![work[w].at][u] = account[u]]
    /\ session' = [s \in Sessions |->
           IF Live(s) /\ session[s].user = u THEN Gone ELSE session[s]]
    /\ Done(w)
    /\ UNCHANGED <<account, members, grants, changes, cases>>

\* The user is added to the directory before the commit, which may fail.
CreateUser(w, u, role) ==
    /\ Serves(w, "admin_create_user")
    /\ account[u] = None
    /\ changes < MaxChanges
    /\ directory' = [directory EXCEPT ![work[w].at][u] = role]
    /\ account' \in {account, [account EXCEPT ![u] = role]}
    /\ changes' = changes + 1
    /\ Done(w)
    /\ UNCHANGED <<members, grants, session, cases>>

\* A user created with an organization's users is a Viewer no directory knows yet.
CreateOrgUser(w, u) ==
    /\ Serves(w, "create_org_user")
    /\ account[u] = None
    /\ changes < MaxChanges
    /\ account' = [account EXCEPT ![u] = "Viewer"]
    /\ changes' = changes + 1
    /\ Done(w)
    /\ UNCHANGED <<directory, members, grants, session, cases>>

\* set_role: the directory of the process says who the last administrator is.
CheckRole(w, u, role) ==
    LET c == work[w]
    IN  /\ Serves(w, "admin_change_role")
        /\ account[u] # None
        /\ account[u] = "Administrator" /\ role # "Administrator"
           => Cardinality(Administrators(c.at)) > 1
        /\ changes < MaxChanges
        /\ changes' = changes + 1
        /\ work' = [work EXCEPT ![w] = [call |-> "set_role", at |-> c.at, user |-> u, role |-> role]]
        /\ UNCHANGED <<account, directory, members, grants, session, cases>>

\* The directory follows before the commit, which may fail.
WriteRole(w) ==
    LET c == work[w]
    IN  /\ Serves(w, "set_role")
        /\ directory' = [directory EXCEPT ![c.at][c.user] = c.role]
        /\ account' \in {account, [account EXCEPT ![c.user] = c.role]}
        /\ Done(w)
        /\ UNCHANGED <<members, grants, session, changes, cases>>

CreateMembership(w, u, o, role) ==
    /\ Serves(w, "create_membership")
    /\ account[u] # None
    /\ role \in MembershipRoles \ members[u][o]
    /\ changes < MaxChanges
    /\ members' = [members EXCEPT ![u][o] = @ \cup {role}]
    /\ changes' = changes + 1
    /\ Done(w)
    /\ UNCHANGED <<account, directory, grants, session, cases>>

GrantTemporaryAccess(w, u, o, permissions) ==
    LET c == work[w]
    IN  /\ Serves(w, "grant_temporary_access")
        /\ MayEnter(c.at, c.user, c.role, o)
        /\ changes < MaxChanges
        /\ grants' = [grants EXCEPT ![u][o] = @ \cup {permissions}]
        /\ changes' = changes + 1
        /\ Done(w)
        /\ UNCHANGED <<account, directory, members, session, cases>>

\* ends_at has passed.
AccessEnds(u, o, permissions) ==
    /\ permissions \in grants[u][o]
    /\ grants' = [grants EXCEPT ![u][o] = @ \ {permissions}]
    /\ UNCHANGED <<account, directory, members, changes, session, work, cases>>

-----------------------------------------------------------------------------
(* Incidents and their approvals                                           *)

\* Who acts, in which role, and whether that role alone allowed it.
Signature(c) == [user |-> c.user, role |-> c.role, own |-> c.own]

CreateIncident(w, i) ==
    /\ Serves(w, "create_incident")
    /\ incident[i] = None
    /\ incident' = [incident EXCEPT ![i] = [org |-> work[w].org, status |-> "open"]]
    /\ Done(w)
    /\ UNCHANGED <<rights, session, approval, settled>>

\* Anything may be asked for; target None is another action than incident.resolve.
RequestApproval(w, a, target) ==
    LET c == work[w]
    IN  /\ Serves(w, "create_approval_request")
        /\ approval[a] = None
        /\ approval' = [approval EXCEPT ![a] =
               [status |-> "pending", consumed |-> FALSE, org |-> c.org, target |-> target,
                asker |-> Signature(c), reviewer |-> None]]
        /\ Done(w)
        /\ UNCHANGED <<rights, session, incident, settled>>

InScope(a, c) == approval[a] # None /\ approval[a].org = c.org

ApproveRequest(w, a) ==
    LET c == work[w]
    IN  /\ Serves(w, "approve_request")
        /\ InScope(a, c)
        /\ approval[a].status = "pending"
        /\ approval' = [approval EXCEPT ![a].status = "approved",
                                        ![a].reviewer = Signature(c)]
        /\ Done(w)
        /\ UNCHANGED <<rights, session, incident, settled>>

\* Faulty: consumed is not asked.
UsableAgain(a, c, i) ==
    InScope(a, c) /\ approval[a].status = "approved" /\ approval[a].target = i

\* _require_approved_action, under the lock of the approval.
Usable(a, c, i) ==
    /\ InScope(a, c)
    /\ ~approval[a].consumed
    /\ approval[a].status = "approved"
    /\ approval[a].target = i

UpdateStatus(w, i, status) ==
    /\ Serves(w, "update_incident_status")
    /\ incident[i] # None
    /\ incident[i].org = work[w].org
    /\ incident' = [incident EXCEPT ![i].status = status]
    /\ Done(w)
    /\ UNCHANGED <<rights, session>>

\* Any status but resolved and closed, and every status for an administrator.
UpdateIncident(w, i, status) ==
    /\ UpdateStatus(w, i, status)
    /\ status = "resolved" => work[w].role = "Administrator"
    /\ UNCHANGED <<approval, settled>>

ResolveIncident(w, i, a) ==
    /\ UpdateStatus(w, i, "resolved")
    /\ work[w].role # "Administrator"
    /\ Usable(a, work[w], i)
    /\ approval' = [approval EXCEPT ![a].consumed = TRUE]
    /\ settled' = [settled EXCEPT ![i] = @ + 1]

-----------------------------------------------------------------------------
(* Specification                                                           *)

SessionNext ==
    \/ \E w \in Workers, p \in Processes, u \in Users : Authenticate(w, p, u)
    \/ \E p \in Processes : FailLogin(p)
    \/ \E w \in Workers, s \in Sessions : OpenSession(w, s)
    \/ \E s \in Sessions : EndSession(s)
    \/ \E p \in Processes : Restart(p)
    \/ \E w \in Workers, p \in Processes, s \in Sessions, call \in Calls : Begin(w, p, s, call)
    \/ \E w \in Workers : Refuse(w)
    \/ \E w \in Workers, o \in Organizations : SwitchContext(w, o)

RightsNext ==
    \/ \E w \in Workers, u \in Users : ChangePassword(w, u)
    \/ \E w \in Workers, u \in Users, role \in RoleChoices : CreateUser(w, u, role)
    \/ \E w \in Workers, u \in Users : CreateOrgUser(w, u)
    \/ \E w \in Workers, u \in Users, role \in RoleChoices : CheckRole(w, u, role)
    \/ \E w \in Workers : WriteRole(w)
    \/ \E w \in Workers, u \in Users, o \in Organizations, role \in RoleChoices :
          CreateMembership(w, u, o, role)
    \/ \E w \in Workers, u \in Users, o \in Organizations, permissions \in GrantChoices :
          GrantTemporaryAccess(w, u, o, permissions)
    \/ \E u \in Users, o \in Organizations, permissions \in GrantChoices :
          AccessEnds(u, o, permissions)

CaseNext ==
    \/ \E w \in Workers, i \in Incidents : CreateIncident(w, i)
    \/ \E w \in Workers, a \in Approvals, target \in Incidents \cup {None} :
          RequestApproval(w, a, target)
    \/ \E w \in Workers, a \in Approvals : ApproveRequest(w, a)
    \/ \E w \in Workers, i \in Incidents, status \in {"open", "resolved"} :
          UpdateIncident(w, i, status)
    \/ \E w \in Workers, i \in Incidents, a \in Approvals : ResolveIncident(w, i, a)

AccessNext == SessionNext \/ RightsNext \/ CaseNext

AccessSpec == AccessInit /\ [][AccessNext]_accessVars

-----------------------------------------------------------------------------
(* Properties                                                              *)

RequestRows ==
    {None}
    \cup [call : {"login", "set_role"}, at : Processes, user : Users, role : Roles]
    \cup [call : Calls, at : Processes, id : Sessions, user : Users, role : Roles,
          org : Organizations, own : BOOLEAN]

\* Every table, every session and every request under way has its shape.
AccessTypeOK ==
    /\ account \in [Users -> Roles \cup {None}]
    /\ directory \in [Processes -> [Users -> Roles \cup {None}]]
    /\ members \in [Users -> [Organizations -> SUBSET MembershipRoles]]
    /\ grants \in [Users -> [Organizations -> SUBSET GrantChoices]]
    /\ session \in [Sessions -> {None, Gone} \cup SessionRows]
    /\ work \in [Workers -> RequestRows]
    /\ approval \in [Approvals -> {None} \cup ApprovalRows]
    /\ incident \in [Incidents -> {None} \cup IncidentRows]
    /\ settled \in [Incidents -> Nat]
    /\ changes \in 0..MaxChanges

\* Outside the platform's administrators nobody acts in an organization but its members,
\* and with a role they were given there, never with the one they hold elsewhere:
\* sessions and the copies of them that requests hold, through logins, role changes,
\* switches and restarts of one process or another.
RoleOfTheTenant ==
    /\ \A s \in Sessions : Live(s) /\ session[s].role # "Administrator"
                           => session[s].role \in members[session[s].user][session[s].org]
    /\ \A w \in Workers : work[w] # None /\ "org" \in DOMAIN work[w]
                          => \/ work[w].role = "Administrator"
                             \/ work[w].role \in members[work[w].user][work[w].org]

\* An incident is resolved by others than administrators exactly as often as approvals
\* for it, reviewed and of its organization, were consumed: none serves twice, whoever
\* holds it and however often the incident is opened again.
ApprovalSpentOnce ==
    \A i \in Incidents :
        LET spent == {a \in Approvals : approval[a] # None /\ approval[a].consumed
                                        /\ approval[a].target = i}
        IN  /\ settled[i] = Cardinality(spent)
            /\ \A a \in spent : /\ approval[a].status = "approved"
                                /\ incident[i] # None
                                /\ incident[i].org = approval[a].org

\* Whoever reviews an approval does not do so in the role it was asked in, unless as
\* administrator or with access given on top: asking and reviewing take two people, or
\* one whose role in the organization has changed between.
TwoSignatures ==
    \A a \in Approvals :
        approval[a] # None /\ approval[a].status = "approved"
        => LET asker == approval[a].asker
               reviewer == approval[a].reviewer
           IN  \/ asker.role # reviewer.role
               \/ asker.role = "Administrator"
               \/ ~asker.own
               \/ ~reviewer.own

\* What a Viewer changes: the state of a notification of theirs, an evaluation, which
\* is computed and stored, their own session.
ViewerWrites ==
    {"mark_notification_read", "evaluate_decision", "login", "logout", "oidc_login",
     "oidc_callback", "update_session_context"}

\* Asking and reviewing; planning the work and releasing it.
Duties ==
    {<<"create_approval_request", "approve_request">>, <<"create_package", "release_job_card">>,
     <<"create_job_card", "release_job_card">>, <<"assign_job_card", "release_job_card">>}

\* What runs the platform.
PlatformDuties ==
    {"create_company", "create_organization", "create_site", "create_membership",
     "create_org_user", "bind_org_user_oidc", "admin_create_user", "admin_change_password",
     "admin_change_role", "admin_config_change", "activate_revision", "archive_publication"}

\* What a session reaches with its role, and a role in the directory, alone.
Reach(role, listed) == {r \in Routes : Passes(r.guard, role, {}, listed)}

DutiesFit(role, listed) ==
    LET writes == {r.name : r \in {r \in Reach(role, listed) : r.writes}}
    IN  /\ \A d \in Duties : ~ {d[1], d[2]} \subseteq writes
        /\ writes \cap PlatformDuties = {}
        /\ role = "Viewer" => writes \subseteq ViewerWrites

Fitting == {rr \in Roles \X Roles : DutiesFit(rr[1], rr[2])}

\* However sessions came by their roles, a session of the platform's administrators aside,
\* none reaches both of two duties kept apart or what runs the platform, and a Viewer's
\* only reads: unless the directory of a process makes its user an administrator, or
\* access was given on top.
RolesKeptApart ==
    \A s \in Sessions, p \in Processes :
        LET row == session[s]
        IN  Live(s) /\ row.role # "Administrator" /\ row.user \notin Administrators(p)
            => <<row.role, GlobalRole(p, row.user, row.role)>> \in Fitting

\* "Cannot demote the last Administrator" (routers/admin.py).
AdministratorRemains == \E u \in Users : account[u] = "Administrator"
=============================================================================

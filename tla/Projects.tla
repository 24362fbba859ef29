------------------------------ MODULE Projects ------------------------------
(***************************************************************************)
(* The projects of one tenant and who may work in them: api/projects.go,   *)
(* authz/authorize.go, the project and ownership checks of api/apikeys.go, *)
(* and what the removal of a member (api/users.go) and of the account      *)
(* (api/account.go) do to projects.                                        *)
(*                                                                         *)
(* This composes with ApiKeys, whose actions are the later steps of the    *)
(* requests that create or revoke a key: such a request first passes the   *)
(* checks of this module.  Of the memberships of the tenant a removal and  *)
(* the deletion of the account are here statement by statement; an         *)
(* invitation, its answers and a new role in the tenant are one step each  *)
(* (Membership has their statements).                                      *)
(*                                                                         *)
(* A user is a person, by address: that a sign-in renames the rows of a    *)
(* person, in tenant_memberships and then in project_memberships           *)
(* (api/auth.go), is left out, and so are suspended memberships.           *)
(*                                                                         *)
(* One step is one statement or one transaction.  Names and descriptions   *)
(* are left out: a new project's name may be taken, and an update of them  *)
(* changes nothing here.                                                   *)
(***************************************************************************)
EXTENDS ApiKeys

CONSTANTS
    User,         \* people who are or may become members
    Owner,        \* the tenant's owner
    Editors,      \* the members at the start besides the owner, pending or active
    Project,      \* identities of projects
    Default,      \* tenants.default_project_id
    None,         \* no user, no project
    MaxProjects,  \* the limit of the tenant's plan
    Op,           \* operations that are requested
    MaxAsks       \* bound: requests that are not about a key alone

ASSUME ProjectsAssumption == /\ Owner \in User /\ Editors \subseteq User /\ Default \in Project
                             /\ None \notin User \cup Project
                             /\ MaxProjects \in Nat /\ MaxAsks \in Nat

ASSUME OpAssumption == Op \subseteq {"createKey", "revokeKey", "createProject", "deleteProject",
                                     "addMember", "setRole", "removeMember", "removeUser",
                                     "deleteAccount"}

VARIABLES
    status,  \* status[p]: the projects row
    role,    \* role[p][u]: the project_memberships row
    org,     \* org[u]: the tenant_memberships row, pending or active
    invited, \* users whose tenant_memberships row is pending
    origin,  \* origin[k]: project_id and created_by_user_id of a key
    ask,     \* ask[a]: where a request is and what it has read
    asks,    \* requests begun
    slips    \* failed statements of this module

projectVars == <<status, role, org, invited, origin>>
allVars == <<vars, projectVars, ask, asks, slips>>

OrgRole == {"viewer", "editor", "admin", "owner"}
ProjectRole == {"project_viewer", "project_editor", "project_admin"}

RoleLevel(r) == CASE r = "owner" -> 4 [] r = "admin" -> 3 [] r = "editor" -> 2
                  [] r = "viewer" -> 1 [] OTHER -> 0

NoAsk == [pc |-> "none", op |-> "none", by |-> None, as |-> "none", project |-> None, on |-> None]

\* Rows of projects, archived ones too, and the projects in use.
Stored == {p \in Project : status[p] \in {"active", "archived"}}
Active == {p \in Project : status[p] = "active"}

\* "project_id = ? AND revoked = false".
KeysOf(p) == {k \in Keys : row[k] = "live" /\ origin[k].project = p}

InitProjects ==
    /\ Init
    /\ status = [p \in Project |-> IF p = Default THEN "active" ELSE "new"]
    /\ role = [p \in Project |-> [u \in User |-> IF p = Default /\ u = Owner THEN "project_admin"
                                                ELSE "none"]]
    /\ org = [u \in User |-> IF u = Owner THEN "owner" ELSE IF u \in Editors THEN "editor"
                             ELSE "none"]
    /\ invited \in SUBSET (Editors \ {Owner})
    /\ origin = [k \in Keys |-> [project |-> None, by |-> None]]
    /\ ask = [a \in Admins |-> NoAsk]
    /\ asks = 0 /\ slips = 0

AskAt(a, pc) == ask[a].pc = pc
Step(a, pc) == ask' = [ask EXCEPT ![a].pc = pc]
Leave(a) == ask' = [ask EXCEPT ![a] = NoAsk]
StepIf(a, cond, pc) == IF cond THEN Step(a, pc) ELSE Leave(a)
NoKeyStep == UNCHANGED <<vars, asks, slips>>

-----------------------------------------------------------------------------
(* A request arrives: the routes of server.go and their middleware. *)

\* RequireOrgRole of the route; a pending membership does not count.
MinRole(op) == CASE op \in {"createKey", "revokeKey", "removeUser"} -> "editor"
                 [] op = "deleteAccount" -> "owner"
                 [] OTHER -> "admin"

May(u, op) == u \notin invited /\ RoleLevel(org[u]) >= RoleLevel(MinRole(op))

\* The project and the user or key that a request names.
Targets(op) ==
    CASE op \in {"createKey", "deleteProject"} -> Stored \X {None}
      [] op \in {"addMember", "setRole", "removeMember"} -> Stored \X User
      [] op = "removeUser" -> {None} \X User
      [] op = "revokeKey" -> {None} \X {k \in Keys : row[k] # "absent"}
      [] op \in {"createProject", "deleteAccount"} -> {<<None, None>>}

FirstStep(op) == CASE op = "revokeKey" -> "mine"
                   [] op = "createProject" -> "countProjects"
                   [] op = "removeUser" -> "target"
                   [] op = "deleteAccount" -> "revokeKeys"
                   [] OTHER -> "project"

Ask(a) ==
    /\ ask[a] = NoAsk /\ asks < MaxAsks
    /\ asks' = asks + 1
    /\ \E op \in Op, by \in User : \E target \in Targets(op) :
          /\ May(by, op)
          /\ ask' = [ask EXCEPT ![a] = [pc |-> FirstStep(op), op |-> op, by |-> by, as |-> org[by],
                                        project |-> target[1], on |-> target[2]]]
    /\ UNCHANGED <<vars, projectVars, slips>>

\* Every handler that names a project looks for its row first, archived or not.
FetchProject(a) ==
    /\ AskAt(a, "project")
    /\ StepIf(a, ask[a].project \in Stored,
              CASE ask[a].op = "createKey" -> "authorize"
                [] ask[a].op = "deleteProject" -> "default"
                [] ask[a].op = "addMember" -> "tenantMember"
                [] ask[a].op = "setRole" -> "current"
                [] ask[a].op = "removeMember" -> "remove")
    /\ UNCHANGED projectVars /\ NoKeyStep

-----------------------------------------------------------------------------
(* Keys: handleCreateAPIKey, handleRevokeAPIKey. *)

Administrative(r) == r \in {"owner", "admin"}

\* Authorize with ActionAPIKeyCreate: owners and admins may, and members of the
\* project whose role has the permission.
Authorize(a) ==
    \/ Administrative(ask[a].as)
    \/ role[ask[a].project][ask[a].by] \in {"project_admin", "project_editor"}

AuthorizeKey(a) ==
    /\ AskAt(a, "authorize")
    /\ IF Authorize(a) THEN RequestCreate(a) /\ Step(a, "key") ELSE UNCHANGED vars /\ Leave(a)
    /\ UNCHANGED <<projectVars, asks, slips>>

CheckMine(a) ==
    /\ AskAt(a, "mine")
    /\ IF Administrative(ask[a].as) \/ origin[ask[a].on].by = ask[a].by
       THEN RequestRevoke(a) /\ call'[a].key = ask[a].on /\ Step(a, "key")
       ELSE UNCHANGED vars /\ Leave(a)
    /\ UNCHANGED <<projectVars, asks, slips>>

\* The request ends with its last step on the key.
KeyStep(a) == /\ AskAt(a, "key")
              /\ IF call'[a] = Idle THEN Leave(a) ELSE UNCHANGED ask
              /\ UNCHANGED <<asks, slips>>

InsertProjectKey(a) ==
    /\ InsertKey(a)
    /\ origin' = [k \in Keys |-> IF row'[k] # row[k]
                                 THEN [project |-> ask[a].project, by |-> ask[a].by]
                                 ELSE origin[k]]
    /\ KeyStep(a)
    /\ UNCHANGED <<status, role, org, invited>>

WorkOnKey(a) ==
    /\ \/ CountKeys(a) \/ RecountKeys(a) \/ StoreCopy(a) \/ UpdateRevoked(a) \/ DeleteCopy(a)
       \/ CommandFails(a) \/ StatementFails(a) \/ CountFails(a)
    /\ KeyStep(a)
    /\ UNCHANGED projectVars

-----------------------------------------------------------------------------
(* handleCreateProject and handleDeleteProject. *)

CountProjects(a) ==
    /\ AskAt(a, "countProjects")
    /\ StepIf(a, Cardinality(Active) < MaxProjects, "insertProject")
    /\ UNCHANGED projectVars /\ NoKeyStep

\* The name may be taken, by an archived project too.
InsertProject(a) ==
    /\ AskAt(a, "insertProject")
    /\ \/ \E p \in Project :
             /\ status[p] = "new"
             /\ status' = [status EXCEPT ![p] = "active"]
             /\ ask' = [ask EXCEPT ![a].pc = "creator", ![a].project = p]
       \/ Leave(a) /\ UNCHANGED status
    /\ UNCHANGED <<role, org, invited, origin>> /\ NoKeyStep

AddCreator(a) ==
    /\ AskAt(a, "creator")
    /\ role' = [role EXCEPT ![ask[a].project][ask[a].by] = "project_admin"]
    /\ Leave(a)
    /\ UNCHANGED <<status, org, invited, origin>> /\ NoKeyStep

CheckDefault(a) ==
    /\ AskAt(a, "default")
    /\ StepIf(a, ask[a].project # Default, "countKeys")
    /\ UNCHANGED projectVars /\ NoKeyStep

\* Mutant: keys that have expired do not count.
CountProjectKeysUnexpired(a) ==
    /\ AskAt(a, "countKeys")
    /\ StepIf(a, KeysOf(ask[a].project) \cap ActiveKeys = {}, "archive")
    /\ UNCHANGED projectVars /\ NoKeyStep

CountProjectKeys(a) ==
    /\ AskAt(a, "countKeys")
    /\ StepIf(a, KeysOf(ask[a].project) = {}, "archive")
    /\ UNCHANGED projectVars /\ NoKeyStep

ArchiveProject(a) ==
    /\ AskAt(a, "archive")
    /\ status' = [p \in Project |-> IF p = ask[a].project /\ p \in Stored THEN "archived"
                                    ELSE status[p]]
    /\ Step(a, "clear")
    /\ UNCHANGED <<role, org, invited, origin>> /\ NoKeyStep

ClearMembers(a) ==
    /\ AskAt(a, "clear")
    /\ role' = [role EXCEPT ![ask[a].project] = [u \in User |-> "none"]]
    /\ Leave(a)
    /\ UNCHANGED <<status, org, invited, origin>> /\ NoKeyStep

-----------------------------------------------------------------------------
(* The members of a project. *)

Member(a) == role[ask[a].project][ask[a].on]
WriteRole(a, roles) ==
    /\ \E r \in roles : role' = [role EXCEPT ![ask[a].project][ask[a].on] = r]
    /\ Leave(a)
    /\ UNCHANGED <<status, org, invited, origin>> /\ NoKeyStep

\* Pending or active: the status is not looked at.
CheckTenantMember(a) ==
    /\ AskAt(a, "tenantMember")
    /\ StepIf(a, org[ask[a].on] # "none", "existing")
    /\ UNCHANGED projectVars /\ NoKeyStep

CheckExisting(a) ==
    /\ AskAt(a, "existing")
    /\ StepIf(a, Member(a) = "none", "add")
    /\ UNCHANGED projectVars /\ NoKeyStep

\* The primary key refuses a second row.
AddMember(a) ==
    /\ AskAt(a, "add")
    /\ WriteRole(a, IF Member(a) = "none" THEN ProjectRole ELSE {Member(a)})

ReadCurrent(a) ==
    /\ AskAt(a, "current")
    /\ StepIf(a, Member(a) # "none", "setRole")
    /\ UNCHANGED projectVars /\ NoKeyStep

\* An UPDATE: no row, no effect.
SetRole(a) ==
    /\ AskAt(a, "setRole")
    /\ WriteRole(a, IF Member(a) # "none" THEN ProjectRole ELSE {"none"})

RemoveMember(a) ==
    /\ AskAt(a, "remove")
    /\ WriteRole(a, {"none"})

-----------------------------------------------------------------------------
(* The members of the tenant: handleInviteUser, handleAcceptInvitation     *)
(* (or the sign-in of whoever was invited), handleDenyInvitation, the      *)
(* changes of a role, and handleRemoveUser.                                *)

\* A request that is one step here.
AtOnce(a) ==
    /\ ask[a] = NoAsk /\ asks < MaxAsks
    /\ asks' = asks + 1
    /\ UNCHANGED <<vars, status, role, origin, ask, slips>>

InviteUser(a) ==
    /\ AtOnce(a)
    /\ \E by \in User : May(by, "removeUser")
    /\ \E u \in User, r \in {"viewer", "editor"} :
          /\ org[u] = "none"
          /\ org' = [org EXCEPT ![u] = r]
          /\ invited' = invited \cup {u}

AcceptInvitation(a) ==
    /\ AtOnce(a)
    /\ \E u \in invited : invited' = invited \ {u}
    /\ UNCHANGED org

\* The membership goes; roles in projects are not looked at.
DenyInvitation(a, u) ==
    /\ AtOnce(a)
    /\ u \in invited
    /\ org' = [org EXCEPT ![u] = "none"]
    /\ invited' = invited \ {u}

\* handleUpdateUserRole, handlePromoteAdmin and handleDemoteAdmin.
ChangeOrgRole(a) ==
    /\ AtOnce(a)
    /\ May(Owner, "deleteAccount")
    /\ \E u \in User, r \in OrgRole \ {"owner"} :
          /\ org[u] \notin {"none", "owner"}
          /\ org' = [org EXCEPT ![u] = r]
    /\ UNCHANGED invited

CheckTarget(a) ==
    /\ AskAt(a, "target")
    /\ StepIf(a, /\ ask[a].on # ask[a].by
                 /\ org[ask[a].on] \notin {"none", "owner"}
                 /\ org[ask[a].on] = "admin" => ask[a].as = "owner", "removeUser")
    /\ UNCHANGED projectVars /\ NoKeyStep

\* Mutant: the memberships of projects stay.
RemoveUserOnly(a) ==
    /\ AskAt(a, "removeUser")
    /\ org' = [org EXCEPT ![ask[a].on] = "none"]
    /\ invited' = invited \ {ask[a].on}
    /\ Leave(a)
    /\ UNCHANGED <<status, role, origin>> /\ NoKeyStep

\* One transaction.
RemoveUser(a) ==
    /\ AskAt(a, "removeUser")
    /\ org' = [org EXCEPT ![ask[a].on] = "none"]
    /\ invited' = invited \ {ask[a].on}
    /\ role' = [p \in Project |-> IF p \in Stored THEN [role[p] EXCEPT ![ask[a].on] = "none"]
                                  ELSE role[p]]
    /\ Leave(a)
    /\ UNCHANGED <<status, origin>> /\ NoKeyStep

-----------------------------------------------------------------------------
(* handleDeleteAccount: four statements in this order. *)

RevokeKeys(a) ==
    /\ AskAt(a, "revokeKeys")
    /\ RevokeAll(a)
    /\ Step(a, "wipeRoles")
    /\ UNCHANGED <<projectVars, asks, slips>>

WipeRoles(a) ==
    /\ AskAt(a, "wipeRoles")
    /\ role' = [p \in Project |-> IF p \in Stored THEN [u \in User |-> "none"] ELSE role[p]]
    /\ Step(a, "wipeProjects")
    /\ UNCHANGED <<status, org, invited, origin>> /\ NoKeyStep

WipeProjects(a) ==
    /\ AskAt(a, "wipeProjects")
    /\ status' = [p \in Project |-> IF p \in Stored THEN "deleted" ELSE status[p]]
    /\ Step(a, "wipeMembers")
    /\ UNCHANGED <<role, org, invited, origin>> /\ NoKeyStep

WipeMembers(a) ==
    /\ AskAt(a, "wipeMembers")
    /\ org' = [u \in User |-> "none"]
    /\ invited' = {}
    /\ Leave(a)
    /\ UNCHANGED <<status, role, origin>> /\ NoKeyStep

-----------------------------------------------------------------------------
(* Failures. *)

\* Statements whose error nobody looks at, and what follows: a failed count is
\* 0, and a tenant that could not be read has no default project.
Unchecked == [countProjects |-> "insertProject", default |-> "countKeys", countKeys |-> "archive",
              archive |-> "clear", wipeRoles |-> "wipeProjects", wipeProjects |-> "wipeMembers"]

ProjectStatementFails(a) ==
    /\ slips' = slips + 1
    /\ \/ ask[a].pc \in DOMAIN Unchecked /\ Step(a, Unchecked[ask[a].pc])
       \/ ask[a].pc \notin {"none", "key"} /\ Leave(a)
    /\ UNCHANGED <<vars, projectVars, asks>>

-----------------------------------------------------------------------------
OnKey(a) == FetchProject(a) \/ AuthorizeKey(a) \/ CheckMine(a) \/ InsertProjectKey(a) \/ WorkOnKey(a)
OnProject(a) == \/ CountProjects(a) \/ InsertProject(a) \/ AddCreator(a) \/ CheckDefault(a)
                \/ CountProjectKeys(a) \/ ArchiveProject(a) \/ ClearMembers(a)
OnTenant(a) == \/ InviteUser(a) \/ AcceptInvitation(a) \/ ChangeOrgRole(a)
               \/ \E u \in User : DenyInvitation(a, u)
OnMember(a) == \/ CheckTenantMember(a) \/ CheckExisting(a) \/ AddMember(a) \/ ReadCurrent(a)
               \/ SetRole(a) \/ RemoveMember(a) \/ CheckTarget(a) \/ RemoveUser(a)
OnAccount(a) == RevokeKeys(a) \/ WipeRoles(a) \/ WipeProjects(a) \/ WipeMembers(a)

Gateway == /\ \/ \E v \in Validators : Validate(v) \/ CommandFails(v) \/ StatementFails(v)
              \/ Tick
           /\ UNCHANGED <<projectVars, ask, asks, slips>>

\* MaxFaults bounds the failures of both modules.
NextProjects ==
    /\ \/ \E a \in Admins : \/ Ask(a) \/ OnKey(a) \/ OnProject(a) \/ OnTenant(a) \/ OnMember(a)
                            \/ OnAccount(a) \/ ProjectStatementFails(a)
       \/ Gateway
    /\ faults' + slips' <= MaxFaults

SpecProjects == InitProjects /\ [][NextProjects]_allVars

-----------------------------------------------------------------------------
(* Properties. *)

NoFailure == faults + slips = 0

\* Roles in projects without a membership of the tenant, which whoever is
\* invited again finds as old rights.
Stray == {s \in Project \X User : role[s[1]][s[2]] # "none" /\ org[s[2]] = "none"}

\* handleRemoveUser, handleDeleteProject and handleDeleteAccount each clean up
\* part of what handleAddProjectMember and handleCreateProject leave: while
\* requests do not overlap and nothing fails, no step but the denial of an
\* invitation leaves a role in a project without its membership of the tenant.
MembersBelong ==
    [][NoFailure' => \A s \in Stray' \ Stray : \E a \in Admins : DenyInvitation(a, s[2])]_allVars

\* "Block deletion if API keys reference this project": while requests do not
\* overlap and nothing fails, a project is archived only when every key created
\* in it has been revoked (expired is not enough), and the default project never.
ArchivedEmpty ==
    [][\A p \in Project : status[p] = "active" /\ status'[p] = "archived" /\ NoFailure
          => p # Default /\ KeysOf(p) = {}]_allVars

-----------------------------------------------------------------------------
(* What the documents and comments say and the code does not keep. *)

\* "Validate user is a member of this tenant" (projects.go:435): whoever has a
\* role in a project is a member of the tenant.
RolesNeedMembership == NoFailure => Stray = {}

\* "Cannot delete project: %d active API key(s) reference it. Revoke them
\* first." (projects.go:310): no archived project has keys in use.
ArchivedHasNoKeys == NoFailure => \A p \in Project : status[p] = "archived" => KeysOf(p) = {}
=============================================================================

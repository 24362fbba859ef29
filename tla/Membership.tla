----------------------------- MODULE Membership -----------------------------
(***************************************************************************)
(* The members of one tenant: api/users.go (invitations, roles,            *)
(* suspension, removal, transfer of ownership, plan changes), api/auth.go  *)
(* (the sign-in that joins Clerk identities to users), api/account.go (the *)
(* deletion of the account) and middleware/rbac.go (who may do what).      *)
(*                                                                         *)
(* Postgres holds a row per user and a row per membership; no foreign key  *)
(* ties them.  Every handler reads the caller's membership in the          *)
(* middleware, reads the target's, and then writes in a statement or a     *)
(* transaction that names the row by its key alone, so that the state it   *)
(* decided on may be gone.  One step is one statement or one transaction.  *)
(* The two reads of the middleware are one step, and so are the lookups of *)
(* handleAuthSync: each decides the same way on the last read alone.       *)
(*                                                                         *)
(* Names, notifications, audit entries, project memberships and the other  *)
(* resources a plan limits are left out.                                   *)
(***************************************************************************)
EXTENDS Integers, FiniteSets

CONSTANTS
    Ids,           \* values of users.id
    Placeholders,  \* the ids that an invitation makes up ("pending_...")
    EmailOf,       \* the address of the user an id is made for
    None,          \* no row, no id
    Plans,         \* plans of the tenant
    MaxMembers,    \* planLimitsMap: members of a plan, -1 is unlimited
    Founder,       \* the owner at the start
    Guests,        \* users at the start who belong to another tenant only
    FirstPlan,     \* the plan at the start
    Handlers,      \* requests that may run at a time
    Ops,           \* operations that are requested
    MaxRequested,  \* bound: requests
    MaxFaults      \* bound: crashes, outages of the identity provider, failed counts

Emails == {EmailOf[i] : i \in Ids}

ASSUME IdsAssumption == /\ Placeholders \subseteq Ids /\ None \notin Ids \cup Emails
                        /\ Ids \cap Emails = {}
                        /\ Founder \in Ids \ Placeholders
                        /\ Guests \subseteq Ids \ (Placeholders \cup {Founder})

\* users.email is unique.
ASSUME EmailsAssumption ==
    \A i, j \in Guests \cup {Founder} : EmailOf[i] = EmailOf[j] => i = j

\* Every plan has room for the owner.
ASSUME PlansAssumption ==
    /\ FirstPlan \in Plans /\ MaxMembers \in [Plans -> Int]
    /\ \A p \in Plans : MaxMembers[p] = -1 \/ MaxMembers[p] >= 1

VARIABLES
    users,      \* users[i]: the status of the user's row, or "none"
    member,     \* member[i]: the row of tenant_memberships, or None
    elsewhere,  \* ids with an active membership of another tenant
    clerk,      \* ids the identity provider knows
    plan,       \* tenants.plan
    reqs,       \* reqs[h]: where a request is and what it has read
    spent,      \* ids that have been used
    requested,  \* requests so far
    faults      \* crashes, outages and failed counts so far

memberVars == <<users, member, elsewhere, clerk, plan, reqs, spent, requested, faults>>

Roles == {"viewer", "editor", "admin", "owner"}
Statuses == {"pending", "active", "suspended"}
Memberships == [role : Roles, status : Statuses]

ASSUME NoneAssumption == None \notin Memberships

Idle == [pc |-> "idle", op |-> "none", by |-> None, as |-> None,
         on |-> None, to |-> None, seen |-> {}]

RoleLevel(role) == CASE role = "owner" -> 4 [] role = "admin" -> 3
                     [] role = "editor" -> 2 [] role = "viewer" -> 1

Members == {i \in Ids : member[i] # None}
Owners == {i \in Members : member[i].role = "owner"}

\* The user of an address: users.email is unique.
UsersOf(email) == {i \in Ids : users[i] # "none" /\ EmailOf[i] = email}

InitMembers ==
    /\ users = [i \in Ids |-> IF i \in Guests \cup {Founder} THEN "active" ELSE "none"]
    /\ member = [i \in Ids |-> IF i = Founder THEN [role |-> "owner", status |-> "active"]
                               ELSE None]
    /\ elsewhere = Guests
    /\ clerk = Guests \cup {Founder}
    /\ plan = FirstPlan
    /\ reqs = [h \in Handlers |-> Idle]
    /\ spent = Guests \cup {Founder}
    /\ requested = 0
    /\ faults = 0

-----------------------------------------------------------------------------
(* Requests and the middleware. *)

\* A handler's next step, and its end.
GoOn(h, pc) == reqs' = [reqs EXCEPT ![h].pc = pc]
Finish(h) == reqs' = [reqs EXCEPT ![h] = Idle]

Start(h, r) == /\ reqs[h] = Idle
               /\ requested < MaxRequested
               /\ requested' = requested + 1
               /\ reqs' = [reqs EXCEPT ![h] = r]

Doing(h, pc) == reqs[h].pc = pc

Data == <<users, member, elsewhere, clerk, plan, spent>>

\* RequireUser: an active user with an active membership of this tenant.
Acts(i) == users[i] = "active" /\ member[i] # None /\ member[i].status = "active"

\* RequireOrgRole of the route that leads to the operation.
MinRole(op) == IF op \in {"promote", "demote", "transfer", "delete"} THEN "owner"
               ELSE "editor"

May(i, op) == Acts(i) /\ RoleLevel(member[i].role) >= RoleLevel(MinRole(op))

\* A request about another member.  to is the role a role change asks for.
NotOnSelf == {"role", "suspend", "remove", "promote", "transfer"}
TargetOps == NotOnSelf \cup {"unsuspend", "demote"}

Manage(h) ==
    /\ \E op \in Ops \cap TargetOps, i \in Ids, t \in Ids, to \in {"viewer", "editor"} :
          /\ May(i, op)
          /\ op \in NotOnSelf => t # i
          /\ op # "role" => to = "viewer"
          /\ Start(h, [Idle EXCEPT !.pc = "check", !.op = op, !.by = i,
                                   !.as = member[i].role, !.on = t, !.to = to])
    /\ UNCHANGED <<Data, faults>>

-----------------------------------------------------------------------------
(* Operations on a member. *)

\* Mutant: the guard that protects the owner is missing.
AllowedOwner(r, m) ==
    CASE r.op \in {"role", "suspend", "remove"} -> m.role = "admin" => r.as = "owner"
      [] r.op = "unsuspend" -> TRUE
      [] r.op = "promote"   -> m.role # "admin"
      [] r.op = "demote"    -> m.role = "admin"
      [] r.op = "transfer"  -> m.status = "active"

\* What the handler makes of the target's membership m.
Allowed(r, m) ==
    CASE r.op \in {"role", "suspend", "remove"} ->
             m.role # "owner" /\ (m.role = "admin" => r.as = "owner")
      [] r.op = "unsuspend" -> TRUE
      [] r.op = "promote"   -> m.role \notin {"owner", "admin"}
      [] r.op = "demote"    -> m.role = "admin"
      [] r.op = "transfer"  -> m.status = "active"

Check(h) ==
    /\ Doing(h, "check")
    /\ LET r == reqs[h] IN
          IF member[r.on] # None /\ Allowed(r, member[r.on]) THEN GoOn(h, "write") ELSE Finish(h)
    /\ UNCHANGED <<Data, requested, faults>>

\* An UPDATE by key: nothing happens when the row is gone.
SetRole(m, i, role) == IF m[i] = None THEN m ELSE [m EXCEPT ![i].role = role]
SetStatus(m, i, status) == IF m[i] = None THEN m ELSE [m EXCEPT ![i].status = status]

Write(h, op) == Doing(h, "write") /\ reqs[h].op = op

UpdateUserRole(h) ==
    /\ Write(h, "role")
    /\ member' = SetRole(member, reqs[h].on, reqs[h].to)
    /\ Finish(h)
    /\ UNCHANGED <<users, elsewhere, clerk, plan, spent, requested, faults>>

SuspendUser(h) ==
    /\ Write(h, "suspend")
    /\ member' = SetStatus(member, reqs[h].on, "suspended")
    /\ Finish(h)
    /\ UNCHANGED <<users, elsewhere, clerk, plan, spent, requested, faults>>

UnsuspendUser(h) ==
    /\ Write(h, "unsuspend")
    /\ member' = SetStatus(member, reqs[h].on, "active")
    /\ Finish(h)
    /\ UNCHANGED <<users, elsewhere, clerk, plan, spent, requested, faults>>

PromoteAdmin(h) ==
    /\ Write(h, "promote")
    /\ member' = SetRole(member, reqs[h].on, "admin")
    /\ Finish(h)
    /\ UNCHANGED <<users, elsewhere, clerk, plan, spent, requested, faults>>

DemoteAdmin(h) ==
    /\ Write(h, "demote")
    /\ member' = SetRole(member, reqs[h].on, "editor")
    /\ Finish(h)
    /\ UNCHANGED <<users, elsewhere, clerk, plan, spent, requested, faults>>

\* Both updates are in one transaction.
TransferOwnership(h) ==
    /\ Write(h, "transfer")
    /\ member' = SetRole(SetRole(member, reqs[h].by, "admin"), reqs[h].on, "owner")
    /\ Finish(h)
    /\ UNCHANGED <<users, elsewhere, clerk, plan, spent, requested, faults>>

\* The transaction deletes the membership and, when it was the user's last,
\* the user here and, errors ignored, at the identity provider.
RemoveUser(h) ==
    /\ Write(h, "remove")
    /\ LET t == reqs[h].on
           last == t \notin elsewhere
       IN /\ member' = [member EXCEPT ![t] = None]
          /\ users' = IF last THEN [users EXCEPT ![t] = "none"] ELSE users
          /\ \/ clerk' = (IF last THEN clerk \ {t} ELSE clerk) /\ faults' = faults
             \/ last /\ faults < MaxFaults /\ faults' = faults + 1 /\ clerk' = clerk
    /\ Finish(h)
    /\ UNCHANGED <<elsewhere, plan, spent, requested>>

\* The same request of another tenant, whose rows are not in this model.
LeaveElsewhere(h) ==
    /\ "leave" \in Ops
    /\ reqs[h] = Idle /\ requested < MaxRequested /\ requested' = requested + 1
    /\ \E i \in elsewhere :
          /\ elsewhere' = elsewhere \ {i}
          /\ users' = IF member[i] = None THEN [users EXCEPT ![i] = "none"] ELSE users
          /\ clerk' = IF member[i] = None THEN clerk \ {i} ELSE clerk
    /\ UNCHANGED <<member, plan, reqs, spent, faults>>

-----------------------------------------------------------------------------
(* Invitations. *)

Invite(h) ==
    /\ "invite" \in Ops
    /\ \E i \in Ids, e \in Emails, to \in {"viewer", "editor"} :
          /\ May(i, "invite")
          /\ Start(h, [Idle EXCEPT !.pc = "count", !.op = "invite", !.by = i,
                                   !.as = member[i].role, !.on = e, !.to = to])
    /\ UNCHANGED <<Data, faults>>

Unlimited == -1

\* Mutant: off by one.
HasRoomInclusive(n, p) == MaxMembers[p] = Unlimited \/ n <= MaxMembers[p]

HasRoom(n, p) == MaxMembers[p] = Unlimited \/ n < MaxMembers[p]

\* The error of the count is not looked at: a count that fails reads as 0.
CountMembers(h) ==
    /\ Doing(h, "count")
    /\ \/ /\ faults' = faults
          /\ IF HasRoom(Cardinality(Members), plan)
             THEN reqs' = [reqs EXCEPT ![h].pc = "lookup", ![h].seen = Members]
             ELSE Finish(h)
       \/ /\ faults < MaxFaults
          /\ faults' = faults + 1
          /\ IF HasRoom(0, plan) THEN GoOn(h, "lookup") ELSE Finish(h)
    /\ UNCHANGED <<Data, requested>>

\* The user of the address gets a membership; an unknown one a placeholder.
LookupInvited(h) ==
    /\ Doing(h, "lookup")
    /\ LET found == UsersOf(reqs[h].on) IN
          IF found = {} THEN GoOn(h, "adduser")
          ELSE reqs' = [reqs EXCEPT ![h].on = CHOOSE i \in found : TRUE, ![h].pc = "exists"]
    /\ UNCHANGED <<Data, requested, faults>>

CheckExists(h) ==
    /\ Doing(h, "exists")
    /\ IF member[reqs[h].on] # None THEN Finish(h) ELSE GoOn(h, "addmember")
    /\ UNCHANGED <<Data, requested, faults>>

\* The unique index on users.email refuses a second row for the address.
CreatePlaceholder(h) ==
    /\ Doing(h, "adduser")
    /\ IF UsersOf(reqs[h].on) # {}
       THEN Finish(h) /\ UNCHANGED <<users, spent>>
       ELSE \E p \in Placeholders \ spent :
               /\ EmailOf[p] = reqs[h].on
               /\ users' = [users EXCEPT ![p] = "pending"]
               /\ spent' = spent \cup {p}
               /\ reqs' = [reqs EXCEPT ![h].on = p, ![h].pc = "addmember"]
    /\ UNCHANGED <<member, elsewhere, clerk, plan, requested, faults>>

\* The primary key refuses a second row for the user.
CreateMembership(h) ==
    /\ Doing(h, "addmember")
    /\ member' = IF member[reqs[h].on] # None THEN member
                 ELSE [member EXCEPT ![reqs[h].on] = [role |-> reqs[h].to, status |-> "pending"]]
    /\ Finish(h)
    /\ UNCHANGED <<users, elsewhere, clerk, plan, spent, requested, faults>>

\* RequireUser takes the tenant of the header, which need not be this one.
Answer(h) ==
    /\ \E op \in Ops \cap {"accept", "deny"}, i \in Ids :
          /\ users[i] = "active"
          /\ i \in elsewhere \/ Acts(i)
          /\ Start(h, [Idle EXCEPT !.pc = "pending", !.op = op, !.by = i, !.on = i])
    /\ UNCHANGED <<Data, faults>>

\* Mutant: any membership that is not active passes for an invitation.
FindInvitationAny(h) ==
    /\ Doing(h, "pending")
    /\ LET m == member[reqs[h].by] IN
          IF m # None /\ m.status # "active" THEN GoOn(h, "answer") ELSE Finish(h)
    /\ UNCHANGED <<Data, requested, faults>>

FindInvitation(h) ==
    /\ Doing(h, "pending")
    /\ LET m == member[reqs[h].by] IN
          IF m # None /\ m.status = "pending" THEN GoOn(h, "answer") ELSE Finish(h)
    /\ UNCHANGED <<Data, requested, faults>>

AcceptInvitation(h) ==
    /\ Doing(h, "answer") /\ reqs[h].op = "accept"
    /\ member' = SetStatus(member, reqs[h].by, "active")
    /\ Finish(h)
    /\ UNCHANGED <<users, elsewhere, clerk, plan, spent, requested, faults>>

DenyInvitation(h) ==
    /\ Doing(h, "answer") /\ reqs[h].op = "deny"
    /\ member' = [member EXCEPT ![reqs[h].by] = None]
    /\ Finish(h)
    /\ UNCHANGED <<users, elsewhere, clerk, plan, spent, requested, faults>>

-----------------------------------------------------------------------------
(* Sign-in: handleAuthSync. *)

\* Clerk signs in someone it knows, or someone new under a new id.
SignIn(h) ==
    /\ "sync" \in Ops
    /\ \E c \in Ids \ Placeholders :
          /\ c \in clerk \/ c \notin spent
          /\ Start(h, [Idle EXCEPT !.pc = "sync", !.op = "sync", !.by = c])
          /\ clerk' = clerk \cup {c}
    /\ UNCHANGED <<users, member, elsewhere, plan, spent, faults>>

FindUser(h) ==
    /\ Doing(h, "sync")
    /\ LET c == reqs[h].by
           known == UsersOf(EmailOf[c])
           active == {i \in known : users[i] = "active"}
           found(pc) == reqs' = [reqs EXCEPT ![h].pc = pc, ![h].on = CHOOSE i \in known : TRUE]
       IN CASE users[c] # "none" -> Finish(h)
            [] users[c] = "none" /\ active # {} -> found("relabel")
            [] users[c] = "none" /\ active = {} /\ known # {} -> found("activate")
            [] users[c] = "none" /\ known = {} -> GoOn(h, "signup")
    /\ UNCHANGED <<Data, requested, faults>>

\* The Clerk id has changed: three updates, outside a transaction.
RelabelUser(h) ==
    /\ Doing(h, "relabel")
    /\ LET old == reqs[h].on
           new == reqs[h].by
           moves == users[old] # "none" /\ users[new] = "none"
       IN /\ users' = IF moves THEN [users EXCEPT ![new] = users[old], ![old] = "none"] ELSE users
          /\ spent' = IF moves THEN spent \cup {new} ELSE spent
    /\ GoOn(h, "relabelMember")
    /\ UNCHANGED <<member, elsewhere, clerk, plan, requested, faults>>

Rename(set, old, new) == IF old \in set THEN (set \ {old}) \cup {new} ELSE set

\* The primary key may refuse the update; the error is not looked at.
RelabelMemberships(h) ==
    /\ Doing(h, "relabelMember")
    /\ LET old == reqs[h].on
           new == reqs[h].by
           clash == old # new /\ member[old] # None /\ member[new] # None
       IN /\ member' = IF clash \/ old = new \/ member[old] = None THEN member
                       ELSE [member EXCEPT ![new] = member[old], ![old] = None]
          /\ elsewhere' = IF clash THEN elsewhere ELSE Rename(elsewhere, old, new)
    /\ Finish(h)
    /\ UNCHANGED <<users, clerk, plan, spent, requested, faults>>

\* One transaction: the placeholder goes, the user comes, pending
\* memberships of the placeholder become the user's, and a workspace of
\* their own is made.
ActivateInvited(h) ==
    /\ Doing(h, "activate")
    /\ LET old == reqs[h].on
           new == reqs[h].by
           pending == member[old] # None /\ member[old].status = "pending"
           ok == /\ users[new] = "none"
                 /\ UsersOf(EmailOf[new]) \subseteq {old}
                 /\ ~(pending /\ member[new] # None)
       IN IF ok
          THEN /\ users' = [users EXCEPT ![old] = "none", ![new] = "active"]
               /\ member' = IF pending
                            THEN [member EXCEPT ![old] = None,
                                                ![new] = [member[old] EXCEPT !.status = "active"]]
                            ELSE member
               /\ elsewhere' = elsewhere \cup {new}
               /\ spent' = spent \cup {new}
          ELSE UNCHANGED <<users, member, elsewhere, spent>>
    /\ Finish(h)
    /\ UNCHANGED <<clerk, plan, requested, faults>>

\* One transaction: a user with a workspace.  A unique index refuses it when
\* the user has come to exist; the answer is then read from that row.
SignUp(h) ==
    /\ Doing(h, "signup")
    /\ LET c == reqs[h].by IN
          IF users[c] = "none" /\ UsersOf(EmailOf[c]) = {}
          THEN /\ users' = [users EXCEPT ![c] = "active"]
               /\ elsewhere' = elsewhere \cup {c}
               /\ spent' = spent \cup {c}
          ELSE UNCHANGED <<users, elsewhere, spent>>
    /\ Finish(h)
    /\ UNCHANGED <<member, clerk, plan, requested, faults>>

-----------------------------------------------------------------------------
(* Plan changes: applyPlanChange, by the operators of the platform, and    *)
(* Stripe's webhooks (checkout, updated and deleted subscriptions).        *)

ChangePlan(h) ==
    /\ "plan" \in Ops
    /\ \E p \in Plans : Start(h, [Idle EXCEPT !.pc = "planCount", !.op = "plan", !.to = p])
    /\ UNCHANGED <<Data, faults>>

Fits(n, p) == MaxMembers[p] = Unlimited \/ n <= MaxMembers[p]

\* The other counted resources may forbid the change as well.
CountForPlan(h) ==
    /\ Doing(h, "planCount")
    /\ \/ reqs[h].to # plan /\ Fits(Cardinality(Members), reqs[h].to) /\ GoOn(h, "planSet")
       \/ Finish(h)
    /\ UNCHANGED <<Data, requested, faults>>

SetPlan(h) ==
    /\ Doing(h, "planSet")
    /\ plan' = reqs[h].to
    /\ Finish(h)
    /\ UNCHANGED <<users, member, elsewhere, clerk, spent, requested, faults>>

\* A webhook writes the plan that Stripe names; nothing is counted.
StripeSetsPlan(h) ==
    /\ "stripe" \in Ops
    /\ reqs[h] = Idle /\ requested < MaxRequested /\ requested' = requested + 1
    /\ \E p \in Plans \ {plan} : plan' = p
    /\ UNCHANGED <<users, member, elsewhere, clerk, reqs, spent, faults>>

-----------------------------------------------------------------------------
(* Deletion of the account: handleDeleteAccount. *)

DeleteAccount(h) ==
    /\ "delete" \in Ops
    /\ \E i \in Ids : /\ May(i, "delete")
                      /\ Start(h, [Idle EXCEPT !.pc = "snapshot", !.op = "delete", !.by = i])
    /\ UNCHANGED <<Data, faults>>

\* Members of no other tenant are deleted at the identity provider, which
\* answers with an error for an id that it does not know.  Any error ends
\* the request, after all of them have been tried.
DeleteClerkUsers(h) ==
    /\ Doing(h, "snapshot")
    /\ LET gone == Members \ elsewhere IN
          \/ /\ clerk' = clerk \ gone
             /\ faults' = faults
             /\ IF gone \subseteq clerk
                THEN reqs' = [reqs EXCEPT ![h].pc = "wipe", ![h].seen = Members]
                ELSE Finish(h)
          \/ \E out \in SUBSET gone : /\ out # {}
                                      /\ faults < MaxFaults
                                      /\ faults' = faults + 1
                                      /\ clerk' = clerk \ (gone \ out)
                                      /\ Finish(h)
    /\ UNCHANGED <<users, member, elsewhere, plan, spent, requested>>

DeleteMemberships(h) ==
    /\ Doing(h, "wipe")
    /\ member' = [i \in Ids |-> None]
    /\ GoOn(h, "wipeUsers")
    /\ UNCHANGED <<users, elsewhere, clerk, plan, spent, requested, faults>>

\* The users of the list read before, each by a count and a delete.
DeleteUsers(h) ==
    /\ Doing(h, "wipeUsers")
    /\ users' = [i \in Ids |-> IF i \in reqs[h].seen \ (elsewhere \cup Members) THEN "none"
                               ELSE users[i]]
    /\ Finish(h)
    /\ UNCHANGED <<member, elsewhere, clerk, plan, spent, requested, faults>>

-----------------------------------------------------------------------------

\* A request dies between two of its steps.
Crash(h) ==
    /\ reqs[h] # Idle
    /\ faults < MaxFaults
    /\ faults' = faults + 1
    /\ Finish(h)
    /\ UNCHANGED <<Data, requested>>

OnMember(h) == \/ Manage(h) \/ Check(h) \/ UpdateUserRole(h) \/ SuspendUser(h)
               \/ UnsuspendUser(h) \/ PromoteAdmin(h) \/ DemoteAdmin(h)
               \/ TransferOwnership(h) \/ RemoveUser(h) \/ LeaveElsewhere(h)

OnInvitation(h) == \/ Invite(h) \/ CountMembers(h) \/ LookupInvited(h) \/ CheckExists(h)
                   \/ CreatePlaceholder(h) \/ CreateMembership(h) \/ Answer(h)
                   \/ FindInvitation(h) \/ AcceptInvitation(h) \/ DenyInvitation(h)

OnSignIn(h) == \/ SignIn(h) \/ FindUser(h) \/ RelabelUser(h) \/ RelabelMemberships(h)
               \/ ActivateInvited(h) \/ SignUp(h)

OnTenant(h) == \/ ChangePlan(h) \/ CountForPlan(h) \/ SetPlan(h) \/ StripeSetsPlan(h)
               \/ DeleteAccount(h) \/ DeleteClerkUsers(h) \/ DeleteMemberships(h) \/ DeleteUsers(h)

NextMembers == \E h \in Handlers : OnMember(h) \/ OnInvitation(h) \/ OnSignIn(h) \/ OnTenant(h) \/ Crash(h)

SpecMembers == InitMembers /\ [][NextMembers]_memberVars

-----------------------------------------------------------------------------
(* Properties. *)

Quiet == \A h \in Handlers : reqs[h] = Idle

\* A tenant that has members has exactly one owner, and the owner is active:
\* the guards of handleUpdateUserRole, handleSuspendUser, handleRemoveUser
\* and handleTransferOwnership together.  Without it nobody can reach the
\* owner's routes.  And between requests an active user is a member of some
\* tenant: whoever takes the last membership takes the user as well (unless a
\* request died between the two).
OwnedAndBelonging ==
    /\ Members # {} => \E o \in Owners : Owners = {o} /\ member[o].status = "active"
    /\ Quiet /\ faults = 0 => \A i \in Ids : users[i] = "active" => i \in Members \cup elsewhere

\* Whatever adds a member leaves no more of them than the plan allows, and the
\* operators' applyPlanChange never picks a plan that the members do not fit
\* into, also after Stripe has lowered the plan under them: handleInviteUser
\* counts before it creates, and accepting, signing in under a new identity
\* and activating a placeholder move a row and never add one.  The exception
\* is an invitation whose count has failed (seen is empty).
MembersWithinLimit ==
    [][/\ Cardinality(Members') > Cardinality(Members) =>
             \/ Fits(Cardinality(Members'), plan')
             \/ \E h \in Handlers : Doing(h, "addmember") /\ reqs[h].seen = {}
       /\ plan' # plan /\ reqs' # reqs => Fits(Cardinality(Members'), plan')]_memberVars

\* Only a request to unsuspend makes a suspended membership active.
SuspensionHolds ==
    [][\A i \in Members : member[i].status = "suspended" /\ member'[i] # None =>
          \/ member'[i].status # "active"
          \/ \E h \in Handlers : Write(h, "unsuspend") /\ reqs[h].on = i]_memberVars

-----------------------------------------------------------------------------
(* What the documents and comments say and the code does not keep. *)

\* The plan's table of limits: a tenant never has more members than its plan
\* allows.
PlanHoldsItsMembers == Fits(Cardinality(Members), plan)

\* A membership belongs to a user: rows are not left behind under an id that
\* nobody can sign in with.
MembershipsHaveUsers == Quiet => \A i \in Members : users[i] # "none"

\* Only the invited person makes a pending membership active.
InviteeDecides ==
    [][\A i \in Members : member[i].status = "pending" /\ member'[i] # None =>
          \/ member'[i].status # "active"
          \/ \E h \in Handlers : reqs[h].op = "accept" /\ reqs[h].by = i]_memberVars

\* A change of role, a suspension or a removal never meets an owner.
OwnerProtected ==
    [][\A h \in Handlers : \A op \in {"role", "suspend", "remove"} :
          Write(h, op) /\ reqs'[h] = Idle /\ faults' = faults => reqs[h].on \notin Owners]_memberVars

\* Deleting the account fails at the identity provider only while that is
\* out of order: a later attempt can succeed.
DeletionRetryable ==
    [][\A h \in Handlers : Doing(h, "snapshot") /\ reqs'[h] = Idle => faults' # faults]_memberVars
=============================================================================

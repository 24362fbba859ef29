---------------------------- MODULE ModelGroups -----------------------------
(***************************************************************************)
(* The model groups of the tenants: rows in Postgres                       *)
(* (services/model_group_service.go, api/model_groups.go) and, on every    *)
(* pod, the map of the smart router that requests are routed by            *)
(* (provider/router.go), which the pod that handles a change brings up to  *)
(* date after it.  A pod starts with an empty map.                         *)
(*                                                                         *)
(* One step is one SQL statement or transaction, or one change of the map. *)
(* Of a group its name, whether it is enabled and a version that stands    *)
(* for strategy and deployments are kept.                                  *)
(***************************************************************************)
EXTENDS Integers

CONSTANTS
  Group,        \* ids of groups
  GroupName,    \* their names
  NoName,       \* no name
  TenantOf,     \* [Group -> tenant]
  Pod,          \* running api-servers
  GroupAdmin,   \* requests that may run at a time
  ServedBy,     \* [GroupAdmin -> Pod]
  MaxJobs,      \* bound: requests
  MaxMishaps    \* bound: failed statements, unresolved keys, restarts

ASSUME GroupAssumption == /\ "none" \notin Group /\ NoName \notin GroupName
                          /\ ServedBy \in [GroupAdmin -> Pod]

VARIABLES
  group,      \* [Group -> row]
  routed,     \* [Pod -> [GroupName -> the group and version registered]]
  job,        \* [GroupAdmin -> where a request is and what it has read]
  jobs,       \* requests begun
  mishaps     \* failures so far

groupVars == <<group, routed, job, jobs, mishaps>>

NewRow == [state |-> "new", name |-> NoName, on |-> FALSE, version |-> 0]
Unrouted == [group |-> "none", version |-> 0]
NoJob == [pc |-> "none", group |-> "none", name |-> NoName, on |-> FALSE, version |-> 0]

InitGroups ==
  /\ group = [g \in Group |-> NewRow]
  /\ routed = [p \in Pod |-> [n \in GroupName |-> Unrouted]]
  /\ job = [a \in GroupAdmin |-> NoJob]
  /\ jobs = 0 /\ mishaps = 0

JobAt(a, pc) == job[a].pc = pc
Leave(a) == job' = [job EXCEPT ![a] = NoJob]
Move(a, pc) == job' = [job EXCEPT ![a].pc = pc]
Exists(g) == group[g].state = "stored"
\* The unique index on tenant and name.
Taken(n, g) == \E h \in Group \ {g} : Exists(h) /\ group[h].name = n /\ TenantOf[h] = TenantOf[g]

StartJob(a, j) ==
  /\ job[a] = NoJob /\ jobs < MaxJobs
  /\ jobs' = jobs + 1
  /\ job' = [job EXCEPT ![a] = j]

-----------------------------------------------------------------------------
(* Create. *)

\* The INSERT.  gorm takes a FALSE for "not given", and the default is TRUE.
CreateGroup(a) ==
  /\ \E g \in Group, n \in GroupName :
        /\ group[g].state = "new" /\ ~Taken(n, g)
        /\ StartJob(a, [NoJob EXCEPT !.pc = "reload", !.group = g])
        /\ group' = [group EXCEPT ![g] = [state |-> "stored", name |-> n, on |-> TRUE, version |-> 1]]
  /\ UNCHANGED <<routed, mishaps>>

-----------------------------------------------------------------------------
(* Update. *)

UpdateGroup(a) ==
  /\ \E g \in Group, n \in GroupName, on \in BOOLEAN :
        /\ group[g].state # "new"
        /\ StartJob(a, [NoJob EXCEPT !.pc = "load", !.group = g, !.name = n, !.on = on])
  /\ UNCHANGED <<group, routed, mishaps>>

LoadGroup(a) ==
  /\ JobAt(a, "load")
  /\ IF Exists(job[a].group) THEN Move(a, "update") ELSE Leave(a)
  /\ UNCHANGED <<group, routed, jobs, mishaps>>

\* One transaction, rolled back when the name is taken or the row is gone (the
\* deployments refer to it).
UpdateRow(a) ==
  LET g == job[a].group
  IN /\ JobAt(a, "update")
     /\ IF Exists(g) /\ ~Taken(job[a].name, g)
        THEN /\ group' = [group EXCEPT ![g].name = job[a].name, ![g].on = job[a].on, ![g].version = @ + 1]
             /\ Move(a, "reload")
        ELSE Leave(a) /\ UNCHANGED group
     /\ UNCHANGED <<routed, jobs, mishaps>>

\* An enabled group is registered as the row says now.  A disabled one is removed
\* by the name this update gave it; Create does not remove.
Reload(a) ==
  LET r == group[job[a].group]
      update == job[a].name # NoName
  IN /\ JobAt(a, "reload")
     /\ \/ /\ Exists(job[a].group) /\ r.on
           /\ job' = [job EXCEPT ![a].pc = "sync", ![a].name = r.name, ![a].on = TRUE, ![a].version = r.version]
        \/ /\ Exists(job[a].group) /\ ~r.on /\ update
           /\ job' = [job EXCEPT ![a].pc = "sync", ![a].on = FALSE]
        \/ (Exists(job[a].group) => ~r.on /\ ~update) /\ Leave(a)
     /\ UNCHANGED <<group, routed, jobs, mishaps>>

Route(a, n, entry) == routed' = [routed EXCEPT ![ServedBy[a]][n] = entry]

\* Mutant: a disabled group stays registered.
SyncEnabledOnly(a) ==
  /\ JobAt(a, "sync")
  /\ IF job[a].on THEN Route(a, job[a].name, [group |-> job[a].group, version |-> job[a].version])
     ELSE UNCHANGED routed
  /\ Leave(a)
  /\ UNCHANGED <<group, jobs, mishaps>>

\* AddModelGroup with the keys resolved, or RemoveModelGroup.  The map's keys are
\* names, whatever the tenant.
SyncRouter(a) ==
  /\ JobAt(a, "sync")
  /\ Route(a, job[a].name, IF job[a].on THEN [group |-> job[a].group, version |-> job[a].version] ELSE Unrouted)
  /\ Leave(a)
  /\ UNCHANGED <<group, jobs, mishaps>>

-----------------------------------------------------------------------------
(* Delete. *)

DeleteGroup(a) ==
  /\ \E g \in Group : /\ Exists(g)
                      /\ StartJob(a, [NoJob EXCEPT !.pc = "delete", !.group = g, !.name = group[g].name])
  /\ UNCHANGED <<group, routed, mishaps>>

DeleteRow(a) ==
  /\ JobAt(a, "delete")
  /\ group' = [group EXCEPT ![job[a].group].state = "deleted"]
  /\ Move(a, "unroute")
  /\ UNCHANGED <<routed, jobs, mishaps>>

Unroute(a) ==
  /\ JobAt(a, "unroute")
  /\ Route(a, job[a].name, Unrouted)
  /\ Leave(a)
  /\ UNCHANGED <<group, jobs, mishaps>>

-----------------------------------------------------------------------------
(* Failures. *)

\* A statement fails; or configToModelGroup finds a deployment without a key,
\* and the map stays as it was ("will be retried").
JobFails(a) ==
  /\ job[a] # NoJob /\ mishaps < MaxMishaps
  /\ mishaps' = mishaps + 1
  /\ Leave(a)
  /\ UNCHANGED <<group, routed, jobs>>

\* A pod restarts: nothing calls LoadAllForTenant.
RestartPod(p) ==
  /\ mishaps < MaxMishaps
  /\ mishaps' = mishaps + 1
  /\ routed' = [routed EXCEPT ![p] = [n \in GroupName |-> Unrouted]]
  /\ job' = [a \in GroupAdmin |-> IF ServedBy[a] = p THEN NoJob ELSE job[a]]
  /\ UNCHANGED <<group, jobs>>

-----------------------------------------------------------------------------
OnGroup(a) == \/ CreateGroup(a) \/ UpdateGroup(a) \/ LoadGroup(a) \/ UpdateRow(a) \/ Reload(a)
              \/ SyncRouter(a) \/ DeleteGroup(a) \/ DeleteRow(a) \/ Unroute(a)

NextGroups == \/ \E a \in GroupAdmin : OnGroup(a) \/ JobFails(a)
              \/ \E p \in Pod : RestartPod(p)

GroupSpec == InitGroups /\ [][NextGroups]_groupVars

-----------------------------------------------------------------------------
(* Properties. *)

Current(g) == [group |-> g, version |-> group[g].version]
Undisturbed == mishaps = 0 /\ \A a \in GroupAdmin : job[a] = NoJob

\* ModelGroupService "keeps the in-memory Router in sync with the database":
\* over any sequence of creations, updates, renamings and deletions, of one
\* tenant, on one pod and one at a time without failures, an enabled group is routed as it was last
\* saved, also when it took over the name of another, and under its present
\* name a disabled or deleted group is not.
GroupsFollow ==
  Undisturbed => \A p \in Pod, g \in Group :
    /\ Exists(g) /\ group[g].on => routed[p][group[g].name] = Current(g)
    /\ group[g].state # "new" /\ ~(Exists(g) /\ group[g].on) => routed[p][group[g].name].group # g

-----------------------------------------------------------------------------
(* What the documents and comments say and the code does not keep. *)

\* The same without the exception for former names: nothing is routed by a
\* name that no group has.
NoFormerNames ==
  Undisturbed => \A p \in Pod, n \in GroupName :
    routed[p][n] = Unrouted \/ \E g \in Group : Exists(g) /\ group[g].name = n
=============================================================================

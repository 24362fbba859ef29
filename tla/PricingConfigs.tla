--------------------------- MODULE PricingConfigs ---------------------------
(***************************************************************************)
(* A tenant's pricing configurations (api/pricing.go): named sets of       *)
(* rates, each assigned to gateway keys, whose prices precede contracts    *)
(* and standard prices (pricing/resolver.go).  The tables have no foreign  *)
(* keys: what belongs together is kept so by the order of the handlers'    *)
(* statements and by RevokeKey (services/apikey_service.go); the deletion  *)
(* of the account revokes every key and forgets no assignment.             *)
(*                                                                         *)
(* One step is one SQL statement.  A configuration has rates for one model *)
(* and one price type; names, amounts and the audit are left out.          *)
(***************************************************************************)
EXTENDS Integers, FiniteSets

CONSTANTS
  Config,         \* ids of configurations
  NoConfig,       \* no configuration
  KeyId,          \* gateway keys of the tenant
  ConfigAdmin,    \* requests that may run at a time
  MaxTasks,       \* bound: requests
  MaxMisses       \* bound: dead requests and failed statements

ASSUME NoConfigAssumption == NoConfig \notin Config

VARIABLES
  config,     \* [Config -> "new", "stored" or "deleted"]
  rates,      \* [Config -> Nat]: its pricing_config_rates rows
  assigned,   \* [KeyId -> Config or NoConfig]: the api_key_configs row
  keyState,   \* [KeyId -> "live", "revoked" (by RevokeKey) or "closed" (by the
              \* deletion of the account)]; api_keys.revoked tells the first from the rest
  task,       \* [ConfigAdmin -> where a request is]
  tasks,      \* requests begun
  dead,       \* requests that died between two statements
  ignored     \* failed statements whose error nobody looked at

rowVars == <<config, rates, assigned, keyState>>
configVars == <<rowVars, task, tasks, dead, ignored>>

NoTask == [pc |-> "none", op |-> "none", config |-> NoConfig, key |-> "none"]

InitConfigs ==
  /\ config = [c \in Config |-> "new"]
  /\ rates = [c \in Config |-> 0]
  /\ assigned = [k \in KeyId |-> NoConfig]
  /\ keyState = [k \in KeyId |-> "live"]
  /\ task = [a \in ConfigAdmin |-> NoTask]
  /\ tasks = 0 /\ dead = 0 /\ ignored = 0

TaskAt(a, pc) == task[a].pc = pc
Proceed(a, pc) == task' = [task EXCEPT ![a].pc = pc]
Done(a) == task' = [task EXCEPT ![a] = NoTask]
Counts == <<tasks, dead, ignored>>

Begin(a, t) ==
  /\ task[a] = NoTask /\ tasks < MaxTasks
  /\ tasks' = tasks + 1
  /\ task' = [task EXCEPT ![a] = t]
  /\ UNCHANGED <<dead, ignored>>

-----------------------------------------------------------------------------
(* Every request about a configuration looks it up first. *)

\* The step behind the lookup.
AfterVerify == [delete |-> "rates", addRate |-> "existing", dropRate |-> "dropRate",
                assign |-> "key", unassign |-> "unassign"]

CreateConfig(a) ==
  /\ \E c \in Config : config[c] = "new" /\ config' = [config EXCEPT ![c] = "stored"]
  /\ task[a] = NoTask /\ tasks < MaxTasks
  /\ tasks' = tasks + 1
  /\ UNCHANGED <<rates, assigned, keyState, task, dead, ignored>>

AskConfig(a) ==
  /\ \E op \in DOMAIN AfterVerify, c \in Config, k \in KeyId :
        /\ config[c] # "new"
        /\ Begin(a, [pc |-> "verify", op |-> op, config |-> c, key |-> k])
  /\ UNCHANGED rowVars

Its(a) == task[a].config

VerifyConfig(a) ==
  /\ TaskAt(a, "verify")
  /\ IF config[Its(a)] = "stored" THEN Proceed(a, AfterVerify[task[a].op]) ELSE Done(a)
  /\ UNCHANGED <<rowVars, Counts>>

-----------------------------------------------------------------------------
(* handleDeletePricingConfig: rates, assignments, configuration. *)

Unassigned(c) == [k \in KeyId |-> IF assigned[k] = c THEN NoConfig ELSE assigned[k]]

\* Mutant: the configuration goes before what refers to it.
DeleteRatesLast(a) ==
  /\ TaskAt(a, "rates")
  /\ config' = [config EXCEPT ![Its(a)] = "deleted"]
  /\ Proceed(a, "assignments")
  /\ UNCHANGED <<rates, assigned, keyState, Counts>>

DeleteRates(a) ==
  /\ TaskAt(a, "rates")
  /\ rates' = [rates EXCEPT ![Its(a)] = 0]
  /\ Proceed(a, "assignments")
  /\ UNCHANGED <<config, assigned, keyState, Counts>>

DeleteAssignments(a) ==
  /\ TaskAt(a, "assignments")
  /\ assigned' = Unassigned(Its(a))
  /\ Proceed(a, "config")
  /\ UNCHANGED <<config, rates, keyState, Counts>>

DeleteConfig(a) ==
  /\ TaskAt(a, "config")
  /\ config' = [config EXCEPT ![Its(a)] = "deleted"]
  /\ Done(a)
  /\ UNCHANGED <<rates, assigned, keyState, Counts>>

-----------------------------------------------------------------------------
(* handleAddConfigRate, handleDeleteConfigRate. *)

\* An existing row is updated, which changes nothing here.
FindRate(a) ==
  /\ TaskAt(a, "existing")
  /\ IF rates[Its(a)] > 0 THEN Done(a) ELSE Proceed(a, "createRate")
  /\ UNCHANGED <<rowVars, Counts>>

\* No unique index.
CreateRate(a) ==
  /\ TaskAt(a, "createRate")
  /\ rates' = [rates EXCEPT ![Its(a)] = @ + 1]
  /\ Done(a)
  /\ UNCHANGED <<config, assigned, keyState, Counts>>

\* One row by its id, which may be gone.
DeleteRate(a) ==
  /\ TaskAt(a, "dropRate")
  /\ \/ rates[Its(a)] > 0 /\ rates' = [rates EXCEPT ![Its(a)] = @ - 1]
     \/ UNCHANGED rates
  /\ Done(a)
  /\ UNCHANGED <<config, assigned, keyState, Counts>>

-----------------------------------------------------------------------------
(* handleAssignPricingConfig, handleUnassignPricingConfig, RevokeKey, and  *)
(* the deletion of the account.                                            *)

CheckKey(a) ==
  /\ TaskAt(a, "key")
  /\ IF keyState[task[a].key] = "live" THEN Proceed(a, "clear") ELSE Done(a)
  /\ UNCHANGED <<rowVars, Counts>>

ClearAssignment(a) ==
  /\ TaskAt(a, "clear")
  /\ assigned' = [assigned EXCEPT ![task[a].key] = NoConfig]
  /\ Proceed(a, "assign")
  /\ UNCHANGED <<config, rates, keyState, Counts>>

\* The unique index on key_id refuses a second row.
CreateAssignment(a) ==
  /\ TaskAt(a, "assign")
  /\ assigned' = [assigned EXCEPT ![task[a].key] = IF @ = NoConfig THEN Its(a) ELSE @]
  /\ Done(a)
  /\ UNCHANGED <<config, rates, keyState, Counts>>

Unassign(a) ==
  /\ TaskAt(a, "unassign")
  /\ assigned' = Unassigned(Its(a))
  /\ Done(a)
  /\ UNCHANGED <<config, rates, keyState, Counts>>

\* RevokeKey: the key, and in a second statement its assignment.
RevokePricedKey(a) ==
  /\ \E k \in KeyId :
        /\ Begin(a, [NoTask EXCEPT !.pc = "forget", !.key = k])
        /\ keyState' = [keyState EXCEPT ![k] = "revoked"]
  /\ UNCHANGED <<config, rates, assigned>>

\* handleDeleteAccount, which goes on with other tables, or ends there when the
\* identity provider fails: the account then lives on without its keys.
RevokeAllKeys(a) ==
  /\ task[a] = NoTask /\ tasks < MaxTasks
  /\ tasks' = tasks + 1
  /\ keyState' = [k \in KeyId |-> IF keyState[k] = "live" THEN "closed" ELSE keyState[k]]
  /\ UNCHANGED <<config, rates, assigned, task, dead, ignored>>

ForgetAssignment(a) ==
  /\ TaskAt(a, "forget")
  /\ assigned' = [assigned EXCEPT ![task[a].key] = NoConfig]
  /\ Done(a)
  /\ UNCHANGED <<config, rates, keyState, Counts>>

-----------------------------------------------------------------------------
(* Failures. *)

\* A request dies, or a statement fails whose error ends it.
DieConfig(a) ==
  /\ task[a] # NoTask /\ dead + ignored < MaxMisses
  /\ dead' = dead + 1
  /\ Done(a)
  /\ UNCHANGED <<rowVars, tasks, ignored>>

\* The statements whose error nobody looks at, and what follows: any error of
\* the SELECT of a rate means that there is none.
AfterError == [rates |-> "assignments", assignments |-> "config", existing |-> "createRate",
               clear |-> "assign", config |-> "none", forget |-> "none"]

IgnoreError(a) ==
  /\ task[a].pc \in DOMAIN AfterError /\ dead + ignored < MaxMisses
  /\ ignored' = ignored + 1
  /\ IF AfterError[task[a].pc] = "none" THEN Done(a) ELSE Proceed(a, AfterError[task[a].pc])
  /\ UNCHANGED <<rowVars, tasks, dead>>

-----------------------------------------------------------------------------
OnConfig(a) == CreateConfig(a) \/ AskConfig(a) \/ VerifyConfig(a) \/ DeleteRates(a) \/ DeleteAssignments(a) \/ DeleteConfig(a)
OnRate(a) == FindRate(a) \/ CreateRate(a) \/ DeleteRate(a)
OnAssignment(a) == \/ CheckKey(a) \/ ClearAssignment(a) \/ CreateAssignment(a) \/ Unassign(a)
                   \/ RevokePricedKey(a) \/ ForgetAssignment(a) \/ RevokeAllKeys(a)

NextConfigs == \E a \in ConfigAdmin : OnConfig(a) \/ OnRate(a) \/ OnAssignment(a) \/ DieConfig(a) \/ IgnoreError(a)

ConfigSpec == InitConfigs /\ [][NextConfigs]_configVars

-----------------------------------------------------------------------------
(* Properties. *)

\* resolveFromDB: the rates that price a request of key k before contracts and
\* standard prices are looked at.
KeyRates(k) == IF assigned[k] = NoConfig THEN 0 ELSE rates[assigned[k]]

\* Without foreign keys or transactions, and wherever a request dies: rates and
\* assignments belong to configurations that exist (handleDeletePricingConfig
\* deletes what refers to a configuration first), a request is priced by at most
\* one rate of its key's configuration, and no key that RevokeKey has revoked
\* has an assignment once the requests are done.  For one request at a time
\* whose statements, where errors are ignored, do not fail.
ConfigsConsistent ==
  ignored = 0 =>
    /\ \A c \in Config : config[c] # "stored" => rates[c] = 0 /\ \A k \in KeyId : assigned[k] # c
    /\ \A k \in KeyId : KeyRates(k) <= 1
    /\ dead = 0 /\ (\A a \in ConfigAdmin : task[a] = NoTask) =>
         \A k \in KeyId : keyState[k] = "revoked" => assigned[k] = NoConfig

-----------------------------------------------------------------------------
(* What the documents and comments say and the code does not keep. *)

\* "A config is associated with at most one API key" (models/pricing.go:103).
OneKeyPerConfig == \A j, k \in KeyId : assigned[j] = assigned[k] /\ assigned[j] # NoConfig => j = k

\* "Remove any pricing config association for this key"
\* (services/apikey_service.go:202), of keys that anything has revoked.
RevokedKeysUnassigned ==
  dead + ignored = 0 /\ (\A a \in ConfigAdmin : task[a] = NoTask) =>
    \A k \in KeyId : keyState[k] # "live" => assigned[k] = NoConfig
=============================================================================

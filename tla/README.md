# TokenGate: a TLA+ verification project

TokenGate (burnrate.ai) is a gateway for LLM providers. It authenticates a
request by a gateway key, checks rate limits and budgets, forwards the request
to a provider, counts the tokens of the answer, and settles their cost later.
Around that core it keeps tenants, members, projects, provider keys, a Stripe
subscription, alerts and audit reports. Several api-server pods share one
Postgres and one Redis.

This directory models the Go code of `src/api-server/internal` (paths below are
relative to it), checks the models with TLC on small instances and proves the
most important properties with TLAPS for all instances. `PROJECT.json` lists the
components, the runs, the mutants that show each property can fail, the lines of
code behind each definition, the hazards and the theorems.

    cd tla
    tlc -workers 2 -config MCProxy.cfg MCProxyBudget     # a run
    tlapm GatewayProofs.tla                              # proofs

## 1. Inventory

| Component | State | Operations | Hard behaviour |
|---|---|---|---|
| Proxy handlers (`proxy/handler.go`, `responses_handler.go`, `stream.go`) | per request: reservation, timestamps, token counts | HandleProxy, HandleResponses | many early returns after money was reserved; bookkeeping in a goroutine or on a cancelled context |
| Budget gate (`pricing/engine.go`) | Redis counters of spend and of reservations per scope and period | PreCheckBudget, ReserveSpend, ReleaseReservation | check and reservation are separate; periods roll over between them |
| Usage stream and worker (`events/queue.go`, `worker.go`) | Redis stream, consumer group, pending list | Publish, Run, process, XACK | duplicates, crashes between two writes, entries left pending |
| Settlement (`pricing/engine.go`, `services/usage_service.go`, `api/usage.go`) | cost ledger, usage log, budget counters | Process: price, check, ledger, increment | four stores, no transaction; agents report usage concurrently |
| Rate limiter (`ratelimit/limiter.go`) | Redis counters per limit and window | Check, Reconcile | increment first, look afterwards, roll back; windows change in between |
| Smart routing (`provider/health.go`, `strategy.go`, `retry.go`, `ratelimit_tracker.go`, `proxy/smart_proxy.go`) | health, cooldown and backoff of deployments, round-robin counter | Select, ExecuteWithRetry, handleStream, RecordSuccess/Failure | outcomes of concurrent requests in any order; overflow of the backoff |
| Stripe billing (`services/stripe_service.go`, `api/billing.go`, part of `api/users.go`) | tenant row; Stripe's subscriptions; processed events | checkout, verify, downgrade, cancel, change, status self-heal, five webhooks | webhooks repeated and out of order; Stripe and the row change in separate steps |
| Provider keys (`services/providerkey_service.go`, `api/provider_keys.go`) | keys, active key; Redis copy of the settings; plaintexts per pod | Store, Activate, Rotate, Revoke, GetActiveKey | two caches with two TTLs each, filled by requests that overlap with a revocation |
| Gateway keys (`services/apikey_service.go`, `api/apikeys.go`) | keys; Redis copies | CreateKey, ValidateKey, RevokeKey | a copy written after the deletion of the copy |
| Members (`api/users.go`, `api/auth.go`, `api/account.go`, `middleware/rbac.go`) | users, memberships, plan; Clerk identities | invitations, roles, suspension, removal, ownership, sign-in, plan change, account deletion | check in one statement, write in another; no transaction around several |
| Projects (`api/projects.go`, `authz/*`) | projects, roles in projects | create, archive, members and roles | six handlers write roles; keys are created while a project is archived |
| Notifications (`events/notification_*.go`, `api/notifications.go`) | stream, debounce marks, channels | Publish, processMessage, channel CRUD | two pods and one mark; failure after the mark |
| Audit reports (`api/audit.go`, `services/audit_service.go`, `events/report_*.go`, `services/objectstore.go`) | report rows, job stream, objects | create, generate, upload, complete, delete | lost answers, deletion during generation, dead workers |
| Limits and their copies (`api/ratelimits.go`, `api/pricing.go`, loadLimits, loadBudgetLimits, Resolve) | rate limit and budget rows; Redis copies of limits, budgets and resolved prices | upsert, delete, InvalidateCache, load | count, then insert; copies filled by requests that overlap with a change; prices not invalidated at all |
| Pricing configurations (`api/pricing.go`, `pricing/resolver.go`) | configurations, rates, assignments to gateway keys | create, delete, add or delete a rate, assign, unassign | no foreign keys, no transaction, ignored errors |
| Model groups (`services/model_group_service.go`, `api/model_groups.go`, `provider/router.go`) | rows; each pod's map from names to groups | Create, Update, Delete, AddModelGroup, RemoveModelGroup | the map is brought up to date by name, on one pod, after the row |
| Personal notifications, audit log, dashboard reads, provider adapters, platform operators, start-up, browser dashboard | see `PROJECT.json` | | not modelled (section 8) |

How they interact: the middleware validates the gateway key (gateway keys); the
proxy handlers call the rate limiter, the budget gate and, for the provider's
secret, the provider keys; smart routing replaces the plain upstream call for
model groups; after the answer the handlers release the reservation, reconcile the
output tokens and publish a usage event, which a worker of any pod settles. The
budget gate reads what settlement wrote. Budget and rate limit code publishes
alerts. Plans, changed by billing or by members' handlers, limit members, keys,
projects and channels; removing a member or the account reaches into projects and
keys. The limiter and the engine read limits, budgets and prices through copies
that the administration deletes; the router reads the map that the model group
service fills, with secrets from the provider keys.

What makes each part correct: money is charged at most once per request, what is
acknowledged is recorded, counters stay within blocking limits and equal what they
count; every reservation is returned; a limit admits no more than it says; a
deployment cools down only when it earned it and every request is answered; the
tenant's plan agrees with what Stripe charges; revoked keys go out of use in
bounded time; a tenant has exactly one owner and no more members than its plan; no
role outlives a membership; a changed limit or price takes effect in bounded time,
plans bound the number of limits, rates belong to configurations that exist and
requests are routed by the groups as they were last saved; alerts are neither repeated within the debounce nor
lost; a completed report has its file.

## 2. Modules and how they follow the code

One step of a model is what the code does atomically: one SQL statement or
transaction, one Redis command or pipeline, one call of an external service, or one
section under a mutex. Between two steps every other actor may run. Failures are
counted by a `faults` variable up to `MaxFaults`, chosen by kind (`FaultKind`)
where properties tell kinds apart. Every module but ModelGroups has one tenant.
**RequestPath** holds what RateLimiter and ProxyBudget share (requests in some
status, the clock, the count of faults), **Sums** the sum of a function over a
finite set.

* **UsageLedger** - what the pipeline promises, as an abstract specification:
  charge an event once, log it, acknowledge it, each in one atomic step.
  UsagePipeline instantiates it with its ledger rows, their sum, the usage log and
  the events of the entries that left the pending list (`Ledger`), and
  `ImplementsLedger` says that it is implemented.

* **UsagePipeline** - stream, group, pending list, ledger, usage log and counters
  are variables; each worker or reporter has a program counter through
  `process`/`Process`. An event is its idempotency key. `Publish` may repeat,
  because go-redis retries an XADD whose reply was lost. One budget period. The
  counters checked are read in one step (the code reads them in a row before any
  write). The creation of the group is retried by the next start of a pod and
  succeeds in the end. Two requests that share a message id (an empty one, for
  example) are not modelled.
* **ProxyBudget** - the lifecycle of a request of either handler as statuses, with
  every early return, and the settlement of its usage event (or its duplicate) by the
  workers of several pods: budget check, ledger row and counters are separate steps,
  as in `Process`. A limit has a scope (account or key), a provider or any, an action
  and an enabled flag; the pre-check and the check at settlement read them
  differently, as the code does (`Blocks`, `OverBudget`), and reservations do not
  know the provider (`GetReserved`). At the period's end Redis keys expire.
  The GETs of one pre-check are one step: spend only grows within a period, and a GET
  that fails reads less. Limits of the week and month differ from those of the day in
  their length only. Alert thresholds set headers and notify, and requests of keys
  that are not billed by usage pass no budget; both are left out.
* **RateLimiter** - Check's three pipelines are separate steps of each request;
  a counter is per limit and window; Reconcile uses the window of the clock, as the
  code does. All windows are `WindowTicks` long.
* **SmartRouter** - clients send plain or streaming requests; the health record is
  shared. `Select` is one step; latencies are abstracted (lowest-latency may pick
  any candidate); a tick is 30 seconds, the base cooldown; `CooldownDur` keeps the
  sign of the 64-bit product (`SignBit`), and `CounterMod` stands for 2^64.
  `LastFailure` is read nowhere; `Router.Route` is used by tests only. The loop of
  `healthyDeployments` is a recursive function of the number of deployments seen. A
  group lists no deployment twice: they are rows with ids of their own.
* **StripeBilling** - Stripe's subscriptions and event log, the tenant's row, and
  handlers that read the row, call Stripe and write the row in three steps. A plan
  is its level; a session and the subscription it creates share a name. Dates,
  customers, payment methods and audit entries are left out. Stripe is external.
* **ProviderKeys** - the keys of one provider; the Redis entry and each pod's map
  carry an idle and a hard expiry. `Delay` is the longest time from a read of
  Postgres to the write of a cache. Encryption and formats are left out.
* **ApiKeys** - rows, Redis copies with a TTL, validating requests and
  administrators. The secret presented is the right one; `last_seen_at` and the
  pricing assignment are left out. `Delay` as above.
* **Projects** - composes with ApiKeys: it EXTENDS it and its `NextProjects`
  conjoins every step on a key with the checks `api/apikeys.go` makes first, so
  that `SpecProjects => Spec` (a theorem). Projects, roles in projects, removal of a
  member and of the account. Names are left out. An invitation, its acceptance or
  denial and a change of role are one step each, pending members are kept apart
  (`invited`), suspended ones are not. A user is a person by address, so the relabels
  of a sign-in (`auth.go:121`, `:173`) change nothing. The reads of the middleware are
  merged with the request.
* **Membership** - users, memberships, plan and the requests of
  `api/users.go`, `auth.go`, `account.go` as programs of statements. Ids are fresh.
  The two reads of the middleware are one step, and so are the lookups of the
  sign-in. An invitation takes a failed count for 0 (`users.go:291`). A webhook that
  sets the plan (`stripe_service.go:768`, `:816`) is one step, `StripeSetsPlan`, to
  any plan. Clerk is external and answers unknown ids with an error.
* **Notifications** - stream, workers with their batch, debounce marks with an
  expiry, channels and the handlers that change them. The code's gorm tag
  `default:true` turns `enabled: false` into true on creation, and `Save` inserts a
  row that was deleted meanwhile: both are in the model. A SETNX that go-redis
  repeats after a lost reply finds its own mark. XACK is left out: nothing reads the
  pending list.
* **AuditReports** - rows, job stream, object store, handlers and workers. The
  contents of a file are the report it was made for; names have a resolution of one
  second (`second`). The group exists; XACK is left out as above.
* **LimitConfig** - one of three tables per behaviour: rate limits, budgets, or
  prices (which have no invalidation). A slot is a value of the unique index; of a
  row the id and the enabled flag are kept. `Save`, `FirstOrCreate` and the column
  default are modelled as gorm executes them: an UPDATE by id that may turn into an
  INSERT, a SELECT of its own before UPDATE or INSERT, and a FALSE that is taken for
  "not given". A copy carries the version of the table it was loaded at.
  `ReadDelay` is the longest time from the SELECT to the SET.
* **PricingConfigs** - one model and one price type; every request is the list of
  its statements, with the errors the code ignores as a fault of their own. Keys are
  revoked one by one (`RevokePricedKey`, which deletes the assignment) or all with the
  account (`RevokeAllKeys`, which does not).
* **ModelGroups** - rows and each pod's map; the strategy and the deployments of a
  group are a version number. A deployment without a key leaves the map as it was.
  LoadAllForTenant is not in the model because nothing calls it.

`MC*.tla` and `MC*.cfg` are the instances; MCSettings puts LimitConfig,
PricingConfigs and ModelGroups, which share no state, into one, with one of them
moving in each behaviour. `*Proofs.tla` hold the theorems.
Definitions marked `Mutant:` are plausible bugs; each replaces one definition and
makes one property fail.

## 3. Runs

| Run | Instance | Shows |
|---|---|---|
| `usage` (MCUsage) | 2 workers and a reporter, three entries of a priced event, a report of it or of an unpriced one, limits 2 and 1, any 1 fault of 7 kinds | the pipeline implements UsageLedger; counters pass no limit by more than one event per other worker, and never lag the ledger; without a fault only events over budget are left pending; every entry is taken and let go of |
| `proxy` (MCProxy) | 2 requests (one of /v1/responses) of 2 keys and 2 providers, 2 periods, a limit of the account, an `alert_block` one of a provider and a disabled one of a key, 2 pods, any 2 faults of 6 kinds | reservations add up in every scope; a request is refused only when what its limits count, and the reservations outstanding, reach one; usage is dropped only when it would pass a limit of its own; reservations come back unless something failed |
| `rate` (MCRate) | 3 requests, a request limit of 2 and a token limit of 6, 2 windows of 2 ticks, 1 fault | no window admits more than its limits, in requests or tokens; a rejected request leaves no trace; every counter gets its expiry |
| `router` (MCRouter) | a plain and a streaming client, 2 deployments of weights 1 and 2, 4 strategies, 4 outcomes, streaks of 3 failures | cooldowns are earned; levels count rounds of failures; weighted round-robin gives each healthy deployment its share; plain requests are answered |
| `billing_sequential` (MCBillingSequential) | 1 request at a time, events in order, 2 subscriptions, 4 plans (one without a price), 5 turns | the row agrees with Stripe whenever all is handled; a pending downgrade leaves the plan alone; only the end of the present subscription clears the row |
| `billing_concurrent` (MCBillingConcurrent) | 2 requests, events in any order, 1 subscription, 2 turns, 2 faults | no event is applied twice, or dropped without a failure of its own; no plan is granted unpaid; every event is answered with 200 in the end |
| `keys` (MCKeys) | 2 keys, 2 pods, 1 request, 1 administrator, TTLs of 2, time 4, 1 fault | revoked keys and superseded settings go out of use within the hard TTL and one delay; the active key is not a revoked one |
| `members` (MCMembers) | 5 ids of 3 people, a plan of 2 and one without limit, 5 requests or changes by Stripe one after the other, 1 crash or failed count | exactly one active owner; nobody becomes a member beyond the limit unless the count failed; users belong; only an unsuspension ends a suspension |
| `projects` (MCProjects) | 1 key, 1 validating request, 1 administrative request at a time, owner and a pending or active editor, 2 projects, TTL 1, time 3, 1 fault | revoked keys end within a TTL and a delay, expired ones at once; a project is archived only without keys in use; only the denial of an invitation leaves a role without its membership |
| `notifications` (MCNotifications) | 2 pods, 2 alerts of one kind, 2 channels, 1 request, time 2, 1 fault of 7 kinds | the debounce holds between pods; without failures a channel that wants an alert hears of it |
| `reports` (MCReports) | 2 reports, 1 handler, 2 workers, 2 seconds, 1 fault | completed reports keep their file and are not reopened; without failures every report ends |
| `settings` (MCSettings) | limits: 3 slots, a plan of 1, 2 administrators and a gateway request, 3 requests, TTL 1, delay 1, time 3, 1 failure; configurations: 2, 2 keys, 7 requests one at a time, 1 dead or ignored statement; groups: 2, 2 names, 6 requests one at a time, 1 mishap | limits and prices go out of use within a TTL and a delay; the plan is exceeded by at most one row per other request or failed count; rates and assignments belong to live configurations; the map follows the rows |

Why the bounds are enough to be interesting: two copies of an event, two workers
and one reporter give every overlap of two settlements; two requests to two providers let
one meet the other's spend and reservation, two faults let a lost release or a
duplicate be followed by another failure, and two periods let a release or a late
event meet the next one; three rate-limited requests are needed so that two are
admitted and a third meets their sum; two windows let a request be checked in one and
reconciled in the next; three failures are one round of the health record, and the
weights make the counter's modulus differ from the number of deployments; five
turns of billing suffice for checkout, downgrade, cancellation, change and period
end in one history; a TTL of 2 with time 4 lets a cache entry be written, extended,
go stale and end; five member requests suffice for invite, suspend, sign-up,
unsuspend and one more; three slots and two administrators let a plan of one be
passed by two inserts at once and a row be found, deleted and inserted again; seven
requests on configurations create two, give both rates and assign, delete and
revoke; six on groups let one take the name of another that was disabled, renamed or
deleted. `CHECK_DEADLOCK FALSE` is used because every instance has a
bounded supply of requests and may come to rest.

Symmetry is used for subscriptions, keys, slots and administrators, which differ
only in their rows or requests, and in runs without liveness properties only.

Limits of some properties, which hold only as stated: `CounterWithinLimit` allows
one event per other worker, because two workers both pass the check;
`LeftOnlyOverBudget` and the lag in `CounterCoversLedger` are about histories
without a fault of the kinds they name; `CountersBounded` and `CounterExact` excuse
a reconciliation that met a window without the reservation; `ReservationsConserved`
excuses lost Redis commands and releases in a later period; `Converged` excludes a
pending downgrade and a portal change that met a pending cancellation (`skipped`),
and its run leaves the verification of a checkout to the concurrent one;
`ActiveIsLive`, `OwnedAndBelonging`, `MembersWithinLimit`, `SuspensionHolds`,
`MembersBelong`, `ArchivedEmpty`, `KeepsPlanWhilePending`, `OnlyEndedIsCleared`,
`ConfigsConsistent` and `GroupsFollow` are checked for one administrative request at
a time, because the code does not keep them otherwise (sections 5 and 7): an
acceptance, for example, checks at `users.go:434` and updates at `:438`, and a
suspension in between is undone. `GroupsFollow` is about one pod and one tenant.
`RefusedOnlyWhenCommitted` counts a reservation that was never returned as
outstanding, so it bounds what a lost one costs and does not exclude it, and
`EventuallyReleased`, `EventuallyAlerted` and `EventuallyDone` excuse the runs in which
something failed, where the code leaves a reservation, drops an alert or leaves a
report RUNNING. `MembersWithinLimit` is about who joins and what operators set;
`MembersBelong` excepts the denial of an invitation, `ConfigsConsistent` the keys
revoked with the account (section 7). `WeightedShare` is about the deployments healthy
at one time. Limits that the code enforces by a count followed by
an insert are stated for concurrent requests only for rate limits and budgets
(`LimitsWithinPlan`); keys, channels, projects and pending reports follow the same
pattern.

## 4. Fairness

* UsagePipeline: a worker's loop runs on (weak fairness of its next step) and so
  does a reporter's request; the group is created in the end. Nothing forces a
  publication.
* ProxyBudget: a handler past its start runs on; the transport's header timeout and
  the provider's end of the answer bound the wait. No fairness on clients, crashes
  or the clock.
* SmartRouter: the handler's own steps. The end of a stream is not assumed: the
  code has no deadline for it.
* StripeBilling: handlers finish, and Stripe repeats an unanswered event (its
  documented retry policy).
* Notifications and AuditReports: the workers' loops run on; a report's handler
  finishes its publication. No failure is ever forced, and properties excuse runs
  in which one happened where the code has no retry.
* The other modules state no liveness: their requests end by themselves, and what
  must happen in time is stated with the clock.

## 5. Proofs

TLAPS proves these for every value of the constants that satisfies the modules'
named assumptions: any number of requests, workers, pods, members or deployments,
any limits and times, any number of faults. All safety properties of the runs,
invariants and action properties, are theorems. The argument is an inductive
invariant each time: the property, plus what each process has achieved by its
program counter, plus what the stores then contain.

* `UsagePipelineProofs`: `TypeCorrect`; `AckedOnlyWhenRecorded` from `SafetyInv`,
  which adds to the goal what each process has achieved (`HandInv`): a worker about
  to acknowledge holds an entry whose event has its ledger and log rows.
  `PipelineImplementsLedger`, the refinement: with `SafetyInv` and `GroupInv`
  (nothing is delivered before the group exists) every step is a charge, a log, an
  acknowledgement or a stutter of UsageLedger (`LedgerStep`). `WorkersWithinLimit`
  from `LimitInv`: either the counter has room for the dearest event once per worker
  past the check, or for all of them but the one that passed last, with that one's
  own cost (`Room`). `CountersCoverLedger` from `CoverInv`: a counter and what its
  processes have still to add cover the ledger, and it holds no more than the
  entries that are past it, each once. `OnlyOverBudgetIsLeft` from `LeftInv`: without faults an entry is
  pending because a worker still has it in hand or because its event is over a budget,
  and stays over it, since nothing takes spend back (`OverStays`).
* `GatewayProofs`, the path of a request.
  Rate limiter: `TypeCorrect`; `RequestLimitHolds` from `RequestInv`: per limit and
  window the requests whose increment returned a value within the limit are among
  the holders counted by the counter, and their number never exceeds the limit,
  because values returned are distinct and counted from the holders present.
  `CountersExact` from `ExactInv`: a counter is the sum of what its holders added.
  `CountersExpireOnceDecided` from `ExpiryInv`: a counter without expiry belongs to a
  check that met it empty and has yet to set it.
  Smart router: `CooldownIsEarned` and `RoundsAreCounted` from `HealthInv`, the
  arithmetic of failures, level and cooldown. `WeightsAreShared`: each candidate is
  chosen for the remainders between two partial sums of the weights
  (`ShareOfSequence`), and a cycle of the counter meets every remainder once
  (`WindowShare`); the filter loop keeps the deployments distinct (`LoopFilters`).
  Budgets: `ReservationsAreConserved`, `RefusedOnlyCommitted` and
  `DropsAreOverBudget` from `BudgetInv`: what a request has reserved and published by
  its status (`HandlerInv`), a reservation counter as a sum over requests
  (`ReservedInv`), and of a spend counter that it never exceeds the entries that
  have incremented it (`Counted`, `SpendInv`), whichever increments were lost, so that
  what either check reads is no more than what was charged.
* `StripeBillingProofs`: `EventsAppliedOnce` and `PlansArePaidFor` from
  `BillingInv`: a marked event has at most one handler; every event and every job
  in hand carries a plan that Stripe has charged. `DropsTakeFailures` from `LostInv`:
  each event marked and not applied is either in the hands of a handler or accounted
  to a failure of its own. `OnlyEndedSubscriptionsAreCleared` from `ClearInv`, which
  follows the end of a subscription to the row; `PendingKeepsPlan` from `PendingInv`,
  what a request knows of the row it read; `RowConverges` from `ConvergeInv`: the
  last event that tells of a subscription says what it is by now, and the row takes
  it over, except for what a pending downgrade or the request at hand holds back.
* `ProviderKeysProofs`: `KeyTypes`, `StaleUseEnds` from `CacheInv`: every entry and
  every request that is about to write one carries a time of reading no later than
  the revocation (or change), and a hard expiry within one hard TTL of the write.
  `ActiveKeyIsLive`, for the times at which no administrator is at work and while
  nothing has failed, from `ActiveInv`: the settings name a live key, or the one whose
  revocation has yet to clear them.
* `ProjectsProofs`: for ApiKeys `ApiKeyTypes` and `KeyUseEnds` from `CopiesInv`,
  likewise, with the expiry of the copy being the row's; then
  `ProjectsImplementApiKeys` (each request of Projects takes a step of ApiKeys or
  leaves its variables alone), and with it `KeyUseEndsInProjects`.
  `RolesAreMembers` and `ArchivedProjectsAreEmpty` from `ProjectsInv`: what each
  request has checked or removed before its next statement, and no roles in projects
  that are not stored (a removal looks at the stored ones). Both are about steps: no
  step but a denial leaves a role without its membership (`RolesKept`), and the
  archiving step finds no unrevoked key; keys created in an archived project are
  `ArchivedHasNoKeys` in section 7.
* `TenantProofs`: `LimitTypes`; `LimitsGoOutOfUse` from `FreshInv`: what a
  request is about to store was read at most `ReadDelay` ago and before the write
  that replaced it, so a copy ends at most a TTL after that. `PlanNearlyKept` from
  `PlanInv`, which counts with the rows the slots of the requests that are past the
  count: only passing the count adds one, and then the rows were fewer than the plan.
  `ConfigsStayConsistent` from `ConfigInv`, what each statement of a request on a
  configuration relies on; `RouterFollowsGroups` from `GroupInv`: the group of the
  request at work is the only one that need not be routed as it is saved.
  `OneOwnerAndNobodyLeftOver`, `InvitationsKeepTheLimit` and
  `SuspensionsAreLiftedByAdminsOnly` from `MembersInv`: what a request on members is
  about and has made sure of, one active owner, one user per address, a membership
  for every active user outside the two statements that move both. The limit of
  members is about steps (`LimitKept`): a request past its count either found room
  for one more, or read no members because the count failed.
* `BackgroundProofs`: `TypeCorrect`, `DebounceHolds` from `IInv`: a mark in
  Redis covers the last alert of its kind that passed. For audit reports
  `CompletedReportsHaveFiles` from `FileInv` (what a worker has stored before it
  saves the name and completes the row) and `CompletedReportsStay` from `JobsInv` (the
  job of a report is in one place at most, and nowhere once it is completed).
* `SumTheorems`: what adding, removing or changing an element does to a sum over a
  finite set, and bounds of sums. Induction over a finite set is done without the
  library's induction theorems, which take an operator: `Smallest` gives a smallest
  counterexample, which the lemma contradicts; `LeastNatural` does the same for
  numbers, for the filter loop and the partial sums.

The named assumptions are the ranges of the constants (sets, natural numbers, the
shape of functions, a group without repetition); `Delay` and `ReadDelay` are the one
assumption about time: the code sets no deadline between reading Postgres and
writing the cache.

Some theorems have a hypothesis besides, the one under which their run checks the
property. Each is needed: without it TLC refutes the property on a small instance.

| Hypothesis | Theorems | Counterexample without it |
|---|---|---|
| `Ordered` | `OnlyEndedSubscriptionsAreCleared` | the instance of `DeleteKeepsNewer` in section 7 |
| one request at a time | `PendingKeepsPlan` | `KeepsPlanWhilePending` in section 7 |
| `Sequential`: `Ordered`, one request at a time, no failure | `RowConverges` | those two, and `NothingDropped` |
| no `verify` among `Ops` | the three above | MCBillingSequential with `verify`: a session verified late writes its plan over what came since |
| `OneAdmin` | `ActiveKeyIsLive` | `ActiveIsLive` in section 7 |
| `OneAtATime` | `RolesAreMembers`, `ArchivedProjectsAreEmpty` | MCProjects with two administrators |
| `OneConfigAdmin` | `ConfigsStayConsistent` | `ConfigsConsistent` in section 7 |
| `OneGroupAdmin`: one administrator, pod and tenant | `RouterFollowsGroups` | `GroupsFollow` in section 7, for each of the three |
| `OneRequest` | `OneOwnerAndNobodyLeftOver`, `InvitationsKeepTheLimit`, `SuspensionsAreLiftedByAdminsOnly` | MCMembers with two handlers and MaxFaults 0 |

Only model-checked: what holds under fairness (`EventuallyHandled`,
`EventuallyReleased`, `EventuallyReplied`, `EventuallyAcked`, `EventuallyAlerted`,
`EventuallyDone`), because liveness and ENABLED are beyond the installed provers.
`WeightedShare` and its theorem do not cover the cycle in which the counter wraps at
2^64.

## 6. Plan

1. Core: money (UsagePipeline, ProxyBudget, RateLimiter), then routing, billing,
   keys, members, projects, notifications, reports. Done.
2. Settings: limits and their copies, pricing configurations, model groups. Done.
3. An abstract ledger, implemented by UsagePipeline. Done, checked and proved. Open:
   a budget of committed amounts, implemented by ProxyBudget, and a composition of
   ProxyBudget with UsagePipeline, whose stream, usage log and acknowledgements it
   leaves out.
4. Proofs of all safety properties that the runs check. Done. Open: the same
   properties under weaker hypotheses where only some pairs of requests conflict, and
   a refinement of an abstract cache with bounded staleness by ApiKeys, ProviderKeys
   and LimitConfig, whose three invariants share their argument.

## 7. Where the code and its documents disagree

Each of these is stated as a definition at the end of its module, with the
sentence it comes from. TLC refutes it: replace the INVARIANT and PROPERTY lines
(and SYMMETRY) of the configuration by the one named, with the changes given.

| Definition | How to see it | What happens |
|---|---|---|
| `FailedIsRedelivered` | PROPERTY in MCUsage | `Run` reads only new entries and nothing claims pending ones; README.md:295 says failed messages are redelivered automatically |
| `EventuallyLogged` | PROPERTY in MCUsage, MaxFaults 0, MaxCopies <- Copies11, BilledEvent {e1, e2}, UnpricedEvent {} | `Process` returns ErrBudgetExceeded before ledger and log are written; README.md:221 promises exactly one row per request |
| `NotDoubleCounted` | INVARIANT in MCUsage, MaxFaults 0 | a duplicate passes `writeLedger` as already there and is counted again (`pricing/engine.go:170`); README.md:249 says it is not double-counted |
| `EventuallyReleased` without its excuse `hit # {}` | MCProxy | every return between ReserveSpend and the bookkeeping keeps the reservation until the period ends; `pricing/engine.go:299` says to release it after the response |
| `PaidWithinBudget` | INVARIANT in MCProxy with SpecBudget, MaxFaults 0 | the pre-check does not add the request's own worst case; MARKETING-README.md:93: "You never pay for a request that exceeds your budget" |
| `DroppedByOwnPeriod` | PROPERTY in MCProxy with SpecBudget, MaxFaults 1 | the sum of the ledger has no end, so a late event is dropped for charges of the next period (`pricing/engine.go:501`); :494 says spend in the current period |
| `DisabledHasNoEffect` | PROPERTY in MCProxy with SpecBudget, MaxFaults 1 | the check at settlement does not look at `enabled` (`pricing/engine.go:468`), while the pre-check skips disabled limits (:215); nor does it take `alert_block` limits, which `models/pricing.go:152` says block |
| `SlidingWindow` | INVARIANT in MCRate, MaxFaults 0 | windows are fixed (`limiter.go:120`); README.md:14 says sliding |
| `CountersExpire` | INVARIANT in MCRate, MaxFaults 0 | a reconciliation in the next window creates a key that never gets an expiry (`limiter.go:316`, against the comment at :164) |
| `FallbackReachesAll` | PROPERTY in MCRouter | a deployment tried and still healthy is selected again and uses up the attempt; `smart_proxy.go:156` says deployments are tried until one succeeds |
| `CooldownTriggered` | PROPERTY in MCRouter with SpecRouter, one plain client, Deployment and Registered {d1}, Group1, Strategies {"fallback"}, Outcomes {"busy"}, LastTick 300, MaxStreak 100 | the backoff overflows int64 at level 30 and the cooldown lies in the past (`health.go:61`); README.md:1147 |
| `FailureNotOK` | INVARIANT in MCRouter | a connection failure has status 0, which gin answers as 200 (`smart_proxy.go:129`); docs/test-plan-smart-routing.md:401 expects 502 |
| `StreamBounded` | PROPERTY in MCRouter | `streamChunkTimeout` is declared and never used (`smart_proxy.go:22`) |
| `NothingDropped` | INVARIANT in MCBillingConcurrent | after a database error the event counts as already processed (`stripe_service.go:644`); `billing.go:528`: "better to double-process than to drop" |
| `KeepsPlanWhilePending` | INVARIANT in MCBillingConcurrent, MaxTurns 3, MaxFaults 0 | the webhook of the price swap overtakes the save of the pending plan (`stripe_service.go:293`, against :217) |
| `DeleteKeepsNewer` | INVARIANT in MCBillingConcurrent with Spec, two subscriptions, Plan {0, 1}, Priced {1}, Ops checkout, portal, period, MaxTurns 5, MaxFaults 0 | the guard at `stripe_service.go:803` is checked on a row read earlier; :797 says a newer subscription must not be overwritten |
| `DowngradeTakesEffect` | INVARIANT in MCBillingSequential | no code writes a pending paid plan to the plan; `stripe_service.go:216` says it takes effect at the end of the period |
| `NextRequestIsCurrent` | INVARIANT in MCKeys | old settings are cached after the invalidation (`providerkey_service.go:307`, against :463) |
| `VersionsIncrease` | INVARIANT in MCKeys, MaxOps 4 | Revoke deletes the row and the next version is 1 again; models.go:320 says monotonically increasing |
| `ActiveIsLive` | INVARIANT in MCKeys, two administrators, MaxOps 3 | a key revoked between Activate's check and its upsert becomes active (`providerkey_service.go:349`) |
| `OwnedAndBelonging`, `OwnerProtected` | MCMembers with two handlers, MaxFaults 0 (for `OwnerProtected` Ops suspend, transfer, invite, accept) | a transfer of ownership commits between the check and the update of another request (`users.go:591`); :579, :647, :754 protect the owner |
| `PlanHoldsItsMembers` | INVARIANT in MCMembers, MaxFaults 0 | a webhook writes the plan that Stripe names and counts no members (`stripe_service.go:768`, `:816`); README.md:447 and :462 give the number of members of each plan |
| `MembershipsHaveUsers` | INVARIANT in MCMembers, MaxFaults 0 | a sign-up moves only pending memberships (`auth.go:163`, against the comment at :172) |
| `InviteeDecides` | PROPERTY in MCMembers, MaxFaults 0 | unsuspending activates an unanswered invitation (`users.go:702`, against :677) |
| `DeletionRetryable` | PROPERTY in MCMembers, MaxFaults 0 | ids unknown to Clerk fail the deletion for ever (`account.go:83`); :91 says to try again |
| `RevokedRefusedAtOnce` | PROPERTY in MCProjects, MaxFaults 0 | a copy of the row read before the revocation is written after the DEL (`apikey_service.go:184`); docs/manual-test-plan.md:467 expects 401 |
| `AllowlistHolds` | PROPERTY in MCProjects, MaxFaults 0 | the copy has no allowlist field, so a key served from it passes every model (`apikey_service.go:149`, against `proxy/handler.go:318`) |
| `ArchivedHasNoKeys` | INVARIANT in MCProjects | a key can be created in a project that is archived already (`projects.go:310`) |
| `RolesNeedMembership` | INVARIANT in MCProjects, MaxFaults 0 | an invited person may be given a role in a project, and denying the invitation deletes the membership alone (`users.go:474`); `projects.go:435` validates that the user is a member of the tenant |
| `MembersBelong` | PROPERTY in MCProjects, two administrators, MaxFaults 0 | a user is removed, or denies the invitation, between the check of the membership and the insert of the role (`projects.go:454`) |
| `NoAlertMissed` | PROPERTY in MCNotifications, TTL 2, MaxTime 1, MaxFaults 0 | the mark is set also when no channel wanted the alert, and swallows the next one; `notification_worker.go:108`: "better to send a duplicate than miss an alert" |
| `CompletedOwnsFile` | INVARIANT in MCReports, MaxFailures 0 | two reports created in one second share a file name (`audit_service.go:117`) |
| `PublishedNotFailed` | PROPERTY in MCReports | a lost answer of XADD marks a completed report as failed (`audit.go:223`) |
| `DeletedLeavesNothing` | INVARIANT in MCReports, MaxFailures 0 | a report deleted before its key is saved leaves its file (`audit_service.go:141`, against :133) |
| `EnabledStored` | INVARIANT in MCSettings, Admin {a1}, Asked {FALSE}, MaxFailures 0 | `enabled: false` is not stored on creation, nor by a budget's update, because gorm skips zero values (`pricing.go:609`); `pricing.go:472` says only an absent value means true |
| `InvalidatedAtOnce` | INVARIANT in MCSettings, MaxFailures 0 | rows read before a change are stored after the DEL (`limiter.go:354`, against :360), and a change of prices deletes nothing |
| `OneKeyPerConfig` | INVARIANT in MCSettings | an assignment clears the key's former one, not the configuration's (`pricing.go:1219`); models/pricing.go:103: "at most one API key" |
| `ConfigsConsistent` | MCSettings, ConfigAdmin {b1, a1}, MaxMisses 0 | a rate is added to, or a key assigned to, a configuration deleted meanwhile, a key revoked meanwhile is assigned, or two rates are added at once (`pricing.go:1112`, against the comment at :1110; models/pricing.go:123) |
| `RevokedKeysUnassigned` | INVARIANT in MCSettings | the deletion of the account revokes all keys and leaves their assignments (`account.go:60`); `services/apikey_service.go:202` says to remove the association of a revoked key |
| `NoFormerNames` | INVARIANT in MCSettings, MaxMishaps 0 | a renamed group stays registered under its former name (`model_group_service.go:135`); :20 says the map is kept in sync |
| `GroupsFollow` | MCSettings, Pod {p1, b1}, or GroupAdmin {h1, b1}, or `MCTenantOf` giving each group a tenant of its own | the other pods are not told, two updates reload and register in different orders, and groups of two tenants with one name replace each other (`router.go:32`); after a restart the map is empty, as nothing calls LoadAllForTenant, which :37 wants called on startup |

## 8. Not modelled

* Providers, models, markups, and the choice between contract and standard price:
  plain inserts, and one query with a fixed precedence; the calculation of a cost is
  a constant per event.
* Personal notifications: rows that their owner alone reads and changes, one
  statement at a time.
* Provider adapters and response translation: conversions of data without state.
* Dashboard reads, metrics, status line, health: queries that change nothing.
* The audit log: append-only, best effort; nothing reads it back to decide.
* Platform operators: reads, and a tenant status no code reads; their plan changes
  are in Membership.
* Start-up, configuration, database and logging; the browser dashboard.
* Commands other than XADD that go-redis repeats because their reply was lost: an
  INCRBYFLOAT (`pricing/engine.go:526`) or a pipeline of the limiter (`limiter.go:145`,
  `:188`) may count twice.
* Outside the source: Redis, Postgres, Clerk, Stripe and the object store are
  modelled by how the code uses them.

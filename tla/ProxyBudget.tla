---------------------------- MODULE ProxyBudget ----------------------------
(***************************************************************************)
(* A proxied request and the budget: HandleProxy and HandleResponses       *)
(* (proxy/handler.go, proxy/responses_handler.go) around PreCheckBudget,   *)
(* ReserveSpend and ReleaseReservation (pricing/engine.go).                *)
(*                                                                         *)
(* A request is checked against spend plus reservations, reserves its      *)
(* worst-case output cost, goes upstream, releases the reservation and     *)
(* publishes its usage, which a worker of some pod settles later with      *)
(* Process: check, ledger row, counters.  Periods (days, weeks, months)    *)
(* roll over underneath: Redis keys carry a period and expire at its end.  *)
(*                                                                         *)
(* One tenant, one period type, keys that bill by usage.  The stream and   *)
(* the usage log are in UsagePipeline.                                     *)
(***************************************************************************)
EXTENDS RequestPath

CONSTANTS
  Responses,     \* the requests to /v1/responses: bookkeeping is synchronous
  CostOf,        \* [Request -> Nat]: what the provider charges
  ReserveOf,     \* [Request -> Nat]: max_tokens at the output price; 0 without one
  Key, Provider, \* gateway keys, and providers
  KeyOf,         \* [Request -> Key]
  ProviderOf,    \* [Request -> Provider]
  Account,       \* the scope of the whole tenant; the others are keys
  AnyProvider,   \* Provider = "" of a limit: all of them
  Limits,        \* the tenant's BudgetLimit rows
  Pods,          \* how many workers settle at a time
  MaxPeriod      \* bound: periods the clock goes through

Scope == Key \cup {Account}

\* The Redis counters of spend that some limit reads.
Counter == {<<l.scope, l.provider>> : l \in Limits}

\* The stream entries of a request's usage: the second one is left by an XADD
\* that go-redis repeats because its reply was lost.
UsageEvent == Request \X {1, 2}

\* Faults: limits, a query of the limits fails; redis, a command is lost;
\* duplicate, an XADD is repeated; upstream, the provider's key is missing or
\* its answer is none, not 200 or cut short; client, the client disconnects;
\* crash, a server or a worker dies.

ASSUME BudgetAssumption ==
  /\ IsFiniteSet(Request)
  /\ Responses \subseteq Request /\ Account \notin Key /\ AnyProvider \notin Provider
  /\ CostOf \in [Request -> Nat] /\ ReserveOf \in [Request -> Nat]
  /\ KeyOf \in [Request -> Key] /\ ProviderOf \in [Request -> Provider]
  /\ Limits \subseteq [scope : Scope, provider : Provider \cup {AnyProvider}, amount : Nat,
                       action : {"alert", "block", "alert_block"}, enabled : BOOLEAN]
  /\ Pods \in Nat /\ MaxPeriod \in Nat /\ MaxFaults \in Nat

\* The clock, now, counts periods.
VARIABLES
  gone,            \* requests whose client has disconnected
  reservedAmount,  \* [Request -> Nat], of the handler
  reservedAt,      \* [Request -> Nat]: the period it was reserved in
  released,        \* requests that called ReleaseReservation
  lateRelease,     \* ... in a later period than they reserved in
  reserved,        \* [Scope -> Int]: budget:reserved:... of the current period
  served,          \* requests the provider answered with 200
  usageAt,         \* [Request -> Nat]: period of the usage timestamp
  usage,           \* [Request -> Nat]: cost of the usage event published
  entry,           \* [UsageEvent -> EntryStatus]: how far its settlement is
  uncounted,            \* [UsageEvent -> SUBSET Counter]: counters still to increment
  ledger,          \* the entries that inserted the ledger row of their request
  present,         \* spend counters of the current period that exist
  spend            \* [Counter -> Nat]: budget:... of the current period

\* over: dropped by checkBudget; left: given up by a failed worker.
EntryStatus == {"none", "queued", "passed", "written", "over", "left"}

HandlerStatus == {"new", "checked", "reserved", "calling", "streaming", "closing",
                  "publishing", "done", "refused"}

handlerVars == <<st, gone, reservedAmount, reservedAt, released, lateRelease, served>>
settleVars == <<entry, uncounted, ledger, present, spend>>
usageVars == <<usageAt, usage, settleVars>>
budgetVars == <<now, handlerVars, reserved, usageVars, faultVars>>

InitBudget ==
  /\ now = 0
  /\ st = [r \in Request |-> "new"]
  /\ gone = {} /\ released = {} /\ lateRelease = {} /\ served = {}
  /\ reservedAmount = [r \in Request |-> 0] /\ reservedAt = [r \in Request |-> 0]
  /\ reserved = [s \in Scope |-> 0]
  /\ usageAt = [r \in Request |-> 0] /\ usage = [r \in Request |-> 0]
  /\ entry = [e \in UsageEvent |-> "none"] /\ uncounted = [e \in UsageEvent |-> {}]
  /\ ledger = {} /\ present = {}
  /\ spend = [c \in Counter |-> 0]
  /\ faults = 0 /\ hit = {}

\* The handler goes to another status and changes nothing else of its own.
StepTo(r, status) ==
  Goto(r, status) /\ UNCHANGED <<gone, reservedAmount, reservedAt, released, lateRelease, served>>

-----------------------------------------------------------------------------
(* Before the upstream call.                                               *)

\* Body unreadable, model not allowed, rate limit exceeded: the handler
\* returns before the budget is looked at.
Reject(r) ==
  /\ st[r] = "new"
  /\ StepTo(r, "done")
  /\ UNCHANGED <<now, reserved, usageVars, faultVars>>

Matches(p, r) == p \in {AnyProvider, ProviderOf[r]}
ScopesOf(r) == {Account, KeyOf[r]}

\* What both checks ask of a limit: account scope or the request's key, and
\* all providers or the request's.
Applies(l, r) == l.scope \in ScopesOf(r) /\ Matches(l.provider, r)

UsageOf == [e \in UsageEvent |-> usage[e[1]]]

\* dbBudgetSpend sums the ledger from the start of period t on, later
\* periods included.
LedgerSince(p, t) == Sum(UsageOf, {e \in ledger : Matches(p, e[1]) /\ usageAt[e[1]] >= t})

\* getSpend at a timestamp in period t: counters of past periods expired.
GetSpend(s, p, t) ==
  IF t = now /\ <<s, p>> \in present THEN spend[<<s, p>>]
  ELSE IF s = Account THEN LedgerSince(p, t) ELSE 0

\* getReserved: of all providers; a negative counter reads as zero.
GetReserved(s) == IF reserved[s] > 0 THEN reserved[s] ELSE 0

Blocks(l) == l.enabled /\ l.action \in {"block", "alert_block"}

\* Mutant: the limits of other providers are not skipped.
BlockedByAnyProvider(r) ==
  \E l \in Limits : /\ Blocks(l) /\ l.scope \in ScopesOf(r)
                    /\ GetSpend(l.scope, l.provider, now) + GetReserved(l.scope) >= l.amount

\* Some limit of the request that is enabled and blocks is reached by spend
\* plus reservations.  The counters are read in one step here, one after the
\* other in the code.
Blocked(r) ==
  \E l \in Limits : /\ Blocks(l) /\ Applies(l, r)
                    /\ GetSpend(l.scope, l.provider, now) + GetReserved(l.scope) >= l.amount

\* PreCheckBudget: 402 when a blocking limit is reached.
PreCheckBudget(r) ==
  /\ st[r] = "new"
  /\ \/ Blocked(r) /\ StepTo(r, "refused")
     \/ ~Blocked(r) /\ StepTo(r, "checked")
  /\ UNCHANGED <<now, reserved, usageVars, faultVars>>

\* "don't block on cache/DB errors".
PreCheckFails(r) ==
  /\ st[r] = "new" /\ Fault("limits")
  /\ StepTo(r, "checked")
  /\ UNCHANGED <<now, reserved, usageVars>>

\* Mutant: only the account counter is reserved.
ReserveAccountOnly(r) ==
  /\ st[r] = "checked"
  /\ Goto(r, "reserved")
  /\ reservedAmount' = [reservedAmount EXCEPT ![r] = ReserveOf[r]]
  /\ reservedAt' = [reservedAt EXCEPT ![r] = now]
  /\ reserved' = [reserved EXCEPT ![Account] = @ + ReserveOf[r]]
  /\ UNCHANGED <<now, gone, released, lateRelease, served, usageVars, faultVars>>

\* delta is added to the counters of the account and of the request's key.
Reserving(r, delta) ==
  [s \in Scope |-> IF s \in ScopesOf(r) THEN reserved[s] + delta ELSE reserved[s]]

\* ReserveSpend: one pipeline increments the counters of both scopes.
ReserveSpend(r) ==
  /\ st[r] = "checked"
  /\ Goto(r, "reserved")
  /\ reservedAmount' = [reservedAmount EXCEPT ![r] = ReserveOf[r]]
  /\ reservedAt' = [reservedAt EXCEPT ![r] = now]
  /\ reserved' = Reserving(r, ReserveOf[r])
  /\ UNCHANGED <<now, gone, released, lateRelease, served, usageVars, faultVars>>

\* The error of the pipeline is ignored: the handler holds a reservation
\* Redis does not have.
ReserveLost(r) ==
  /\ st[r] = "checked" /\ Fault("redis")
  /\ Goto(r, "reserved")
  /\ reservedAmount' = [reservedAmount EXCEPT ![r] = ReserveOf[r]]
  /\ reservedAt' = [reservedAt EXCEPT ![r] = now]
  /\ UNCHANGED <<now, gone, released, lateRelease, served, reserved, usageVars>>

\* resolveAuth or buildUpstreamRequest fails: return, reservation kept.
AuthFails(r) ==
  /\ st[r] = "reserved" /\ Fault("upstream")
  /\ StepTo(r, "done")
  /\ UNCHANGED <<now, reserved, usageVars>>

\* The request goes upstream; HandleResponses takes its timestamp here.
CallUpstream(r) ==
  /\ st[r] = "reserved"
  /\ StepTo(r, "calling")
  /\ usageAt' = IF r \in Responses THEN [usageAt EXCEPT ![r] = now] ELSE usageAt
  /\ UNCHANGED <<now, reserved, usage, settleVars, faultVars>>

-----------------------------------------------------------------------------
(* The upstream call.                                                      *)

\* The client closes the connection while the handler runs.
Disconnect(r) ==
  /\ st[r] \in {"calling", "streaming", "closing", "publishing"} /\ r \notin gone
  /\ Fault("client")
  /\ gone' = gone \cup {r}
  /\ UNCHANGED <<now, st, reservedAmount, reservedAt, released, lateRelease, served, reserved, usageVars>>

\* httpClient.Do fails (a gone client cancels it) or the answer is not 200:
\* the handler returns, the reservation stays.
UpstreamFails(r) ==
  /\ st[r] = "calling"
  /\ \/ Fault("upstream")
     \/ r \in gone /\ UNCHANGED faultVars
  /\ StepTo(r, "done")
  /\ UNCHANGED <<now, reserved, usageVars>>

\* 200: HandleProxy takes its timestamp here.
UpstreamAnswers(r) ==
  /\ st[r] = "calling"
  /\ Goto(r, "streaming")
  /\ served' = served \cup {r}
  /\ usageAt' = IF r \in Responses THEN usageAt ELSE [usageAt EXCEPT ![r] = now]
  /\ UNCHANGED <<now, gone, reservedAmount, reservedAt, released, lateRelease, reserved,
                 usage, settleVars, faultVars>>

\* An answer cut short: a JSON body that cannot be read to its end makes the
\* handler return with nothing published; the parser of a stream keeps what it
\* has counted so far.
BodyCut(r) ==
  /\ st[r] = "streaming" /\ Fault("upstream")
  /\ \/ StepTo(r, "done") /\ UNCHANGED usage
     \/ StepTo(r, "closing") /\ \E c \in 0..CostOf[r] : usage' = [usage EXCEPT ![r] = c]
  /\ UNCHANGED <<now, reserved, usageAt, settleVars>>

\* Mutant: the answer ends without the reservation being given back.
ResponseEndsUnreleased(r) ==
  /\ st[r] = "streaming"
  /\ StepTo(r, "publishing")
  /\ usage' = [usage EXCEPT ![r] = CostOf[r]]
  /\ UNCHANGED <<now, reserved, usageAt, settleVars, faultVars>>

\* The body is forwarded and the tokens are counted: all of them, unless the
\* client left and the parser stopped early.
ResponseEnds(r) ==
  /\ st[r] = "streaming"
  /\ StepTo(r, "closing")
  /\ \E c \in 0..CostOf[r] :
       /\ r \notin gone => c = CostOf[r]
       /\ usage' = [usage EXCEPT ![r] = c]
  /\ UNCHANGED <<now, reserved, usageAt, settleVars, faultVars>>

-----------------------------------------------------------------------------
(* Bookkeeping: HandleProxy does it in a goroutine with its own context,   *)
(* HandleResponses with the request's, which a gone client has cancelled.  *)

Cancelled(r) == r \in Responses /\ r \in gone

\* reconcilePostResponse: ReleaseReservation decrements the keys of the
\* period the clock is in now.
ReleaseReservation(r) ==
  /\ st[r] = "closing" /\ ~Cancelled(r)
  /\ Goto(r, "publishing")
  /\ reserved' = Reserving(r, 0 - reservedAmount[r])
  /\ released' = released \cup {r}
  /\ lateRelease' = IF reservedAt[r] # now THEN lateRelease \cup {r} ELSE lateRelease
  /\ UNCHANGED <<now, gone, reservedAmount, reservedAt, served, usageVars, faultVars>>

\* ... unless the context is cancelled or Redis fails: the error is ignored.
ReleaseLost(r) ==
  /\ st[r] = "closing"
  /\ \/ Cancelled(r) /\ UNCHANGED faultVars
     \/ ~Cancelled(r) /\ Fault("redis")
  /\ StepTo(r, "publishing")
  /\ UNCHANGED <<now, reserved, usageVars>>

\* publishUsageEvent, with an XADD that may be repeated.
PublishUsage(r) ==
  /\ st[r] = "publishing" /\ ~Cancelled(r)
  /\ StepTo(r, "done")
  /\ \/ entry' = [entry EXCEPT ![<<r, 1>>] = "queued"] /\ UNCHANGED faultVars
     \/ /\ entry' = [entry EXCEPT ![<<r, 1>>] = "queued", ![<<r, 2>>] = "queued"]
        /\ Fault("duplicate")
  /\ UNCHANGED <<now, reserved, usageAt, usage, uncounted, ledger, present, spend>>

\* ... which skips an answer it counted nothing in, and only logs its errors:
\* the usage is lost.
PublishLost(r) ==
  /\ st[r] = "publishing"
  /\ \/ (Cancelled(r) \/ usage[r] = 0) /\ UNCHANGED faultVars
     \/ ~Cancelled(r) /\ Fault("redis")
  /\ StepTo(r, "done")
  /\ UNCHANGED <<now, reserved, usageVars>>

\* The server dies with the request, or its bookkeeping goroutine, under way.
Crash(r) ==
  /\ st[r] \notin {"new", "done", "refused"} /\ Fault("crash")
  /\ StepTo(r, "done")
  /\ UNCHANGED <<now, reserved, usageVars>>

-----------------------------------------------------------------------------
(* Settlement: workers of several pods take the entries, each one at a     *)
(* time, in any order between them.                                        *)

InHand == {e \in UsageEvent : entry[e] = "passed" \/ (entry[e] = "written" /\ uncounted[e] # {})}

StepEntry(e, status) == entry' = [entry EXCEPT ![e] = status]

\* Mutant: reservations count at settlement, as they do before the request.
OverWithReservations(r) ==
  \E l \in Limits :
    /\ l.action = "block" /\ Applies(l, r)
    /\ GetSpend(l.scope, l.provider, usageAt[r]) + GetReserved(l.scope) + usage[r] > l.amount

\* checkBudget, against the budgets of the event's own period: limits of
\* action "block" alone, disabled ones too.
OverBudget(r) ==
  \E l \in Limits :
    /\ l.action = "block" /\ Applies(l, r)
    /\ GetSpend(l.scope, l.provider, usageAt[r]) + usage[r] > l.amount

\* A pod takes an entry.  Copies are alike: the one taken first is called 1.
Take(e) ==
  /\ entry[e] = "queued" /\ Cardinality(InHand) < Pods
  /\ e[2] = 2 => entry[<<e[1], 1>>] # "queued"

\* An event over budget is dropped: it stays pending, and nothing reads
\* pending entries.
CheckBudget(e) ==
  /\ Take(e)
  /\ \/ OverBudget(e[1]) /\ StepEntry(e, "over")
     \/ ~OverBudget(e[1]) /\ StepEntry(e, "passed")
  /\ UNCHANGED <<now, handlerVars, reserved, usageAt, usage, uncounted, ledger, present, spend, faultVars>>

\* An error of the query of the limits is ignored.
CheckSkipped(e) ==
  /\ Take(e) /\ Fault("limits")
  /\ StepEntry(e, "passed")
  /\ UNCHANGED <<now, handlerVars, reserved, usageAt, usage, uncounted, ledger, present, spend>>

CountersOf(r) == {c \in Counter : c[1] \in ScopesOf(r) /\ Matches(c[2], r)}

\* writeLedger: a duplicate is not an error, and counted all the same.
WriteLedger(e) ==
  /\ entry[e] = "passed"
  /\ StepEntry(e, "written")
  /\ uncounted' = [uncounted EXCEPT ![e] = CountersOf(e[1])]
  /\ ledger' = IF \E row \in ledger : row[1] = e[1] THEN ledger ELSE ledger \cup {e}
  /\ UNCHANGED <<now, handlerVars, reserved, usageAt, usage, present, spend, faultVars>>

\* incrementBudget, one counter after the other.  The counter of an expired
\* period is expired at once by EXPIREAT.
IncrementBudget(e, c) ==
  /\ c \in uncounted[e]
  /\ uncounted' = [uncounted EXCEPT ![e] = @ \ {c}]
  /\ IF usageAt[e[1]] = now
     THEN /\ spend' = [spend EXCEPT ![c] = @ + usage[e[1]]]
          /\ present' = present \cup {c}
     ELSE UNCHANGED <<present, spend>>
  /\ UNCHANGED <<now, handlerVars, reserved, usageAt, usage, entry, ledger, faultVars>>

\* ... whose errors are ignored.
IncrementLost(e, c) ==
  /\ c \in uncounted[e] /\ Fault("redis")
  /\ uncounted' = [uncounted EXCEPT ![e] = @ \ {c}]
  /\ UNCHANGED <<now, handlerVars, reserved, usageAt, usage, entry, ledger, present, spend>>

\* The worker dies or returns an error: what is left of the settlement is not
\* made up for.
WorkerFails(e) ==
  /\ Take(e) \/ entry[e] = "passed" \/ uncounted[e] # {}
  /\ Fault("crash")
  /\ entry' = IF entry[e] = "written" THEN entry ELSE [entry EXCEPT ![e] = "left"]
  /\ uncounted' = [uncounted EXCEPT ![e] = {}]
  /\ UNCHANGED <<now, handlerVars, reserved, usageAt, usage, ledger, present, spend>>

Settle(e) ==
  \/ CheckBudget(e) \/ CheckSkipped(e) \/ WriteLedger(e) \/ WorkerFails(e)
  \/ \E c \in Counter : IncrementBudget(e, c) \/ IncrementLost(e, c)

\* The period ends: its keys expire, the new period's do not exist.
NextPeriod ==
  /\ now < MaxPeriod
  /\ now' = now + 1
  /\ reserved' = [s \in Scope |-> 0]
  /\ spend' = [c \in Counter |-> 0] /\ present' = {}
  /\ UNCHANGED <<handlerVars, usageAt, usage, entry, uncounted, ledger, faultVars>>

-----------------------------------------------------------------------------
Handle(r) ==
  \/ PreCheckBudget(r) \/ PreCheckFails(r) \/ ReserveSpend(r) \/ ReserveLost(r)
  \/ AuthFails(r) \/ CallUpstream(r) \/ UpstreamFails(r) \/ UpstreamAnswers(r) \/ BodyCut(r)
  \/ ResponseEnds(r) \/ ReleaseReservation(r) \/ ReleaseLost(r) \/ PublishUsage(r)
  \/ PublishLost(r)

NextBudget ==
  \/ \E r \in Request : Handle(r) \/ Reject(r) \/ Disconnect(r) \/ Crash(r)
  \/ \E e \in UsageEvent : Settle(e)
  \/ NextPeriod

SpecBudget == InitBudget /\ [][NextBudget]_budgetVars

\* A handler that started runs on: the transport bounds the wait for the
\* response headers, and the provider ends its answer.
FairBudget == SpecBudget /\ \A r \in Request : WF_budgetVars(st[r] # "new" /\ Handle(r))

-----------------------------------------------------------------------------
(* Properties.                                                             *)

\* Reservations of the current period that nobody returned.
Outstanding(s) == {r \in Request \ released : s \in ScopesOf(r) /\ reservedAt[r] = now}

\* As long as every Redis command arrives and no reservation is returned in a
\* later period, each scope's counter is the sum of the reservations made in
\* this period and not returned: the pre-check of one request sees the worst
\* case of all the others, in every scope.
ReservationsConserved ==
  "redis" \notin hit /\ lateRelease = {} =>
    \A s \in Scope : reserved[s] = Sum(reservedAmount, Outstanding(s))

InFlight(s) == {r \in Outstanding(s) : st[r] \in {"reserved", "calling", "streaming", "closing"}}

\* Entries charged to the budget of a limit since the start of period t: a
\* duplicate of an entry is charged once more.
ChargedTo(l, t) ==
  {e \in UsageEvent : entry[e] = "written" /\ Applies(l, e[1]) /\ usageAt[e[1]] >= t}

\* A request is refused by an enabled limit of its own scope and provider
\* only when what was charged to that budget, plus the reservations of the
\* scope that nobody returned (for all providers), reach it.  As long as
\* nothing else than a query of the limits failed, charged means one ledger
\* row per request, and the reservations are those of requests in flight.
RefusedOnlyWhenCommitted ==
  [][\A r \in Request :
       st[r] = "new" /\ st'[r] = "refused" =>
         \E l \in Limits :
           /\ Blocks(l) /\ Applies(l, r)
           /\ Sum(UsageOf, ChargedTo(l, now)) + Sum(reservedAmount, Outstanding(l.scope)) >= l.amount
           /\ hit \subseteq {"limits"} =>
                Sum(UsageOf, ChargedTo(l, now) \cap ledger) + Sum(reservedAmount, InFlight(l.scope))
                  >= l.amount]_budgetVars

\* Usage is dropped at settlement only when, with it, what was charged since
\* its period began (later periods included) passes a limit that blocks, of
\* its own scope and provider: reservations, limits that only alert, other
\* providers and keys never cost a row of the ledger.
DroppedOnlyOverBudget ==
  [][\A e \in UsageEvent :
       entry[e] # "over" /\ entry'[e] = "over" =>
         \E l \in Limits :
           /\ l.action = "block" /\ Applies(l, e[1])
           /\ Sum(UsageOf, ChargedTo(l, usageAt[e[1]])) + usage[e[1]] > l.amount]_budgetVars

\* "Call ReleaseReservation after the response completes" (engine.go:299): a
\* request that holds a reservation returns it, unless something failed (the
\* early returns after ReserveSpend keep it until the period ends).
EventuallyReleased ==
  \A r \in Request : (st[r] = "reserved" /\ reservedAmount[r] > 0) ~> (r \in released \/ hit # {})

-----------------------------------------------------------------------------
(* What the documents and comments say and the code does not keep. *)

\* "budget limits are enforced *before* the request is forwarded to the
\* provider. You never pay for a request that exceeds your budget"
\* (MARKETING-README.md:93): what the provider charges stays within a blocking
\* limit of the account.
PaidWithinBudget ==
  \A l \in Limits : Blocks(l) /\ l.scope = Account /\ l.provider = AnyProvider =>
    Sum(CostOf, {r \in served : usageAt[r] = now}) <= l.amount

\* "dbBudgetSpend queries the cost ledger for spend in the current period."
\* (engine.go:494): usage is dropped for spend of its own period only.
DroppedByOwnPeriod ==
  [][\A e \in UsageEvent :
       entry[e] # "over" /\ entry'[e] = "over" =>
         \E l \in Limits :
           Sum(UsageOf, {c \in ChargedTo(l, usageAt[e[1]]) : usageAt[c[1]] = usageAt[e[1]]})
             + usage[e[1]] > l.amount]_budgetVars

\* "Skip disabled limits." (engine.go:215): a disabled limit has no effect.
DisabledHasNoEffect ==
  [][\A e \in UsageEvent :
       entry[e] # "over" /\ entry'[e] = "over" =>
         \E l \in Limits :
           l.enabled /\ Sum(UsageOf, ChargedTo(l, usageAt[e[1]])) + usage[e[1]] > l.amount]_budgetVars

=============================================================================

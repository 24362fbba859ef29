---------------------------- MODULE StripeBilling ----------------------------
(***************************************************************************)
(* The billing state of one tenant (services/stripe_service.go,            *)
(* api/billing.go and the self-heal of api/users.go).  The tenant's row    *)
(* holds the plan it enjoys; Stripe holds the subscriptions it pays for.   *)
(* The row follows Stripe through webhooks, which Stripe repeats until     *)
(* they are answered with 200, and through the requests of the tenant's    *)
(* users, each of which reads the row, calls Stripe and writes the row in  *)
(* steps that interleave with the others.                                  *)
(*                                                                         *)
(* A plan is its level (models.PlanLevel), and a price is the plan it is   *)
(* the price of.  A checkout session and the subscription it creates share *)
(* one name.  Dates and payment methods are left out.                      *)
(***************************************************************************)
EXTENDS Integers, Sequences, FiniteSets

CONSTANTS
  Handler,      \* requests the API server handles at a time
  Sub,          \* checkout sessions and their subscriptions
  Plan,         \* the levels of the plans
  Priced,       \* the plans whose STRIPE_PRICE_* variable is set
  Ops,          \* what users and Stripe do
  Ordered,      \* webhooks arrive one by one, in the order of the events
  MaxTurns,     \* bound: how many of Ops happen
  MaxFaults,    \* bound: how many database errors and crashes happen
  NoPlan, NoSub

Free == 0
AllOps == {"checkout", "verify", "downgrade", "cancel", "change", "status",
           "portal", "payment", "period"}

ASSUME ConstantsAssumption ==
  /\ Plan \subseteq Nat /\ Free \in Plan /\ Priced \subseteq Plan \ {Free}
  /\ Ops \subseteq AllOps /\ Ordered \in BOOLEAN
  /\ MaxTurns \in Nat /\ MaxFaults \in Nat
  /\ NoPlan \notin Plan /\ NoSub \notin Sub

VARIABLES
  tenant,       \* the row: plan, plan_status, stripe_subscription_id, pending_plan
  stripe,       \* [Sub -> the session and subscription as Stripe holds them]
  events,       \* the events Stripe created, in order; an event's ID is its index
  acked,        \* events answered with 200
  marked,       \* ProcessedStripeEvent
  job,          \* [Handler -> the request being handled]
  turns, faults,
  finished, repeated,  \* events handled to the end, and more than once (history)
  bought,       \* the prices subscriptions have had (history)
  overdue,      \* a period ended while this pending downgrade waited (history)
  skipped       \* a cancellation being pending, another plan was not written (history)

vars == <<tenant, stripe, events, acked, marked, job, turns, faults,
          finished, repeated, bought, overdue, skipped>>

Live == {"active", "past_due", "unpaid"}
StripeState == {"none", "open", "expired", "canceled"} \cup Live
EventType == {"completed", "expired", "updated", "deleted", "paid", "failed"}

Row == [plan: Plan, status: {"active", "past_due", "canceled"},
        sub: Sub \cup {NoSub}, pending: Plan \cup {NoPlan}]
Event == [type: EventType, sub: Sub, price: Plan, state: StripeState]
Job == [op: AllOps \cup {"none", "webhook"},
        step: {"idle", "session", "read", "undo", "stripe", "fetch", "save"},
        event: Nat, target: Plan \cup {NoPlan}, row: Row]

NewTenant == [plan |-> Free, status |-> "active", sub |-> NoSub, pending |-> NoPlan]
NoJob == [op |-> "none", step |-> "idle", event |-> 0, target |-> NoPlan,
          row |-> NewTenant]

Init ==
  /\ tenant = NewTenant
  /\ stripe = [s \in Sub |-> [state |-> "none", price |-> Free, meta |-> Free,
                              cancel |-> FALSE]]
  /\ events = <<>> /\ acked = {} /\ marked = {}
  /\ job = [h \in Handler |-> NoJob]
  /\ turns = 0 /\ faults = 0
  /\ finished = {} /\ repeated = {} /\ bought = {} /\ overdue = FALSE /\ skipped = FALSE

-----------------------------------------------------------------------------

IsDowngrade(current, new) == new < current

\* PlanForPriceID
PlanFor(price) == IF price \in Priced THEN price ELSE NoPlan

\* mapStripeStatus, of the states a subscription reaches here.
MapStatus(state) ==
  CASE state = "active"   -> "active"
    [] state = "past_due" -> "past_due"
    [] OTHER              -> "canceled"

Turn(op) == op \in Ops /\ turns < MaxTurns /\ turns' = turns + 1
Fault == faults < MaxFaults /\ faults' = faults + 1

WriteTenant(row) ==
  tenant' = row /\ overdue' = (overdue /\ row.pending # NoPlan)

\* Stripe changes a subscription and creates events of these types.
StripeChanges(s, new, types) ==
  /\ stripe' = [stripe EXCEPT ![s] = new]
  /\ events' = events \o [i \in 1..Len(types) |->
       [type |-> types[i], sub |-> s, price |-> new.price, state |-> new.state]]
  /\ bought' = IF new.state \in Live THEN bought \cup {new.price} ELSE bought

-----------------------------------------------------------------------------
(* Stripe (external).                                                      *)

PayCheckout(s) ==
  /\ stripe[s].state = "open"
  /\ StripeChanges(s, [stripe[s] EXCEPT !.state = "active"], <<"updated", "completed">>)
  /\ UNCHANGED <<tenant, acked, marked, job, turns, faults, finished, repeated, overdue, skipped>>

ExpireCheckout(s) ==
  /\ stripe[s].state = "open"
  /\ StripeChanges(s, [stripe[s] EXCEPT !.state = "expired"], <<"expired">>)
  /\ UNCHANGED <<tenant, acked, marked, job, turns, faults, finished, repeated, overdue, skipped>>

\* In the customer portal a user picks another plan, or cancels at the end of
\* the period or takes that back.
PortalUpdate(s) ==
  /\ Turn("portal") /\ stripe[s].state \in Live
  /\ \/ \E p \in Plan \ {Free, stripe[s].price} :
          StripeChanges(s, [stripe[s] EXCEPT !.price = p], <<"updated">>)
     \/ StripeChanges(s, [stripe[s] EXCEPT !.cancel = ~@], <<"updated">>)
  /\ UNCHANGED <<tenant, acked, marked, job, faults, finished, repeated, overdue, skipped>>

Payment(s) ==
  /\ Turn("payment") /\ stripe[s].state \in Live
  /\ \/ \E st \in {"past_due", "unpaid"} \ {stripe[s].state} :
          StripeChanges(s, [stripe[s] EXCEPT !.state = st], <<"failed", "updated">>)
     \/ /\ stripe[s].state # "active"
        /\ StripeChanges(s, [stripe[s] EXCEPT !.state = "active"], <<"paid", "updated">>)
  /\ UNCHANGED <<tenant, acked, marked, job, faults, finished, repeated, overdue, skipped>>

\* The subscription is deleted or renewed.
PeriodEnds(s) ==
  /\ Turn("period") /\ stripe[s].state \in Live
  /\ \/ /\ stripe[s].cancel \/ stripe[s].state = "unpaid"
        /\ StripeChanges(s, [stripe[s] EXCEPT !.state = "canceled"], <<"deleted">>)
        /\ UNCHANGED overdue
     \/ /\ ~stripe[s].cancel /\ stripe[s].state = "active"
        /\ StripeChanges(s, stripe[s], <<"paid", "updated">>)
        /\ overdue' = (overdue \/ (tenant.sub = s /\ tenant.pending # NoPlan))
  /\ UNCHANGED <<tenant, acked, marked, job, faults, finished, repeated, skipped>>

-----------------------------------------------------------------------------
(* Webhooks.                                                               *)

EventOf(h) == events[job[h].event]
Handling(h, step) == job[h].op = "webhook" /\ job[h].step = step

\* The handler returns nil and the event is answered with 200.
Finish(h) ==
  /\ job' = [job EXCEPT ![h] = NoJob]
  /\ acked' = acked \cup {job[h].event}
  /\ finished' = finished \cup {job[h].event}
  /\ repeated' = IF job[h].event \in finished THEN repeated \cup {job[h].event}
                 ELSE repeated

\* Stripe sends an event, possibly while an earlier attempt is being handled.
MayDeliver(h, e) ==
  /\ job[h] = NoJob /\ e \in DOMAIN events \ acked
  /\ Ordered => /\ \A i \in DOMAIN events \ acked : e <= i
                /\ \A i \in Handler : job[i].op # "webhook"

\* Mutant: what is inserted is the type of the event, not its ID.
MarkEventType(e) ==
  e \notin marked /\ marked' = marked \cup {i \in DOMAIN events : events[i].type = events[e].type}

\* MarkEventProcessed, when the event's ID can be inserted.
MarkEventProcessed(e) == e \notin marked /\ marked' = marked \cup {e}

BeginEvent(h, e) ==
  job' = [job EXCEPT ![h] = [NoJob EXCEPT !.op = "webhook", !.step = "read", !.event = e]]

\* Mutant: the insert of the event's ID fails on no duplicate.
DeliverUnchecked(h, e) ==
  /\ MayDeliver(h, e)
  /\ marked' = marked \cup {e} /\ BeginEvent(h, e)
  /\ UNCHANGED <<acked, faults>>
  /\ UNCHANGED <<tenant, stripe, events, turns, finished, repeated, bought, overdue, skipped>>

\* Mutant: a repeated event is refused.
DeliverRefused(h, e) ==
  /\ MayDeliver(h, e)
  /\ \/ MarkEventProcessed(e) /\ BeginEvent(h, e) /\ UNCHANGED <<acked, faults>>
     \/ e \in marked /\ UNCHANGED <<acked, marked, job, faults>>
  /\ UNCHANGED <<tenant, stripe, events, turns, finished, repeated, bought, overdue, skipped>>

\* processBillingWebhook: a new event goes to its handler; one that is marked is
\* answered with 200, and so is one whose insert fails for another reason.
Deliver(h, e) ==
  /\ MayDeliver(h, e)
  /\ \/ MarkEventProcessed(e) /\ BeginEvent(h, e) /\ UNCHANGED <<acked, faults>>
     \/ /\ e \in marked
        /\ acked' = acked \cup {e} /\ UNCHANGED <<marked, job, faults>>
     \/ /\ Fault
        /\ acked' = acked \cup {e} /\ UNCHANGED <<marked, job>>
  /\ UNCHANGED <<tenant, stripe, events, turns, finished, repeated, bought, overdue, skipped>>

\* Mutant: the end of any subscription of the tenant's is handled.
IgnoredButDeleted(e) ==
  \/ e.type = "expired"
  \/ e.type \in {"paid", "failed"} /\ tenant.sub # e.sub

\* The events the handler has nothing to do for: an expired session, the end
\* of a subscription that is not the tenant's, an invoice of an unknown one.
Ignored(e) ==
  \/ e.type = "expired"
  \/ e.type = "deleted" /\ tenant.sub \notin {NoSub, e.sub}
  \/ e.type \in {"paid", "failed"} /\ tenant.sub # e.sub

\* The plan of the price in the event, or of the subscription's price by now.
DetectPlan(e) ==
  IF PlanFor(e.price) # NoPlan THEN PlanFor(e.price) ELSE PlanFor(stripe[e.sub].price)

\* The handler reads the tenant's row and decides.
ReadForEvent(h) ==
  /\ Handling(h, "read")
  /\ \/ /\ Ignored(EventOf(h)) /\ Finish(h)
     \/ /\ ~Ignored(EventOf(h))
        /\ job' = [job EXCEPT ![h].step = "save", ![h].row = tenant,
                              ![h].target = DetectPlan(EventOf(h))]
        /\ UNCHANGED <<acked, finished, repeated>>
  /\ UNCHANGED <<tenant, stripe, events, marked, turns, faults, bought, overdue, skipped>>

HandleCheckoutCompleted(s) ==
  [plan |-> stripe[s].meta, status |-> "active", sub |-> s, pending |-> NoPlan]

\* Mutant: the event's plan is written over that of a scheduled downgrade.
HandleSubscriptionUpdatedAtOnce(h, e) ==
  [tenant EXCEPT !.status = MapStatus(e.state), !.sub = e.sub,
     !.plan = IF job[h].target # NoPlan THEN job[h].target ELSE @]

\* The plan is left alone while a downgrade is pending in the row that was read.
HandleSubscriptionUpdated(h, e) ==
  [tenant EXCEPT !.status = MapStatus(e.state), !.sub = e.sub,
     !.plan = IF job[h].row.pending = NoPlan /\ job[h].target # NoPlan
              THEN job[h].target ELSE @]

\* Mutant: the subscription stays in the row.
HandleSubscriptionDeletedKeepsSub ==
  [tenant EXCEPT !.plan = Free, !.status = "canceled", !.pending = NoPlan]

HandleSubscriptionDeleted ==
  [plan |-> Free, status |-> "canceled", sub |-> NoSub, pending |-> NoPlan]

\* What the handler of the event leaves in the row.
HandleEvent(h, e) ==
  CASE e.type = "completed" -> HandleCheckoutCompleted(e.sub)
    [] e.type = "updated"   -> HandleSubscriptionUpdated(h, e)
    [] e.type = "deleted"   -> HandleSubscriptionDeleted
    [] e.type = "paid"      -> [tenant EXCEPT !.status = "active"]
    [] OTHER                -> [tenant EXCEPT !.status = "past_due"]

WriteForEvent(h) ==
  /\ Handling(h, "save")
  /\ WriteTenant(HandleEvent(h, EventOf(h)))
  /\ Finish(h)
  /\ skipped' = (skipped \/ /\ EventOf(h).type = "updated" /\ job[h].row.pending = Free
                            /\ job[h].target # tenant.plan)
  /\ UNCHANGED <<stripe, events, marked, turns, faults, bought>>

\* A database error answers 500, a crash nothing; the event stays marked.
WebhookFails(h) ==
  /\ job[h].op = "webhook" /\ Fault
  /\ job' = [job EXCEPT ![h] = NoJob]
  /\ UNCHANGED <<tenant, stripe, events, acked, marked, turns, finished, repeated,
                 bought, overdue, skipped>>

-----------------------------------------------------------------------------
(* Requests of the tenant's users.                                         *)

\* What the handler checks in the row before it calls the service.
MayCheckout(p) == p \in Priced /\ tenant.sub = NoSub
MayDowngrade(p) == IsDowngrade(tenant.plan, p) /\ tenant.pending = NoPlan
MayChangePlan(p) == tenant.sub # NoSub /\ p > tenant.plan
MaySeeStatus(p) == p = Free /\ tenant.sub # NoSub
MayCancel(p) == p = Free

MayRequest(op, p) ==
  CASE op = "checkout"  -> MayCheckout(p)
    [] op = "downgrade" -> MayDowngrade(p)
    [] op = "cancel"    -> MayCancel(p)
    [] op = "change"    -> MayChangePlan(p)
    [] op = "status"    -> MaySeeStatus(p)
    [] OTHER            -> FALSE

\* The step the service begins with.
FirstStep(op) ==
  CASE op = "checkout" -> "session" [] op = "status" -> "fetch" [] OTHER -> "read"

Request(h, op, p) ==
  /\ job[h] = NoJob /\ Turn(op) /\ MayRequest(op, p)
  /\ job' = [job EXCEPT ![h] = [op |-> op, step |-> FirstStep(op), event |-> 0,
                                target |-> p, row |-> tenant]]
  /\ UNCHANGED <<tenant, stripe, events, acked, marked, faults, finished, repeated,
                 bought, overdue, skipped>>

Requesting(h, step) == job[h].op \notin {"none", "webhook"} /\ job[h].step = step

\* Mutant: the plan is granted with the session, before it is paid.
CreateSessionGrants(h) ==
  /\ Requesting(h, "session")
  /\ \E s \in Sub :
       /\ stripe[s].state = "none"
       /\ stripe' = [stripe EXCEPT ![s] = [state |-> "open", price |-> job[h].target,
                                           meta |-> job[h].target, cancel |-> FALSE]]
  /\ WriteTenant([tenant EXCEPT !.plan = job[h].target])
  /\ job' = [job EXCEPT ![h] = NoJob]
  /\ UNCHANGED <<events, acked, marked, turns, faults, finished, repeated, bought, skipped>>

\* CreateCheckoutSession
CreateSession(h) ==
  /\ Requesting(h, "session")
  /\ \/ \E s \in Sub :
          /\ stripe[s].state = "none"
          /\ stripe' = [stripe EXCEPT ![s] = [state |-> "open", price |-> job[h].target,
                                              meta |-> job[h].target, cancel |-> FALSE]]
     \/ /\ \A s \in Sub : stripe[s].state # "none"
        /\ UNCHANGED stripe
  /\ job' = [job EXCEPT ![h] = NoJob]
  /\ UNCHANGED <<tenant, events, acked, marked, turns, faults, finished, repeated,
                 bought, overdue, skipped>>

\* VerifyCheckoutSession, on the user's return from a completed session.
VerifyCheckoutSession(s) ==
  /\ Turn("verify")
  /\ stripe[s].state \in Live \cup {"canceled"}
  /\ WriteTenant(HandleCheckoutCompleted(s))
  /\ UNCHANGED <<stripe, events, acked, marked, job, faults, finished, repeated, bought, skipped>>

\* The guards of the services on the row they read.
ScheduleDowngradeAccepts(p) ==
  IsDowngrade(tenant.plan, p) /\ (p = Free \/ p \in Priced)
CancelDowngradeAccepts ==
  tenant.pending # NoPlan /\ (tenant.pending = Free \/ tenant.plan \in Priced)

ServiceAccepts(op, p) ==
  /\ tenant.sub # NoSub
  /\ op = "downgrade" => ScheduleDowngradeAccepts(p)
  /\ op = "cancel" => CancelDowngradeAccepts
  /\ op = "change" => p \in Priced

ReadTenant(h) ==
  /\ Requesting(h, "read")
  /\ \/ /\ ~ServiceAccepts(job[h].op, job[h].target)
        /\ job' = [job EXCEPT ![h] = NoJob]
     \/ /\ ServiceAccepts(job[h].op, job[h].target)
        /\ job' = [job EXCEPT ![h].row = tenant,
             ![h].step = IF job[h].op = "change" /\ tenant.pending = Free
                         THEN "undo" ELSE "stripe"]
  /\ UNCHANGED <<tenant, stripe, events, acked, marked, turns, faults, finished,
                 repeated, bought, overdue, skipped>>

\* A call of Subscriptions.Update; one that changes nothing creates no event.
UpdateSubscription(s, new) ==
  \/ new # stripe[s] /\ StripeChanges(s, new, <<"updated">>)
  \/ new = stripe[s] /\ UNCHANGED <<stripe, events, bought>>

\* ChangeSubscriptionPlan takes back cancel_at_period_end; an error is ignored.
UndoCancel(h) ==
  /\ Requesting(h, "undo")
  /\ LET s == job[h].row.sub
     IN \/ /\ stripe[s].state \in Live
           /\ UpdateSubscription(s, [stripe[s] EXCEPT !.cancel = FALSE])
        \/ stripe[s].state \notin Live /\ UNCHANGED <<stripe, events, bought>>
  /\ job' = [job EXCEPT ![h].step = "stripe"]
  /\ UNCHANGED <<tenant, acked, marked, turns, faults, finished, repeated, overdue, skipped>>

\* What the request makes of its subscription.
ScheduleDowngrade(h, old) ==
  IF job[h].target = Free THEN [old EXCEPT !.cancel = TRUE]
  ELSE [old EXCEPT !.price = job[h].target]
CancelScheduledDowngrade(h, old) ==
  IF job[h].row.pending = Free THEN [old EXCEPT !.cancel = FALSE]
  ELSE [old EXCEPT !.price = job[h].row.plan]
ChangeSubscriptionPlan(h, old) == [old EXCEPT !.price = job[h].target]

NewSubscription(h, old) ==
  CASE job[h].op = "downgrade" -> ScheduleDowngrade(h, old)
    [] job[h].op = "cancel"    -> CancelScheduledDowngrade(h, old)
    [] OTHER                   -> ChangeSubscriptionPlan(h, old)

\* The update fails when the subscription has ended.
CallStripe(h) ==
  /\ Requesting(h, "stripe")
  /\ LET s == job[h].row.sub
     IN \/ /\ stripe[s].state \in Live
           /\ UpdateSubscription(s, NewSubscription(h, stripe[s]))
           /\ job' = [job EXCEPT ![h].step = "save",
                                 ![h].row.status = MapStatus(stripe[s].state)]
        \/ /\ stripe[s].state \notin Live
           /\ job' = [job EXCEPT ![h] = NoJob]
           /\ UNCHANGED <<stripe, events, bought>>
  /\ UNCHANGED <<tenant, acked, marked, turns, faults, finished, repeated, overdue, skipped>>

\* GetSubscription, and whether Stripe's plan is to be written to the row.
FetchSubscription(h) ==
  /\ Requesting(h, "fetch")
  /\ LET found == IF tenant.sub = NoSub THEN NoPlan ELSE PlanFor(stripe[tenant.sub].price)
     IN \/ /\ found \notin {NoPlan, job[h].row.plan} /\ job[h].row.pending = NoPlan
           /\ job' = [job EXCEPT ![h].step = "save", ![h].target = found]
        \/ /\ found \in {NoPlan, job[h].row.plan} \/ job[h].row.pending # NoPlan
           /\ job' = [job EXCEPT ![h] = NoJob]
  /\ UNCHANGED <<tenant, stripe, events, acked, marked, turns, faults, finished,
                 repeated, bought, overdue, skipped>>

\* The columns the request writes.
SavedRow(h) ==
  CASE job[h].op = "downgrade" -> [tenant EXCEPT !.pending = job[h].target]
    [] job[h].op = "cancel"    -> [tenant EXCEPT !.pending = NoPlan]
    [] job[h].op = "change"    -> [tenant EXCEPT !.plan = job[h].target,
                                     !.status = job[h].row.status, !.pending = NoPlan]
    [] OTHER                   -> [tenant EXCEPT !.plan = job[h].target]

SaveTenant(h) ==
  /\ Requesting(h, "save")
  /\ WriteTenant(SavedRow(h))
  /\ job' = [job EXCEPT ![h] = NoJob]
  /\ UNCHANGED <<stripe, events, acked, marked, turns, faults, finished, repeated, bought, skipped>>

\* An error, a cancelled request or a crash ends the request where it is.
RequestFails(h) ==
  /\ job[h].op \notin {"none", "webhook"} /\ Fault
  /\ job' = [job EXCEPT ![h] = NoJob]
  /\ UNCHANGED <<tenant, stripe, events, acked, marked, turns, finished, repeated,
                 bought, overdue, skipped>>

-----------------------------------------------------------------------------

Handle(h) ==
  \/ ReadForEvent(h) \/ WriteForEvent(h)
  \/ CreateSession(h) \/ ReadTenant(h) \/ UndoCancel(h) \/ CallStripe(h)
  \/ FetchSubscription(h) \/ SaveTenant(h)

StripeStep(s) ==
  PayCheckout(s) \/ ExpireCheckout(s) \/ PortalUpdate(s) \/ Payment(s) \/ PeriodEnds(s)

Next ==
  \/ \E s \in Sub : StripeStep(s) \/ VerifyCheckoutSession(s)
  \/ \E h \in Handler :
       \/ Handle(h) \/ WebhookFails(h) \/ RequestFails(h)
       \/ \E e \in DOMAIN events : Deliver(h, e)
       \/ \E op \in AllOps, p \in Plan : Request(h, op, p)

Spec == Init /\ [][Next]_vars

\* Requests are handled to the end, and Stripe repeats an event until it is
\* answered with 200.
LiveSpec ==
  /\ Spec
  /\ \A h \in Handler : WF_vars(Handle(h))
  /\ WF_vars(\E h \in Handler, e \in DOMAIN events : Deliver(h, e))

-----------------------------------------------------------------------------

\* The variables have their types.
TypeOK ==
  /\ tenant \in Row
  /\ stripe \in [Sub -> [state: StripeState, price: Plan, meta: Plan, cancel: BOOLEAN]]
  /\ events \in Seq(Event)
  /\ acked \subseteq DOMAIN events /\ marked \subseteq DOMAIN events
  /\ job \in [Handler -> Job]
  /\ turns \in Nat /\ faults \in Nat
  /\ finished \subseteq DOMAIN events /\ repeated \subseteq DOMAIN events
  /\ bought \subseteq Plan /\ overdue \in BOOLEAN /\ skipped \in BOOLEAN

\* However often Stripe sends an event, and however its deliveries overlap,
\* its handler runs to the end at most once (MarkEventProcessed).
AppliedOnce == repeated = {}

\* A tenant is on the free plan or on one that a subscription of its has been
\* charged for: no path through checkout, plan change, self-heal, webhooks in
\* any order, races or failures grants a plan before Stripe has its price.
PlanWasPaidFor == tenant.plan \in bought \cup {Free}

Quiet == acked = DOMAIN events /\ \A h \in Handler : job[h] = NoJob

\* When all webhooks are answered and no request is under way, the row agrees
\* with Stripe: its subscription lives, with the row's status and the row's
\* plan; without one the tenant is on free.  The plans may differ while a
\* downgrade is pending, and after a change of plan in the portal that met a
\* pending cancellation.
Converged ==
  Quiet =>
    IF tenant.sub = NoSub THEN tenant.plan = Free
    ELSE LET s == stripe[tenant.sub]
         IN /\ s.state \in Live /\ tenant.status = MapStatus(s.state)
            /\ tenant.pending = NoPlan /\ s.price \in Priced /\ ~skipped
                 => tenant.plan = s.price

\* While a downgrade is pending the tenant keeps the plan it comes from
\* (HandleSubscriptionUpdated and the self-heal must not write the new one).
KeepsPlanWhilePending == tenant.pending # NoPlan => tenant.plan > tenant.pending

\* Every event Stripe creates is answered with 200 in the end, also when the
\* first attempts to handle it failed: again and again Stripe has none left to
\* repeat.
EventuallyAcked == []<>(acked = DOMAIN events)

\* Answered, not handled to the end, and not being handled.
Dropped == {e \in acked : e \notin finished /\ \A h \in Handler : job[h].event # e}

\* MarkEventProcessed comes before the handler, so a failure in between drops
\* the event for good; but every drop takes a failure of its own, however
\* repetitions, crashes and other events interleave.
DroppedOnlyByFailure == Cardinality(Dropped) <= faults

\* The guard of HandleSubscriptionDeleted: the end of an older subscription
\* never takes the tenant's present one away.  A tenant loses a subscription
\* only when Stripe has ended that one.
OnlyEndedIsCleared ==
  [][tenant.sub # NoSub /\ tenant'.sub = NoSub => stripe[tenant.sub].state \notin Live]_vars

-----------------------------------------------------------------------------
(* What the comments of the code say and the code does not keep.           *)

\* An event is not dropped: once answered, and no longer being handled, it
\* was handled to the end (processBillingWebhook).
NothingDropped == Dropped = {}

\* The end of a subscription is not written over the tenant's new one: what
\* HandleSubscriptionDeleted checked still holds when it writes.
DeleteKeepsNewer ==
  \A h \in Handler :
    Handling(h, "save") /\ EventOf(h).type = "deleted"
      => tenant.sub \in {NoSub, EventOf(h).sub}

\* A scheduled downgrade takes effect when the period ends: not pending any
\* more once the events of the period's end have been handled.
DowngradeTakesEffect == Quiet => ~overdue

=============================================================================

------------------------- MODULE StripeBillingProofs -------------------------
(***************************************************************************)
(* Theorems about StripeBilling, for any number of subscriptions and plans *)
(* and any sequence of requests and changes on Stripe's side.              *)
(*                                                                         *)
(* BillingInv holds of any number of handlers, any order of events and any *)
(* faults: whatever has a price or a plan has been charged, and an event   *)
(* is handled once.  LostInv counts what failures lose.  The others are    *)
(* about webhooks in order: ClearInv follows the end of a subscription to  *)
(* the row, PendingInv a scheduled downgrade with one request at a time.   *)
(* ConvergeInv compares row and Stripe where nothing is Coming: every      *)
(* change creates one event that tells of it (OneTells), the last one says *)
(* what the subscription is by now (EventsAgree), and the row takes it     *)
(* over, except for what a pending downgrade or a request at hand holds    *)
(* back (RowAgrees, JobAgrees).                                            *)
(***************************************************************************)
EXTENDS StripeBilling, SequenceTheorems, FiniteSetTheorems, TLAPS

SubRecord == [state: StripeState, price: Plan, meta: Plan, cancel: BOOLEAN]

\* The states of a subscription that has been paid for.
Paid == Live \cup {"canceled"}

\* What Stripe does to a subscription and to its events: the old events stay,
\* the new ones are about this subscription and carry its new price.
LEMMA StripeChangesLemma ==
  ASSUME TypeOK, NEW s \in Sub, NEW new \in SubRecord,
         NEW types \in Seq(EventType), StripeChanges(s, new, types)
  PROVE  /\ stripe' \in [Sub -> SubRecord] /\ stripe' = [stripe EXCEPT ![s] = new]
         /\ events' \in Seq(Event)
         /\ DOMAIN events \subseteq DOMAIN events'
         /\ \A e \in DOMAIN events : events'[e] = events[e]
         /\ \A e \in DOMAIN events' \ DOMAIN events :
              /\ events'[e].sub = s /\ events'[e].price = new.price
              /\ \E i \in DOMAIN types : events'[e].type = types[i]
         /\ bought' = IF new.state \in Live THEN bought \cup {new.price} ELSE bought
<1> DEFINE more == [i \in 1..Len(types) |->
      [type |-> types[i], sub |-> s, price |-> new.price, state |-> new.state]]
<1>1. more \in Seq(Event) /\ Len(more) = Len(types)
  <2>1. \A i \in 1..Len(types) : more[i] \in Event
    BY DEF SubRecord, Event
  <2>2. Len(types) \in Nat
    OBVIOUS
  <2> QED BY <2>1, <2>2, IsASeq, LenProperties
<1>2. events \in Seq(Event) /\ events' = events \o more
  BY DEF TypeOK, StripeChanges
<1>3. \A i \in 1..Len(types) :
        more[i].type = types[i] /\ more[i].sub = s /\ more[i].price = new.price
  OBVIOUS
<1> HIDE DEF more
<1>4. events' \in Seq(Event) /\ Len(events') = Len(events) + Len(more)
  BY <1>1, <1>2, ConcatProperties
<1>5. \A e \in 1..Len(events') :
        events'[e] = IF e <= Len(events) THEN events[e] ELSE more[e - Len(events)]
  BY <1>1, <1>2, <1>4, ConcatProperties
<1>6. /\ DOMAIN events = 1..Len(events) /\ DOMAIN events' = 1..Len(events')
      /\ Len(events) \in Nat /\ Len(types) \in Nat /\ DOMAIN types = 1..Len(types)
  BY <1>2, <1>4, LenProperties
<1>7. \A e \in DOMAIN events' \ DOMAIN events :
        e - Len(events) \in 1..Len(types) /\ events'[e] = more[e - Len(events)]
  BY <1>1, <1>4, <1>5, <1>6
<1>8. \A e \in DOMAIN events' \ DOMAIN events :
        /\ events'[e].sub = s /\ events'[e].price = new.price
        /\ \E i \in DOMAIN types : events'[e].type = types[i]
  BY <1>3, <1>6, <1>7
<1>9. DOMAIN events \subseteq DOMAIN events' /\ \A e \in DOMAIN events : events'[e] = events[e]
  BY <1>1, <1>4, <1>5, <1>6
<1>10. stripe' = [stripe EXCEPT ![s] = new] /\ stripe' \in [Sub -> SubRecord]
  BY DEF TypeOK, StripeChanges, SubRecord
<1> QED BY <1>4, <1>8, <1>9, <1>10 DEF StripeChanges

-----------------------------------------------------------------------------
(* The inductive invariant.                                                *)

\* What a handler knows at its step.
JobOK(h) ==
  /\ job[h].op = "webhook" =>
       /\ job[h].event \in marked \ finished
       /\ job[h].step = "save" => /\ EventOf(h).type # "expired"
                                  /\ job[h].target \in bought \cup {NoPlan}
  /\ job[h].op \notin {"none", "webhook"} =>
       /\ job[h].target \in Plan
       /\ job[h].step \in {"undo", "stripe"} => job[h].row.sub \in Sub
       /\ job[h].step = "save" /\ job[h].op \notin {"downgrade", "cancel"}
            => job[h].target \in bought

\* An event that is being handled is marked, has not been handled before and
\* is handled by one request.
OneHandler ==
  /\ repeated = {} /\ finished \subseteq marked
  /\ \A g, h \in Handler :
       g # h /\ job[g].op = "webhook" /\ job[h].op = "webhook"
         => job[g].event # job[h].event

\* Stripe has charged the price of every subscription, its first one included.
StripePaid ==
  \A s \in Sub :
    /\ stripe[s].state \in Paid => stripe[s].price \in bought /\ stripe[s].meta \in bought
    /\ stripe[s].state = "open" => stripe[s].meta = stripe[s].price

\* Except for expired sessions, events are about subscriptions that were paid.
EventsPaid ==
  \A e \in DOMAIN events :
    events[e].type # "expired" =>
      stripe[events[e].sub].state \in Paid /\ events[e].price \in bought

TenantPaid ==
  PlanWasPaidFor /\ (tenant.sub # NoSub => stripe[tenant.sub].state \in Paid)

BillingInv ==
  /\ TypeOK /\ OneHandler /\ StripePaid /\ EventsPaid /\ TenantPaid
  /\ \A h \in Handler : JobOK(h)

\* Initially there are no events and no subscriptions.
LEMMA BillingInit == Init => BillingInv
<1> SUFFICES ASSUME Init PROVE BillingInv
  OBVIOUS
<1>1. NewTenant \in Row /\ NoJob \in Job
  BY ConstantsAssumption DEF NewTenant, NoJob, Row, Job, Free
<1>2. TypeOK
  <2>1. stripe \in [Sub -> [state: StripeState, price: Plan, meta: Plan, cancel: BOOLEAN]]
    BY ConstantsAssumption DEF Init, StripeState, Free
  <2>2. events \in Seq(Event) /\ DOMAIN events = {}
    BY DEF Init
  <2> QED BY <1>1, <2>1, <2>2 DEF Init, TypeOK
<1>3. OneHandler /\ StripePaid /\ EventsPaid /\ \A h \in Handler : JobOK(h)
  BY DEF Init, OneHandler, StripePaid, EventsPaid, JobOK, NoJob, Paid, Live
<1>4. TenantPaid
  BY DEF Init, TenantPaid, PlanWasPaidFor, NewTenant
<1> QED
  BY <1>2, <1>3, <1>4 DEF BillingInv

\* How Stripe's side may change: paid subscriptions stay so, no event is lost.
Evolves ==
  /\ stripe' \in [Sub -> SubRecord] /\ events' \in Seq(Event) /\ bought' \subseteq Plan
  /\ DOMAIN events \subseteq DOMAIN events'
  /\ \A e \in DOMAIN events : events'[e] = events[e]
  /\ bought \subseteq bought'
  /\ \A s \in Sub : stripe[s].state \in Paid => stripe'[s].state \in Paid
  /\ StripePaid' /\ EventsPaid'

\* Nothing of Stripe's side changed.
LEMMA StaysPaid ==
  ASSUME BillingInv, UNCHANGED <<stripe, events, bought>>
  PROVE  Evolves
  BY DEF BillingInv, Evolves, TypeOK, SubRecord, StripePaid, EventsPaid

\* A change of a live subscription, of its payment or of its end.
LEMMA ChangeEvolves ==
  ASSUME BillingInv, NEW s \in Sub, NEW new \in SubRecord,
         NEW types \in Seq(EventType), StripeChanges(s, new, types),
         new.meta = stripe[s].meta, stripe[s].state \in Live \cup {"open"},
         stripe[s].state = "open" => new.price = stripe[s].price,
         \/ new.state \in Live
         \/ new.state = "canceled" /\ stripe[s].state \in Live /\ new.price = stripe[s].price
         \/ /\ new.state = "expired" /\ stripe[s].state = "open"
            /\ \A i \in DOMAIN types : types[i] = "expired"
  PROVE  Evolves
<1>1. /\ stripe' \in [Sub -> SubRecord] /\ stripe' = [stripe EXCEPT ![s] = new]
      /\ events' \in Seq(Event) /\ DOMAIN events \subseteq DOMAIN events'
      /\ \A e \in DOMAIN events : events'[e] = events[e]
      /\ \A e \in DOMAIN events' \ DOMAIN events :
           /\ events'[e].sub = s /\ events'[e].price = new.price
           /\ \E i \in DOMAIN types : events'[e].type = types[i]
      /\ bought' = IF new.state \in Live THEN bought \cup {new.price} ELSE bought
  BY StripeChangesLemma DEF BillingInv
<1>2. bought \subseteq bought' /\ bought' \subseteq Plan
  BY <1>1 DEF BillingInv, TypeOK, SubRecord
<1>3. stripe \in [Sub -> SubRecord] /\ events \in Seq(Event)
  BY DEF BillingInv, TypeOK, SubRecord
<1>4. \A t \in Sub : stripe[t].state \in Paid => stripe'[t].state \in Paid
  BY <1>1, <1>3 DEF Paid, Live
<1>5. StripePaid'
  <2> SUFFICES ASSUME NEW t \in Sub
               PROVE  /\ stripe'[t].state \in Paid =>
                           stripe'[t].price \in bought' /\ stripe'[t].meta \in bought'
                      /\ stripe'[t].state = "open" => stripe'[t].meta = stripe'[t].price
    BY DEF StripePaid
  <2>1. CASE t # s
    BY <1>1, <1>2, <1>3, <2>1 DEF BillingInv, StripePaid
  <2>2. CASE t = s
    BY <1>1, <1>2, <1>3, <2>2 DEF BillingInv, StripePaid, Paid, Live
  <2> QED BY <2>1, <2>2
<1>6. EventsPaid'
  <2> SUFFICES ASSUME NEW e \in DOMAIN events', events'[e].type # "expired"
               PROVE  stripe'[events'[e].sub].state \in Paid /\ events'[e].price \in bought'
    BY DEF EventsPaid
  <2>1. CASE e \in DOMAIN events
    <3>1. events[e] \in Event
      BY <1>3, <2>1, ElementOfSeq, LenProperties
    <3> QED BY <1>1, <1>2, <1>4, <2>1, <3>1 DEF BillingInv, EventsPaid, Event
  <2>2. CASE e \notin DOMAIN events
    <3>1. new.state \in Live \/ new.state = "canceled"
      BY <1>1, <2>2
    <3>2. new.price \in bought'
      BY <1>1, <1>2, <1>3, <3>1 DEF BillingInv, StripePaid, Paid, Live
    <3> QED BY <1>1, <1>3, <2>2, <3>1, <3>2 DEF Paid, Live
  <2> QED BY <2>1, <2>2
<1> QED BY <1>1, <1>2, <1>4, <1>5, <1>6 DEF Evolves

-----------------------------------------------------------------------------
(* The steps.                                                              *)

\* A handler that a step does not touch knows what it knew.
LEMMA OthersKeep ==
  ASSUME BillingInv, Evolves, NEW g \in Handler, job'[g] = job[g],
         marked \subseteq marked', job[g].op = "webhook" => job[g].event \notin finished'
  PROVE  JobOK(g)'
<1>1. JobOK(g)
  BY DEF BillingInv
<1>2. job[g].op = "webhook" => EventOf(g)' = EventOf(g)
  BY <1>1 DEF JobOK, EventOf, BillingInv, TypeOK, Evolves
<1> QED
  BY <1>1, <1>2 DEF JobOK, Evolves

\* The tenant's plan stays paid for while Stripe's side evolves.
LEMMA TenantKeeps ==
  ASSUME BillingInv, Evolves, UNCHANGED tenant
  PROVE  TenantPaid' /\ tenant' \in Row
  BY DEF BillingInv, TypeOK, Row, Evolves, TenantPaid, PlanWasPaidFor

\* A step that handles no event: one handler's job changes, or none.
LEMMA RequestStep ==
  ASSUME BillingInv, Evolves, NEW h \in Handler,
         job' = [job EXCEPT ![h] = job'[h]], job'[h] \in Job,
         job'[h].op = "webhook" => job'[h] = job[h], JobOK(h)',
         UNCHANGED <<acked, marked, finished, repeated>>,
         tenant' \in Row, TenantPaid',
         turns' \in Nat, faults' \in Nat, overdue' \in BOOLEAN, skipped' \in BOOLEAN
  PROVE  BillingInv'
<1>1. TypeOK'
  BY DEF BillingInv, TypeOK, Evolves, SubRecord
<1>2. job \in [Handler -> Job] /\ \A g \in Handler : g # h => job'[g] = job[g]
  BY DEF BillingInv, TypeOK
<1>3. OneHandler'
  BY <1>2 DEF BillingInv, OneHandler
<1>4. \A g \in Handler : JobOK(g)'
  <2> SUFFICES ASSUME NEW g \in Handler, g # h PROVE JobOK(g)'
    OBVIOUS
  <2>1. job[g].op = "webhook" => job[g].event \notin finished'
    BY DEF BillingInv, JobOK
  <2> QED BY <1>2, <2>1, OthersKeep
<1> QED
  BY <1>1, <1>3, <1>4 DEF BillingInv, Evolves

\* A step of Stripe, or of a verification, touches no job.
LEMMA NoJobStep ==
  ASSUME BillingInv, Evolves, UNCHANGED <<job, acked, marked, finished, repeated>>,
         tenant' \in Row, TenantPaid',
         turns' \in Nat, faults' \in Nat, overdue' \in BOOLEAN, skipped' \in BOOLEAN
  PROVE  BillingInv'
<1>1. TypeOK'
  BY DEF BillingInv, TypeOK, Evolves, SubRecord
<1>2. OneHandler'
  BY DEF BillingInv, OneHandler
<1>3. ASSUME NEW g \in Handler PROVE JobOK(g)'
  <2>1. job[g].op = "webhook" => job[g].event \notin finished'
    BY DEF BillingInv, JobOK
  <2> QED BY <2>1, OthersKeep
<1> QED
  BY <1>1, <1>2, <1>3 DEF BillingInv, Evolves

\* Stripe's own steps.
LEMMA StripeStepKeeps ==
  ASSUME BillingInv, NEW s \in Sub, StripeStep(s)
  PROVE  BillingInv'
<1>1. stripe[s] \in SubRecord /\ turns \in Nat /\ faults \in Nat /\ overdue \in BOOLEAN
      /\ skipped \in BOOLEAN
  BY DEF BillingInv, TypeOK, SubRecord
<1>2. <<"updated", "completed">> \in Seq(EventType) /\ <<"expired">> \in Seq(EventType)
      /\ <<"updated">> \in Seq(EventType) /\ <<"failed", "updated">> \in Seq(EventType)
      /\ <<"paid", "updated">> \in Seq(EventType) /\ <<"deleted">> \in Seq(EventType)
  BY DEF EventType
<1>3. ASSUME Evolves, UNCHANGED <<tenant, acked, marked, job, faults, finished, repeated, skipped>>,
             turns' \in Nat, overdue' \in BOOLEAN
      PROVE  BillingInv'
  BY <1>1, <1>3, TenantKeeps, NoJobStep
<1>4. CASE PayCheckout(s)
  <2> DEFINE new == [stripe[s] EXCEPT !.state = "active"]
  <2>1. new \in SubRecord /\ new.meta = stripe[s].meta /\ new.price = stripe[s].price
        /\ new.state \in Live
    BY <1>1 DEF SubRecord, Live, StripeState
  <2>2. StripeChanges(s, new, <<"updated", "completed">>) /\ stripe[s].state = "open"
    BY <1>4 DEF PayCheckout
  <2> HIDE DEF new
  <2>3. Evolves
    BY <1>2, <2>1, <2>2, ChangeEvolves
  <2> QED BY <1>1, <1>3, <1>4, <2>3 DEF PayCheckout
<1>5. CASE ExpireCheckout(s)
  <2> DEFINE new == [stripe[s] EXCEPT !.state = "expired"]
  <2>1. new \in SubRecord /\ new.meta = stripe[s].meta /\ new.price = stripe[s].price
        /\ new.state = "expired"
    BY <1>1 DEF SubRecord, StripeState
  <2>2. StripeChanges(s, new, <<"expired">>) /\ stripe[s].state = "open"
    BY <1>5 DEF ExpireCheckout
  <2> HIDE DEF new
  <2>3. \A i \in DOMAIN <<"expired">> : <<"expired">>[i] = "expired"
    OBVIOUS
  <2>4. Evolves
    BY <1>2, <2>1, <2>2, <2>3, ChangeEvolves
  <2> QED BY <1>1, <1>3, <1>5, <2>4 DEF ExpireCheckout
<1>6. CASE PortalUpdate(s)
  <2>1. Evolves
    <3>1. ASSUME NEW p \in Plan, StripeChanges(s, [stripe[s] EXCEPT !.price = p], <<"updated">>)
          PROVE  Evolves
      <4> DEFINE new == [stripe[s] EXCEPT !.price = p]
      <4>1. new \in SubRecord /\ new.meta = stripe[s].meta /\ new.state = stripe[s].state
        BY <1>1 DEF SubRecord
      <4>2. stripe[s].state \in Live /\ stripe[s].state # "open"
        BY <1>6 DEF PortalUpdate, Live
      <4>3. StripeChanges(s, new, <<"updated">>)
        BY <3>1
      <4> HIDE DEF new
      <4> QED BY <1>2, <4>1, <4>2, <4>3, ChangeEvolves
    <3>2. ASSUME StripeChanges(s, [stripe[s] EXCEPT !.cancel = ~@], <<"updated">>)
          PROVE  Evolves
      <4> DEFINE new == [stripe[s] EXCEPT !.cancel = ~@]
      <4>1. new \in SubRecord /\ new.meta = stripe[s].meta /\ new.state = stripe[s].state
        BY <1>1 DEF SubRecord
      <4>2. stripe[s].state \in Live /\ stripe[s].state # "open"
        BY <1>6 DEF PortalUpdate, Live
      <4>3. StripeChanges(s, new, <<"updated">>)
        BY <3>2
      <4> HIDE DEF new
      <4> QED BY <1>2, <4>1, <4>2, <4>3, ChangeEvolves
    <3> QED BY <1>6, <3>1, <3>2 DEF PortalUpdate
  <2> QED BY <1>1, <1>3, <1>6, <2>1 DEF PortalUpdate, Turn
<1>7. CASE Payment(s)
  <2>1. Evolves
    <3>1. ASSUME NEW st \in Live, NEW types \in Seq(EventType),
                 StripeChanges(s, [stripe[s] EXCEPT !.state = st], types)
          PROVE  Evolves
      <4> DEFINE new == [stripe[s] EXCEPT !.state = st]
      <4>1. new \in SubRecord /\ new.meta = stripe[s].meta /\ new.state \in Live
        BY <1>1 DEF SubRecord, StripeState
      <4>2. stripe[s].state \in Live /\ stripe[s].state # "open"
        BY <1>7 DEF Payment, Live
      <4>3. StripeChanges(s, new, types)
        BY <3>1
      <4> HIDE DEF new
      <4> QED BY <4>1, <4>2, <4>3, ChangeEvolves
    <3>2. "active" \in Live /\ {"past_due", "unpaid"} \subseteq Live
      BY DEF Live
    <3>3. CASE StripeChanges(s, [stripe[s] EXCEPT !.state = "active"], <<"paid", "updated">>)
      BY <1>2, <3>1, <3>2, <3>3
    <3>4. CASE \E st \in {"past_due", "unpaid"} :
                 StripeChanges(s, [stripe[s] EXCEPT !.state = st], <<"failed", "updated">>)
      BY <1>2, <3>1, <3>2, <3>4
    <3> QED BY <1>7, <3>3, <3>4 DEF Payment
  <2> QED BY <1>1, <1>3, <1>7, <2>1 DEF Payment, Turn
<1>8. CASE PeriodEnds(s)
  <2>1. stripe[s].state \in Live /\ stripe[s].state # "open"
    BY <1>8 DEF PeriodEnds, Live
  <2>2. ASSUME StripeChanges(s, [stripe[s] EXCEPT !.state = "canceled"], <<"deleted">>)
        PROVE  Evolves
    <3> DEFINE new == [stripe[s] EXCEPT !.state = "canceled"]
    <3>1. new \in SubRecord /\ new.meta = stripe[s].meta /\ new.price = stripe[s].price
          /\ new.state = "canceled"
      BY <1>1 DEF SubRecord, StripeState
    <3>2. StripeChanges(s, new, <<"deleted">>)
      BY <2>2
    <3> HIDE DEF new
    <3> QED BY <1>2, <2>1, <3>1, <3>2, ChangeEvolves
  <2>3. ASSUME StripeChanges(s, stripe[s], <<"paid", "updated">>)
        PROVE  Evolves
    <3> DEFINE new == stripe[s]
    <3>1. new \in SubRecord /\ new.meta = stripe[s].meta /\ new.state \in Live
      BY <1>1, <2>1
    <3>2. StripeChanges(s, new, <<"paid", "updated">>)
      BY <2>3
    <3> HIDE DEF new
    <3> QED BY <1>2, <2>1, <3>1, <3>2, ChangeEvolves
  <2>4. Evolves /\ overdue' \in BOOLEAN
    BY <1>1, <1>8, <2>2, <2>3 DEF PeriodEnds
  <2> QED BY <1>1, <1>3, <1>8, <2>4 DEF PeriodEnds, Turn
<1> QED
  BY <1>4, <1>5, <1>6, <1>7, <1>8 DEF StripeStep

\* The requests of users.  Each changes the job of its handler, and at most
\* one of Stripe and the row.
LEMMA UserStepKeeps ==
  ASSUME BillingInv, NEW h \in Handler,
         \/ \E op \in AllOps, p \in Plan : Request(h, op, p)
         \/ CreateSession(h) \/ ReadTenant(h) \/ UndoCancel(h) \/ CallStripe(h)
         \/ FetchSubscription(h) \/ SaveTenant(h) \/ RequestFails(h) \/ WebhookFails(h)
  PROVE  BillingInv'
<1>1. /\ TypeOK /\ job \in [Handler -> Job] /\ job[h] \in Job /\ JobOK(h)
      /\ tenant \in Row /\ turns \in Nat /\ faults \in Nat
      /\ overdue \in BOOLEAN /\ skipped \in BOOLEAN /\ bought \subseteq Plan
      /\ stripe \in [Sub -> SubRecord]
  BY DEF BillingInv, TypeOK, SubRecord
<1>2. NoJob \in Job /\ NoJob.op = "none"
  BY ConstantsAssumption DEF NoJob, Job, NewTenant, Row, Free
<1>3. ASSUME UNCHANGED <<stripe, events, bought, acked, marked, finished, repeated,
                         tenant, overdue, skipped>>,
             turns' \in Nat, faults' \in Nat, job' = [job EXCEPT ![h] = job'[h]],
             job'[h] \in Job, job'[h].op = "webhook" => job'[h] = job[h], JobOK(h)'
      PROVE  BillingInv'
  BY <1>1, <1>3, StaysPaid, TenantKeeps, RequestStep
<1>4. ASSUME job' = [job EXCEPT ![h] = NoJob]
      PROVE  /\ job' = [job EXCEPT ![h] = job'[h]] /\ job'[h] \in Job
             /\ job'[h].op = "none" /\ JobOK(h)'
  <2>1. job'[h] = NoJob /\ job' = [job EXCEPT ![h] = job'[h]]
    BY <1>1, <1>4
  <2>2. JobOK(h)'
    BY <1>2, <2>1 DEF JobOK
  <2> QED BY <1>2, <2>1, <2>2
<1>5. ASSUME NEW op \in AllOps, NEW p \in Plan, Request(h, op, p)
      PROVE  BillingInv'
  <2>1. op \notin {"none", "webhook"} /\ FirstStep(op) \in {"session", "fetch", "read"}
    BY DEF AllOps, FirstStep
  <2>2. job'[h] = [op |-> op, step |-> FirstStep(op), event |-> 0, target |-> p,
                   row |-> tenant]
        /\ job' = [job EXCEPT ![h] = job'[h]]
    BY <1>1, <1>5 DEF Request
  <2>3. job'[h] \in Job
    BY <1>1, <2>1, <2>2 DEF Job
  <2>4. JobOK(h)' /\ job'[h].op # "webhook"
    BY <2>1, <2>2 DEF JobOK
  <2> QED BY <1>1, <1>3, <1>5, <2>2, <2>3, <2>4 DEF Request, Turn
<1>6. CASE WebhookFails(h) \/ RequestFails(h)
  BY <1>1, <1>3, <1>4, <1>6 DEF WebhookFails, RequestFails, Fault
<1>7. CASE ReadTenant(h)
  <2>1. CASE job' = [job EXCEPT ![h] = NoJob]
    BY <1>1, <1>3, <1>4, <1>7, <2>1 DEF ReadTenant
  <2>2. CASE /\ ServiceAccepts(job[h].op, job[h].target)
             /\ job' = [job EXCEPT ![h].row = tenant,
                  ![h].step = IF job[h].op = "change" /\ tenant.pending = Free
                              THEN "undo" ELSE "stripe"]
    <3>1. /\ job' = [job EXCEPT ![h] = job'[h]] /\ job'[h] \in Job
          /\ job'[h].op = job[h].op /\ job'[h].target = job[h].target
          /\ job'[h].row = tenant /\ job'[h].step \in {"undo", "stripe"}
      BY <1>1, <2>2 DEF Job
    <3>2. tenant.sub \in Sub /\ job[h].op \notin {"none", "webhook"}
      BY <1>1, <1>7, <2>2 DEF ReadTenant, Requesting, ServiceAccepts, Row
    <3>3. JobOK(h)'
      BY <1>1, <3>1, <3>2 DEF JobOK
    <3> QED BY <1>1, <1>3, <1>7, <3>1, <3>2, <3>3 DEF ReadTenant
  <2> QED BY <1>7, <2>1, <2>2 DEF ReadTenant
<1>8. CASE FetchSubscription(h)
  <2> DEFINE found == IF tenant.sub = NoSub THEN NoPlan ELSE PlanFor(stripe[tenant.sub].price)
  <2>1. CASE job' = [job EXCEPT ![h] = NoJob]
    BY <1>1, <1>3, <1>4, <1>8, <2>1 DEF FetchSubscription
  <2>2. CASE /\ found # NoPlan
             /\ job' = [job EXCEPT ![h].step = "save", ![h].target = found]
    <3>1. found \in bought
      <4>1. tenant.sub \in Sub /\ stripe[tenant.sub].state \in Paid
            /\ found = stripe[tenant.sub].price
        BY <1>1, <2>2 DEF Row, BillingInv, TenantPaid, PlanFor
      <4> QED BY <4>1 DEF BillingInv, StripePaid
    <3> HIDE DEF found
    <3>2. /\ job' = [job EXCEPT ![h] = job'[h]] /\ job'[h] \in Job
          /\ job'[h].op = job[h].op /\ job'[h].target = found /\ job'[h].step = "save"
      BY <1>1, <2>2, <3>1 DEF Job
    <3>3. job[h].op \notin {"none", "webhook"}
          /\ UNCHANGED <<tenant, stripe, events, acked, marked, turns, faults, finished,
                         repeated, bought, overdue, skipped>>
      BY <1>8 DEF FetchSubscription, Requesting
    <3>4. JobOK(h)'
      BY <1>1, <3>1, <3>2, <3>3 DEF JobOK
    <3> QED BY <1>1, <1>3, <3>2, <3>3, <3>4
  <2> QED BY <1>8, <2>1, <2>2 DEF FetchSubscription
<1>9. CASE CreateSession(h)
  <2>1. Evolves
    <3>1. CASE UNCHANGED stripe
      BY <1>9, <3>1, StaysPaid DEF CreateSession
    <3>2. ASSUME NEW s \in Sub, stripe[s].state = "none",
                 stripe' = [stripe EXCEPT ![s] = [state |-> "open", price |-> job[h].target,
                                             meta |-> job[h].target, cancel |-> FALSE]]
          PROVE  Evolves
      <4>1. UNCHANGED <<events, bought>> /\ job[h].target \in Plan
        BY <1>1, <1>9 DEF CreateSession, Requesting, JobOK
      <4>2. stripe' \in [Sub -> SubRecord]
        BY <1>1, <3>2, <4>1 DEF SubRecord, StripeState
      <4>3. stripe'[s].state = "open" /\ stripe'[s].meta = stripe'[s].price
            /\ \A t \in Sub : t # s => stripe'[t] = stripe[t]
        BY <1>1, <3>2
      <4>4. StripePaid' /\ \A t \in Sub : stripe[t].state \in Paid => stripe'[t].state \in Paid
        BY <3>2, <4>1, <4>3 DEF BillingInv, StripePaid, Paid, Live
      <4>5. EventsPaid'
        <5>1. \A e \in DOMAIN events : events[e].sub \in Sub
          <6>1. events \in Seq(Event)
            BY <1>1 DEF TypeOK
          <6>2. \A e \in DOMAIN events : events[e] \in Event
            BY <6>1, ElementOfSeq, LenProperties
          <6> QED BY <6>2 DEF Event
        <5> QED BY <4>1, <4>4, <5>1 DEF BillingInv, EventsPaid
      <4> QED BY <1>1, <4>1, <4>2, <4>4, <4>5 DEF Evolves, TypeOK
    <3> QED BY <1>9, <3>1, <3>2 DEF CreateSession
  <2>2. UNCHANGED <<tenant, acked, marked, turns, faults, finished, repeated, overdue, skipped>>
        /\ job' = [job EXCEPT ![h] = NoJob]
    BY <1>9 DEF CreateSession
  <2> QED BY <1>1, <1>4, <2>1, <2>2, TenantKeeps, RequestStep
<1>10. ASSUME NEW new \in SubRecord, job[h].row.sub \in Sub,
              UpdateSubscription(job[h].row.sub, new),
              stripe[job[h].row.sub].state \in Live,
              new.state = stripe[job[h].row.sub].state,
              new.meta = stripe[job[h].row.sub].meta
       PROVE  Evolves /\ new.price \in bought'
  <2> DEFINE s == job[h].row.sub
  <2>1. CASE StripeChanges(s, new, <<"updated">>)
    <3>1. <<"updated">> \in Seq(EventType)
      BY DEF EventType
    <3>2. stripe[s].state # "open"
      BY <1>10 DEF Live
    <3> HIDE DEF s
    <3>3. s \in Sub /\ stripe[s].state \in Live /\ new.state = stripe[s].state
          /\ new.meta = stripe[s].meta
      BY <1>10 DEF s
    <3>4. Evolves
      BY <2>1, <3>1, <3>2, <3>3, ChangeEvolves
    <3>5. new.price \in bought'
      BY <2>1, <3>3 DEF StripeChanges
    <3> QED BY <3>4, <3>5
  <2>2. CASE new = stripe[s] /\ UNCHANGED <<stripe, events, bought>>
    BY <1>10, <2>2, StaysPaid DEF BillingInv, StripePaid, Paid
  <2> QED BY <1>10, <2>1, <2>2 DEF UpdateSubscription
<1>11. CASE UndoCancel(h)
  <2> DEFINE s == job[h].row.sub
             new == [stripe[s] EXCEPT !.cancel = FALSE]
  <2>1. s \in Sub /\ job[h].op \notin {"none", "webhook"}
    BY <1>1, <1>11 DEF UndoCancel, Requesting, JobOK
  <2>2. Evolves
    <3>1. new \in SubRecord /\ new.state = stripe[s].state /\ new.meta = stripe[s].meta
      BY <1>1, <2>1 DEF SubRecord
    <3>2. CASE stripe[s].state \in Live /\ UpdateSubscription(s, new)
      <4> HIDE DEF new
      <4> QED BY <1>10, <2>1, <3>1, <3>2
    <3>3. CASE UNCHANGED <<stripe, events, bought>>
      BY <3>3, StaysPaid
    <3> QED BY <1>11, <3>2, <3>3 DEF UndoCancel
  <2>3. /\ job' = [job EXCEPT ![h] = job'[h]] /\ job'[h] \in Job
        /\ job'[h].op = job[h].op /\ job'[h].target = job[h].target
        /\ job'[h].row = job[h].row /\ job'[h].step = "stripe"
    BY <1>1, <1>11 DEF UndoCancel, Job
  <2>4. JobOK(h)'
    BY <1>1, <2>1, <2>3 DEF JobOK
  <2>5. UNCHANGED <<tenant, acked, marked, turns, faults, finished, repeated, overdue, skipped>>
    BY <1>11 DEF UndoCancel
  <2> QED BY <1>1, <2>1, <2>2, <2>3, <2>4, <2>5, TenantKeeps, RequestStep
<1>12. CASE CallStripe(h)
  <2> DEFINE s == job[h].row.sub
             new == NewSubscription(h, stripe[s])
  <2>1. s \in Sub /\ job[h].op \notin {"none", "webhook"} /\ job[h].target \in Plan
    BY <1>1, <1>12 DEF CallStripe, Requesting, JobOK
  <2>2. UNCHANGED <<tenant, acked, marked, turns, faults, finished, repeated, overdue, skipped>>
    BY <1>12 DEF CallStripe
  <2>3. CASE job' = [job EXCEPT ![h] = NoJob] /\ UNCHANGED <<stripe, events, bought>>
    BY <1>1, <1>3, <1>4, <2>2, <2>3
  <2>4. CASE /\ stripe[s].state \in Live /\ UpdateSubscription(s, new)
             /\ job' = [job EXCEPT ![h].step = "save",
                                   ![h].row.status = MapStatus(stripe[s].state)]
    <3>1. job[h].row \in Row /\ stripe[s] \in SubRecord
      BY <1>1, <2>1 DEF Job
    <3>2. /\ new \in SubRecord /\ new.state = stripe[s].state /\ new.meta = stripe[s].meta
          /\ job[h].op \notin {"downgrade", "cancel"} => new.price = job[h].target
      BY <2>1, <3>1, ConstantsAssumption
         DEF NewSubscription, ScheduleDowngrade, CancelScheduledDowngrade,
             ChangeSubscriptionPlan, SubRecord, Row
    <3>3. Evolves /\ new.price \in bought'
      <4> HIDE DEF new
      <4> QED BY <1>10, <2>1, <2>4, <3>2
    <3>4. MapStatus(stripe[s].state) \in {"active", "past_due", "canceled"}
      BY DEF MapStatus
    <3>5. /\ job' = [job EXCEPT ![h] = job'[h]]
          /\ job'[h].op = job[h].op /\ job'[h].target = job[h].target
          /\ job'[h].step = "save" /\ job'[h] \in Job
      BY <1>1, <2>4, <3>4 DEF Job, Row
    <3>6. JobOK(h)'
      BY <2>1, <3>2, <3>3, <3>5 DEF JobOK
    <3> QED BY <1>1, <2>1, <2>2, <3>3, <3>5, <3>6, TenantKeeps, RequestStep
  <2> QED BY <1>12, <2>3, <2>4 DEF CallStripe
<1>13. CASE SaveTenant(h)
  <2>1. /\ WriteTenant(SavedRow(h)) /\ job' = [job EXCEPT ![h] = NoJob]
        /\ UNCHANGED <<stripe, events, acked, marked, turns, faults, finished, repeated,
                       bought, skipped>>
        /\ job[h].op \notin {"none", "webhook"} /\ job[h].step = "save"
    BY <1>13 DEF SaveTenant, Requesting
  <2>2. /\ SavedRow(h) \in Row /\ SavedRow(h).sub = tenant.sub
        /\ SavedRow(h).plan \in {tenant.plan} \cup bought
    BY <1>1, <2>1 DEF SavedRow, JobOK, Row, Job
  <2>3. tenant' \in Row /\ TenantPaid' /\ overdue' \in BOOLEAN
    BY <2>1, <2>2 DEF WriteTenant, BillingInv, TenantPaid, PlanWasPaidFor
  <2> QED BY <1>1, <1>4, <2>1, <2>3, StaysPaid, RequestStep
<1> QED
  BY <1>5, <1>6, <1>7, <1>8, <1>9, <1>11, <1>12, <1>13

\* A user's return from checkout.
LEMMA VerifyKeeps ==
  ASSUME BillingInv, NEW s \in Sub, VerifyCheckoutSession(s)
  PROVE  BillingInv'
<1>1. /\ stripe[s] \in SubRecord /\ stripe[s].state \in Paid
      /\ turns \in Nat /\ faults \in Nat /\ skipped \in BOOLEAN /\ overdue \in BOOLEAN
  BY DEF BillingInv, TypeOK, SubRecord, VerifyCheckoutSession, Paid
<1>2. stripe[s].meta \in bought
  BY <1>1 DEF BillingInv, StripePaid
<1>3. /\ tenant' = HandleCheckoutCompleted(s) /\ overdue' \in BOOLEAN /\ turns' = turns + 1
      /\ UNCHANGED <<stripe, events, acked, marked, job, faults, finished, repeated,
                     bought, skipped>>
  BY DEF VerifyCheckoutSession, WriteTenant, Turn
<1>4. tenant' \in Row
  BY <1>1, <1>3 DEF HandleCheckoutCompleted, Row, SubRecord
<1>5. TenantPaid'
  BY <1>1, <1>2, <1>3 DEF HandleCheckoutCompleted, TenantPaid, PlanWasPaidFor
<1> QED
  BY <1>1, <1>3, <1>4, <1>5, StaysPaid, NoJobStep

\* The delivery of an event starts at most one handler for it.
LEMMA DeliverKeeps ==
  ASSUME BillingInv, NEW h \in Handler, NEW e \in DOMAIN events, Deliver(h, e)
  PROVE  BillingInv'
<1>1. /\ TypeOK /\ job \in [Handler -> Job] /\ job[h] \in Job /\ faults \in Nat
      /\ events \in Seq(Event) /\ e \in Nat
  <2>1. TypeOK /\ events \in Seq(Event) /\ job \in [Handler -> Job] /\ faults \in Nat
    BY DEF BillingInv, TypeOK
  <2>2. e \in 1..Len(events) /\ Len(events) \in Nat
    BY <2>1, LenProperties
  <2> QED BY <2>1, <2>2
<1>2. Evolves
  BY StaysPaid DEF Deliver
<1>3. TenantPaid' /\ tenant' \in Row /\ faults' \in Nat
  BY <1>1, <1>2, TenantKeeps DEF Deliver, Fault
<1>4. UNCHANGED <<tenant, stripe, events, turns, finished, repeated, bought, overdue, skipped>>
  BY DEF Deliver
<1>5. CASE UNCHANGED <<marked, job>> /\ acked' = acked \cup {e}
  <2>1. TypeOK'
    BY <1>1, <1>3, <1>4, <1>5 DEF TypeOK
  <2>2. OneHandler'
    BY <1>4, <1>5 DEF BillingInv, OneHandler
  <2>3. ASSUME NEW g \in Handler PROVE JobOK(g)'
    <3>1. job[g].op = "webhook" => job[g].event \notin finished'
      BY <1>4 DEF BillingInv, JobOK
    <3> QED BY <1>2, <1>5, <3>1, OthersKeep
  <2> QED BY <1>2, <1>3, <2>1, <2>2, <2>3 DEF BillingInv, Evolves
<1>6. CASE MarkEventProcessed(e) /\ BeginEvent(h, e) /\ UNCHANGED <<acked, faults>>
  <2>1. e \notin marked /\ marked' = marked \cup {e} /\ UNCHANGED <<acked, faults>>
    BY <1>6 DEF MarkEventProcessed
  <2>2. NoJob \in Job
    BY ConstantsAssumption DEF NoJob, Job, NewTenant, Row, Free
  <2>3. /\ job'[h] \in Job /\ job' \in [Handler -> Job]
        /\ job'[h].op = "webhook" /\ job'[h].step = "read" /\ job'[h].event = e
        /\ \A g \in Handler : g # h => job'[g] = job[g]
    BY <1>1, <1>6, <2>2 DEF BeginEvent, Job
  <2>4. TypeOK'
    BY <1>1, <1>3, <1>4, <2>1, <2>3 DEF TypeOK
  <2>5. \A g \in Handler : job[g].op = "webhook" => job[g].event \in marked \ finished
    BY DEF BillingInv, JobOK
  <2>6. OneHandler'
    BY <1>4, <2>1, <2>3, <2>5 DEF BillingInv, OneHandler
  <2>7. ASSUME NEW g \in Handler PROVE JobOK(g)'
    <3>1. CASE g # h
      BY <1>2, <1>4, <2>1, <2>3, <2>5, <3>1, OthersKeep
    <3>2. CASE g = h
      BY <1>4, <2>1, <2>3, <3>2 DEF JobOK, BillingInv, OneHandler
    <3> QED BY <3>1, <3>2
  <2> QED BY <1>2, <1>3, <2>4, <2>6, <2>7 DEF BillingInv, Evolves
<1> QED
  BY <1>5, <1>6 DEF Deliver

\* The end of an event's handler, with the row it leaves.
LEMMA FinishKeeps ==
  ASSUME BillingInv, NEW h \in Handler, job[h].op = "webhook", Finish(h),
         UNCHANGED <<stripe, events, marked, turns, faults, bought>>,
         tenant' \in Row, TenantPaid', overdue' \in BOOLEAN, skipped' \in BOOLEAN
  PROVE  BillingInv'
<1>1. job \in [Handler -> Job] /\ job[h].event \in marked \ finished
      /\ marked \subseteq DOMAIN events
  BY DEF BillingInv, TypeOK, JobOK
<1>2. NoJob \in Job /\ NoJob.op = "none"
  BY ConstantsAssumption DEF NoJob, Job, NewTenant, Row, Free
<1>3. /\ job' = [job EXCEPT ![h] = NoJob] /\ acked' = acked \cup {job[h].event}
      /\ finished' = finished \cup {job[h].event} /\ repeated' = repeated
  BY <1>1 DEF Finish
<1>4. Evolves
  BY StaysPaid
<1>5. TypeOK'
  BY <1>1, <1>2, <1>3 DEF BillingInv, TypeOK
<1>6. OneHandler'
  BY <1>1, <1>2, <1>3 DEF BillingInv, OneHandler
<1>7. ASSUME NEW g \in Handler PROVE JobOK(g)'
  <2>1. CASE g = h
    BY <1>1, <1>2, <1>3, <2>1 DEF JobOK
  <2>2. CASE g # h
    <3>1. job'[g] = job[g]
      BY <1>1, <1>3, <2>2
    <3>2. job[g].op = "webhook" => job[g].event \notin finished'
      BY <1>3, <2>2 DEF BillingInv, JobOK, OneHandler
    <3> QED BY <1>4, <3>1, <3>2, OthersKeep
  <2> QED BY <2>1, <2>2
<1> QED
  BY <1>4, <1>5, <1>6, <1>7 DEF BillingInv, Evolves

\* The handler reads the row, or finds nothing to do.
LEMMA ReadForEventKeeps ==
  ASSUME BillingInv, NEW h \in Handler, ReadForEvent(h)
  PROVE  BillingInv'
<1>1. /\ TypeOK /\ job \in [Handler -> Job] /\ job[h] \in Job /\ JobOK(h)
      /\ tenant \in Row /\ overdue \in BOOLEAN /\ skipped \in BOOLEAN
      /\ turns \in Nat /\ faults \in Nat /\ events \in Seq(Event)
      /\ job[h].op = "webhook"
      /\ UNCHANGED <<tenant, stripe, events, marked, turns, faults, bought, overdue, skipped>>
  BY DEF BillingInv, TypeOK, ReadForEvent, Handling
<1>2. Evolves /\ TenantPaid' /\ tenant' \in Row
  BY <1>1, StaysPaid, TenantKeeps
<1>3. CASE Ignored(EventOf(h)) /\ Finish(h)
  BY <1>1, <1>2, <1>3, FinishKeeps
<1>4. CASE /\ ~Ignored(EventOf(h))
           /\ job' = [job EXCEPT ![h].step = "save", ![h].row = tenant,
                                 ![h].target = DetectPlan(EventOf(h))]
           /\ UNCHANGED <<acked, finished, repeated>>
  <2>1. job[h].event \in DOMAIN events /\ EventOf(h).type # "expired"
    BY <1>1, <1>4 DEF JobOK, TypeOK, Ignored
  <2>2. EventOf(h) \in Event
    BY <1>1, <2>1, ElementOfSeq, LenProperties DEF EventOf
  <2>3. stripe[EventOf(h).sub].state \in Paid /\ EventOf(h).price \in bought
        /\ EventOf(h).sub \in Sub
    BY <2>1, <2>2 DEF BillingInv, EventsPaid, EventOf, Event
  <2>4. DetectPlan(EventOf(h)) \in bought \cup {NoPlan}
    BY <2>3 DEF DetectPlan, PlanFor, BillingInv, StripePaid
  <2>5. bought \subseteq Plan
    BY <1>1 DEF TypeOK
  <2>6. /\ job'[h] \in Job /\ job' \in [Handler -> Job]
        /\ job'[h].op = "webhook" /\ job'[h].event = job[h].event
        /\ job'[h].target = DetectPlan(EventOf(h))
        /\ \A g \in Handler : g # h => job'[g] = job[g]
    BY <1>1, <1>4, <2>4, <2>5 DEF Job
  <2>7. TypeOK'
    BY <1>1, <1>4, <2>6 DEF TypeOK
  <2>8. \A g \in Handler : job'[g].op = job[g].op /\ job'[g].event = job[g].event
    BY <1>1, <2>6
  <2>9. OneHandler'
    BY <1>1, <1>4, <2>8 DEF BillingInv, OneHandler
  <2>10. EventOf(h)' = EventOf(h)
    BY <1>1, <2>6 DEF EventOf
  <2>11. ASSUME NEW g \in Handler PROVE JobOK(g)'
    <3>1. CASE g = h
      BY <1>1, <1>4, <2>1, <2>4, <2>6, <2>10, <3>1 DEF JobOK
    <3>2. CASE g # h
      <4>1. job[g].op = "webhook" => job[g].event \notin finished'
        BY <1>4 DEF BillingInv, JobOK
      <4> QED BY <1>1, <1>2, <2>6, <3>2, <4>1, OthersKeep
    <3> QED BY <3>1, <3>2
  <2> QED BY <1>2, <2>7, <2>9, <2>11 DEF BillingInv, Evolves
<1> QED
  BY <1>3, <1>4 DEF ReadForEvent

\* The handler writes a plan that was paid for.
LEMMA WriteForEventKeeps ==
  ASSUME BillingInv, NEW h \in Handler, WriteForEvent(h)
  PROVE  BillingInv'
<1> DEFINE e == EventOf(h)
<1>1. /\ TypeOK /\ job[h] \in Job /\ JobOK(h) /\ tenant \in Row
      /\ overdue \in BOOLEAN /\ skipped \in BOOLEAN /\ events \in Seq(Event)
      /\ job[h].op = "webhook" /\ job[h].step = "save" /\ bought \subseteq Plan
      /\ stripe \in [Sub -> SubRecord]
      /\ UNCHANGED <<stripe, events, marked, turns, faults, bought>> /\ Finish(h)
  BY DEF BillingInv, TypeOK, WriteForEvent, Handling, SubRecord
<1>2. job[h].event \in DOMAIN events /\ e.type # "expired"
  BY <1>1 DEF JobOK, TypeOK
<1>3. e \in Event
  BY <1>1, <1>2, ElementOfSeq, LenProperties DEF EventOf
<1>4. e.sub \in Sub /\ stripe[e.sub].state \in Paid /\ stripe[e.sub].meta \in bought
  BY <1>2, <1>3 DEF BillingInv, EventsPaid, StripePaid, EventOf, Event
<1>5. tenant' = HandleEvent(h, e) /\ overdue' \in BOOLEAN /\ skipped' \in BOOLEAN
  BY DEF WriteForEvent, WriteTenant
<1>6. job[h].target \in bought \cup {NoPlan}
  BY <1>1 DEF JobOK
<1>7. MapStatus(e.state) \in {"active", "past_due", "canceled"}
  BY DEF MapStatus
<1> HIDE DEF e
<1>8. /\ HandleEvent(h, e) \in Row
      /\ HandleEvent(h, e).plan \in {tenant.plan, Free} \cup bought
      /\ HandleEvent(h, e).sub \in {tenant.sub, NoSub, e.sub}
  <2>1. CASE e.type = "completed"
    BY <1>1, <1>4, <2>1 DEF HandleEvent, HandleCheckoutCompleted, Row
  <2>2. CASE e.type = "updated"
    BY <1>1, <1>4, <1>6, <1>7, <2>2 DEF HandleEvent, HandleSubscriptionUpdated, Row
  <2>3. CASE e.type = "deleted"
    BY <2>3, ConstantsAssumption DEF HandleEvent, HandleSubscriptionDeleted, Row
  <2>4. CASE e.type \notin {"completed", "updated", "deleted"}
    BY <1>1, <2>4 DEF HandleEvent, Row
  <2> QED BY <2>1, <2>2, <2>3, <2>4
<1>9. TenantPaid'
  BY <1>1, <1>4, <1>5, <1>8 DEF BillingInv, TenantPaid, PlanWasPaidFor
<1> QED
  BY <1>1, <1>5, <1>8, <1>9, FinishKeeps

\* Every step keeps the inductive invariant.
LEMMA BillingStep == BillingInv /\ [Next]_vars => BillingInv'
<1> SUFFICES ASSUME BillingInv, [Next]_vars PROVE BillingInv'
  OBVIOUS
<1>1. CASE UNCHANGED vars
  <2>1. UNCHANGED <<stripe, events, bought>> /\ UNCHANGED <<job, acked, marked, finished, repeated>>
        /\ UNCHANGED tenant /\ UNCHANGED <<turns, faults, overdue, skipped>>
    BY <1>1 DEF vars
  <2>2. turns' \in Nat /\ faults' \in Nat /\ overdue' \in BOOLEAN /\ skipped' \in BOOLEAN
    BY <2>1 DEF BillingInv, TypeOK
  <2> QED BY <2>1, <2>2, StaysPaid, TenantKeeps, NoJobStep
<1>2. ASSUME NEW s \in Sub, StripeStep(s) \/ VerifyCheckoutSession(s) PROVE BillingInv'
  BY <1>2, StripeStepKeeps, VerifyKeeps
<1>3. ASSUME NEW h \in Handler, Handle(h) PROVE BillingInv'
  BY <1>3, ReadForEventKeeps, WriteForEventKeeps, UserStepKeeps DEF Handle
<1>4. ASSUME NEW h \in Handler, WebhookFails(h) \/ RequestFails(h) PROVE BillingInv'
  BY <1>4, UserStepKeeps
<1>5. ASSUME NEW h \in Handler, NEW e \in DOMAIN events, Deliver(h, e) PROVE BillingInv'
  BY <1>5, DeliverKeeps
<1>6. ASSUME NEW h \in Handler, NEW op \in AllOps, NEW p \in Plan, Request(h, op, p)
      PROVE  BillingInv'
  BY <1>6, UserStepKeeps
<1> QED
  BY <1>1, <1>2, <1>3, <1>4, <1>5, <1>6 DEF Next

\* The invariant holds of every behaviour.
LEMMA BillingInvariant == Spec => []BillingInv
  BY BillingInit, BillingStep, PTL DEF Spec

\* The handler of an event runs to the end at most once, whatever Stripe
\* repeats and however deliveries overlap (MarkEventProcessed).
THEOREM EventsAppliedOnce == Spec => []AppliedOnce
<1>1. BillingInv => AppliedOnce
  BY DEF BillingInv, OneHandler, AppliedOnce
<1> QED
  BY <1>1, BillingInvariant, PTL

\* No order of webhooks, requests and failures grants a plan that Stripe has
\* not charged for.
THEOREM PlansArePaidFor == Spec => []PlanWasPaidFor
<1>1. BillingInv => PlanWasPaidFor
  BY DEF BillingInv, TenantPaid
<1> QED
  BY <1>1, BillingInvariant, PTL

\* The state has its types.
THEOREM BillingTypes == Spec => []TypeOK
<1>1. BillingInv => TypeOK
  BY DEF BillingInv
<1> QED
  BY <1>1, BillingInvariant, PTL

-----------------------------------------------------------------------------
(* Dropped events.                                                         *)

\* Marked or answered, not handled to the end, and in no handler's hands.
Lost == {e \in marked \cup acked : e \notin finished /\ \A h \in Handler : job[h].event # e}

\* The strengthening of DroppedOnlyByFailure: what is marked but no longer being
\* handled counts as lost even before Stripe repeats it.
LostInv ==
  /\ \A h \in Handler : job[h].op # "webhook" => job[h].event = 0
  /\ IsFiniteSet(Lost) /\ Cardinality(Lost) <= faults

\* A step that loses at most what its own failure accounts for.
LEMMA LostBounded ==
  ASSUME LostInv, faults \in Nat, NEW e,
         \/ Lost' \subseteq Lost /\ faults' \in {faults, faults + 1}
         \/ Lost' \subseteq Lost \cup {e} /\ faults' = faults + 1
  PROVE  IsFiniteSet(Lost') /\ Cardinality(Lost') <= faults'
<1>1. IsFiniteSet(Lost) /\ Cardinality(Lost) <= faults /\ Cardinality(Lost) \in Nat
  BY FS_CardinalityType DEF LostInv
<1>2. /\ IsFiniteSet(Lost \cup {e}) /\ Cardinality(Lost \cup {e}) \in Nat
      /\ Cardinality(Lost \cup {e}) <= faults + 1
  <2>1. /\ IsFiniteSet(Lost \cup {e})
        /\ Cardinality(Lost \cup {e}) = IF e \in Lost THEN Cardinality(Lost) ELSE Cardinality(Lost) + 1
    BY <1>1, FS_AddElement
  <2> QED
    BY <1>1, <2>1
<1>3. CASE Lost' \subseteq Lost /\ faults' \in {faults, faults + 1}
  BY <1>1, <1>3, FS_Subset, FS_CardinalityType
<1>4. CASE Lost' \subseteq Lost \cup {e} /\ faults' = faults + 1
  BY <1>2, <1>4, FS_Subset, FS_CardinalityType
<1> QED
  BY <1>3, <1>4

\* A request's step, or one of Stripe's, loses no event.
LEMMA LostSame ==
  ASSUME BillingInv, LostInv, UNCHANGED <<marked, acked, finished>>,
         faults' \in {faults, faults + 1},
         \A g \in Handler : job'[g].event = job[g].event
                            \/ (job[g].op # "webhook" /\ job'[g].event = 0),
         \A g \in Handler : job'[g].op # "webhook" => job'[g].event = 0
  PROVE  LostInv'
<1>1. \A g \in Handler : job'[g].event = job[g].event
  BY DEF LostInv
<1>2. Lost' = Lost
  BY <1>1 DEF Lost
<1> QED
  BY <1>2, LostBounded DEF LostInv, BillingInv, TypeOK

\* Every step keeps LostInv: only a database error or a crash drops an event.
LEMMA LostStep == BillingInv /\ LostInv /\ [Next]_vars => LostInv'
<1> SUFFICES ASSUME BillingInv, LostInv, [Next]_vars PROVE LostInv'
  OBVIOUS
<1>t. /\ TypeOK /\ job \in [Handler -> Job] /\ faults \in Nat
      /\ \A h \in Handler : JobOK(h)
      /\ \A h \in Handler : job[h].op # "webhook" => job[h].event = 0
  BY DEF BillingInv, TypeOK, LostInv
<1>n. NoJob.op = "none" /\ NoJob.event = 0
  BY DEF NoJob
<1>0. \A e \in marked \cup acked : e # 0
  <2>1. DOMAIN events = 1..Len(events) /\ Len(events) \in Nat
    BY <1>t, LenProperties DEF TypeOK
  <2> QED
    BY <1>t, <2>1 DEF TypeOK
<1>s. ASSUME UNCHANGED <<marked, acked, finished, faults, job>> PROVE LostInv'
  BY <1>s, <1>t, LostSame
\* A step of h on the same request, or its end.
<1>h. ASSUME NEW h \in Handler, UNCHANGED <<marked, acked, finished>>,
             faults' \in {faults, faults + 1}, job[h].op # "webhook",
             job' = [job EXCEPT ![h] = job'[h]],
             job'[h].event = 0
      PROVE  LostInv'
  <2>1. \A g \in Handler : g # h => job'[g] = job[g]
    BY <1>h, <1>t
  <2> QED
    BY <1>h, <1>t, <2>1, LostSame
<1>f. ASSUME NEW h \in Handler, job[h].op = "webhook", Finish(h),
             UNCHANGED <<marked, faults>>
      PROVE  LostInv'
  <2>1. /\ job'[h] = NoJob /\ \A g \in Handler : g # h => job'[g] = job[g]
        /\ acked' = acked \cup {job[h].event} /\ finished' = finished \cup {job[h].event}
    BY <1>f, <1>t DEF Finish
  <2>2. Lost' \subseteq Lost
    BY <1>f, <2>1 DEF Lost
  <2>3. \A g \in Handler : job'[g].op # "webhook" => job'[g].event = 0
    BY <1>n, <1>t, <2>1
  <2> QED
    BY <1>f, <1>t, <2>2, <2>3, LostBounded DEF LostInv
<1>1. ASSUME NEW s \in Sub, StripeStep(s) \/ VerifyCheckoutSession(s) PROVE LostInv'
  BY <1>1, <1>s DEF StripeStep, PayCheckout, ExpireCheckout, PortalUpdate, Payment, PeriodEnds,
     VerifyCheckoutSession
<1>2. ASSUME NEW h \in Handler, NEW e \in DOMAIN events, Deliver(h, e) PROVE LostInv'
  <2>1. job[h] = NoJob /\ UNCHANGED finished /\ e # 0 /\ e \notin acked
    <3>1. e \in 1..Len(events) /\ Len(events) \in Nat
      BY <1>t, LenProperties DEF TypeOK
    <3> QED
      BY <1>2, <3>1 DEF Deliver, MayDeliver
  <2>2. CASE MarkEventProcessed(e) /\ BeginEvent(h, e) /\ UNCHANGED <<acked, faults>>
    <3>1. /\ job'[h].op = "webhook" /\ job'[h].event = e
          /\ \A g \in Handler : g # h => job'[g] = job[g]
      BY <1>t, <2>2 DEF BeginEvent, NoJob
    <3>2. Lost' \subseteq Lost
      BY <1>0, <1>n, <2>1, <2>2, <3>1 DEF Lost, MarkEventProcessed
    <3> QED
      BY <1>t, <2>2, <3>1, <3>2, LostBounded DEF LostInv
  <2>3. CASE e \in marked /\ acked' = acked \cup {e} /\ UNCHANGED <<marked, job, faults>>
    <3>1. Lost' \subseteq Lost
      BY <2>1, <2>3 DEF Lost
    <3> QED
      BY <1>t, <2>3, <3>1, LostBounded DEF LostInv
  <2>4. CASE Fault /\ acked' = acked \cup {e} /\ UNCHANGED <<marked, job>>
    <3>1. Lost' \subseteq Lost \cup {e} /\ faults' = faults + 1
      BY <2>1, <2>4 DEF Lost, Fault
    <3> QED
      BY <1>t, <2>4, <3>1, LostBounded DEF LostInv
  <2> QED
    BY <1>2, <2>2, <2>3, <2>4 DEF Deliver
<1>3. ASSUME NEW h \in Handler, ReadForEvent(h) PROVE LostInv'
  <2>1. CASE Finish(h)
    BY <1>3, <1>f, <2>1 DEF ReadForEvent, Handling
  <2>2. CASE /\ job' = [job EXCEPT ![h].step = "save", ![h].row = tenant,
                                   ![h].target = DetectPlan(EventOf(h))]
             /\ UNCHANGED <<acked, finished>>
    <3>1. \A g \in Handler : job'[g].event = job[g].event /\ job'[g].op = job[g].op
      BY <1>t, <2>2 DEF Job
    <3>2. UNCHANGED <<marked, acked, finished, faults>>
      BY <1>3, <2>2 DEF ReadForEvent
    <3> QED
      BY <1>t, <3>1, <3>2, LostSame
  <2> QED
    BY <1>3, <2>1, <2>2 DEF ReadForEvent
<1>4. ASSUME NEW h \in Handler, WriteForEvent(h) PROVE LostInv'
  BY <1>4, <1>f DEF WriteForEvent, Handling
<1>5. ASSUME NEW h \in Handler, WebhookFails(h) PROVE LostInv'
  <2>1. /\ job'[h] = NoJob /\ \A g \in Handler : g # h => job'[g] = job[g]
        /\ faults' = faults + 1 /\ UNCHANGED <<marked, acked, finished>>
    BY <1>5, <1>t DEF WebhookFails, Fault
  <2>2. Lost' \subseteq Lost \cup {job[h].event}
    BY <2>1 DEF Lost
  <2>3. \A g \in Handler : job'[g].op # "webhook" => job'[g].event = 0
    BY <1>n, <1>t, <2>1
  <2> QED
    BY <1>t, <2>1, <2>2, <2>3, LostBounded DEF LostInv
<1>6. ASSUME NEW h \in Handler, RequestFails(h) PROVE LostInv'
  BY <1>6, <1>h, <1>n, <1>t DEF RequestFails, Fault
<1>7. ASSUME NEW h \in Handler, NEW op \in AllOps, NEW p \in Plan, Request(h, op, p) PROVE LostInv'
  BY <1>7, <1>h, <1>n, <1>t DEF Request
<1>8. ASSUME NEW h \in Handler,
             CreateSession(h) \/ ReadTenant(h) \/ UndoCancel(h) \/ CallStripe(h)
             \/ FetchSubscription(h) \/ SaveTenant(h)
      PROVE  LostInv'
  <2>1. /\ job[h].op # "webhook" /\ UNCHANGED <<marked, acked, finished, faults>>
    BY <1>8 DEF CreateSession, ReadTenant, UndoCancel, CallStripe, FetchSubscription, SaveTenant,
       Requesting
  <2>2. job' = [job EXCEPT ![h] = job'[h]] /\ (job'[h] = NoJob \/ job'[h].event = job[h].event)
    BY <1>8, <1>t DEF CreateSession, ReadTenant, UndoCancel, CallStripe, FetchSubscription,
       SaveTenant, Job
  <2>3. job'[h].event = 0
    BY <1>n, <1>t, <2>1, <2>2
  <2> QED
    BY <1>h, <2>1, <2>2, <2>3
<1>9. CASE UNCHANGED vars
  BY <1>9, <1>s DEF vars
<1> QED
  BY <1>1, <1>2, <1>3, <1>4, <1>5, <1>6, <1>7, <1>8, <1>9 DEF Next, Handle

\* An event is dropped only by a failure of its own: however deliveries repeat
\* and overlap, there are never more dropped events than failures.
THEOREM DropsTakeFailures == Spec => []DroppedOnlyByFailure
<1>1. BillingInv /\ LostInv => DroppedOnlyByFailure
  <2> SUFFICES ASSUME BillingInv, LostInv PROVE DroppedOnlyByFailure
    OBVIOUS
  <2>1. Dropped \subseteq Lost
    BY DEF Dropped, Lost
  <2>2. IsFiniteSet(Lost) /\ Cardinality(Lost) <= faults /\ faults \in Nat
    BY DEF LostInv, BillingInv, TypeOK
  <2>3. Cardinality(Dropped) <= Cardinality(Lost) /\ Cardinality(Dropped) \in Nat /\ Cardinality(Lost) \in Nat
    BY <2>1, <2>2, FS_Subset, FS_CardinalityType
  <2> QED
    BY <2>2, <2>3 DEF DroppedOnlyByFailure
<1>2. Init => LostInv
  <2> SUFFICES ASSUME Init PROVE LostInv
    OBVIOUS
  <2>1. Lost = {}
    BY DEF Init, Lost
  <2> QED
    BY <2>1, FS_EmptySet DEF Init, LostInv, NoJob
<1> QED
  BY <1>1, <1>2, BillingInvariant, LostStep, PTL DEF Spec

-----------------------------------------------------------------------------
(* What a step does on Stripe's side.                                      *)

\* The changes of a subscription and the events each creates.
Move(s, new, types) ==
  /\ new.meta = stripe[s].meta
  /\ \/ /\ stripe[s].state = "open" /\ new.price = stripe[s].price
        /\ \/ new.state = "active" /\ types = <<"updated", "completed">>
           \/ new.state = "expired" /\ types = <<"expired">>
     \/ /\ stripe[s].state \in Live
        /\ \/ new.state = stripe[s].state /\ types = <<"updated">>
           \/ /\ new.state \in Live /\ new.price = stripe[s].price
              /\ types \in {<<"failed", "updated">>, <<"paid", "updated">>}
           \/ /\ new.state = "canceled" /\ new.price = stripe[s].price
              /\ types = <<"deleted">>

Moved ==
  \E s \in Sub, new \in SubRecord, types \in Seq(EventType) :
    StripeChanges(s, new, types) /\ Move(s, new, types)

\* A session is created, for a plan that has a price.
Opened ==
  \E s \in Sub, p \in Plan :
    /\ stripe[s].state = "none" /\ UNCHANGED events
    /\ stripe' = [stripe EXCEPT ![s] = [state |-> "open", price |-> p, meta |-> p, cancel |-> FALSE]]

\* Subscriptions.Update of a live subscription.
LEMMA UpdateMoves ==
  ASSUME NEW s \in Sub, NEW new \in SubRecord, stripe[s].state \in Live,
         new.state = stripe[s].state, new.meta = stripe[s].meta, UpdateSubscription(s, new)
  PROVE  Moved \/ UNCHANGED <<stripe, events>>
<1>1. <<"updated">> \in Seq(EventType)
  BY DEF EventType
<1> QED
  BY <1>1 DEF UpdateSubscription, Moved, Move

\* Stripe's own steps.
LEMMA StripeStepMoves ==
  ASSUME BillingInv, NEW s \in Sub, StripeStep(s)
  PROVE  Moved
<1>s. stripe[s] \in SubRecord
  BY DEF BillingInv, TypeOK, SubRecord
<1>n. /\ \A st \in StripeState :
           /\ [stripe[s] EXCEPT !.state = st] \in SubRecord
           /\ [stripe[s] EXCEPT !.state = st].state = st
           /\ [stripe[s] EXCEPT !.state = st].price = stripe[s].price
           /\ [stripe[s] EXCEPT !.state = st].meta = stripe[s].meta
      /\ \A p \in Plan :
           /\ [stripe[s] EXCEPT !.price = p] \in SubRecord
           /\ [stripe[s] EXCEPT !.price = p].state = stripe[s].state
           /\ [stripe[s] EXCEPT !.price = p].meta = stripe[s].meta
      /\ [stripe[s] EXCEPT !.cancel = ~@] \in SubRecord
      /\ [stripe[s] EXCEPT !.cancel = ~@].state = stripe[s].state
      /\ [stripe[s] EXCEPT !.cancel = ~@].meta = stripe[s].meta
  BY <1>s DEF SubRecord
<1>l. {"active", "past_due", "unpaid", "canceled", "expired"} \subseteq StripeState
  BY DEF Live, StripeState
<1>y. /\ <<"updated", "completed">> \in Seq(EventType) /\ <<"expired">> \in Seq(EventType)
      /\ <<"updated">> \in Seq(EventType) /\ <<"failed", "updated">> \in Seq(EventType)
      /\ <<"paid", "updated">> \in Seq(EventType) /\ <<"deleted">> \in Seq(EventType)
  BY DEF EventType
<1>1. CASE PayCheckout(s)
  BY <1>1, <1>l, <1>n, <1>y DEF PayCheckout, Moved, Move
<1>2. CASE ExpireCheckout(s)
  BY <1>2, <1>l, <1>n, <1>y DEF ExpireCheckout, Moved, Move
<1>3. CASE PortalUpdate(s)
  BY <1>3, <1>n, <1>y DEF PortalUpdate, Moved, Move
<1>4. CASE Payment(s)
  BY <1>4, <1>l, <1>n, <1>y DEF Payment, Moved, Move, Live
<1>5. CASE PeriodEnds(s)
  <2>1. CASE StripeChanges(s, [stripe[s] EXCEPT !.state = "canceled"], <<"deleted">>)
    BY <1>5, <1>l, <1>n, <1>y, <2>1 DEF PeriodEnds, Moved, Move
  <2>2. CASE StripeChanges(s, stripe[s], <<"paid", "updated">>)
    BY <1>5, <1>s, <1>y, <2>2 DEF PeriodEnds, Moved, Move
  <2> QED
    BY <1>5, <2>1, <2>2 DEF PeriodEnds
<1> QED
  BY <1>1, <1>2, <1>3, <1>4, <1>5 DEF StripeStep

\* A session is opened, a subscription makes one of its moves, or Stripe does
\* nothing.
LEMMA StripeMoves == BillingInv /\ [Next]_vars => Moved \/ Opened \/ UNCHANGED <<stripe, events>>
<1> SUFFICES ASSUME BillingInv, [Next]_vars
             PROVE  Moved \/ Opened \/ UNCHANGED <<stripe, events>>
  OBVIOUS
<1>t. /\ stripe \in [Sub -> SubRecord] /\ job \in [Handler -> Job]
      /\ \A h \in Handler : JobOK(h)
  BY DEF BillingInv, TypeOK, SubRecord
<1>1. ASSUME NEW s \in Sub, StripeStep(s) PROVE Moved
  BY <1>1, StripeStepMoves
<1>2. ASSUME NEW h \in Handler, CreateSession(h) PROVE Opened \/ UNCHANGED <<stripe, events>>
  BY <1>2, <1>t DEF CreateSession, Opened, Requesting, JobOK
<1>3. ASSUME NEW h \in Handler, UndoCancel(h) PROVE Moved \/ UNCHANGED <<stripe, events>>
  <2>1. stripe[job[h].row.sub] \in SubRecord /\ job[h].row.sub \in Sub
    BY <1>3, <1>t DEF UndoCancel, Requesting, JobOK
  <2> DEFINE new == [stripe[job[h].row.sub] EXCEPT !.cancel = FALSE]
  <2>2. new \in SubRecord /\ new.state = stripe[job[h].row.sub].state
        /\ new.meta = stripe[job[h].row.sub].meta
    BY <2>1 DEF SubRecord
  <2>3. \/ stripe[job[h].row.sub].state \in Live /\ UpdateSubscription(job[h].row.sub, new)
        \/ UNCHANGED <<stripe, events>>
    BY <1>3 DEF UndoCancel
  <2> HIDE DEF new
  <2> QED
    BY <2>1, <2>2, <2>3, UpdateMoves
<1>4. ASSUME NEW h \in Handler, CallStripe(h) PROVE Moved \/ UNCHANGED <<stripe, events>>
  <2>1. stripe[job[h].row.sub] \in SubRecord /\ job[h].row.sub \in Sub /\ job[h].target \in Plan
        /\ job[h].row.plan \in Plan
    BY <1>4, <1>t DEF CallStripe, Requesting, JobOK, Job, Row
  <2> DEFINE new == NewSubscription(h, stripe[job[h].row.sub])
  <2>2. new \in SubRecord /\ new.state = stripe[job[h].row.sub].state
        /\ new.meta = stripe[job[h].row.sub].meta
    BY <2>1 DEF SubRecord, NewSubscription, ScheduleDowngrade, CancelScheduledDowngrade,
       ChangeSubscriptionPlan
  <2>3. \/ stripe[job[h].row.sub].state \in Live /\ UpdateSubscription(job[h].row.sub, new)
        \/ UNCHANGED <<stripe, events>>
    BY <1>4 DEF CallStripe
  <2> HIDE DEF new
  <2> QED
    BY <2>1, <2>2, <2>3, UpdateMoves
<1>5. ASSUME \/ \E s \in Sub : VerifyCheckoutSession(s)
             \/ \E h \in Handler :
                  \/ ReadForEvent(h) \/ WriteForEvent(h) \/ ReadTenant(h)
                  \/ FetchSubscription(h) \/ SaveTenant(h) \/ WebhookFails(h) \/ RequestFails(h)
                  \/ \E e \in DOMAIN events : Deliver(h, e)
                  \/ \E op \in AllOps, p \in Plan : Request(h, op, p)
      PROVE  UNCHANGED <<stripe, events>>
  BY <1>5 DEF VerifyCheckoutSession, ReadForEvent, WriteForEvent, ReadTenant,
     FetchSubscription, SaveTenant, WebhookFails, RequestFails, Deliver, Request
<1>6. CASE UNCHANGED vars
  BY <1>6 DEF vars
<1> QED
  BY <1>1, <1>2, <1>3, <1>4, <1>5, <1>6 DEF Next, Handle

\* No step takes an event back or changes it.
LEMMA EventsStay ==
  BillingInv /\ [Next]_vars =>
    DOMAIN events \subseteq DOMAIN events' /\ \A e \in DOMAIN events : events'[e] = events[e]
<1> SUFFICES ASSUME BillingInv, Moved
             PROVE  /\ DOMAIN events \subseteq DOMAIN events'
                    /\ \A e \in DOMAIN events : events'[e] = events[e]
  BY StripeMoves DEF Opened
<1> QED
  BY StripeChangesLemma DEF Moved, BillingInv

-----------------------------------------------------------------------------
(* The end of a subscription.                                              *)

\* An event tells of an end only after the end.
DeletedEnded ==
  \A e \in DOMAIN events :
    events[e].type = "deleted" => stripe[events[e].sub].state = "canceled"

\* One webhook at a time, and what HandleSubscriptionDeleted checked holds when
\* it writes.
ClearInv ==
  /\ DeletedEnded /\ DeleteKeepsNewer
  /\ \A g, h \in Handler : job[g].op = "webhook" /\ job[h].op = "webhook" => g = h

\* The events of the end of a subscription come from its end.
LEMMA EndStep == BillingInv /\ DeletedEnded /\ [Next]_vars => DeletedEnded'
<1> SUFFICES ASSUME BillingInv, DeletedEnded, [Next]_vars PROVE DeletedEnded'
  OBVIOUS
<1>t. TypeOK /\ stripe \in [Sub -> SubRecord]
  BY DEF BillingInv, TypeOK, SubRecord
<1>e. \A e \in DOMAIN events : events[e] \in Event
  BY <1>t, ElementOfSeq, LenProperties DEF TypeOK
<1>1. CASE UNCHANGED <<stripe, events>>
  BY <1>1 DEF DeletedEnded
<1>2. CASE Opened
  BY <1>2, <1>e, <1>t DEF Opened, DeletedEnded, Event
<1>3. CASE Moved
  <2>1. PICK s \in Sub, new \in SubRecord, types \in Seq(EventType) :
          StripeChanges(s, new, types) /\ Move(s, new, types)
    BY <1>3 DEF Moved
  <2>2. /\ stripe' = [stripe EXCEPT ![s] = new]
        /\ \A e \in DOMAIN events : events'[e] = events[e]
        /\ \A e \in DOMAIN events' \ DOMAIN events :
             events'[e].sub = s /\ \E i \in DOMAIN types : events'[e].type = types[i]
    BY <1>t, <2>1, StripeChangesLemma
  <2>3. stripe[s].state # "canceled" /\
        \A i \in DOMAIN types : types[i] = "deleted" => new.state = "canceled"
    BY <2>1 DEF Move, Live
  <2> SUFFICES ASSUME NEW e \in DOMAIN events', events'[e].type = "deleted"
               PROVE  stripe'[events'[e].sub].state = "canceled"
    BY DEF DeletedEnded
  <2>4. CASE e \in DOMAIN events
    BY <1>e, <1>t, <2>2, <2>3, <2>4 DEF DeletedEnded, Event
  <2>5. CASE e \notin DOMAIN events
    BY <1>t, <2>2, <2>3, <2>5
  <2> QED
    BY <2>4, <2>5
<1> QED
  BY <1>1, <1>2, <1>3, StripeMoves


\* With webhooks in order and no verification of sessions the tenant's
\* subscription changes only at the hands of the one webhook.
LEMMA ClearStep ==
  ASSUME Ordered, "verify" \notin Ops
  PROVE  BillingInv /\ ClearInv /\ [Next]_vars => ClearInv'
<1> SUFFICES ASSUME BillingInv, ClearInv, [Next]_vars PROVE ClearInv'
  OBVIOUS
<1>1. DeletedEnded'
  BY EndStep DEF ClearInv
<1>t. /\ TypeOK /\ job \in [Handler -> Job] /\ tenant \in Row
      /\ \A h \in Handler : JobOK(h)
  BY DEF BillingInv, TypeOK
<1>n. NoJob.op = "none" /\ NoJob.step = "idle"
  BY DEF NoJob
<1>e. \A g \in Handler : job[g].op = "webhook" =>
        job[g].event \in DOMAIN events /\ events'[job[g].event] = events[job[g].event]
  BY <1>t, EventsStay DEF JobOK, TypeOK
\* The webhooks that are under way stay where they are, or end.
<1>k. ASSUME tenant'.sub = tenant.sub \/ \A g \in Handler : job'[g].op # "webhook",
             \A g \in Handler : \/ job'[g].op # "webhook"
                                \/ job[g].op = "webhook" /\ job'[g] = job[g]
      PROVE  ClearInv'
  <2>1. \A g \in Handler : Handling(g, "save")' =>
          Handling(g, "save") /\ EventOf(g)' = EventOf(g) /\ tenant'.sub = tenant.sub
    BY <1>k, <1>e DEF Handling, EventOf
  <2> QED
    BY <1>1, <1>k, <2>1 DEF ClearInv, DeleteKeepsNewer
<1>2. ASSUME NEW s \in Sub, StripeStep(s) PROVE ClearInv'
  BY <1>2, <1>k DEF StripeStep, PayCheckout, ExpireCheckout, PortalUpdate, Payment, PeriodEnds
<1>3. ASSUME NEW h \in Handler, NEW e \in DOMAIN events, Deliver(h, e) PROVE ClearInv'
  <2>1. \A g \in Handler : job[g].op # "webhook"
    BY <1>3 DEF Deliver, MayDeliver
  <2>2. CASE UNCHANGED job
    BY <1>3, <1>k, <2>2 DEF Deliver
  <2>3. CASE BeginEvent(h, e)
    <3>1. /\ \A g \in Handler : g # h => job'[g] = job[g]
          /\ job'[h].step = "read"
      BY <1>t, <2>3 DEF BeginEvent, NoJob
    <3> QED
      BY <1>1, <2>1, <3>1 DEF ClearInv, DeleteKeepsNewer, Handling
  <2> QED
    BY <1>3, <2>2, <2>3 DEF Deliver
<1>4. ASSUME NEW h \in Handler, ReadForEvent(h) PROVE ClearInv'
  <2>1. tenant' = tenant /\ job[h].op = "webhook"
    BY <1>4 DEF ReadForEvent, Handling
  <2>2. CASE Finish(h)
    BY <1>k, <1>n, <1>t, <2>1, <2>2 DEF Finish
  <2>3. CASE /\ ~Ignored(EventOf(h))
             /\ job' = [job EXCEPT ![h].step = "save", ![h].row = tenant,
                                   ![h].target = DetectPlan(EventOf(h))]
    <3>1. /\ \A g \in Handler : g # h => job'[g] = job[g]
          /\ job'[h].op = "webhook" /\ job'[h].event = job[h].event
      BY <1>t, <2>1, <2>3 DEF Job
    <3>2. \A g \in Handler : job[g].op = "webhook" => g = h
      BY <2>1 DEF ClearInv
    <3>3. EventOf(h)' = EventOf(h)
      BY <1>e, <2>1, <3>1 DEF EventOf
    <3>4. \A g \in Handler : Handling(g, "save")' => g = h
      BY <3>1, <3>2 DEF Handling
    <3> QED
      BY <1>1, <2>1, <2>3, <3>1, <3>2, <3>3, <3>4 DEF ClearInv, DeleteKeepsNewer, Ignored
  <2> QED
    BY <1>4, <2>2, <2>3 DEF ReadForEvent
<1>5. ASSUME NEW h \in Handler, WriteForEvent(h) PROVE ClearInv'
  <2>1. \A g \in Handler : job'[g].op # "webhook"
    BY <1>5, <1>n, <1>t DEF WriteForEvent, Finish, Handling, ClearInv
  <2> QED
    BY <1>k, <2>1
<1>6. ASSUME NEW h \in Handler, WebhookFails(h) \/ RequestFails(h) PROVE ClearInv'
  BY <1>6, <1>k, <1>n, <1>t DEF WebhookFails, RequestFails
<1>7. ASSUME NEW h \in Handler, NEW op \in AllOps, NEW p \in Plan, Request(h, op, p) PROVE ClearInv'
  BY <1>7, <1>k, <1>n, <1>t DEF Request, AllOps
<1>8. ASSUME NEW h \in Handler,
             CreateSession(h) \/ ReadTenant(h) \/ UndoCancel(h) \/ CallStripe(h)
             \/ FetchSubscription(h) \/ SaveTenant(h)
      PROVE  ClearInv'
  <2>1. job[h].op # "webhook"
    BY <1>8 DEF CreateSession, ReadTenant, UndoCancel, CallStripe, FetchSubscription, SaveTenant,
       Requesting
  <2>2. /\ \A g \in Handler : g # h => job'[g] = job[g]
        /\ job'[h] = NoJob \/ job'[h].op = job[h].op
    BY <1>8, <1>t DEF CreateSession, ReadTenant, UndoCancel, CallStripe, FetchSubscription,
       SaveTenant, Job
  <2>3. tenant'.sub = tenant.sub
    BY <1>8, <1>t DEF CreateSession, ReadTenant, UndoCancel, CallStripe, FetchSubscription,
       SaveTenant, WriteTenant, SavedRow, Row
  <2> QED
    BY <1>k, <1>n, <2>1, <2>2, <2>3
<1>9. CASE UNCHANGED vars
  BY <1>9, <1>k DEF vars
<1>10. ASSUME NEW s \in Sub, VerifyCheckoutSession(s) PROVE FALSE
  BY <1>10 DEF VerifyCheckoutSession, Turn
<1> QED
  BY <1>2, <1>3, <1>4, <1>5, <1>6, <1>7, <1>8, <1>9, <1>10 DEF Next, Handle

\* A tenant loses its subscription only to the event of that subscription's end
\* (HandleSubscriptionDeleted), whatever the handlers' number and failures, when
\* webhooks come in order and no session is verified in between.
THEOREM OnlyEndedSubscriptionsAreCleared ==
  ASSUME Ordered, "verify" \notin Ops
  PROVE  Spec => OnlyEndedIsCleared
<1>1. Init => ClearInv
  <2> SUFFICES ASSUME Init PROVE ClearInv
    OBVIOUS
  <2>1. DOMAIN events = {} /\ \A h \in Handler : job[h].op = "none"
    BY DEF Init, NoJob
  <2> QED
    BY <2>1 DEF ClearInv, DeletedEnded, DeleteKeepsNewer, Handling
<1>2. BillingInv /\ ClearInv /\ [Next]_vars => ClearInv'
  BY ClearStep
<1>3. BillingInv /\ ClearInv /\ [Next]_vars =>
        [tenant.sub # NoSub /\ tenant'.sub = NoSub => stripe[tenant.sub].state \notin Live]_vars
  <2> SUFFICES ASSUME BillingInv, ClearInv, Next, tenant.sub # NoSub, tenant'.sub = NoSub
               PROVE  stripe[tenant.sub].state \notin Live
    BY DEF vars
  <2>t. /\ TypeOK /\ job \in [Handler -> Job] /\ tenant \in Row
        /\ \A h \in Handler : JobOK(h)
    BY DEF BillingInv, TypeOK
  <2>1. ASSUME NEW h \in Handler, WriteForEvent(h) PROVE stripe[tenant.sub].state \notin Live
    <3>1. EventOf(h) \in Event /\ job[h].event \in DOMAIN events /\ Handling(h, "save")
      BY <2>1, <2>t, ElementOfSeq, LenProperties DEF WriteForEvent, JobOK, TypeOK, Handling, EventOf
    <3>2. EventOf(h).type = "deleted"
      BY <2>1, <2>t, <3>1, ConstantsAssumption DEF WriteForEvent, WriteTenant, HandleEvent,
         HandleCheckoutCompleted, HandleSubscriptionUpdated, Event, Row
    <3>3. tenant.sub = EventOf(h).sub
      BY <3>1, <3>2 DEF ClearInv, DeleteKeepsNewer
    <3> QED
      BY <3>1, <3>2, <3>3 DEF ClearInv, DeletedEnded, EventOf, Live
  <2>2. ASSUME NEW h \in Handler, SaveTenant(h) PROVE tenant'.sub = tenant.sub
    BY <2>2, <2>t DEF SaveTenant, WriteTenant, SavedRow, Row
  <2>3. ASSUME NEW s \in Sub, VerifyCheckoutSession(s) PROVE FALSE
    BY <2>3 DEF VerifyCheckoutSession, Turn
  <2>4. ASSUME \/ \E s \in Sub : StripeStep(s)
               \/ \E h \in Handler :
                    \/ ReadForEvent(h) \/ CreateSession(h) \/ ReadTenant(h) \/ UndoCancel(h)
                    \/ CallStripe(h) \/ FetchSubscription(h) \/ WebhookFails(h) \/ RequestFails(h)
                    \/ \E e \in DOMAIN events : Deliver(h, e)
                    \/ \E op \in AllOps, p \in Plan : Request(h, op, p)
        PROVE  tenant' = tenant
    BY <2>4 DEF StripeStep, PayCheckout, ExpireCheckout, PortalUpdate, Payment, PeriodEnds,
       ReadForEvent, CreateSession, ReadTenant, UndoCancel, CallStripe, FetchSubscription,
       WebhookFails, RequestFails, Deliver, Request
  <2> QED
    BY <2>1, <2>2, <2>3, <2>4 DEF Next, Handle
<1> QED
  BY <1>1, <1>2, <1>3, BillingInvariant, PTL DEF Spec, OnlyEndedIsCleared

-----------------------------------------------------------------------------
(* The plan while a downgrade is pending.                                  *)

OneAtATime == \A g, h \in Handler : g = h

\* What a request knows of the row it read while no other request runs.
PendingJob(h) ==
  /\ Handling(h, "save") => job[h].row.pending = tenant.pending
  /\ job[h].op \notin {"none", "webhook"} =>
       /\ job[h].step \in {"read", "undo", "stripe"} => job[h].op \in {"downgrade", "cancel", "change"}
       /\ job[h].step = "fetch" => job[h].op = "status" /\ job[h].row.pending = tenant.pending
       /\ job[h].step = "save" /\ job[h].op \notin {"downgrade", "cancel", "change"}
            => tenant.pending = NoPlan
       /\ job[h].op = "downgrade" /\ job[h].step \in {"undo", "stripe", "save"}
            => job[h].target < tenant.plan

PendingInv == KeepsPlanWhilePending /\ \A h \in Handler : PendingJob(h)

\* Every step of the one handler keeps the plan above the pending one.
LEMMA PendingStep ==
  ASSUME OneAtATime, "verify" \notin Ops
  PROVE  BillingInv /\ PendingInv /\ [Next]_vars => PendingInv'
<1> SUFFICES ASSUME BillingInv, PendingInv, [Next]_vars PROVE PendingInv'
  OBVIOUS
<1>t. /\ TypeOK /\ job \in [Handler -> Job] /\ tenant \in Row /\ Plan \subseteq Nat
      /\ NoPlan \notin Plan /\ \A h \in Handler : JobOK(h) /\ PendingJob(h)
      /\ KeepsPlanWhilePending
  BY ConstantsAssumption DEF BillingInv, TypeOK, PendingInv
<1>n. NoJob.op = "none" /\ NoJob.step = "idle"
  BY DEF NoJob
\* The job ends.
<1>e. ASSUME NEW h \in Handler, job' = [job EXCEPT ![h] = NoJob], KeepsPlanWhilePending'
      PROVE  PendingInv'
  <2>1. \A g \in Handler : job'[g] = NoJob
    BY <1>e, <1>t DEF OneAtATime
  <2> QED
    BY <1>e, <1>n, <2>1 DEF PendingInv, PendingJob, Handling
<1>s. ASSUME tenant' = tenant PROVE KeepsPlanWhilePending'
  BY <1>s, <1>t DEF KeepsPlanWhilePending
\* The job goes on and the row stays.
<1>g. ASSUME NEW h \in Handler, tenant' = tenant, PendingJob(h)' PROVE PendingInv'
  BY <1>g, <1>s DEF PendingInv, OneAtATime
<1>0. ASSUME UNCHANGED <<tenant, job>> PROVE PendingInv'
  BY <1>0, <1>s, <1>t DEF PendingInv, PendingJob, Handling
<1>1. ASSUME NEW s \in Sub, StripeStep(s) PROVE PendingInv'
  BY <1>0, <1>1 DEF StripeStep, PayCheckout, ExpireCheckout, PortalUpdate, Payment, PeriodEnds
<1>2. ASSUME NEW s \in Sub, VerifyCheckoutSession(s) PROVE FALSE
  BY <1>2 DEF VerifyCheckoutSession, Turn
<1>3. ASSUME NEW h \in Handler, NEW e \in DOMAIN events, Deliver(h, e) PROVE PendingInv'
  <2>1. CASE UNCHANGED job
    BY <1>0, <1>3, <2>1 DEF Deliver
  <2>2. CASE BeginEvent(h, e)
    <3>1. job'[h].op = "webhook" /\ job'[h].step = "read"
      BY <1>t, <2>2 DEF BeginEvent, NoJob
    <3> QED
      BY <1>3, <1>g, <3>1 DEF Deliver, PendingJob, Handling
  <2> QED
    BY <1>3, <2>1, <2>2 DEF Deliver
<1>4. ASSUME NEW h \in Handler, ReadForEvent(h) PROVE PendingInv'
  <2>1. CASE Finish(h)
    BY <1>4, <1>e, <1>s, <2>1 DEF ReadForEvent, Finish
  <2>2. CASE job' = [job EXCEPT ![h].step = "save", ![h].row = tenant,
                                ![h].target = DetectPlan(EventOf(h))]
    <3>1. job'[h].op = "webhook" /\ job'[h].row = tenant
      BY <1>4, <1>t, <2>2 DEF ReadForEvent, Handling, Job
    <3> QED
      BY <1>4, <1>g, <3>1 DEF ReadForEvent, PendingJob, Handling
  <2> QED
    BY <1>4, <2>1, <2>2 DEF ReadForEvent
<1>5. ASSUME NEW h \in Handler, WriteForEvent(h) PROVE PendingInv'
  <2>1. tenant' = HandleEvent(h, EventOf(h)) /\ Handling(h, "save") /\ PendingJob(h)
    BY <1>5, <1>t DEF WriteForEvent, WriteTenant
  <2>2. KeepsPlanWhilePending'
    BY <1>t, <2>1 DEF PendingJob, HandleEvent, HandleCheckoutCompleted, HandleSubscriptionUpdated,
       HandleSubscriptionDeleted, KeepsPlanWhilePending, Row
  <2> QED
    BY <1>5, <1>e, <2>2 DEF WriteForEvent, Finish
<1>6. ASSUME NEW h \in Handler, WebhookFails(h) \/ RequestFails(h) PROVE PendingInv'
  BY <1>6, <1>e, <1>s DEF WebhookFails, RequestFails
<1>7. ASSUME NEW h \in Handler, NEW op \in AllOps, NEW p \in Plan, Request(h, op, p)
      PROVE  PendingInv'
  <2>1. job'[h] = [op |-> op, step |-> FirstStep(op), event |-> 0, target |-> p, row |-> tenant]
        /\ tenant' = tenant /\ op \in {"checkout", "downgrade", "cancel", "change", "status"}
    BY <1>7, <1>t DEF Request, MayRequest
  <2>2. PendingJob(h)'
    BY <2>1 DEF PendingJob, Handling, FirstStep
  <2> QED
    BY <1>g, <2>1, <2>2
<1>8. ASSUME NEW h \in Handler, CreateSession(h) PROVE PendingInv'
  BY <1>8, <1>e, <1>s DEF CreateSession
<1>9. ASSUME NEW h \in Handler, ReadTenant(h) PROVE PendingInv'
  <2>1. CASE job' = [job EXCEPT ![h] = NoJob]
    BY <1>9, <1>e, <1>s, <2>1 DEF ReadTenant
  <2>2. CASE /\ ServiceAccepts(job[h].op, job[h].target)
             /\ job' = [job EXCEPT ![h].row = tenant,
                  ![h].step = IF job[h].op = "change" /\ tenant.pending = Free
                              THEN "undo" ELSE "stripe"]
    <3>1. /\ job'[h].op = job[h].op /\ job'[h].target = job[h].target /\ tenant' = tenant
          /\ job'[h].step \in {"undo", "stripe"}
      BY <1>9, <1>t, <2>2 DEF ReadTenant, Job
    <3>2. Requesting(h, "read") /\ PendingJob(h)
      BY <1>9, <1>t DEF ReadTenant
    <3>3. job[h].op = "downgrade" => job[h].target < tenant.plan
      BY <2>2 DEF ServiceAccepts, ScheduleDowngradeAccepts, IsDowngrade
    <3>4. PendingJob(h)'
      BY <3>1, <3>2, <3>3 DEF PendingJob, Requesting, Handling
    <3> QED
      BY <1>g, <3>1, <3>4
  <2> QED
    BY <1>9, <2>1, <2>2 DEF ReadTenant
<1>10. ASSUME NEW h \in Handler, UndoCancel(h) PROVE PendingInv'
  <2>1. /\ job'[h].op = job[h].op /\ job'[h].target = job[h].target /\ tenant' = tenant
        /\ job'[h].step = "stripe" /\ Requesting(h, "undo") /\ PendingJob(h)
    BY <1>10, <1>t DEF UndoCancel, Job
  <2>2. PendingJob(h)'
    BY <2>1 DEF PendingJob, Requesting, Handling
  <2> QED
    BY <1>g, <2>1, <2>2
<1>11. ASSUME NEW h \in Handler, CallStripe(h) PROVE PendingInv'
  <2>1. CASE job' = [job EXCEPT ![h] = NoJob]
    BY <1>11, <1>e, <1>s, <2>1 DEF CallStripe
  <2>2. CASE job' = [job EXCEPT ![h].step = "save",
                                ![h].row.status = MapStatus(stripe[job[h].row.sub].state)]
    <3>1. /\ job'[h].op = job[h].op /\ job'[h].target = job[h].target /\ tenant' = tenant
          /\ job'[h].step = "save" /\ Requesting(h, "stripe") /\ PendingJob(h)
      BY <1>11, <1>t, <2>2 DEF CallStripe, Job
    <3>2. PendingJob(h)'
      BY <3>1 DEF PendingJob, Requesting, Handling
    <3> QED
      BY <1>g, <3>1, <3>2
  <2> QED
    BY <1>11, <2>1, <2>2 DEF CallStripe
<1>12. ASSUME NEW h \in Handler, FetchSubscription(h) PROVE PendingInv'
  <2>1. CASE job' = [job EXCEPT ![h] = NoJob]
    BY <1>12, <1>e, <1>s, <2>1 DEF FetchSubscription
  <2>2. CASE \E found : /\ job[h].row.pending = NoPlan
                        /\ job' = [job EXCEPT ![h].step = "save", ![h].target = found]
    <3>1. /\ job'[h].op = job[h].op /\ tenant' = tenant /\ job'[h].step = "save"
          /\ Requesting(h, "fetch") /\ PendingJob(h)
      BY <1>12, <1>t, <2>2 DEF FetchSubscription, Job
    <3>2. job[h].op = "status" /\ job[h].row.pending = tenant.pending
      BY ONLY <3>1 DEF PendingJob, Requesting
    <3>3. tenant.pending = NoPlan
      BY <2>2, <3>2
    <3>4. PendingJob(h)'
      BY <3>1, <3>2, <3>3 DEF PendingJob, Handling
    <3> QED
      BY <1>g, <3>1, <3>4
  <2> QED
    BY <1>12, <2>1, <2>2 DEF FetchSubscription
<1>13. ASSUME NEW h \in Handler, SaveTenant(h) PROVE PendingInv'
  <2>1. tenant' = SavedRow(h) /\ Requesting(h, "save") /\ PendingJob(h) /\ job[h].target \in Plan
    BY <1>13, <1>t DEF SaveTenant, WriteTenant, Requesting, JobOK
  <2>2. KeepsPlanWhilePending'
    BY <1>t, <2>1 DEF PendingJob, Requesting, SavedRow, KeepsPlanWhilePending, Row
  <2> QED
    BY <1>13, <1>e, <2>2 DEF SaveTenant
<1>14. CASE UNCHANGED vars
  BY <1>0, <1>14 DEF vars
<1> QED
  BY <1>1, <1>2, <1>3, <1>4, <1>5, <1>6, <1>7, <1>8, <1>9, <1>10, <1>11, <1>12, <1>13, <1>14
     DEF Next, Handle

\* With one request at a time and no verification of sessions, whatever the
\* order of the webhooks and the failures, a tenant with a pending downgrade is
\* on a higher plan (HandleSubscriptionUpdated, syncSubscription).
THEOREM PendingKeepsPlan ==
  ASSUME OneAtATime, "verify" \notin Ops
  PROVE  Spec => []KeepsPlanWhilePending
<1>1. Init => PendingInv
  BY DEF Init, NewTenant, NoJob, PendingInv, KeepsPlanWhilePending, PendingJob, Handling
<1>2. BillingInv /\ PendingInv /\ [Next]_vars => PendingInv'
  BY PendingStep
<1>3. PendingInv => KeepsPlanWhilePending
  BY DEF PendingInv
<1> QED
  BY <1>1, <1>2, <1>3, BillingInvariant, PTL DEF Spec

-----------------------------------------------------------------------------
(* The row agrees with Stripe.                                             *)

\* One request at a time, webhooks in order, no failures, and no session
\* verified by a user.
Sequential == Ordered /\ OneAtATime /\ MaxFaults = 0 /\ "verify" \notin Ops

\* Events that tell what a subscription has become, and whether one is to come.
Tells(e) == events[e].type \in {"updated", "deleted"}
Coming(s) == \E e \in DOMAIN events \ acked : Tells(e) /\ events[e].sub = s
NoneAfter(e) == \A f \in DOMAIN events : Tells(f) /\ events[f].sub = events[e].sub => f <= e

\* The last event that tells of a subscription says what it is by now; a checkout
\* is as its session has it until then, and after a payment one follows.
EventsAgree ==
  \A e \in DOMAIN events :
    LET s == stripe[events[e].sub]
    IN /\ events[e].type = "updated" /\ NoneAfter(e) =>
            s.state \in Live /\ s.state = events[e].state /\ s.price = events[e].price
       /\ events[e].type = "completed" /\ NoneAfter(e) => s.state = "active" /\ s.price = s.meta
       /\ events[e].type \in {"paid", "failed"} => ~NoneAfter(e)

\* Without failures the events are answered one after the other, and those that
\* are marked are answered but for the one in hand.
OrderInv ==
  /\ faults = 0
  /\ \A e \in acked, f \in DOMAIN events : f < e => f \in acked
  /\ \A e \in marked \ acked : \E h \in Handler : job[h].op = "webhook" /\ job[h].event = e
  /\ \A h \in Handler : job[h].op = "webhook" =>
       /\ job[h].event \in DOMAIN events \ acked
       /\ \A f \in DOMAIN events : f < job[h].event => f \in acked

\* Unless an event is to come, the row says of its subscription what Stripe does.
RowAgrees ==
  /\ tenant.sub = NoSub => tenant.plan = Free
  /\ tenant.sub # NoSub /\ ~Coming(tenant.sub) =>
       LET s == stripe[tenant.sub]
       IN /\ s.state \in Live /\ tenant.status = MapStatus(s.state)
          /\ tenant.pending \in {NoPlan, Free} /\ s.price \in Priced /\ ~skipped => tenant.plan = s.price

\* What a request knows of the row, and of a subscription nothing is to come of.
JobAgrees(h) ==
  LET j == job[h]
      s == stripe[tenant.sub]
      calm == ~Coming(tenant.sub)
  IN /\ Handling(h, "save") =>
          /\ j.row = tenant /\ ~Ignored(EventOf(h))
          /\ EventOf(h).type = "updated" /\ EventOf(h).price \in Priced => j.target = EventOf(h).price
     /\ j.op = "downgrade" => tenant.pending = NoPlan
     /\ j.op \in {"downgrade", "cancel", "change"} /\ j.step \in {"undo", "stripe"} => j.row = tenant
     /\ j.op \in {"cancel", "change", "status"} /\ j.step = "save" => tenant.sub # NoSub
     /\ j.op = "cancel" /\ j.step = "save" /\ calm /\ s.price \in Priced /\ ~skipped => tenant.plan = s.price
     /\ j.op = "change" /\ j.step = "save" /\ calm => j.row.status = MapStatus(s.state) /\ j.target = s.price
     /\ j.op = "status" /\ j.step = "save" /\ calm /\ s.price \in Priced => j.target = s.price

\* The steps each request takes.
StepsOK(h) ==
  /\ job[h].op = "checkout" => job[h].step = "session"
  /\ job[h].op = "status" => job[h].step \in {"fetch", "save"}
  /\ job[h].op \in {"downgrade", "cancel", "change"} => job[h].step \in {"read", "undo", "stripe", "save"}
  /\ job[h].op \in {"none", "webhook", "checkout", "status", "downgrade", "cancel", "change"}

ConvergeInv == EventsAgree /\ OrderInv /\ RowAgrees /\ \A h \in Handler : JobAgrees(h) /\ StepsOK(h)


\* The events a change of a subscription creates come after the others, each
\* with the new price and state.
LEMMA Appended ==
  ASSUME TypeOK, NEW s \in Sub, NEW new \in SubRecord, NEW types \in Seq(EventType), StripeChanges(s, new, types)
  PROVE  /\ DOMAIN events = 1..Len(events) /\ DOMAIN types = 1..Len(types) /\ Len(events) \in Nat /\ Len(types) \in Nat
         /\ DOMAIN events' = 1..(Len(events) + Len(types))
         /\ \A e \in DOMAIN events : events'[e] = events[e]
         /\ \A e \in DOMAIN events' \ DOMAIN events :
              /\ e - Len(events) \in 1..Len(types)
              /\ events'[e].type = types[e - Len(events)] /\ events'[e].sub = s
              /\ events'[e].price = new.price /\ events'[e].state = new.state
<1> DEFINE more == [i \in 1..Len(types) |->
      [type |-> types[i], sub |-> s, price |-> new.price, state |-> new.state]]
<1>1. more \in Seq(Event) /\ Len(more) = Len(types)
  <2>1. \A i \in 1..Len(types) : more[i] \in Event
    BY DEF SubRecord, Event
  <2>2. Len(types) \in Nat
    OBVIOUS
  <2> QED BY <2>1, <2>2, IsASeq, LenProperties
<1>2. events \in Seq(Event) /\ events' = events \o more
  BY DEF TypeOK, StripeChanges
<1>3. \A i \in 1..Len(types) : /\ more[i].type = types[i] /\ more[i].sub = s
                                /\ more[i].price = new.price /\ more[i].state = new.state
  OBVIOUS
<1> HIDE DEF more
<1>4. events' \in Seq(Event) /\ Len(events') = Len(events) + Len(more)
  BY <1>1, <1>2, ConcatProperties
<1>5. \A e \in 1..Len(events') :
        events'[e] = IF e <= Len(events) THEN events[e] ELSE more[e - Len(events)]
  BY <1>1, <1>2, <1>4, ConcatProperties
<1>6. /\ DOMAIN events = 1..Len(events) /\ DOMAIN events' = 1..Len(events')
      /\ Len(events) \in Nat /\ Len(types) \in Nat /\ DOMAIN types = 1..Len(types)
  BY <1>2, <1>4, LenProperties
<1>7. \A e \in DOMAIN events : events'[e] = events[e]
  BY <1>1, <1>4, <1>5, <1>6
<1>8. \A e \in DOMAIN events' \ DOMAIN events :
        e - Len(events) \in 1..Len(types) /\ events'[e] = more[e - Len(events)]
  BY <1>1, <1>4, <1>5, <1>6
<1> QED
  BY <1>1, <1>3, <1>4, <1>6, <1>7, <1>8

\* Every change of a subscription that has been paid for creates one event that
\* tells of it, after that of a payment.
LEMMA OneTells ==
  ASSUME BillingInv, NEW s \in Sub, NEW new \in SubRecord, NEW types \in Seq(EventType), Move(s, new, types)
  PROVE  \/ stripe[s].state = "open" /\ \A i \in 1..Len(types) : types[i] = "expired"
         \/ \E k \in 1..Len(types) :
              /\ types[k] \in {"updated", "deleted"}
              /\ types[k] = "updated" => new.state \in Live
              /\ \A i \in 1..Len(types) :
                   /\ types[i] \in {"updated", "deleted"} => i = k
                   /\ types[i] \in {"paid", "failed"} => i < k
                   /\ types[i] = "completed" => new.state = "active" /\ new.price = new.meta
<1>1. CASE stripe[s].state = "open" /\ types = <<"updated", "completed">> /\ new.state = "active" /\ new.price = stripe[s].price
  <2>1. new.price = new.meta
    BY <1>1 DEF Move, BillingInv, StripePaid
  <2>2. Len(types) = 2 /\ types[1] = "updated" /\ types[2] = "completed"
    BY <1>1
  <2> QED
    BY <1>1, <2>1, <2>2 DEF Live
<1>2. CASE stripe[s].state = "open" /\ types = <<"expired">>
  BY <1>2
<1>3. CASE types = <<"updated">> /\ new.state \in Live
  <2>1. Len(types) = 1 /\ types[1] = "updated"
    BY <1>3
  <2> QED
    BY <1>3, <2>1
<1>4. CASE types \in {<<"failed", "updated">>, <<"paid", "updated">>} /\ new.state \in Live
  <2>1. Len(types) = 2 /\ types[1] \in {"failed", "paid"} /\ types[2] = "updated"
    BY <1>4
  <2> QED
    BY <1>4, <2>1
<1>5. CASE types = <<"deleted">>
  <2>1. Len(types) = 1 /\ types[1] = "deleted"
    BY <1>5
  <2> QED
    BY <2>1
<1> QED
  BY <1>1, <1>2, <1>3, <1>4, <1>5 DEF Move

\* Events are and stay what they say.
LEMMA AgreeStep == BillingInv /\ EventsAgree /\ [Next]_vars => EventsAgree'
<1> SUFFICES ASSUME BillingInv, EventsAgree, [Next]_vars PROVE EventsAgree'
  OBVIOUS
<1>t. TypeOK /\ EventsPaid /\ stripe \in [Sub -> SubRecord]
  BY DEF BillingInv, TypeOK, SubRecord
<1>e. \A e \in DOMAIN events : events[e].sub \in Sub
  <2>1. \A e \in DOMAIN events : events[e] \in Event
    BY <1>t, ElementOfSeq, LenProperties DEF TypeOK
  <2> QED
    BY <2>1 DEF Event
<1>1. CASE UNCHANGED <<stripe, events>>
  BY <1>1 DEF EventsAgree, NoneAfter, Tells
<1>2. CASE Opened
  <2>1. PICK s \in Sub, p \in Plan :
          /\ stripe[s].state = "none" /\ UNCHANGED events
          /\ stripe' = [stripe EXCEPT ![s] = [state |-> "open", price |-> p, meta |-> p, cancel |-> FALSE]]
    BY <1>2 DEF Opened
  <2>2. \A e \in DOMAIN events : events[e].type # "expired" => stripe'[events[e].sub] = stripe[events[e].sub]
    BY <1>e, <1>t, <2>1 DEF EventsPaid, Paid, Live
  <2> QED
    BY <2>1, <2>2 DEF EventsAgree, NoneAfter, Tells
<1>3. CASE Moved
  <2>1. PICK s \in Sub, new \in SubRecord, types \in Seq(EventType) :
          StripeChanges(s, new, types) /\ Move(s, new, types)
    BY <1>3 DEF Moved
  <2> DEFINE n == Len(events)
             m == Len(types)
  <2>2. /\ DOMAIN events = 1..n /\ n \in Nat /\ m \in Nat /\ DOMAIN events' = 1..(n + m)
        /\ \A e \in 1..n : events'[e] = events[e]
        /\ \A e \in 1..(n + m) : e \notin 1..n =>
             /\ e - n \in 1..m
             /\ events'[e].type = types[e - n] /\ events'[e].sub = s
             /\ events'[e].price = new.price /\ events'[e].state = new.state
    BY <1>t, <2>1, Appended
  <2>3. stripe' = [stripe EXCEPT ![s] = new] /\ stripe'[s] = new /\ \A t \in Sub \ {s} : stripe'[t] = stripe[t]
    BY <1>t, <2>1 DEF StripeChanges
  <2>4. \/ stripe[s].state = "open" /\ \A i \in 1..m : types[i] = "expired"
        \/ \E k \in 1..m :
              /\ types[k] \in {"updated", "deleted"}
              /\ types[k] = "updated" => new.state \in Live
              /\ \A i \in 1..m :
                   /\ types[i] \in {"updated", "deleted"} => i = k
                   /\ types[i] \in {"paid", "failed"} => i < k
                   /\ types[i] = "completed" => new.state = "active" /\ new.price = new.meta
    BY <2>1, OneTells
  <2>5. \A e \in 1..n : NoneAfter(e)' => NoneAfter(e)
    BY <2>2 DEF NoneAfter, Tells
  \* Whatever follows another event that tells of its subscription may be anything.
  <2>6. ASSUME NEW e \in DOMAIN events', NEW f \in DOMAIN events', Tells(f)', events'[f].sub = events'[e].sub, e < f
        PROVE  ~NoneAfter(e)'
    BY <2>2, <2>6 DEF NoneAfter
  <2>7. CASE stripe[s].state = "open" /\ \A i \in 1..m : types[i] = "expired"
    <3>1. \A e \in 1..n : events[e].sub = s => events[e].type = "expired"
      BY <1>e, <1>t, <2>2, <2>7 DEF EventsPaid, Paid, Live
    <3>2. \A e \in 1..(n + m) : e \notin 1..n => events'[e].type = "expired"
      BY <2>2, <2>7
    <3>3. ASSUME NEW e \in 1..n, events[e].type # "expired" PROVE stripe'[events'[e].sub] = stripe[events[e].sub]
      BY <1>e, <2>2, <2>3, <3>1, <3>3
    <3> QED
      BY <2>2, <2>5, <3>2, <3>3 DEF EventsAgree
  <2>8. ASSUME NEW k \in 1..m,
               /\ types[k] \in {"updated", "deleted"}
               /\ types[k] = "updated" => new.state \in Live
               /\ \A i \in 1..m :
                    /\ types[i] \in {"updated", "deleted"} => i = k
                    /\ types[i] \in {"paid", "failed"} => i < k
                    /\ types[i] = "completed" => new.state = "active" /\ new.price = new.meta
        PROVE  EventsAgree'
    <3>0. n + k \in 1..(n + m) /\ n + k \notin 1..n /\ (n + k) - n = k
      BY <2>2
    <3>1. PICK f \in DOMAIN events' : f \notin 1..n /\ f - n = k
      BY <2>2, <3>0
    <3>f. Tells(f)' /\ events'[f].sub = s
      BY <2>2, <2>8, <3>1 DEF Tells
    <3> SUFFICES ASSUME NEW e \in DOMAIN events'
                 PROVE  LET r == stripe'[events'[e].sub]
                        IN /\ events'[e].type = "updated" /\ NoneAfter(e)' =>
                                r.state \in Live /\ r.state = events'[e].state /\ r.price = events'[e].price
                           /\ events'[e].type = "completed" /\ NoneAfter(e)' => r.state = "active" /\ r.price = r.meta
                           /\ events'[e].type \in {"paid", "failed"} => ~NoneAfter(e)'
      BY DEF EventsAgree
    <3>2. CASE e \in 1..n /\ events[e].sub = s
      BY <2>2, <2>6, <3>1, <3>f, <3>2
    <3>3. CASE e \in 1..n /\ events[e].sub # s
      <4>1. stripe'[events'[e].sub] = stripe[events[e].sub] /\ events'[e] = events[e]
        BY <1>e, <2>2, <2>3, <3>3
      <4> QED
        BY <2>2, <2>5, <3>3, <4>1 DEF EventsAgree
    <3>4. CASE e \notin 1..n
      <4>1. /\ e - n \in 1..m
            /\ events'[e].type = types[e - n] /\ events'[e].sub = s
            /\ events'[e].price = new.price /\ events'[e].state = new.state
        BY <2>2, <3>4
      <4>2. types[e - n] \in {"paid", "failed"} => e < f
        BY <2>2, <2>8, <3>1, <3>4, <4>1
      <4>3. types[e - n] \in {"paid", "failed"} => ~NoneAfter(e)'
        BY <2>6, <3>f, <4>1, <4>2
      <4> QED
        BY <2>3, <2>8, <4>1, <4>3
    <3> QED
      BY <3>2, <3>3, <3>4
  <2> QED
    BY <2>4, <2>7, <2>8
<1> QED
  BY <1>1, <1>2, <1>3, StripeMoves

\* While no event is answered, a subscription nothing is to come of is as it was.
LEMMA Calm ==
  ASSUME BillingInv, [Next]_vars, acked' = acked, NEW t \in Sub, stripe[t].state \in Paid, ~Coming(t)'
  PROVE  ~Coming(t) /\ stripe'[t] = stripe[t]
<1>t. TypeOK /\ stripe \in [Sub -> SubRecord] /\ acked \subseteq DOMAIN events
  BY DEF BillingInv, TypeOK, SubRecord
<1>1. ~Coming(t)
  BY EventsStay DEF Coming, Tells
<1>2. CASE Opened
  BY <1>1, <1>2, <1>t DEF Opened, Paid, Live
<1>3. CASE Moved
  <2>1. PICK s \in Sub, new \in SubRecord, types \in Seq(EventType) :
          StripeChanges(s, new, types) /\ Move(s, new, types)
    BY <1>3 DEF Moved
  <2>2. /\ DOMAIN events = 1..Len(events) /\ Len(events) \in Nat /\ Len(types) \in Nat
        /\ DOMAIN events' = 1..(Len(events) + Len(types))
        /\ \A e \in 1..(Len(events) + Len(types)) : e \notin 1..Len(events) =>
             events'[e].type = types[e - Len(events)] /\ events'[e].sub = s
    BY <1>t, <2>1, Appended
  <2>3. CASE s = t
    <3>1. PICK k \in 1..Len(types) : types[k] \in {"updated", "deleted"}
      BY <2>1, <2>3, OneTells DEF Paid, Live
    <3>0. /\ Len(events) + k \in 1..(Len(events) + Len(types)) /\ Len(events) + k \notin 1..Len(events)
          /\ (Len(events) + k) - Len(events) = k
      BY <2>2
    <3>2. PICK f \in DOMAIN events' \ acked : events'[f].type = types[k] /\ events'[f].sub = t
      BY <1>t, <2>2, <2>3, <3>0
    <3> QED
      BY <3>1, <3>2 DEF Coming, Tells
  <2>4. CASE s # t
    BY <1>1, <1>t, <2>1, <2>4 DEF StripeChanges
  <2> QED
    BY <2>3, <2>4
<1> QED
  BY <1>1, <1>2, <1>3, StripeMoves



\* Events are answered in order, one at a time.
LEMMA OrderStep ==
  ASSUME Sequential
  PROVE  BillingInv /\ OrderInv /\ [Next]_vars => OrderInv'
<1> SUFFICES ASSUME BillingInv, OrderInv, [Next]_vars PROVE OrderInv'
  OBVIOUS
<1>t. /\ TypeOK /\ job \in [Handler -> Job] /\ acked \subseteq DOMAIN events /\ \A h \in Handler : JobOK(h)
      /\ marked \subseteq DOMAIN events
  BY DEF BillingInv, TypeOK
<1>n. NoJob.op = "none"
  BY DEF NoJob
<1>f. ~Fault
  BY ConstantsAssumption DEF Fault, Sequential, OrderInv
<1>o. \A g, h \in Handler : g = h
  BY DEF Sequential, OneAtATime
<1>d. /\ DOMAIN events \subseteq DOMAIN events' /\ DOMAIN events \subseteq Nat
      /\ \A e \in DOMAIN events, f \in DOMAIN events' : f < e => f \in DOMAIN events
  <2>1. DOMAIN events \subseteq DOMAIN events'
    BY EventsStay
  <2>2. DOMAIN events = 1..Len(events) /\ Len(events) \in Nat
    BY <1>t, LenProperties DEF TypeOK
  <2>3. BillingInv'
    BY BillingStep
  <2>4. DOMAIN events' = 1..Len(events') /\ Len(events') \in Nat
    BY <2>3, LenProperties DEF BillingInv, TypeOK
  <2> QED
    BY <2>1, <2>2, <2>4
\* The webhook in hand stays, or there is none.
<1>s. ASSUME UNCHANGED <<acked, marked, faults>>,
             \A h \in Handler : job[h].op = "webhook" <=> job'[h].op = "webhook",
             \A h \in Handler : job[h].op = "webhook" => job'[h].event = job[h].event
      PROVE  OrderInv'
  BY <1>s, <1>d, <1>t DEF OrderInv
\* The job of the one handler, which is not about an event.
<1>j. ASSUME UNCHANGED <<acked, marked, faults>>, NEW h \in Handler, job[h].op # "webhook", job'[h].op # "webhook"
      PROVE  OrderInv'
  BY <1>j, <1>o, <1>s
\* The event in hand is answered.
<1>k. ASSUME NEW h \in Handler, Finish(h), job[h].op = "webhook", UNCHANGED <<marked, faults, events>>
      PROVE  OrderInv'
  <2>1. acked' = acked \cup {job[h].event} /\ job'[h] = NoJob
    BY <1>k, <1>t DEF Finish
  <2>2. \A e \in marked' \ acked' : FALSE
    BY <1>k, <1>o, <2>1 DEF OrderInv
  <2>3. \A g \in Handler : job'[g].op # "webhook"
    BY <1>n, <1>o, <2>1
  <2>4. \A e \in acked', f \in DOMAIN events' : f < e => f \in acked'
    BY <1>k, <2>1 DEF OrderInv
  <2> QED
    BY <1>k, <2>2, <2>3, <2>4 DEF OrderInv
<1>1. ASSUME NEW s \in Sub, StripeStep(s) PROVE OrderInv'
  BY <1>1, <1>s DEF StripeStep, PayCheckout, ExpireCheckout, PortalUpdate, Payment, PeriodEnds
<1>2. ASSUME NEW s \in Sub, VerifyCheckoutSession(s) PROVE FALSE
  BY <1>2 DEF VerifyCheckoutSession, Turn, Sequential
<1>3. ASSUME NEW h \in Handler, NEW e \in DOMAIN events, Deliver(h, e) PROVE OrderInv'
  <2>1. e \notin acked /\ (\A i \in DOMAIN events \ acked : e <= i) /\ \A g \in Handler : job[g].op # "webhook"
    BY <1>3 DEF Deliver, MayDeliver, Sequential
  <2>2. e \notin marked
    BY <2>1 DEF OrderInv
  <2>3. MarkEventProcessed(e) /\ BeginEvent(h, e) /\ UNCHANGED <<acked, faults, events>>
    BY <1>3, <1>f, <2>2 DEF Deliver
  <2>4. job'[h].op = "webhook" /\ job'[h].event = e
    BY <1>t, <2>3 DEF BeginEvent, NoJob
  <2>5. \A i \in DOMAIN events : i < e => i \in acked
    BY <1>d, <2>1
  <2>6. \A i \in marked' \ acked' : i = e
    BY <2>1, <2>3 DEF MarkEventProcessed, OrderInv
  <2> QED
    BY <1>o, <2>1, <2>3, <2>4, <2>5, <2>6 DEF OrderInv
<1>4. ASSUME NEW h \in Handler, ReadForEvent(h) PROVE OrderInv'
  <2>1. CASE Finish(h)
    BY <1>4, <1>k, <2>1 DEF ReadForEvent, Handling
  <2>2. CASE /\ job' = [job EXCEPT ![h].step = "save", ![h].row = tenant, ![h].target = DetectPlan(EventOf(h))]
             /\ UNCHANGED acked
    <3>1. job'[h].op = job[h].op /\ job'[h].event = job[h].event
      BY <1>t, <2>2 DEF Job
    <3> QED
      BY <1>4, <1>o, <1>s, <2>2, <3>1 DEF ReadForEvent
  <2> QED
    BY <1>4, <2>1, <2>2 DEF ReadForEvent
<1>5. ASSUME NEW h \in Handler, WriteForEvent(h) PROVE OrderInv'
  BY <1>5, <1>k DEF WriteForEvent, Handling
<1>6. ASSUME NEW h \in Handler, WebhookFails(h) \/ RequestFails(h) PROVE FALSE
  BY <1>6, <1>f DEF WebhookFails, RequestFails
<1>7. ASSUME NEW h \in Handler, NEW op \in AllOps, NEW p \in Plan, Request(h, op, p) PROVE OrderInv'
  <2>1. job'[h].op = op /\ op # "webhook" /\ job[h] = NoJob
    BY <1>7, <1>t DEF Request, AllOps
  <2> QED
    BY <1>7, <1>j, <1>n, <2>1 DEF Request
<1>8. ASSUME NEW h \in Handler,
             CreateSession(h) \/ ReadTenant(h) \/ UndoCancel(h) \/ CallStripe(h)
             \/ FetchSubscription(h) \/ SaveTenant(h)
      PROVE  OrderInv'
  <2>1. job[h].op # "webhook" /\ UNCHANGED <<acked, marked, faults>>
    BY <1>8 DEF CreateSession, ReadTenant, UndoCancel, CallStripe, FetchSubscription, SaveTenant, Requesting
  <2>2. job'[h] = NoJob \/ job'[h].op = job[h].op
    BY <1>8, <1>t DEF CreateSession, ReadTenant, UndoCancel, CallStripe, FetchSubscription, SaveTenant, Job
  <2> QED
    BY <1>j, <1>n, <2>1, <2>2
<1>9. CASE UNCHANGED vars
  BY <1>9, <1>s DEF vars
<1> QED
  BY <1>1, <1>2, <1>3, <1>4, <1>5, <1>6, <1>7, <1>8, <1>9 DEF Next, Handle


\* The row and the one request keep agreeing with Stripe.
LEMMA ConvergeStep ==
  ASSUME Sequential
  PROVE  BillingInv /\ ConvergeInv /\ [Next]_vars => ConvergeInv'
<1> SUFFICES ASSUME BillingInv, ConvergeInv, [Next]_vars PROVE ConvergeInv'
  OBVIOUS
<1> DEFINE Agreed(h) == JobAgrees(h) /\ StepsOK(h)
<1>t. /\ TypeOK /\ job \in [Handler -> Job] /\ tenant \in Row /\ acked \subseteq DOMAIN events
      /\ stripe \in [Sub -> SubRecord] /\ NoPlan \notin Plan /\ NoSub \notin Sub /\ Free \in Plan
      /\ \A h \in Handler : JobOK(h)
      /\ tenant.sub \in Sub => stripe[tenant.sub].state \in Paid
  BY ConstantsAssumption DEF BillingInv, TypeOK, TenantPaid, SubRecord
<1>c. EventsAgree /\ OrderInv /\ RowAgrees /\ \A h \in Handler : Agreed(h)
  BY DEF ConvergeInv
<1>n. NoJob.op = "none" /\ NoJob.step = "idle"
  BY DEF NoJob
<1>f. ~Fault
  BY ConstantsAssumption, <1>c DEF Fault, Sequential, OrderInv
<1>o. \A g, h \in Handler : g = h
  BY DEF Sequential, OneAtATime
<1>w. EventsAgree' /\ OrderInv'
  BY <1>c, AgreeStep, OrderStep
<1>e. /\ \A e \in DOMAIN events : e \in DOMAIN events' /\ events'[e] = events[e]
      /\ \A h \in Handler : job[h].op = "webhook" => job[h].event \in DOMAIN events \ acked /\ EventOf(h) \in Event
  <2>1. \A h \in Handler : job[h].op = "webhook" => job[h].event \in DOMAIN events \ acked
    BY <1>c DEF OrderInv
  <2>2. \A e \in DOMAIN events : events[e] \in Event
    BY <1>t, ElementOfSeq, LenProperties DEF TypeOK
  <2> QED
    BY <2>1, <2>2, EventsStay DEF EventOf
\* Nothing is to come of the row's subscription after the step: nor was it before,
\* and Stripe did nothing with it.
<1>q. ASSUME UNCHANGED acked, NEW t, t = tenant.sub, t # NoSub, ~Coming(t)'
      PROVE  t \in Sub /\ ~Coming(t) /\ stripe'[t] = stripe[t]
  <2>1. t \in Sub /\ stripe[t].state \in Paid
    BY <1>t, <1>q DEF Row
  <2> QED
    BY <1>q, <2>1, Calm
<1>r. ASSUME UNCHANGED <<tenant, acked, skipped>> PROVE RowAgrees'
  <2>1. PICK t : t = tenant.sub
    OBVIOUS
  <2>2. Coming(tenant.sub)' = Coming(t)'
    BY <1>r, <2>1 DEF Coming
  <2> QED
    BY <1>c, <1>q, <1>r, <2>1, <2>2 DEF RowAgrees
\* The one request is done with the row as it was.
<1>d. ASSUME NEW h \in Handler, job' = [job EXCEPT ![h] = NoJob], RowAgrees' PROVE ConvergeInv'
  <2>1. \A g \in Handler : job'[g] = NoJob
    BY <1>d, <1>o, <1>t
  <2>2. \A g \in Handler : JobAgrees(g)' /\ StepsOK(g)'
    BY <1>n, <2>1 DEF JobAgrees, StepsOK, Handling
  <2> QED
    BY <1>d, <1>w, <2>2 DEF ConvergeInv
\* It goes on.
<1>g. ASSUME NEW h \in Handler, RowAgrees', JobAgrees(h)', StepsOK(h)' PROVE ConvergeInv'
  <2>1. \A g \in Handler : JobAgrees(g)' /\ StepsOK(g)'
    BY <1>g, <1>o
  <2> QED
    BY <1>g, <1>w, <2>1 DEF ConvergeInv
\* Stripe's steps.
<1>s. ASSUME UNCHANGED <<tenant, acked, skipped, job>> PROVE ConvergeInv'
  <2>1. PICK t : t = tenant.sub
    OBVIOUS
  <2>2. ASSUME NEW h \in Handler PROVE JobAgrees(h)' /\ StepsOK(h)'
    <3>1. job[h].op = "webhook" => EventOf(h)' = EventOf(h)
      BY <1>e, <1>s DEF EventOf
    <3>2. Handling(h, "save") => (Ignored(EventOf(h)))' = Ignored(EventOf(h))
      BY <1>s, <3>1 DEF Ignored, Handling
    <3>3. Coming(tenant.sub)' = Coming(t)'
      BY <1>s, <2>1 DEF Coming
    <3> QED
      BY <1>c, <1>q, <1>s, <2>1, <3>1, <3>2, <3>3 DEF JobAgrees, StepsOK, Handling
  <2> QED
    BY <1>r, <1>s, <1>w, <2>2 DEF ConvergeInv
<1>1. ASSUME NEW s \in Sub, StripeStep(s) PROVE ConvergeInv'
  BY <1>1, <1>s DEF StripeStep, PayCheckout, ExpireCheckout, PortalUpdate, Payment, PeriodEnds
<1>2. ASSUME NEW s \in Sub, VerifyCheckoutSession(s) PROVE FALSE
  BY <1>2 DEF VerifyCheckoutSession, Turn, Sequential
<1>3. ASSUME NEW h \in Handler, NEW e \in DOMAIN events, Deliver(h, e) PROVE ConvergeInv'
  <2>1. e \notin marked
    BY <1>3, <1>c DEF Deliver, MayDeliver, Sequential, OrderInv
  <2>2. BeginEvent(h, e) /\ UNCHANGED <<tenant, acked, skipped>>
    BY <1>3, <1>f, <2>1 DEF Deliver
  <2>3. job'[h].op = "webhook" /\ job'[h].step = "read"
    BY <1>t, <2>2 DEF BeginEvent, NoJob
  <2>4. JobAgrees(h)' /\ StepsOK(h)'
    BY <2>3 DEF JobAgrees, StepsOK, Handling
  <2> QED
    BY <1>g, <1>r, <2>2, <2>4
<1>4. ASSUME NEW h \in Handler, ReadForEvent(h) PROVE ConvergeInv'
  <2>0. job[h].op = "webhook" /\ UNCHANGED <<tenant, stripe, events, skipped>>
    BY <1>4 DEF ReadForEvent, Handling
  <2>1. CASE Ignored(EventOf(h)) /\ Finish(h)
    <3>1. tenant.sub # NoSub /\ Coming(tenant.sub) => Coming(tenant.sub)'
      <4> SUFFICES ASSUME tenant.sub # NoSub, NEW e \in DOMAIN events \ acked, Tells(e), events[e].sub = tenant.sub
                   PROVE  Coming(tenant.sub)'
        BY DEF Coming
      <4>1. e # job[h].event
        BY <2>1 DEF Ignored, EventOf, Tells
      <4> QED
        BY <2>0, <2>1, <4>1 DEF Finish, Coming, Tells
    <3>2. RowAgrees'
      BY <1>c, <2>0, <3>1 DEF RowAgrees
    <3> QED
      BY <1>d, <2>1, <3>2 DEF Finish
  <2>2. CASE /\ ~Ignored(EventOf(h)) /\ UNCHANGED acked
             /\ job' = [job EXCEPT ![h].step = "save", ![h].row = tenant, ![h].target = DetectPlan(EventOf(h))]
    <3>1. /\ job'[h].op = "webhook" /\ job'[h].row = tenant /\ job'[h].event = job[h].event
          /\ job'[h].target = DetectPlan(EventOf(h)) /\ job'[h].step = "save"
      BY <1>t, <2>0, <2>2 DEF Job
    <3>2. EventOf(h)' = EventOf(h) /\ EventOf(h) \in Event
      BY <1>e, <2>0, <3>1 DEF EventOf
    <3>3. EventOf(h).price \in Priced => DetectPlan(EventOf(h)) = EventOf(h).price
      BY <1>t, <3>2, ConstantsAssumption DEF DetectPlan, PlanFor, Event
    <3>4. (Ignored(EventOf(h)))' = Ignored(EventOf(h))
      BY <2>0, <3>2 DEF Ignored
    <3>5. JobAgrees(h)' /\ StepsOK(h)'
      BY <2>0, <2>2, <3>1, <3>2, <3>3, <3>4 DEF JobAgrees, StepsOK
    <3> QED
      BY <1>g, <1>r, <2>0, <2>2, <3>5
  <2> QED
    BY <1>4, <2>1, <2>2 DEF ReadForEvent
<1>5. ASSUME NEW h \in Handler, WriteForEvent(h) PROVE ConvergeInv'
  <2> DEFINE i == job[h].event
             s == events[i].sub
  <2>1. /\ job[h].op = "webhook" /\ Handling(h, "save") /\ UNCHANGED <<stripe, events>>
        /\ tenant' = HandleEvent(h, events[i]) /\ acked' = acked \cup {i} /\ job' = [job EXCEPT ![h] = NoJob]
    BY <1>5 DEF WriteForEvent, WriteTenant, Finish, Handling, EventOf
  <2>k. ~skipped' => ~skipped /\ ~(events[i].type = "updated" /\ job[h].row.pending = Free /\ job[h].target # tenant.plan)
    BY <1>5 DEF WriteForEvent, EventOf
  <2>2. /\ i \in DOMAIN events \ acked /\ events[i] \in Event /\ ~Ignored(events[i]) /\ job[h].row = tenant
        /\ events[i].type = "updated" /\ events[i].price \in Priced => job[h].target = events[i].price
        /\ events[i].type # "expired" /\ s \in Sub
    BY <1>c, <1>e, <1>t, <2>1 DEF JobAgrees, EventOf, JobOK, Event, Ignored
  \* Nothing to come of its subscription: it is the last event that tells of it.
  <2>3. ASSUME \A e \in DOMAIN events \ acked' : ~(Tells(e) /\ events[e].sub = s)
        PROVE  NoneAfter(i)
    <3> SUFFICES ASSUME NEW f \in DOMAIN events, Tells(f), events[f].sub = s PROVE f <= i
      BY DEF NoneAfter
    <3>1. f = i \/ f \in acked
      BY <2>1, <2>3
    <3>2. f \in Nat /\ i \in Nat
      <4>1. DOMAIN events = 1..Len(events) /\ Len(events) \in Nat
        BY <1>t, LenProperties DEF TypeOK
      <4> QED
        BY <2>2, <4>1
    <3>3. i < f => FALSE
      BY <1>c, <2>2, <3>1, <3>2 DEF OrderInv
    <3> QED
      BY <3>1, <3>2, <3>3
  <2>4. \A u : tenant'.sub = u => (Coming(tenant.sub)' <=> \E e \in DOMAIN events \ acked' : Tells(e) /\ events[e].sub = u)
    BY <2>1 DEF Coming, Tells
  <2>5. RowAgrees'
    <3>1. CASE events[i].type = "completed"
      <4>1. tenant'.sub = s /\ tenant'.plan = stripe[s].meta /\ tenant'.status = "active" /\ tenant'.pending = NoPlan
        BY <2>1, <3>1 DEF HandleEvent, HandleCheckoutCompleted
      <4>2. ~Coming(tenant.sub)' => stripe[s].state = "active" /\ stripe[s].price = stripe[s].meta
        BY <1>c, <2>2, <2>3, <2>4, <3>1, <4>1 DEF EventsAgree
      <4> QED
        BY <1>t, <2>1, <2>2, <4>1, <4>2 DEF RowAgrees, MapStatus, Live
    <3>2. CASE events[i].type = "updated"
      <4>1. /\ tenant'.sub = s /\ tenant'.status = MapStatus(events[i].state) /\ tenant'.pending = tenant.pending
            /\ tenant'.plan = IF tenant.pending = NoPlan /\ job[h].target # NoPlan THEN job[h].target ELSE tenant.plan
        BY <1>t, <2>1, <2>2, <3>2 DEF HandleEvent, HandleSubscriptionUpdated, Row
      <4>2. ~Coming(tenant.sub)' =>
              stripe[s].state \in Live /\ stripe[s].state = events[i].state /\ stripe[s].price = events[i].price
        BY <1>c, <2>2, <2>3, <2>4, <3>2, <4>1 DEF EventsAgree
      <4>3. ASSUME ~Coming(tenant.sub)', tenant.pending \in {NoPlan, Free}, stripe[s].price \in Priced, ~skipped'
            PROVE  tenant'.plan = stripe[s].price
        <5>1. job[h].target = stripe[s].price
          BY <2>2, <3>2, <4>2, <4>3
        <5>2. job[h].target # NoPlan
          BY <1>t, <4>3, <5>1, ConstantsAssumption
        <5>3. tenant.pending = Free => job[h].target = tenant.plan
          BY <2>k, <2>2, <3>2, <4>3
        <5> QED
          BY <1>t, <4>1, <4>3, <5>1, <5>2, <5>3
      <4> QED
        BY <1>t, <2>1, <2>2, <4>1, <4>2, <4>3 DEF RowAgrees
    <3>3. CASE events[i].type = "deleted"
      BY <2>1, <3>3 DEF HandleEvent, HandleSubscriptionDeleted, RowAgrees
    <3>4. CASE events[i].type \in {"paid", "failed"}
      <4>1. tenant'.sub = tenant.sub /\ tenant'.plan = tenant.plan /\ tenant.sub = s
        BY <1>t, <2>1, <2>2, <3>4 DEF HandleEvent, Row, Ignored
      <4>2. Coming(tenant.sub)'
        BY <1>c, <2>2, <2>3, <2>4, <3>4, <4>1 DEF EventsAgree
      <4> QED
        BY <1>c, <4>1, <4>2 DEF RowAgrees
    <3> QED
      BY <2>2, <3>1, <3>2, <3>3, <3>4 DEF Event, EventType
  <2> QED
    BY <1>d, <2>1, <2>5
<1>6. ASSUME NEW h \in Handler, WebhookFails(h) \/ RequestFails(h) PROVE FALSE
  BY <1>6, <1>f DEF WebhookFails, RequestFails

<1>7. ASSUME NEW h \in Handler, NEW op \in AllOps, NEW p \in Plan, Request(h, op, p) PROVE ConvergeInv'
  <2>1. /\ job'[h] = [op |-> op, step |-> FirstStep(op), event |-> 0, target |-> p, row |-> tenant]
        /\ UNCHANGED <<tenant, acked, skipped>> /\ op \in {"checkout", "downgrade", "cancel", "change", "status"}
        /\ op = "downgrade" => tenant.pending = NoPlan
    BY <1>7, <1>t DEF Request, MayRequest, MayDowngrade
  <2>2. JobAgrees(h)' /\ StepsOK(h)'
    BY <2>1 DEF JobAgrees, StepsOK, Handling, FirstStep
  <2> QED
    BY <1>g, <1>r, <2>1, <2>2
<1>8. ASSUME NEW h \in Handler, CreateSession(h) PROVE ConvergeInv'
  BY <1>8, <1>d, <1>r DEF CreateSession
<1>9. ASSUME NEW h \in Handler, ReadTenant(h) PROVE ConvergeInv'
  <2>0. UNCHANGED <<tenant, acked, skipped>> /\ job[h].step = "read" /\ Agreed(h)
    BY <1>9, <1>c DEF ReadTenant, Requesting
  <2>1. CASE job' = [job EXCEPT ![h] = NoJob]
    BY <1>d, <1>r, <2>0, <2>1
  <2>2. CASE /\ ServiceAccepts(job[h].op, job[h].target)
             /\ job' = [job EXCEPT ![h].row = tenant,
                  ![h].step = IF job[h].op = "change" /\ tenant.pending = Free
                              THEN "undo" ELSE "stripe"]
    <3>1. /\ job'[h].op = job[h].op /\ job'[h].row = tenant
          /\ job'[h].step \in {"undo", "stripe"}
      BY <1>t, <2>2 DEF Job
    <3>2. job[h].op \in {"downgrade", "cancel", "change"}
      BY <1>9, <2>0 DEF StepsOK, ReadTenant, Requesting
    <3>3. JobAgrees(h)' /\ StepsOK(h)'
      BY <2>0, <3>1, <3>2 DEF JobAgrees, StepsOK, Handling
    <3> QED
      BY <1>g, <1>r, <2>0, <3>3
  <2> QED
    BY <1>9, <2>1, <2>2 DEF ReadTenant
<1>10. ASSUME NEW h \in Handler, UndoCancel(h) PROVE ConvergeInv'
  <2>1. /\ job'[h].op = job[h].op /\ job'[h].row = job[h].row /\ UNCHANGED <<tenant, acked, skipped>>
        /\ job'[h].step = "stripe" /\ job[h].step = "undo" /\ job[h].op \notin {"none", "webhook"} /\ Agreed(h)
    BY <1>10, <1>c, <1>t DEF UndoCancel, Requesting, Job
  <2>2. JobAgrees(h)' /\ StepsOK(h)'
    BY <2>1 DEF JobAgrees, StepsOK, Handling
  <2> QED
    BY <1>g, <1>r, <2>1, <2>2
<1>11. ASSUME NEW h \in Handler, CallStripe(h) PROVE ConvergeInv'
  <2>0. /\ UNCHANGED <<tenant, acked, skipped>> /\ job[h].step = "stripe"
        /\ job[h].op \in {"downgrade", "cancel", "change"} /\ Agreed(h)
    BY <1>11, <1>c DEF CallStripe, Requesting, StepsOK
  <2> DEFINE t == job[h].row.sub
  <2>1. CASE job' = [job EXCEPT ![h] = NoJob]
    BY <1>d, <1>r, <2>0, <2>1
  <2>2. CASE /\ UpdateSubscription(t, NewSubscription(h, stripe[t]))
             /\ job' = [job EXCEPT ![h].step = "save", ![h].row.status = MapStatus(stripe[t].state)]
    <3>1. job[h].row = tenant /\ t \in Sub /\ t = tenant.sub /\ tenant.sub # NoSub /\ job[h].target \in Plan
      BY <1>t, <2>0 DEF JobAgrees, JobOK
    <3>2. /\ job'[h].op = job[h].op /\ job'[h].step = "save" /\ job'[h].target = job[h].target
          /\ job'[h].row.status = MapStatus(stripe[t].state)
      BY <1>t, <2>2 DEF Job, Row
    <3>3. PICK u \in Sub : u = tenant.sub
      BY <3>1
    <3>4. Coming(tenant.sub)' = Coming(u)'
      BY <2>0, <3>3 DEF Coming
    <3>5. stripe[u] \in SubRecord
      BY <1>t
    \* A change would have created an event.
    <3>6. ASSUME ~Coming(u)' PROVE stripe'[u] = stripe[u] /\ NewSubscription(h, stripe[u]) = stripe[u] /\ ~Coming(u)
      <4>1. ~Coming(u) /\ stripe'[u] = stripe[u]
        BY <1>q, <1>t, <2>0, <3>3, <3>6
      <4>2. UpdateSubscription(u, NewSubscription(h, stripe[u]))
        BY <2>2, <3>1, <3>3
      <4> QED
        BY <1>t, <4>1, <4>2 DEF UpdateSubscription, StripeChanges
    <3>7. ASSUME ~Coming(u)', job[h].op = "change"
          PROVE  MapStatus(stripe[t].state) = MapStatus(stripe'[u].state) /\ job[h].target = stripe'[u].price
      BY <3>1, <3>3, <3>5, <3>6, <3>7 DEF NewSubscription, ChangeSubscriptionPlan, SubRecord
    <3>8. ASSUME ~Coming(u)', job[h].op = "cancel", stripe'[u].price \in Priced, ~skipped
          PROVE  tenant.plan = stripe'[u].price
      <4>1. CASE tenant.pending = Free
        BY <1>c, <3>1, <3>3, <3>6, <3>8, <4>1 DEF RowAgrees
      <4>2. CASE tenant.pending # Free
        <5>1. [stripe[u] EXCEPT !.price = tenant.plan] = stripe[u]
          BY <3>1, <3>6, <3>8, <4>2 DEF NewSubscription, CancelScheduledDowngrade
        <5> QED
          BY <3>5, <3>6, <3>8, <5>1 DEF SubRecord
      <4> QED
        BY <4>1, <4>2
    <3>9. JobAgrees(h)' /\ StepsOK(h)'
      BY <2>0, <3>1, <3>2, <3>3, <3>4, <3>7, <3>8 DEF JobAgrees, StepsOK, Handling
    <3> QED
      BY <1>g, <1>r, <2>0, <3>9
  <2> QED
    BY <1>11, <2>1, <2>2 DEF CallStripe
<1>12. ASSUME NEW h \in Handler, FetchSubscription(h) PROVE ConvergeInv'
  <2>0. /\ UNCHANGED <<tenant, acked, skipped, stripe>> /\ job[h].step = "fetch" /\ job[h].op = "status"
    BY <1>12, <1>c DEF FetchSubscription, Requesting, StepsOK
  <2>1. CASE job' = [job EXCEPT ![h] = NoJob]
    BY <1>d, <1>r, <2>0, <2>1
  <2>2. CASE job' # [job EXCEPT ![h] = NoJob]
    <3> DEFINE found == IF tenant.sub = NoSub THEN NoPlan ELSE PlanFor(stripe[tenant.sub].price)
    <3>1. found # NoPlan /\ job' = [job EXCEPT ![h].step = "save", ![h].target = found]
      BY <1>12, <2>2 DEF FetchSubscription
    <3>2. tenant.sub # NoSub /\ found = stripe[tenant.sub].price
      BY <3>1 DEF PlanFor
    <3>3. job'[h].op = "status" /\ job'[h].step = "save" /\ job'[h].target = stripe[tenant.sub].price
      BY <1>t, <2>0, <3>1, <3>2 DEF Job
    <3>4. JobAgrees(h)' /\ StepsOK(h)'
      BY <2>0, <3>2, <3>3 DEF JobAgrees, StepsOK, Handling
    <3> QED
      BY <1>g, <1>r, <2>0, <3>4
  <2> QED
    BY <2>1, <2>2
<1>13. ASSUME NEW h \in Handler, SaveTenant(h) PROVE ConvergeInv'
  <2>1. /\ tenant' = SavedRow(h) /\ job[h].step = "save" /\ job[h].op \in {"downgrade", "cancel", "change", "status"}
        /\ UNCHANGED <<stripe, events, acked, skipped>> /\ job' = [job EXCEPT ![h] = NoJob] /\ Agreed(h)
    BY <1>13, <1>c DEF SaveTenant, WriteTenant, Requesting, StepsOK
  <2>2. tenant'.sub = tenant.sub
    BY <1>t, <2>1 DEF SavedRow, Row
  <2>3. Coming(tenant.sub)' = Coming(tenant.sub)
    BY <2>1, <2>2 DEF Coming, Tells
  <2>4. CASE job[h].op = "downgrade"
    <3>1. tenant' = [tenant EXCEPT !.pending = job[h].target] /\ tenant.pending = NoPlan
      BY <2>1, <2>4 DEF SavedRow, JobAgrees
    <3>2. tenant'.plan = tenant.plan /\ tenant'.status = tenant.status
      BY <1>t, <3>1 DEF Row
    <3>3. RowAgrees'
      BY <1>c, <2>1, <2>2, <2>3, <3>1, <3>2 DEF RowAgrees
    <3> QED
      BY <1>d, <2>1, <3>3
  <2>5. CASE job[h].op = "cancel"
    <3>1. tenant'.plan = tenant.plan /\ tenant'.status = tenant.status
      BY <1>t, <2>1, <2>5 DEF SavedRow, Row
    <3>2. RowAgrees'
      BY <1>c, <2>1, <2>2, <2>3, <2>5, <3>1 DEF RowAgrees, JobAgrees
    <3> QED
      BY <1>d, <2>1, <3>2
  <2>6. CASE job[h].op = "change"
    <3>1. tenant'.plan = job[h].target /\ tenant'.status = job[h].row.status
      BY <1>t, <2>1, <2>6 DEF SavedRow, Row
    <3>2. RowAgrees'
      BY <1>c, <2>1, <2>2, <2>3, <2>6, <3>1 DEF RowAgrees, JobAgrees
    <3> QED
      BY <1>d, <2>1, <3>2
  <2>7. CASE job[h].op = "status"
    <3>1. tenant'.plan = job[h].target /\ tenant'.status = tenant.status
      BY <1>t, <2>1, <2>7 DEF SavedRow, Row
    <3>2. RowAgrees'
      BY <1>c, <2>1, <2>2, <2>3, <2>7, <3>1 DEF RowAgrees, JobAgrees
    <3> QED
      BY <1>d, <2>1, <3>2
  <2> QED
    BY <2>1, <2>4, <2>5, <2>6, <2>7
<1>14. CASE UNCHANGED vars
  BY <1>14, <1>s DEF vars
<1> QED
  BY <1>1, <1>2, <1>3, <1>4, <1>5, <1>6, <1>7, <1>8, <1>9, <1>10, <1>11, <1>12, <1>13, <1>14
     DEF Next, Handle

\* Without failures, with one request at a time and webhooks in order, the row
\* says of its subscription what Stripe says once all webhooks are answered, for
\* any number of subscriptions and plans and any sequence of checkouts, plan
\* changes, downgrades, payments and periods.
THEOREM RowConverges ==
  ASSUME Sequential
  PROVE  Spec => []Converged
<1>1. Init => ConvergeInv
  <2> SUFFICES ASSUME Init PROVE ConvergeInv
    OBVIOUS
  <2>1. DOMAIN events = {} /\ acked = {} /\ marked = {} /\ faults = 0 /\ tenant = NewTenant
        /\ \A h \in Handler : job[h] = NoJob
    BY DEF Init
  <2>2. EventsAgree /\ OrderInv
    BY <2>1 DEF EventsAgree, OrderInv, NoJob
  <2>3. RowAgrees
    BY <2>1 DEF RowAgrees, NewTenant
  <2>4. \A h \in Handler : JobAgrees(h) /\ StepsOK(h)
    BY <2>1 DEF JobAgrees, StepsOK, NoJob, Handling
  <2> QED
    BY <2>2, <2>3, <2>4 DEF ConvergeInv
<1>2. BillingInv /\ ConvergeInv /\ [Next]_vars => ConvergeInv'
  BY ConvergeStep
<1>3. ConvergeInv => Converged
  <2> SUFFICES ASSUME ConvergeInv, Quiet PROVE Converged
    BY DEF Converged
  <2>1. \A s : ~Coming(s)
    BY DEF Quiet, Coming
  <2> QED
    BY <2>1 DEF ConvergeInv, RowAgrees, Converged
<1> QED
  BY <1>1, <1>2, <1>3, BillingInvariant, PTL DEF Spec


=============================================================================

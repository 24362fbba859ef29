--------------------------- MODULE UsagePipeline ---------------------------
(***************************************************************************)
(* From a finished LLM request to its accounting: the proxy's XADD to the  *)
(* stream tokengate:usage:events (events/queue.go), the consumer group     *)
(* read by UsageWorker (events/worker.go), PricingEngine.Process           *)
(* (pricing/engine.go: price, check the blocking budgets, write the ledger *)
(* row, increment the Redis budget counters) and the usage_logs row.       *)
(* handleReportUsage (api/usage.go) runs the same Process for usage an     *)
(* agent reports itself, concurrently with the workers.                    *)
(*                                                                         *)
(* One tenant and one API key; an event is its idempotency key             *)
(* (message_id / request_id).  Costs are whole units.  At most MaxFaults   *)
(* faults happen, of the kinds in FaultKind.                               *)
(***************************************************************************)
EXTENDS Sequences, Sums

CONSTANTS
  Event,          \* idempotency keys
  BilledEvent,    \* events of API_USAGE keys (determineBillable)
  UnpricedEvent,  \* events whose model is not in the catalog (ErrModelNotFound)
  Cost,           \* [Event -> Nat]: FinalCost, markups applied
  Worker,         \* UsageWorker loops: one per running api-server
  Reporter,       \* handleReportUsage requests
  Counter,        \* the Redis counters of one event: budget:<tenant>, budget:key:<key>
  AccountCounter, \* the counters that fall back to the ledger when missing
  Limit,          \* [Counter -> Nat or NoLimit]: LimitAmount of its "block" limit
  NoLimit,
  ReadCount,      \* XREADGROUP COUNT
  MaxCopies,      \* [Event -> Nat], bound: stream entries of an event (go-redis
                  \* retries a timed-out XADD)
  FaultKind,      \* which of AnyFault may happen
  MaxFaults,      \* bound: how many of them
  None            \* no event in hand

AnyFault == {"resolve", "check", "insert", "incr", "ack", "crash", "evict"}

ASSUME ConstantsAssumption ==
  /\ BilledEvent \subseteq Event /\ UnpricedEvent \subseteq Event
  /\ IsFiniteSet(BilledEvent)
  /\ Cost \in [Event -> Nat]
  /\ Worker \cap Reporter = {}
  /\ AccountCounter \subseteq Counter
  /\ NoLimit \notin Nat
  /\ Limit \in [Counter -> Nat \cup {NoLimit}]
  /\ IsFiniteSet(Worker) /\ Worker # {}
  /\ ReadCount \in Nat \ {0} /\ MaxCopies \in [Event -> Nat]
  /\ FaultKind \subseteq AnyFault /\ MaxFaults \in Nat
  /\ None \notin Event

Proc == Worker \cup Reporter
Idle == "idle"
Steps == {Idle, "price", "ledger", "count", "log", "ack"}

VARIABLES
  stream,     \* sequence of events: the entries of tokengate:usage:events
  group,      \* the consumer group exists
  delivered,  \* its last-delivered-id, as an index into stream
  skipped,    \* entries older than the group ("$"): it never delivers them
  pel,        \* its pending entries list
  next, last, \* [Worker -> Nat]: entries next[w]..last[w] are read and not yet begun
  entry,      \* [Worker -> Nat]: the entry in hand (0: none)
  pc,         \* [Proc -> Steps]: where Process/process stands
  cur,        \* [Proc -> Event or None]: the event in hand
  todo,       \* [Proc -> SUBSET Counter]: counters still to increment
  ledger,     \* cost_ledgers rows, [event, billing]
  ledgerSum,  \* SELECT SUM(final_cost) over the billed rows of ledger
  usageLog,   \* request_ids in usage_logs
  present,    \* the counters whose Redis key exists
  spend,      \* [Counter -> Nat]: their values
  faults,     \* how many faults happened
  hit         \* and of which kinds

streamVars == <<stream, group, delivered, skipped, pel>>
procVars == <<next, last, entry, pc, cur, todo>>
dbVars == <<ledger, ledgerSum, usageLog>>
counterVars == <<present, spend>>
faultVars == <<faults, hit>>
vars == <<streamVars, procVars, dbVars, counterVars, faultVars>>

LedgerRow == [event : Event, billing : {"billed", "unbilled"}]

Init ==
  /\ stream = <<>> /\ group = FALSE /\ delivered = 0 /\ skipped = 0 /\ pel = {}
  /\ next = [w \in Worker |-> 1] /\ last = [w \in Worker |-> 0]
  /\ entry = [w \in Worker |-> 0]
  /\ pc = [p \in Proc |-> Idle]
  /\ cur = [p \in Proc |-> None]
  /\ todo = [p \in Proc |-> {}]
  /\ ledger = {} /\ ledgerSum = 0 /\ usageLog = {}
  /\ present = {}
  /\ spend = [c \in Counter |-> 0]
  /\ faults = 0 /\ hit = {}

-----------------------------------------------------------------------------
(* Faults and bookkeeping shared by the actions.                           *)

Fault(f) ==
  /\ f \in FaultKind /\ faults < MaxFaults
  /\ faults' = faults + 1
  /\ hit' = hit \cup {f}

Goto(p, step) == pc' = [pc EXCEPT ![p] = step]

\* Process goes on with the same event.
Advance(p, step) == Goto(p, step) /\ UNCHANGED <<next, last, entry, cur, todo>>

\* process returned an error, or the message was acknowledged: next message.
\* An error leaves the entry in the pending list (worker.go:77).
Finish(p) ==
  /\ Goto(p, Idle)
  /\ entry' = IF p \in Worker THEN [entry EXCEPT ![p] = 0] ELSE entry
  /\ cur' = [cur EXCEPT ![p] = None]
  /\ todo' = [todo EXCEPT ![p] = {}]
  /\ UNCHANGED <<next, last>>

Copies(e) == Cardinality({i \in 1..Len(stream) : stream[i] = e})

\* event.APIUsageBilled: agent-reported usage is never billable.
APIUsageBilled(p) == p \in Worker /\ cur[p] \in BilledEvent

-----------------------------------------------------------------------------
(* The stream.                                                             *)

\* EventQueue.Publish.  go-redis retries an XADD whose reply was lost, so
\* one publication may leave several entries.
Publish(e) ==
  /\ Copies(e) < MaxCopies[e]
  /\ stream' = Append(stream, e)
  /\ UNCHANGED <<group, delivered, skipped, pel, procVars, dbVars, counterVars, faultVars>>

\* Run: XGROUP CREATE ... "$" MKSTREAM; BUSYGROUP is ignored.
XGroupCreate ==
  /\ ~group
  /\ group' = TRUE
  /\ delivered' = Len(stream)
  /\ skipped' = Len(stream)
  /\ UNCHANGED <<stream, pel, procVars, dbVars, counterVars, faultVars>>

BatchSize ==
  IF ReadCount < Len(stream) - delivered THEN ReadCount ELSE Len(stream) - delivered

HasMessage(w) == next[w] <= last[w]

\* Run: XREADGROUP ">" hands out entries no consumer was given before.
XReadGroup(w) ==
  /\ group /\ pc[w] = Idle /\ ~HasMessage(w) /\ delivered < Len(stream)
  /\ next' = [next EXCEPT ![w] = delivered + 1]
  /\ last' = [last EXCEPT ![w] = delivered + BatchSize]
  /\ pel' = pel \cup (delivered + 1)..(delivered + BatchSize)
  /\ delivered' = delivered + BatchSize
  /\ UNCHANGED <<stream, group, skipped, entry, pc, cur, todo, dbVars, counterVars, faultVars>>

\* Run: the next message of the batch goes to process; after the last one the
\* batch is empty (1..0).
BeginMessage(w) ==
  /\ pc[w] = Idle /\ HasMessage(w)
  /\ entry' = [entry EXCEPT ![w] = next[w]]
  /\ cur' = [cur EXCEPT ![w] = stream[next[w]]]
  /\ IF next[w] < last[w]
     THEN next' = [next EXCEPT ![w] = @ + 1] /\ UNCHANGED last
     ELSE next' = [next EXCEPT ![w] = 1] /\ last' = [last EXCEPT ![w] = 0]
  /\ Goto(w, "price")
  /\ UNCHANGED <<todo, streamVars, dbVars, counterVars, faultVars>>

\* handleReportUsage: the agent chooses the request_id.
BeginReport(r, e) ==
  /\ pc[r] = Idle
  /\ cur' = [cur EXCEPT ![r] = e]
  /\ Goto(r, "price")
  /\ UNCHANGED <<next, last, entry, todo, streamVars, dbVars, counterVars, faultVars>>

-----------------------------------------------------------------------------
(* PricingEngine.Process.                                                  *)

\* getSpend: the Redis counter, else the ledger (account scope) or zero.
FallbackSpend(c) == IF c \in AccountCounter THEN ledgerSum ELSE 0
GetSpend(c) == IF c \in present THEN spend[c] ELSE FallbackSpend(c)

\* Mutant: the check leaves the event's own cost out.
BudgetAlreadyExceeded(p) ==
  \E c \in Counter : Limit[c] # NoLimit /\ GetSpend(c) > Limit[c]

\* Mutant: a budget used up to the last unit counts as exceeded.
BudgetReached(p) ==
  \E c \in Counter : Limit[c] # NoLimit /\ GetSpend(c) + Cost[cur[p]] >= Limit[c]

\* checkBudget: some blocking limit would be exceeded by the final cost.  The
\* counters are read in one step here, one after the other in the code.
BudgetExceeded(p) ==
  \E c \in Counter : Limit[c] # NoLimit /\ GetSpend(c) + Cost[cur[p]] > Limit[c]

\* Mutant: an event over budget is tried again on the spot.
CheckBudgetRetried(p) ==
  /\ pc[p] = "price"
  /\ \/ cur[p] \in UnpricedEvent /\ Advance(p, "log")
     \/ cur[p] \notin UnpricedEvent /\ ~BudgetExceeded(p) /\ Advance(p, "ledger")
  /\ UNCHANGED <<streamVars, dbVars, counterVars, faultVars>>

\* Resolve and checkBudget.  An unknown model is a zero-cost result: no
\* budget check, ledger row or counter.
CheckBudget(p) ==
  /\ pc[p] = "price"
  /\ \/ cur[p] \in UnpricedEvent /\ Advance(p, "log")
     \/ cur[p] \notin UnpricedEvent /\ BudgetExceeded(p) /\ Finish(p)
     \/ cur[p] \notin UnpricedEvent /\ ~BudgetExceeded(p) /\ Advance(p, "ledger")
  /\ UNCHANGED <<streamVars, dbVars, counterVars, faultVars>>

\* Resolve failed for another reason than an unknown model.
ResolveFails(p) ==
  /\ pc[p] = "price" /\ Fault("resolve")
  /\ Finish(p)
  /\ UNCHANGED <<streamVars, dbVars, counterVars>>

\* checkBudget ignores an error of the limits query, and getSpend treats an
\* unreadable counter as a missing one: the check may let the event through.
CheckSkipped(p) ==
  /\ pc[p] = "price" /\ cur[p] \notin UnpricedEvent /\ Fault("check")
  /\ Advance(p, "ledger")
  /\ UNCHANGED <<streamVars, dbVars, counterVars>>

Billing(p) == IF APIUsageBilled(p) THEN "billed" ELSE "unbilled"
InLedger(e) == \E row \in ledger : row.event = e

\* Mutant: no unique index on idempotency_key.
WriteLedgerUnindexed(p) ==
  /\ pc[p] = "ledger"
  /\ ledger' = ledger \cup {[event |-> cur[p], billing |-> Billing(p)]}
  /\ ledgerSum' = ledgerSum + (IF APIUsageBilled(p) THEN Cost[cur[p]] ELSE 0)
  /\ \/ APIUsageBilled(p) /\ Goto(p, "count") /\ todo' = [todo EXCEPT ![p] = Counter]
     \/ ~APIUsageBilled(p) /\ Goto(p, "log") /\ UNCHANGED todo
  /\ UNCHANGED <<usageLog, next, last, entry, cur, streamVars, counterVars, faultVars>>

\* writeLedger: a row unless the idempotency key is taken, which is not an
\* error; then incrementBudget, which skips non-billable usage.
WriteLedger(p) ==
  /\ pc[p] = "ledger"
  /\ IF InLedger(cur[p])
     THEN UNCHANGED <<ledger, ledgerSum>>
     ELSE /\ ledger' = ledger \cup {[event |-> cur[p], billing |-> Billing(p)]}
          /\ ledgerSum' = ledgerSum + (IF APIUsageBilled(p) THEN Cost[cur[p]] ELSE 0)
  /\ \/ APIUsageBilled(p) /\ Goto(p, "count") /\ todo' = [todo EXCEPT ![p] = Counter]
     \/ ~APIUsageBilled(p) /\ Goto(p, "log") /\ UNCHANGED todo
  /\ UNCHANGED <<usageLog, next, last, entry, cur, streamVars, counterVars, faultVars>>

\* incrementBudget: one INCRBYFLOAT after the other, no transaction.
IncrementBudget(p, c) ==
  /\ pc[p] = "count" /\ c \in todo[p]
  /\ spend' = [spend EXCEPT ![c] = @ + Cost[cur[p]]]
  /\ present' = present \cup {c}
  /\ todo' = [todo EXCEPT ![p] = @ \ {c}]
  /\ UNCHANGED <<next, last, entry, pc, cur, streamVars, dbVars, faultVars>>

\* ... whose errors are ignored.
IncrementFails(p, c) ==
  /\ pc[p] = "count" /\ c \in todo[p] /\ Fault("incr")
  /\ todo' = [todo EXCEPT ![p] = @ \ {c}]
  /\ UNCHANGED <<next, last, entry, pc, cur, streamVars, dbVars, counterVars>>

\* Mutant: Process returns at the first counter that was incremented.
ProcessReturnsEarly(p) ==
  /\ pc[p] = "count"
  /\ Advance(p, "log")
  /\ UNCHANGED <<streamVars, dbVars, counterVars, faultVars>>

ProcessReturns(p) ==
  /\ pc[p] = "count" /\ todo[p] = {}
  /\ Advance(p, "log")
  /\ UNCHANGED <<streamVars, dbVars, counterVars, faultVars>>

-----------------------------------------------------------------------------
(* The usage log and the acknowledgement.                                  *)

\* UsageLogService.Create; a duplicate request_id is success.
CreateUsageLog(p) ==
  /\ pc[p] = "log"
  /\ usageLog' = usageLog \cup {cur[p]}
  /\ \/ p \in Worker /\ Advance(p, "ack")
     \/ p \in Reporter /\ Finish(p)
  /\ UNCHANGED <<ledger, ledgerSum, streamVars, counterVars, faultVars>>

\* An insert fails, into the ledger or into the log.
InsertFails(p) ==
  /\ pc[p] \in {"ledger", "log"} /\ Fault("insert")
  /\ Finish(p)
  /\ UNCHANGED <<streamVars, dbVars, counterVars>>

XAck(w) ==
  /\ pc[w] = "ack"
  /\ pel' = pel \ {entry[w]}
  /\ Finish(w)
  /\ UNCHANGED <<stream, group, delivered, skipped, dbVars, counterVars, faultVars>>

\* A failed XACK is logged; the entry stays pending.
XAckFails(w) ==
  /\ pc[w] = "ack" /\ Fault("ack")
  /\ Finish(w)
  /\ UNCHANGED <<streamVars, dbVars, counterVars>>

\* main.go gives the worker context.Background(): it is killed wherever it
\* stands.  The restarted Run finds the group and reads ">" again.
Crash(w) ==
  /\ pc[w] # Idle \/ HasMessage(w)
  /\ Fault("crash")
  /\ pc' = [pc EXCEPT ![w] = Idle]
  /\ entry' = [entry EXCEPT ![w] = 0]
  /\ todo' = [todo EXCEPT ![w] = {}]
  /\ cur' = [cur EXCEPT ![w] = None]
  /\ next' = [next EXCEPT ![w] = 1] /\ last' = [last EXCEPT ![w] = 0]
  /\ UNCHANGED <<streamVars, dbVars, counterVars>>

\* Redis loses a counter (eviction, restart without persistence).
Evict(c) ==
  /\ c \in present /\ Fault("evict")
  /\ present' = present \ {c}
  /\ spend' = [spend EXCEPT ![c] = 0]
  /\ UNCHANGED <<streamVars, procVars, dbVars>>

-----------------------------------------------------------------------------
ProcessStep(p) ==
  \/ CheckBudget(p) \/ ResolveFails(p) \/ CheckSkipped(p)
  \/ WriteLedger(p) \/ InsertFails(p)
  \/ \E c \in Counter : IncrementBudget(p, c) \/ IncrementFails(p, c)
  \/ ProcessReturns(p) \/ CreateUsageLog(p)

WorkerStep(w) ==
  XReadGroup(w) \/ BeginMessage(w) \/ ProcessStep(w) \/ XAck(w) \/ XAckFails(w)

Next ==
  \/ \E e \in Event : Publish(e)
  \/ XGroupCreate
  \/ \E w \in Worker : WorkerStep(w) \/ Crash(w)
  \/ \E r \in Reporter : ProcessStep(r) \/ \E e \in Event : BeginReport(r, e)
  \/ \E c \in Counter : Evict(c)

Spec == Init /\ [][Next]_vars

\* The worker loop and a request handler keep running once started; nothing
\* obliges clients to publish or report, or faults to happen.
FairSpec ==
  /\ Spec
  /\ WF_vars(XGroupCreate)
  /\ \A w \in Worker : WF_vars(WorkerStep(w))
  /\ \A r \in Reporter : WF_vars(ProcessStep(r))

-----------------------------------------------------------------------------
(* Properties.                                                             *)

\* The group never runs ahead of the stream, no batch ahead of the group, and
\* process never works without the event it was called with.
TypeOK ==
  /\ stream \in Seq(Event)
  /\ group \in BOOLEAN
  /\ delivered \in Nat /\ delivered <= Len(stream)
  /\ skipped \in Nat /\ skipped <= delivered
  /\ pel \subseteq Nat
  /\ next \in [Worker -> Nat \ {0}] /\ last \in [Worker -> Nat]
  /\ \A w \in Worker : last[w] <= delivered
  /\ entry \in [Worker -> Nat]
  /\ pc \in [Proc -> Steps]
  /\ cur \in [Proc -> Event \cup {None}]
  /\ \A p \in Proc : pc[p] # Idle => cur[p] \in Event
  /\ todo \in [Proc -> SUBSET Counter]
  /\ ledger \subseteq LedgerRow
  /\ ledgerSum \in Nat
  /\ usageLog \subseteq Event
  /\ present \subseteq Counter
  /\ spend \in [Counter -> Nat]
  /\ faults \in Nat /\ hit \subseteq FaultKind

\* What a settled event leaves behind: a usage_logs row and, when its model
\* has a price, a ledger row.
Recorded(e) == e \in usageLog /\ (e \in UnpricedEvent \/ InLedger(e))

\* "Messages are ACK'd only on successful processing" (README.md:295): an
\* entry that left the pending list has its usage_logs row and its ledger
\* row, whatever crashed, failed or ran concurrently.
AckedIsRecorded ==
  \A i \in (skipped + 1)..delivered : i \notin pel => Recorded(stream[i])

\* The unique index on idempotency_key makes the ledger a function of the
\* event: no event is charged twice, however often it is delivered or
\* reported, and a logged event whose model has a price was charged.
ChargedOnce ==
  /\ \A r1, r2 \in ledger : r1.event = r2.event => r1 = r2
  /\ \A e \in usageLog : Recorded(e)

\* What each step of process has established: the invariant behind
\* AckedIsRecorded and ChargedOnce.
HandOK(p) ==
  /\ p \in Worker /\ pc[p] # Idle => entry[p] \in 1..delivered /\ stream[entry[p]] = cur[p]
  /\ pc[p] = "count" => InLedger(cur[p])
  /\ pc[p] = "log" => cur[p] \in UnpricedEvent \/ InLedger(cur[p])
  /\ pc[p] = "ack" => p \in Worker /\ Recorded(cur[p])

HandInv == \A p \in Proc : HandOK(p)

\* Check and increment are separate steps of every pod's worker, so concurrent
\* workers may pass the same check; but however they interleave, repeat, crash
\* or lose counters, a counter exceeds its blocking limit by at most one event
\* per other worker (by nothing when there is one), as long as the check could
\* read limits and counters.
CounterWithinLimit ==
  "check" \notin hit =>
    \A c \in Counter, e \in BilledEvent :
      Limit[c] # NoLimit /\ (\A f \in BilledEvent : Cost[f] <= Cost[e])
        => spend[c] <= Limit[c] + (Cardinality(Worker) - 1) * Cost[e]

\* Billed spend not yet added to counter c by the workers.
Owing(c) == {w \in Worker : pc[w] = "count" /\ c \in todo[w]}
InFlight(c) == Sum([w \in Owing(c) |-> Cost[cur[w]]], Owing(c))

BilledRows == {row \in ledger : row.billing = "billed"}
LedgerTotal == Sum([row \in BilledRows |-> Cost[row.event]], BilledRows)

\* The cost of the billed entries of the stream.
StreamTotal == Sum([e \in BilledEvent |-> Copies(e) * Cost[e]], BilledEvent)

\* "ledger is authoritative" (engine.go:511): until an increment fails, a
\* worker dies or Redis loses a key, no counter lags the billed rows of the
\* ledger by more than the increments still under way, so the budget check
\* never sees less than what was charged.  A duplicate that the ledger skips is
\* counted once more, but never more often than the stream holds the event.
CounterCoversLedger ==
  /\ ledgerSum = LedgerTotal
  /\ hit \cap {"incr", "crash", "evict"} = {} =>
       \A c \in Counter : spend[c] + InFlight(c) >= LedgerTotal
  /\ \A c \in Counter : spend[c] <= StreamTotal

InHand(i) == \E w \in Worker : entry[w] = i \/ i \in next[w]..last[w]
Arrived(i) == group /\ i > skipped /\ i <= Len(stream)
Acked(i) == i <= delivered /\ i \notin pel
Abandoned(i) == i \in pel /\ ~InHand(i)
Entries == 1..Sum(MaxCopies, Event)

\* The consumer loop never wedges: every entry added once the group exists is
\* handed to a worker and let go of again, acknowledged or not, whatever fails
\* on the way.  Publications are bounded, so again and again none is left.
EventuallyHandled ==
  []<>(group /\ \A i \in 1..Len(stream) : Arrived(i) => i <= delivered /\ ~InHand(i))

\* Over some blocking limit with what the counters say now.
OverBudget(e) == \E c \in Counter : Limit[c] # NoLimit /\ GetSpend(c) + Cost[e] > Limit[c]

\* Nothing reads the pending list again (XREADGROUP ">"), so an entry left in
\* it is lost.  Only a failure loses entries, and the budget: while no fault
\* has happened, an entry that was let go of without an acknowledgement has a
\* price, and is still over budget once no increment is under way.
LeftOnlyOverBudget ==
  faults = 0 /\ (\A w \in Worker : pc[w] # "count") =>
    \A i \in pel : ~InHand(i) => stream[i] \notin UnpricedEvent /\ OverBudget(stream[i])

\* The events of which an entry left the pending list.
AckedEvents == {stream[i] : i \in {j \in (skipped + 1)..delivered : j \notin pel}}

Ledger == INSTANCE UsageLedger WITH
            charged <- ledger, total <- ledgerSum, logged <- usageLog, acknowledged <- AckedEvents

\* Stream, consumer group, workers, reporters, retries, crashes and failures
\* together implement the atomic ledger: at most one charge per event, charged
\* before logged, logged before acknowledged, and no row ever taken back.
ImplementsLedger == Ledger!Spec

-----------------------------------------------------------------------------
(* What the documents and comments say and the code does not keep.                        *)

\* A single LLM request "always results in exactly one usage_logs row"
\* (README.md:221): once the group exists, a published event is logged.
EventuallyLogged ==
  \A i \in Entries : Arrived(i) ~> (i <= Len(stream) /\ stream[i] \in usageLog)

\* "Failed messages are redelivered automatically" (README.md:295), worker.go:77
\* "let it be redelivered": an entry left pending by a failure is taken up again.
FailedIsRedelivered ==
  \A i \in Entries : Abandoned(i) ~> (InHand(i) \/ Acked(i))

\* "duplicate delivery from Redis is detected and silently skipped, not
\* double-counted" (README.md:249): the budget counters never exceed the
\* cost of the distinct billed events published.
NotDoubleCounted ==
  \A c \in Counter : spend[c] <=
    Sum(Cost, {e \in BilledEvent : Copies(e) > 0})

=============================================================================

--------------------------- MODULE Notifications ----------------------------
(***************************************************************************)
(* Alerts of one tenant: the budget and rate limit code publishes them to  *)
(* the stream tokengate:notification:events (events/notification_queue.go),*)
(* the NotificationWorker of every api-server reads them in one consumer   *)
(* group (events/notification_worker.go), drops what repeats within        *)
(* debounceTTL, and dispatches the rest to the tenant's channels, which    *)
(* administrators keep through api/notifications.go.                       *)
(*                                                                         *)
(* A kind of alert is what the debounce key is made of: event type, key,   *)
(* provider and model.  A channel is enabled or not and names the event    *)
(* types it wants; its type, name and configuration are left out, and so   *)
(* is the XACK: nothing reads the pending entries list.                    *)
(***************************************************************************)
EXTENDS Integers, Sequences, FiniteSets

CONSTANTS
    Pod,          \* api-servers, each with one worker
    Handler,      \* administrative requests that may run at a time
    Event,        \* budget_blocked, budget_warning, rate_limit_exceeded
    Kind,         \* event type, key, provider and model together
    EventOf,      \* [Kind -> Event]
    Channel,      \* identities of channels
    NoChannel,    \* no channel
    Existing,     \* the channels the tenant starts with
    MaxChannels,  \* MaxNotificationChannels of the tenant's plan
    TTL,          \* debounceTTL, in ticks
    ReadCount,    \* XREADGROUP COUNT
    MaxTime,      \* bound: ticks
    MaxAlerts,    \* bound: entries of the stream
    MaxRequests,  \* bound: administrative requests
    FaultKind,    \* which of AnyFault may happen
    MaxFaults     \* bound: how many of them

AnyFault == {"group", "dedup", "retried", "load", "send", "crash", "statement"}

ASSUME NotificationsAssumption ==
    /\ EventOf \in [Kind -> Event]
    /\ Existing \subseteq Channel /\ NoChannel \notin Channel
    /\ MaxChannels \in Nat /\ TTL \in Nat \ {0} /\ ReadCount \in Nat \ {0}
    /\ MaxTime \in Nat /\ MaxAlerts \in Nat /\ MaxRequests \in Nat
    /\ FaultKind \subseteq AnyFault /\ MaxFaults \in Nat

VARIABLES
    stream,     \* the entries, [kind, at]: what was published, and when
    group,      \* the consumer group exists
    delivered,  \* its last-delivered-id, an index into stream
    mark,       \* mark[k]: until when notif:dedup:... of a kind exists
    rows,       \* rows[c]: the notification_channels row
    worker,     \* worker[p]: where a worker is
    call,       \* call[h]: where a request is and what it has read
    now,        \* the clock
    requests,   \* administrative requests begun
    faults,     \* failures so far
    guarded,    \* history: guarded[i] is when entry i passed the debounce, or Never
    sent,       \* history: sent[i] is the set of channels entry i was sent to
    changed     \* history: changed[c] is when the row of c was last written

streamVars == <<stream, group, delivered>>
adminVars == <<rows, call, requests, changed>>
sentVars == <<guarded, sent>>
vars == <<streamVars, mark, worker, sentVars, adminVars, now, faults>>

Alert == 1..MaxAlerts
Never == -TTL
Row == [state : {"new", "kept", "deleted"}, enabled : BOOLEAN, events : SUBSET Event]
NewRow == [state |-> "new", enabled |-> FALSE, events |-> {}]

\* A worker: before XGROUP CREATE, in XREADGROUP, or at a message of its batch.
Worker == [pc : {"start", "read", "dedup", "load", "send"},
           batch : Seq(Alert), todo : SUBSET Channel]
Starting == [pc |-> "start", batch |-> <<>>, todo |-> {}]

Call == [pc : {"idle", "count", "insert", "fetch", "write"},
         op : {"none", "create", "update", "delete"},
         chan : Channel \cup {NoChannel}, copy : Row]
Idle == [pc |-> "idle", op |-> "none", chan |-> NoChannel, copy |-> NewRow]

Init ==
    /\ stream = <<>> /\ group = FALSE /\ delivered = 0
    /\ mark = [k \in Kind |-> 0]
    /\ rows = [c \in Channel |-> IF c \in Existing
                                 THEN [state |-> "kept", enabled |-> TRUE, events |-> Event]
                                 ELSE NewRow]
    /\ worker = [p \in Pod |-> Starting]
    /\ call = [h \in Handler |-> Idle]
    /\ now = 0 /\ requests = 0 /\ faults = 0
    /\ guarded = [i \in Alert |-> Never]
    /\ sent = [i \in Alert |-> {}]
    /\ changed = [c \in Channel |-> Never]

Fault(f) == f \in FaultKind /\ faults < MaxFaults /\ faults' = faults + 1

-----------------------------------------------------------------------------
(* NotificationQueue.Publish, by the pricing engine and the rate limiter.  *)

\* Errors of the XADD are not looked at by its callers.
Publish(k) ==
    /\ Len(stream) < MaxAlerts
    /\ stream' = Append(stream, [kind |-> k, at |-> now])
    /\ UNCHANGED <<group, delivered, mark, worker, sentVars, adminVars, now, faults>>

-----------------------------------------------------------------------------
(* NotificationWorker.Run and processMessage.                              *)

At(p, pc) == worker[p].pc = pc
Step(p, pc) == worker' = [worker EXCEPT ![p].pc = pc]
Current(p) == Head(worker[p].batch)
KindOf(p) == stream[Current(p)].kind

\* The loop over a batch: the next message, or back to XREADGROUP.
NextMessage(p) ==
    worker' = [worker EXCEPT ![p] =
        [pc |-> IF Len(@.batch) > 1 THEN "dedup" ELSE "read",
         batch |-> Tail(@.batch), todo |-> {}]]

\* XGROUP CREATE ... "$" MKSTREAM, once per start; BUSYGROUP is ignored.
CreateGroup(p) ==
    /\ At(p, "start")
    /\ Step(p, "read")
    /\ group' = TRUE
    /\ delivered' = IF group THEN delivered ELSE Len(stream)
    /\ UNCHANGED <<stream, mark, sentVars, adminVars, now, faults>>

\* Any other error is logged; the loop starts all the same.
CreateGroupFails(p) ==
    /\ At(p, "start") /\ Fault("group")
    /\ Step(p, "read")
    /\ UNCHANGED <<streamVars, mark, sentVars, adminVars, now>>

\* XREADGROUP ... ">": new entries only, whoever of the group asks first.
ReadGroup(p) ==
    /\ At(p, "read") /\ group /\ delivered < Len(stream)
    /\ LET last == IF delivered + ReadCount < Len(stream) THEN delivered + ReadCount ELSE Len(stream)
       IN  /\ delivered' = last
           /\ worker' = [worker EXCEPT ![p].pc = "dedup",
                                       ![p].batch = [j \in 1..(last - delivered) |-> delivered + j]]
    /\ UNCHANGED <<stream, group, mark, sentVars, adminVars, now, faults>>

Marked(k) == now < mark[k]

\* Mutant: SET instead of SETNX, which always succeeds.
SetNXAlways(p) ==
    /\ At(p, "dedup")
    /\ mark' = [mark EXCEPT ![KindOf(p)] = now + TTL]
    /\ guarded' = [guarded EXCEPT ![Current(p)] = now]
    /\ Step(p, "load")
    /\ UNCHANGED <<streamVars, sent, adminVars, now, faults>>

\* SETNX sets the mark: this message is dispatched.
SetNX(p) ==
    /\ At(p, "dedup") /\ ~Marked(KindOf(p))
    /\ mark' = [mark EXCEPT ![KindOf(p)] = now + TTL]
    /\ guarded' = [guarded EXCEPT ![Current(p)] = now]
    /\ Step(p, "load")
    /\ UNCHANGED <<streamVars, sent, adminVars, now, faults>>

\* The mark is there: the message is dropped.
Debounce(p) ==
    /\ At(p, "dedup") /\ Marked(KindOf(p))
    /\ NextMessage(p)
    /\ UNCHANGED <<streamVars, mark, sentVars, adminVars, now, faults>>

\* SETNX fails: "Continue anyway".
SetNXFails(p) ==
    /\ At(p, "dedup") /\ Fault("dedup")
    /\ Step(p, "load")
    /\ UNCHANGED <<streamVars, mark, sentVars, adminVars, now>>

\* SETNX is applied and its answer lost; go-redis repeats it and finds the mark.
SetNXRetried(p) ==
    /\ At(p, "dedup") /\ ~Marked(KindOf(p)) /\ Fault("retried")
    /\ mark' = [mark EXCEPT ![KindOf(p)] = now + TTL]
    /\ NextMessage(p)
    /\ UNCHANGED <<streamVars, sentVars, adminVars, now>>

\* "tenant_id = ? AND enabled = ? AND ? = ANY(event_types)".
Wants(c, k) == rows[c].state = "kept" /\ rows[c].enabled /\ EventOf[k] \in rows[c].events

\* Mutant: First instead of Find, one channel instead of all of them.
LoadChannelsFirst(p) ==
    /\ At(p, "load")
    /\ \E todo \in SUBSET {c \in Channel : Wants(c, KindOf(p))} :
          /\ Cardinality(todo) <= 1
          /\ worker' = [worker EXCEPT ![p].pc = "send", ![p].todo = todo]
    /\ UNCHANGED <<streamVars, mark, sentVars, adminVars, now, faults>>

LoadChannels(p) ==
    /\ At(p, "load")
    /\ worker' = [worker EXCEPT ![p].pc = "send",
                                ![p].todo = {c \in Channel : Wants(c, KindOf(p))}]
    /\ UNCHANGED <<streamVars, mark, sentVars, adminVars, now, faults>>

\* The message stays in the pending list, which nobody reads; its mark stays.
LoadFails(p) ==
    /\ At(p, "load") /\ Fault("load")
    /\ NextMessage(p)
    /\ UNCHANGED <<streamVars, mark, sentVars, adminVars, now>>

\* sendEmail, sendSlack or sendWebhook to one channel after the other.
Dispatch(p) ==
    /\ At(p, "send")
    /\ \E c \in worker[p].todo :
          /\ worker' = [worker EXCEPT ![p].todo = @ \ {c}]
          /\ sent' = [sent EXCEPT ![Current(p)] = @ \cup {c}]
    /\ UNCHANGED <<streamVars, mark, guarded, adminVars, now, faults>>

\* An error is logged and the other channels are served.
DispatchFails(p) ==
    /\ At(p, "send") /\ Fault("send")
    /\ \E c \in worker[p].todo : worker' = [worker EXCEPT ![p].todo = @ \ {c}]
    /\ UNCHANGED <<streamVars, mark, sentVars, adminVars, now>>

Dispatched(p) ==
    /\ At(p, "send") /\ worker[p].todo = {}
    /\ NextMessage(p)
    /\ UNCHANGED <<streamVars, mark, sentVars, adminVars, now, faults>>

\* The api-server dies and starts again; its batch is not delivered again.
Crash(p) ==
    /\ ~At(p, "start") /\ Fault("crash")
    /\ worker' = [worker EXCEPT ![p] = Starting]
    /\ UNCHANGED <<streamVars, mark, sentVars, adminVars, now>>

-----------------------------------------------------------------------------
(* api/notifications.go: one step is one statement.                        *)

workerVars == <<streamVars, mark, worker, sentVars, now>>
Kept == {c \in Channel : rows[c].state = "kept"}
CallAt(h, pc) == call[h].pc = pc
Done(h) == call' = [call EXCEPT ![h] = Idle]
Write(c, row) == /\ rows' = [rows EXCEPT ![c] = row]
                 /\ changed' = [changed EXCEPT ![c] = now]

Request(h) ==
    /\ call[h] = Idle /\ requests < MaxRequests
    /\ requests' = requests + 1
    /\ \/ call' = [call EXCEPT ![h] = [Idle EXCEPT !.pc = "count", !.op = "create"]]
       \/ \E c \in Kept, op \in {"update", "delete"} :
             call' = [call EXCEPT ![h] = [Idle EXCEPT !.pc = "fetch", !.op = op, !.chan = c]]
    /\ UNCHANGED <<workerVars, rows, changed, faults>>

CountChannels(h) ==
    /\ CallAt(h, "count")
    /\ IF Cardinality(Kept) < MaxChannels
       THEN call' = [call EXCEPT ![h].pc = "insert"]
       ELSE Done(h)
    /\ UNCHANGED <<workerVars, rows, changed, requests, faults>>

\* gorm replaces enabled = false by the column's default, true.
InsertedRow(events) == [state |-> "kept", enabled |-> TRUE, events |-> events]

InsertChannel(h) ==
    /\ CallAt(h, "insert")
    /\ \E c \in Channel, events \in SUBSET Event :
          rows[c].state = "new" /\ Write(c, InsertedRow(events))
    /\ Done(h)
    /\ UNCHANGED <<workerVars, requests, faults>>

\* First(&channel, id): a copy of the row, or 404.
FetchChannel(h) ==
    /\ CallAt(h, "fetch")
    /\ IF rows[call[h].chan].state = "kept"
       THEN call' = [call EXCEPT ![h].pc = "write", ![h].copy = rows[call[h].chan]]
       ELSE Done(h)
    /\ UNCHANGED <<workerVars, rows, changed, requests, faults>>

\* Save writes the whole copy; if the row is gone meanwhile it inserts it
\* again, enabled by default.
SaveChannel(h) ==
    /\ CallAt(h, "write") /\ call[h].op = "update"
    /\ \E enabled \in BOOLEAN, events \in {call[h].copy.events} \cup SUBSET Event :
          Write(call[h].chan,
                IF rows[call[h].chan].state = "kept"
                THEN [call[h].copy EXCEPT !.enabled = enabled, !.events = events]
                ELSE InsertedRow(events))
    /\ Done(h)
    /\ UNCHANGED <<workerVars, requests, faults>>

DeleteChannel(h) ==
    /\ CallAt(h, "write") /\ call[h].op = "delete"
    /\ Write(call[h].chan, [NewRow EXCEPT !.state = "deleted"])
    /\ Done(h)
    /\ UNCHANGED <<workerVars, requests, faults>>

\* A statement fails and the request with it; a failed count counts 0.
StatementFails(h) ==
    /\ call[h] # Idle /\ Fault("statement")
    /\ \/ Done(h)
       \/ /\ CallAt(h, "count") /\ 0 < MaxChannels
          /\ call' = [call EXCEPT ![h].pc = "insert"]
    /\ UNCHANGED <<workerVars, rows, changed, requests>>

-----------------------------------------------------------------------------
Tick ==
    /\ now < MaxTime
    /\ now' = now + 1
    /\ UNCHANGED <<streamVars, mark, worker, sentVars, adminVars, faults>>

Work(p) == \/ CreateGroup(p) \/ ReadGroup(p) \/ SetNX(p) \/ Debounce(p)
           \/ LoadChannels(p) \/ Dispatch(p) \/ Dispatched(p)

WorkFails(p) == \/ CreateGroupFails(p) \/ SetNXFails(p) \/ SetNXRetried(p)
                \/ LoadFails(p) \/ DispatchFails(p) \/ Crash(p)

Administer(h) == \/ Request(h) \/ CountChannels(h) \/ InsertChannel(h) \/ FetchChannel(h)
                 \/ SaveChannel(h) \/ DeleteChannel(h) \/ StatementFails(h)

Next == \/ \E k \in Kind : Publish(k)
        \/ \E p \in Pod : Work(p) \/ WorkFails(p)
        \/ \E h \in Handler : Administer(h)
        \/ Tick

Spec == Init /\ [][Next]_vars

\* A running worker takes its next step; nobody has to publish, administer or
\* wait, and a dispatch returns.
FairSpec == Spec /\ \A p \in Pod : WF_vars(Work(p))

-----------------------------------------------------------------------------
(* Properties. *)

\* The shape of the state; a worker at a message has one, and a request for a
\* channel names it.
TypeOK ==
    /\ stream \in Seq([kind : Kind, at : 0..MaxTime])
    /\ group \in BOOLEAN /\ delivered \in 0..Len(stream) /\ Len(stream) <= MaxAlerts
    /\ mark \in [Kind -> Nat]
    /\ rows \in [Channel -> Row] /\ call \in [Handler -> Call]
    /\ \A h \in Handler : call[h].pc \in {"fetch", "write"} => call[h].chan \in Channel
    /\ worker \in [Pod -> Worker]
    /\ \A p \in Pod : worker[p].pc \in {"dedup", "load", "send"} => worker[p].batch # <<>>
    /\ now \in 0..MaxTime /\ requests \in 0..MaxRequests /\ faults \in 0..MaxFaults
    /\ guarded \in [Alert -> {Never} \cup 0..MaxTime]
    /\ sent \in [Alert -> SUBSET Channel]
    /\ changed \in [Channel -> {Never} \cup 0..MaxTime]

Passed(i) == i \in DOMAIN stream /\ guarded[i] # Never

\* "Debounce: skip if already sent recently for this tenant+event+key+provider
\* +model" (processMessage): whichever workers take them and whatever fails, two
\* messages of a kind that pass the debounce do so at least debounceTTL apart.
Debounced ==
    \A i, j \in Alert :
        Passed(i) /\ Passed(j) /\ i # j /\ stream[i].kind = stream[j].kind
        => guarded[i] + TTL <= guarded[j] \/ guarded[j] + TTL <= guarded[i]

\* Entry i is for the group to deliver and channel c wants it.
Awaited(i, c) == i \in DOMAIN stream /\ group /\ delivered < i /\ Wants(c, stream[i].kind)

\* The row of c has not been written from d before the publication of i on.
Steady(i, c, d) == i \in DOMAIN stream /\ changed[c] + d <= stream[i].at

\* c was told of entry i or of one of its kind less than TTL older.
Told(i, c) ==
    /\ i \in DOMAIN stream
    /\ \E j \in DOMAIN stream : /\ stream[j].kind = stream[i].kind /\ c \in sent[j]
                                /\ stream[i].at < guarded[j] + TTL

\* Without failures, a channel that has wanted a kind of alert for debounceTTL
\* hears of every alert of the kind that the group can deliver: by itself, or by
\* one that passed less than debounceTTL before it.
EventuallyAlerted ==
    \A i \in Alert, c \in Channel :
        (Awaited(i, c) /\ Steady(i, c, TTL)) ~> (Told(i, c) \/ ~Steady(i, c, TTL) \/ faults > 0)

-----------------------------------------------------------------------------
(* What the documents and comments say and the code does not keep. *)

\* "better to send a duplicate than miss an alert" (notification_worker.go:108):
\* every channel that wants an alert when it is published hears of it, also one
\* that was added after the last alert of the kind.
NoAlertMissed ==
    \A i \in Alert, c \in Channel :
        (Awaited(i, c) /\ Steady(i, c, 1)) ~> (Told(i, c) \/ ~Steady(i, c, 1) \/ faults > 0)
=============================================================================

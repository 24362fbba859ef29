-------------------------- MODULE BackgroundProofs --------------------------
(***************************************************************************)
(* The workers behind Redis streams, for every number of api-servers,      *)
(* requests and failures.                                                  *)
(*                                                                         *)
(* Notifications: types, and that the debounce keeps the messages of a     *)
(* kind debounceTTL apart (IInv: a mark in Redis covers every message of   *)
(* its kind that passed).                                                  *)
(*                                                                         *)
(* AuditReports: a completed report has its file, and is not reopened.     *)
(* FileInv says what a worker has achieved when it is about to save the    *)
(* name and to complete the row; JobsInv that the job of a report is in    *)
(* one place at most, with the handler that inserted it, on the stream or  *)
(* with one worker, and nowhere once the report is completed.              *)
(***************************************************************************)
EXTENDS Notifications, AuditReports, SequenceTheorems, TLAPS

\* What is in a worker's hands was delivered by the group.
BatchDelivered ==
    \A p \in Pod : \A n \in 1..Len(worker[p].batch) : worker[p].batch[n] <= delivered

\* Nothing passes the debounce before it is published.
PassedPublished == \A i \in Alert : Len(stream) < i => guarded[i] = Never

\* The mark of a kind outlives every message of the kind that passed by TTL.
MarkCovers == \A i \in Alert : Passed(i) => guarded[i] + TTL <= mark[stream[i].kind]

IInv == TypeOK /\ BatchDelivered /\ PassedPublished /\ MarkCovers /\ Debounced

-----------------------------------------------------------------------------
\* A sequence of more than one element has a second one.
LEMMA TailNonempty ==
    ASSUME NEW S, NEW b \in Seq(S), Len(b) > 1
    PROVE  Tail(b) # <<>>
<1> DEFINE m == Len(b)
           t == Len(Tail(b))
<1>1. b # <<>>
  BY EmptySeq
<1>2. t = m - 1 /\ m \in Nat /\ m > 1
  BY <1>1, HeadTailProperties, LenProperties
<1>3. t # 0
  <2> HIDE DEF m, t
  <2> QED
    BY <1>2
<1> QED
  BY <1>3, EmptySeq

\* Where a worker goes on after a message: the rest of its batch.
LEMMA NextMessageType ==
    ASSUME TypeOK, NEW p \in Pod, worker[p].batch # <<>>, NextMessage(p)
    PROVE  /\ worker' \in [Pod -> Worker]
           /\ \A q \in Pod : worker'[q].pc \in {"dedup", "load", "send"} => worker'[q].batch # <<>>
           /\ worker'[p].batch = Tail(worker[p].batch)
           /\ \A q \in Pod : q # p => worker'[q] = worker[q]
<1> DEFINE b == worker[p].batch
           w == [pc |-> IF Len(b) > 1 THEN "dedup" ELSE "read", batch |-> Tail(b), todo |-> {}]
<1>1. b \in Seq(Alert) /\ b # <<>> /\ worker \in [Pod -> Worker]
  BY DEF TypeOK, Worker
<1>2. Tail(b) \in Seq(Alert)
  BY <1>1
<1>3. w \in Worker
  BY <1>2 DEF Worker
<1>4. worker' = [worker EXCEPT ![p] = w]
  BY DEF NextMessage
<1>5. w.pc \in {"dedup", "load", "send"} => w.batch # <<>>
  <2>1. Len(b) > 1 => Tail(b) # <<>>
    BY <1>1, TailNonempty
  <2>2. w.pc \in {"dedup", "load", "send"} => Len(b) > 1
    OBVIOUS
  <2> QED
    BY <2>1, <2>2
<1> HIDE DEF w
<1>6. worker' \in [Pod -> Worker] /\ worker'[p] = w /\ \A q \in Pod : q # p => worker'[q] = worker[q]
  BY <1>1, <1>3, <1>4
<1>7. w.batch = Tail(b)
  BY DEF w
<1> QED
  BY <1>5, <1>6, <1>7 DEF TypeOK

\* The message in a worker's hands is an entry of the stream.
LEMMA CurrentPublished ==
    ASSUME TypeOK, BatchDelivered, NEW p \in Pod, worker[p].pc \in {"dedup", "load", "send"}
    PROVE  /\ worker[p].batch # <<>> /\ Current(p) \in Alert
           /\ Current(p) \in DOMAIN stream /\ KindOf(p) \in Kind
<1>1. worker[p].batch \in Seq(Alert) /\ worker[p].batch # <<>>
  BY DEF TypeOK, Worker
<1>2. Current(p) = worker[p].batch[1] /\ Current(p) \in Alert /\ 1 \in 1..Len(worker[p].batch)
  BY <1>1 DEF Current
<1>3. Current(p) \in 1..Len(stream)
  BY <1>2, NotificationsAssumption DEF BatchDelivered, TypeOK, Alert
<1>4. stream \in Seq([kind : Kind, at : 0..MaxTime])
  BY DEF TypeOK
<1>5. Current(p) \in DOMAIN stream /\ stream[Current(p)] \in [kind : Kind, at : 0..MaxTime]
  BY <1>3, <1>4, ElementOfSeq, LenProperties
<1> QED
  BY <1>1, <1>2, <1>5 DEF KindOf

-----------------------------------------------------------------------------
\* Initially nothing is published and nothing marked.
LEMMA InitIInv == Init => IInv
<1> SUFFICES ASSUME Init PROVE IInv
  OBVIOUS
<1> USE NotificationsAssumption
<1>1. worker \in [Pod -> Worker] /\ \A p \in Pod : worker[p] = Starting
  BY DEF Init, Starting, Worker
<1>2. /\ rows \in [Channel -> Row] /\ call \in [Handler -> Call]
      /\ \A h \in Handler : call[h].pc \in {"fetch", "write"} => call[h].chan \in Channel
  BY DEF Init, Row, NewRow, Call, Idle
<1>3. /\ stream \in Seq([kind : Kind, at : 0..MaxTime]) /\ Len(stream) = 0
      /\ delivered \in 0..Len(stream) /\ Len(stream) <= MaxAlerts
  BY DEF Init
<1>4. TypeOK
  <2>1. \A p \in Pod : worker[p].pc = "start"
    BY <1>1 DEF Starting
  <2>2. /\ mark \in [Kind -> Nat]
        /\ now \in 0..MaxTime /\ requests \in 0..MaxRequests /\ faults \in 0..MaxFaults
    BY DEF Init
  <2>4. group \in BOOLEAN
    BY Zenon DEF Init
  <2>3. /\ guarded \in [Alert -> {Never} \cup 0..MaxTime] /\ sent \in [Alert -> SUBSET Channel]
        /\ changed \in [Channel -> {Never} \cup 0..MaxTime]
    BY DEF Init
  <2> QED
    BY <1>1, <1>2, <1>3, <2>1, <2>2, <2>3, <2>4 DEF TypeOK
<1>5. BatchDelivered
  BY <1>1 DEF BatchDelivered, Starting
<1>6. \A i \in Alert : guarded[i] = Never
  BY DEF Init
<1> QED
  BY <1>4, <1>5, <1>6 DEF IInv, PassedPublished, MarkCovers, Debounced, Passed

\* What neither publishes, marks nor lets pass keeps the history in order.
LEMMA HistoryKept ==
    ASSUME IInv, UNCHANGED <<stream, mark, guarded>>
    PROVE  PassedPublished' /\ MarkCovers' /\ Debounced'
BY DEF IInv, PassedPublished, MarkCovers, Debounced, Passed

\* Moving on to the next message keeps the batches delivered.
LEMMA NextMessageKeeps ==
    ASSUME IInv, NEW p \in Pod, worker[p].batch # <<>>, NextMessage(p), UNCHANGED delivered
    PROVE  BatchDelivered'
<1>1. /\ worker'[p].batch = Tail(worker[p].batch)
      /\ \A q \in Pod : q # p => worker'[q] = worker[q]
  BY NextMessageType DEF IInv
<1>2. worker[p].batch \in Seq(Alert)
  BY DEF IInv, TypeOK, Worker
<1>3. ASSUME NEW n \in 1..Len(Tail(worker[p].batch))
      PROVE  Tail(worker[p].batch)[n] <= delivered
  <2> DEFINE m == Len(worker[p].batch)
             t == Len(Tail(worker[p].batch))
  <2>1. t = m - 1 /\ m \in Nat /\ n \in 1..t
    BY <1>2, HeadTailProperties, LenProperties
  <2>2. n + 1 \in 1..m
    <3> HIDE DEF m, t
    <3> QED
      BY <2>1
  <2>3. Tail(worker[p].batch)[n] = worker[p].batch[n + 1]
    BY <1>2, HeadTailProperties
  <2> QED
    BY <2>2, <2>3 DEF IInv, BatchDelivered
<1>4. ASSUME NEW q \in Pod, NEW n \in 1..Len(worker'[q].batch)
      PROVE  worker'[q].batch[n] <= delivered'
  <2>1. CASE q = p
    BY <1>1, <1>3, <2>1
  <2>2. CASE q # p
    BY <1>1, <2>2 DEF IInv, BatchDelivered
  <2> QED
    BY <2>1, <2>2
<1> QED
  BY <1>4 DEF BatchDelivered

\* The parts of the type invariant that one group of variables decides.
StreamType ==
    /\ stream \in Seq([kind : Kind, at : 0..MaxTime]) /\ group \in BOOLEAN
    /\ delivered \in 0..Len(stream) /\ Len(stream) <= MaxAlerts
WorkerType ==
    /\ worker \in [Pod -> Worker]
    /\ \A p \in Pod : worker[p].pc \in {"dedup", "load", "send"} => worker[p].batch # <<>>
AdminType ==
    /\ rows \in [Channel -> Row] /\ call \in [Handler -> Call] /\ requests \in 0..MaxRequests
    /\ \A h \in Handler : call[h].pc \in {"fetch", "write"} => call[h].chan \in Channel
    /\ changed \in [Channel -> {Never} \cup 0..MaxTime]
HistoryType ==
    /\ mark \in [Kind -> Nat] /\ guarded \in [Alert -> {Never} \cup 0..MaxTime]
    /\ sent \in [Alert -> SUBSET Channel]
ClockType == now \in 0..MaxTime /\ faults \in 0..MaxFaults

\* Together they are the type invariant.
LEMMA TypePartsNext ==
    ASSUME StreamType', WorkerType', AdminType', HistoryType', ClockType' PROVE TypeOK'
BY DEF TypeOK, StreamType, WorkerType, AdminType, HistoryType, ClockType

\* A worker's record, field by field.
LEMMA WorkerFields ==
    ASSUME NEW r \in Worker, NEW x
    PROVE  /\ [r EXCEPT !.pc = x] = [pc |-> x, batch |-> r.batch, todo |-> r.todo]
           /\ [r EXCEPT !.todo = x] = [pc |-> r.pc, batch |-> r.batch, todo |-> x]
BY DEF Worker

LEMMA WorkerBatch ==
    ASSUME NEW r \in Worker, NEW x, NEW y
    PROVE  [[r EXCEPT !.pc = x] EXCEPT !.batch = y] = [pc |-> x, batch |-> y, todo |-> r.todo]
<1>1. [r EXCEPT !.pc = x] = [pc |-> x, batch |-> r.batch, todo |-> r.todo]
  BY WorkerFields
<1>2. [[pc |-> x, batch |-> r.batch, todo |-> r.todo] EXCEPT !.batch = y]
      = [pc |-> x, batch |-> y, todo |-> r.todo]
  OBVIOUS
<1> QED
  BY <1>1, <1>2, Zenon

\* A failure is counted up to the bound.
LEMMA FaultCounted ==
    ASSUME ClockType, NEW f, Fault(f) PROVE faults' \in 0..MaxFaults
BY NotificationsAssumption DEF ClockType, Fault

\* A worker that stays with its batch, at a step for which it has one.
LEMMA StayKeeps ==
    ASSUME IInv, NEW p \in Pod, NEW pc, NEW todo, delivered' = delivered,
           pc \in {"start", "read", "dedup", "load", "send"}, todo \in SUBSET Channel,
           pc \in {"dedup", "load", "send"} => worker[p].batch # <<>>,
           worker' = [worker EXCEPT ![p] = [pc |-> pc, batch |-> worker[p].batch, todo |-> todo]]
    PROVE  WorkerType' /\ BatchDelivered'
<1> DEFINE w == [pc |-> pc, batch |-> worker[p].batch, todo |-> todo]
<1>1. worker \in [Pod -> Worker] /\ worker[p].batch \in Seq(Alert)
  BY DEF IInv, TypeOK, Worker
<1>2. w \in Worker /\ w.batch = worker[p].batch /\ w.pc = pc
  BY <1>1 DEF Worker
<1> HIDE DEF w
<1>3. /\ worker' \in [Pod -> Worker] /\ worker'[p] = w
      /\ \A q \in Pod : q # p => worker'[q] = worker[q]
  BY <1>1, <1>2 DEF w
<1>4. WorkerType'
  BY <1>2, <1>3 DEF WorkerType, IInv, TypeOK
<1>5. \A q \in Pod : worker'[q].batch = worker[q].batch
  BY <1>2, <1>3
<1>6. BatchDelivered'
  BY <1>5 DEF BatchDelivered, IInv
<1> QED
  BY <1>4, <1>6

\* The same for a change of the step alone.
LEMMA StepKeeps ==
    ASSUME IInv, NEW p \in Pod, NEW pc, delivered' = delivered, Step(p, pc),
           pc \in {"start", "read", "dedup", "load", "send"},
           pc \in {"dedup", "load", "send"} => worker[p].batch # <<>>
    PROVE  WorkerType' /\ BatchDelivered'
<1>1. worker[p] \in Worker /\ worker \in [Pod -> Worker]
  BY DEF IInv, TypeOK
<1>2. worker' = [worker EXCEPT ![p] = [pc |-> pc, batch |-> worker[p].batch, todo |-> worker[p].todo]]
  BY <1>1, WorkerFields DEF Step
<1>3. worker[p].todo \in SUBSET Channel
  BY <1>1 DEF Worker
<1> QED
  BY <1>2, <1>3, StayKeeps

\* The same for a change of what is left to send.
LEMMA TodoKeeps ==
    ASSUME IInv, NEW p \in Pod, NEW todo \in SUBSET Channel, delivered' = delivered,
           worker[p].pc = "send", worker' = [worker EXCEPT ![p].todo = todo]
    PROVE  WorkerType' /\ BatchDelivered'
<1>1. worker[p] \in Worker /\ worker \in [Pod -> Worker] /\ worker[p].batch # <<>>
  BY DEF IInv, TypeOK
<1>2. worker' = [worker EXCEPT ![p] = [pc |-> "send", batch |-> worker[p].batch, todo |-> todo]]
  BY <1>1, WorkerFields
<1> QED
  BY <1>1, <1>2, StayKeeps

\* A worker that moves on to its next message.
LEMMA MoveOnKeeps ==
    ASSUME IInv, NEW p \in Pod, worker[p].pc \in {"dedup", "load", "send"},
           NextMessage(p), delivered' = delivered
    PROVE  WorkerType' /\ BatchDelivered'
<1>1. worker[p].batch # <<>>
  BY DEF IInv, TypeOK
<1> QED
  BY <1>1, NextMessageType, NextMessageKeeps DEF IInv, WorkerType

-----------------------------------------------------------------------------
\* A message is published: nobody has it, and it has not passed.
LEMMA PublishKeeps == ASSUME IInv, NEW k \in Kind, Publish(k) PROVE IInv'
<1>1. /\ stream' = Append(stream, [kind |-> k, at |-> now]) /\ Len(stream) < MaxAlerts
      /\ UNCHANGED <<group, delivered, mark, worker, guarded, sent, rows, call, requests, changed, now, faults>>
  BY DEF Publish, sentVars, adminVars
<1>2. stream \in Seq([kind : Kind, at : 0..MaxTime]) /\ now \in 0..MaxTime
  BY DEF IInv, TypeOK
<1>3. [kind |-> k, at |-> now] \in [kind : Kind, at : 0..MaxTime]
  BY <1>2
<1>4. /\ stream' \in Seq([kind : Kind, at : 0..MaxTime]) /\ Len(stream') = Len(stream) + 1
      /\ \A i \in 1..Len(stream) : stream'[i] = stream[i]
  BY <1>1, <1>2, <1>3, AppendProperties
<1>5. Len(stream) \in Nat /\ DOMAIN stream = 1..Len(stream) /\ DOMAIN stream' = 1..Len(stream')
  BY <1>2, <1>4, LenProperties
<1>6. StreamType'
  BY <1>1, <1>4, <1>5, NotificationsAssumption DEF IInv, TypeOK, StreamType
<1>7. WorkerType' /\ AdminType' /\ HistoryType' /\ ClockType' /\ BatchDelivered'
  BY <1>1 DEF IInv, TypeOK, WorkerType, AdminType, HistoryType, ClockType, BatchDelivered
<1>8. PassedPublished'
  BY <1>1, <1>4, <1>5 DEF IInv, PassedPublished, Alert
<1>9. ASSUME NEW i \in Alert, Passed(i)'
      PROVE  Passed(i) /\ stream'[i] = stream[i]
  <2>1. ~(Len(stream) < i)
    BY <1>1, <1>9 DEF IInv, PassedPublished, Passed
  <2>2. i \in 1..Len(stream)
    BY <1>5, <2>1 DEF Alert
  <2> QED
    BY <1>1, <1>4, <1>5, <1>9, <2>2 DEF Passed
<1>10. MarkCovers' /\ Debounced'
  BY <1>1, <1>9 DEF IInv, MarkCovers, Debounced
<1> QED
  BY <1>6, <1>7, <1>8, <1>10, TypePartsNext DEF IInv

\* The group is created at the end of the stream, or was there.
LEMMA CreateGroupKeeps == ASSUME IInv, NEW p \in Pod, CreateGroup(p) PROVE IInv'
<1>1. /\ worker[p].pc = "start" /\ Step(p, "read") /\ group' = TRUE
      /\ delivered' = IF group THEN delivered ELSE Len(stream)
      /\ UNCHANGED <<stream, mark, guarded, sent, rows, call, requests, changed, now, faults>>
  BY DEF CreateGroup, At, sentVars, adminVars
<1>2. delivered \in 0..Len(stream) /\ Len(stream) \in Nat
  BY LenProperties DEF IInv, TypeOK
<1>3. delivered' \in 0..Len(stream) /\ delivered <= delivered'
  BY <1>1, <1>2
<1>4. group' \in BOOLEAN
  BY <1>1, Zenon
<1>5. StreamType'
  BY <1>1, <1>3, <1>4 DEF IInv, TypeOK, StreamType
<1>6. /\ worker \in [Pod -> Worker] /\ worker[p] \in Worker
      /\ worker' = [worker EXCEPT ![p].pc = "read"]
  BY <1>1 DEF IInv, TypeOK, Step
<1>7. /\ worker' \in [Pod -> Worker] /\ worker'[p].pc = "read"
      /\ \A q \in Pod : worker'[q].batch = worker[q].batch
      /\ \A q \in Pod : q # p => worker'[q].pc = worker[q].pc
  BY <1>6 DEF Worker
<1>8. WorkerType'
  BY <1>7 DEF IInv, TypeOK, WorkerType
<1>9. ASSUME NEW q \in Pod, NEW n \in 1..Len(worker'[q].batch)
      PROVE  worker'[q].batch[n] <= delivered'
  <2>1. worker[q].batch \in Seq(Alert) /\ n \in 1..Len(worker[q].batch)
    BY <1>7 DEF IInv, TypeOK, Worker
  <2>2. worker[q].batch[n] \in Alert /\ worker[q].batch[n] <= delivered
    BY <2>1, ElementOfSeq DEF IInv, BatchDelivered
  <2> QED
    BY <1>2, <1>3, <1>7, <2>2 DEF Alert
<1>10. BatchDelivered'
  BY <1>9 DEF BatchDelivered
<1>11. AdminType' /\ HistoryType' /\ ClockType'
  BY <1>1 DEF IInv, TypeOK, AdminType, HistoryType, ClockType
<1> QED
  BY <1>1, <1>5, <1>8, <1>10, <1>11, HistoryKept, TypePartsNext DEF IInv

\* A step of a worker that leaves the stream, the marks and the channels alone.
LEMMA WorkerStepKeeps ==
    ASSUME IInv, WorkerType', BatchDelivered', sent' \in [Alert -> SUBSET Channel],
           UNCHANGED <<streamVars, mark, guarded, adminVars, now>>, faults' \in 0..MaxFaults
    PROVE  IInv'
<1>1. UNCHANGED <<stream, group, delivered, mark, guarded, rows, call, requests, changed, now>>
  BY DEF streamVars, adminVars
<1>2. StreamType' /\ AdminType' /\ HistoryType' /\ ClockType'
  BY <1>1 DEF IInv, TypeOK, StreamType, AdminType, HistoryType, ClockType
<1> QED
  BY <1>1, <1>2, HistoryKept, TypePartsNext DEF IInv

\* XREADGROUP hands out entries that it counts as delivered.
LEMMA ReadGroupKeeps == ASSUME IInv, NEW p \in Pod, ReadGroup(p) PROVE IInv'
<1> DEFINE top == IF delivered + ReadCount < Len(stream) THEN delivered + ReadCount ELSE Len(stream)
           batch == [j \in 1..(top - delivered) |-> delivered + j]
           w == [pc |-> "dedup", batch |-> batch, todo |-> worker[p].todo]
<1>1. /\ delivered < Len(stream) /\ delivered' = top
      /\ worker' = [worker EXCEPT ![p].pc = "dedup", ![p].batch = batch]
      /\ UNCHANGED <<stream, group, mark, guarded, sent, rows, call, requests, changed, now, faults>>
  BY DEF ReadGroup, sentVars, adminVars
<1>2. delivered \in Nat /\ Len(stream) \in Nat /\ Len(stream) <= MaxAlerts /\ ReadCount \in Nat \ {0}
  BY LenProperties, NotificationsAssumption DEF IInv, TypeOK
<1>3. top \in Nat /\ delivered < top /\ top <= Len(stream)
  BY <1>1, <1>2
<1> HIDE DEF top
<1>4. top - delivered \in Nat /\ top - delivered # 0
      /\ \A j \in 1..(top - delivered) : delivered + j \in Alert /\ delivered + j <= top
  BY <1>2, <1>3, NotificationsAssumption DEF Alert
<1>5. batch \in Seq(Alert) /\ Len(batch) = top - delivered /\ batch # <<>>
  BY <1>4
<1>6. worker \in [Pod -> Worker] /\ worker[p] \in Worker
  BY DEF IInv, TypeOK
<1> HIDE DEF batch
<1>7. [[worker[p] EXCEPT !.pc = "dedup"] EXCEPT !.batch = batch] = w /\ w \in Worker
  <2>1. worker[p].todo \in SUBSET Channel
    BY <1>6 DEF Worker
  <2>2. w \in Worker
    BY <1>5, <2>1 DEF Worker
  <2>3. [[worker[p] EXCEPT !.pc = "dedup"] EXCEPT !.batch = batch] = w
    BY <1>6, WorkerBatch
  <2> QED
    BY <2>2, <2>3
<1>8. worker' = [worker EXCEPT ![p] = w]
  BY <1>1, <1>6, <1>7
<1>9. w.batch = batch
  OBVIOUS
<1> HIDE DEF w
<1>10. /\ worker' \in [Pod -> Worker] /\ worker'[p] = w
       /\ \A q \in Pod : q # p => worker'[q] = worker[q]
  BY <1>6, <1>7, <1>8
<1>11. WorkerType'
  BY <1>5, <1>9, <1>10 DEF WorkerType, IInv, TypeOK
<1>12. ASSUME NEW q \in Pod, NEW n \in 1..Len(worker'[q].batch)
       PROVE  worker'[q].batch[n] <= delivered'
  <2>1. CASE q = p
    <3>1. n \in 1..(top - delivered) /\ worker'[q].batch[n] = batch[n]
      BY <1>5, <1>9, <1>10, <2>1
    <3>2. batch[n] = delivered + n
      BY <3>1 DEF batch
    <3> QED
      BY <1>1, <1>4, <3>1, <3>2
  <2>2. CASE q # p
    <3>1. worker[q].batch \in Seq(Alert) /\ n \in 1..Len(worker[q].batch) /\ worker'[q] = worker[q]
      BY <1>10, <2>2 DEF IInv, TypeOK, Worker
    <3>2. worker[q].batch[n] \in Alert /\ worker[q].batch[n] <= delivered
      BY <3>1, ElementOfSeq DEF IInv, BatchDelivered
    <3>3. delivered' = top /\ worker'[q].batch[n] = worker[q].batch[n]
      BY <1>1, <3>1
    <3>4. worker[q].batch[n] \in Nat
      BY <3>2, NotificationsAssumption DEF Alert
    <3> QED
      BY <1>2, <1>3, <3>2, <3>3, <3>4
  <2> QED
    BY <2>1, <2>2
<1>13. BatchDelivered'
  BY <1>12 DEF BatchDelivered
<1>14. StreamType' /\ AdminType' /\ HistoryType' /\ ClockType'
  BY <1>1, <1>2, <1>3 DEF IInv, TypeOK, StreamType, AdminType, HistoryType, ClockType
<1> QED
  BY <1>1, <1>11, <1>13, <1>14, HistoryKept, TypePartsNext DEF IInv

\* A kind is marked for TTL from now on, which no mark passes.
LEMMA MarkKeeps ==
    ASSUME IInv, NEW k \in Kind, ~Marked(k), mark' = [mark EXCEPT ![k] = now + TTL],
           UNCHANGED <<stream, guarded>>
    PROVE  PassedPublished' /\ MarkCovers' /\ Debounced' /\ mark' \in [Kind -> Nat]
<1>1. mark \in [Kind -> Nat] /\ now \in Nat /\ TTL \in Nat /\ mark[k] <= now
  BY NotificationsAssumption DEF IInv, TypeOK, Marked
<1>2. mark' \in [Kind -> Nat] /\ \A x \in Kind : mark[x] <= mark'[x]
  BY <1>1
<1>3. ASSUME NEW i \in Alert, Passed(i)'
      PROVE  guarded'[i] + TTL <= mark'[stream'[i].kind]
  <2>1. Passed(i) /\ guarded[i] + TTL <= mark[stream[i].kind]
    BY <1>3 DEF IInv, MarkCovers, Passed
  <2>2. stream[i] \in [kind : Kind, at : 0..MaxTime]
    BY <2>1, ElementOfSeq, LenProperties DEF IInv, TypeOK, Passed
  <2>3. guarded[i] \in Int
    BY NotificationsAssumption DEF IInv, TypeOK, Never
  <2> QED
    BY <1>1, <1>2, <2>1, <2>2, <2>3
<1> QED
  BY <1>2, <1>3 DEF IInv, PassedPublished, MarkCovers, Debounced, Passed

\* A message passes the debounce: TTL after all others of its kind.
LEMMA SetNXKeeps == ASSUME IInv, NEW p \in Pod, SetNX(p) PROVE IInv'
<1> DEFINE c == Current(p)
           k == KindOf(p)
<1>1. /\ worker[p].pc = "dedup" /\ ~Marked(k) /\ Step(p, "load")
      /\ mark' = [mark EXCEPT ![k] = now + TTL] /\ guarded' = [guarded EXCEPT ![c] = now]
      /\ UNCHANGED <<stream, group, delivered, sent, rows, call, requests, changed, now, faults>>
  BY DEF SetNX, At, streamVars, adminVars
<1>2. c \in Alert /\ c \in DOMAIN stream /\ k \in Kind /\ k = stream[c].kind /\ worker[p].batch # <<>>
  BY <1>1, CurrentPublished DEF IInv, KindOf
<1> HIDE DEF c, k
<1>3. /\ mark \in [Kind -> Nat] /\ now \in 0..MaxTime /\ now \in Nat /\ TTL \in Nat \ {0}
      /\ mark[k] <= now /\ guarded \in [Alert -> {Never} \cup 0..MaxTime]
  BY <1>1, <1>2, NotificationsAssumption DEF IInv, TypeOK, Marked
<1>4. /\ mark' \in [Kind -> Nat] /\ mark'[k] = now + TTL
      /\ \A x \in Kind : x # k => mark'[x] = mark[x]
      /\ guarded' \in [Alert -> {Never} \cup 0..MaxTime] /\ guarded'[c] = now
      /\ \A i \in Alert : i # c => guarded'[i] = guarded[i]
  BY <1>1, <1>2, <1>3
<1>5. \A i \in Alert : guarded[i] \in Int /\ guarded'[i] \in Int
  BY <1>3, <1>4, NotificationsAssumption DEF Never
<1>6. \A i \in Alert : i \in DOMAIN stream => stream[i].kind \in Kind
  <2>1. \A i \in DOMAIN stream : stream[i] \in [kind : Kind, at : 0..MaxTime]
    BY ElementOfSeq, LenProperties DEF IInv, TypeOK
  <2> QED
    BY <2>1
<1>7. PassedPublished'
  <2>1. c \in 1..Len(stream) /\ Len(stream) \in Nat
    BY <1>2, LenProperties DEF IInv, TypeOK
  <2>2. \A i \in Alert : Len(stream) < i => i # c
    BY <2>1 DEF Alert
  <2> QED
    BY <1>1, <1>4, <2>2 DEF IInv, PassedPublished
<1>8. \A i \in Alert : i # c /\ Passed(i)' => Passed(i)
  BY <1>1, <1>4 DEF Passed
<1>9. \A i \in Alert : i # c /\ Passed(i)' => guarded[i] + TTL <= mark[stream[i].kind]
  BY <1>8 DEF IInv, MarkCovers
<1>10. MarkCovers'
  <2>1. ASSUME NEW i \in Alert, Passed(i)'
        PROVE  guarded'[i] + TTL <= mark'[stream[i].kind]
    <3>1. CASE i = c
      BY <1>2, <1>3, <1>4, <3>1
    <3>2. CASE i # c
      <4>1. stream[i].kind \in Kind /\ guarded'[i] = guarded[i]
            /\ guarded[i] + TTL <= mark[stream[i].kind]
        BY <1>1, <1>4, <1>6, <1>9, <2>1, <3>2 DEF Passed
      <4>2. CASE stream[i].kind = k
        BY <1>3, <1>4, <1>5, <4>1, <4>2
      <4>3. CASE stream[i].kind # k
        BY <1>4, <4>1, <4>3
      <4> QED
        BY <4>2, <4>3
    <3> QED
      BY <3>1, <3>2
  <2> QED
    BY <1>1, <2>1 DEF MarkCovers
<1>11. \A i \in Alert : i # c /\ Passed(i)' /\ stream[i].kind = k => guarded'[i] + TTL <= guarded'[c]
  BY <1>3, <1>4, <1>5, <1>9
<1>12. Debounced'
  <2>1. ASSUME NEW i \in Alert, NEW j \in Alert, Passed(i)', Passed(j)', i # j,
               stream[i].kind = stream[j].kind
        PROVE  guarded'[i] + TTL <= guarded'[j] \/ guarded'[j] + TTL <= guarded'[i]
    <3>1. CASE i = c \/ j = c
      BY <1>2, <1>11, <2>1, <3>1
    <3>2. CASE i # c /\ j # c
      BY <1>4, <1>8, <2>1, <3>2 DEF IInv, Debounced
    <3> QED
      BY <3>1, <3>2
  <2> QED
    BY <1>1, <2>1 DEF Debounced
<1>13. WorkerType' /\ BatchDelivered'
  BY <1>1, <1>2, StepKeeps
<1>14. StreamType' /\ AdminType' /\ HistoryType' /\ ClockType'
  BY <1>1, <1>4 DEF IInv, TypeOK, StreamType, AdminType, HistoryType, ClockType
<1> QED
  BY <1>7, <1>10, <1>12, <1>13, <1>14, TypePartsNext DEF IInv

\* The steps of a worker when nothing fails.
LEMMA WorkKeeps == ASSUME IInv, NEW p \in Pod, Work(p) PROVE IInv'
<1> USE DEF At
<1>0. sent \in [Alert -> SUBSET Channel] /\ faults \in 0..MaxFaults
  BY DEF IInv, TypeOK
<1>1. CASE CreateGroup(p)
  BY <1>1, CreateGroupKeeps
<1>2. CASE ReadGroup(p)
  BY <1>2, ReadGroupKeeps
<1>3. CASE SetNX(p)
  BY <1>3, SetNXKeeps
<1>4. CASE Debounce(p)
  <2>1. WorkerType' /\ BatchDelivered'
    BY <1>4, MoveOnKeeps DEF Debounce, streamVars
  <2> QED
    BY <1>0, <1>4, <2>1, WorkerStepKeeps DEF Debounce, sentVars
<1>5. CASE LoadChannels(p)
  <2> DEFINE todo == {c \in Channel : Wants(c, KindOf(p))}
  <2>1. worker[p] \in Worker /\ worker \in [Pod -> Worker] /\ worker[p].batch # <<>>
    BY <1>5 DEF IInv, TypeOK, LoadChannels
  <2>2. todo \in SUBSET Channel
    OBVIOUS
  <2>3. worker' = [worker EXCEPT ![p].pc = "send", ![p].todo = todo]
    BY <1>5 DEF LoadChannels
  <2> HIDE DEF todo
  <2>4. [[worker[p] EXCEPT !.pc = "send"] EXCEPT !.todo = todo]
        = [pc |-> "send", batch |-> worker[p].batch, todo |-> todo]
    <3>1. [worker[p] EXCEPT !.pc = "send"] = [pc |-> "send", batch |-> worker[p].batch, todo |-> worker[p].todo]
      BY <2>1, WorkerFields
    <3>2. [[pc |-> "send", batch |-> worker[p].batch, todo |-> worker[p].todo] EXCEPT !.todo = todo]
          = [pc |-> "send", batch |-> worker[p].batch, todo |-> todo]
      OBVIOUS
    <3> QED
      BY <3>1, <3>2, Zenon
  <2>5. worker' = [worker EXCEPT ![p] = [pc |-> "send", batch |-> worker[p].batch, todo |-> todo]]
    BY <2>1, <2>3, <2>4
  <2>6. WorkerType' /\ BatchDelivered'
    BY <1>5, <2>1, <2>2, <2>5, StayKeeps DEF LoadChannels, streamVars
  <2> QED
    BY <1>0, <1>5, <2>6, WorkerStepKeeps DEF LoadChannels, sentVars
<1>6. CASE Dispatch(p)
  <2>1. PICK c \in worker[p].todo : /\ worker' = [worker EXCEPT ![p].todo = @ \ {c}]
                                    /\ sent' = [sent EXCEPT ![Current(p)] = @ \cup {c}]
    BY <1>6 DEF Dispatch
  <2>2. worker[p].todo \in SUBSET Channel /\ worker[p].todo \ {c} \in SUBSET Channel /\ worker[p].pc = "send"
        /\ worker' = [worker EXCEPT ![p].todo = worker[p].todo \ {c}]
    BY <1>6, <2>1 DEF IInv, TypeOK, Worker, Dispatch
  <2>3. WorkerType' /\ BatchDelivered'
    BY <1>6, <2>2, TodoKeeps DEF Dispatch, streamVars
  <2>4. sent' \in [Alert -> SUBSET Channel]
    BY <1>0, <2>1, <2>2
  <2> QED
    BY <1>0, <1>6, <2>3, <2>4, WorkerStepKeeps DEF Dispatch
<1>7. CASE Dispatched(p)
  <2>1. WorkerType' /\ BatchDelivered'
    BY <1>7, MoveOnKeeps DEF Dispatched, streamVars
  <2> QED
    BY <1>0, <1>7, <2>1, WorkerStepKeeps DEF Dispatched, sentVars
<1> QED
  BY <1>1, <1>2, <1>3, <1>4, <1>5, <1>6, <1>7 DEF Work

\* The steps of a worker that meet a failure.
LEMMA WorkFailsKeeps == ASSUME IInv, NEW p \in Pod, WorkFails(p) PROVE IInv'
<1> USE DEF At
<1>0. sent \in [Alert -> SUBSET Channel] /\ ClockType
  BY DEF IInv, TypeOK, ClockType
<1>1. CASE CreateGroupFails(p)
  <2>1. WorkerType' /\ BatchDelivered'
    BY <1>1, StepKeeps DEF CreateGroupFails, streamVars
  <2> QED
    BY <1>0, <1>1, <2>1, FaultCounted, WorkerStepKeeps DEF CreateGroupFails, sentVars
<1>2. CASE SetNXFails(p)
  <2>1. worker[p].batch # <<>>
    BY <1>2 DEF SetNXFails, IInv, TypeOK
  <2>2. WorkerType' /\ BatchDelivered'
    BY <1>2, <2>1, StepKeeps DEF SetNXFails, streamVars
  <2> QED
    BY <1>0, <1>2, <2>2, FaultCounted, WorkerStepKeeps DEF SetNXFails, sentVars
<1>3. CASE SetNXRetried(p)
  <2>1. /\ worker[p].pc = "dedup" /\ ~Marked(KindOf(p)) /\ NextMessage(p) /\ Fault("retried")
        /\ mark' = [mark EXCEPT ![KindOf(p)] = now + TTL]
        /\ UNCHANGED <<stream, group, delivered, guarded, sent, rows, call, requests, changed, now>>
    BY <1>3 DEF SetNXRetried, streamVars, sentVars, adminVars
  <2>2. KindOf(p) \in Kind
    BY <2>1, CurrentPublished DEF IInv
  <2>3. WorkerType' /\ BatchDelivered'
    BY <2>1, MoveOnKeeps
  <2>4. PassedPublished' /\ MarkCovers' /\ Debounced' /\ mark' \in [Kind -> Nat]
    BY <2>1, <2>2, MarkKeeps
  <2>5. faults' \in 0..MaxFaults
    BY <1>0, <2>1, FaultCounted
  <2>6. StreamType' /\ AdminType' /\ HistoryType' /\ ClockType'
    BY <2>1, <2>4, <2>5 DEF IInv, TypeOK, StreamType, AdminType, HistoryType, ClockType
  <2> QED
    BY <2>3, <2>4, <2>6, TypePartsNext DEF IInv
<1>4. CASE LoadFails(p)
  <2>1. WorkerType' /\ BatchDelivered'
    BY <1>4, MoveOnKeeps DEF LoadFails, streamVars
  <2> QED
    BY <1>0, <1>4, <2>1, FaultCounted, WorkerStepKeeps DEF LoadFails, sentVars
<1>5. CASE DispatchFails(p)
  <2>1. PICK c \in worker[p].todo : worker' = [worker EXCEPT ![p].todo = @ \ {c}]
    BY <1>5 DEF DispatchFails
  <2>2. worker[p].todo \ {c} \in SUBSET Channel /\ worker[p].pc = "send"
        /\ worker' = [worker EXCEPT ![p].todo = worker[p].todo \ {c}]
    BY <1>5, <2>1 DEF IInv, TypeOK, Worker, DispatchFails
  <2>3. WorkerType' /\ BatchDelivered'
    BY <1>5, <2>2, TodoKeeps DEF DispatchFails, streamVars
  <2> QED
    BY <1>0, <1>5, <2>3, FaultCounted, WorkerStepKeeps DEF DispatchFails, sentVars
<1>6. CASE Crash(p)
  <2>1. worker' = [worker EXCEPT ![p] = Starting] /\ worker \in [Pod -> Worker]
    BY <1>6 DEF Crash, IInv, TypeOK
  <2>2. Starting \in Worker /\ Starting.pc = "start" /\ Len(Starting.batch) = 0
    BY DEF Starting, Worker
  <2>3. /\ worker' \in [Pod -> Worker] /\ worker'[p] = Starting
        /\ \A q \in Pod : q # p => worker'[q] = worker[q]
    BY <2>1, <2>2
  <2>4. WorkerType'
    BY <2>2, <2>3 DEF WorkerType, IInv, TypeOK
  <2>5. BatchDelivered'
    BY <1>6, <2>2, <2>3 DEF BatchDelivered, IInv, Crash, streamVars
  <2> QED
    BY <1>0, <1>6, <2>4, <2>5, FaultCounted, WorkerStepKeeps DEF Crash, sentVars
<1> QED
  BY <1>1, <1>2, <1>3, <1>4, <1>5, <1>6 DEF WorkFails

-----------------------------------------------------------------------------
\* Requests touch nothing but the channels and themselves.
LEMMA AdminStepKeeps ==
    ASSUME IInv, UNCHANGED workerVars, AdminType', faults' \in 0..MaxFaults
    PROVE  IInv'
<1>1. UNCHANGED <<stream, group, delivered, mark, worker, guarded, sent, now>>
  BY DEF workerVars, streamVars, sentVars
<1>2. StreamType' /\ WorkerType' /\ HistoryType' /\ ClockType' /\ BatchDelivered'
  BY <1>1 DEF IInv, TypeOK, StreamType, WorkerType, HistoryType, ClockType, BatchDelivered
<1> QED
  BY <1>1, <1>2, HistoryKept, TypePartsNext DEF IInv

\* A request is one of the known ones, at one of its steps.
LEMMA CallType ==
    ASSUME NEW pc \in {"idle", "count", "insert", "fetch", "write"},
           NEW op \in {"none", "create", "update", "delete"},
           NEW c \in Channel \cup {NoChannel}, NEW r \in Row
    PROVE  [pc |-> pc, op |-> op, chan |-> c, copy |-> r] \in Call
BY DEF Call

\* A row that is written is a row.
LEMMA WriteType ==
    ASSUME IInv, NEW c \in Channel, NEW r \in Row, Write(c, r)
    PROVE  rows' \in [Channel -> Row] /\ changed' \in [Channel -> {Never} \cup 0..MaxTime]
BY DEF IInv, TypeOK, Write

LEMMA InsertedType == ASSUME NEW events \in SUBSET Event PROVE InsertedRow(events) \in Row
BY DEF InsertedRow, Row

\* A request that goes on or is answered.
LEMMA CallKeeps ==
    ASSUME IInv, NEW h \in Handler, NEW c \in Call, call' = [call EXCEPT ![h] = c],
           c.pc \in {"fetch", "write"} => c.chan \in Channel
    PROVE  /\ call' \in [Handler -> Call]
           /\ \A g \in Handler : call'[g].pc \in {"fetch", "write"} => call'[g].chan \in Channel
<1>1. call \in [Handler -> Call]
  BY DEF IInv, TypeOK
<1>2. call'[h] = c /\ \A g \in Handler : g # h => call'[g] = call[g]
  BY <1>1
<1> QED
  BY <1>1, <1>2 DEF IInv, TypeOK

LEMMA DoneKeeps ==
    ASSUME IInv, NEW h \in Handler, Done(h)
    PROVE  /\ call' \in [Handler -> Call]
           /\ \A g \in Handler : call'[g].pc \in {"fetch", "write"} => call'[g].chan \in Channel
<1>1. Idle \in Call /\ Idle.pc = "idle"
  BY DEF Idle, Call, NewRow, Row
<1> HIDE DEF Idle
<1> QED
  BY <1>1, CallKeeps DEF Done

\* A step of a request.
LEMMA CallStepKeeps ==
    ASSUME IInv, NEW h \in Handler,
           NEW pc \in {"idle", "count", "insert", "fetch", "write"}, NEW r \in Row,
           pc \in {"fetch", "write"} => call[h].chan \in Channel,
           call' = [call EXCEPT ![h] =
                      [pc |-> pc, op |-> call[h].op, chan |-> call[h].chan, copy |-> r]]
    PROVE  /\ call' \in [Handler -> Call]
           /\ \A g \in Handler : call'[g].pc \in {"fetch", "write"} => call'[g].chan \in Channel
<1> DEFINE c == [pc |-> pc, op |-> call[h].op, chan |-> call[h].chan, copy |-> r]
<1>1. call[h] \in Call
  BY DEF IInv, TypeOK
<1>2. c \in Call /\ c.pc = pc /\ c.chan = call[h].chan
  BY <1>1 DEF Call
<1> HIDE DEF c
<1> QED
  BY <1>2, CallKeeps DEF c

\* A request's record, field by field.
LEMMA CallFields ==
    ASSUME NEW r \in Call, NEW x
    PROVE  [r EXCEPT !.pc = x] = [pc |-> x, op |-> r.op, chan |-> r.chan, copy |-> r.copy]
BY DEF Call

LEMMA AdministerKeeps == ASSUME IInv, NEW h \in Handler, Administer(h) PROVE IInv'
<1> USE DEF CallAt
<1>0. AdminType /\ ClockType /\ call[h] \in Call /\ call \in [Handler -> Call]
  BY DEF IInv, TypeOK, AdminType, ClockType
<1>1. CASE Request(h)
  <2> DEFINE c0 == [Idle EXCEPT !.pc = "count", !.op = "create"]
             c1(c, op) == [Idle EXCEPT !.pc = "fetch", !.op = op, !.chan = c]
  <2>1. c0 \in Call /\ c0.pc = "count"
    BY DEF Idle, Call, NewRow, Row
  <2>2. \A c \in Kept, op \in {"update", "delete"} :
           c1(c, op) \in Call /\ c1(c, op).chan = c /\ c \in Channel
    BY DEF Idle, Call, NewRow, Row, Kept
  <2>3. \/ call' = [call EXCEPT ![h] = c0]
        \/ \E c \in Kept, op \in {"update", "delete"} : call' = [call EXCEPT ![h] = c1(c, op)]
    BY <1>1 DEF Request
  <2> HIDE DEF c0, c1
  <2>4. /\ call' \in [Handler -> Call]
        /\ \A g \in Handler : call'[g].pc \in {"fetch", "write"} => call'[g].chan \in Channel
    BY <2>1, <2>2, <2>3, CallKeeps
  <2>5. requests \in 0..MaxRequests /\ requests < MaxRequests /\ requests' = requests + 1
    BY <1>0, <1>1 DEF Request, AdminType
  <2>6. requests' \in 0..MaxRequests
    BY <2>5, NotificationsAssumption
  <2>7. AdminType'
    BY <1>0, <1>1, <2>4, <2>6 DEF Request, AdminType
  <2> QED
    BY <1>0, <1>1, <2>7, AdminStepKeeps DEF Request, ClockType
<1>2. CASE CountChannels(h) \/ StatementFails(h)
  <2>1. \/ call' = [call EXCEPT ![h].pc = "insert"]
        \/ Done(h)
    BY <1>2 DEF CountChannels, StatementFails
  <2>2. /\ call' \in [Handler -> Call]
        /\ \A g \in Handler : call'[g].pc \in {"fetch", "write"} => call'[g].chan \in Channel
    <3>1. CASE Done(h)
      BY <3>1, DoneKeeps
    <3>2. CASE call' = [call EXCEPT ![h].pc = "insert"]
      <4>1. call' = [call EXCEPT ![h] = [pc |-> "insert", op |-> call[h].op,
                                         chan |-> call[h].chan, copy |-> call[h].copy]]
        BY <1>0, <3>2, CallFields
      <4>2. call[h].copy \in Row
        BY <1>0 DEF Call
      <4> QED
        BY <4>1, <4>2, CallStepKeeps
    <3> QED
      BY <2>1, <3>1, <3>2
  <2>3. UNCHANGED <<workerVars, rows, changed, requests>> /\ faults' \in 0..MaxFaults
    BY <1>0, <1>2, FaultCounted DEF CountChannels, StatementFails, ClockType
  <2>4. AdminType'
    BY <1>0, <2>2, <2>3 DEF AdminType
  <2> QED
    BY <2>3, <2>4, AdminStepKeeps
<1>3. CASE InsertChannel(h)
  <2>1. PICK c \in Channel, events \in SUBSET Event : Write(c, InsertedRow(events))
    BY <1>3 DEF InsertChannel
  <2>2. rows' \in [Channel -> Row] /\ changed' \in [Channel -> {Never} \cup 0..MaxTime]
    BY <2>1, InsertedType, WriteType
  <2>3. AdminType'
    BY <1>0, <1>3, <2>2, DoneKeeps DEF InsertChannel, AdminType
  <2> QED
    BY <1>0, <1>3, <2>3, AdminStepKeeps DEF InsertChannel, ClockType
<1>4. CASE FetchChannel(h)
  <2> DEFINE found == rows[call[h].chan]
  <2>1. call[h].chan \in Channel /\ found \in Row
    BY <1>0, <1>4 DEF AdminType, FetchChannel
  <2>2. /\ call' \in [Handler -> Call]
        /\ \A g \in Handler : call'[g].pc \in {"fetch", "write"} => call'[g].chan \in Channel
    <3>1. CASE found.state = "kept"
      <4>1. call' = [call EXCEPT ![h].pc = "write", ![h].copy = found]
        BY <1>4, <3>1 DEF FetchChannel
      <4> HIDE DEF found
      <4>2. [call[h] EXCEPT !.pc = "write"]
            = [pc |-> "write", op |-> call[h].op, chan |-> call[h].chan, copy |-> call[h].copy]
        BY <1>0, CallFields
      <4>3. [[pc |-> "write", op |-> call[h].op, chan |-> call[h].chan, copy |-> call[h].copy]
             EXCEPT !.copy = found]
            = [pc |-> "write", op |-> call[h].op, chan |-> call[h].chan, copy |-> found]
        OBVIOUS
      <4>4. [[call[h] EXCEPT !.pc = "write"] EXCEPT !.copy = found]
            = [pc |-> "write", op |-> call[h].op, chan |-> call[h].chan, copy |-> found]
        BY <4>2, <4>3, Zenon
      <4>5. call' = [call EXCEPT ![h] = [pc |-> "write", op |-> call[h].op,
                                         chan |-> call[h].chan, copy |-> found]]
        BY <1>0, <4>1, <4>4
      <4> QED
        BY <2>1, <4>5, CallStepKeeps
    <3>2. CASE found.state # "kept"
      BY <1>4, <3>2, DoneKeeps DEF FetchChannel
    <3> QED
      BY <3>1, <3>2
  <2>3. AdminType'
    BY <1>0, <1>4, <2>2 DEF FetchChannel, AdminType
  <2> QED
    BY <1>0, <1>4, <2>3, AdminStepKeeps DEF FetchChannel, ClockType
<1>5. CASE SaveChannel(h)
  <2>1. call[h].chan \in Channel /\ call[h].copy \in Row
    BY <1>0, <1>5 DEF SaveChannel, AdminType, Call
  <2>2. PICK enabled \in BOOLEAN, events \in {call[h].copy.events} \cup SUBSET Event :
           Write(call[h].chan,
                 IF rows[call[h].chan].state = "kept"
                 THEN [call[h].copy EXCEPT !.enabled = enabled, !.events = events]
                 ELSE InsertedRow(events))
    BY <1>5 DEF SaveChannel
  <2>3. events \in SUBSET Event
    BY <2>1 DEF Row
  <2>4. [call[h].copy EXCEPT !.enabled = enabled, !.events = events] \in Row
    BY <2>1, <2>3 DEF Row
  <2>5. rows' \in [Channel -> Row] /\ changed' \in [Channel -> {Never} \cup 0..MaxTime]
    BY <2>1, <2>2, <2>3, <2>4, InsertedType, WriteType
  <2>6. AdminType'
    BY <1>0, <1>5, <2>5, DoneKeeps DEF SaveChannel, AdminType
  <2> QED
    BY <1>0, <1>5, <2>6, AdminStepKeeps DEF SaveChannel, ClockType
<1>6. CASE DeleteChannel(h)
  <2>1. call[h].chan \in Channel
    BY <1>0, <1>6 DEF DeleteChannel, AdminType
  <2>2. [NewRow EXCEPT !.state = "deleted"] \in Row
    BY DEF NewRow, Row
  <2>3. rows' \in [Channel -> Row] /\ changed' \in [Channel -> {Never} \cup 0..MaxTime]
    BY <1>6, <2>1, <2>2, WriteType DEF DeleteChannel
  <2>4. AdminType'
    BY <1>0, <1>6, <2>3, DoneKeeps DEF DeleteChannel, AdminType
  <2> QED
    BY <1>0, <1>6, <2>4, AdminStepKeeps DEF DeleteChannel, ClockType
<1> QED
  BY <1>1, <1>2, <1>3, <1>4, <1>5, <1>6 DEF Administer

\* Time passes.
LEMMA TickKeeps == ASSUME IInv, Tick PROVE IInv'
<1>1. /\ now' = now + 1 /\ now < MaxTime
      /\ UNCHANGED <<stream, group, delivered, mark, worker, guarded, sent, rows, call, requests, changed, faults>>
  BY DEF Tick, streamVars, sentVars, adminVars
<1>2. now' \in 0..MaxTime
  BY <1>1, NotificationsAssumption DEF IInv, TypeOK
<1>3. StreamType' /\ WorkerType' /\ AdminType' /\ HistoryType' /\ ClockType' /\ BatchDelivered'
  BY <1>1, <1>2 DEF IInv, TypeOK, StreamType, WorkerType, AdminType, HistoryType, ClockType, BatchDelivered
<1> QED
  BY <1>1, <1>3, HistoryKept, TypePartsNext DEF IInv

-----------------------------------------------------------------------------
\* Every step keeps the inductive invariant.
LEMMA NextKeeps == IInv /\ [Next]_vars => IInv'
<1> SUFFICES ASSUME IInv, [Next]_vars PROVE IInv'
  OBVIOUS
<1>1. CASE UNCHANGED vars
  <2>1. UNCHANGED <<stream, group, delivered, mark, worker, guarded, sent, rows, call, requests, changed, now, faults>>
    BY <1>1 DEF vars, streamVars, sentVars, adminVars
  <2>2. StreamType' /\ WorkerType' /\ AdminType' /\ HistoryType' /\ ClockType' /\ BatchDelivered'
    BY <2>1 DEF IInv, TypeOK, StreamType, WorkerType, AdminType, HistoryType, ClockType, BatchDelivered
  <2> QED
    BY <2>1, <2>2, HistoryKept, TypePartsNext DEF IInv
<1>2. CASE Next
  BY <1>2, PublishKeeps, WorkKeeps, WorkFailsKeeps, AdministerKeeps, TickKeeps DEF Next
<1> QED
  BY <1>1, <1>2

\* The variables of the notification worker keep their types.
THEOREM TypeCorrect == Spec => []TypeOK
<1>1. IInv => TypeOK
  BY DEF IInv
<1> QED
  BY <1>1, InitIInv, NextKeeps, PTL DEF Spec

\* processMessage: two messages of a kind that pass the debounce do so at
\* least debounceTTL apart, whichever workers take them and whatever fails.
THEOREM DebounceHolds == Spec => []Debounced
<1>1. IInv => Debounced
  BY DEF IInv
<1> QED
  BY <1>1, InitIInv, NextKeeps, PTL DEF Spec
-----------------------------------------------------------------------------
(* Audit reports: who is at work on a report, and its file. *)

ReportTypes ==
    /\ row \in [Reports -> Rows]
    /\ objects \in [Names -> Reports \cup {None}]
    /\ jobs \in Seq(Reports)
    /\ task \in [Callers -> Tasks]
    /\ second \in 0..MaxSecond /\ failures \in Nat
    /\ asked \subseteq Reports /\ doubtful \subseteq Reports

\* The job of a report is with a handler that has inserted it or with a worker.
Holds(c, r) == task[c].pc \in WorkerSteps \cup {"publish", "unpublished"} /\ task[c].report = r

Waiting(r) == \E i \in 1..Len(jobs) : jobs[i] = r

\* Handlers and workers keep to their steps, at work on reports that exist or
\* did; a report is deleted by a request that was asked to.
TaskOf(c) ==
    /\ task[c].pc \in (IF c \in Handlers THEN HandlerSteps ELSE WorkerSteps) \cup {"idle"}
    /\ task[c].pc \notin {"idle", "insert"} =>
         task[c].report \in Reports /\ row[task[c].report].status # "absent"
    /\ task[c].pc \in {"object", "row"} => task[c].report \in asked

TasksOK ==
    /\ \A c \in Callers : TaskOf(c)
    /\ \A r \in Reports : Waiting(r) => row[r].status # "absent"
    /\ \A r \in Reports : row[r].status = "deleted" => r \in asked

\* A report alone with its name has its file from the upload on.
FileKept(r) ==
    Alone(r) /\ r \notin asked =>
        /\ \A c \in Callers : task[c].pc \in {"save", "complete"} /\ task[c].report = r =>
             objects[row[r].name] = r
        /\ \A c \in Callers : task[c].pc = "complete" /\ task[c].report = r => row[r].keyed
        /\ row[r].status = "COMPLETED" => row[r].keyed /\ objects[row[r].name] = r

FileInv == ReportTypes /\ TasksOK /\ \A r \in Reports : FileKept(r)

\* Unless Redis left it in doubt, the job of a report is in one place at most,
\* and nowhere once the report is completed.
OneJob(r) ==
    /\ \A c, d \in Callers : Holds(c, r) /\ Holds(d, r) => c = d
    /\ \A i, j \in 1..Len(jobs) : jobs[i] = r /\ jobs[j] = r => i = j
    /\ Waiting(r) => \A c \in Callers : ~Holds(c, r)
    /\ row[r].status = "COMPLETED" => ~Waiting(r) /\ \A c \in Callers : ~Holds(c, r)

JobsInv == ReportTypes /\ TasksOK /\ \A r \in Reports \ doubtful : OneJob(r)


\* A caller is set to a task.
LEMMA TaskSet ==
    ASSUME ReportTypes, NEW c \in Callers, NEW t \in Tasks, task' = [task EXCEPT ![c] = t]
    PROVE  /\ task' \in [Callers -> Tasks] /\ task'[c] = t
           /\ \A d \in Callers \ {c} : task'[d] = task[d]
  BY DEF ReportTypes

\* A caller goes on with its report.
LEMMA TaskGoes ==
    ASSUME ReportTypes, NEW c \in Callers, NEW pc \in HandlerSteps \cup WorkerSteps \cup {"idle"}, Goto(c, pc)
    PROVE  /\ task' \in [Callers -> Tasks]
           /\ task'[c].pc = pc /\ task'[c].report = task[c].report
           /\ \A d \in Callers \ {c} : task'[d] = task[d]
<1>1. task \in [Callers -> Tasks]
  BY DEF ReportTypes
<1> QED
  BY <1>1 DEF Goto, Tasks

LEMMA TaskEnds ==
    ASSUME ReportTypes, NEW c \in Callers, Finish(c)
    PROVE  /\ task' \in [Callers -> Tasks]
           /\ task'[c].pc = "idle" /\ task'[c].report = None
           /\ \A d \in Callers \ {c} : task'[d] = task[d]
<1>1. NoTask \in Tasks /\ NoTask.pc = "idle" /\ NoTask.report = None
  BY DEF NoTask, Tasks
<1> QED
  BY <1>1, TaskSet DEF Finish

\* A status is changed where there is a row.
LEMMA StatusSet ==
    ASSUME ReportTypes, NEW r \in Reports, NEW s \in Statuses \ {"absent", "deleted"}, UpdateStatus(r, s)
    PROVE  /\ row' \in [Reports -> Rows]
           /\ Exists(r) => row'[r].status = s
           /\ ~Exists(r) => row'[r].status = row[r].status
           /\ \A q \in Reports : row'[q].name = row[q].name /\ row'[q].keyed = row[q].keyed
           /\ \A q \in Reports \ {r} : row'[q] = row[q]
<1>1. row \in [Reports -> Rows]
  BY DEF ReportTypes
<1> QED
  BY <1>1 DEF UpdateStatus, Rows, Exists

\* A job is appended to the stream.
LEMMA JobAppended ==
    ASSUME ReportTypes, NEW r \in Reports, jobs' = Append(jobs, r)
    PROVE  /\ jobs' \in Seq(Reports) /\ Len(jobs) \in Nat /\ Len(jobs') = Len(jobs) + 1
           /\ jobs'[Len(jobs) + 1] = r
           /\ \A i \in 1..Len(jobs) : jobs'[i] = jobs[i]
  BY AppendProperties, LenProperties DEF ReportTypes

\* The first job is taken from the stream.
LEMMA JobTaken ==
    ASSUME ReportTypes, jobs # <<>>, jobs' = Tail(jobs)
    PROVE  /\ jobs' \in Seq(Reports) /\ Len(jobs) \in Nat /\ 1 \in 1..Len(jobs) /\ Len(jobs') = Len(jobs) - 1
           /\ Head(jobs) = jobs[1] /\ jobs[1] \in Reports
           /\ \A i \in 1..Len(jobs') : i + 1 \in 1..Len(jobs) /\ jobs'[i] = jobs[i + 1]
<1>1. jobs \in Seq(Reports) /\ Len(jobs) \in Nat
  BY LenProperties DEF ReportTypes
<1>2. Len(jobs) # 0
  BY <1>1, EmptySeq
<1>3. Head(jobs) = jobs[1] /\ jobs' \in Seq(Reports) /\ Len(jobs') = Len(jobs) - 1
      /\ \A i \in 1..Len(jobs') : jobs'[i] = jobs[i + 1]
  BY <1>1, HeadTailProperties
<1>4. 1 \in 1..Len(jobs) /\ \A i \in 1..Len(jobs') : i + 1 \in 1..Len(jobs)
  BY <1>1, <1>2, <1>3
<1>5. jobs[1] \in Reports
  BY <1>1, <1>4, ElementOfSeq
<1> QED
  BY <1>1, <1>3, <1>4, <1>5


LEMMA ReportTypesInit == InitReports => ReportTypes /\ TasksOK
<1> SUFFICES ASSUME InitReports PROVE ReportTypes /\ TasksOK
  OBVIOUS
<1>1. \E n : n \in Names
  <2>1. 0 \in 0..MaxSecond
    BY BoundsAssumption
  <2>2. PICK f : f \in Formats
    BY ReportsAssumption
  <2>3. <<0, f>> \in Names
    BY <2>1, <2>2 DEF Names
  <2> QED
    BY <2>3
<1>2. Absent \in Rows /\ Absent.status = "absent"
  BY <1>1 DEF Absent, Rows, Statuses
<1>3. NoTask \in Tasks /\ NoTask.pc = "idle"
  BY DEF NoTask, Tasks
<1>4. jobs \in Seq(Reports) /\ Len(jobs) = 0
  BY EmptySeq DEF InitReports
<1>5. ReportTypes
  BY <1>2, <1>3, <1>4, BoundsAssumption DEF InitReports, ReportTypes
<1> QED
  BY <1>2, <1>3, <1>4, <1>5 DEF InitReports, TasksOK, TaskOf, Waiting

\* Every step keeps the types and the tasks, and takes no row or name away.
LEMMA TasksStep ==
    ASSUME ReportTypes, TasksOK, [NextReports]_reportVars
    PROVE  /\ ReportTypes' /\ TasksOK'
           /\ \A r \in Reports : row[r].status # "absent" =>
                row'[r].status # "absent" /\ row'[r].name = row[r].name /\ (row[r].keyed => row'[r].keyed)
           /\ asked \subseteq asked' /\ doubtful \subseteq doubtful'
<1> DEFINE Goal == /\ ReportTypes' /\ TasksOK'
                   /\ \A r \in Reports : row[r].status # "absent" =>
                        row'[r].status # "absent" /\ row'[r].name = row[r].name /\ (row[r].keyed => row'[r].keyed)
                   /\ asked \subseteq asked' /\ doubtful \subseteq doubtful'
<1> USE DEF history
<1>t. /\ row \in [Reports -> Rows] /\ objects \in [Names -> Reports \cup {None}]
      /\ jobs \in Seq(Reports) /\ task \in [Callers -> Tasks]
      /\ second \in 0..MaxSecond /\ failures \in Nat
      /\ asked \subseteq Reports /\ doubtful \subseteq Reports
  BY DEF ReportTypes
<1>c. /\ \A c \in Callers : TaskOf(c)
      /\ \A r \in Reports : Waiting(r) => row[r].status # "absent"
      /\ \A r \in Reports : row[r].status = "deleted" => r \in asked
      /\ Handlers \subseteq Callers /\ Pods \subseteq Callers /\ \A p \in Pods : p \notin Handlers
  BY ReportsAssumption DEF TasksOK, Callers
<1>n. \A r \in Reports : row[r].name \in Names /\ row[r].keyed \in BOOLEAN /\ row[r].status \in Statuses
  BY <1>t DEF Rows
<1>1. ASSUME NEW h \in Handlers, CountPending(h) PROVE Goal
  BY <1>1, <1>t, <1>c, TaskGoes DEF CountPending, ReportTypes, TasksOK, TaskOf, Waiting, HandlerSteps, NoTask
<1>2. ASSUME NEW h \in Handlers, InsertReport(h) PROVE Goal
  <2>1. PICK r \in Reports, f \in Formats :
          /\ row[r].status = "absent"
          /\ row' = [row EXCEPT ![r] = [status |-> "QUEUED", name |-> <<second, f>>, keyed |-> FALSE]]
          /\ Inserted(h, r)
    BY <1>2 DEF InsertReport
  <2>2. <<second, f>> \in Names
    BY <1>t DEF Names
  <2>3. [status |-> "QUEUED", name |-> <<second, f>>, keyed |-> FALSE] \in Rows
    BY <2>2 DEF Rows, Statuses
  <2>4. /\ row' \in [Reports -> Rows] /\ row'[r].status = "QUEUED"
        /\ \A q \in Reports \ {r} : row'[q] = row[q]
    BY <2>1, <2>3, <1>t
  <2>5. [pc |-> "publish", report |-> r] \in Tasks
    BY DEF Tasks, HandlerSteps
  <2>6. /\ task' \in [Callers -> Tasks] /\ task'[h] = [pc |-> "publish", report |-> r]
        /\ \A d \in Callers \ {h} : task'[d] = task[d]
    BY <1>c, <2>1, <2>5, TaskSet DEF Inserted
  <2> QED
    BY <1>2, <1>t, <1>c, <2>1, <2>4, <2>6 DEF InsertReport, ReportTypes, TasksOK, TaskOf, Waiting, HandlerSteps
<1>3. ASSUME NEW h \in Handlers, PublishJob(h) PROVE Goal
  <2>1. task[h].report \in Reports /\ row[task[h].report].status # "absent"
    BY <1>3, <1>c DEF PublishJob, Doing, TaskOf
  <2> QED
    BY <1>3, <1>t, <1>c, <2>1, TaskEnds, JobAppended DEF PublishJob, ReportTypes, TasksOK, TaskOf, Waiting
<1>4. ASSUME NEW h \in Handlers, MarkFailed(h) PROVE Goal
  <2>1. task[h].report \in Reports
    BY <1>4, <1>c DEF MarkFailed, Doing, TaskOf
  <2> QED
    BY <1>4, <1>t, <1>c, <1>n, <2>1, TaskEnds, StatusSet DEF MarkFailed, ReportTypes, TasksOK, TaskOf, Waiting, Exists, Statuses
<1>5. ASSUME NEW h \in Handlers, ReadKey(h) \/ ReadKeyFails(h) PROVE Goal
  <2>1. PICK r \in Reports, pc \in {"object", "row"} : Exists(r) /\ DeletionOf(h, r, pc)
    BY <1>5 DEF ReadKey, ReadKeyFails
  <2>2. [pc |-> pc, report |-> r] \in Tasks
    BY DEF Tasks, HandlerSteps
  <2>3. /\ task' \in [Callers -> Tasks] /\ task'[h] = [pc |-> pc, report |-> r]
        /\ \A d \in Callers \ {h} : task'[d] = task[d]
        /\ asked' = asked \cup {r} /\ row[r].status # "absent"
    BY <1>c, <2>1, <2>2, TaskSet DEF DeletionOf, Exists
  <2>4. UNCHANGED <<row, objects, jobs, second, doubtful>> /\ failures' \in Nat
    BY <1>5, <1>t DEF ReadKey, ReadKeyFails, Failure
  <2> QED
    BY <1>t, <1>c, <2>3, <2>4 DEF ReportTypes, TasksOK, TaskOf, Waiting, HandlerSteps
<1>6. ASSUME NEW h \in Handlers, DeleteObject(h) PROVE Goal
  BY <1>6, <1>t, <1>c, TaskGoes DEF DeleteObject, ReportTypes, TasksOK, TaskOf, Waiting, HandlerSteps, Doing
<1>7. ASSUME NEW h \in Handlers, DeleteRow(h) PROVE Goal
  <2>1. task[h].report \in asked /\ task[h].report \in Reports
    BY <1>7, <1>c DEF DeleteRow, Doing, TaskOf
  <2>2. /\ row' \in [Reports -> Rows] /\ row'[task[h].report].status = "deleted"
        /\ \A q \in Reports \ {task[h].report} : row'[q] = row[q]
        /\ row'[task[h].report].name = row[task[h].report].name /\ row'[task[h].report].keyed = row[task[h].report].keyed
    BY <1>7, <1>t, <2>1 DEF DeleteRow, Rows, Statuses
  <2> QED
    BY <1>7, <1>t, <1>c, <2>1, <2>2, TaskEnds DEF DeleteRow, ReportTypes, TasksOK, TaskOf, Waiting
<1>8. ASSUME NEW p \in Pods, Deliver(p) PROVE Goal
  <2>1. [pc |-> "load", report |-> Head(jobs)] \in Tasks /\ Waiting(Head(jobs)) /\ Head(jobs) \in Reports
    BY <1>8, JobTaken DEF Deliver, Tasks, WorkerSteps, Waiting
  <2>2. /\ task' \in [Callers -> Tasks] /\ task'[p] = [pc |-> "load", report |-> Head(jobs)]
        /\ \A d \in Callers \ {p} : task'[d] = task[d]
    BY <1>8, <1>c, <2>1, TaskSet DEF Deliver
  <2>3. \A r \in Reports : Waiting(r)' => Waiting(r)
    BY <1>8, JobTaken DEF Deliver, Waiting
  <2>4. jobs' \in Seq(Reports)
    BY <1>8, JobTaken DEF Deliver
  <2> QED
    BY <1>8, <1>t, <1>c, <2>1, <2>2, <2>3, <2>4 DEF Deliver, ReportTypes, TasksOK, TaskOf, WorkerSteps
<1>9. ASSUME NEW p \in Pods, LoadReport(p) \/ Generate(p) \/ LoadName(p) PROVE Goal
  BY <1>9, <1>t, <1>c, TaskEnds, TaskGoes DEF LoadReport, Generate, LoadName, ReportTypes, TasksOK, TaskOf, Waiting, WorkerSteps, Doing
<1>10. ASSUME NEW p \in Pods, SetRunning(p) \/ SetCompleted(p) \/ SetFailed(p) PROVE Goal
  <2>1. task[p].report \in Reports /\ row[task[p].report].status # "absent"
    BY <1>10, <1>c DEF SetRunning, SetCompleted, SetFailed, Doing, TaskOf
  <2>2. PICK s \in Statuses \ {"absent", "deleted"} : UpdateStatus(task[p].report, s)
    BY <1>10 DEF SetRunning, SetCompleted, SetFailed, Statuses
  <2>3. /\ row' \in [Reports -> Rows]
        /\ \A r \in Reports : /\ row'[r].name = row[r].name /\ row'[r].keyed = row[r].keyed
                              /\ row[r].status # "absent" => row'[r].status # "absent"
                              /\ row'[r].status = "deleted" => row[r].status = "deleted"
    BY <2>1, <2>2, StatusSet DEF Exists
  <2>4. UNCHANGED <<objects, jobs, second, failures, asked, doubtful>> /\ (Goto(p, "generate") \/ Finish(p))
    BY <1>10 DEF SetRunning, SetCompleted, SetFailed
  <2> QED
    BY <1>10, <1>t, <1>c, <2>1, <2>3, <2>4, TaskEnds, TaskGoes DEF ReportTypes, TasksOK, TaskOf, Waiting, WorkerSteps, Doing
<1>11. ASSUME NEW p \in Pods, Upload(p) \/ UploadUnanswered(p) PROVE Goal
  <2>1. task[p].report \in Reports /\ row[task[p].report].status # "absent"
    BY <1>11, <1>c DEF Upload, UploadUnanswered, Doing, TaskOf
  <2>2. objects' \in [Names -> Reports \cup {None}] /\ failures' \in Nat
    BY <1>11, <1>t, <2>1 DEF Upload, UploadUnanswered, Failure
  <2>3. UNCHANGED <<row, jobs, second, asked, doubtful>> /\ (Goto(p, "save") \/ Goto(p, "failed"))
    BY <1>11 DEF Upload, UploadUnanswered
  <2> QED
    BY <1>t, <1>c, <2>1, <2>2, <2>3, TaskGoes DEF ReportTypes, TasksOK, TaskOf, Waiting, WorkerSteps
<1>12. ASSUME NEW p \in Pods, SaveKey(p) PROVE Goal
  <2>1. task[p].report \in Reports /\ row[task[p].report].status # "absent"
    BY <1>12, <1>c DEF SaveKey, Doing, TaskOf
  <2>2. /\ row' \in [Reports -> Rows]
        /\ \A r \in Reports : /\ row'[r].name = row[r].name /\ row'[r].status = row[r].status
                              /\ row[r].keyed => row'[r].keyed
    BY <1>12, <1>t, <2>1 DEF SaveKey, Rows
  <2> QED
    BY <1>12, <1>t, <1>c, <2>1, <2>2, TaskGoes DEF SaveKey, ReportTypes, TasksOK, TaskOf, Waiting, WorkerSteps, Doing
<1>13. ASSUME NEW h \in Handlers, PublishUnanswered(h) PROVE Goal
  <2>1. task[h].report \in Reports /\ row[task[h].report].status # "absent"
    BY <1>13, <1>c DEF PublishUnanswered, Doing, TaskOf
  <2>2. jobs' \in Seq(Reports) /\ \A r \in Reports : Waiting(r)' => Waiting(r) \/ r = task[h].report
    BY <1>13, <1>t, <2>1, JobAppended DEF PublishUnanswered, Waiting
  <2>3. /\ task' \in [Callers -> Tasks] /\ task'[h].pc \in {"publish", "unpublished"} /\ task'[h].report = task[h].report
        /\ \A d \in Callers \ {h} : task'[d] = task[d]
    BY <1>13, <1>c, <1>t, TaskGoes DEF PublishUnanswered, Doing, HandlerSteps
  <2>4. UNCHANGED <<row, objects, second, asked>> /\ failures' \in Nat /\ doubtful \subseteq doubtful' /\ doubtful' \subseteq Reports
    BY <1>13, <1>t, <2>1 DEF PublishUnanswered, Failure
  <2> QED
    BY <1>t, <1>c, <2>1, <2>2, <2>3, <2>4 DEF ReportTypes, TasksOK, TaskOf, HandlerSteps
<1>14. ASSUME NEW c \in Callers, CallFails(c) \/ Die(c) PROVE Goal
  <2>1. UNCHANGED <<row, objects, jobs, second, asked, doubtful>> /\ failures' \in Nat
    BY <1>14, <1>t DEF CallFails, Die, Failure
  <2>2. \/ Finish(c)
        \/ /\ Goto(c, "failed") /\ task[c].pc \in WorkerSteps
        \/ /\ Goto(c, "row") /\ task[c].pc = "object"
    BY <1>14 DEF CallFails, Die, AfterFailure, WorkerSteps
  <2>3. CASE Finish(c)
    BY <1>t, <1>c, <2>1, <2>3, TaskEnds DEF ReportTypes, TasksOK, TaskOf, Waiting
  <2>4. CASE Goto(c, "failed") /\ task[c].pc \in WorkerSteps
    <3>1. c \notin Handlers
      BY <1>c, <2>4 DEF TaskOf, HandlerSteps, WorkerSteps
    <3> QED
      BY <1>t, <1>c, <2>1, <2>4, <3>1, TaskGoes DEF ReportTypes, TasksOK, TaskOf, Waiting, WorkerSteps
  <2>5. CASE Goto(c, "row") /\ task[c].pc = "object"
    BY <1>t, <1>c, <2>1, <2>5, TaskGoes DEF ReportTypes, TasksOK, TaskOf, Waiting, HandlerSteps, WorkerSteps
  <2> QED
    BY <2>2, <2>3, <2>4, <2>5
<1>15. CASE SecondPasses \/ UNCHANGED reportVars
  <2>1. UNCHANGED <<row, objects, jobs, task, failures, asked, doubtful>> /\ second' \in 0..MaxSecond
    BY <1>15, <1>t, BoundsAssumption DEF SecondPasses, reportVars
  <2> QED
    BY <1>t, <1>c, <2>1 DEF ReportTypes, TasksOK, TaskOf, Waiting
<1> QED
  BY <1>1, <1>2, <1>3, <1>4, <1>5, <1>6, <1>7, <1>8, <1>9, <1>10, <1>11, <1>12, <1>13, <1>14, <1>15
     DEF NextReports, Create, Delete, WorkOn


\* The file of a completed report.
LEMMA FilesStep == FileInv /\ [NextReports]_reportVars => FileInv'
<1> SUFFICES ASSUME FileInv, [NextReports]_reportVars PROVE FileInv'
  OBVIOUS
<1> USE DEF history
<1>k. /\ ReportTypes /\ TasksOK /\ ReportTypes' /\ TasksOK'
      /\ \A r \in Reports : row[r].status # "absent" =>
           row'[r].status # "absent" /\ row'[r].name = row[r].name /\ (row[r].keyed => row'[r].keyed)
      /\ asked \subseteq asked'
  BY TasksStep DEF FileInv
<1>t. /\ row \in [Reports -> Rows] /\ objects \in [Names -> Reports \cup {None}]
      /\ jobs \in Seq(Reports) /\ task \in [Callers -> Tasks]
      /\ None \notin Reports
  BY <1>k, ReportsAssumption DEF ReportTypes
<1>c. /\ \A c \in Callers : TaskOf(c)
      /\ \A c \in Callers : TaskOf(c)'
      /\ \A r \in Reports : Waiting(r) => row[r].status # "absent"
      /\ \A r \in Reports : row[r].status = "deleted" => r \in asked
      /\ Handlers \subseteq Callers /\ Pods \subseteq Callers
  BY <1>k DEF TasksOK, Callers
<1>n. \A r \in Reports : row[r].name \in Names
  BY <1>t DEF Rows
<1>s. SUFFICES ASSUME NEW r \in Reports, Alone(r)', r \notin asked'
               PROVE  /\ \A c \in Callers : task'[c].pc \in {"save", "complete"} /\ task'[c].report = r =>
                           objects'[row'[r].name] = r
                      /\ \A c \in Callers : task'[c].pc = "complete" /\ task'[c].report = r => row'[r].keyed
                      /\ row'[r].status = "COMPLETED" => row'[r].keyed /\ objects'[row'[r].name] = r
  BY <1>k DEF FileInv, FileKept
<1> DEFINE Goal == /\ \A c \in Callers : task'[c].pc \in {"save", "complete"} /\ task'[c].report = r =>
                           objects'[row'[r].name] = r
                   /\ \A c \in Callers : task'[c].pc = "complete" /\ task'[c].report = r => row'[r].keyed
                   /\ row'[r].status = "COMPLETED" => row'[r].keyed /\ objects'[row'[r].name] = r
<1>a. r \notin asked
  BY <1>k, <1>s
<1>f. row[r].status # "absent" =>
        /\ \A c \in Callers : task[c].pc \in {"save", "complete"} /\ task[c].report = r =>
             objects[row[r].name] = r
        /\ \A c \in Callers : task[c].pc = "complete" /\ task[c].report = r => row[r].keyed
        /\ row[r].status = "COMPLETED" => row[r].keyed /\ objects[row[r].name] = r
        /\ row'[r].name = row[r].name /\ (row[r].keyed => row'[r].keyed)
  <2>1. row[r].status # "absent" => Alone(r)
    BY <1>k, <1>s DEF Alone
  <2> QED
    BY <1>a, <1>k, <2>1 DEF FileInv, FileKept
<1>w. \A c \in Callers : task[c].pc \in WorkerSteps =>
        /\ task[c].report \in Reports /\ row[task[c].report].status # "absent"
        /\ task[c].report # r => row[task[c].report].name # row'[r].name
  BY <1>c, <1>k, <1>s DEF TaskOf, WorkerSteps, Alone
\* Steps that touch neither files nor a job on its way from the upload to the end.
<1>0. ASSUME UNCHANGED objects,
             \A c \in Callers : task'[c].pc \in {"save", "complete"} => task'[c] = task[c],
             row'[r].status = "COMPLETED" => row[r].status = "COMPLETED"
      PROVE  Goal
  BY <1>0, <1>f, <1>w DEF WorkerSteps
<1>1. ASSUME NEW h \in Handlers, CountPending(h) PROVE Goal
  BY <1>1, <1>k, <1>c, <1>0, TaskGoes DEF CountPending, HandlerSteps
<1>2. ASSUME NEW h \in Handlers, InsertReport(h) PROVE Goal
  <2>1. PICK q \in Reports, f \in Formats :
          /\ row[q].status = "absent"
          /\ row' = [row EXCEPT ![q] = [status |-> "QUEUED", name |-> <<second, f>>, keyed |-> FALSE]]
          /\ Inserted(h, q)
    BY <1>2 DEF InsertReport
  <2>2. row'[r].status = "COMPLETED" => row[r].status = "COMPLETED"
    BY <2>1, <1>t
  <2>3. \A c \in Callers : task'[c].pc \in {"save", "complete"} => task'[c] = task[c]
    BY <2>1, <1>t DEF Inserted
  <2> QED
    BY <1>2, <1>0, <2>2, <2>3 DEF InsertReport
<1>3. ASSUME NEW h \in Handlers, PublishJob(h) PROVE Goal
  BY <1>3, <1>k, <1>c, <1>0, TaskEnds DEF PublishJob
<1>4. ASSUME NEW h \in Handlers, MarkFailed(h) PROVE Goal
  <2>1. task[h].report \in Reports
    BY <1>4, <1>c DEF MarkFailed, Doing, TaskOf
  <2> QED
    BY <1>4, <1>k, <1>c, <1>0, <2>1, TaskEnds, StatusSet DEF MarkFailed, Statuses
<1>5. ASSUME NEW h \in Handlers, ReadKey(h) \/ ReadKeyFails(h) PROVE Goal
  <2>1. PICK q \in Reports, pc \in {"object", "row"} : DeletionOf(h, q, pc)
    BY <1>5 DEF ReadKey, ReadKeyFails
  <2> QED
    BY <1>5, <1>t, <1>0, <2>1 DEF ReadKey, ReadKeyFails, DeletionOf
<1>6. ASSUME NEW h \in Handlers, DeleteObject(h) PROVE Goal
  <2>1. task[h].report \in Reports /\ task[h].report # r /\ row[task[h].report].name # row'[r].name
    BY <1>6, <1>c, <1>a, <1>k, <1>s DEF DeleteObject, Doing, TaskOf, Alone
  <2>2. objects'[row'[r].name] = objects[row'[r].name]
    BY <1>6, <1>t, <2>1 DEF DeleteObject
  <2>3. \A c \in Callers : task'[c].pc \in {"save", "complete"} => task'[c] = task[c]
    BY <1>6, <1>k, <1>c, TaskGoes DEF DeleteObject, HandlerSteps
  <2> QED
    BY <1>6, <1>f, <1>w, <2>2, <2>3 DEF DeleteObject, WorkerSteps
<1>7. ASSUME NEW h \in Handlers, DeleteRow(h) PROVE Goal
  <2>1. row'[r].status = "COMPLETED" => row[r].status = "COMPLETED"
    BY <1>7, <1>t, <1>c DEF DeleteRow, Doing, TaskOf, Rows
  <2> QED
    BY <1>7, <1>k, <1>c, <1>0, <2>1, TaskEnds DEF DeleteRow
<1>8. ASSUME NEW p \in Pods, Deliver(p) PROVE Goal
  BY <1>8, <1>t, <1>c, <1>0 DEF Deliver
<1>9. ASSUME NEW p \in Pods, LoadReport(p) \/ Generate(p) \/ LoadName(p) PROVE Goal
  <2>1. Finish(p) \/ \E pc \in WorkerSteps \ {"save", "complete"} : Goto(p, pc)
    BY <1>9 DEF LoadReport, Generate, LoadName, WorkerSteps
  <2>u. UNCHANGED <<row, objects>>
    BY <1>9 DEF LoadReport, Generate, LoadName
  <2>2. \A c \in Callers : task'[c].pc \in {"save", "complete"} => task'[c] = task[c]
    BY <1>k, <1>c, <2>1, TaskEnds, TaskGoes
  <2> QED
    BY <1>0, <2>2, <2>u
<1>10. ASSUME NEW p \in Pods, SetRunning(p) \/ SetFailed(p) PROVE Goal
  <2>1. task[p].report \in Reports
    BY <1>10, <1>c, <1>w DEF SetRunning, SetFailed, Doing, WorkerSteps
  <2>2. row'[r].status = "COMPLETED" => row[r].status = "COMPLETED"
    BY <1>10, <1>k, <2>1, StatusSet DEF SetRunning, SetFailed, Statuses
  <2> QED
    <3>1. Finish(p) \/ \E pc \in WorkerSteps \ {"save", "complete"} : Goto(p, pc)
      BY <1>10 DEF SetRunning, SetFailed, WorkerSteps
    <3>3. objects' = objects
      BY <1>10 DEF SetRunning, SetFailed
    <3>2. \A c \in Callers : task'[c].pc \in {"save", "complete"} => task'[c] = task[c]
      BY <1>k, <1>c, <3>1, TaskEnds, TaskGoes
    <3> QED
      BY <1>0, <2>2, <3>2, <3>3
<1>11. ASSUME NEW p \in Pods, SetCompleted(p) PROVE Goal
  <2>1. task[p].report \in Reports /\ task[p].pc = "complete"
    BY <1>11, <1>c, <1>w DEF SetCompleted, Doing, WorkerSteps
  <2>2. row'[r].status = "COMPLETED" => row[r].status = "COMPLETED" \/ task[p].report = r
    BY <1>11, <1>k, <2>1, StatusSet DEF SetCompleted, Statuses
  <2>3. \A c \in Callers : task'[c].pc \in {"save", "complete"} => task'[c] = task[c]
    BY <1>11, <1>k, <1>c, TaskEnds DEF SetCompleted
  <2> QED
    BY <1>11, <1>c, <1>f, <1>w, <2>1, <2>2, <2>3 DEF SetCompleted, WorkerSteps
<1>12. ASSUME NEW p \in Pods, Upload(p) \/ UploadUnanswered(p) PROVE Goal
  <2>1. task[p].report \in Reports /\ row[task[p].report].status # "absent" /\ row[task[p].report].name \in Names
        /\ (task[p].report # r => row[task[p].report].name # row'[r].name)
    BY <1>12, <1>c, <1>w, <1>n DEF Upload, UploadUnanswered, Doing, WorkerSteps
  <2>2. objects' = [objects EXCEPT ![row[task[p].report].name] = task[p].report]
        /\ row' = row /\ (Goto(p, "save") \/ Goto(p, "failed"))
    BY <1>12 DEF Upload, UploadUnanswered
  <2>3. IF task[p].report = r THEN objects'[row'[r].name] = r ELSE objects'[row'[r].name] = objects[row'[r].name]
    BY <1>t, <2>1, <2>2
  <2>4. \A c \in Callers : task'[c].pc \in {"save", "complete"} =>
          IF c = p THEN task'[c].pc = "save" /\ task'[c].report = task[p].report ELSE task'[c] = task[c]
    BY <1>k, <1>c, <2>2, TaskGoes DEF WorkerSteps
  <2> QED
    BY <1>f, <1>w, <2>1, <2>2, <2>3, <2>4 DEF WorkerSteps
<1>13. ASSUME NEW p \in Pods, SaveKey(p) PROVE Goal
  <2>1. task[p].report \in Reports /\ task[p].pc = "save" /\ p \in Callers
    BY <1>13, <1>c, <1>w DEF SaveKey, Doing, WorkerSteps
  <2>2. \A q \in Reports : row'[q].status = row[q].status
    BY <1>13, <1>t, <2>1 DEF SaveKey, Rows
  <2>3. task[p].report = r => row'[r].keyed
    <3>1. ASSUME task[p].report = r PROVE Exists(r)
      BY <1>a, <1>c, <1>w, <2>1, <3>1 DEF Exists, WorkerSteps
    <3> QED
      BY <1>13, <1>t, <2>1, <3>1 DEF SaveKey, Rows
  <2>4. \A c \in Callers : task'[c].pc \in {"save", "complete"} =>
          IF c = p THEN task'[c].pc = "complete" /\ task'[c].report = task[p].report ELSE task'[c] = task[c]
    BY <1>13, <1>k, <1>c, TaskGoes DEF SaveKey, WorkerSteps
  <2> QED
    BY <1>13, <1>f, <1>w, <2>1, <2>2, <2>3, <2>4 DEF SaveKey, WorkerSteps
<1>14. ASSUME NEW h \in Handlers, PublishUnanswered(h) PROVE Goal
  <2>1. \A c \in Callers : task'[c].pc \in {"save", "complete"} => task'[c] = task[c]
    BY <1>14, <1>k, <1>c, TaskGoes DEF PublishUnanswered, HandlerSteps
  <2> QED
    BY <1>14, <1>0, <2>1 DEF PublishUnanswered
<1>15. ASSUME NEW c \in Callers, CallFails(c) \/ Die(c) PROVE Goal
  <2>1. UNCHANGED <<row, objects>> /\ (Finish(c) \/ Goto(c, "failed") \/ Goto(c, "row"))
    BY <1>15 DEF CallFails, Die, AfterFailure
  <2> QED
    BY <1>k, <1>0, <2>1, TaskEnds, TaskGoes DEF WorkerSteps, HandlerSteps
<1>16. CASE SecondPasses \/ UNCHANGED reportVars
  BY <1>16, <1>0 DEF SecondPasses, reportVars
<1> QED
  BY <1>1, <1>2, <1>3, <1>4, <1>5, <1>6, <1>7, <1>8, <1>9, <1>10, <1>11, <1>12, <1>13, <1>14, <1>15, <1>16
     DEF NextReports, Create, Delete, WorkOn

\* For any number of reports, requests and pods, and whatever fails or dies: a
\* completed report that shares its name with no other has its own file.
THEOREM CompletedReportsHaveFiles == SpecReports => []CompletedHasFile
<1>1. InitReports => FileInv
  <2> SUFFICES ASSUME InitReports PROVE FileInv
    OBVIOUS
  <2>1. \A r \in Reports : row[r].status = "absent"
    BY DEF InitReports, Absent
  <2>2. \A c \in Callers : task[c].pc = "idle"
    BY DEF InitReports, NoTask
  <2> QED
    BY <2>1, <2>2, ReportTypesInit DEF FileInv, FileKept
<1>2. FileInv => CompletedHasFile
  BY DEF FileInv, FileKept, CompletedHasFile
<1> QED
  BY <1>1, <1>2, FilesStep, PTL DEF SpecReports


\* Where the job of a report is changes by the steps that pass it on.
LEMMA JobsStep == JobsInv /\ [NextReports]_reportVars => JobsInv'
<1> SUFFICES ASSUME JobsInv, [NextReports]_reportVars PROVE JobsInv'
  OBVIOUS
<1> USE DEF history
<1>k. /\ ReportTypes /\ TasksOK /\ ReportTypes' /\ TasksOK'
      /\ asked \subseteq asked' /\ doubtful \subseteq doubtful'
  BY TasksStep DEF JobsInv
<1>t. /\ row \in [Reports -> Rows] /\ jobs \in Seq(Reports) /\ task \in [Callers -> Tasks]
      /\ None \notin Reports
  BY <1>k, ReportsAssumption DEF ReportTypes
<1>c. /\ \A c \in Callers : TaskOf(c)
      /\ \A r \in Reports : Waiting(r) => row[r].status # "absent"
      /\ Handlers \subseteq Callers /\ Pods \subseteq Callers
  BY <1>k DEF TasksOK, Callers
<1>s. SUFFICES ASSUME NEW r \in Reports, r \notin doubtful' PROVE OneJob(r)'
  BY <1>k DEF JobsInv
<1>o. OneJob(r)
  BY <1>k, <1>s DEF JobsInv
<1> DEFINE Held(c) == task[c].pc \in WorkerSteps \cup {"publish", "unpublished"} /\ task[c].report = r
           HeldNext(c) == task'[c].pc \in WorkerSteps \cup {"publish", "unpublished"} /\ task'[c].report = r
\* Steps that leave the job where it is, or lose it, and do not complete the report.
<1>0. ASSUME jobs' = jobs, \A c \in Callers : HeldNext(c) => Held(c),
             row'[r].status = "COMPLETED" => row[r].status = "COMPLETED" \/ \E c \in Callers : Held(c) /\ ~HeldNext(c)
      PROVE  OneJob(r)'
  BY <1>0, <1>o DEF OneJob, Holds, Waiting
<1>1. ASSUME NEW h \in Handlers, CountPending(h) PROVE OneJob(r)'
  BY <1>1, <1>k, <1>c, <1>0, TaskGoes DEF CountPending, HandlerSteps, WorkerSteps
<1>2. ASSUME NEW h \in Handlers, InsertReport(h) PROVE OneJob(r)'
  <2>1. PICK q \in Reports, f \in Formats :
          /\ row[q].status = "absent"
          /\ row' = [row EXCEPT ![q] = [status |-> "QUEUED", name |-> <<second, f>>, keyed |-> FALSE]]
          /\ Inserted(h, q)
    BY <1>2 DEF InsertReport
  <2>2. \A c \in Callers : task[c].report = q => ~(task[c].pc \in WorkerSteps \cup {"publish", "unpublished"})
    BY <1>c, <2>1 DEF TaskOf, WorkerSteps
  <2>3. ~Waiting(q) /\ jobs' = jobs
    BY <1>2, <1>c, <2>1 DEF InsertReport
  <2>4. row'[r].status = "COMPLETED" => row[r].status = "COMPLETED" /\ r # q
    BY <1>t, <2>1
  <2>5. /\ task'[h] = [pc |-> "publish", report |-> q]
        /\ \A c \in Callers \ {h} : task'[c] = task[c]
    BY <1>c, <1>t, <2>1 DEF Inserted
  <2>6. CASE r = q
    BY <1>o, <2>2, <2>3, <2>4, <2>5, <2>6 DEF OneJob, Holds, Waiting
  <2>7. CASE r # q
    BY <1>0, <2>3, <2>4, <2>5, <2>7
  <2> QED
    BY <2>6, <2>7
<1>3. ASSUME NEW h \in Handlers, PublishJob(h) PROVE OneJob(r)'
  <2>1. /\ task[h].report \in Reports /\ task[h].pc = "publish" /\ row' = row
        /\ Len(jobs) \in Nat /\ Len(jobs') = Len(jobs) + 1 /\ jobs'[Len(jobs) + 1] = task[h].report
        /\ \A i \in 1..Len(jobs) : jobs'[i] = jobs[i]
    BY <1>3, <1>k, <1>c, JobAppended DEF PublishJob, Doing, TaskOf
  <2>2. \A c \in Callers : IF c = h THEN task'[c].pc = "idle" ELSE task'[c] = task[c]
    BY <1>3, <1>k, <1>c, TaskEnds DEF PublishJob
  <2>3. ~HeldNext(h)
    BY <1>c, <2>2 DEF WorkerSteps
  <2>4. CASE task[h].report = r
    <3>1. Held(h) /\ h \in Callers
      BY <1>c, <2>1, <2>4
    <3>2. /\ \A i \in 1..Len(jobs) : jobs[i] # r
          /\ \A c \in Callers : ~HeldNext(c)
          /\ row[r].status # "COMPLETED"
      BY <1>o, <2>2, <2>3, <3>1 DEF OneJob, Holds, Waiting
    <3>3. \A i, j \in 1..Len(jobs') : jobs'[i] = r /\ jobs'[j] = r => i = j
      BY <2>1, <3>2
    <3> QED
      BY <2>1, <3>2, <3>3 DEF OneJob, Holds, Waiting
  <2>5. CASE task[h].report # r
    <3>1. \A i \in 1..Len(jobs') : jobs'[i] = r => i \in 1..Len(jobs) /\ jobs[i] = r
      BY <2>1, <2>5
    <3> QED
      BY <1>o, <2>1, <2>2, <2>3, <3>1 DEF OneJob, Holds, Waiting
  <2> QED
    BY <2>4, <2>5
<1>4. ASSUME NEW h \in Handlers, MarkFailed(h) PROVE OneJob(r)'
  <2>1. task[h].report \in Reports
    BY <1>4, <1>c DEF MarkFailed, Doing, TaskOf
  <2> QED
    BY <1>4, <1>k, <1>c, <1>0, <2>1, TaskEnds, StatusSet DEF MarkFailed, Statuses, WorkerSteps
<1>5. ASSUME NEW h \in Handlers, ReadKey(h) \/ ReadKeyFails(h) PROVE OneJob(r)'
  <2>1. PICK q \in Reports, pc \in {"object", "row"} : DeletionOf(h, q, pc)
    BY <1>5 DEF ReadKey, ReadKeyFails
  <2> QED
    BY <1>5, <1>t, <1>0, <2>1 DEF ReadKey, ReadKeyFails, DeletionOf, WorkerSteps
<1>6. ASSUME NEW h \in Handlers, DeleteObject(h) \/ DeleteRow(h) PROVE OneJob(r)'
  <2>1. row'[r].status = "COMPLETED" => row[r].status = "COMPLETED"
    BY <1>6, <1>t, <1>c DEF DeleteObject, DeleteRow, Doing, TaskOf, Rows
  <2>2. jobs' = jobs /\ (Finish(h) \/ Goto(h, "row"))
    BY <1>6 DEF DeleteObject, DeleteRow
  <2>3. \A c \in Callers : HeldNext(c) => Held(c)
    BY <1>k, <1>c, <2>2, TaskEnds, TaskGoes DEF HandlerSteps, WorkerSteps
  <2> QED
    BY <1>0, <2>1, <2>2, <2>3
<1>7. ASSUME NEW p \in Pods, Deliver(p) PROVE OneJob(r)'
  <2>1. /\ Len(jobs) \in Nat /\ 1 \in 1..Len(jobs) /\ Len(jobs') = Len(jobs) - 1 /\ row' = row
        /\ \A i \in 1..Len(jobs') : i + 1 \in 1..Len(jobs) /\ jobs'[i] = jobs[i + 1]
        /\ task'[p] = [pc |-> "load", report |-> jobs[1]]
        /\ \A c \in Callers \ {p} : task'[c] = task[c]
    BY <1>7, <1>k, <1>c, <1>t, JobTaken DEF Deliver
  <2>2. ASSUME NEW i \in 1..Len(jobs'), jobs'[i] = r PROVE jobs[1] # r
    <3>1. i + 1 \in 1..Len(jobs) /\ jobs[i + 1] = r /\ i + 1 # 1
      BY <2>1, <2>2
    <3> QED
      BY <1>o, <2>1, <3>1 DEF OneJob
  <2>3. ASSUME NEW i \in 1..Len(jobs'), NEW j \in 1..Len(jobs'), jobs'[i] = r, jobs'[j] = r PROVE i = j
    <3>1. i + 1 \in 1..Len(jobs) /\ jobs[i + 1] = r /\ j + 1 \in 1..Len(jobs) /\ jobs[j + 1] = r
      BY <2>1, <2>3
    <3>2. i + 1 = j + 1
      BY <1>o, <3>1 DEF OneJob
    <3> QED
      BY <2>1, <3>2
  <2>4. (\E i \in 1..Len(jobs') : jobs'[i] = r) => Waiting(r)
    BY <2>1 DEF Waiting
  <2>5. CASE jobs[1] = r
    <3>1. Waiting(r)
      BY <2>1, <2>5 DEF Waiting
    <3>2. row[r].status # "COMPLETED" /\ \A c \in Callers : HeldNext(c) => c = p
      BY <1>o, <2>1, <3>1 DEF OneJob, Holds
    <3> QED
      BY <2>1, <2>2, <2>3, <2>5, <3>2 DEF OneJob, Holds, Waiting
  <2>6. CASE jobs[1] # r
    <3>1. \A c \in Callers : HeldNext(c) => Held(c)
      BY <2>1, <2>6
    <3> QED
      BY <1>o, <2>1, <2>3, <2>4, <3>1 DEF OneJob, Holds, Waiting
  <2> QED
    BY <2>5, <2>6
<1>8. ASSUME NEW p \in Pods,
             LoadReport(p) \/ Generate(p) \/ LoadName(p) \/ Upload(p) \/ UploadUnanswered(p) \/ SaveKey(p)
      PROVE  OneJob(r)'
  <2>1. task[p].report \in Reports /\ task[p].pc \in WorkerSteps
    BY <1>8, <1>c DEF LoadReport, Generate, LoadName, Upload, UploadUnanswered, SaveKey, Doing, TaskOf, WorkerSteps
  <2>2. jobs' = jobs /\ (Finish(p) \/ \E pc \in WorkerSteps : Goto(p, pc))
    BY <1>8 DEF LoadReport, Generate, LoadName, Upload, UploadUnanswered, SaveKey, WorkerSteps
  <2>3. row'[r].status = row[r].status
    BY <1>8, <1>t, <2>1 DEF LoadReport, Generate, LoadName, Upload, UploadUnanswered, SaveKey, Rows
  <2>4. \A c \in Callers : HeldNext(c) => Held(c)
    BY <1>k, <1>c, <2>1, <2>2, TaskEnds, TaskGoes DEF WorkerSteps
  <2> QED
    BY <1>0, <2>2, <2>3, <2>4
<1>9. ASSUME NEW p \in Pods, SetRunning(p) \/ SetCompleted(p) \/ SetFailed(p) PROVE OneJob(r)'
  <2>1. task[p].report \in Reports /\ task[p].pc \in WorkerSteps
    BY <1>9, <1>c DEF SetRunning, SetCompleted, SetFailed, Doing, TaskOf, WorkerSteps
  <2>2. jobs' = jobs /\ (Finish(p) \/ Goto(p, "generate"))
    BY <1>9 DEF SetRunning, SetCompleted, SetFailed
  <2>3. \A c \in Callers : HeldNext(c) => Held(c)
    BY <1>k, <1>c, <2>1, <2>2, TaskEnds, TaskGoes DEF WorkerSteps
  <2>4. row'[r].status = "COMPLETED" => row[r].status = "COMPLETED" \/ (Finish(p) /\ task[p].report = r)
    BY <1>9, <1>k, <2>1, StatusSet DEF SetRunning, SetCompleted, SetFailed, Statuses
  <2>5. Finish(p) => ~HeldNext(p)
    BY <1>k, <1>c, TaskEnds DEF WorkerSteps
  <2> QED
    BY <1>0, <1>c, <2>1, <2>2, <2>3, <2>4, <2>5
<1>10. ASSUME NEW h \in Handlers, PublishUnanswered(h) PROVE OneJob(r)'
  <2>1. task[h].report \in Reports /\ task[h].pc = "publish" /\ h \in Callers
    BY <1>10, <1>c DEF PublishUnanswered, Doing, TaskOf
  <2>2. \A c \in Callers : HeldNext(c) => Held(c)
    BY <1>10, <1>k, <2>1, TaskGoes DEF PublishUnanswered, HandlerSteps
  <2>3. CASE jobs' = jobs
    BY <1>10, <1>0, <2>2, <2>3 DEF PublishUnanswered
  <2>4. CASE jobs' # jobs
    <3>1. jobs' = Append(jobs, task[h].report) /\ r # task[h].report /\ row' = row
      BY <1>10, <1>s, <2>4 DEF PublishUnanswered
    <3>2. /\ Len(jobs) \in Nat /\ Len(jobs') = Len(jobs) + 1 /\ jobs'[Len(jobs) + 1] = task[h].report
          /\ \A i \in 1..Len(jobs) : jobs'[i] = jobs[i]
      BY <1>k, <2>1, <3>1, JobAppended
    <3>3. \A i \in 1..Len(jobs') : jobs'[i] = r => i \in 1..Len(jobs) /\ jobs[i] = r
      BY <3>1, <3>2
    <3> QED
      BY <1>o, <2>2, <3>1, <3>3 DEF OneJob, Holds, Waiting
  <2> QED
    BY <2>3, <2>4
<1>11. ASSUME NEW c \in Callers, CallFails(c) \/ Die(c) PROVE OneJob(r)'
  <2>1. UNCHANGED <<row, jobs>>
    BY <1>11 DEF CallFails, Die
  <2>2. \/ Finish(c)
        \/ Goto(c, "failed") /\ task[c].pc \in WorkerSteps
        \/ Goto(c, "row")
    BY <1>11 DEF CallFails, Die, AfterFailure, WorkerSteps
  <2>3. \A d \in Callers : HeldNext(d) => Held(d)
    BY <1>k, <2>2, TaskEnds, TaskGoes DEF WorkerSteps, HandlerSteps
  <2> QED
    BY <1>0, <2>1, <2>3
<1>12. CASE SecondPasses \/ UNCHANGED reportVars
  BY <1>12, <1>0 DEF SecondPasses, reportVars
<1> QED
  BY <1>1, <1>2, <1>3, <1>4, <1>5, <1>6, <1>7, <1>8, <1>9, <1>10, <1>11, <1>12
     DEF NextReports, Create, Delete, WorkOn

\* A completed report is not the business of any handler or worker but the one
\* that deletes it.
THEOREM CompletedReportsStay == SpecReports => CompletedStays
<1> DEFINE Act == \A r \in Reports \ doubtful : row[r].status = "COMPLETED"
                    => row'[r].status \in {"COMPLETED", "deleted"}
<1>1. InitReports => JobsInv
  <2> SUFFICES ASSUME InitReports PROVE JobsInv
    OBVIOUS
  <2>1. \A r \in Reports : row[r].status = "absent"
    BY DEF InitReports, Absent
  <2>2. \A c \in Callers : task[c].pc = "idle"
    BY DEF InitReports, NoTask
  <2>3. Len(jobs) = 0
    BY EmptySeq DEF InitReports
  <2> QED
    BY <2>1, <2>2, <2>3, ReportTypesInit DEF JobsInv, OneJob, Holds, Waiting, WorkerSteps
<1>2. JobsInv /\ [NextReports]_reportVars => [Act]_reportVars
  <2> SUFFICES ASSUME JobsInv, NextReports, NEW r \in Reports \ doubtful, row[r].status = "COMPLETED"
               PROVE  row'[r].status \in {"COMPLETED", "deleted"}
    OBVIOUS
  <2>k. /\ ReportTypes /\ \A c \in Callers : TaskOf(c) /\ ~Holds(c, r)
        /\ Handlers \subseteq Callers /\ Pods \subseteq Callers
    BY DEF JobsInv, OneJob, TasksOK, Callers
  <2>t. row \in [Reports -> Rows]
    BY <2>k DEF ReportTypes
  <2>1. ASSUME NEW h \in Handlers, InsertReport(h) PROVE row'[r] = row[r]
    BY <2>1, <2>t DEF InsertReport
  <2>2. ASSUME NEW c \in Callers, NEW s \in Statuses \ {"absent", "deleted"}, UpdateStatus(task[c].report, s),
               task[c].pc \in WorkerSteps \cup {"unpublished"}
        PROVE  row'[r] = row[r]
    <3>1. task[c].report \in Reports /\ task[c].report # r
      BY <2>2, <2>k DEF TaskOf, Holds, WorkerSteps
    <3> QED
      BY <2>2, <2>k, <3>1, StatusSet
  <2>3. ASSUME NEW h \in Handlers, MarkFailed(h) PROVE row'[r] = row[r]
    BY <2>3, <2>2, <2>k DEF MarkFailed, Doing, Statuses
  <2>4. ASSUME NEW p \in Pods, SetRunning(p) \/ SetCompleted(p) \/ SetFailed(p) PROVE row'[r] = row[r]
    <3>1. p \in Callers /\ task[p].pc \in WorkerSteps
      BY <2>4, <2>k DEF SetRunning, SetCompleted, SetFailed, Doing, WorkerSteps
    <3>2. PICK s \in Statuses \ {"absent", "deleted"} : UpdateStatus(task[p].report, s)
      BY <2>4 DEF SetRunning, SetCompleted, SetFailed, Statuses
    <3> QED
      BY <2>2, <3>1, <3>2
  <2>5. ASSUME NEW p \in Pods, SaveKey(p) PROVE row'[r].status = row[r].status
    BY <2>5, <2>t DEF SaveKey, Rows
  <2>6. ASSUME NEW h \in Handlers, DeleteRow(h) PROVE row'[r].status \in {row[r].status, "deleted"}
    BY <2>6, <2>t DEF DeleteRow, Rows
  <2>7. ASSUME \/ \E h \in Handlers : \/ CountPending(h) \/ PublishJob(h) \/ ReadKey(h) \/ DeleteObject(h)
                                      \/ PublishUnanswered(h) \/ ReadKeyFails(h)
               \/ \E p \in Pods : Deliver(p) \/ LoadReport(p) \/ Generate(p) \/ LoadName(p) \/ Upload(p)
                                  \/ UploadUnanswered(p)
               \/ \E c \in Callers : CallFails(c) \/ Die(c)
               \/ SecondPasses
        PROVE  row' = row
    BY <2>7 DEF CountPending, PublishJob, ReadKey, DeleteObject, PublishUnanswered, ReadKeyFails, Deliver,
       LoadReport, Generate, LoadName, Upload, UploadUnanswered, CallFails, Die, SecondPasses
  <2> QED
    BY <2>1, <2>3, <2>4, <2>5, <2>6, <2>7 DEF NextReports, Create, Delete, WorkOn
<1> QED
  BY <1>1, <1>2, JobsStep, PTL DEF SpecReports, CompletedStays


=============================================================================

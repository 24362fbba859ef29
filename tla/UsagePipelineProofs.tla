------------------------ MODULE UsagePipelineProofs ------------------------
(***************************************************************************)
(* Proofs about UsagePipeline for every set of events, workers, reporters  *)
(* and counters, every limit and any number of faults.                     *)
(***************************************************************************)
EXTENDS UsagePipeline, SumTheorems

\* Initially every variable has its type.
LEMMA TypeInit == Init => TypeOK
<1> USE ConstantsAssumption DEF TypeOK, HasMessage, Proc, Steps, Idle, LedgerRow,
        streamVars, procVars, dbVars, counterVars, faultVars
<1> SUFFICES ASSUME Init PROVE TypeOK
  OBVIOUS
<1> USE DEF Init
<1>1. stream \in Seq(Event) /\ delivered <= Len(stream)
  OBVIOUS
<1>2. next \in [Worker -> Nat \ {0}] /\ last \in [Worker -> Nat]
  OBVIOUS
<1>3. \A w \in Worker : last[w] <= delivered
  OBVIOUS
<1>4. pc \in [Proc -> Steps] /\ cur \in [Proc -> Event \cup {None}] /\ todo \in [Proc -> SUBSET Counter]
  OBVIOUS
<1>5. ledger \subseteq LedgerRow /\ spend \in [Counter -> Nat] /\ entry \in [Worker -> Nat]
  OBVIOUS
<1> QED
  BY <1>1, <1>2, <1>3, <1>4, <1>5

\* Every step keeps the types: an entry handed out is in the stream, and
\* a process at work has an event in hand.
LEMMA TypeStep == TypeOK /\ [Next]_vars => TypeOK'
<1>0. /\ BilledEvent \subseteq Event /\ Cost \in [Event -> Nat] /\ Worker \cap Reporter = {}
      /\ ReadCount \in Nat \ {0} /\ None \notin Event
  BY ConstantsAssumption
<1> USE <1>0 DEF TypeOK, HasMessage, Proc, Steps, Idle, LedgerRow,
        streamVars, procVars, dbVars, counterVars, faultVars
<1> SUFFICES ASSUME TypeOK, [Next]_vars PROVE TypeOK'
  OBVIOUS
<1>1. ASSUME NEW e \in Event, Publish(e) PROVE TypeOK'
  BY <1>1 DEF Publish
<1>2. CASE XGroupCreate
  BY <1>2 DEF XGroupCreate
<1>3. ASSUME NEW w \in Worker, XReadGroup(w) PROVE TypeOK'
  <2>1. BatchSize \in Nat /\ delivered + BatchSize <= Len(stream)
    BY <1>3 DEF XReadGroup, BatchSize
  <2> QED
    <3>1. next' \in [Worker -> Nat \ {0}] /\ last' \in [Worker -> Nat]
      BY <1>3, <2>1 DEF XReadGroup
    <3>2. \A v \in Worker : last'[v] <= delivered'
      <4>1. /\ last' = [last EXCEPT ![w] = delivered + BatchSize]
            /\ delivered' = delivered + BatchSize
        BY ONLY <1>3 DEF XReadGroup
      <4>2. /\ last \in [Worker -> Nat] /\ delivered \in Nat
            /\ \A v \in Worker : last[v] <= delivered
        OBVIOUS
      <4> QED
        BY ONLY <2>1, <4>1, <4>2
    <3>3. pel' \subseteq Nat
      BY <1>3, <2>1 DEF XReadGroup
    <3> QED
      BY <1>3, <2>1, <3>1, <3>2, <3>3 DEF XReadGroup
<1>4. ASSUME NEW w \in Worker, BeginMessage(w) PROVE TypeOK'
  <2>1. next[w] \in Nat \ {0} /\ last[w] \in Nat /\ last[w] <= delivered /\ next[w] <= last[w]
    BY <1>4 DEF BeginMessage
  <2>2. stream[next[w]] \in Event
    <3>1. next[w] \in 1..Len(stream)
      BY <2>1
    <3> QED
      BY <3>1
  <2>3. next' \in [Worker -> Nat \ {0}] /\ last' \in [Worker -> Nat]
    <3>1. next[w] + 1 \in Nat \ {0} /\ 1 \in Nat \ {0} /\ 0 \in Nat
      BY <2>1
    <3>2. /\ next' = [next EXCEPT ![w] = next[w] + 1] \/ next' = [next EXCEPT ![w] = 1]
          /\ last' = last \/ last' = [last EXCEPT ![w] = 0]
      BY ONLY <1>4 DEF BeginMessage
    <3>3. next \in [Worker -> Nat \ {0}] /\ last \in [Worker -> Nat]
      OBVIOUS
    <3> QED
      BY ONLY <3>1, <3>2, <3>3
  <2>4. \A v \in Worker : last'[v] <= delivered'
    <3>1. /\ last' = last \/ last' = [last EXCEPT ![w] = 0]
          /\ delivered' = delivered
      BY ONLY <1>4 DEF BeginMessage, streamVars
    <3>2. /\ last \in [Worker -> Nat] /\ delivered \in Nat
          /\ \A v \in Worker : last[v] <= delivered
      OBVIOUS
    <3> QED
      BY ONLY <3>1, <3>2
  <2>5. /\ entry' \in [Worker -> Nat] /\ pc' \in [Proc -> Steps]
        /\ cur' \in [Proc -> Event \cup {None}]
        /\ \A p \in Proc : pc'[p] # Idle => cur'[p] \in Event
    <3>1. /\ entry' = [entry EXCEPT ![w] = next[w]]
          /\ pc' = [pc EXCEPT ![w] = "price"]
          /\ cur' = [cur EXCEPT ![w] = stream[next[w]]]
      BY ONLY <1>4 DEF BeginMessage, Goto
    <3>2. /\ entry \in [Worker -> Nat] /\ pc \in [Proc -> Steps]
          /\ cur \in [Proc -> Event \cup {None}]
          /\ \A p \in Proc : pc[p] # Idle => cur[p] \in Event
          /\ "price" \in Steps /\ w \in Proc
      OBVIOUS
    <3> QED
      BY ONLY <2>1, <2>2, <3>1, <3>2
  <2> QED
    BY <1>4, <2>3, <2>4, <2>5 DEF BeginMessage
<1>5. ASSUME NEW r \in Reporter, NEW e \in Event, BeginReport(r, e) PROVE TypeOK'
  BY <1>5 DEF BeginReport, Goto
<1>6. ASSUME NEW p \in Proc, ProcessStep(p) PROVE TypeOK'
  <2>1. CASE CheckBudget(p)
    <3>1. CASE Advance(p, "log")
      BY <2>1, <3>1 DEF CheckBudget, Advance, Goto
    <3>2. CASE Advance(p, "ledger")
      BY <2>1, <3>2 DEF CheckBudget, Advance, Goto
    <3>3. CASE Finish(p)
      BY <2>1, <3>3 DEF CheckBudget, Finish, Goto
    <3> QED
      BY <2>1, <3>1, <3>2, <3>3 DEF CheckBudget
  <2>2. CASE ResolveFails(p)
    BY <2>2 DEF ResolveFails, Finish, Goto, Fault
  <2>3. CASE CheckSkipped(p)
    BY <2>3 DEF CheckSkipped, Advance, Goto, Fault
  <2>4. CASE WriteLedger(p)
    <3>1a. cur[p] \in Event /\ [event |-> cur[p], billing |-> Billing(p)] \in LedgerRow
      BY <2>4 DEF WriteLedger, Billing
    <3>1b. Cost[cur[p]] \in Nat
      BY <3>1a
    <3>1c. ledger' \subseteq LedgerRow
      BY <2>4, <3>1a DEF WriteLedger
    <3>1. ledger' \subseteq LedgerRow /\ ledgerSum' \in Nat
      BY <2>4, <3>1b, <3>1c DEF WriteLedger
    <3>2. CASE APIUsageBilled(p)
      BY <2>4, <3>1, <3>1a, <3>2 DEF WriteLedger, Goto
    <3>3. CASE ~APIUsageBilled(p)
      BY <2>4, <3>1, <3>1a, <3>3 DEF WriteLedger, Goto
    <3> QED
      BY <3>2, <3>3
  <2>5. CASE InsertFails(p)
    BY <2>5 DEF InsertFails, Finish, Goto, Fault
  <2>6. ASSUME NEW c \in Counter, IncrementBudget(p, c) PROVE TypeOK'
    BY <2>6 DEF IncrementBudget
  <2>7. ASSUME NEW c \in Counter, IncrementFails(p, c) PROVE TypeOK'
    BY <2>7 DEF IncrementFails, Fault
  <2>8. CASE ProcessReturns(p)
    BY <2>8 DEF ProcessReturns, Advance, Goto
  <2>9. CASE CreateUsageLog(p)
    <3>1. CASE Advance(p, "ack")
      BY <2>9, <3>1 DEF CreateUsageLog, Advance, Goto
    <3>2. CASE Finish(p)
      BY <2>9, <3>2 DEF CreateUsageLog, Finish, Goto
    <3> QED
      BY <2>9, <3>1, <3>2 DEF CreateUsageLog
  <2> QED
    BY <1>6, <2>1, <2>2, <2>3, <2>4, <2>5, <2>6, <2>7, <2>8, <2>9 DEF ProcessStep
<1>7. ASSUME NEW w \in Worker, XAck(w) PROVE TypeOK'
  BY <1>7 DEF XAck, Finish, Goto
<1>8. ASSUME NEW w \in Worker, XAckFails(w) PROVE TypeOK'
  BY <1>8 DEF XAckFails, Finish, Goto, Fault
<1>9. ASSUME NEW w \in Worker, Crash(w) PROVE TypeOK'
  BY <1>9 DEF Crash, Fault
<1>10. ASSUME NEW c \in Counter, Evict(c) PROVE TypeOK'
  BY <1>10 DEF Evict, Fault
<1>11. CASE UNCHANGED vars
  BY <1>11 DEF vars
<1> QED
  BY <1>1, <1>2, <1>3, <1>4, <1>5, <1>6, <1>7, <1>8, <1>9, <1>10, <1>11
     DEF Next, WorkerStep

\* The variables are always well typed: in particular the group never runs
\* ahead of the stream and no step of process runs without its event.
THEOREM TypeCorrect == Spec => []TypeOK
BY TypeInit, TypeStep, PTL DEF Spec

-----------------------------------------------------------------------------
\* Rows are only ever added: the stream, the ledger and the usage log grow.
LEMMA RowsStay ==
  TypeOK /\ [Next]_vars =>
    /\ ledger \subseteq ledger' /\ usageLog \subseteq usageLog'
    /\ Len(stream) <= Len(stream')
    /\ \A i \in 1..Len(stream) : stream'[i] = stream[i]
<1> SUFFICES ASSUME TypeOK, [Next]_vars
             PROVE  /\ ledger \subseteq ledger' /\ usageLog \subseteq usageLog'
                    /\ Len(stream) <= Len(stream')
                    /\ \A i \in 1..Len(stream) : stream'[i] = stream[i]
  OBVIOUS
<1> USE DEF streamVars, procVars, dbVars, counterVars, faultVars
<1>1. stream' = stream \/ \E e \in Event : stream' = Append(stream, e)
  BY DEF Next, vars, WorkerStep, ProcessStep, Publish, XGroupCreate, XReadGroup, BeginMessage,
     BeginReport, CheckBudget, ResolveFails, CheckSkipped, WriteLedger, InsertFails,
     IncrementBudget, IncrementFails, ProcessReturns, CreateUsageLog, XAck, XAckFails,
     Crash, Evict
<1>2. ledger \subseteq ledger' /\ usageLog \subseteq usageLog'
  BY DEF Next, vars, WorkerStep, ProcessStep, Publish, XGroupCreate, XReadGroup, BeginMessage,
     BeginReport, CheckBudget, ResolveFails, CheckSkipped, WriteLedger, InsertFails,
     IncrementBudget, IncrementFails, ProcessReturns, CreateUsageLog, XAck, XAckFails,
     Crash, Evict
<1>3. CASE stream' = stream
  BY <1>2, <1>3 DEF TypeOK
<1>4. ASSUME NEW e \in Event, stream' = Append(stream, e)
      PROVE  Len(stream) <= Len(stream') /\ \A i \in 1..Len(stream) : stream'[i] = stream[i]
  BY <1>4 DEF TypeOK
<1> QED
  BY <1>1, <1>2, <1>3, <1>4

\* Hence an event that was recorded, or charged, stays so.
LEMMA RecordedStays ==
  TypeOK /\ [Next]_vars =>
    \A e \in Event : (InLedger(e) => InLedger(e)') /\ (Recorded(e) => Recorded(e)')
BY RowsStay DEF InLedger, Recorded

\* The strengthening of AckedIsRecorded and ChargedOnce that every step keeps.
SafetyInv == TypeOK /\ HandInv /\ AckedIsRecorded /\ ChargedOnce

\* A hand that a step does not touch stays in order.
LEMMA HandStays ==
  ASSUME SafetyInv, [Next]_vars, TypeOK', NEW q \in Proc, delivered <= delivered',
         pc'[q] = pc[q], cur'[q] = cur[q], q \in Worker => entry'[q] = entry[q]
  PROVE  HandOK(q)'
<1>0. TypeOK /\ HandOK(q)
  BY DEF SafetyInv, HandInv
<1>1. ASSUME q \in Worker, pc'[q] # Idle
      PROVE  entry'[q] \in 1..delivered' /\ stream'[entry'[q]] = cur'[q]
  <2>1. entry[q] \in 1..delivered /\ stream[entry[q]] = cur[q]
    BY <1>0, <1>1 DEF HandOK
  <2>2. entry[q] \in 1..Len(stream) /\ entry[q] \in 1..delivered'
    BY <1>0, <2>1 DEF TypeOK
  <2>3. stream'[entry[q]] = stream[entry[q]]
    BY <1>0, <2>2, RowsStay
  <2> QED
    BY <1>1, <2>1, <2>2, <2>3
<1>2. pc[q] # Idle => cur[q] \in Event
  BY <1>0 DEF TypeOK
<1>3. cur[q] \in Event =>
        (InLedger(cur[q]) => InLedger(cur[q])') /\ (Recorded(cur[q]) => Recorded(cur[q])')
  BY <1>0, RowsStay DEF InLedger, Recorded
<1> QED
  BY <1>0, <1>1, <1>2, <1>3 DEF HandOK, Idle

\* An entry outside the pending list stays recorded; a step may only add
\* entries to that class whose event is recorded.
LEMMA AckedStays ==
  ASSUME SafetyInv, [Next]_vars, TypeOK',
         \A i \in (skipped' + 1)..delivered' : i \notin pel' =>
            /\ i \in 1..Len(stream)
            /\ (i \in (skipped + 1)..delivered /\ i \notin pel) \/ Recorded(stream[i])
  PROVE  AckedIsRecorded'
<1> SUFFICES ASSUME NEW i \in (skipped' + 1)..delivered', i \notin pel'
             PROVE  Recorded(stream[i])'
  BY DEF AckedIsRecorded
<1>1. TypeOK /\ i \in 1..Len(stream) /\ Recorded(stream[i])
  BY DEF SafetyInv, AckedIsRecorded
<1>2. stream[i] \in Event /\ stream'[i] = stream[i]
  BY <1>1, RowsStay DEF TypeOK
<1> QED
  BY <1>1, <1>2, RowsStay DEF InLedger, Recorded

\* Every step keeps SafetyInv: HandStays and AckedStays leave, for each
\* action, its own hand and the entries it takes off the pending list.
LEMMA SafetyStep == SafetyInv /\ [Next]_vars => SafetyInv'
<1> SUFFICES ASSUME SafetyInv, [Next]_vars PROVE SafetyInv'
  OBVIOUS
<1>t. TypeOK /\ TypeOK'
  BY TypeStep DEF SafetyInv
<1> USE DEF streamVars, procVars, dbVars, counterVars, faultVars, Proc
<1> DEFINE Hands == UNCHANGED <<pc, cur, entry>>
           Pending == UNCHANGED <<delivered, skipped, pel>>
           Rows == UNCHANGED <<ledger, usageLog>>
           Hand(p) == /\ pc' = [pc EXCEPT ![p] = pc'[p]]
                      /\ cur' = [cur EXCEPT ![p] = cur'[p]]
                      /\ p \in Worker => entry' = [entry EXCEPT ![p] = entry'[p]]
                      /\ p \in Reporter => entry' = entry
<1>a. Pending => AckedIsRecorded'
  BY <1>t, AckedStays DEF TypeOK
<1>b. Rows => ChargedOnce'
  BY DEF SafetyInv, ChargedOnce, Recorded, InLedger
<1>c. Hands /\ delivered <= delivered' => HandInv'
  BY <1>t, HandStays DEF HandInv
<1>d. ASSUME NEW p \in Proc, Hand(p), Pending, HandOK(p)' PROVE HandInv'
  <2> SUFFICES ASSUME NEW q \in Proc PROVE HandOK(q)'
    BY DEF HandInv
  <2>1. CASE q = p
    BY <1>d, <2>1
  <2>2. CASE q # p
    <3>1. pc'[q] = pc[q] /\ cur'[q] = cur[q]
      BY <1>d, <1>t, <2>2 DEF TypeOK
    <3>2. q \in Worker => entry'[q] = entry[q]
      BY <1>d, <1>t, <2>2 DEF TypeOK
    <3>3. delivered <= delivered'
      BY <1>d, <1>t DEF TypeOK
    <3> QED
      BY <1>t, <3>1, <3>2, <3>3, HandStays
  <2> QED
    BY <2>1, <2>2
<1>e. ASSUME NEW p \in Proc, Finish(p) PROVE Hand(p) /\ HandOK(p)'
  BY <1>e, <1>t, ConstantsAssumption DEF Finish, Goto, HandOK, Idle, TypeOK
<1>f. ASSUME NEW p \in Proc, NEW s \in Steps, Advance(p, s), pc[p] # Idle, Pending,
             s = "count" => InLedger(cur[p])',
             s = "log" => cur[p] \in UnpricedEvent \/ InLedger(cur[p])',
             s = "ack" => p \in Worker /\ Recorded(cur[p])'
      PROVE  Hand(p) /\ HandOK(p)'
  <2>1. Hand(p) /\ pc'[p] = s /\ cur'[p] = cur[p]
    BY <1>f, <1>t DEF Advance, Goto, TypeOK
  <2>2. p \in Worker => entry[p] \in 1..delivered /\ stream[entry[p]] = cur[p]
    BY <1>f DEF SafetyInv, HandInv, HandOK
  <2>3. p \in Worker => stream'[entry[p]] = stream[entry[p]]
    <3>1. p \in Worker => entry[p] \in 1..Len(stream)
      BY <1>t, <2>2 DEF TypeOK
    <3> QED
      BY <1>t, <3>1, RowsStay
  <2>4. p \in Worker => entry'[p] \in 1..delivered' /\ stream'[entry'[p]] = cur'[p]
    BY <1>f, <2>1, <2>2, <2>3 DEF Advance
  <2>5. cur' = cur
    BY <1>f DEF Advance
  <2>6. /\ s = "count" => InLedger(cur[p])'
        /\ s = "log" => (cur[p] \in UnpricedEvent)' \/ InLedger(cur[p])'
        /\ s = "ack" => p \in Worker /\ Recorded(cur[p])'
    BY <1>f, <2>5
  <2> QED
    BY <2>1, <2>4, <2>6 DEF HandOK
<1> HIDE DEF Hand
<1>1. ASSUME NEW e \in Event, Publish(e) PROVE SafetyInv'
  BY <1>1, <1>a, <1>b, <1>c, <1>t DEF Publish, SafetyInv, TypeOK
<1>2. CASE XGroupCreate
  <2>1. delivered <= delivered'
    BY <1>2, <1>t DEF XGroupCreate, TypeOK
  <2>2. AckedIsRecorded'
    BY <1>2, <1>t DEF XGroupCreate, AckedIsRecorded, TypeOK
  <2> QED
    BY <1>2, <1>b, <1>c, <1>t, <2>1, <2>2 DEF XGroupCreate, SafetyInv
<1>3. ASSUME NEW w \in Worker, XReadGroup(w) PROVE SafetyInv'
  <2>1. delivered' = delivered + BatchSize /\ BatchSize \in Nat
        /\ delivered + BatchSize <= Len(stream)
    BY <1>3, <1>t, ConstantsAssumption DEF XReadGroup, BatchSize, TypeOK
  <2>2. delivered <= delivered'
    BY <1>t, <2>1 DEF TypeOK
  <2>3. \A i \in (skipped' + 1)..delivered' : i \notin pel' =>
          i \in 1..Len(stream) /\ i \in (skipped + 1)..delivered /\ i \notin pel
    BY <1>3, <1>t, <2>1 DEF XReadGroup, TypeOK
  <2>4. AckedIsRecorded'
    BY <1>t, <2>3, AckedStays
  <2> QED
    BY <1>3, <1>b, <1>c, <1>t, <2>2, <2>4 DEF XReadGroup, SafetyInv
<1>4. ASSUME NEW w \in Worker, BeginMessage(w) PROVE SafetyInv'
  <2>1. next[w] \in 1..delivered
    BY <1>4, <1>t DEF BeginMessage, HasMessage, TypeOK
  <2>2. Hand(w) /\ HandOK(w)'
    BY <1>4, <1>t, <2>1, ConstantsAssumption DEF BeginMessage, Goto, HandOK, Hand, TypeOK
  <2> QED
    BY <1>4, <1>a, <1>b, <1>d, <1>t, <2>2 DEF BeginMessage, SafetyInv
<1>5. ASSUME NEW r \in Reporter, NEW e \in Event, BeginReport(r, e) PROVE SafetyInv'
  <2>2. Hand(r) /\ HandOK(r)'
    BY <1>5, <1>t, ConstantsAssumption DEF BeginReport, Goto, HandOK, Hand, TypeOK
  <2> QED
    BY <1>5, <1>a, <1>b, <1>d, <1>t, <2>2 DEF BeginReport, SafetyInv
<1>6. ASSUME NEW p \in Proc, CheckBudget(p) PROVE SafetyInv'
  <2>1. CASE Finish(p)
    BY <1>6, <1>a, <1>b, <1>d, <1>e, <1>t, <2>1 DEF CheckBudget, SafetyInv
  <2>2. CASE cur[p] \in UnpricedEvent /\ Advance(p, "log")
    <3>1. Hand(p) /\ HandOK(p)'
      BY <1>6, <1>f, <2>2 DEF CheckBudget, Steps, Idle
    <3> QED
      BY <1>6, <1>a, <1>b, <1>d, <1>t, <3>1 DEF CheckBudget, SafetyInv
  <2>3. CASE Advance(p, "ledger")
    <3>1. Hand(p) /\ HandOK(p)'
      BY <1>6, <1>f, <2>3 DEF CheckBudget, Steps, Idle
    <3> QED
      BY <1>6, <1>a, <1>b, <1>d, <1>t, <3>1 DEF CheckBudget, SafetyInv
  <2> QED
    BY <1>6, <2>1, <2>2, <2>3 DEF CheckBudget
<1>7. ASSUME NEW p \in Proc, ResolveFails(p) \/ InsertFails(p) PROVE SafetyInv'
  BY <1>7, <1>a, <1>b, <1>d, <1>e, <1>t DEF ResolveFails, InsertFails, SafetyInv
<1>8. ASSUME NEW p \in Proc, CheckSkipped(p) PROVE SafetyInv'
  <2>1. Hand(p) /\ HandOK(p)'
    BY <1>8, <1>f DEF CheckSkipped, Steps, Idle
  <2> QED
    BY <1>8, <1>a, <1>b, <1>d, <1>t, <2>1 DEF CheckSkipped, SafetyInv
<1>9. ASSUME NEW p \in Proc, WriteLedger(p) PROVE SafetyInv'
  <2>1. InLedger(cur[p])' /\ cur' = cur
    <3> DEFINE row == [event |-> cur[p], billing |-> Billing(p)]
    <3>1. cur' = cur
      BY <1>9 DEF WriteLedger
    <3>2. CASE InLedger(cur[p])
      BY <1>9, <3>1, <3>2 DEF WriteLedger, InLedger
    <3>3. CASE ~InLedger(cur[p])
      <4>1. row \in ledger' /\ row.event = cur[p]
        BY <1>9, <3>3 DEF WriteLedger
      <4> QED
        BY <3>1, <4>1 DEF InLedger
    <3> QED
      BY <3>1, <3>2, <3>3
  <2>2. pc' = [pc EXCEPT ![p] = "count"] \/ pc' = [pc EXCEPT ![p] = "log"]
    BY <1>9 DEF WriteLedger, Goto
  <2>3. Hand(p)
    BY <1>9, <1>t, <2>2 DEF WriteLedger, Hand, TypeOK
  <2>4. pc[p] # Idle /\ (p \in Worker => entry[p] \in 1..delivered /\ stream[entry[p]] = cur[p])
    BY <1>9 DEF WriteLedger, Idle, SafetyInv, HandInv, HandOK
  <2>5. HandOK(p)'
    <3>1. pc'[p] = "count" \/ pc'[p] = "log"
      BY <1>t, <2>2 DEF TypeOK
    <3>2. p \in Worker => entry'[p] \in 1..delivered' /\ stream'[entry'[p]] = cur'[p]
      BY <1>9, <2>1, <2>4 DEF WriteLedger
    <3> QED
      BY <2>1, <3>1, <3>2 DEF HandOK
  <2>6. \A r1, r2 \in ledger' : r1.event = r2.event => r1 = r2
    BY <1>9 DEF WriteLedger, InLedger, SafetyInv, ChargedOnce
  <2>7. \A e \in usageLog' : Recorded(e)'
    BY <1>9, <1>t, RowsStay DEF WriteLedger, InLedger, Recorded, SafetyInv, ChargedOnce
  <2> QED
    BY <1>9, <1>a, <1>d, <1>t, <2>3, <2>5, <2>6, <2>7 DEF WriteLedger, SafetyInv, ChargedOnce
<1>10. ASSUME NEW p \in Proc, NEW c \in Counter, IncrementBudget(p, c) \/ IncrementFails(p, c)
       PROVE  SafetyInv'
  <2>1. Hands /\ Pending /\ Rows /\ delivered <= delivered'
    BY <1>10, <1>t DEF IncrementBudget, IncrementFails, TypeOK
  <2> QED
    BY <1>a, <1>b, <1>c, <1>t, <2>1 DEF SafetyInv
<1>11. ASSUME NEW p \in Proc, ProcessReturns(p) PROVE SafetyInv'
  <2>1. InLedger(cur[p])'
    BY <1>11 DEF ProcessReturns, Advance, InLedger, SafetyInv, HandInv, HandOK
  <2>2. Hand(p) /\ HandOK(p)'
    BY <1>11, <1>f, <2>1 DEF ProcessReturns, Steps, Idle
  <2> QED
    BY <1>11, <1>a, <1>b, <1>d, <1>t, <2>2 DEF ProcessReturns, SafetyInv
<1>12. ASSUME NEW p \in Proc, CreateUsageLog(p) PROVE SafetyInv'
  <2>1. cur[p] \in UnpricedEvent \/ InLedger(cur[p])
    BY <1>12 DEF CreateUsageLog, SafetyInv, HandInv, HandOK
  <2>2. ChargedOnce'
    BY <1>12, <2>1 DEF CreateUsageLog, SafetyInv, ChargedOnce, Recorded, InLedger
  <2>3. CASE Finish(p)
    BY <1>12, <1>a, <1>d, <1>e, <1>t, <2>2, <2>3 DEF CreateUsageLog, SafetyInv
  <2>4. CASE p \in Worker /\ Advance(p, "ack")
    <3>1. Recorded(cur[p])'
      BY <1>12, <2>1, <2>4 DEF CreateUsageLog, Advance, Recorded, InLedger
    <3>2. Hand(p) /\ HandOK(p)'
      BY <1>12, <1>f, <2>4, <3>1 DEF CreateUsageLog, Steps, Idle
    <3> QED
      BY <1>12, <1>a, <1>d, <1>t, <2>2, <3>2 DEF CreateUsageLog, SafetyInv
  <2> QED
    BY <1>12, <2>3, <2>4 DEF CreateUsageLog
<1>13. ASSUME NEW w \in Worker, XAck(w) PROVE SafetyInv'
  <2>1. entry[w] \in 1..delivered /\ stream[entry[w]] = cur[w] /\ Recorded(cur[w])
    BY <1>13 DEF XAck, Idle, SafetyInv, HandInv, HandOK
  <2>2. \A i \in (skipped' + 1)..delivered' : i \notin pel' =>
          /\ i \in 1..Len(stream)
          /\ (i \in (skipped + 1)..delivered /\ i \notin pel) \/ Recorded(stream[i])
    BY <1>13, <1>t, <2>1 DEF XAck, TypeOK
  <2>3. AckedIsRecorded'
    BY <1>t, <2>2, AckedStays
  <2>4. HandInv'
    <3> SUFFICES ASSUME NEW q \in Proc PROVE HandOK(q)'
      BY DEF HandInv
    <3>1. delivered <= delivered'
      BY <1>13, <1>t DEF XAck, TypeOK
    <3>2. q # w => pc'[q] = pc[q] /\ cur'[q] = cur[q] /\ (q \in Worker => entry'[q] = entry[q])
      BY <1>13, <1>t DEF XAck, Finish, Goto, TypeOK
    <3> QED
      BY <1>13, <1>e, <1>t, <3>1, <3>2, HandStays DEF XAck
  <2> QED
    BY <1>13, <1>b, <1>t, <2>3, <2>4 DEF XAck, SafetyInv
<1>14. ASSUME NEW w \in Worker, XAckFails(w) PROVE SafetyInv'
  BY <1>14, <1>a, <1>b, <1>d, <1>e, <1>t DEF XAckFails, SafetyInv
<1>15. ASSUME NEW w \in Worker, Crash(w) PROVE SafetyInv'
  <2>1. Hand(w) /\ HandOK(w)'
    BY <1>15, <1>t, ConstantsAssumption DEF Crash, HandOK, Hand, Idle, TypeOK
  <2> QED
    BY <1>15, <1>a, <1>b, <1>d, <1>t, <2>1 DEF Crash, SafetyInv
<1>16. ASSUME NEW c \in Counter, Evict(c) PROVE SafetyInv'
  <2>1. Hands /\ Pending /\ Rows /\ delivered <= delivered'
    BY <1>16, <1>t DEF Evict, TypeOK
  <2> QED
    BY <1>a, <1>b, <1>c, <1>t, <2>1 DEF SafetyInv
<1>17. CASE UNCHANGED vars
  <2>1. Hands /\ Pending /\ Rows /\ delivered <= delivered'
    BY <1>17, <1>t DEF vars, TypeOK
  <2> QED
    BY <1>a, <1>b, <1>c, <1>t, <2>1 DEF SafetyInv
<1> QED
  BY <1>1, <1>2, <1>3, <1>4, <1>5, <1>6, <1>7, <1>8, <1>9, <1>10, <1>11, <1>12, <1>13,
     <1>14, <1>15, <1>16, <1>17 DEF Next, WorkerStep, ProcessStep

\* At the start nothing was acknowledged, charged or logged.
LEMMA SafetyInit == Init => SafetyInv
<1>1. Init => HandInv /\ AckedIsRecorded /\ ChargedOnce
  BY DEF Init, HandInv, HandOK, AckedIsRecorded, ChargedOnce, Idle, Proc
<1> QED
  BY <1>1, TypeInit DEF SafetyInv

\* An acknowledged message has its usage_logs row and its ledger row, and no
\* event is charged twice: for any number of pods, reports, duplicates,
\* crashes and database or Redis failures.
THEOREM AckedOnlyWhenRecorded == Spec => [](AckedIsRecorded /\ ChargedOnce)
<1>1. SafetyInv => AckedIsRecorded /\ ChargedOnce
  BY DEF SafetyInv
<1> QED
  BY <1>1, SafetyInit, SafetyStep, PTL DEF Spec

-----------------------------------------------------------------------------
(* The refinement: every step is one operation of UsageLedger or none. *)

\* Before the group exists nothing is delivered.
GroupInv == ~group => delivered = 0 /\ skipped = 0

\* Every step keeps GroupInv.
LEMMA GroupStep == GroupInv /\ [Next]_vars => GroupInv'
BY DEF GroupInv, Next, vars, WorkerStep, ProcessStep, Publish, XGroupCreate, XReadGroup,
     BeginMessage, BeginReport, CheckBudget, ResolveFails, CheckSkipped, WriteLedger, InsertFails,
     IncrementBudget, IncrementFails, ProcessReturns, CreateUsageLog, XAck, XAckFails,
     Crash, Evict, streamVars, procVars, dbVars, counterVars, faultVars

\* The acknowledged events are the same when the same entries are outside the
\* pending list and these entries are the same.
LEMMA AckedSame ==
  ASSUME \A i \in Int : (i \in (skipped' + 1)..delivered' /\ i \notin pel')
                          <=> (i \in (skipped + 1)..delivered /\ i \notin pel),
         \A i \in (skipped + 1)..delivered : stream'[i] = stream[i]
  PROVE  AckedEvents' = AckedEvents
<1> DEFINE Out == {j \in (skipped + 1)..delivered : j \notin pel}
<1>1. Out' = Out
  <2>1. \A i \in Out' : i \in Int /\ i \in (skipped' + 1)..delivered' /\ i \notin pel'
    OBVIOUS
  <2>2. \A i \in Out : i \in Int /\ i \in (skipped + 1)..delivered /\ i \notin pel
    OBVIOUS
  <2> QED
    BY <2>1, <2>2
<1>2. \A i \in Out : stream'[i] = stream[i]
  OBVIOUS
<1> HIDE DEF Out
<1>3. AckedEvents' = {stream'[i] : i \in Out'} /\ AckedEvents = {stream[i] : i \in Out}
  BY DEF AckedEvents, Out
<1> QED
  BY <1>1, <1>2, <1>3

\* Every step of the pipeline is an operation of the ledger, or none.
LEMMA LedgerStep == SafetyInv /\ GroupInv /\ [Next]_vars => [Ledger!Next]_(Ledger!vars)
<1> SUFFICES ASSUME SafetyInv, GroupInv, [Next]_vars
             PROVE  Ledger!Next \/ UNCHANGED <<ledger, ledgerSum, usageLog, AckedEvents>>
  BY DEF Ledger!vars
<1> DEFINE Goal == Ledger!Next \/ UNCHANGED <<ledger, ledgerSum, usageLog, AckedEvents>>
<1>t. TypeOK
  BY DEF SafetyInv
<1> USE DEF streamVars, procVars, dbVars, counterVars, faultVars, Proc
<1>s. UNCHANGED <<stream, delivered, skipped, pel>> => AckedEvents' = AckedEvents
  BY DEF AckedEvents
<1>q. UNCHANGED <<ledger, ledgerSum, usageLog, stream, delivered, skipped, pel>> => Goal
  BY <1>s
<1> HIDE DEF Goal
<1>1. ASSUME NEW e \in Event, Publish(e) PROVE Goal
  <2>1. \A i \in (skipped + 1)..delivered : i \in 1..Len(stream)
    BY <1>t DEF TypeOK
  <2>2. \A i \in (skipped + 1)..delivered : stream'[i] = stream[i]
    BY <1>t, <2>1, RowsStay
  <2>3. AckedEvents' = AckedEvents
    BY <1>1, <2>2, AckedSame DEF Publish
  <2> QED
    BY <1>1, <2>3 DEF Publish, Goal
<1>2. ASSUME XGroupCreate PROVE Goal
  <2>1. delivered = 0 /\ skipped = 0 /\ delivered' = skipped' /\ skipped' \in Nat
    BY <1>2, <1>t DEF XGroupCreate, GroupInv, TypeOK
  <2>2. \A i \in Int : i \notin (skipped + 1)..delivered /\ i \notin (skipped' + 1)..delivered'
    <3>1. \A n \in Nat, i \in Int : i \notin (n + 1)..n
      OBVIOUS
    <3> QED
      BY ONLY <2>1, <3>1
  <2>3. AckedEvents' = AckedEvents
    BY <1>2, <2>2, AckedSame DEF XGroupCreate
  <2> QED
    BY <1>2, <2>3 DEF XGroupCreate, Goal
<1>3. ASSUME NEW w \in Worker, XReadGroup(w) PROVE Goal
  <2>1. BatchSize \in Nat /\ delivered \in Nat /\ skipped \in Nat
    BY <1>3, <1>t, ConstantsAssumption DEF XReadGroup, BatchSize, TypeOK
  <2>2. delivered' = delivered + BatchSize /\ skipped' = skipped /\ stream' = stream
        /\ pel' = pel \cup (delivered + 1)..(delivered + BatchSize)
    BY <1>3 DEF XReadGroup
  <2>3. \A i \in Int : (i \in (skipped' + 1)..delivered' /\ i \notin pel')
                          <=> (i \in (skipped + 1)..delivered /\ i \notin pel)
    BY <2>1, <2>2
  <2>4. AckedEvents' = AckedEvents
    BY <2>2, <2>3, AckedSame
  <2> QED
    BY <1>3, <2>4 DEF XReadGroup, Goal
<1>4. ASSUME NEW p \in Proc, WriteLedger(p) PROVE Goal
  <2>1. cur[p] \in Event /\ AckedEvents' = AckedEvents /\ usageLog' = usageLog
    BY <1>4, <1>s, <1>t DEF WriteLedger, TypeOK, Idle
  <2>2. CASE InLedger(cur[p])
    BY <1>4, <2>1, <2>2 DEF WriteLedger, Goal
  <2>3. CASE ~InLedger(cur[p])
    <3>1. Billing(p) \in {"billed", "unbilled"} /\ (Billing(p) = "billed" <=> APIUsageBilled(p))
      BY DEF Billing
    <3>2. ledger' = ledger \cup {[event |-> cur[p], billing |-> Billing(p)]}
      BY <1>4, <2>3 DEF WriteLedger
    <3>3. ledgerSum' = ledgerSum + (IF Billing(p) = "billed" THEN Cost[cur[p]] ELSE 0)
      BY <1>4, <2>3, <3>1 DEF WriteLedger
    <3>4. Ledger!Charge(cur[p], Billing(p))
      BY <2>1, <2>3, <3>2, <3>3 DEF Ledger!Charge, Ledger!IsCharged, InLedger
    <3> QED
      BY <2>1, <3>1, <3>4 DEF Ledger!Next, Goal
  <2> QED
    BY <2>2, <2>3
<1>5. ASSUME NEW p \in Proc, CreateUsageLog(p) PROVE Goal
  <2>1. cur[p] \in Event /\ AckedEvents' = AckedEvents
    BY <1>5, <1>s, <1>t DEF CreateUsageLog, TypeOK, Idle
  <2>2. cur[p] \in UnpricedEvent \/ InLedger(cur[p])
    BY <1>5 DEF CreateUsageLog, SafetyInv, HandInv, HandOK
  <2>3. Ledger!Log(cur[p])
    BY <1>5, <2>1, <2>2 DEF CreateUsageLog, Ledger!Log, Ledger!IsCharged, InLedger
  <2> QED
    BY <2>1, <2>3 DEF Ledger!Next, Goal
<1>6. ASSUME NEW w \in Worker, XAck(w) PROVE Goal
  <2>1. /\ entry[w] \in 1..delivered /\ stream[entry[w]] = cur[w] /\ cur[w] \in usageLog
        /\ cur[w] \in Event
    BY <1>6, <1>t DEF XAck, Idle, SafetyInv, HandInv, HandOK, Recorded, TypeOK
  <2>2. /\ UNCHANGED <<stream, delivered, skipped, ledger, ledgerSum, usageLog>>
        /\ pel' = pel \ {entry[w]}
    BY <1>6 DEF XAck
  <2>3. CASE entry[w] \in (skipped + 1)..delivered
    <3> DEFINE Out == {j \in (skipped + 1)..delivered : j \notin pel}
    <3>1. Out' = Out \cup {entry[w]}
      BY <2>2, <2>3
    <3>2. AckedEvents' = {stream[i] : i \in Out'} /\ AckedEvents = {stream[i] : i \in Out}
      BY <2>2 DEF AckedEvents
    <3> HIDE DEF Out
    <3>3. AckedEvents' = AckedEvents \cup {cur[w]}
      BY <2>1, <3>1, <3>2
    <3>4. Ledger!Acknowledge(cur[w])
      BY <2>1, <2>2, <3>3 DEF Ledger!Acknowledge
    <3> QED
      BY <2>1, <3>4 DEF Ledger!Next, Goal
  <2>4. CASE entry[w] \notin (skipped + 1)..delivered
    <3>1. AckedEvents' = AckedEvents
      BY <2>2, <2>4, AckedSame
    <3> QED
      BY <2>2, <3>1 DEF Goal
  <2> QED
    BY <2>3, <2>4
<1>7. ASSUME NEW p \in Proc,
             CheckBudget(p) \/ ResolveFails(p) \/ CheckSkipped(p) \/ InsertFails(p) \/ ProcessReturns(p)
      PROVE  Goal
  BY <1>7, <1>q DEF CheckBudget, ResolveFails, CheckSkipped, InsertFails, ProcessReturns
<1>8. ASSUME NEW p \in Proc, NEW c \in Counter, IncrementBudget(p, c) \/ IncrementFails(p, c) PROVE Goal
  BY <1>8, <1>q DEF IncrementBudget, IncrementFails
<1>9. ASSUME NEW w \in Worker, BeginMessage(w) \/ XAckFails(w) \/ Crash(w) PROVE Goal
  BY <1>9, <1>q DEF BeginMessage, XAckFails, Crash
<1>10. ASSUME NEW r \in Reporter, NEW e \in Event, BeginReport(r, e) PROVE Goal
  BY <1>10, <1>q DEF BeginReport
<1>11. ASSUME NEW c \in Counter, Evict(c) PROVE Goal
  BY <1>11, <1>q DEF Evict
<1>12. UNCHANGED vars => Goal
  BY <1>q DEF vars
<1>13. Goal
  BY <1>1, <1>2, <1>3, <1>4, <1>5, <1>6, <1>7, <1>8, <1>9, <1>10, <1>11, <1>12
     DEF Next, WorkerStep, ProcessStep
<1> QED
  BY <1>13 DEF Goal

\* Stream, consumer group, workers, reporters, duplicates, crashes and failures
\* implement the atomic ledger of UsageLedger, for any number of each.
THEOREM PipelineImplementsLedger == Spec => ImplementsLedger
<1>1. Init => SafetyInv /\ GroupInv
  BY SafetyInit DEF Init, GroupInv
<1>2. Init => Ledger!Init
  <2> SUFFICES ASSUME Init PROVE Ledger!Init
    OBVIOUS
  <2>1. (skipped + 1)..delivered = {}
    BY DEF Init
  <2>2. AckedEvents = {}
    BY <2>1 DEF AckedEvents
  <2> QED
    BY <2>2 DEF Init, Ledger!Init
<1>3. Spec => [](SafetyInv /\ GroupInv)
  BY <1>1, SafetyStep, GroupStep, PTL DEF Spec
<1>4. Spec => [][Ledger!Next]_(Ledger!vars)
  BY <1>3, LedgerStep, PTL DEF Spec
<1> QED
  BY <1>2, <1>4, PTL DEF Spec, ImplementsLedger, Ledger!Spec

-----------------------------------------------------------------------------
(* The budget counters and their limits. *)

\* The workers whose billed event passed the check and is not in counter c yet.
Passed(c) ==
  {w \in Worker : cur[w] \in BilledEvent /\ (pc[w] = "ledger" \/ (pc[w] = "count" /\ c \in todo[w]))}

\* With m for each of them the counter stays within its bound; or it does with
\* m for all but one of them, the one that passed the check last.
Room(c, m) ==
  \/ spend[c] + Cardinality(Passed(c)) * m <= Limit[c] + (Cardinality(Worker) - 1) * m
  \/ \E w \in Passed(c) :
       spend[c] + Cost[cur[w]] + (Cardinality(Passed(c)) - 1) * m
         <= Limit[c] + (Cardinality(Worker) - 1) * m

Dearest(e) == e \in BilledEvent /\ \A f \in BilledEvent : Cost[f] <= Cost[e]

CountersOK == \A c \in Counter : c \notin present => spend[c] = 0

CountingOK == \A p \in Proc : pc[p] = "count" => p \in Worker /\ cur[p] \in BilledEvent

\* The strengthening of CounterWithinLimit: what the workers between check and
\* increment may still add is part of the bound.
LimitInv ==
  /\ CountersOK /\ CountingOK
  /\ "check" \notin hit =>
       \A c \in Counter, e \in Event : Limit[c] # NoLimit /\ Dearest(e) => Room(c, Cost[e])

\* Multiplication by a natural number is monotone, and distributes over + 1.
LEMMA Times ==
  ASSUME NEW m \in Nat, NEW j \in Int, NEW k \in Int
  PROVE  /\ j * m \in Int /\ (j - 1) * m = j * m - m
         /\ j <= k => j * m <= k * m
<1>1. (k - j) * m = k * m - j * m /\ (j - 1) * m = j * m - m
  OBVIOUS
<1>2. j <= k => (k - j) * m >= 0
  <2>1. \A a, b \in Nat : a * b \in Nat
    OBVIOUS
  <2>2. j <= k => k - j \in Nat
    OBVIOUS
  <2> QED
    BY <2>1, <2>2
<1> QED
  BY <1>1, <1>2

\* The workers are finitely many, and so are those between check and increment.
LEMMA PassedFinite ==
  ASSUME NEW c \in Counter
  PROVE  /\ Passed(c) \subseteq Worker /\ IsFiniteSet(Passed(c)) /\ IsFiniteSet(Worker)
         /\ Cardinality(Passed(c)) \in Nat /\ Cardinality(Worker) \in Nat
         /\ Cardinality(Passed(c)) <= Cardinality(Worker)
<1>1. IsFiniteSet(Worker) /\ Passed(c) \subseteq Worker
  BY ConstantsAssumption DEF Passed
<1> QED
  BY <1>1, FS_Subset, FS_CardinalityType

\* The costs and limits that a worker in Passed(c) deals with are numbers.
LEMMA PassedCost ==
  ASSUME TypeOK, NEW c \in Counter, Limit[c] # NoLimit, NEW e \in Event, Dearest(e)
  PROVE  /\ Cost[e] \in Nat /\ Limit[c] \in Nat /\ spend[c] \in Nat
         /\ \A w \in Passed(c) : Cost[cur[w]] \in Nat /\ Cost[cur[w]] <= Cost[e]
<1>1. Cost \in [Event -> Nat] /\ Limit \in [Counter -> Nat \cup {NoLimit}] /\ BilledEvent \subseteq Event
  BY ConstantsAssumption
<1>2. \A w \in Passed(c) : cur[w] \in BilledEvent
  BY DEF Passed
<1> QED
  BY <1>1, <1>2 DEF TypeOK, Dearest

\* A step in which workers only leave and the counter does not grow.
LEMMA RoomLeft ==
  ASSUME TypeOK, TypeOK', NEW c \in Counter, Limit[c] # NoLimit, NEW e \in Event, Dearest(e),
         Room(c, Cost[e]), spend'[c] <= spend[c],
         Passed(c)' \subseteq Passed(c), \A w \in Passed(c)' : cur'[w] = cur[w]
  PROVE  Room(c, Cost[e])'
<1> DEFINE m == Cost[e]
           n == Cardinality(Passed(c))
           k == Cardinality(Passed(c)')
           B == Limit[c] + (Cardinality(Worker) - 1) * m
<1>1. n \in Nat /\ k \in Nat /\ k <= n /\ IsFiniteSet(Passed(c))
  BY PassedFinite, FS_Subset, FS_CardinalityType
<1>2. m \in Nat /\ spend[c] \in Nat /\ spend'[c] \in Nat /\ Limit[c] \in Nat
  BY PassedCost DEF TypeOK
<1>3. B \in Int
  <2>1. (Cardinality(Worker) - 1) * m \in Int
    BY <1>2, PassedFinite, Times
  <2> QED
    BY <1>2, <2>1
<1>4. k * m <= n * m /\ n * m \in Int /\ k * m \in Int
  BY <1>1, <1>2, Times
<1> HIDE DEF B
<1>5. CASE spend[c] + n * m <= B
  <2>1. spend'[c] + k * m <= B
    BY <1>2, <1>3, <1>4, <1>5
  <2> QED
    BY <2>1 DEF Room, B
<1>6. ASSUME NEW w \in Passed(c), spend[c] + Cost[cur[w]] + (n - 1) * m <= B
      PROVE  Room(c, Cost[e])'
  <2>0. Cost[cur[w]] \in Nat /\ (n - 1) * m \in Int /\ (k - 1) * m \in Int
    BY <1>1, <1>2, PassedCost, Times
  <2>1. CASE w \in Passed(c)'
    <3>1. (k - 1) * m <= (n - 1) * m
      BY <1>1, <1>2, Times
    <3>2. spend'[c] + Cost[cur[w]] + (k - 1) * m <= B
      BY <1>2, <1>3, <1>6, <2>0, <3>1
    <3>3. cur'[w] = cur[w]
      BY <2>1
    <3> QED
      BY <2>1, <3>2, <3>3 DEF Room, B
  <2>2. CASE w \notin Passed(c)'
    <3>1. k <= n - 1
      <4>1. k # n
        BY <2>2, <1>1, FS_Subset
      <4> QED
        BY <1>1, <4>1
    <3>2. k * m <= (n - 1) * m
      BY <1>1, <1>2, <3>1, Times
    <3>3. spend'[c] + k * m <= B
      BY <1>2, <1>3, <1>4, <1>6, <2>0, <3>2
    <3> QED
      BY <3>3 DEF Room, B
  <2> QED
    BY <2>1, <2>2
<1> QED
  BY <1>5, <1>6 DEF Room, B

\* A worker passes the check: its cost fits, and the others are at most all others.
LEMMA RoomTaken ==
  ASSUME TypeOK, TypeOK', NEW c \in Counter, Limit[c] # NoLimit, NEW e \in Event, Dearest(e),
         NEW w \in Passed(c)', spend'[c] + Cost[cur'[w]] <= Limit[c]
  PROVE  Room(c, Cost[e])'
<1> DEFINE m == Cost[e]
           k == Cardinality(Passed(c)')
           K == Cardinality(Worker)
<1>1. Passed(c)' \subseteq Worker /\ IsFiniteSet(Worker)
  BY ConstantsAssumption DEF Passed
<1>2. k \in Nat /\ K \in Nat /\ k <= K
  BY <1>1, FS_Subset, FS_CardinalityType
<1>3. m \in Nat /\ Limit[c] \in Nat /\ spend'[c] \in Nat
  BY PassedCost DEF TypeOK
<1>4. Cost[cur'[w]] \in Nat
  <2>1. cur'[w] \in BilledEvent
    BY DEF Passed
  <2> QED
    BY <2>1, ConstantsAssumption
<1>5. (k - 1) * m <= (K - 1) * m /\ (k - 1) * m \in Int /\ (K - 1) * m \in Int
  BY <1>2, <1>3, Times
<1>6. spend'[c] + Cost[cur'[w]] + (k - 1) * m <= Limit[c] + (K - 1) * m
  BY <1>3, <1>4, <1>5
<1> QED
  BY <1>6 DEF Room

\* A worker adds its cost to the counter, and leaves.
LEMMA RoomUsed ==
  ASSUME TypeOK, TypeOK', NEW c \in Counter, Limit[c] # NoLimit, NEW e \in Event, Dearest(e),
         Room(c, Cost[e]), NEW w \in Passed(c), spend'[c] = spend[c] + Cost[cur[w]],
         Passed(c)' = Passed(c) \ {w}, cur' = cur
  PROVE  Room(c, Cost[e])'
<1> DEFINE m == Cost[e]
           n == Cardinality(Passed(c))
           k == Cardinality(Passed(c)')
           B == Limit[c] + (Cardinality(Worker) - 1) * m
<1>1. n \in Nat /\ k \in Nat /\ k = n - 1
  BY PassedFinite, FS_RemoveElement, FS_CardinalityType
<1>2. m \in Nat /\ spend[c] \in Nat /\ Limit[c] \in Nat /\ Cost[cur[w]] \in Nat /\ Cost[cur[w]] <= m
  BY PassedCost
<1>3. B \in Int
  <2>1. (Cardinality(Worker) - 1) * m \in Int
    BY <1>2, PassedFinite, Times
  <2> QED
    BY <1>2, <2>1
<1> HIDE DEF B, m, n, k
<1>4. n * m \in Int /\ k * m = n * m - m /\ (n - 1) * m = n * m - m /\ (k - 1) * m = n * m - m - m
  <2>1. n * m \in Int /\ (n - 1) * m = n * m - m
    BY <1>1, <1>2, Times
  <2>2. k * m \in Int /\ (k - 1) * m = k * m - m
    BY <1>1, <1>2, Times
  <2> QED
    BY <1>1, <2>1, <2>2
<1>5. CASE spend[c] + n * m <= B
  <2>1. spend'[c] + k * m <= B
    BY <1>2, <1>3, <1>4, <1>5
  <2> QED
    BY <2>1 DEF Room, B, k, m
<1>6. CASE spend[c] + Cost[cur[w]] + (n - 1) * m <= B
  <2>1. spend'[c] + k * m <= B
    BY <1>2, <1>3, <1>4, <1>6
  <2> QED
    BY <2>1 DEF Room, B, k, m
<1>7. ASSUME NEW v \in Passed(c), v # w, spend[c] + Cost[cur[v]] + (n - 1) * m <= B
      PROVE  Room(c, Cost[e])'
  <2>0. Cost[cur[v]] \in Nat
    BY PassedCost
  <2>1. spend'[c] + Cost[cur[v]] + (k - 1) * m <= B
    BY <1>2, <1>3, <1>4, <1>7, <2>0
  <2>2. v \in Passed(c)' /\ cur'[v] = cur[v]
    BY <1>7
  <2> QED
    BY <2>1, <2>2 DEF Room, B, k, m
<1> QED
  BY <1>5, <1>6, <1>7 DEF Room, B, n, m

\* A step in which workers only leave and no counter grows.
LEMMA LimitLeft ==
  ASSUME TypeOK, TypeOK', LimitInv, hit \subseteq hit',
         \A c \in Counter : spend'[c] <= spend[c] /\ (c \notin present' => spend'[c] = 0),
         CountingOK',
         \A c \in Counter, w \in Worker : w \in Passed(c)' => w \in Passed(c) /\ cur'[w] = cur[w]
  PROVE  LimitInv'
<1>1. ASSUME "check" \notin hit', NEW c \in Counter, NEW e \in Event, Limit[c] # NoLimit, Dearest(e)
      PROVE  Room(c, Cost[e])'
  <2>1. Room(c, Cost[e])
    BY <1>1 DEF LimitInv
  <2>2. Passed(c)' \subseteq Passed(c) /\ \A w \in Passed(c)' : cur'[w] = cur[w]
    BY DEF Passed
  <2> QED
    BY <1>1, <2>1, <2>2, RoomLeft
<1> QED
  BY <1>1 DEF LimitInv, CountersOK, Dearest

\* Every step keeps LimitInv: only a passed check and an increment are not
\* covered by LimitLeft.
LEMMA LimitStep == TypeOK /\ LimitInv /\ [Next]_vars => LimitInv'
<1> SUFFICES ASSUME TypeOK, LimitInv, [Next]_vars PROVE LimitInv'
  OBVIOUS
<1>t. TypeOK'
  BY TypeStep
<1>n. \A c \in Counter : spend[c] \in Nat
  BY DEF TypeOK
<1> USE DEF streamVars, procVars, dbVars, counterVars, faultVars
\* A step of p that leaves the counters alone and enters no checked step.
<1>a. ASSUME NEW p \in Proc, UNCHANGED <<present, spend>>, hit \subseteq hit',
             NEW s \in Steps, pc' = [pc EXCEPT ![p] = s], s \notin {"ledger", "count"},
             \A q \in Proc : q # p => cur'[q] = cur[q] /\ todo'[q] = todo[q]
      PROVE  LimitInv'
  <2>1. \A q \in Proc : q # p => pc'[q] = pc[q]
    BY <1>a DEF TypeOK
  <2>2. pc'[p] = s
    BY <1>a DEF TypeOK
  <2>3. CountingOK'
    BY <1>a, <2>1, <2>2 DEF LimitInv, CountingOK
  <2>4. \A c \in Counter, w \in Worker : w \in Passed(c)' => w \in Passed(c) /\ cur'[w] = cur[w]
    BY <1>a, <2>1, <2>2 DEF Passed, Proc
  <2>5. \A c \in Counter : spend'[c] <= spend[c] /\ (c \notin present' => spend'[c] = 0)
    BY <1>a, <1>n DEF LimitInv, CountersOK
  <2> QED
    BY <1>a, <1>t, <2>3, <2>4, <2>5, LimitLeft
\* A step that leaves the counters and the hands alone.
<1>b. UNCHANGED <<present, spend, pc, cur, todo>> /\ hit \subseteq hit' => LimitInv'
  BY DEF LimitInv, CountersOK, CountingOK, Room, Passed, Dearest
<1>f. ASSUME NEW p \in Proc, Finish(p), UNCHANGED <<present, spend>>, hit \subseteq hit'
      PROVE  LimitInv'
  BY <1>a, <1>f DEF Finish, Goto, Steps, Idle, TypeOK
<1>g. ASSUME NEW p \in Proc, NEW s \in Steps, Advance(p, s), s \notin {"ledger", "count"},
             UNCHANGED <<present, spend>>, hit \subseteq hit'
      PROVE  LimitInv'
  BY <1>a, <1>g DEF Advance, Goto
<1>1. ASSUME NEW e \in Event, Publish(e) PROVE LimitInv'
  BY <1>1, <1>b DEF Publish
<1>2. CASE XGroupCreate
  BY <1>2, <1>b DEF XGroupCreate
<1>3. ASSUME NEW w \in Worker, XReadGroup(w) PROVE LimitInv'
  BY <1>3, <1>b DEF XReadGroup
<1>4. ASSUME NEW w \in Worker, BeginMessage(w) PROVE LimitInv'
  BY <1>4, <1>a DEF BeginMessage, Goto, Steps, Proc, TypeOK
<1>5. ASSUME NEW r \in Reporter, NEW e \in Event, BeginReport(r, e) PROVE LimitInv'
  BY <1>5, <1>a DEF BeginReport, Goto, Steps, Proc, TypeOK
<1>6. ASSUME NEW p \in Proc, CheckBudget(p) PROVE LimitInv'
  <2>1. CASE Finish(p)
    BY <1>6, <1>f, <2>1 DEF CheckBudget
  <2>2. CASE Advance(p, "log")
    BY <1>6, <1>g, <2>2 DEF CheckBudget, Steps
  <2>3. CASE ~BudgetExceeded(p) /\ Advance(p, "ledger")
    <3>1. cur[p] \in Event /\ Cost[cur[p]] \in Nat
      BY <1>6, ConstantsAssumption DEF CheckBudget, TypeOK, Idle
    <3>2. /\ pc'[p] = "ledger" /\ UNCHANGED <<cur, todo, spend, present, hit>>
          /\ \A q \in Proc : q # p => pc'[q] = pc[q]
      BY <1>6, <2>3 DEF CheckBudget, Advance, Goto, TypeOK
    <3>3. ASSUME NEW c \in Counter, Limit[c] # NoLimit
          PROVE  spend[c] + Cost[cur[p]] <= Limit[c]
      <4>1. Limit[c] \in Nat /\ spend[c] \in Nat
        BY <1>n, <3>3, ConstantsAssumption
      <4>2. GetSpend(c) \in Nat /\ spend[c] <= GetSpend(c)
        BY <4>1 DEF GetSpend, FallbackSpend, TypeOK, LimitInv, CountersOK
      <4>3. ~(GetSpend(c) + Cost[cur[p]] > Limit[c])
        BY <2>3, <3>3 DEF BudgetExceeded
      <4> QED
        BY <3>1, <4>1, <4>2, <4>3
    <3>4. ASSUME "check" \notin hit', NEW c \in Counter, NEW e \in Event, Limit[c] # NoLimit, Dearest(e)
          PROVE  Room(c, Cost[e])'
      <4>1. CASE p \in Passed(c)'
        BY <1>t, <3>2, <3>3, <3>4, <4>1, RoomTaken
      <4>2. CASE p \notin Passed(c)'
        <5>1. Passed(c)' \subseteq Passed(c)
          BY <3>2, <4>2 DEF Passed, Proc
        <5>2. Room(c, Cost[e]) /\ spend'[c] <= spend[c]
          BY <1>n, <3>2, <3>4 DEF LimitInv
        <5> QED
          BY <1>t, <3>2, <3>4, <5>1, <5>2, RoomLeft
      <4> QED
        BY <4>1, <4>2
    <3>5. CountersOK' /\ CountingOK'
      BY <3>2 DEF LimitInv, CountersOK, CountingOK
    <3> QED
      BY <3>4, <3>5 DEF LimitInv, Dearest
  <2> QED
    BY <1>6, <2>1, <2>2, <2>3 DEF CheckBudget
<1>7. ASSUME NEW p \in Proc, ResolveFails(p) \/ InsertFails(p) PROVE LimitInv'
  BY <1>7, <1>f DEF ResolveFails, InsertFails, Fault
<1>8. ASSUME NEW p \in Proc, CheckSkipped(p) PROVE LimitInv'
  <2>1. "check" \in hit' /\ present' = present /\ spend' = spend
    BY <1>8 DEF CheckSkipped, Fault
  <2>2. CountersOK' /\ CountingOK'
    BY <1>8, <2>1 DEF CheckSkipped, Advance, Goto, LimitInv, CountersOK, CountingOK, TypeOK
  <2> QED
    BY <2>1, <2>2 DEF LimitInv
<1>9. ASSUME NEW p \in Proc, WriteLedger(p) PROVE LimitInv'
  <2>1. CASE APIUsageBilled(p)
    <3>1. /\ p \in Worker /\ cur[p] \in BilledEvent /\ pc[p] = "ledger" /\ pc'[p] = "count"
          /\ UNCHANGED <<cur, spend, present, hit>>
          /\ \A q \in Proc : q # p => pc'[q] = pc[q] /\ todo'[q] = todo[q]
      BY <1>9, <2>1 DEF WriteLedger, APIUsageBilled, Goto, TypeOK
    <3>2. CountingOK'
      BY <3>1 DEF LimitInv, CountingOK
    <3>3. \A c \in Counter, w \in Worker : w \in Passed(c)' => w \in Passed(c) /\ cur'[w] = cur[w]
      BY <3>1 DEF Passed, Proc
    <3>4. \A c \in Counter : spend'[c] <= spend[c] /\ (c \notin present' => spend'[c] = 0)
      BY <1>n, <3>1 DEF LimitInv, CountersOK
    <3> QED
      BY <1>t, <3>1, <3>2, <3>3, <3>4, LimitLeft
  <2>2. CASE ~APIUsageBilled(p)
    BY <1>9, <1>a, <2>2 DEF WriteLedger, Goto, Steps
  <2> QED
    BY <2>1, <2>2
<1>10. ASSUME NEW p \in Proc, NEW c \in Counter, IncrementBudget(p, c) PROVE LimitInv'
  <2>1. /\ p \in Worker /\ cur[p] \in BilledEvent /\ pc[p] = "count" /\ c \in todo[p]
        /\ UNCHANGED <<pc, cur, hit>>
    BY <1>10 DEF IncrementBudget, LimitInv, CountingOK
  <2>2. /\ todo' = [todo EXCEPT ![p] = todo[p] \ {c}] /\ present' = present \cup {c}
        /\ spend' = [spend EXCEPT ![c] = spend[c] + Cost[cur[p]]]
    BY <1>10 DEF IncrementBudget
  <2>3. /\ todo'[p] = todo[p] \ {c} /\ \A q \in Proc : q # p => todo'[q] = todo[q]
        /\ spend'[c] = spend[c] + Cost[cur[p]]
        /\ \A d \in Counter : d # c => spend'[d] = spend[d]
    BY <2>2 DEF TypeOK
  <2>4. ASSUME "check" \notin hit', NEW d \in Counter, NEW e \in Event, Limit[d] # NoLimit, Dearest(e)
        PROVE  Room(d, Cost[e])'
    <3>1. Room(d, Cost[e])
      BY <2>1, <2>4 DEF LimitInv
    <3>2. CASE d = c
      <4>1. p \in Passed(c) /\ Passed(c)' = Passed(c) \ {p}
        BY <2>1, <2>3 DEF Passed, Proc
      <4> QED
        BY <1>t, <2>1, <2>3, <2>4, <3>1, <3>2, <4>1, RoomUsed
    <3>3. CASE d # c
      <4>1. Passed(d)' \subseteq Passed(d)
        BY <2>1, <2>3, <3>3 DEF Passed, Proc
      <4>2. spend'[d] <= spend[d]
        BY <1>n, <2>3, <3>3
      <4> QED
        BY <1>t, <2>1, <2>4, <3>1, <4>1, <4>2, RoomLeft
    <3> QED
      BY <3>2, <3>3
  <2>5. CountersOK' /\ CountingOK'
    BY <2>1, <2>2, <2>3 DEF LimitInv, CountersOK, CountingOK
  <2> QED
    BY <2>4, <2>5 DEF LimitInv, Dearest
<1>11. ASSUME NEW p \in Proc, NEW c \in Counter, IncrementFails(p, c) PROVE LimitInv'
  <2>1. /\ UNCHANGED <<pc, cur, spend, present>> /\ hit \subseteq hit'
        /\ \A q \in Proc : todo'[q] \subseteq todo[q]
    BY <1>11 DEF IncrementFails, Fault, TypeOK
  <2>2. \A d \in Counter, w \in Worker : w \in Passed(d)' => w \in Passed(d) /\ cur'[w] = cur[w]
    BY <2>1 DEF Passed, Proc
  <2>3. CountingOK'
    BY <2>1 DEF LimitInv, CountingOK
  <2>4. \A d \in Counter : spend'[d] <= spend[d] /\ (d \notin present' => spend'[d] = 0)
    BY <1>n, <2>1 DEF LimitInv, CountersOK
  <2> QED
    BY <1>t, <2>1, <2>2, <2>3, <2>4, LimitLeft
<1>12. ASSUME NEW p \in Proc, ProcessReturns(p) PROVE LimitInv'
  BY <1>12, <1>g DEF ProcessReturns, Steps
<1>13. ASSUME NEW p \in Proc, CreateUsageLog(p) PROVE LimitInv'
  <2>1. CASE Finish(p)
    BY <1>13, <1>f, <2>1 DEF CreateUsageLog
  <2>2. CASE Advance(p, "ack")
    BY <1>13, <1>g, <2>2 DEF CreateUsageLog, Steps
  <2> QED
    BY <1>13, <2>1, <2>2 DEF CreateUsageLog
<1>14. ASSUME NEW w \in Worker, XAck(w) \/ XAckFails(w) PROVE LimitInv'
  BY <1>14, <1>f DEF XAck, XAckFails, Fault, Proc
<1>15. ASSUME NEW w \in Worker, Crash(w) PROVE LimitInv'
  BY <1>15, <1>a DEF Crash, Fault, Steps, Idle, Proc, TypeOK
<1>16. ASSUME NEW c \in Counter, Evict(c) PROVE LimitInv'
  <2>1. /\ UNCHANGED <<pc, cur, todo>> /\ hit \subseteq hit' /\ present' = present \ {c}
        /\ spend'[c] = 0 /\ \A d \in Counter : d # c => spend'[d] = spend[d]
    BY <1>16 DEF Evict, Fault, TypeOK
  <2>2. \A d \in Counter : spend'[d] <= spend[d] /\ (d \notin present' => spend'[d] = 0)
    BY <1>n, <2>1 DEF LimitInv, CountersOK
  <2>3. CountingOK' /\ \A d \in Counter : Passed(d)' = Passed(d)
    BY <2>1 DEF LimitInv, CountingOK, Passed
  <2> QED
    BY <1>t, <2>1, <2>2, <2>3, LimitLeft
<1>17. CASE UNCHANGED vars
  BY <1>17, <1>b DEF vars
<1> QED
  BY <1>1, <1>2, <1>3, <1>4, <1>5, <1>6, <1>7, <1>8, <1>9, <1>10, <1>11, <1>12, <1>13,
     <1>14, <1>15, <1>16, <1>17 DEF Next, WorkerStep, ProcessStep, Proc

\* At the start no worker is at work and no counter is above zero.
LEMMA LimitInit == Init => LimitInv
<1> SUFFICES ASSUME Init PROVE LimitInv
  OBVIOUS
<1>1. CountersOK /\ CountingOK
  BY DEF Init, CountersOK, CountingOK, Idle, Proc
<1>2. ASSUME NEW c \in Counter, NEW e \in Event, Limit[c] # NoLimit, Dearest(e) PROVE Room(c, Cost[e])
  <2>1. Cardinality(Passed(c)) = 0
    <3>1. Passed(c) = {}
      BY DEF Init, Passed, Idle, Proc
    <3> QED
      BY <3>1, FS_EmptySet
  <2>2. spend[c] = 0 /\ Cost[e] \in Nat /\ Limit[c] \in Nat
    BY <1>2, TypeInit, PassedCost DEF Init
  <2>3. Cardinality(Worker) \in Nat /\ Cardinality(Worker) # 0
    BY ConstantsAssumption, FS_EmptySet, FS_CardinalityType
  <2>4. 0 * Cost[e] <= (Cardinality(Worker) - 1) * Cost[e] /\ (Cardinality(Worker) - 1) * Cost[e] \in Int
    BY <2>2, <2>3, Times
  <2>5. 0 * Cost[e] = 0
    BY <2>2
  <2> QED
    BY <2>1, <2>2, <2>4, <2>5 DEF Room
<1> QED
  BY <1>1, <1>2 DEF LimitInv

\* While checkBudget can read limits and counters, no counter passes its
\* blocking limit by more than one event per other worker (by nothing when there
\* is one), for any number of workers and whatever is lost, duplicated or reported.
THEOREM WorkersWithinLimit == Spec => []CounterWithinLimit
<1>1. TypeOK /\ LimitInv => CounterWithinLimit
  <2> SUFFICES ASSUME TypeOK, LimitInv, "check" \notin hit, NEW c \in Counter, NEW e \in BilledEvent,
                      Limit[c] # NoLimit, \A f \in BilledEvent : Cost[f] <= Cost[e]
               PROVE  spend[c] <= Limit[c] + (Cardinality(Worker) - 1) * Cost[e]
    BY DEF CounterWithinLimit
  <2>1. e \in Event /\ Dearest(e)
    BY ConstantsAssumption DEF Dearest
  <2>2. Room(c, Cost[e])
    BY <2>1 DEF LimitInv
  <2> DEFINE n == Cardinality(Passed(c))
  <2>3. /\ Cost[e] \in Nat /\ Limit[c] \in Nat /\ spend[c] \in Nat /\ n \in Nat
        /\ (Cardinality(Worker) - 1) * Cost[e] \in Int
    BY <2>1, PassedCost, PassedFinite, Times
  <2>4. n * Cost[e] \in Nat
    <3>1. \A a, b \in Nat : a * b \in Nat
      OBVIOUS
    <3> QED
      BY <2>3, <3>1
  <2>5. CASE spend[c] + n * Cost[e] <= Limit[c] + (Cardinality(Worker) - 1) * Cost[e]
    BY <2>3, <2>4, <2>5
  <2>6. ASSUME NEW w \in Passed(c),
               spend[c] + Cost[cur[w]] + (n - 1) * Cost[e] <= Limit[c] + (Cardinality(Worker) - 1) * Cost[e]
        PROVE  spend[c] <= Limit[c] + (Cardinality(Worker) - 1) * Cost[e]
    <3>1. n - 1 \in Nat
      BY <2>3, PassedFinite, FS_EmptySet
    <3>2. (n - 1) * Cost[e] \in Nat
      <4>1. \A a, b \in Nat : a * b \in Nat
        OBVIOUS
      <4> QED
        BY <2>3, <3>1, <4>1
    <3>3. Cost[cur[w]] \in Nat
      BY <2>1, PassedCost
    <3> QED
      BY <2>3, <2>6, <3>2, <3>3
  <2> QED
    BY <2>2, <2>5, <2>6 DEF Room
<1> QED
  BY <1>1, TypeInit, TypeStep, LimitInit, LimitStep, PTL DEF Spec

-----------------------------------------------------------------------------
(* The budget counters and the ledger.                                     *)

Batch(w) == next[w]..last[w]

\* Every entry is in one hand or one batch at most, and was delivered.
HeldOnce ==
  /\ pel \subseteq 1..delivered
  /\ \A w \in Worker :
       /\ entry[w] <= delivered
       /\ \A v \in Worker :
            /\ entry[v] # 0 => entry[v] \notin Batch(w) /\ (v # w => entry[v] # entry[w])
            /\ v # w => Batch(v) \cap Batch(w) = {}

BilledCost == [e \in Event |-> IF e \in BilledEvent THEN Cost[e] ELSE 0]
EntryCost == [i \in 1..Len(stream) |-> BilledCost[stream[i]]]

\* An entry that may still be counted in c: not delivered, in a batch, or in the
\* hand of a worker that has not come to c.
Reaching(w, c) == pc[w] \in {"price", "ledger"} \/ (pc[w] = "count" /\ c \in todo[w])
Open(c, i) ==
  \/ i > delivered
  \/ \E w \in Worker : i \in Batch(w) \/ (entry[w] = i /\ Reaching(w, c))
Closed(c) == {i \in 1..Len(stream) : ~Open(c, i)}

\* The strengthening of CounterCoversLedger: what is in a counter was counted
\* for closed entries, each once, and what is not yet in it is in flight.
CoverInv ==
  /\ HeldOnce
  /\ IsFiniteSet(ledger) /\ ledgerSum = LedgerTotal
  /\ hit \cap {"incr", "crash", "evict"} = {} =>
       \A c \in Counter : spend[c] + InFlight(c) >= ledgerSum
  /\ \A c \in Counter : spend[c] <= Sum(EntryCost, Closed(c))
  /\ Sum(EntryCost, 1..Len(stream)) = StreamTotal

\* A step that takes entries out of hands, batches and the pending list only.
LEMMA HeldLeft ==
  ASSUME TypeOK, TypeOK', HeldOnce, delivered' = delivered, pel' \subseteq pel,
         \A w \in Worker : entry'[w] \in {entry[w], 0} /\ Batch(w)' \subseteq Batch(w)
  PROVE  HeldOnce'
<1>1. pel' \subseteq 1..delivered'
  BY DEF HeldOnce
<1>2. ASSUME NEW w \in Worker PROVE entry'[w] <= delivered'
  <2>1. entry[w] <= delivered /\ 0 <= delivered
    BY DEF HeldOnce, TypeOK
  <2>2. entry'[w] = entry[w] \/ entry'[w] = 0
    OBVIOUS
  <2> QED
    BY <2>1, <2>2
<1>3. ASSUME NEW w \in Worker, NEW v \in Worker, entry'[v] # 0
      PROVE  entry'[v] \notin Batch(w)' /\ (v # w => entry'[v] # entry'[w])
  <2>1. entry[v] # 0 /\ entry'[v] = entry[v]
    BY <1>3
  <2>2. entry[v] \notin Batch(w) /\ (v # w => entry[v] # entry[w])
    BY <2>1 DEF HeldOnce
  <2> QED
    BY <1>3, <2>1, <2>2
<1>4. ASSUME NEW w \in Worker, NEW v \in Worker, v # w PROVE Batch(v)' \cap Batch(w)' = {}
  <2>1. Batch(v) \cap Batch(w) = {}
    BY <1>4 DEF HeldOnce
  <2> QED
    BY <2>1
<1> QED
  BY <1>1, <1>2, <1>3, <1>4 DEF HeldOnce

\* No entry is given out twice: XREADGROUP hands out what no batch held, and a
\* message that begins leaves its batch.
LEMMA HeldStep == TypeOK /\ HeldOnce /\ [Next]_vars => HeldOnce'
<1> SUFFICES ASSUME TypeOK, HeldOnce, [Next]_vars PROVE HeldOnce'
  OBVIOUS
<1>t. TypeOK'
  BY TypeStep
<1> USE DEF streamVars, procVars, dbVars, counterVars, faultVars
<1>n. \A v \in Worker : next[v] \in Nat /\ last[v] \in Nat /\ entry[v] \in Nat
  BY DEF TypeOK
<1>u. delivered \in Nat /\ Len(stream) \in Nat /\ \A v \in Worker : last[v] <= delivered
  BY DEF TypeOK
<1>a. ASSUME UNCHANGED <<delivered, entry, next, last>>, pel' \subseteq pel PROVE HeldOnce'
  BY <1>a, <1>t, HeldLeft DEF Batch
<1>f. ASSUME NEW p \in Proc, Finish(p), delivered' = delivered, pel' \subseteq pel PROVE HeldOnce'
  <2>1. \A w \in Worker : entry'[w] \in {entry[w], 0} /\ Batch(w)' \subseteq Batch(w)
    BY <1>f DEF Finish, Batch, TypeOK
  <2> QED
    BY <1>f, <1>t, <2>1, HeldLeft
<1>1. CASE XGroupCreate
  <2>1. pel \subseteq 1..delivered /\ delivered' \in Nat /\ delivered <= delivered'
        /\ UNCHANGED <<pel, entry, next, last>>
    BY <1>1, <1>u DEF XGroupCreate, HeldOnce, TypeOK
  <2>2. pel' \subseteq 1..delivered' /\ \A w \in Worker : entry'[w] <= delivered'
    BY <1>n, <1>u, <2>1 DEF HeldOnce
  <2> QED
    BY <2>1, <2>2 DEF HeldOnce, Batch
<1>2. ASSUME NEW w \in Worker, XReadGroup(w) PROVE HeldOnce'
  <2>1. BatchSize \in Nat /\ delivered + BatchSize \in Nat
    BY <1>2, <1>u, ConstantsAssumption DEF XReadGroup, BatchSize
  <2>2. /\ entry' = entry /\ delivered' = delivered + BatchSize
        /\ next'[w] = delivered + 1 /\ last'[w] = delivered + BatchSize
        /\ \A v \in Worker : v # w => next'[v] = next[v] /\ last'[v] = last[v]
        /\ pel' = pel \cup (delivered + 1)..(delivered + BatchSize)
    BY <1>2 DEF XReadGroup, TypeOK
  <2>3. pel' \subseteq 1..delivered'
    <3>1. pel \subseteq 1..delivered
      BY DEF HeldOnce
    <3> QED
      BY ONLY <1>u, <2>1, <2>2, <3>1
  <2>4. Batch(w)' = (delivered + 1)..(delivered + BatchSize)
    BY <2>2 DEF Batch
  <2>5. \A v \in Worker : v # w => Batch(v)' = Batch(v)
    BY <2>2 DEF Batch
  <2>6. \A v \in Worker : entry[v] <= delivered /\ entry[v] \notin Batch(w)'
    BY <1>n, <1>u, <2>1, <2>4 DEF HeldOnce
  <2>7. \A v \in Worker : v # w => Batch(v) \cap Batch(w)' = {}
    <3>1. \A v \in Worker : Batch(v) \subseteq Int /\ \A i \in Batch(v) : i <= delivered
      BY <1>n, <1>u DEF Batch
    <3>2. \A i \in Batch(w)' : i > delivered
      BY ONLY <1>u, <2>1, <2>4
    <3> QED
      BY ONLY <1>u, <3>1, <3>2
  <2>8. \A v \in Worker : entry'[v] <= delivered'
    BY <1>n, <1>u, <2>1, <2>2, <2>6
  <2>9. ASSUME NEW x \in Worker, NEW v \in Worker, entry'[v] # 0
        PROVE  entry'[v] \notin Batch(x)' /\ (v # x => entry'[v] # entry'[x])
    BY <2>2, <2>5, <2>6, <2>9 DEF HeldOnce
  <2>10. ASSUME NEW x \in Worker, NEW v \in Worker, v # x PROVE Batch(v)' \cap Batch(x)' = {}
    BY <2>5, <2>7, <2>10 DEF HeldOnce
  <2> QED
    BY <2>3, <2>8, <2>9, <2>10 DEF HeldOnce
<1>3. ASSUME NEW w \in Worker, BeginMessage(w) PROVE HeldOnce'
  <2>1. /\ delivered' = delivered /\ pel' = pel /\ next[w] <= last[w]
        /\ entry'[w] = next[w] /\ \A v \in Worker : v # w => entry'[v] = entry[v]
        /\ \A v \in Worker : v # w => next'[v] = next[v] /\ last'[v] = last[v]
    BY <1>3 DEF BeginMessage, HasMessage, TypeOK
  <2>2. \/ next'[w] = next[w] + 1 /\ last'[w] = last[w]
        \/ next'[w] = 1 /\ last'[w] = 0
    BY <1>3 DEF BeginMessage, TypeOK
  <2>3. next[w] \in Batch(w)
    BY <1>n, <2>1 DEF Batch
  <2>4. Batch(w)' \subseteq Batch(w) \ {next[w]}
    BY <1>n, <2>2 DEF Batch
  <2>5. \A v \in Worker : v # w => Batch(v)' = Batch(v)
    BY <2>1 DEF Batch
  <2>6. \A v \in Worker : v # w => next[w] \notin Batch(v) /\ entry[v] # next[w]
    <3>1. \A v \in Worker : v # w => Batch(v) \cap Batch(w) = {}
      BY DEF HeldOnce
    <3>2. \A v \in Worker : entry[v] # 0 => entry[v] \notin Batch(w)
      BY DEF HeldOnce
    <3>3. next[w] # 0
      BY DEF TypeOK
    <3> QED
      BY <2>3, <3>1, <3>2, <3>3
  <2>7. pel' \subseteq 1..delivered' /\ \A v \in Worker : entry'[v] <= delivered'
    BY <1>n, <1>u, <2>1 DEF HeldOnce
  <2>8. ASSUME NEW x \in Worker, NEW v \in Worker, entry'[v] # 0
        PROVE  entry'[v] \notin Batch(x)' /\ (v # x => entry'[v] # entry'[x])
    <3>1. CASE v = w
      BY <2>1, <2>4, <2>5, <2>6, <3>1
    <3>2. CASE v # w
      <4>1. entry'[v] = entry[v] /\ entry[v] # 0
        BY <2>1, <2>8, <3>2
      <4>2. entry[v] \notin Batch(x) /\ (v # x => entry[v] # entry[x])
        BY <4>1 DEF HeldOnce
      <4>3. Batch(x)' \subseteq Batch(x)
        BY <2>4, <2>5
      <4> QED
        BY <2>1, <2>6, <3>2, <4>1, <4>2, <4>3
    <3> QED
      BY <3>1, <3>2
  <2>9. ASSUME NEW x \in Worker, NEW v \in Worker, v # x PROVE Batch(v)' \cap Batch(x)' = {}
    <3>1. Batch(v) \cap Batch(x) = {}
      BY <2>9 DEF HeldOnce
    <3>2. Batch(v)' \subseteq Batch(v) /\ Batch(x)' \subseteq Batch(x)
      BY <2>4, <2>5
    <3> QED
      BY <3>1, <3>2
  <2> QED
    BY <2>7, <2>8, <2>9 DEF HeldOnce
<1>4. ASSUME NEW w \in Worker, Crash(w) PROVE HeldOnce'
  <2>1. /\ delivered' = delivered /\ pel' = pel
        /\ entry' = [entry EXCEPT ![w] = 0]
        /\ next' = [next EXCEPT ![w] = 1] /\ last' = [last EXCEPT ![w] = 0]
    BY <1>4 DEF Crash
  <2>2. \A v \in Worker : entry'[v] \in {entry[v], 0}
    BY <2>1 DEF TypeOK
  <2>3. \A v \in Worker : Batch(v)' \subseteq Batch(v)
    BY <2>1 DEF Batch, TypeOK
  <2> QED
    BY <1>t, <2>1, <2>2, <2>3, HeldLeft
<1>5. ASSUME NEW p \in Proc, ProcessStep(p) PROVE HeldOnce'
  BY <1>5, <1>a, <1>f DEF ProcessStep, CheckBudget, ResolveFails, CheckSkipped, WriteLedger,
     InsertFails, IncrementBudget, IncrementFails, ProcessReturns, CreateUsageLog, Advance
<1>6. ASSUME NEW w \in Worker, XAck(w) \/ XAckFails(w) PROVE HeldOnce'
  BY <1>6, <1>f DEF XAck, XAckFails, Proc
<1>7. (\E e \in Event : Publish(e)) \/ (\E c \in Counter : Evict(c)) \/ UNCHANGED vars
       \/ (\E r \in Reporter, e \in Event : BeginReport(r, e)) => HeldOnce'
  BY <1>a DEF Publish, Evict, vars, BeginReport
<1> QED
  BY <1>1, <1>2, <1>3, <1>4, <1>5, <1>6, <1>7 DEF Next, WorkerStep, Proc

\* What a hand may still count it could count before: it only comes nearer to
\* the end, and a message begun was in its batch.
LEMMA OpenShrinks ==
  ASSUME TypeOK, [Next]_vars, NEW c \in Counter, NEW i \in 1..delivered, Open(c, i)'
  PROVE  Open(c, i)
<1> USE DEF streamVars, procVars, dbVars, counterVars, faultVars
<1>u. delivered \in Nat /\ Len(stream) \in Nat
  BY DEF TypeOK
<1>n. \A v \in Worker : next[v] \in Nat /\ last[v] \in Nat /\ entry[v] \in Nat
  BY DEF TypeOK
<1> DEFINE Held(w) == i \in Batch(w) \/ (entry[w] = i /\ Reaching(w, c))
<1>s. ASSUME \A w \in Worker : Held(w)' => Held(w), delivered <= delivered' PROVE Open(c, i)
  <2>1. ~(i > delivered')
    <3>1. delivered' \in Nat /\ i \in 1..delivered
      BY TypeStep DEF TypeOK
    <3> QED
      BY ONLY <1>u, <1>s, <3>1
  <2>2. PICK w \in Worker : Held(w)'
    BY <2>1 DEF Open
  <2>3. Held(w)
    BY <1>s, <2>2
  <2> QED
    BY <2>3 DEF Open
<1>a. ASSUME delivered' = delivered, UNCHANGED <<next, last, entry, pc, todo>> PROVE Open(c, i)
  BY <1>a DEF Open, Batch, Reaching
<1>b. ASSUME NEW p \in Proc, delivered' = delivered, UNCHANGED <<next, last>>,
             \A w \in Worker : w # p => pc'[w] = pc[w] /\ entry'[w] = entry[w] /\ todo'[w] = todo[w],
             p \in Worker /\ entry'[p] = i /\ Reaching(p, c)' => entry[p] = i /\ Reaching(p, c)
      PROVE  Open(c, i)
  <2>1. ASSUME NEW w \in Worker, Held(w)' PROVE Held(w)
    <3>1. CASE w = p
      BY <1>b, <2>1, <3>1 DEF Batch
    <3>2. CASE w # p
      BY <1>b, <2>1, <3>2 DEF Batch, Reaching
    <3> QED
      BY <3>1, <3>2
  <2> HIDE DEF Held
  <2> QED
    BY <1>b, <1>s, <1>u, <2>1
<1>f. ASSUME NEW p \in Proc, Finish(p), delivered' = delivered PROVE Open(c, i)
  <2>1. /\ UNCHANGED <<next, last>>
        /\ \A w \in Worker : w # p => pc'[w] = pc[w] /\ entry'[w] = entry[w] /\ todo'[w] = todo[w]
        /\ pc'[p] = Idle
    BY <1>f DEF Finish, Goto, Proc, TypeOK
  <2> QED
    BY <1>b, <1>f, <2>1 DEF Reaching, Idle
<1>g. ASSUME NEW p \in Proc, NEW s \in Steps, Advance(p, s), delivered' = delivered,
             s \notin {"count", "price"}, s = "ledger" => pc[p] = "price"
      PROVE  Open(c, i)
  <2>1. /\ UNCHANGED <<next, last, entry, todo>>
        /\ \A w \in Worker : w # p => pc'[w] = pc[w]
        /\ pc'[p] = s
    BY <1>g DEF Advance, Goto, Proc, TypeOK
  <2> QED
    BY <1>b, <1>g, <2>1 DEF Reaching
<1>1. CASE XGroupCreate
  <2>1. delivered <= delivered' /\ UNCHANGED <<next, last, entry, pc, todo>>
    BY <1>1, <1>u DEF XGroupCreate, TypeOK
  <2>2. \A w \in Worker : Held(w)' => Held(w)
    BY <2>1 DEF Batch, Reaching
  <2> HIDE DEF Held
  <2> QED
    BY <1>s, <2>1, <2>2
<1>2. ASSUME NEW w \in Worker, XReadGroup(w) PROVE Open(c, i)
  <2>1. BatchSize \in Nat
    BY <1>2, <1>u, ConstantsAssumption DEF XReadGroup, BatchSize
  <2>2. /\ UNCHANGED <<entry, pc, todo>> /\ delivered' = delivered + BatchSize
        /\ next'[w] = delivered + 1 /\ last'[w] = delivered + BatchSize
        /\ \A v \in Worker : v # w => next'[v] = next[v] /\ last'[v] = last[v]
    BY <1>2 DEF XReadGroup, TypeOK
  <2>3. i \notin Batch(w)'
    BY ONLY <1>u, <2>1, <2>2, i \in 1..delivered DEF Batch
  <2>4. \A v \in Worker : v # w => Batch(v)' = Batch(v)
    BY <2>2 DEF Batch
  <2>5. \A v \in Worker : Held(v)' => Held(v)
    BY <2>2, <2>3, <2>4 DEF Reaching
  <2>6. delivered <= delivered'
    BY <1>u, <2>1, <2>2
  <2> HIDE DEF Held
  <2> QED
    BY <1>s, <2>5, <2>6
<1>3. ASSUME NEW w \in Worker, BeginMessage(w) PROVE Open(c, i)
  <2>1. /\ delivered' = delivered /\ next[w] <= last[w]
        /\ entry'[w] = next[w]
        /\ \A v \in Worker : v # w => /\ entry'[v] = entry[v] /\ pc'[v] = pc[v]
                                      /\ next'[v] = next[v] /\ last'[v] = last[v]
        /\ todo' = todo
    BY <1>3 DEF BeginMessage, HasMessage, Goto, Proc, TypeOK
  <2>2. \/ next'[w] = next[w] + 1 /\ last'[w] = last[w]
        \/ next'[w] = 1 /\ last'[w] = 0
    BY <1>3 DEF BeginMessage, TypeOK
  <2>3. next[w] \in Batch(w) /\ Batch(w)' \subseteq Batch(w)
    BY <1>n, <2>1, <2>2 DEF Batch
  <2>4. \A v \in Worker : v # w => Batch(v)' = Batch(v)
    BY <2>1 DEF Batch
  <2>5. ASSUME NEW v \in Worker, Held(v)' PROVE Held(v)
    <3>1. CASE v = w
      BY <2>1, <2>3, <2>5, <3>1
    <3>2. CASE v # w
      BY <2>1, <2>4, <2>5, <3>2 DEF Reaching
    <3> QED
      BY <3>1, <3>2
  <2>6. delivered <= delivered'
    BY <1>u, <2>1
  <2> HIDE DEF Held
  <2> QED
    BY <1>s, <2>5, <2>6
<1>4. ASSUME NEW w \in Worker, Crash(w) PROVE Open(c, i)
  <2>1. /\ delivered' = delivered /\ pc'[w] = Idle /\ next'[w] = 1 /\ last'[w] = 0
        /\ \A v \in Worker : v # w => /\ entry'[v] = entry[v] /\ pc'[v] = pc[v] /\ todo'[v] = todo[v]
                                      /\ next'[v] = next[v] /\ last'[v] = last[v]
    BY <1>4 DEF Crash, Proc, TypeOK
  <2>2. Batch(w)' = {}
    BY <2>1 DEF Batch
  <2>3. ASSUME NEW v \in Worker, Held(v)' PROVE Held(v)
    <3>1. CASE v = w
      BY <2>1, <2>2, <2>3, <3>1 DEF Reaching, Idle
    <3>2. CASE v # w
      BY <2>1, <2>3, <3>2 DEF Reaching, Batch
    <3> QED
      BY <3>1, <3>2
  <2>4. delivered <= delivered'
    BY <1>u, <2>1
  <2> HIDE DEF Held
  <2> QED
    BY <1>s, <2>3, <2>4
<1>5. ASSUME NEW p \in Proc, CheckBudget(p) PROVE Open(c, i)
  <2>1. CASE Finish(p)
    BY <1>5, <1>f, <2>1 DEF CheckBudget
  <2>2. CASE Advance(p, "log")
    BY <1>5, <1>g, <2>2 DEF CheckBudget, Steps
  <2>3. CASE Advance(p, "ledger")
    BY <1>5, <1>g, <2>3 DEF CheckBudget, Steps
  <2> QED
    BY <1>5, <2>1, <2>2, <2>3 DEF CheckBudget
<1>6. ASSUME NEW p \in Proc, CheckSkipped(p) PROVE Open(c, i)
  BY <1>6, <1>g DEF CheckSkipped, Steps
<1>7. ASSUME NEW p \in Proc, ResolveFails(p) \/ InsertFails(p) PROVE Open(c, i)
  BY <1>7, <1>f DEF ResolveFails, InsertFails
<1>8. ASSUME NEW p \in Proc, WriteLedger(p) PROVE Open(c, i)
  <2>1. /\ delivered' = delivered /\ UNCHANGED <<next, last, entry>> /\ pc[p] = "ledger"
        /\ \A w \in Worker : w # p => pc'[w] = pc[w] /\ todo'[w] = todo[w]
    BY <1>8 DEF WriteLedger, Goto, Proc, TypeOK
  <2> QED
    BY <1>b, <2>1 DEF Reaching
<1>9. ASSUME NEW p \in Proc, NEW d \in Counter, IncrementBudget(p, d) \/ IncrementFails(p, d)
      PROVE  Open(c, i)
  <2>1. /\ delivered' = delivered /\ UNCHANGED <<next, last, entry, pc>> /\ pc[p] = "count"
        /\ todo' = [todo EXCEPT ![p] = @ \ {d}]
    BY <1>9 DEF IncrementBudget, IncrementFails
  <2>2. todo'[p] \subseteq todo[p] /\ \A w \in Worker : w # p => todo'[w] = todo[w]
    BY <2>1 DEF Proc, TypeOK
  <2> QED
    BY <1>b, <2>1, <2>2 DEF Reaching
<1>10. ASSUME NEW p \in Proc, ProcessReturns(p) PROVE Open(c, i)
  BY <1>10, <1>g DEF ProcessReturns, Steps
<1>11. ASSUME NEW p \in Proc, CreateUsageLog(p) PROVE Open(c, i)
  <2>1. CASE Finish(p)
    BY <1>11, <1>f, <2>1 DEF CreateUsageLog
  <2>2. CASE Advance(p, "ack")
    BY <1>11, <1>g, <2>2 DEF CreateUsageLog, Steps
  <2> QED
    BY <1>11, <2>1, <2>2 DEF CreateUsageLog
<1>12. ASSUME NEW w \in Worker, XAck(w) \/ XAckFails(w) PROVE Open(c, i)
  BY <1>12, <1>f DEF XAck, XAckFails, Proc
<1>13. ASSUME NEW r \in Reporter, NEW e \in Event, BeginReport(r, e) PROVE Open(c, i)
  <2>1. r \in Proc /\ r \notin Worker
    BY ConstantsAssumption DEF Proc
  <2>2. /\ delivered' = delivered /\ UNCHANGED <<next, last, entry, todo>>
        /\ \A w \in Worker : w # r => pc'[w] = pc[w]
    BY <1>13 DEF BeginReport, Goto, Proc, TypeOK
  <2> QED
    BY <1>b, <2>1, <2>2
<1>14. (\E e \in Event : Publish(e)) \/ (\E d \in Counter : Evict(d)) \/ UNCHANGED vars => Open(c, i)
  BY <1>a DEF Publish, Evict, vars
<1> QED
  BY <1>1, <1>2, <1>3, <1>4, <1>5, <1>6, <1>7, <1>8, <1>9, <1>10, <1>11, <1>12, <1>13, <1>14
     DEF Next, WorkerStep, ProcessStep, Proc

\* What an entry adds to a counter is a number.
LEMMA EntryCosts ==
  ASSUME TypeOK
  PROVE  \A i \in 1..Len(stream) : EntryCost[i] \in Nat
<1>1. BilledCost \in [Event -> Nat]
  BY ConstantsAssumption DEF BilledCost
<1>2. \A i \in 1..Len(stream) : stream[i] \in Event
  BY DEF TypeOK
<1> QED
  BY <1>1, <1>2 DEF EntryCost

\* The closed entries stay closed, at the same cost.
LEMMA ClosedGrows ==
  ASSUME TypeOK, [Next]_vars, NEW c \in Counter
  PROVE  /\ Closed(c) \subseteq Closed(c)' /\ Closed(c)' \subseteq 1..Len(stream')
         /\ IsFiniteSet(1..Len(stream')) /\ IsFiniteSet(1..Len(stream))
         /\ \A i \in 1..Len(stream) : EntryCost'[i] = EntryCost[i]
         /\ \A i \in 1..Len(stream') : EntryCost'[i] \in Nat
<1>t. TypeOK'
  BY TypeStep
<1>u. delivered \in Nat /\ Len(stream) \in Nat /\ Len(stream') \in Nat
  BY <1>t DEF TypeOK
<1>1. Len(stream) <= Len(stream') /\ \A i \in 1..Len(stream) : stream'[i] = stream[i]
  BY RowsStay
<1>2. \A i \in 1..Len(stream) : i \in 1..Len(stream')
  BY <1>u, <1>1
<1>3. ASSUME NEW i \in Closed(c) PROVE i \in Closed(c)'
  <2>1. i \in 1..Len(stream) /\ ~Open(c, i)
    BY DEF Closed
  <2>2. i \in 1..delivered
    BY <1>u, <2>1 DEF Open
  <2>3. ~Open(c, i)'
    BY <2>1, <2>2, OpenShrinks
  <2> QED
    BY <1>2, <2>1, <2>3 DEF Closed
<1>4. \A i \in 1..Len(stream) : EntryCost'[i] = EntryCost[i]
  BY <1>1, <1>2 DEF EntryCost
<1>5. \A i \in 1..Len(stream') : EntryCost'[i] \in Nat
  <2>1. BilledCost \in [Event -> Nat]
    BY ConstantsAssumption DEF BilledCost
  <2>2. \A i \in 1..Len(stream') : stream'[i] \in Event
    BY <1>t DEF TypeOK
  <2> QED
    BY <2>1, <2>2 DEF EntryCost, BilledCost
<1>6. IsFiniteSet(1..Len(stream')) /\ IsFiniteSet(1..Len(stream))
  BY <1>u, FS_Interval
<1>7. Closed(c) \subseteq Closed(c)'
  BY <1>3
<1>8. Closed(c)' \subseteq 1..Len(stream')
  BY DEF Closed
<1> QED
  BY <1>4, <1>5, <1>6, <1>7, <1>8

Counted(c) == spend[c] <= Sum(EntryCost, Closed(c))

\* A counter that does not grow stays within what was counted.
LEMMA CountedLeft ==
  ASSUME TypeOK, [Next]_vars, NEW c \in Counter, Counted(c), spend'[c] <= spend[c]
  PROVE  Counted(c)'
<1>t. TypeOK'
  BY TypeStep
<1>1. Sum(EntryCost, Closed(c)) = Sum(EntryCost', Closed(c))
  <2>1. Closed(c) \subseteq 1..Len(stream) /\ IsFiniteSet(Closed(c))
    BY ClosedGrows, FS_Subset DEF Closed
  <2>2. \A i \in Closed(c) : EntryCost[i] = EntryCost'[i]
    BY <2>1, ClosedGrows
  <2> QED
    BY <2>1, <2>2, SumSame
<1>2. /\ Sum(EntryCost', Closed(c)) <= Sum(EntryCost', Closed(c)')
      /\ Sum(EntryCost', Closed(c)) \in Nat /\ Sum(EntryCost', Closed(c)') \in Nat
  <2>1. Closed(c) \in SUBSET Closed(c)' /\ IsFiniteSet(Closed(c)')
    BY ClosedGrows, FS_Subset
  <2>2. \A i \in Closed(c)' : EntryCost'[i] \in Nat
    BY ClosedGrows
  <2> QED
    BY <2>1, <2>2, SumNat
<1>3. spend[c] \in Nat /\ spend'[c] \in Nat
  BY <1>t DEF TypeOK
<1> QED
  BY <1>1, <1>2, <1>3 DEF Counted

\* An increment closes the entry in hand for that counter: no other hand or
\* batch holds it.
LEMMA CountedMore ==
  ASSUME TypeOK, HandInv, HeldOnce, CountingOK, [Next]_vars, NEW p \in Proc, NEW c \in Counter,
         IncrementBudget(p, c), Counted(c)
  PROVE  Counted(c)'
<1>t. TypeOK'
  BY TypeStep
<1>1. /\ p \in Worker /\ cur[p] \in BilledEvent /\ pc[p] = "count" /\ c \in todo[p]
      /\ UNCHANGED <<pc, entry, next, last, delivered>>
  BY DEF IncrementBudget, CountingOK, procVars, streamVars
<1>2. todo'[p] = todo[p] \ {c} /\ spend'[c] = spend[c] + Cost[cur[p]]
  BY DEF IncrementBudget, TypeOK
<1>3. PICK i \in 1..delivered : i = entry[p] /\ stream[i] = cur[p]
  BY <1>1 DEF HandInv, HandOK, Idle
<1> DEFINE S == Closed(c) \cup {i}
<1>4. i \in 1..Len(stream)
  BY <1>3 DEF TypeOK
<1>5. i \notin Closed(c)
  BY <1>1, <1>3 DEF Closed, Open, Reaching
<1>6. i \in Closed(c)'
  <2>1. i # 0 /\ ~(i > delivered')
    BY <1>1, <1>3 DEF TypeOK
  <2>2. \A w \in Worker : i \notin Batch(w)'
    BY <1>1, <1>3, <2>1 DEF HeldOnce, Batch
  <2>3. \A w \in Worker : w # p => entry'[w] # i
    BY <1>1, <1>3, <2>1 DEF HeldOnce
  <2>4. ~Reaching(p, c)'
    BY <1>1, <1>2 DEF Reaching
  <2>5. ~Open(c, i)'
    BY <2>1, <2>2, <2>3, <2>4 DEF Open
  <2>6. i \in 1..Len(stream')
    <3>1. Len(stream) <= Len(stream') /\ Len(stream) \in Nat /\ Len(stream') \in Nat
      BY <1>t, RowsStay DEF TypeOK
    <3> QED
      BY <1>4, <3>1
  <2> QED
    BY <2>5, <2>6 DEF Closed
<1>7. EntryCost[i] = Cost[cur[p]]
  <2>1. BilledCost[cur[p]] = Cost[cur[p]]
    BY <1>1, ConstantsAssumption DEF BilledCost
  <2> QED
    BY <1>3, <1>4, <2>1 DEF EntryCost
<1>8. Sum(EntryCost, S) = Sum(EntryCost, Closed(c)) + EntryCost[i]
  <2>1. Closed(c) \subseteq 1..Len(stream) /\ IsFiniteSet(Closed(c))
    BY ClosedGrows, FS_Subset DEF Closed
  <2>2. \A j \in S : EntryCost[j] \in Int
    BY <1>4, <2>1, EntryCosts
  <2> QED
    BY <1>5, <2>1, <2>2, SumAdd
<1>9. S \subseteq 1..Len(stream) /\ IsFiniteSet(S)
  BY <1>4, ClosedGrows, FS_Subset DEF Closed
<1>10. Sum(EntryCost, S) = Sum(EntryCost', S)
  BY <1>9, ClosedGrows, SumSame
<1>11. /\ Sum(EntryCost', S) <= Sum(EntryCost', Closed(c)')
       /\ Sum(EntryCost', S) \in Nat /\ Sum(EntryCost', Closed(c)') \in Nat
  <2>1. S \in SUBSET Closed(c)' /\ IsFiniteSet(Closed(c)')
    BY <1>6, ClosedGrows, FS_Subset
  <2>2. \A j \in Closed(c)' : EntryCost'[j] \in Nat
    BY ClosedGrows
  <2> QED
    BY <2>1, <2>2, SumNat
<1>12. /\ spend[c] \in Nat /\ Cost[cur[p]] \in Nat /\ spend'[c] \in Nat
       /\ Sum(EntryCost, Closed(c)) \in Nat
  <2>1. Closed(c) \subseteq 1..Len(stream) /\ IsFiniteSet(Closed(c))
    BY ClosedGrows, FS_Subset DEF Closed
  <2>2. Sum(EntryCost, Closed(c)) \in Nat
    BY <2>1, EntryCosts, SumNat
  <2>3. cur[p] \in Event
    BY <1>1, ConstantsAssumption
  <2> QED
    BY <1>t, <2>2, <2>3, ConstantsAssumption DEF TypeOK
<1> QED
  BY <1>2, <1>7, <1>8, <1>10, <1>11, <1>12 DEF Counted

\* Every step keeps each counter within what was counted for closed entries.
LEMMA CountedStep ==
  ASSUME TypeOK, HandInv, HeldOnce, CountingOK, [Next]_vars, NEW c \in Counter, Counted(c)
  PROVE  Counted(c)'
<1> USE DEF streamVars, procVars, dbVars, counterVars, faultVars
<1>n. spend[c] \in Nat
  BY DEF TypeOK
<1>1. ASSUME NEW p \in Proc, NEW d \in Counter, IncrementBudget(p, d) PROVE Counted(c)'
  <2>1. CASE d = c
    BY <1>1, <2>1, CountedMore
  <2>2. CASE d # c
    <3>1. spend'[c] = spend[c]
      BY <1>1, <2>2 DEF IncrementBudget, TypeOK
    <3> QED
      BY <1>n, <3>1, CountedLeft
  <2> QED
    BY <2>1, <2>2
<1>2. ASSUME NEW d \in Counter, Evict(d) PROVE Counted(c)'
  <2>1. spend'[c] <= spend[c]
    BY <1>2, <1>n DEF Evict, TypeOK
  <2> QED
    BY <2>1, CountedLeft
<1>3. ASSUME spend' = spend PROVE Counted(c)'
  BY <1>3, <1>n, CountedLeft
<1> QED
  BY <1>1, <1>2, <1>3 DEF Next, vars, WorkerStep, ProcessStep, Publish, XGroupCreate, XReadGroup,
     BeginMessage, BeginReport, CheckBudget, ResolveFails, CheckSkipped, WriteLedger, InsertFails,
     IncrementFails, ProcessReturns, CreateUsageLog, XAck, XAckFails, Crash, Proc

\* What each row adds to the total.
RowCost == [row \in BilledRows |-> Cost[row.event]]

TotalOK == IsFiniteSet(ledger) /\ ledgerSum = LedgerTotal

\* A row of the ledger has a cost.
LEMMA RowCosts ==
  ASSUME TypeOK, IsFiniteSet(ledger)
  PROVE  IsFiniteSet(BilledRows) /\ \A row \in BilledRows : RowCost[row] \in Nat
<1>1. \A row \in BilledRows : row.event \in Event
  BY DEF BilledRows, TypeOK, LedgerRow
<1> QED
  BY <1>1, FS_Subset, ConstantsAssumption DEF BilledRows, RowCost

\* The ledger's sum is the sum of its billed rows: a taken key adds no row.
LEMMA TotalStep == TypeOK /\ TotalOK /\ [Next]_vars => TotalOK'
<1> SUFFICES ASSUME TypeOK, TotalOK, [Next]_vars PROVE TotalOK'
  OBVIOUS
<1> USE DEF streamVars, procVars, dbVars, counterVars, faultVars
<1>a. ASSUME UNCHANGED <<ledger, ledgerSum>> PROVE TotalOK'
  BY <1>a DEF TotalOK, LedgerTotal, BilledRows
<1>1. ASSUME NEW p \in Proc, WriteLedger(p) PROVE TotalOK'
  <2> DEFINE new == [event |-> cur[p], billing |-> Billing(p)]
  <2>1. CASE InLedger(cur[p])
    BY <1>1, <1>a, <2>1 DEF WriteLedger
  <2>2. CASE ~InLedger(cur[p])
    <3>1. /\ ledger' = ledger \cup {new} /\ new \notin ledger
          /\ ledgerSum' = ledgerSum + (IF APIUsageBilled(p) THEN Cost[cur[p]] ELSE 0)
      BY <1>1, <2>2 DEF WriteLedger, InLedger
    <3>2. IsFiniteSet(ledger')
      BY <3>1, FS_AddElement DEF TotalOK
    <3>3. ledgerSum \in Nat
      BY DEF TypeOK
    <3>4. CASE ~APIUsageBilled(p)
      <4>1. new.billing # "billed"
        BY <3>4 DEF Billing
      <4>2. BilledRows' = BilledRows
        BY <3>1, <4>1 DEF BilledRows
      <4>3. LedgerTotal' = LedgerTotal
        BY <4>2 DEF LedgerTotal
      <4> QED
        BY <3>1, <3>2, <3>3, <3>4, <4>3 DEF TotalOK
    <3>5. CASE APIUsageBilled(p)
      <4>1. new.billing = "billed" /\ new.event = cur[p]
        BY <3>5 DEF Billing
      <4>2. BilledRows' = BilledRows \cup {new} /\ new \notin BilledRows
        BY <3>1, <4>1 DEF BilledRows
      <4>3. IsFiniteSet(BilledRows) /\ \A row \in BilledRows : RowCost[row] \in Nat
        BY RowCosts DEF TotalOK
      <4>4. Cost[cur[p]] \in Nat
        BY <3>5, ConstantsAssumption DEF APIUsageBilled
      <4>5. RowCost' = [row \in BilledRows \cup {new} |-> Cost[row.event]]
        BY <4>2 DEF RowCost
      <4> HIDE DEF new
      <4>6. /\ RowCost'[new] = Cost[cur[p]]
            /\ \A row \in BilledRows : RowCost'[row] = RowCost[row]
        BY <4>1, <4>5 DEF RowCost
      <4>7. Sum(RowCost', BilledRows') = Sum(RowCost', BilledRows) + RowCost'[new]
        <5>1. \A row \in BilledRows \cup {new} : RowCost'[row] \in Int
          BY <4>3, <4>4, <4>6
        <5> QED
          BY <4>2, <4>3, <5>1, SumAdd
      <4>8. Sum(RowCost', BilledRows) = Sum(RowCost, BilledRows)
        BY <4>3, <4>6, SumSame
      <4>9. LedgerTotal' = LedgerTotal + Cost[cur[p]]
        BY <4>6, <4>7, <4>8 DEF LedgerTotal, RowCost
      <4> QED
        BY <3>1, <3>2, <3>5, <4>9 DEF TotalOK
    <3> QED
      BY <3>4, <3>5
  <2> QED
    BY <2>1, <2>2
<1> QED
  BY <1>a, <1>1 DEF Next, vars, WorkerStep, ProcessStep, Publish, XGroupCreate, XReadGroup,
     BeginMessage, BeginReport, CheckBudget, ResolveFails, CheckSkipped, InsertFails,
     IncrementBudget, IncrementFails, ProcessReturns, CreateUsageLog, XAck, XAckFails, Crash,
     Evict, Proc

-----------------------------------------------------------------------------
\* What each worker in flight owes.
Debt(c) == [w \in Owing(c) |-> Cost[cur[w]]]

Lossless == hit \cap {"incr", "crash", "evict"} = {}
Flight(c) == spend[c] + InFlight(c) >= ledgerSum

\* A worker in flight owes a number.
LEMMA Debts ==
  ASSUME TypeOK, CountingOK, NEW c \in Counter
  PROVE  IsFiniteSet(Owing(c)) /\ \A w \in Owing(c) : Debt(c)[w] \in Nat
<1>1. IsFiniteSet(Owing(c))
  BY FS_Subset, ConstantsAssumption DEF Owing
<1>2. \A w \in Owing(c) : cur[w] \in Event
  BY ConstantsAssumption DEF Owing, CountingOK, Proc
<1> QED
  BY <1>1, <1>2, ConstantsAssumption DEF Debt

\* A step of others leaves the debts alone.
LEMMA FlightSame ==
  ASSUME TypeOK, CountingOK, NEW c \in Counter, Flight(c),
         Owing(c)' = Owing(c), \A w \in Owing(c) : cur'[w] = cur[w],
         spend'[c] = spend[c], ledgerSum' = ledgerSum
  PROVE  Flight(c)'
<1>1. \A w \in Owing(c) : Debt(c)'[w] = Debt(c)[w]
  BY DEF Debt
<1>2. Sum(Debt(c)', Owing(c)) = Sum(Debt(c), Owing(c))
  BY <1>1, Debts, SumSame
<1> QED
  BY <1>2 DEF Flight, InFlight, Debt

\* The counters cover the ledger but for what is in flight: a charge is in
\* flight from the moment the row is written until the counter has it.
LEMMA FlightStep ==
  ASSUME TypeOK, CountingOK, [Next]_vars, Lossless', NEW c \in Counter, Flight(c)
  PROVE  Flight(c)'
<1> USE DEF streamVars, procVars, dbVars, counterVars, faultVars
<1>c. CountingOK => \A w \in Owing(c) : cur[w] \in BilledEvent
  BY DEF CountingOK, Owing, Proc
<1>d. IsFiniteSet(Owing(c)) /\ \A w \in Owing(c) : Debt(c)[w] \in Nat
  BY Debts
<1>e. spend[c] \in Nat /\ ledgerSum \in Nat /\ InFlight(c) \in Nat
  BY <1>d, SumNat DEF TypeOK, InFlight, Debt
<1>a. ASSUME UNCHANGED <<pc, cur, todo, spend, ledgerSum>> PROVE Flight(c)'
  BY <1>a DEF Flight, InFlight, Owing
\* A step of a process that is not counting before or after.
<1>b. ASSUME NEW p \in Proc, pc[p] # "count" \/ todo[p] = {}, pc'[p] # "count",
             UNCHANGED <<spend, ledgerSum>>,
             \A q \in Proc : q # p => pc'[q] = pc[q] /\ cur'[q] = cur[q] /\ todo'[q] = todo[q]
      PROVE  Flight(c)'
  <2>1. p \notin Owing(c) /\ p \notin Owing(c)'
    BY <1>b DEF Owing
  <2>2. Owing(c)' = Owing(c) /\ \A w \in Owing(c) : cur'[w] = cur[w]
    BY <1>b, <2>1 DEF Owing, Proc
  <2> QED
    BY <1>b, <2>2, FlightSame
<1>f. ASSUME NEW p \in Proc, Finish(p), pc[p] # "count", UNCHANGED <<spend, ledgerSum>>
      PROVE  Flight(c)'
  BY <1>b, <1>f DEF Finish, Goto, Idle, TypeOK
<1>g. ASSUME NEW p \in Proc, NEW s \in Steps, s # "count", Advance(p, s),
             pc[p] # "count" \/ todo[p] = {}, UNCHANGED <<spend, ledgerSum>>
      PROVE  Flight(c)'
  BY <1>b, <1>g DEF Advance, Goto, TypeOK
<1>1. ASSUME NEW w \in Worker, BeginMessage(w) PROVE Flight(c)'
  BY <1>1, <1>b DEF BeginMessage, Goto, Idle, Proc, TypeOK
<1>2. ASSUME NEW r \in Reporter, NEW e \in Event, BeginReport(r, e) PROVE Flight(c)'
  BY <1>2, <1>b DEF BeginReport, Goto, Idle, Proc, TypeOK
<1>3. ASSUME NEW p \in Proc, CheckBudget(p) PROVE Flight(c)'
  <2>1. CASE Finish(p)
    BY <1>3, <1>f, <2>1 DEF CheckBudget
  <2>2. CASE Advance(p, "log")
    BY <1>3, <1>g, <2>2 DEF CheckBudget, Steps
  <2>3. CASE Advance(p, "ledger")
    BY <1>3, <1>g, <2>3 DEF CheckBudget, Steps
  <2> QED
    BY <1>3, <2>1, <2>2, <2>3 DEF CheckBudget
<1>4. ASSUME NEW p \in Proc, ResolveFails(p) \/ InsertFails(p) PROVE Flight(c)'
  BY <1>4, <1>f DEF ResolveFails, InsertFails
<1>5. ASSUME NEW p \in Proc, CheckSkipped(p) PROVE Flight(c)'
  BY <1>5, <1>g DEF CheckSkipped, Steps
<1>6. ASSUME NEW p \in Proc, WriteLedger(p) PROVE Flight(c)'
  <2>1. /\ pc[p] = "ledger" /\ UNCHANGED <<cur, spend>>
        /\ \A q \in Proc : q # p => pc'[q] = pc[q] /\ todo'[q] = todo[q]
    BY <1>6 DEF WriteLedger, Goto, TypeOK
  <2>2. CASE ~APIUsageBilled(p)
    <3>1. pc'[p] = "log" /\ ledgerSum' = ledgerSum
      BY <1>6, <1>e, <2>2 DEF WriteLedger, Goto, TypeOK
    <3> QED
      BY <1>b, <2>1, <3>1
  <2>3. CASE APIUsageBilled(p)
    <3>1. /\ p \in Worker /\ pc'[p] = "count" /\ todo'[p] = Counter
          /\ cur[p] \in BilledEvent /\ Cost[cur[p]] \in Nat
      BY <1>6, <2>3, ConstantsAssumption DEF WriteLedger, Goto, TypeOK, APIUsageBilled
    <3>2. ledgerSum' <= ledgerSum + Cost[cur[p]] /\ ledgerSum' \in Nat
      BY <1>6, <1>e, <2>3, <3>1 DEF WriteLedger
    <3>3. Owing(c)' = Owing(c) \cup {p} /\ p \notin Owing(c)
      BY <2>1, <3>1 DEF Owing, Proc
    <3>4. Debt(c)'[p] = Cost[cur[p]] /\ \A w \in Owing(c) : Debt(c)'[w] = Debt(c)[w]
      BY <2>1, <3>3 DEF Debt
    <3>5. Sum(Debt(c)', Owing(c)') = Sum(Debt(c)', Owing(c)) + Debt(c)'[p]
      <4>1. \A w \in Owing(c) \cup {p} : Debt(c)'[w] \in Int
        BY <1>d, <3>1, <3>4
      <4>2. Sum(Debt(c)', Owing(c) \cup {p}) = Sum(Debt(c)', Owing(c)) + Debt(c)'[p]
        BY <1>d, <3>3, <4>1, SumAdd
      <4> QED
        BY <3>3, <4>2
    <3>6. Sum(Debt(c)', Owing(c)) = Sum(Debt(c), Owing(c))
      BY <1>d, <3>4, SumSame
    <3>7. InFlight(c)' = InFlight(c) + Cost[cur[p]]
      BY <3>4, <3>5, <3>6 DEF InFlight, Debt
    <3> QED
      BY <1>e, <2>1, <3>1, <3>2, <3>7 DEF Flight
  <2> QED
    BY <2>2, <2>3
<1>7. ASSUME NEW p \in Proc, NEW d \in Counter, IncrementBudget(p, d) PROVE Flight(c)'
  <2>1. /\ pc[p] = "count" /\ d \in todo[p] /\ UNCHANGED <<pc, cur, ledgerSum>>
        /\ todo'[p] = todo[p] \ {d} /\ \A q \in Proc : q # p => todo'[q] = todo[q]
    BY <1>7 DEF IncrementBudget, TypeOK
  <2>2. p \in Worker /\ Cost[cur[p]] \in Nat
    BY <2>1, ConstantsAssumption DEF CountingOK
  <2>3. CASE d # c
    <3>1. spend'[c] = spend[c]
      BY <1>7, <2>3 DEF IncrementBudget, TypeOK
    <3>2. Owing(c)' = Owing(c)
      BY <2>1, <2>3 DEF Owing, Proc
    <3> QED
      BY <2>1, <3>1, <3>2, FlightSame
  <2>4. CASE d = c
    <3>1. spend'[c] = spend[c] + Cost[cur[p]]
      BY <1>7, <2>4 DEF IncrementBudget, TypeOK
    <3>2. Owing(c)' = Owing(c) \ {p} /\ p \in Owing(c)
      BY <2>1, <2>2, <2>4 DEF Owing, Proc
    <3>3. \A w \in Owing(c)' : Debt(c)'[w] = Debt(c)[w]
      BY <2>1, <3>2 DEF Debt
    <3>4. IsFiniteSet(Owing(c)')
      BY <1>d, <3>2, FS_Subset
    <3>5. Sum(Debt(c)', Owing(c)') = Sum(Debt(c), Owing(c)')
      BY <3>3, <3>4, SumSame
    <3>6. Sum(Debt(c), Owing(c) \ {p}) = Sum(Debt(c), Owing(c)) - Debt(c)[p]
      BY <1>d, <3>2, SumRemove
    <3>7. Debt(c)[p] = Cost[cur[p]]
      BY <3>2 DEF Debt
    <3>8. InFlight(c)' = InFlight(c) - Cost[cur[p]]
      BY <3>2, <3>5, <3>6, <3>7 DEF InFlight, Debt
    <3> QED
      BY <1>e, <2>1, <2>2, <3>1, <3>8 DEF Flight
  <2> QED
    BY <2>3, <2>4
<1>8. ASSUME NEW p \in Proc, ProcessReturns(p) PROVE Flight(c)'
  BY <1>8, <1>g DEF ProcessReturns, Steps
<1>9. ASSUME NEW p \in Proc, CreateUsageLog(p) PROVE Flight(c)'
  <2>1. CASE Finish(p)
    BY <1>9, <1>f, <2>1 DEF CreateUsageLog
  <2>2. CASE Advance(p, "ack")
    BY <1>9, <1>g, <2>2 DEF CreateUsageLog, Steps
  <2> QED
    BY <1>9, <2>1, <2>2 DEF CreateUsageLog
<1>10. ASSUME NEW w \in Worker, XAck(w) \/ XAckFails(w) PROVE Flight(c)'
  BY <1>10, <1>f DEF XAck, XAckFails, Proc
<1>11. ASSUME \/ \E p \in Proc, d \in Counter : IncrementFails(p, d)
              \/ \E w \in Worker : Crash(w)
              \/ \E d \in Counter : Evict(d)
       PROVE  FALSE
  BY <1>11 DEF IncrementFails, Crash, Evict, Fault, Lossless
<1>12. ASSUME \/ \E e \in Event : Publish(e)
              \/ XGroupCreate
              \/ \E w \in Worker : XReadGroup(w)
              \/ UNCHANGED vars
       PROVE  Flight(c)'
  BY <1>12, <1>a DEF Publish, XGroupCreate, XReadGroup, vars
<1> QED
  BY <1>1, <1>2, <1>3, <1>4, <1>5, <1>6, <1>7, <1>8, <1>9, <1>10, <1>11, <1>12
     DEF Next, WorkerStep, ProcessStep, Proc

-----------------------------------------------------------------------------
Positions(e) == {i \in 1..Len(stream) : stream[i] = e}
CopyCost == [e \in BilledEvent |-> Copies(e) * Cost[e]]
StreamOK == Sum(EntryCost, 1..Len(stream)) = StreamTotal

\* The copies of an event are a number, and cost a number.
LEMMA CopyCosts ==
  ASSUME TypeOK
  PROVE  /\ IsFiniteSet(1..Len(stream))
         /\ \A e \in Event : IsFiniteSet(Positions(e)) /\ Copies(e) \in Nat
         /\ \A e \in BilledEvent : CopyCost[e] \in Nat
<1>1. IsFiniteSet(1..Len(stream))
  BY FS_Interval DEF TypeOK
<1>2. \A e \in Event : IsFiniteSet(Positions(e)) /\ Copies(e) \in Nat
  BY <1>1, FS_Subset, FS_CardinalityType DEF Positions, Copies
<1>3. \A m, n \in Nat : m * n \in Nat
  OBVIOUS
<1>4. \A e \in BilledEvent : Copies(e) \in Nat /\ Cost[e] \in Nat
  BY <1>2, ConstantsAssumption
<1> QED
  BY <1>1, <1>2, <1>3, <1>4 DEF CopyCost

\* The cost of the billed entries is counted by entry or by event alike: a
\* publication adds the same to both.
LEMMA StreamStep == TypeOK /\ StreamOK /\ [Next]_vars => StreamOK'
<1> SUFFICES ASSUME TypeOK, StreamOK, [Next]_vars PROVE StreamOK'
  OBVIOUS
<1> USE DEF streamVars, procVars, dbVars, counterVars, faultVars
<1>t. TypeOK'
  BY TypeStep
<1>1. ASSUME NEW e \in Event, Publish(e) PROVE StreamOK'
  <2> DEFINE n == Len(stream)
             S == 1..n
  <2>1. /\ n \in Nat /\ Len(stream') = n + 1 /\ stream'[n + 1] = e
        /\ \A i \in S : stream'[i] = stream[i]
    BY <1>1 DEF Publish, TypeOK
  <2>2. 1..Len(stream') = S \cup {n + 1} /\ n + 1 \notin S
    BY <2>1
  <2>3. IsFiniteSet(S) /\ \A i \in S : EntryCost[i] \in Nat
    BY CopyCosts, EntryCosts
  <2>4. /\ \A i \in S : EntryCost'[i] = EntryCost[i]
        /\ EntryCost'[n + 1] = BilledCost[e]
    BY <2>1, <2>2 DEF EntryCost
  <2>5. BilledCost[e] \in Nat
    BY ConstantsAssumption DEF BilledCost
  <2> HIDE DEF n, S
  <2>6. Sum(EntryCost', S \cup {n + 1}) = Sum(EntryCost', S) + EntryCost'[n + 1]
    <3>1. \A i \in S \cup {n + 1} : EntryCost'[i] \in Int
      BY <2>3, <2>4, <2>5
    <3>2. ASSUME NEW k, k \notin S, \A i \in S \cup {k} : EntryCost'[i] \in Int
          PROVE  Sum(EntryCost', S \cup {k}) = Sum(EntryCost', S) + EntryCost'[k]
      BY <2>3, <3>2, SumAdd
    <3> QED
      BY <2>2, <3>1, <3>2
  <2>7. Sum(EntryCost', S) = Sum(EntryCost, S)
    BY <2>3, <2>4, SumSame
  <2>8. Sum(EntryCost', 1..Len(stream')) = Sum(EntryCost, S) + BilledCost[e]
    BY <2>2, <2>4, <2>6, <2>7
  <2>9. \A f \in Event : f # e => Positions(f)' = Positions(f)
    BY <2>1, <2>2 DEF Positions, S, n
  <2>10. Positions(e)' = Positions(e) \cup {n + 1} /\ n + 1 \notin Positions(e)
    BY <2>1, <2>2 DEF Positions, S, n
  <2>11. Copies(e)' = Copies(e) + 1 /\ \A f \in Event : f # e => Copies(f)' = Copies(f)
    <3>1. IsFiniteSet(Positions(e))
      BY CopyCosts
    <3>2. Cardinality(Positions(e) \cup {n + 1}) = Cardinality(Positions(e)) + 1
      BY <2>10, <3>1, FS_AddElement
    <3> QED
      BY <2>9, <2>10, <3>2 DEF Copies, Positions
  <2>12. StreamTotal' = StreamTotal + BilledCost[e]
    <3>1. \A f \in BilledEvent : f # e => CopyCost'[f] = CopyCost[f]
      BY <2>11, ConstantsAssumption DEF CopyCost
    <3>2. IsFiniteSet(BilledEvent) /\ \A f \in BilledEvent : CopyCost[f] \in Nat
      BY CopyCosts, ConstantsAssumption
    <3>3. CASE e \notin BilledEvent
      <4>1. Sum(CopyCost', BilledEvent) = Sum(CopyCost, BilledEvent)
        BY <3>1, <3>2, <3>3, SumSame
      <4>2. BilledCost[e] = 0 /\ Sum(CopyCost, BilledEvent) \in Nat
        BY <3>2, <3>3, SumNat DEF BilledCost
      <4> QED
        BY <4>1, <4>2 DEF StreamTotal, CopyCost
    <3>4. CASE e \in BilledEvent
      <4>1. CopyCost'[e] = CopyCost[e] + Cost[e] /\ Cost[e] \in Nat
        <5>1. Copies(e) \in Nat /\ Cost[e] \in Nat
          BY CopyCosts, ConstantsAssumption
        <5>2. \A m, k \in Nat : (m + 1) * k = m * k + k
          OBVIOUS
        <5> QED
          BY <2>11, <3>4, <5>1, <5>2 DEF CopyCost
      <4>2. \A f \in BilledEvent : CopyCost[f] \in Int /\ CopyCost'[f] \in Int
        BY <3>1, <3>2, <4>1
      <4>3. Sum(CopyCost', BilledEvent) = Sum(CopyCost, BilledEvent) - CopyCost[e] + CopyCost'[e]
        BY <3>1, <3>2, <3>4, <4>2, SumChange
      <4>4. Sum(CopyCost, BilledEvent) \in Nat /\ CopyCost[e] \in Nat
        BY <3>2, <3>4, SumNat
      <4>5. Sum(CopyCost', BilledEvent) = Sum(CopyCost, BilledEvent) + BilledCost[e]
        BY <3>4, <4>1, <4>3, <4>4 DEF BilledCost
      <4> QED
        BY <4>5 DEF StreamTotal, CopyCost
    <3> QED
      BY <3>3, <3>4
  <2>13. Sum(EntryCost, S) = StreamTotal
    BY DEF StreamOK, S, n
  <2> QED
    BY <2>8, <2>12, <2>13 DEF StreamOK
<1>2. ASSUME stream' = stream PROVE StreamOK'
  BY <1>2 DEF StreamOK, StreamTotal, EntryCost, Copies
<1> QED
  BY <1>1, <1>2 DEF Next, vars, WorkerStep, ProcessStep, XGroupCreate, XReadGroup, BeginMessage,
     BeginReport, CheckBudget, ResolveFails, CheckSkipped, WriteLedger, InsertFails,
     IncrementBudget, IncrementFails, ProcessReturns, CreateUsageLog, XAck, XAckFails, Crash,
     Evict

-----------------------------------------------------------------------------
\* Every step keeps CoverInv.
LEMMA CoverStep ==
  TypeOK /\ HandInv /\ CountingOK /\ CoverInv /\ [Next]_vars => CoverInv'
<1> SUFFICES ASSUME TypeOK, HandInv, CountingOK, CoverInv, [Next]_vars PROVE CoverInv'
  OBVIOUS
<1>1. HeldOnce' /\ IsFiniteSet(ledger)' /\ (ledgerSum = LedgerTotal)'
  BY HeldStep, TotalStep DEF CoverInv, TotalOK
<1>2. \A c \in Counter : Counted(c)'
  BY CountedStep DEF CoverInv, Counted
<1>3. Lossless' => Lossless
  BY DEF Lossless, Next, vars, WorkerStep, ProcessStep, Publish, XGroupCreate, XReadGroup,
     BeginMessage, BeginReport, CheckBudget, ResolveFails, CheckSkipped, WriteLedger, InsertFails,
     IncrementBudget, IncrementFails, ProcessReturns, CreateUsageLog, XAck, XAckFails, Crash,
     Evict, Fault, faultVars
<1>4. ASSUME Lossless', NEW c \in Counter PROVE Flight(c)'
  BY <1>3, <1>4, FlightStep DEF CoverInv, Lossless, Flight
<1>5. StreamOK'
  BY StreamStep DEF CoverInv, StreamOK
<1> QED
  BY <1>1, <1>2, <1>4, <1>5 DEF CoverInv, Counted, Lossless, Flight, StreamOK

\* At the start nothing is counted, charged or published.
LEMMA CoverInit == Init => CoverInv
<1> SUFFICES ASSUME Init PROVE CoverInv
  OBVIOUS
<1>t. TypeOK
  BY TypeInit
<1>1. HeldOnce
  BY DEF Init, HeldOnce, Batch
<1>2. IsFiniteSet(ledger) /\ ledgerSum = LedgerTotal
  <2>1. BilledRows = {} /\ ledger = {} /\ ledgerSum = 0
    BY DEF Init, BilledRows
  <2> QED
    BY <2>1, SumEmpty, FS_EmptySet DEF LedgerTotal
<1>3. ASSUME NEW c \in Counter PROVE spend[c] + InFlight(c) >= ledgerSum /\ Counted(c)
  <2>1. Owing(c) = {} /\ Closed(c) = {} /\ spend[c] = 0 /\ ledgerSum = 0
    BY DEF Init, Owing, Closed, Idle, Proc
  <2> QED
    BY <2>1, SumEmpty DEF InFlight, Counted
<1>4. StreamOK
  <2>1. 1..Len(stream) = {}
    BY DEF Init
  <2>2. \A e \in BilledEvent : CopyCost[e] = 0
    <3>1. \A e \in BilledEvent : Copies(e) = 0
      BY <2>1, FS_EmptySet DEF Copies
    <3>2. \A k \in Nat : 0 * k = 0
      OBVIOUS
    <3> QED
      BY <3>1, <3>2, ConstantsAssumption DEF CopyCost
  <2>3. Sum(CopyCost, BilledEvent) = Sum(CopyCost, {})
    BY <2>2, ConstantsAssumption, SumZeros
  <2> QED
    BY <2>1, <2>3, SumEmpty DEF StreamOK, StreamTotal, CopyCost
<1> QED
  BY <1>1, <1>2, <1>3, <1>4 DEF CoverInv, Counted, StreamOK

\* However workers interleave, repeat, fail or crash, the ledger's sum is its
\* billed rows; the counters lag it only by increments under way until one is
\* lost, and never exceed the cost of the billed entries of the stream.
THEOREM CountersCoverLedger == Spec => []CounterCoversLedger
<1>1. TypeOK /\ CoverInv => CounterCoversLedger
  <2> SUFFICES ASSUME TypeOK, CoverInv PROVE CounterCoversLedger
    OBVIOUS
  <2>1. ASSUME NEW c \in Counter PROVE spend[c] <= StreamTotal
    <3>1. Closed(c) \in SUBSET (1..Len(stream)) /\ IsFiniteSet(1..Len(stream))
      BY CopyCosts DEF Closed
    <3>2. /\ Sum(EntryCost, Closed(c)) <= Sum(EntryCost, 1..Len(stream))
          /\ Sum(EntryCost, Closed(c)) \in Nat /\ Sum(EntryCost, 1..Len(stream)) \in Nat
      BY <3>1, EntryCosts, SumNat
    <3>3. spend[c] \in Nat /\ spend[c] <= Sum(EntryCost, Closed(c))
      BY DEF TypeOK, CoverInv
    <3> QED
      BY <3>2, <3>3 DEF CoverInv
  <2> QED
    BY <2>1 DEF CoverInv, CounterCoversLedger
<1>2. SafetyInv => TypeOK /\ HandInv
  BY DEF SafetyInv
<1>3. LimitInv => CountingOK
  BY DEF LimitInv
<1>4. Init => SafetyInv /\ LimitInv
  BY SafetyInit, LimitInit
<1> QED
  BY <1>1, <1>2, <1>3, <1>4, SafetyStep, LimitStep, CoverInit, CoverStep, PTL DEF Spec

-----------------------------------------------------------------------------
(* The entries left in the pending list. *)

\* Over a blocking limit by the counter or by the ledger, which only grow while
\* nothing fails.
StaysOver(e) ==
  \E c \in Counter :
    /\ Limit[c] # NoLimit
    /\ \/ spend[c] + Cost[e] > Limit[c]
       \/ c \in AccountCounter /\ ledgerSum + Cost[e] > Limit[c]

Left(i) == i \in pel /\ ~InHand(i)

\* The strengthening of LeftOnlyOverBudget.
LeftInv ==
  /\ \A w \in Worker : pc[w] = Idle => entry[w] = 0
  /\ faults = 0 => hit = {}
  /\ faults = 0 => \A i \in pel : Left(i) => stream[i] \notin UnpricedEvent /\ StaysOver(stream[i])

\* While nothing fails, spend is never taken back.
LEMMA OverStays ==
  ASSUME TypeOK, [Next]_vars, faults' = 0, NEW e \in Event, StaysOver(e)
  PROVE  StaysOver(e)'
<1> USE DEF streamVars, procVars, dbVars, counterVars, faultVars
<1>t. TypeOK'
  BY TypeStep
<1>1. PICK c \in Counter :
        /\ Limit[c] # NoLimit
        /\ \/ spend[c] + Cost[e] > Limit[c]
           \/ c \in AccountCounter /\ ledgerSum + Cost[e] > Limit[c]
  BY DEF StaysOver
<1>n. /\ spend[c] \in Nat /\ spend'[c] \in Nat /\ ledgerSum \in Nat /\ ledgerSum' \in Nat
      /\ Cost[e] \in Nat /\ Limit[c] \in Nat
  BY <1>t, <1>1, ConstantsAssumption DEF TypeOK
<1>f. ~\E f : Fault(f)
  BY DEF Fault, TypeOK
<1>2. spend[c] <= spend'[c]
  <2>1. ASSUME NEW p \in Proc, NEW d \in Counter, IncrementBudget(p, d) PROVE spend[c] <= spend'[c]
    <3>1. cur[p] \in Event /\ Cost[cur[p]] \in Nat
      BY <2>1, ConstantsAssumption DEF IncrementBudget, TypeOK, Idle
    <3> QED
      BY <2>1, <3>1, <1>n DEF IncrementBudget, TypeOK
  <2>2. ASSUME spend' = spend PROVE spend[c] <= spend'[c]
    BY <2>2, <1>n
  <2> QED
    BY <1>f, <2>1, <2>2 DEF Next, vars, WorkerStep, ProcessStep, Publish, XGroupCreate, XReadGroup,
       BeginMessage, BeginReport, CheckBudget, ResolveFails, CheckSkipped, WriteLedger, InsertFails,
       IncrementFails, ProcessReturns, CreateUsageLog, XAck, XAckFails, Crash, Evict, Proc
<1>3. ledgerSum <= ledgerSum'
  <2>1. ASSUME NEW p \in Proc, WriteLedger(p) PROVE ledgerSum <= ledgerSum'
    <3>1. cur[p] \in Event /\ Cost[cur[p]] \in Nat
      BY <2>1, ConstantsAssumption DEF WriteLedger, TypeOK, Idle
    <3> QED
      BY <2>1, <3>1, <1>n DEF WriteLedger
  <2>2. ASSUME ledgerSum' = ledgerSum PROVE ledgerSum <= ledgerSum'
    BY <2>2, <1>n
  <2> QED
    BY <2>1, <2>2 DEF Next, vars, WorkerStep, ProcessStep, Publish, XGroupCreate, XReadGroup,
       BeginMessage, BeginReport, CheckBudget, ResolveFails, CheckSkipped, InsertFails,
       IncrementBudget, IncrementFails, ProcessReturns, CreateUsageLog, XAck, XAckFails, Crash,
       Evict, Proc
<1>4. spend'[c] + Cost[e] > Limit[c] \/ (c \in AccountCounter /\ ledgerSum' + Cost[e] > Limit[c])
  BY <1>1, <1>2, <1>3, <1>n
<1> QED
  BY <1>1, <1>4 DEF StaysOver

\* A check that fails leaves its entry over budget for as long as nothing fails.
LEMMA CheckedIsOver ==
  ASSUME TypeOK, CountersOK, NEW p \in Proc, BudgetExceeded(p)
  PROVE  StaysOver(cur[p])
<1>1. PICK c \in Counter : Limit[c] # NoLimit /\ GetSpend(c) + Cost[cur[p]] > Limit[c]
  BY DEF BudgetExceeded
<1>2. GetSpend(c) = spend[c] \/ (c \in AccountCounter /\ GetSpend(c) = ledgerSum)
  BY DEF GetSpend, FallbackSpend, CountersOK
<1> QED
  BY <1>1, <1>2 DEF StaysOver

\* An entry is let go of without an acknowledgement only by the budget check.
LEMMA NewlyLeft ==
  ASSUME TypeOK, HandInv, HeldOnce, LeftInv, [Next]_vars, faults' = 0, NEW i \in pel', Left(i)'
  PROVE  \/ i \in pel /\ Left(i)
         \/ i \in pel /\ \E p \in Worker : /\ entry[p] = i /\ stream[i] = cur[p]
                                           /\ cur[p] \notin UnpricedEvent /\ BudgetExceeded(p)
<1> USE DEF streamVars, procVars, dbVars, counterVars, faultVars
<1> DEFINE Goal == \/ i \in pel /\ Left(i)
                   \/ i \in pel /\ \E p \in Worker : /\ entry[p] = i /\ stream[i] = cur[p]
                                                     /\ cur[p] \notin UnpricedEvent /\ BudgetExceeded(p)
<1> SUFFICES Goal
  OBVIOUS
<1>a. UNCHANGED <<pel, entry, next, last>> => Goal
  BY DEF Left, InHand
<1>f. ~\E f : Fault(f)
  BY DEF Fault, TypeOK
<1>n. \A v \in Worker : next[v] \in Nat /\ last[v] \in Nat /\ entry[v] \in Nat
  BY DEF TypeOK
<1>1. ASSUME NEW w \in Worker, XReadGroup(w) PROVE Goal
  <2>1. /\ UNCHANGED entry
        /\ next'[w] = delivered + 1 /\ last'[w] = delivered + BatchSize
        /\ \A v \in Worker : v # w => next'[v] = next[v] /\ last'[v] = last[v]
        /\ pel' = pel \cup (delivered + 1)..(delivered + BatchSize)
        /\ ~(next[w] <= last[w])
    BY <1>1 DEF XReadGroup, HasMessage, TypeOK
  <2>2. i \in pel
    BY <2>1 DEF Left, InHand
  <2>3. next[w]..last[w] = {}
    BY <1>n, <2>1
  <2>4. ~InHand(i)
    BY <2>1, <2>3 DEF Left, InHand
  <2> QED
    BY <2>2, <2>4 DEF Left
<1>2. ASSUME NEW w \in Worker, BeginMessage(w) PROVE Goal
  <2>1. /\ pel' = pel /\ next[w] <= last[w] /\ entry[w] = 0
        /\ entry'[w] = next[w] /\ \A v \in Worker : v # w => entry'[v] = entry[v]
        /\ \A v \in Worker : v # w => next'[v] = next[v] /\ last'[v] = last[v]
    BY <1>2 DEF BeginMessage, HasMessage, LeftInv, TypeOK
  <2>2. i \in 1..delivered
    BY <2>1 DEF HeldOnce
  <2>3. \/ next[w] < last[w] /\ next'[w] = next[w] + 1 /\ last'[w] = last[w]
        \/ ~(next[w] < last[w])
    BY <1>2 DEF BeginMessage, TypeOK
  <2>4. \A j \in next[w]..last[w] : j = next[w] \/ j \in next'[w]..last'[w]
    BY <1>n, <2>1, <2>3
  <2>5. ASSUME NEW v \in Worker, entry[v] = i \/ i \in next[v]..last[v] PROVE InHand(i)'
    <3>1. CASE v # w
      BY <2>1, <2>5, <3>1 DEF InHand
    <3>2. CASE v = w
      BY <2>1, <2>2, <2>4, <2>5, <3>2 DEF InHand
    <3> QED
      BY <3>1, <3>2
  <2>6. ~InHand(i)
    BY <2>5 DEF Left, InHand
  <2> QED
    BY <2>1, <2>6 DEF Left
<1>3. ASSUME NEW w \in Worker, XAck(w) PROVE Goal
  <2>1. /\ pel' = pel \ {entry[w]} /\ UNCHANGED <<next, last>>
        /\ \A v \in Worker : v # w => entry'[v] = entry[v]
    BY <1>3 DEF XAck, Finish, TypeOK
  <2>2. i \in pel /\ i # entry[w]
    BY <2>1
  <2>3. ~InHand(i)
    BY <2>1, <2>2 DEF Left, InHand
  <2> QED
    BY <2>2, <2>3 DEF Left
<1>4. ASSUME NEW p \in Proc, CheckBudget(p) PROVE Goal
  <2>1. pel' = pel /\ UNCHANGED <<next, last>> /\ pc[p] # Idle
    BY <1>4 DEF CheckBudget, Advance, Finish, Idle
  <2>2. CASE UNCHANGED entry
    BY <1>a, <2>1, <2>2
  <2>3. CASE entry' # entry
    <3>1. /\ p \in Worker /\ entry' = [entry EXCEPT ![p] = 0]
          /\ cur[p] \notin UnpricedEvent /\ BudgetExceeded(p)
      BY <1>4, <2>3 DEF CheckBudget, Advance, Finish
    <3>2. CASE i = entry[p]
      BY <2>1, <3>1, <3>2 DEF HandInv, HandOK
    <3>3. CASE i # entry[p]
      <4>1. \A v \in Worker : v # p => entry'[v] = entry[v]
        BY <3>1 DEF TypeOK
      <4>2. ~InHand(i)
        BY <2>1, <3>3, <4>1 DEF Left, InHand
      <4> QED
        BY <2>1, <4>2 DEF Left
    <3> QED
      BY <3>2, <3>3
  <2> QED
    BY <2>2, <2>3
<1>5. ASSUME NEW p \in Proc, CreateUsageLog(p) PROVE Goal
  <2>1. pel' = pel /\ UNCHANGED <<next, last>>
    BY <1>5 DEF CreateUsageLog, Advance, Finish
  <2>2. entry' = entry
    BY <1>5, ConstantsAssumption DEF CreateUsageLog, Advance, Finish
  <2> QED
    BY <1>a, <2>1, <2>2
<1> HIDE DEF Goal
<1> QED
  BY <1>a, <1>f, <1>1, <1>2, <1>3, <1>4, <1>5 DEF Next, vars, WorkerStep, ProcessStep, Publish,
     XGroupCreate, BeginReport, ResolveFails, CheckSkipped, WriteLedger, InsertFails,
     IncrementBudget, IncrementFails, ProcessReturns, XAckFails, Crash, Evict, Advance, Proc

\* Every step keeps LeftInv.
LEMMA LeftStep ==
  TypeOK /\ HandInv /\ CountersOK /\ HeldOnce /\ LeftInv /\ [Next]_vars => LeftInv'
<1> SUFFICES ASSUME TypeOK, HandInv, CountersOK, HeldOnce, LeftInv, [Next]_vars PROVE LeftInv'
  OBVIOUS
<1>t. TypeOK'
  BY TypeStep
<1> USE DEF streamVars, procVars, dbVars, counterVars, faultVars
<1>1. \A w \in Worker : pc'[w] = Idle => entry'[w] = 0
  <2> SUFFICES ASSUME NEW w \in Worker, pc'[w] = Idle PROVE entry'[w] = 0
    OBVIOUS
  <2>i. pc[w] = Idle => entry[w] = 0
    BY DEF LeftInv
  <2>a. ASSUME pc'[w] = pc[w], entry'[w] = entry[w] PROVE entry'[w] = 0
    BY <2>a, <2>i
  <2>f. ASSUME NEW p \in Proc, Finish(p) PROVE entry'[w] = 0
    BY <2>f, <2>i DEF Finish, Goto, Proc, TypeOK
  <2>g. ASSUME NEW p \in Proc, NEW s \in Steps, Advance(p, s), s # Idle PROVE entry'[w] = 0
    BY <2>g, <2>i DEF Advance, Goto, Proc, TypeOK
  <2>1. ASSUME NEW v \in Worker, BeginMessage(v) PROVE entry'[w] = 0
    BY <2>1, <2>a DEF BeginMessage, Goto, Idle, Proc, TypeOK
  <2>2. ASSUME NEW v \in Worker, Crash(v) PROVE entry'[w] = 0
    BY <2>2, <2>a DEF Crash, Proc, TypeOK
  <2>3. ASSUME NEW r \in Reporter, NEW e \in Event, BeginReport(r, e) PROVE entry'[w] = 0
    BY <2>3, <2>a DEF BeginReport, Goto, Idle, Proc, TypeOK
  <2>4. ASSUME NEW p \in Proc, WriteLedger(p) PROVE entry'[w] = 0
    BY <2>4, <2>a DEF WriteLedger, Goto, Idle, Proc, TypeOK
  <2>5. ASSUME NEW p \in Proc, CheckBudget(p) \/ CheckSkipped(p) \/ ProcessReturns(p) \/ CreateUsageLog(p)
        PROVE  entry'[w] = 0
    BY <2>5, <2>f, <2>g DEF CheckBudget, CheckSkipped, ProcessReturns, CreateUsageLog, Steps, Idle
  <2>6. ASSUME NEW p \in Proc, ResolveFails(p) \/ InsertFails(p) \/ XAck(p) \/ XAckFails(p)
        PROVE  entry'[w] = 0
    BY <2>6, <2>f DEF ResolveFails, InsertFails, XAck, XAckFails
  <2>7. ASSUME UNCHANGED <<pc, entry>> PROVE entry'[w] = 0
    BY <2>7, <2>a
  <2> QED
    BY <2>1, <2>2, <2>3, <2>4, <2>5, <2>6, <2>7 DEF Next, vars, WorkerStep, ProcessStep, Publish,
       XGroupCreate, XReadGroup, IncrementBudget, IncrementFails, Evict, Proc
<1>2. faults' = 0 => faults = 0 /\ hit' = hit
  BY <1>t DEF Next, vars, WorkerStep, ProcessStep, Publish, XGroupCreate, XReadGroup, BeginMessage,
     BeginReport, CheckBudget, ResolveFails, CheckSkipped, WriteLedger, InsertFails,
     IncrementBudget, IncrementFails, ProcessReturns, CreateUsageLog, XAck, XAckFails, Crash,
     Evict, Fault, TypeOK
<1>3. ASSUME faults' = 0, NEW i \in pel', Left(i)'
      PROVE  stream'[i] \notin UnpricedEvent /\ StaysOver(stream[i])'
  <2>1. i \in pel /\ stream[i] \notin UnpricedEvent /\ StaysOver(stream[i])
    BY <1>2, <1>3, NewlyLeft, CheckedIsOver DEF LeftInv, Proc
  <2>2. i \in 1..Len(stream)
    BY <2>1 DEF HeldOnce, TypeOK
  <2>3. PICK e \in Event : e = stream[i] /\ e = stream'[i]
    BY <2>2, RowsStay DEF TypeOK
  <2>4. StaysOver(e)'
    BY <1>3, <2>1, <2>3, OverStays
  <2> QED
    BY <2>1, <2>3, <2>4 DEF StaysOver
<1> QED
  BY <1>1, <1>2, <1>3 DEF LeftInv

\* While nothing has failed the consumer loop loses an entry for the budget
\* only, and the budget is still exceeded when no increment is under way.
THEOREM OnlyOverBudgetIsLeft == Spec => []LeftOnlyOverBudget
<1>1. TypeOK /\ CountersOK /\ CoverInv /\ LeftInv => LeftOnlyOverBudget
  <2> SUFFICES ASSUME TypeOK, CountersOK, CoverInv, LeftInv, faults = 0,
                      \A w \in Worker : pc[w] # "count", NEW i \in pel, ~InHand(i)
               PROVE  stream[i] \notin UnpricedEvent /\ OverBudget(stream[i])
    BY DEF LeftOnlyOverBudget
  <2>1. stream[i] \notin UnpricedEvent /\ StaysOver(stream[i])
    BY DEF LeftInv, Left
  <2>2. PICK c \in Counter :
          /\ Limit[c] # NoLimit
          /\ \/ spend[c] + Cost[stream[i]] > Limit[c]
             \/ c \in AccountCounter /\ ledgerSum + Cost[stream[i]] > Limit[c]
    BY <2>1 DEF StaysOver
  <2>3. spend[c] >= ledgerSum
    <3>1. Owing(c) = {}
      BY DEF Owing
    <3>2. InFlight(c) = 0
      BY <3>1, SumEmpty DEF InFlight
    <3>3. spend[c] + InFlight(c) >= ledgerSum /\ spend[c] \in Nat
      BY DEF LeftInv, CoverInv, TypeOK
    <3> QED
      BY <3>2, <3>3
  <2>4. Cost[stream[i]] \in Nat /\ Limit[c] \in Nat /\ spend[c] \in Nat /\ ledgerSum \in Nat
    <3>1. i \in 1..Len(stream)
      BY DEF CoverInv, HeldOnce, TypeOK
    <3> QED
      BY <2>2, <3>1, ConstantsAssumption DEF TypeOK
  <2>5. GetSpend(c) + Cost[stream[i]] > Limit[c]
    <3>1. CASE c \in present
      BY <2>2, <2>3, <2>4, <3>1 DEF GetSpend
    <3>2. CASE c \notin present
      <4>1. spend[c] = 0
        BY <3>2 DEF CountersOK
      <4>2. GetSpend(c) = IF c \in AccountCounter THEN ledgerSum ELSE 0
        BY <3>2 DEF GetSpend, FallbackSpend
      <4> QED
        BY <2>2, <2>3, <2>4, <4>1, <4>2
    <3> QED
      BY <3>1, <3>2
  <2> QED
    BY <2>1, <2>2, <2>5 DEF OverBudget
<1>2. Init => LeftInv
  BY DEF Init, LeftInv, Left
<1>3. CoverInv => HeldOnce
  BY DEF CoverInv
<1>4. SafetyInv => TypeOK /\ HandInv
  BY DEF SafetyInv
<1>5. LimitInv => CountersOK /\ CountingOK
  BY DEF LimitInv
<1> QED
  BY <1>1, <1>2, <1>3, <1>4, <1>5, SafetyInit, SafetyStep, LimitInit, LimitStep, CoverInit,
     CoverStep, LeftStep, PTL DEF Spec

=============================================================================

--------------------------- MODULE GatewayProofs ---------------------------
(***************************************************************************)
(* The path of a request through the gateway: the rate limiter, the budget *)
(* gate and the health tracker of the smart router, each for every set of  *)
(* requests, limits, scopes and deployments and any number of faults.      *)
(*                                                                         *)
(* RateLimiter: RequestInv counts the holders of a slot; ExpiryInv follows *)
(* the expiry of a counter to the request that sets it; ExactInv equates   *)
(* every counter with the sum of what the requests that hold it added.     *)
(* SmartRouter: HealthInv is the arithmetic of failures and cooldowns; the *)
(* share of a deployment is counted over one cycle of the counter.         *)
(* ProxyBudget: HandlerInv says what a request has reserved and how far its*)
(* usage is settled, by its status; ReservedInv and SpendInv compare the   *)
(* Redis counters with sums over requests and over usage written;          *)
(* BudgetInv is all three.                                                 *)
(***************************************************************************)
EXTENDS RateLimiter, ProxyBudget, SmartRouter, SumTheorems, SequenceTheorems

-----------------------------------------------------------------------------
(* RateLimiter.                                                            *)

\* The window of a tick is one of the windows counted in.
LEMMA WindowType == \A t \in 0..MaxTick : WindowOf(t) \in Window
  BY ConstantsAssumption, Z3 DEF WindowOf, Window

\* Initially every variable has its type.
LEMMA TypeInit == Init => TypeOK
  BY ConstantsAssumption DEF Init, TypeOK, Status, Window

\* Every step of Check, of Reconcile and of the clock keeps the types.
LEMMA TypeStep == TypeOK /\ [Next]_vars => TypeOK'
<1> USE ConstantsAssumption DEF TypeOK, Status, Goto, Fault, redisVars, faultVars, checkVars
<1> SUFFICES ASSUME TypeOK, [Next]_vars PROVE TypeOK'
  OBVIOUS
<1>1. ASSUME NEW r \in Request, BeginCheck(r) PROVE TypeOK'
  <2>1. WindowOf(now) \in Window /\ Entries(r) \in SUBSET Entry
    BY WindowType DEF Entries
  <2> QED
    BY <1>1, <2>1 DEF BeginCheck
<1>2. ASSUME NEW r \in Request, LoadFails(r) PROVE TypeOK'
  BY <1>2 DEF LoadFails
<1>3. ASSUME NEW r \in Request, IncrLost(r) PROVE TypeOK'
  BY <1>3 DEF IncrLost
<1>4. ASSUME NEW r \in Request, Decide(r) PROVE TypeOK'
  <2>1. ttl' \subseteq Entry \X Window
    BY <1>4 DEF Decide
  <2>2. st' \in [Request -> Status] /\ todo' \in [Request -> SUBSET Entry]
    BY <1>4 DEF Decide
  <2> QED
    BY <1>4, <2>1, <2>2 DEF Decide
<1>5. ASSUME NEW r \in Request, DecideLost(r) PROVE TypeOK'
  BY <1>5 DEF DecideLost
<1>6. ASSUME NEW r \in Request, RejectRequest(r) PROVE TypeOK'
  BY <1>6 DEF RejectRequest
<1>7. ASSUME NEW r \in Request, UndoLost(r) PROVE TypeOK'
  BY <1>7 DEF UndoLost
<1>8. ASSUME NEW r \in Request, NEW e \in Entry, IncrBy(r, e) PROVE TypeOK'
  <2>1. counter' \in [Entry \X Window -> Int]
    BY <1>8 DEF IncrBy
  <2> QED
    BY <1>8, <2>1 DEF IncrBy
<1>9. ASSUME NEW r \in Request, NEW e \in Entry, DecrBy(r, e) PROVE TypeOK'
  <2>1. counter' \in [Entry \X Window -> Int]
    BY <1>9 DEF DecrBy
  <2> QED
    BY <1>9, <2>1 DEF DecrBy
<1>10. ASSUME NEW r \in Request, Reconcile(r) PROVE TypeOK'
  <2>1. WindowOf(now) \in Window
    BY WindowType
  <2>2. \A e \in Entry : Excess(r, e) \in Int
    BY DEF Excess
  <2>3. counter' \in [Entry \X Window -> Int]
    BY <1>10, <2>2 DEF Reconcile
  <2>4. keys' \subseteq Entry \X Window
    BY <1>10, <2>1 DEF Reconcile
  <2> QED
    BY <1>10, <2>3, <2>4 DEF Reconcile
<1>11. CASE Tick
  BY <1>11 DEF Tick
<1>12. CASE UNCHANGED vars
  BY <1>12 DEF vars
<1> QED
  BY <1>1, <1>2, <1>3, <1>4, <1>5, <1>6, <1>7, <1>8, <1>9, <1>10, <1>11, <1>12 DEF Next, CheckStep

\* Every variable of the limiter always has its type.
THEOREM TypeCorrect == Spec => []TypeOK
  BY TypeInit, TypeStep, PTL DEF Spec

-----------------------------------------------------------------------------
(* The inductive invariant.                                                *)

\* What a check has counted, by how far it got.
Progress(r) ==
  /\ held[r] \subseteq Entries(r) /\ fits[r] \subseteq Entries(r)
  /\ st[r] = "idle" => held[r] = {} /\ fits[r] = {}
  /\ st[r] = "incr" => todo[r] \cup held[r] = Entries(r) /\ todo[r] \cap held[r] = {}
                       /\ fits[r] \subseteq held[r]
  /\ st[r] = "undo" => todo[r] = held[r]
  /\ Admitted(r) => Entries(r) \subseteq held[r] \cap fits[r]

\* The holders that found limit e not exceeded.
Fit(e, w) == {r \in Holders(e, w) : e \in fits[r]}

\* A request counter counts its holders, of which at most the limit's value
\* found it within the limit.
Counts(e, w) ==
  /\ counter[<<e, w>>] = Cardinality(Holders(e, w))
  /\ Cardinality(Fit(e, w)) <= Value[e]

RequestInv ==
  /\ TypeOK
  /\ \A r \in Request : Progress(r)
  /\ \A e \in RPM, w \in Window : Counts(e, w)

\* No request has counted anything yet.
LEMMA RequestInit == Init => RequestInv
<1> SUFFICES ASSUME Init PROVE RequestInv
  OBVIOUS
<1>1. TypeOK
  BY TypeInit
<1>2. ASSUME NEW r \in Request PROVE Progress(r)
  BY DEF Init, Progress, Admitted
<1>3. ASSUME NEW e \in RPM, NEW w \in Window PROVE Counts(e, w)
  <2>1. Holders(e, w) = {} /\ Fit(e, w) = {}
    BY DEF Init, Holders, Fit
  <2>2. counter[<<e, w>>] = 0
    BY ConstantsAssumption DEF Init
  <2> QED
    BY <2>1, <2>2, FS_EmptySet, ConstantsAssumption DEF Counts
<1> QED
  BY <1>1, <1>2, <1>3 DEF RequestInv

\* Holders are requests, so they can be counted.
LEMMA HoldersFinite ==
  ASSUME NEW e, NEW w
  PROVE  /\ IsFiniteSet(Holders(e, w)) /\ IsFiniteSet(Fit(e, w))
         /\ Cardinality(Holders(e, w)) \in Nat /\ Cardinality(Fit(e, w)) \in Nat
         /\ Cardinality(Fit(e, w)) <= Cardinality(Holders(e, w))
<1>1. Holders(e, w) \subseteq Request /\ Fit(e, w) \subseteq Holders(e, w)
  BY DEF Holders, Fit
<1>2. IsFiniteSet(Holders(e, w))
  BY <1>1, FS_Subset, ConstantsAssumption
<1> QED
  BY <1>1, <1>2, FS_Subset, FS_CardinalityType

\* A step that leaves counters, holders and verdicts alone keeps the counts.
LEMMA CountsKept ==
  ASSUME \A e \in RPM, w \in Window : Counts(e, w),
         \A e \in RPM, w \in Window : /\ counter'[<<e, w>>] = counter[<<e, w>>]
                                      /\ Holders(e, w)' = Holders(e, w)
                                      /\ Fit(e, w)' = Fit(e, w)
  PROVE  (\A e \in RPM, w \in Window : Counts(e, w))'
  BY DEF Counts

\* Every step keeps the inductive invariant.
LEMMA RequestStep == RequestInv /\ [Next]_vars => RequestInv'
<1> USE ConstantsAssumption DEF redisVars, faultVars, checkVars
<1> SUFFICES ASSUME RequestInv, [Next]_vars PROVE RequestInv'
  OBVIOUS
<1>t. TypeOK /\ TypeOK'
  BY TypeStep DEF RequestInv
<1>p. \A r \in Request : Progress(r)
  BY DEF RequestInv
<1>c. \A e \in RPM, w \in Window : Counts(e, w)
  BY DEF RequestInv
<1> DEFINE Prog == (\A r \in Request : Progress(r))'
           Cnts == (\A e \in RPM, w \in Window : Counts(e, w))'
<1> USE DEF TypeOK
<1>1. ASSUME NEW r \in Request, BeginCheck(r) PROVE Prog /\ Cnts
  <2>1. Prog
    BY <1>1, <1>t, <1>p DEF BeginCheck, Goto, Progress, Entries, Admitted
  <2>2. \A e \in RPM, w \in Window : Holders(e, w)' = Holders(e, w) /\ Fit(e, w)' = Fit(e, w)
    BY <1>1, <1>t, <1>p DEF BeginCheck, Progress, Holders, Fit
  <2> QED
    BY <1>1, <2>1, <2>2, <1>c, CountsKept DEF BeginCheck
<1>2. ASSUME NEW r \in Request, LoadFails(r) PROVE Prog /\ Cnts
  <2>1. Prog
    BY <1>2, <1>t, <1>p DEF LoadFails, Goto, Progress, Entries, Admitted
  <2> QED
    BY <1>2, <2>1, <1>c, CountsKept DEF LoadFails, Holders, Fit
<1>3. ASSUME NEW r \in Request, IncrLost(r) PROVE Prog /\ Cnts
  <2>1. Prog
    BY <1>3, <1>t, <1>p DEF IncrLost, Goto, Progress, Entries, Admitted
  <2> QED
    BY <1>3, <2>1, <1>c, CountsKept DEF IncrLost, Holders, Fit
<1>4. ASSUME NEW r \in Request, Decide(r) PROVE Prog /\ Cnts
  <2>1. Prog
    BY <1>4, <1>t, <1>p DEF Decide, Goto, Progress, Entries, Admitted
  <2> QED
    BY <1>4, <2>1, <1>c, CountsKept DEF Decide, Holders, Fit
<1>5. ASSUME NEW r \in Request, DecideLost(r) PROVE Prog /\ Cnts
  <2>1. Prog
    BY <1>5, <1>t, <1>p DEF DecideLost, Goto, Progress, Entries, Admitted
  <2> QED
    BY <1>5, <2>1, <1>c, CountsKept DEF DecideLost, Holders, Fit
<1>6. ASSUME NEW r \in Request, RejectRequest(r) PROVE Prog /\ Cnts
  <2>1. Prog
    BY <1>6, <1>t, <1>p DEF RejectRequest, Goto, Progress, Entries, Admitted
  <2> QED
    BY <1>6, <2>1, <1>c, CountsKept DEF RejectRequest, Holders, Fit
<1>7. ASSUME NEW r \in Request, UndoLost(r) PROVE Prog /\ Cnts
  <2>1. Prog
    BY <1>7, <1>t, <1>p DEF UndoLost, Goto, Progress, Entries, Admitted
  <2> QED
    BY <1>7, <2>1, <1>c, CountsKept DEF UndoLost, Holders, Fit
<1>8. ASSUME NEW r \in Request, NEW e \in Entry, IncrBy(r, e) PROVE Prog /\ Cnts
  <2>1. Prog
    BY <1>8, <1>t, <1>p DEF IncrBy, Progress, Entries, Admitted
  <2>2. SUFFICES ASSUME NEW f \in RPM, NEW w \in Window PROVE Counts(f, w)'
    BY <2>1
  <2>3. CASE f # e \/ w # win[r]
    <3>1. Holders(f, w)' = Holders(f, w) /\ Fit(f, w)' = Fit(f, w)
      BY <1>8, <1>t, <2>3 DEF IncrBy, Holders, Fit
    <3>2. counter'[<<f, w>>] = counter[<<f, w>>]
      BY <1>8, <1>t, <2>3 DEF IncrBy
    <3> QED
      BY <1>c, <3>1, <3>2 DEF Counts
  <2>4. CASE f = e /\ w = win[r]
    <3>1. r \notin Holders(e, w) /\ r \notin Fit(e, w) /\ e \notin fits[r]
      BY <1>8, <1>p DEF IncrBy, Progress, Holders, Fit
    <3>2. Amount[r][e] = 1
      BY <1>8, <1>p, <2>4 DEF IncrBy, Progress, Entries
    <3>3. Holders(e, w)' = Holders(e, w) \cup {r}
      BY <1>8, <1>t, <2>4 DEF IncrBy, Holders
    <3>4. Cardinality(Holders(e, w)') = Cardinality(Holders(e, w)) + 1
      BY <3>1, <3>3, HoldersFinite, FS_AddElement
    <3>5. counter[<<e, w>>] = Cardinality(Holders(e, w)) /\ Cardinality(Fit(e, w)) <= Value[e]
      BY <1>c, <2>4 DEF Counts
    <3>6. counter'[<<e, w>>] = counter[<<e, w>>] + 1
      BY <1>8, <1>t, <2>4, <3>2 DEF IncrBy
    <3>7. Cardinality(Fit(e, w)') <= Value[e]
      <4>1. CASE counter[<<e, w>>] + 1 <= Value[e]
        <5>1. Fit(e, w)' = Fit(e, w) \cup {r}
          BY <1>8, <1>t, <2>4, <3>2, <3>3, <4>1 DEF IncrBy, Fit
        <5>2. Cardinality(Fit(e, w)') = Cardinality(Fit(e, w)) + 1
          BY <3>1, <5>1, HoldersFinite, FS_AddElement
        <5> QED
          BY <5>2, <4>1, <3>5, HoldersFinite
      <4>2. CASE ~(counter[<<e, w>>] + 1 <= Value[e])
        <5>1. Fit(e, w)' = Fit(e, w)
          BY <1>8, <1>t, <2>4, <3>1, <3>2, <3>3, <4>2 DEF IncrBy, Fit
        <5> QED
          BY <5>1, <3>5
      <4> QED
        BY <4>1, <4>2
    <3>8. counter'[<<e, w>>] = Cardinality(Holders(e, w)')
      BY <3>4, <3>5, <3>6
    <3> QED
      BY <2>4, <3>7, <3>8 DEF Counts
  <2> QED
    BY <2>3, <2>4
<1>9. ASSUME NEW r \in Request, NEW e \in Entry, DecrBy(r, e) PROVE Prog /\ Cnts
  <2>1. Prog
    <3>1. ASSUME NEW q \in Request, q # r PROVE Progress(q)'
      BY <1>9, <1>t, <1>p, <3>1 DEF DecrBy, Progress, Entries, Admitted
    <3>2. Progress(r)'
      BY <1>9, <1>t, <1>p DEF DecrBy, Progress, Entries, Admitted
    <3> QED
      BY <3>1, <3>2
  <2>2. SUFFICES ASSUME NEW f \in RPM, NEW w \in Window PROVE Counts(f, w)'
    BY <2>1
  <2>3. CASE f # e \/ w # win[r]
    <3>1. Holders(f, w)' = Holders(f, w) /\ Fit(f, w)' = Fit(f, w)
      BY <1>9, <1>t, <2>3 DEF DecrBy, Holders, Fit
    <3>2. counter'[<<f, w>>] = counter[<<f, w>>]
      BY <1>9, <1>t, <2>3 DEF DecrBy
    <3> QED
      BY <1>c, <3>1, <3>2 DEF Counts
  <2>4. CASE f = e /\ w = win[r]
    <3>1. r \in Holders(e, w)
      BY <1>9, <1>p, <2>4 DEF DecrBy, Progress, Holders
    <3>2. Amount[r][e] = 1
      <4>1. e \in Entries(r) /\ e \in RPM
        BY <1>9, <1>p, <2>4 DEF DecrBy, Progress
      <4> QED
        BY <4>1 DEF Entries
    <3>3. Holders(e, w)' = Holders(e, w) \ {r}
      BY <1>9, <1>t, <2>4 DEF DecrBy, Holders
    <3>a. IsFiniteSet(Holders(e, w))
      BY HoldersFinite
    <3>b. Cardinality(Holders(e, w) \ {r}) = Cardinality(Holders(e, w)) - 1
      BY <3>1, <3>a, FS_RemoveElement
    <3>4. Cardinality(Holders(e, w)') = Cardinality(Holders(e, w)) - 1
      BY <3>3, <3>b
    <3>5. counter[<<e, w>>] = Cardinality(Holders(e, w)) /\ Cardinality(Fit(e, w)) <= Value[e]
      BY <1>c, <2>4 DEF Counts
    <3>6. counter'[<<e, w>>] = counter[<<e, w>>] - 1
      BY <1>9, <1>t, <2>4, <3>2 DEF DecrBy
    <3>7. Fit(e, w)' \subseteq Fit(e, w)
      BY <1>9, <1>t, <3>3 DEF DecrBy, Fit
    <3>8. Cardinality(Fit(e, w)') \in Nat /\ Cardinality(Fit(e, w)') <= Cardinality(Fit(e, w))
      BY <3>7, HoldersFinite, FS_Subset, FS_CardinalityType
    <3>9. Cardinality(Fit(e, w)') <= Value[e]
      BY <3>5, <3>8, HoldersFinite
    <3> QED
      BY <2>4, <3>4, <3>5, <3>6, <3>9 DEF Counts
  <2> QED
    BY <2>3, <2>4
<1>10. ASSUME NEW r \in Request, Reconcile(r) PROVE Prog /\ Cnts
  <2>1. Prog
    BY <1>10, <1>t, <1>p DEF Reconcile, Goto, Progress, Entries, Admitted
  <2>2. ASSUME NEW e \in RPM, NEW w \in Window PROVE counter'[<<e, w>>] = counter[<<e, w>>]
    <3>1. Excess(r, e) = 0
      BY DEF Excess
    <3>2. <<e, w>> \in Entry \X Window
      OBVIOUS
    <3>3. counter[<<e, w>>] \in Int
      BY <3>2, <1>t
    <3> QED
      BY <1>10, <3>1, <3>2, <3>3 DEF Reconcile
  <2>3. \A e \in RPM, w \in Window : Holders(e, w)' = Holders(e, w) /\ Fit(e, w)' = Fit(e, w)
    BY <1>10 DEF Reconcile, Holders, Fit
  <2>4. Cnts
    BY <2>2, <2>3, <1>c, CountsKept
  <2> QED
    BY <2>1, <2>4
<1>11. ASSUME Tick \/ UNCHANGED vars PROVE Prog /\ Cnts
  <2>1. UNCHANGED <<checkVars, redisVars>>
    BY <1>11 DEF Tick, vars
  <2>2. Prog
    BY <2>1, <1>p DEF Progress, Entries, Admitted
  <2>3. \A e \in RPM, w \in Window : Holders(e, w)' = Holders(e, w) /\ Fit(e, w)' = Fit(e, w)
    BY <2>1 DEF Holders, Fit
  <2>4. counter' = counter
    BY <2>1
  <2>5. Cnts
    BY <2>3, <2>4, <1>c, CountsKept
  <2> QED
    BY <2>2, <2>5
<1>12. ASSUME NEW r \in Request, NEW e \in Entry, IncrBy(r, e) \/ DecrBy(r, e) PROVE Prog /\ Cnts
  BY <1>8, <1>9, <1>12
<1>13. ASSUME NEW r \in Request, CheckStep(r) \/ Reconcile(r) PROVE Prog /\ Cnts
  BY <1>1, <1>2, <1>3, <1>4, <1>5, <1>6, <1>7, <1>10, <1>12, <1>13 DEF CheckStep
<1>14. Prog /\ Cnts
  <2> HIDE DEF Prog, Cnts, TypeOK
  <2>1. CASE \E r \in Request : CheckStep(r) \/ Reconcile(r)
    BY <2>1, <1>13
  <2>2. CASE Tick \/ UNCHANGED vars
    BY <2>2, <1>11
  <2> QED
    BY <2>1, <2>2 DEF Next
<1> QED
  BY <1>t, <1>14 DEF RequestInv

\* The inductive invariant implies the limit: the admitted are among the fit.
LEMMA RequestBound == RequestInv => RequestsWithinLimit
<1> SUFFICES ASSUME RequestInv, NEW e \in RPM, NEW w \in Window
             PROVE  Cardinality(AdmittedIn(e, w)) <= Value[e]
  BY DEF RequestsWithinLimit
<1>1. AdmittedIn(e, w) \subseteq Fit(e, w)
  BY DEF RequestInv, Progress, AdmittedIn, Fit, Holders
<1>2. Cardinality(AdmittedIn(e, w)) <= Cardinality(Fit(e, w)) /\ Cardinality(AdmittedIn(e, w)) \in Nat
  BY <1>1, HoldersFinite, FS_Subset, FS_CardinalityType
<1>3. Cardinality(Fit(e, w)) <= Value[e] /\ Value[e] \in Nat
  BY ConstantsAssumption DEF RequestInv, Counts
<1> QED
  BY <1>2, <1>3, HoldersFinite

\* However many checks interleave, fail or roll back, at most LimitValue
\* requests pass a requests-per-window limit in one window.
THEOREM RequestLimitHolds == Spec => []RequestsWithinLimit
  BY RequestInit, RequestStep, RequestBound, PTL DEF Spec

-----------------------------------------------------------------------------
(* Every counter that stays in Redis expires.                              *)

\* A counter that is not zero, or counts some request, exists; one without an
\* expiry waits for the check that met it empty.
ExpiryInv ==
  /\ \A e \in Entry, w \in Window : counter[<<e, w>>] # 0 => <<e, w>> \in keys
  /\ \A r \in Request : \A e \in held[r] : <<e, win[r]>> \in keys
  /\ late = {} /\ "redis" \notin hit =>
       \A e \in Entry, w \in Window : <<e, w>> \in keys =>
         \/ <<e, w>> \in ttl
         \/ \E r \in Request : st[r] = "incr" /\ e \in first[r] /\ win[r] = w

\* Every step keeps it.
LEMMA ExpiryStep == RequestInv /\ ExpiryInv /\ [Next]_vars => ExpiryInv'
<1> USE ConstantsAssumption DEF redisVars, faultVars, checkVars, Goto
<1> SUFFICES ASSUME RequestInv, ExpiryInv, [Next]_vars PROVE ExpiryInv'
  OBVIOUS
<1>t. TypeOK /\ TypeOK'
  BY TypeStep DEF RequestInv
<1>p. \A r \in Request : Progress(r)
  BY DEF RequestInv
<1>1. ASSUME NEW r \in Request, BeginCheck(r) PROVE ExpiryInv'
  <2>1. held[r] = {}
    BY <1>1, <1>p DEF BeginCheck, Progress
  <2> QED
    BY <1>1, <1>t, <2>1 DEF BeginCheck, ExpiryInv, TypeOK
<1>2. ASSUME NEW r \in Request, LoadFails(r) PROVE ExpiryInv'
  BY <1>2, <1>t DEF LoadFails, Fault, ExpiryInv, TypeOK
<1>3. ASSUME NEW r \in Request, IncrLost(r) \/ DecideLost(r) \/ UndoLost(r) PROVE ExpiryInv'
  <2>1. "redis" \in hit' /\ UNCHANGED <<counter, keys, held, win>>
    BY <1>3 DEF IncrLost, DecideLost, UndoLost, Fault
  <2> QED
    BY <2>1 DEF ExpiryInv
<1>4. ASSUME NEW r \in Request, Decide(r) PROVE ExpiryInv'
  <2>1. /\ UNCHANGED <<counter, keys, held, win, late, hit, first>>
        /\ ttl' = ttl \cup {<<e, win[r]>> : e \in first[r]}
        /\ \A q \in Request : q # r => st'[q] = st[q]
    BY <1>4, <1>t DEF Decide, TypeOK
  <2> QED
    BY <2>1 DEF ExpiryInv
<1>5. ASSUME NEW r \in Request, RejectRequest(r) PROVE ExpiryInv'
  BY <1>5, <1>t DEF RejectRequest, ExpiryInv, TypeOK
<1>6. ASSUME NEW r \in Request, NEW e \in Entry, IncrBy(r, e) PROVE ExpiryInv'
  <2> DEFINE k == <<e, win[r]>>
  <2>1. /\ UNCHANGED <<st, win, ttl, late, hit>> /\ keys' = keys \cup {k} /\ st[r] = "incr"
        /\ held'[r] = held[r] \cup {e} /\ \A q \in Request : q # r => held'[q] = held[q] /\ first'[q] = first[q]
        /\ first[r] \subseteq first'[r]
        /\ \A f \in Entry, w \in Window : <<f, w>> # k => counter'[<<f, w>>] = counter[<<f, w>>]
    BY <1>6, <1>t DEF IncrBy, TypeOK
  <2>2. counter[k] = 0 => e \in first'[r]
    BY <1>6, <1>t DEF IncrBy, TypeOK
  <2>3. \A q \in Request : first[q] \subseteq first'[q]
    BY <2>1
  <2>4. win[r] \in Window
    BY <1>t DEF TypeOK
  <2>5. (\A f \in Entry, w \in Window : counter[<<f, w>>] # 0 => <<f, w>> \in keys)'
    BY <2>1 DEF ExpiryInv
  <2>6. (\A q \in Request : \A f \in held[q] : <<f, win[q]>> \in keys)'
    BY <2>1 DEF ExpiryInv
  <2>7. ASSUME late' = {}, "redis" \notin hit', NEW f \in Entry, NEW w \in Window, <<f, w>> \in keys'
        PROVE  \/ <<f, w>> \in ttl'
               \/ \E q \in Request : st'[q] = "incr" /\ f \in first'[q] /\ win'[q] = w
    <3>1. CASE <<f, w>> \in keys
      BY <2>1, <2>3, <2>7, <3>1 DEF ExpiryInv
    <3>2. CASE <<f, w>> \notin keys
      <4>1. f = e /\ w = win[r] /\ counter[k] = 0
        BY <2>1, <2>4, <2>7, <3>2 DEF ExpiryInv
      <4> QED
        BY <2>1, <2>2, <4>1
    <3> QED
      BY <3>1, <3>2
  <2> QED
    BY <2>5, <2>6, <2>7 DEF ExpiryInv
<1>7. ASSUME NEW r \in Request, NEW e \in Entry, DecrBy(r, e) PROVE ExpiryInv'
  <2>1. e \in held[r] /\ st[r] = "undo"
    BY <1>7, <1>p DEF DecrBy, Progress
  <2>2. /\ UNCHANGED <<st, win, ttl, late, hit, keys, first>>
        /\ \A q \in Request : held'[q] \subseteq held[q]
        /\ \A f \in Entry, w \in Window : <<f, w>> # <<e, win[r]>> => counter'[<<f, w>>] = counter[<<f, w>>]
    BY <1>7, <1>t DEF DecrBy, TypeOK
  <2>3. <<e, win[r]>> \in keys
    BY <2>1 DEF ExpiryInv
  <2>4. (\A f \in Entry, w \in Window : counter[<<f, w>>] # 0 => <<f, w>> \in keys)'
    BY <2>2, <2>3 DEF ExpiryInv
  <2>5. (\A q \in Request : \A f \in held[q] : <<f, win[q]>> \in keys)'
    BY <2>2 DEF ExpiryInv
  <2> QED
    BY <2>2, <2>4, <2>5 DEF ExpiryInv
<1>8. ASSUME NEW r \in Request, Reconcile(r) PROVE ExpiryInv'
  <2> DEFINE K == {<<e, WindowOf(now)>> : e \in {x \in OTPM : Excess(r, x) > 0}}
  <2>1. /\ UNCHANGED <<win, held, first, ttl, hit>> /\ keys' = keys \cup K
        /\ st[r] \in {"admitted", "waved"} /\ \A q \in Request : q # r => st'[q] = st[q]
        /\ late' = {} => late = {} /\ K \subseteq {<<e, win[r]>> : e \in held[r]}
    BY <1>8, <1>t DEF Reconcile, TypeOK
  <2>2. ASSUME NEW e \in Entry, NEW w \in Window, <<e, w>> \notin K PROVE counter'[<<e, w>>] = counter[<<e, w>>]
    <3>1. <<e, w>> \in Entry \X Window /\ counter[<<e, w>>] \in Int
      BY <1>t DEF TypeOK
    <3>2. CASE w # WindowOf(now)
      BY <1>8, <3>1, <3>2 DEF Reconcile
    <3>3. CASE w = WindowOf(now)
      <4>1. Excess(r, e) = 0
        BY <2>2, <3>3 DEF Excess
      <4> QED
        BY <1>8, <3>1, <4>1 DEF Reconcile
    <3> QED
      BY <3>2, <3>3
  <2>3. late' = {} => keys' = keys
    BY <2>1 DEF ExpiryInv
  <2> HIDE DEF K
  <2>4. (\A f \in Entry, w \in Window : counter[<<f, w>>] # 0 => <<f, w>> \in keys)'
    BY <2>1, <2>2 DEF ExpiryInv
  <2>5. (\A q \in Request : \A f \in held[q] : <<f, win[q]>> \in keys)'
    BY <2>1 DEF ExpiryInv
  <2>6. ASSUME late' = {}, "redis" \notin hit', NEW f \in Entry, NEW w \in Window, <<f, w>> \in keys'
        PROVE  \/ <<f, w>> \in ttl'
               \/ \E q \in Request : st'[q] = "incr" /\ f \in first'[q] /\ win'[q] = w
    BY <2>1, <2>3, <2>6 DEF ExpiryInv
  <2> QED
    BY <2>4, <2>5, <2>6 DEF ExpiryInv
<1>9. CASE Tick \/ UNCHANGED vars
  BY <1>9 DEF Tick, vars, ExpiryInv
<1> QED
  BY <1>1, <1>2, <1>3, <1>4, <1>5, <1>6, <1>7, <1>8, <1>9 DEF Next, CheckStep

\* Once no check is under way every counter in Redis expires, for every set of
\* requests and limits, as long as no pipeline was lost and no reservation was
\* returned to a counter that did not hold it.
THEOREM CountersExpireOnceDecided == Spec => []CountersBounded
<1>1. Init => ExpiryInv
  BY DEF Init, ExpiryInv
<1>2. TypeOK /\ ExpiryInv => CountersBounded
  <2> SUFFICES ASSUME TypeOK, ExpiryInv, late = {}, "redis" \notin hit, \A r \in Request : ~Undecided(r)
               PROVE  keys \subseteq ttl
    BY DEF CountersBounded
  <2>1. \A r \in Request : st[r] # "incr"
    BY DEF Undecided
  <2> QED
    BY <2>1 DEF ExpiryInv, TypeOK
<1>3. RequestInv => TypeOK
  BY DEF RequestInv
<1> QED
  BY <1>1, <1>2, <1>3, RequestInit, RequestStep, ExpiryStep, PTL DEF Spec

-----------------------------------------------------------------------------
(* Counters count exactly the requests admitted or being decided.          *)

\* A counter is what its holders cost; those that found it within the limit
\* cost no more than the limit.
Exact(e, w) ==
  /\ counter[<<e, w>>] = Charged(e, Holders(e, w))
  /\ Charged(e, Fit(e, w)) <= Value[e]

ExactInv ==
  /\ late = {} => \A e \in Entry, w \in Window : Exact(e, w)
  /\ \A r \in Request : st[r] = "rejected" /\ "redis" \notin hit => held[r] = {}

\* A request never costs a limit less than nothing.
LEMMA ChargeNat ==
  ASSUME NEW r \in Request, NEW e \in Entry
  PROVE  Charge(r, e) \in Nat /\ Excess(r, e) \in Nat
  BY ConstantsAssumption DEF Charge, Excess

\* What a set of requests costs is a number, and no less than what a part of
\* it costs.
LEMMA ChargedNat ==
  ASSUME NEW e \in Entry, NEW S, S \subseteq Request
  PROVE  /\ Charged(e, S) \in Nat
         /\ \A T \in SUBSET S : Charged(e, T) \in Nat /\ Charged(e, T) <= Charged(e, S)
<1> DEFINE f == [r \in Request |-> Charge(r, e)]
<1>1. IsFiniteSet(S)
  BY FS_Subset, ConstantsAssumption
<1>2. \A r \in S : f[r] \in Nat
  BY ChargeNat
<1> HIDE DEF f
<1>3. Sum(f, S) \in Nat /\ \A T \in SUBSET S : Sum(f, T) \in Nat /\ Sum(f, T) <= Sum(f, S)
  BY <1>1, <1>2, SumNat
<1> QED
  BY <1>3 DEF Charged, f

\* One request more, or less, costs its charge more, or less.
LEMMA ChargedAdd ==
  ASSUME NEW e \in Entry, NEW S, S \subseteq Request, NEW r \in Request
  PROVE  /\ r \notin S => Charged(e, S \cup {r}) = Charged(e, S) + Charge(r, e)
         /\ r \in S => Charged(e, S \ {r}) = Charged(e, S) - Charge(r, e)
<1> DEFINE f == [q \in Request |-> Charge(q, e)]
<1>1. IsFiniteSet(S)
  BY FS_Subset, ConstantsAssumption
<1>2. \A q \in S \cup {r} : f[q] \in Int
  BY ChargeNat
<1>3. f[r] = Charge(r, e)
  OBVIOUS
<1> HIDE DEF f
<1>4. r \notin S => Sum(f, S \cup {r}) = Sum(f, S) + f[r]
  BY <1>1, <1>2, SumAdd
<1>5. r \in S => Sum(f, S \ {r}) = Sum(f, S) - f[r]
  BY <1>1, <1>2, SumRemove
<1> QED
  BY <1>3, <1>4, <1>5 DEF Charged, f

\* As long as no charge of a request of S changes, S costs the same.
LEMMA ChargedSame ==
  ASSUME NEW e \in Entry, NEW S, S \subseteq Request, \A r \in S : Charge(r, e)' = Charge(r, e)
  PROVE  Sum([q \in Request |-> Charge(q, e)'], S) = Charged(e, S)
<1> DEFINE f == [q \in Request |-> Charge(q, e)]
           g == [q \in Request |-> Charge(q, e)']
<1>1. IsFiniteSet(S)
  BY FS_Subset, ConstantsAssumption
<1>2. \A q \in S : f[q] = g[q]
  OBVIOUS
<1> HIDE DEF f, g
<1>3. Sum(f, S) = Sum(g, S)
  BY <1>1, <1>2, SumSame
<1> QED
  BY <1>3 DEF Charged, f, g

\* A step that leaves a counter, its holders, verdicts and charges alone.
LEMMA ExactKept ==
  ASSUME NEW e \in Entry, NEW w \in Window, Exact(e, w), counter'[<<e, w>>] = counter[<<e, w>>],
         Holders(e, w)' = Holders(e, w), Fit(e, w)' = Fit(e, w),
         \A r \in Request : Charge(r, e)' = Charge(r, e)
  PROVE  Exact(e, w)'
<1>1. Holders(e, w) \subseteq Request /\ Fit(e, w) \subseteq Request
  BY DEF Holders, Fit
<1>2. Charged(e, Holders(e, w))' = Sum([q \in Request |-> Charge(q, e)'], Holders(e, w))
  BY DEF Charged
<1>3. Charged(e, Fit(e, w))' = Sum([q \in Request |-> Charge(q, e)'], Fit(e, w))
  BY DEF Charged
<1> QED
  BY <1>1, <1>2, <1>3, ChargedSame DEF Exact

\* A check increments counter e of its window.
LEMMA ExactIncr ==
  ASSUME TypeOK, TypeOK', NEW r \in Request, NEW e \in Entry, Progress(r), IncrBy(r, e), Exact(e, win[r])
  PROVE  Exact(e, win[r])'
<1> DEFINE w == win[r]
           H == Holders(e, w)
           F == Fit(e, w)
           g == [q \in Request |-> Charge(q, e)']
<1>1. /\ w \in Window /\ win'[r] = w /\ st' = st /\ st[r] = "incr"
      /\ r \notin H /\ r \notin F /\ H \subseteq Request /\ F \in SUBSET H /\ e \notin fits[r]
  BY DEF TypeOK, IncrBy, Progress, Holders, Fit
<1>2. \A q \in Request : Charge(q, e)' = Charge(q, e)
  BY <1>1 DEF Charge, Excess
<1>3. Charge(r, e) = Amount[r][e] /\ Amount[r][e] \in Nat /\ Value[e] \in Nat
  BY <1>1, ConstantsAssumption DEF Charge
<1>4. Holders(e, w)' = H \cup {r}
  BY <1>1 DEF TypeOK, IncrBy, Holders
<1>5. \A S \in SUBSET Request : Sum(g, S) = Charged(e, S)
  BY <1>2, ChargedSame
<1>6. counter'[<<e, w>>] = counter[<<e, w>>] + Amount[r][e]
  BY <1>1 DEF TypeOK, IncrBy
<1>7. counter[<<e, w>>] = Charged(e, H) /\ Charged(e, F) <= Value[e]
  BY DEF Exact
<1>8. /\ Charged(e, H \cup {r}) = Charged(e, H) + Amount[r][e]
      /\ Charged(e, F \cup {r}) = Charged(e, F) + Amount[r][e]
  BY <1>1, <1>3, ChargedAdd
<1>9. Charged(e, H) \in Nat /\ Charged(e, F) \in Nat /\ Charged(e, F) <= Charged(e, H)
  BY <1>1, ChargedNat
<1>10. Charged(e, Fit(e, w)') <= Value[e]
  <2>1. CASE counter[<<e, w>>] + Amount[r][e] <= Value[e]
    <3>1. Fit(e, w)' = F \cup {r}
      BY <1>1, <1>4, <2>1 DEF TypeOK, IncrBy, Fit
    <3> QED
      BY <1>3, <1>7, <1>8, <1>9, <2>1, <3>1
  <2>2. CASE ~(counter[<<e, w>>] + Amount[r][e] <= Value[e])
    <3>1. Fit(e, w)' = F
      BY <1>1, <1>4, <2>2 DEF TypeOK, IncrBy, Fit
    <3> QED
      BY <1>7, <3>1
  <2> QED
    BY <2>1, <2>2
<1>11. Fit(e, w)' \in SUBSET Request /\ Holders(e, w)' \in SUBSET Request
  BY DEF Fit, Holders
<1>12. Charged(e, Holders(e, w))' = Sum(g, Holders(e, w)') /\ Charged(e, Fit(e, w))' = Sum(g, Fit(e, w)')
  BY DEF Charged
<1>13. counter'[<<e, w>>] = Charged(e, Holders(e, w))' /\ Charged(e, Fit(e, w))' <= Value[e]
  <2> HIDE DEF g
  <2> QED
    BY <1>4, <1>5, <1>6, <1>7, <1>8, <1>10, <1>11, <1>12
<1> QED
  BY <1>1, <1>13 DEF Exact

\* A rollback decrements counter e of its window.
LEMMA ExactDecr ==
  ASSUME TypeOK, TypeOK', NEW r \in Request, NEW e \in Entry, Progress(r), DecrBy(r, e), Exact(e, win[r])
  PROVE  Exact(e, win[r])'
<1> DEFINE w == win[r]
           H == Holders(e, w)
           F == Fit(e, w)
           g == [q \in Request |-> Charge(q, e)']
<1>1. /\ w \in Window /\ win'[r] = w /\ st' = st /\ st[r] = "undo"
      /\ r \in H /\ H \subseteq Request /\ F \in SUBSET H
  BY DEF TypeOK, DecrBy, Progress, Holders, Fit
<1>2. \A q \in Request : Charge(q, e)' = Charge(q, e)
  BY <1>1 DEF Charge, Excess
<1>3. Charge(r, e) = Amount[r][e] /\ Amount[r][e] \in Nat /\ Value[e] \in Nat
  BY <1>1, ConstantsAssumption DEF Charge
<1>4. Holders(e, w)' = H \ {r} /\ Fit(e, w)' \in SUBSET F
  BY <1>1 DEF TypeOK, DecrBy, Holders, Fit
<1>5. \A S \in SUBSET Request : Sum(g, S) = Charged(e, S)
  BY <1>2, ChargedSame
<1>6. counter'[<<e, w>>] = counter[<<e, w>>] - Amount[r][e]
  BY <1>1 DEF TypeOK, DecrBy
<1>7. counter[<<e, w>>] = Charged(e, H) /\ Charged(e, F) <= Value[e]
  BY DEF Exact
<1>8. Charged(e, H \ {r}) = Charged(e, H) - Amount[r][e]
  BY <1>1, <1>3, ChargedAdd
<1>9. Charged(e, F) \in Nat /\ Charged(e, Fit(e, w)') \in Nat /\ Charged(e, Fit(e, w)') <= Charged(e, F)
  <2>1. F \subseteq Request
    BY <1>1
  <2> HIDE DEF F
  <2> QED
    BY <1>4, <2>1, ChargedNat
<1>10. Charged(e, Fit(e, w)') <= Value[e]
  BY <1>3, <1>7, <1>9
<1>11. Fit(e, w)' \in SUBSET Request /\ Holders(e, w)' \in SUBSET Request
  BY DEF Fit, Holders
<1>12. Charged(e, Holders(e, w))' = Sum(g, Holders(e, w)') /\ Charged(e, Fit(e, w))' = Sum(g, Fit(e, w)')
  BY DEF Charged
<1>13. counter'[<<e, w>>] = Charged(e, Holders(e, w))' /\ Charged(e, Fit(e, w))' <= Value[e]
  <2> HIDE DEF g
  <2> QED
    BY <1>4, <1>5, <1>6, <1>7, <1>8, <1>10, <1>11, <1>12
<1> QED
  BY <1>1, <1>13 DEF Exact

\* A response corrects the charge of its request and, as long as nothing was
\* late, the counter that holds it.
LEMMA ExactReconcile ==
  ASSUME TypeOK, TypeOK', NEW r \in Request, Reconcile(r), late' = {},
         NEW e \in Entry, NEW w \in Window, Exact(e, w)
  PROVE  Exact(e, w)'
<1> DEFINE H == Holders(e, w)
           F == Fit(e, w)
           f == [q \in Request |-> Charge(q, e)]
           g == [q \in Request |-> Charge(q, e)']
           x == Excess(r, e)
<1>1. Holders(e, w)' = H /\ Fit(e, w)' = F /\ H \subseteq Request /\ F \in SUBSET H
  BY DEF Reconcile, Holders, Fit
<1>2. x \in Nat /\ Value[e] \in Nat
  BY ChargeNat, ConstantsAssumption
<1>3. /\ \A q \in Request : q # r => g[q] = f[q]
      /\ g[r] = f[r] - x
      /\ \A q \in Request : f[q] \in Nat
  <2>1. \A q \in Request : q # r => st'[q] = st[q]
    BY DEF Reconcile, Goto, TypeOK
  <2>2. st[r] \in {"admitted", "waved"} /\ st'[r] \in {"settled", "done"}
    BY DEF Reconcile, Goto, TypeOK
  <2>3. \A q \in Request : Excess(q, e)' = Excess(q, e)
    BY DEF Excess
  <2>4. Amount[r][e] \in Nat
    BY ConstantsAssumption
  <2>5. \A q \in Request : q # r => Charge(q, e)' = Charge(q, e)
    BY <2>1, <2>3 DEF Charge
  <2>6. Charge(r, e)' = Charge(r, e) - x
    BY <1>2, <2>2, <2>3, <2>4 DEF Charge
  <2> QED
    BY <2>5, <2>6, ChargeNat
<1>4. counter'[<<e, w>>] = IF w = WindowOf(now) THEN counter[<<e, w>>] - x ELSE counter[<<e, w>>]
  <2>1. <<e, w>> \in Entry \X Window
    OBVIOUS
  <2> QED
    BY <2>1 DEF Reconcile
<1>5. x > 0 => (w = WindowOf(now) <=> r \in H)
  <2>1. {<<d, WindowOf(now)>> : d \in {y \in OTPM : Excess(r, y) > 0}} \subseteq {<<d, win[r]>> : d \in held[r]}
    BY DEF Reconcile
  <2>2. x > 0 => e \in OTPM
    BY DEF Excess
  <2>3. x > 0 => <<e, WindowOf(now)>> \in {<<d, win[r]>> : d \in held[r]}
    BY <2>1, <2>2
  <2>4. x > 0 => e \in held[r] /\ win[r] = WindowOf(now)
    BY <2>3
  <2> QED
    BY <2>4 DEF Holders
<1>6. IsFiniteSet(H) /\ IsFiniteSet(F)
  BY HoldersFinite
<1>7. \A q \in Request : g[q] \in Int /\ f[q] \in Int
  BY <1>2, <1>3
<1>8. ASSUME NEW S \in SUBSET Request, IsFiniteSet(S)
      PROVE  Sum(g, S) = IF r \in S THEN Sum(f, S) - x ELSE Sum(f, S)
  <2> HIDE DEF f, g, x
  <2>1. CASE r \in S
    <3>1. Sum(g, S) = Sum(f, S) - f[r] + g[r]
      BY <1>3, <1>7, <1>8, <2>1, SumChange
    <3>2. Sum(f, S) \in Int
      <4>1. S \in SUBSET S
        OBVIOUS
      <4> QED
        BY <1>7, <1>8, <4>1, SumInt
    <3> QED
      BY <1>2, <1>3, <1>7, <2>1, <3>1, <3>2
  <2>2. CASE r \notin S
    <3>1. \A q \in S : f[q] = g[q]
      BY <1>3, <2>2
    <3>2. Sum(f, S) = Sum(g, S)
      BY <1>8, <3>1, SumSame
    <3> QED
      BY <2>2, <3>2
  <2> QED
    BY <2>1, <2>2
<1>9. /\ Charged(e, H) = Sum(f, H) /\ Charged(e, F) = Sum(f, F)
      /\ Charged(e, Holders(e, w))' = Sum(g, H) /\ Charged(e, Fit(e, w))' = Sum(g, F)
  BY <1>1 DEF Charged
<1>10. Sum(f, H) \in Nat /\ Sum(f, F) \in Nat
  BY <1>1, <1>9, ChargedNat
<1>11. counter[<<e, w>>] = Sum(f, H) /\ Sum(f, F) <= Value[e]
  BY <1>9 DEF Exact
<1> HIDE DEF f, g, x, H, F
<1>12. counter'[<<e, w>>] = Sum(g, H)
  BY <1>1, <1>2, <1>4, <1>5, <1>6, <1>8, <1>10, <1>11
<1>13. Sum(g, F) <= Value[e]
  BY <1>1, <1>2, <1>6, <1>8, <1>10, <1>11
<1> QED
  BY <1>9, <1>12, <1>13 DEF Exact

\* Every step keeps ExactInv.
LEMMA ExactStep == RequestInv /\ ExactInv /\ [Next]_vars => ExactInv'
<1> USE ConstantsAssumption DEF redisVars, faultVars, checkVars, Goto
<1> SUFFICES ASSUME RequestInv, ExactInv, [Next]_vars PROVE ExactInv'
  OBVIOUS
<1>t. TypeOK /\ TypeOK'
  BY TypeStep DEF RequestInv
<1>p. \A r \in Request : Progress(r)
  BY DEF RequestInv
<1> DEFINE Returned(r) == st[r] \in {"settled", "done"}
           Rejected(r) == st[r] = "rejected" /\ "redis" \notin hit => held[r] = {}
\* A step that moves request r on without touching a counter.
<1>a. ASSUME NEW r \in Request, UNCHANGED <<counter, held, fits, late>>,
             \A q \in Request : q # r => st'[q] = st[q] /\ win'[q] = win[q],
             win'[r] = win[r] \/ held[r] = {}, ~Returned(r), ~Returned(r)',
             hit \subseteq hit', Rejected(r)'
      PROVE  ExactInv'
  <2>1. \A e \in Entry, w \in Window : Holders(e, w)' = Holders(e, w) /\ Fit(e, w)' = Fit(e, w)
    BY <1>a DEF Holders, Fit
  <2>2. \A e \in Entry, q \in Request : Charge(q, e)' = Charge(q, e)
    BY <1>a DEF Charge, Excess
  <2>3. late' = {} => (\A e \in Entry, w \in Window : Exact(e, w))'
    BY <1>a, <2>1, <2>2, ExactKept DEF ExactInv
  <2>4. \A q \in Request : Rejected(q)'
    BY <1>a DEF ExactInv
  <2> QED
    BY <2>3, <2>4 DEF ExactInv
<1>1. ASSUME NEW r \in Request, BeginCheck(r) PROVE ExactInv'
  <2>1. held[r] = {}
    BY <1>1, <1>p DEF BeginCheck, Progress
  <2>2. /\ UNCHANGED <<counter, held, fits, late>> /\ hit \subseteq hit'
        /\ \A q \in Request : q # r => st'[q] = st[q] /\ win'[q] = win[q]
        /\ win'[r] = win[r] \/ held[r] = {}
        /\ ~Returned(r) /\ ~Returned(r)' /\ Rejected(r)'
    BY <1>1, <1>t, <2>1 DEF BeginCheck, Fault, TypeOK
  <2> QED
    BY <1>a, <2>2
<1>2. ASSUME NEW r \in Request, LoadFails(r) PROVE ExactInv'
  <2>1. /\ UNCHANGED <<counter, held, fits, late>> /\ hit \subseteq hit'
        /\ \A q \in Request : q # r => st'[q] = st[q] /\ win'[q] = win[q]
        /\ win'[r] = win[r] \/ held[r] = {}
        /\ ~Returned(r) /\ ~Returned(r)' /\ Rejected(r)'
    BY <1>2, <1>t DEF LoadFails, Fault, TypeOK
  <2> QED
    BY <1>a, <2>1
<1>3. ASSUME NEW r \in Request, IncrLost(r) \/ DecideLost(r) \/ UndoLost(r) PROVE ExactInv'
  <2>1. /\ UNCHANGED <<counter, held, fits, late>> /\ hit \subseteq hit'
        /\ \A q \in Request : q # r => st'[q] = st[q] /\ win'[q] = win[q]
        /\ win'[r] = win[r] \/ held[r] = {}
        /\ ~Returned(r) /\ ~Returned(r)' /\ Rejected(r)'
    BY <1>3, <1>t DEF IncrLost, DecideLost, UndoLost, Fault, TypeOK
  <2> QED
    BY <1>a, <2>1
<1>4. ASSUME NEW r \in Request, Decide(r) PROVE ExactInv'
  <2>1. /\ UNCHANGED <<counter, held, fits, late>> /\ hit \subseteq hit'
        /\ \A q \in Request : q # r => st'[q] = st[q] /\ win'[q] = win[q]
        /\ win'[r] = win[r] \/ held[r] = {}
        /\ ~Returned(r) /\ ~Returned(r)' /\ Rejected(r)'
    BY <1>4, <1>t DEF Decide, Fault, TypeOK
  <2> QED
    BY <1>a, <2>1
<1>5. ASSUME NEW r \in Request, RejectRequest(r) PROVE ExactInv'
  <2>1. held[r] = {}
    BY <1>5, <1>p DEF RejectRequest, Progress
  <2>2. /\ UNCHANGED <<counter, held, fits, late>> /\ hit \subseteq hit'
        /\ \A q \in Request : q # r => st'[q] = st[q] /\ win'[q] = win[q]
        /\ win'[r] = win[r] \/ held[r] = {}
        /\ ~Returned(r) /\ ~Returned(r)' /\ Rejected(r)'
    BY <1>5, <1>t, <2>1 DEF RejectRequest, Fault, TypeOK
  <2> QED
    BY <1>a, <2>2
<1>6. ASSUME NEW r \in Request, NEW e \in Entry, IncrBy(r, e) \/ DecrBy(r, e) PROVE ExactInv'
  <2>1. /\ UNCHANGED <<st, win, late, hit>> /\ st[r] # "rejected"
        /\ \A q \in Request : q # r => held'[q] = held[q]
    BY <1>6, <1>t DEF IncrBy, DecrBy, TypeOK
  <2>2. ASSUME NEW f \in Entry, NEW w \in Window, Exact(f, w), f # e \/ w # win[r] PROVE Exact(f, w)'
    <3>1. Holders(f, w)' = Holders(f, w) /\ Fit(f, w)' = Fit(f, w)
      <4>1. CASE IncrBy(r, e)
        BY <1>t, <2>2, <4>1 DEF IncrBy, Holders, Fit, TypeOK
      <4>2. CASE DecrBy(r, e)
        BY <1>t, <2>2, <4>2 DEF DecrBy, Holders, Fit, TypeOK
      <4> QED
        BY <1>6, <4>1, <4>2
    <3>2. counter'[<<f, w>>] = counter[<<f, w>>]
      BY <1>6, <1>t, <2>2 DEF IncrBy, DecrBy, TypeOK
    <3>3. \A q \in Request : Charge(q, f)' = Charge(q, f)
      BY <2>1 DEF Charge, Excess
    <3> QED
      BY <2>2, <3>1, <3>2, <3>3, ExactKept
  <2>3. ASSUME Exact(e, win[r]) PROVE Exact(e, win[r])'
    BY <1>6, <1>t, <1>p, <2>3, ExactIncr, ExactDecr
  <2>4. late' = {} => (\A f \in Entry, w \in Window : Exact(f, w))'
    <3> SUFFICES ASSUME late' = {}, NEW f \in Entry, NEW w \in Window PROVE Exact(f, w)'
      OBVIOUS
    <3>1. Exact(f, w) /\ win' = win
      BY <2>1 DEF ExactInv
    <3>2. CASE f = e /\ w = win[r]
      <4>1. Exact(e, win[r])'
        BY <2>3, <3>1, <3>2
      <4> QED
        BY <3>1, <3>2, <4>1 DEF Exact
    <3> QED
      BY <2>2, <3>1, <3>2
  <2>5. \A q \in Request : Rejected(q)'
    BY <2>1 DEF ExactInv
  <2> QED
    BY <2>4, <2>5 DEF ExactInv
<1>7. ASSUME NEW r \in Request, Reconcile(r) PROVE ExactInv'
  <2>1. late' = {} => late = {}
    BY <1>7 DEF Reconcile
  <2>2. late' = {} => (\A e \in Entry, w \in Window : Exact(e, w))'
    BY <1>7, <1>t, <2>1, ExactReconcile DEF ExactInv
  <2>3. \A q \in Request : Rejected(q)'
    BY <1>7, <1>t DEF Reconcile, ExactInv, TypeOK
  <2> QED
    BY <2>2, <2>3 DEF ExactInv
<1>8. CASE Tick \/ UNCHANGED vars
  <2>1. UNCHANGED <<counter, held, fits, late, st, win, hit>>
    BY <1>8 DEF Tick, vars
  <2>2. \A e \in Entry, w \in Window : Holders(e, w)' = Holders(e, w) /\ Fit(e, w)' = Fit(e, w)
    BY <2>1 DEF Holders, Fit
  <2>3. \A e \in Entry, q \in Request : Charge(q, e)' = Charge(q, e)
    BY <2>1 DEF Charge, Excess
  <2>4. late' = {} => (\A e \in Entry, w \in Window : Exact(e, w))'
    BY <2>1, <2>2, <2>3, ExactKept DEF ExactInv
  <2>5. \A q \in Request : Rejected(q)'
    BY <2>1 DEF ExactInv
  <2> QED
    BY <2>4, <2>5 DEF ExactInv
<1> QED
  BY <1>1, <1>2, <1>3, <1>4, <1>5, <1>6, <1>7, <1>8 DEF Next, CheckStep

\* Whatever interleaves, fails or rolls back, a counter is exactly what the
\* requests that hold it reserved or used, so the admitted ones stay within the
\* limit, tokens included; a rejected request leaves nothing behind.
THEOREM CountersExact == Spec => []CounterExact
<1>1. Init => ExactInv
  <2> SUFFICES ASSUME Init PROVE ExactInv
    OBVIOUS
  <2>1. ASSUME NEW e \in Entry, NEW w \in Window PROVE Exact(e, w)
    <3>1. Holders(e, w) = {} /\ Fit(e, w) = {}
      BY DEF Init, Holders, Fit
    <3>2. Charged(e, {}) = 0
      BY SumEmpty DEF Charged
    <3>3. counter[<<e, w>>] = 0 /\ Value[e] \in Nat
      BY ConstantsAssumption DEF Init
    <3> QED
      BY <3>1, <3>2, <3>3 DEF Exact
  <2> QED
    BY <2>1 DEF Init, ExactInv
<1>2. RequestInv /\ ExactInv => CounterExact
  <2> SUFFICES ASSUME RequestInv, ExactInv PROVE CounterExact
    OBVIOUS
  <2>1. ASSUME late = {}, NEW e \in Entry, NEW w \in Window
        PROVE  counter[<<e, w>>] = Charged(e, Holders(e, w)) /\ Charged(e, AdmittedIn(e, w)) <= Value[e]
    <3>1. Exact(e, w)
      BY <2>1 DEF ExactInv
    <3>2. AdmittedIn(e, w) \subseteq Fit(e, w) /\ Fit(e, w) \subseteq Request
      BY DEF RequestInv, Progress, AdmittedIn, Fit, Holders
    <3>3. /\ Charged(e, Fit(e, w)) \in Nat /\ Charged(e, AdmittedIn(e, w)) \in Nat
          /\ Charged(e, AdmittedIn(e, w)) <= Charged(e, Fit(e, w))
      BY <3>2, ChargedNat
    <3>4. Value[e] \in Nat
      BY ConstantsAssumption
    <3> QED
      BY <3>1, <3>3, <3>4 DEF Exact
  <2> QED
    BY <2>1 DEF CounterExact, ExactInv
<1> QED
  BY <1>1, <1>2, RequestInit, RequestStep, ExactStep, PTL DEF Spec

-----------------------------------------------------------------------------
(* SmartRouter: cooldowns, for every strategy and order of outcomes.       *)

\* Types of the health records; the cooldown's own value does not matter.
HealthType ==
  /\ failCount \in [Deployment -> 0..2] /\ cooldownLevel \in [Deployment -> Nat]
  /\ streak \in [Deployment -> Nat]
  /\ DOMAIN cooldownUntil = Deployment
  /\ cooldownUntil = [d \in Deployment |-> cooldownUntil[d]]

\* A deployment without a backoff level has no cooldown.
LevelZero == \A d \in Deployment : cooldownLevel[d] = 0 => cooldownUntil[d] = Never

\* A request in its call knows which deployment it called.
Calling ==
  /\ pc \in [Client -> Step] /\ dep \in [Client -> Deployment \cup {None}]
  /\ \A c \in Client : pc[c] = "call" => dep[c] \in Deployment

HealthInv == clock \in Nat /\ HealthType /\ RoundsCounted /\ LevelZero /\ Calling

\* Initially no deployment has failed.
LEMMA HealthInit == InitRouter => HealthInv
  BY DEF InitRouter, HealthInv, HealthType, RoundsCounted, LevelZero, Calling, Step

\* A recorded failure keeps the arithmetic of rounds.
LEMMA FailureKeeps ==
  ASSUME NEW d \in Deployment, HealthType, RoundsCounted, LevelZero, RecordFailure(d)
  PROVE  HealthType' /\ RoundsCounted' /\ LevelZero'
<1>1. failCount[d] \in 0..2 /\ cooldownLevel[d] \in Nat /\ streak[d] \in Nat
  BY DEF HealthType
<1>2. CASE failCount[d] + 1 < 3
  <2>1. failCount' = [failCount EXCEPT ![d] = failCount[d] + 1]
        /\ UNCHANGED <<cooldownLevel, cooldownUntil>> /\ streak' = [streak EXCEPT ![d] = @ + 1]
    BY <1>1, <1>2 DEF RecordFailure
  <2> QED
    BY <1>1, <1>2, <2>1 DEF HealthType, RoundsCounted, LevelZero
<1>3. CASE failCount[d] + 1 >= 3
  <2>1. /\ failCount' = [failCount EXCEPT ![d] = 0]
        /\ cooldownLevel' = [cooldownLevel EXCEPT ![d] = cooldownLevel[d] + 1]
        /\ cooldownUntil' = [cooldownUntil EXCEPT ![d] = clock + CooldownDur(cooldownLevel[d] + 1)]
        /\ streak' = [streak EXCEPT ![d] = @ + 1]
    BY <1>1, <1>3 DEF RecordFailure
  <2>2. HealthType'
    BY <1>1, <2>1 DEF HealthType
  <2>3. RoundsCounted'
    BY <1>1, <1>3, <2>1 DEF HealthType, RoundsCounted
  <2>4. LevelZero'
    BY <1>1, <2>1 DEF HealthType, LevelZero
  <2> QED
    BY <2>2, <2>3, <2>4
<1> QED
  BY <1>1, <1>2, <1>3

\* A recorded success starts over.
LEMMA SuccessKeeps ==
  ASSUME NEW d \in Deployment, HealthType, RoundsCounted, LevelZero, RecordSuccess(d)
  PROVE  HealthType' /\ RoundsCounted' /\ LevelZero'
<1>1. HealthType'
  BY DEF RecordSuccess, HealthType
<1>2. RoundsCounted'
  BY DEF RecordSuccess, HealthType, RoundsCounted
<1>3. LevelZero'
  BY DEF RecordSuccess, HealthType, LevelZero
<1> QED
  BY <1>1, <1>2, <1>3

\* A step that records no outcome leaves the health records alone.
LEMMA NothingRecorded ==
  ASSUME HealthType, RoundsCounted, LevelZero, UNCHANGED healthVars
  PROVE  HealthType' /\ RoundsCounted' /\ LevelZero'
  BY DEF HealthType, RoundsCounted, LevelZero, healthVars

\* Every step keeps the inductive invariant.
LEMMA HealthStep == HealthInv /\ [NextRouter]_routerVars => HealthInv'
<1> SUFFICES ASSUME HealthInv, [NextRouter]_routerVars PROVE HealthInv'
  OBVIOUS
<1> USE DEF GoOn, SendReply, LeaveLoop
<1> DEFINE Kept == HealthType' /\ RoundsCounted' /\ LevelZero'
<1>a. clock \in Nat /\ HealthType /\ RoundsCounted /\ LevelZero /\ Calling
  BY DEF HealthInv
<1>1. ASSUME NEW c \in Client, BeginRequest(c) PROVE HealthInv'
  <2>1. Calling'
    BY <1>1, <1>a DEF BeginRequest, Calling, Step
  <2> QED
    BY <1>1, <1>a, <2>1, NothingRecorded DEF BeginRequest, HealthInv
<1>2. ASSUME NEW c \in Client, Exhausted(c) PROVE HealthInv'
  <2>1. Calling'
    BY <1>2, <1>a DEF Exhausted, Calling, Step
  <2> QED
    BY <1>2, <1>a, <2>1, NothingRecorded DEF Exhausted, HealthInv
<1>3. ASSUME NEW c \in Client, SelectDeployment(c) PROVE HealthInv'
  <2>1. Calling'
    BY <1>3, <1>a DEF SelectDeployment, Calling, Step
  <2> QED
    BY <1>3, <1>a, <2>1, NothingRecorded DEF SelectDeployment, HealthInv
<1>4. ASSUME NEW c \in Client, CallSucceeds(c) PROVE HealthInv'
  <2>1. Calling'
    BY <1>4, <1>a DEF CallSucceeds, Calling, Step
  <2>2. dep[c] \in Deployment /\ RecordSuccess(dep[c])
    BY <1>4, <1>a DEF CallSucceeds, Calling
  <2>3. Kept
    BY <2>2, <1>a, SuccessKeeps
  <2> QED
    BY <1>4, <1>a, <2>1, <2>3 DEF CallSucceeds, HealthInv
<1>5. ASSUME NEW c \in Client, NEW o \in Outcomes, CallFails(c, o) PROVE HealthInv'
  <2>1. Calling'
    BY <1>5, <1>a DEF CallFails, Calling, Step
  <2>2. dep[c] \in Deployment /\ (RecordFailure(dep[c]) \/ UNCHANGED healthVars)
    BY <1>5, <1>a DEF CallFails, Calling
  <2>3. Kept
    BY <2>2, <1>a, FailureKeeps, NothingRecorded
  <2> QED
    BY <1>5, <1>a, <2>1, <2>3 DEF CallFails, HealthInv
<1>6. ASSUME NEW c \in Client, BackoffEnds(c) PROVE HealthInv'
  <2>1. Calling'
    BY <1>6, <1>a DEF BackoffEnds, Calling, Step
  <2> QED
    BY <1>6, <1>a, <2>1, NothingRecorded DEF BackoffEnds, HealthInv
<1>7. ASSUME NEW c \in Client, ClientGone(c) PROVE HealthInv'
  <2>1. Calling'
    BY <1>7, <1>a DEF ClientGone, Calling, Step
  <2>2. (dep[c] \in Deployment /\ RecordFailure(dep[c])) \/ UNCHANGED healthVars
    BY <1>7, <1>a DEF ClientGone, Calling
  <2>3. Kept
    BY <2>2, <1>a, FailureKeeps, NothingRecorded
  <2> QED
    BY <1>7, <1>a, <2>1, <2>3 DEF ClientGone, HealthInv
<1>8. ASSUME NEW c \in Client, StreamEnds(c) PROVE HealthInv'
  <2>1. Calling'
    BY <1>8, <1>a DEF StreamEnds, Calling, Step
  <2> QED
    BY <1>8, <1>a, <2>1, NothingRecorded DEF StreamEnds, HealthInv
<1>9. CASE RouterTick
  <2>1. Calling' /\ clock' \in Nat
    BY <1>9, <1>a DEF RouterTick, Calling, requestVars
  <2> QED
    BY <1>9, <1>a, <2>1, NothingRecorded DEF RouterTick, HealthInv
<1>10. CASE UNCHANGED routerVars
  <2>1. Calling' /\ clock' \in Nat /\ UNCHANGED healthVars
    BY <1>10, <1>a DEF routerVars, Calling, requestVars
  <2> QED
    BY <1>a, <2>1, NothingRecorded DEF HealthInv
<1> QED
  BY <1>1, <1>2, <1>3, <1>4, <1>5, <1>6, <1>7, <1>8, <1>9, <1>10
  DEF NextRouter, HandlerStep, CallReturns

\* The backoff level of every deployment is its number of complete rounds of
\* three failures since its last success.
THEOREM RoundsAreCounted == SpecRouter => []RoundsCounted
<1>1. HealthInv => RoundsCounted
  BY DEF HealthInv
<1> QED
  BY <1>1, HealthInit, HealthStep, PTL DEF SpecRouter

\* A deployment in cooldown has failed at least three times since its last
\* success.
THEOREM CooldownIsEarned == SpecRouter => []CooldownEarned
<1>1. HealthInv => CooldownEarned
  <2> SUFFICES ASSUME HealthInv, NEW d \in Deployment, ~IsHealthy(d) PROVE streak[d] >= 3
    BY DEF CooldownEarned
  <2>1. cooldownLevel[d] \in Nat /\ failCount[d] \in 0..2 /\ streak[d] = 3 * cooldownLevel[d] + failCount[d]
    BY DEF HealthInv, HealthType, RoundsCounted
  <2>2. cooldownUntil[d] # Never
    BY DEF HealthInv, IsHealthy, Never
  <2>3. cooldownLevel[d] # 0
    BY <2>2 DEF HealthInv, LevelZero
  <2> QED
    BY <2>1, <2>3
<1> QED
  BY <1>1, HealthInit, HealthStep, PTL DEF SpecRouter

-----------------------------------------------------------------------------
(* ProxyBudget: reservations and settled spend.                            *)

BudgetTypes ==
  /\ now \in Nat /\ st \in [Request -> HandlerStatus]
  /\ gone \subseteq Request /\ released \subseteq Request /\ lateRelease \subseteq Request
  /\ reservedAmount \in [Request -> Nat] /\ reservedAt \in [Request -> Nat]
  /\ usageAt \in [Request -> Nat] /\ usage \in [Request -> Nat]
  /\ reserved \in [Scope -> Int] /\ spend \in [Counter -> Nat] /\ present \subseteq Counter
  /\ entry \in [UsageEvent -> EntryStatus] /\ uncounted \in [UsageEvent -> SUBSET Counter]
  /\ ledger \subseteq UsageEvent

\* What a handler has reserved, returned and published, by how far it got.
Handled(r) ==
  /\ reservedAt[r] <= now
  /\ st[r] \in {"new", "checked", "refused"} => reservedAmount[r] = 0
  /\ st[r] \notin {"publishing", "done"} => r \notin released
  /\ \A e \in UsageEvent : e[1] = r /\ entry[e] # "none" => st[r] = "done"

\* Without failures, no client is gone and what a finished handler reserved
\* was returned.
Returned(r) ==
  hit \subseteq {"limits"} =>
    /\ r \notin gone
    /\ st[r] \in {"publishing", "done"} => r \in released \/ reservedAmount[r] = 0

\* How far an entry is settled; without failures there are no duplicates, and
\* what was written has its row in the ledger.
Settled(e) ==
  /\ uncounted[e] \subseteq CountersOf(e[1])
  /\ uncounted[e] # {} => entry[e] = "written"
  /\ e \in ledger => entry[e] = "written"
  /\ hit \subseteq {"limits"} =>
       /\ entry[e] # "none" => e[2] = 1
       /\ entry[e] = "written" => e \in ledger

HandlerInv ==
  /\ BudgetTypes
  /\ \A r \in Request : Handled(r) /\ Returned(r)
  /\ \A e \in UsageEvent : Settled(e)

\* Initially no handler has done anything.
LEMMA HandlerInit == InitBudget => HandlerInv
  BY DEF InitBudget, HandlerInv, BudgetTypes, HandlerStatus, EntryStatus, UsageEvent, Handled, Returned, Settled

\* The counters of a request are counters.
LEMMA CountersAre == \A r \in Request : CountersOf(r) \in SUBSET Counter
  BY DEF CountersOf

\* The entries of a request are two, and each is one of some request.
LEMMA EventsAre ==
  /\ \A r \in Request : <<r, 1>> \in UsageEvent /\ <<r, 2>> \in UsageEvent
  /\ \A e \in UsageEvent : e[1] \in Request /\ e = <<e[1], e[2]>> /\ e[2] \in {1, 2}
  BY DEF UsageEvent

\* Every step keeps the types.
LEMMA BudgetTypesStep == BudgetTypes /\ [NextBudget]_budgetVars => BudgetTypes'
<1> USE BudgetAssumption DEF BudgetTypes, HandlerStatus, EntryStatus, handlerVars, usageVars, settleVars, faultVars,
        Goto, StepTo, StepEntry, Fault
<1> SUFFICES ASSUME BudgetTypes, [NextBudget]_budgetVars PROVE BudgetTypes'
  OBVIOUS
<1>1. ASSUME NEW r \in Request, Reject(r) \/ PreCheckBudget(r) \/ PreCheckFails(r) PROVE BudgetTypes'
  BY <1>1 DEF Reject, PreCheckBudget, PreCheckFails
<1>2. ASSUME NEW r \in Request, ReserveSpend(r) PROVE BudgetTypes'
  BY <1>2 DEF ReserveSpend, Reserving
<1>3. ASSUME NEW r \in Request, ReserveLost(r) PROVE BudgetTypes'
  BY <1>3 DEF ReserveLost
<1>4. ASSUME NEW r \in Request, AuthFails(r) \/ CallUpstream(r) PROVE BudgetTypes'
  BY <1>4 DEF AuthFails, CallUpstream
<1>5. ASSUME NEW r \in Request, Disconnect(r) \/ UpstreamFails(r) PROVE BudgetTypes'
  BY <1>5 DEF Disconnect, UpstreamFails
<1>6. ASSUME NEW r \in Request, UpstreamAnswers(r) PROVE BudgetTypes'
  BY <1>6 DEF UpstreamAnswers
<1>7. ASSUME NEW r \in Request, BodyCut(r) \/ ResponseEnds(r) PROVE BudgetTypes'
  <2>1. \A c \in 0..CostOf[r] : [usage EXCEPT ![r] = c] \in [Request -> Nat]
    OBVIOUS
  <2>2. usage' \in [Request -> Nat]
    BY <1>7, <2>1 DEF BodyCut, ResponseEnds
  <2>3. st' \in [Request -> HandlerStatus]
    BY <1>7 DEF BodyCut, ResponseEnds
  <2> QED
    BY <1>7, <2>2, <2>3 DEF BodyCut, ResponseEnds
<1>8. ASSUME NEW r \in Request, ReleaseReservation(r) PROVE BudgetTypes'
  BY <1>8 DEF ReleaseReservation, Reserving
<1>9. ASSUME NEW r \in Request, ReleaseLost(r) \/ PublishUsage(r) \/ PublishLost(r) \/ Crash(r) PROVE BudgetTypes'
  BY <1>9 DEF ReleaseLost, PublishUsage, PublishLost, Crash
<1>10. ASSUME NEW e \in UsageEvent, CheckBudget(e) \/ CheckSkipped(e) PROVE BudgetTypes'
  BY <1>10 DEF CheckBudget, CheckSkipped
<1>11. ASSUME NEW e \in UsageEvent, WriteLedger(e) PROVE BudgetTypes'
  BY <1>11, CountersAre, EventsAre DEF WriteLedger
<1>12. ASSUME NEW e \in UsageEvent, NEW c \in Counter, IncrementBudget(e, c) PROVE BudgetTypes'
  <2>1. spend' \in [Counter -> Nat] /\ present' \subseteq Counter
    BY <1>12, EventsAre DEF IncrementBudget
  <2>2. uncounted' \in [UsageEvent -> SUBSET Counter]
    BY <1>12 DEF IncrementBudget
  <2> QED
    BY <1>12, <2>1, <2>2 DEF IncrementBudget
<1>13. ASSUME NEW e \in UsageEvent, NEW c \in Counter, IncrementLost(e, c) PROVE BudgetTypes'
  BY <1>13 DEF IncrementLost
<1>14. ASSUME NEW e \in UsageEvent, WorkerFails(e) PROVE BudgetTypes'
  BY <1>14 DEF WorkerFails
<1>15. CASE NextPeriod
  BY <1>15 DEF NextPeriod
<1>16. CASE UNCHANGED budgetVars
  BY <1>16 DEF budgetVars
<1> QED
  BY <1>1, <1>2, <1>3, <1>4, <1>5, <1>6, <1>7, <1>8, <1>9, <1>10, <1>11, <1>12, <1>13, <1>14, <1>15, <1>16
     DEF NextBudget, Handle, Settle

\* A handler that a step does not touch.
LEMMA HandledKept ==
  ASSUME NEW q \in Request, BudgetTypes, BudgetTypes', Handled(q), Returned(q), now <= now', hit \subseteq hit',
         st'[q] = st[q], reservedAmount'[q] = reservedAmount[q], reservedAt'[q] = reservedAt[q],
         q \in released' <=> q \in released, q \in gone' => q \in gone,
         \A e \in UsageEvent : e[1] = q /\ entry'[e] # "none" => entry[e] # "none" \/ st[q] = "done"
  PROVE  Handled(q)' /\ Returned(q)'
<1>1. now \in Nat /\ now' \in Nat /\ reservedAt[q] \in Nat
  BY DEF BudgetTypes
<1> QED
  BY <1>1 DEF Handled, Returned

\* A step that leaves the entries of the stream alone.
LEMMA SettledKept ==
  ASSUME \A e \in UsageEvent : Settled(e), UNCHANGED <<entry, uncounted, ledger>>, hit \subseteq hit'
  PROVE  \A e \in UsageEvent : Settled(e)'
<1> SUFFICES ASSUME NEW e \in UsageEvent PROVE Settled(e)'
  OBVIOUS
<1>1. Settled(e) /\ CountersOf(e[1])' = CountersOf(e[1])
  BY DEF CountersOf, ScopesOf, Matches
<1> QED
  BY <1>1 DEF Settled

\* A handler that goes on and reserves, returns and publishes nothing.
LEMMA HandledMoves ==
  ASSUME NEW r \in Request, NEW s \in HandlerStatus \ {"new", "checked", "refused"}, BudgetTypes, Handled(r),
         st' = [st EXCEPT ![r] = s], st[r] \notin {"done", "publishing"} \/ s = "done",
         UNCHANGED <<now, reservedAmount, reservedAt, released, entry>>,
         r \in released => s \in {"publishing", "done"}
  PROVE  Handled(r)'
  BY DEF Handled, BudgetTypes

\* Every step keeps what handlers have reserved, returned and published.
LEMMA HandledStep == HandlerInv /\ [NextBudget]_budgetVars => HandlerInv'
<1> USE DEF handlerVars, usageVars, settleVars, faultVars, Goto, StepTo, Fault
<1> SUFFICES ASSUME HandlerInv, [NextBudget]_budgetVars PROVE HandlerInv'
  OBVIOUS
<1>t. BudgetTypes /\ BudgetTypes'
  BY BudgetTypesStep DEF HandlerInv
<1>h. /\ \A q \in Request : Handled(q) /\ Returned(q)
      /\ \A e \in UsageEvent : Settled(e)
  BY DEF HandlerInv
\* A step of the handler of r: the others keep what they have.
<1>a. ASSUME NEW r \in Request, now' = now, hit \subseteq hit',
             \A q \in Request : q # r =>
                /\ st'[q] = st[q] /\ reservedAmount'[q] = reservedAmount[q] /\ reservedAt'[q] = reservedAt[q]
                /\ (q \in released' <=> q \in released) /\ (q \in gone' => q \in gone),
             UNCHANGED <<entry, uncounted, ledger>>, Handled(r)', Returned(r)'
      PROVE  HandlerInv'
  <2>1. now <= now'
    BY <1>a, <1>t DEF BudgetTypes
  <2>2. \A q \in Request : Handled(q)' /\ Returned(q)'
    BY <1>a, <1>t, <1>h, <2>1, HandledKept
  <2>3. \A e \in UsageEvent : Settled(e)'
    BY <1>a, <1>h, SettledKept
  <2> QED
    BY <1>t, <2>2, <2>3 DEF HandlerInv
\* What a step leaves alone when it only moves the handler of r on.
<1>b. ASSUME NEW r \in Request, NEW s \in HandlerStatus, StepTo(r, s), now' = now, hit \subseteq hit',
             UNCHANGED <<entry, uncounted, ledger>>, Handled(r)', Returned(r)'
      PROVE  HandlerInv'
  BY <1>a, <1>b, <1>t DEF BudgetTypes
\* A step of a worker: the handlers keep what they have.
<1>c. ASSUME UNCHANGED <<now, handlerVars>>, hit \subseteq hit',
             \A e \in UsageEvent : entry'[e] # "none" => entry[e] # "none",
             \A e \in UsageEvent : Settled(e)'
      PROVE  HandlerInv'
  <2>1. now <= now'
    BY <1>c, <1>t DEF BudgetTypes
  <2>2. \A q \in Request : Handled(q)' /\ Returned(q)'
    BY <1>c, <1>t, <1>h, <2>1, HandledKept
  <2> QED
    BY <1>c, <1>t, <2>2 DEF HandlerInv
<1>d. \A e \in UsageEvent : CountersOf(e[1])' = CountersOf(e[1])
  BY DEF CountersOf, ScopesOf, Matches
<1>1. ASSUME NEW r \in Request, Reject(r) \/ PreCheckBudget(r) \/ PreCheckFails(r) PROVE HandlerInv'
  <2>1. Handled(r)' /\ Returned(r)'
    BY <1>1, <1>t, <1>h DEF Reject, PreCheckBudget, PreCheckFails, Handled, Returned, BudgetTypes
  <2> QED
    BY <1>1, <1>b, <2>1 DEF Reject, PreCheckBudget, PreCheckFails, HandlerStatus
<1>2. ASSUME NEW r \in Request, ReserveSpend(r) \/ ReserveLost(r) PROVE HandlerInv'
  <2>1. Handled(r)' /\ Returned(r)'
    BY <1>2, <1>t, <1>h DEF ReserveSpend, ReserveLost, Handled, Returned, BudgetTypes
  <2> QED
    <3>1. /\ UNCHANGED <<now, gone, released, entry, uncounted, ledger>> /\ hit \subseteq hit'
          /\ st' = [st EXCEPT ![r] = "reserved"]
          /\ reservedAmount' = [reservedAmount EXCEPT ![r] = ReserveOf[r]]
          /\ reservedAt' = [reservedAt EXCEPT ![r] = now]
      BY <1>2 DEF ReserveSpend, ReserveLost
    <3>2. \A q \in Request : q # r =>
            st'[q] = st[q] /\ reservedAmount'[q] = reservedAmount[q] /\ reservedAt'[q] = reservedAt[q]
      BY <1>t, <3>1 DEF BudgetTypes
    <3> QED
      BY <1>a, <2>1, <3>1, <3>2
<1>3. ASSUME NEW r \in Request, AuthFails(r) \/ UpstreamFails(r) \/ Crash(r) PROVE HandlerInv'
  <2>a. Handled(r) /\ Returned(r)
    BY <1>h
  <2>b. Handled(r)'
    <3>1. \E s \in {"done"} : st' = [st EXCEPT ![r] = s]
      BY <1>3 DEF AuthFails, UpstreamFails, Crash
    <3>2. UNCHANGED <<now, reservedAmount, reservedAt, released, entry>> /\ st[r] \notin {"new", "done", "refused"}
      BY <1>3 DEF AuthFails, UpstreamFails, Crash
    <3>3. st[r] \notin {"publishing", "done"} => r \notin released
      BY <2>a DEF Handled
    <3> QED
      BY <1>t, <2>a, <3>1, <3>2, <3>3, HandledMoves DEF HandlerStatus
  <2>c. Returned(r)'
    <3>1. (hit' = hit /\ r \in gone) \/ (\E f \in {"upstream", "crash"} : f \in hit')
      BY <1>3 DEF AuthFails, UpstreamFails, Crash
    <3>2. CASE ~(hit' \subseteq {"limits"})
      BY <3>2 DEF Returned
    <3>3. CASE hit' \subseteq {"limits"}
      <4>1. hit' = hit /\ r \in gone
        BY <3>1, <3>3
      <4> QED
        BY <1>t, <2>a, <4>1 DEF Returned, BudgetTypes
    <3> QED
      BY <3>2, <3>3
  <2>1. Handled(r)' /\ Returned(r)'
    BY <2>b, <2>c
  <2> QED
    BY <1>3, <1>b, <2>1 DEF AuthFails, UpstreamFails, Crash, HandlerStatus
<1>4. ASSUME NEW r \in Request, CallUpstream(r) PROVE HandlerInv'
  <2>1. Handled(r)' /\ Returned(r)'
    BY <1>4, <1>t, <1>h DEF CallUpstream, Handled, Returned, BudgetTypes
  <2> QED
    BY <1>4, <1>b, <2>1 DEF CallUpstream, HandlerStatus
<1>5. ASSUME NEW r \in Request, Disconnect(r) PROVE HandlerInv'
  <2>1. Handled(r)' /\ Returned(r)'
    BY <1>5, <1>t, <1>h DEF Disconnect, Handled, Returned, BudgetTypes
  <2> QED
    BY <1>5, <1>a, <2>1 DEF Disconnect
<1>6. ASSUME NEW r \in Request, UpstreamAnswers(r) PROVE HandlerInv'
  <2>1. Handled(r)' /\ Returned(r)'
    BY <1>6, <1>t, <1>h DEF UpstreamAnswers, Handled, Returned, BudgetTypes
  <2> QED
    <3>1. /\ UNCHANGED <<now, gone, reservedAmount, reservedAt, released, entry, uncounted, ledger, hit>>
          /\ st' = [st EXCEPT ![r] = "streaming"]
      BY <1>6 DEF UpstreamAnswers
    <3>2. \A q \in Request : q # r => st'[q] = st[q]
      BY <1>t, <3>1 DEF BudgetTypes
    <3> QED
      BY <1>a, <2>1, <3>1, <3>2
<1>7. ASSUME NEW r \in Request, BodyCut(r) \/ ResponseEnds(r) PROVE HandlerInv'
  <2>a. Handled(r) /\ Returned(r)
    BY <1>h
  <2>b. Handled(r)'
    <3>1. \E s \in {"done", "closing"} : st' = [st EXCEPT ![r] = s]
      BY <1>7 DEF BodyCut, ResponseEnds
    <3>2. UNCHANGED <<now, reservedAmount, reservedAt, released, entry>> /\ st[r] = "streaming"
      BY <1>7 DEF BodyCut, ResponseEnds
    <3>3. st[r] \notin {"publishing", "done"} => r \notin released
      BY <2>a DEF Handled
    <3> QED
      BY <1>t, <2>a, <3>1, <3>2, <3>3, HandledMoves DEF HandlerStatus
  <2>c. Returned(r)'
    <3>1. (UNCHANGED <<hit, gone, released, reservedAmount>> /\ st' = [st EXCEPT ![r] = "closing"]) \/ (\E f \in {"upstream"} : f \in hit')
      BY <1>7 DEF BodyCut, ResponseEnds
    <3>2. CASE ~(hit' \subseteq {"limits"})
      BY <3>2 DEF Returned
    <3>3. CASE hit' \subseteq {"limits"}
      <4>1. UNCHANGED <<hit, gone, released, reservedAmount>> /\ st' = [st EXCEPT ![r] = "closing"]
        BY <3>1, <3>3
      <4> QED
        BY <1>t, <2>a, <4>1 DEF Returned, BudgetTypes
    <3> QED
      BY <3>2, <3>3
  <2>1. Handled(r)' /\ Returned(r)'
    BY <2>b, <2>c
  <2> QED
    BY <1>7, <1>b, <2>1 DEF BodyCut, ResponseEnds, HandlerStatus
<1>8. ASSUME NEW r \in Request, ReleaseReservation(r) PROVE HandlerInv'
  <2>1. Handled(r)' /\ Returned(r)'
    BY <1>8, <1>t, <1>h DEF ReleaseReservation, Handled, Returned, BudgetTypes
  <2> QED
    <3>1. /\ UNCHANGED <<now, gone, reservedAmount, reservedAt, entry, uncounted, ledger, hit>>
          /\ st' = [st EXCEPT ![r] = "publishing"] /\ released' = released \cup {r}
      BY <1>8 DEF ReleaseReservation
    <3>2. \A q \in Request : q # r => st'[q] = st[q] /\ (q \in released' <=> q \in released)
      BY <1>t, <3>1 DEF BudgetTypes
    <3> QED
      BY <1>a, <2>1, <3>1, <3>2
<1>9. ASSUME NEW r \in Request, ReleaseLost(r) \/ PublishLost(r) PROVE HandlerInv'
  <2>a. Handled(r) /\ Returned(r)
    BY <1>h
  <2>b. Handled(r)'
    <3>1. \E s \in {"publishing", "done"} : st' = [st EXCEPT ![r] = s] /\ (st[r] = "publishing" => s = "done")
      BY <1>9 DEF ReleaseLost, PublishLost
    <3>2. UNCHANGED <<now, reservedAmount, reservedAt, released, entry>> /\ st[r] \in {"closing", "publishing"}
      BY <1>9 DEF ReleaseLost, PublishLost
    <3>3. st[r] \notin {"publishing", "done"} => r \notin released
      BY <2>a DEF Handled
    <3> QED
      BY <1>t, <2>a, <3>1, <3>2, <3>3, HandledMoves DEF HandlerStatus
  <2>c. Returned(r)'
    <3>1. (UNCHANGED <<hit, gone, released, reservedAmount>> /\ (Cancelled(r) \/ st[r] = "publishing")) \/ (\E f \in {"redis"} : f \in hit')
      BY <1>9 DEF ReleaseLost, PublishLost
    <3>2. CASE ~(hit' \subseteq {"limits"})
      BY <3>2 DEF Returned
    <3>3. CASE hit' \subseteq {"limits"}
      <4>1. UNCHANGED <<hit, gone, released, reservedAmount>> /\ (Cancelled(r) \/ st[r] = "publishing")
        BY <3>1, <3>3
      <4> QED
        BY <1>t, <2>a, <4>1 DEF Returned, BudgetTypes, Cancelled
    <3> QED
      BY <3>2, <3>3
  <2>1. Handled(r)' /\ Returned(r)'
    BY <2>b, <2>c
  <2> QED
    BY <1>9, <1>b, <2>1 DEF ReleaseLost, PublishLost, HandlerStatus
<1>10. ASSUME NEW r \in Request, PublishUsage(r) PROVE HandlerInv'
  <2>1. /\ UNCHANGED <<now, gone, reservedAmount, reservedAt, released, uncounted, ledger>> /\ hit \subseteq hit'
        /\ st[r] = "publishing" /\ st' = [st EXCEPT ![r] = "done"]
        /\ \/ entry' = [entry EXCEPT ![<<r, 1>>] = "queued"]
           \/ entry' = [entry EXCEPT ![<<r, 1>>] = "queued", ![<<r, 2>>] = "queued"] /\ "duplicate" \in hit'
    BY <1>10 DEF PublishUsage
  <2>2. \A e \in UsageEvent : e[1] = r => entry[e] = "none"
    <3>1. Handled(r) /\ st[r] # "done"
      BY <1>h, <2>1
    <3> QED
      BY <3>1 DEF Handled
  <2>3. \A e \in UsageEvent : entry'[e] # entry[e] => e[1] = r /\ entry'[e] = "queued" /\ (e[2] = 1 \/ "duplicate" \in hit')
    <3> SUFFICES ASSUME NEW e \in UsageEvent, entry'[e] # entry[e]
                 PROVE  e[1] = r /\ entry'[e] = "queued" /\ (e[2] = 1 \/ "duplicate" \in hit')
      OBVIOUS
    <3>1. entry \in [UsageEvent -> EntryStatus] /\ <<r, 1>> \in UsageEvent /\ <<r, 2>> \in UsageEvent
      BY <1>t, EventsAre DEF BudgetTypes
    <3> DEFINE x == <<r, 1>>
               y == <<r, 2>>
    <3>2. x[1] = r /\ x[2] = 1 /\ y[1] = r
      OBVIOUS
    <3>3. entry' = [entry EXCEPT ![x] = "queued"]
          \/ (entry' = [entry EXCEPT ![x] = "queued", ![y] = "queued"] /\ "duplicate" \in hit')
      BY <2>1
    <3> HIDE DEF x, y
    <3>4. (e = x \/ (e = y /\ "duplicate" \in hit')) /\ entry'[e] = "queued"
      BY ONLY <3>1, <3>3, e \in UsageEvent, entry'[e] # entry[e]
    <3> QED
      BY <3>2, <3>4
  <2>4. Handled(r)' /\ Returned(r)'
    BY <1>t, <1>h, <2>1 DEF Handled, Returned, BudgetTypes
  <2>5. \A q \in Request : q # r => Handled(q)' /\ Returned(q)'
    <3> SUFFICES ASSUME NEW q \in Request, q # r PROVE Handled(q)' /\ Returned(q)'
      OBVIOUS
    <3>1. now <= now' /\ st'[q] = st[q]
      BY <1>t, <2>1 DEF BudgetTypes
    <3>2. \A e \in UsageEvent : e[1] = q /\ entry'[e] # "none" => entry[e] # "none"
      BY <2>3
    <3> QED
      BY <1>t, <1>h, <2>1, <3>1, <3>2, HandledKept
  <2>6. ASSUME NEW e \in UsageEvent PROVE Settled(e)'
    <3>1. Settled(e) /\ CountersOf(e[1])' = CountersOf(e[1])
      BY <1>h, <1>d
    <3> QED
      BY <2>1, <2>2, <2>3, <3>1 DEF Settled
  <2> QED
    BY <1>t, <2>4, <2>5, <2>6 DEF HandlerInv
<1>11. ASSUME NEW e \in UsageEvent, CheckBudget(e) \/ CheckSkipped(e) PROVE HandlerInv'
  <2>1. /\ UNCHANGED <<now, handlerVars, uncounted, ledger>> /\ hit \subseteq hit' /\ entry[e] = "queued"
        /\ \E s \in {"over", "passed"} : entry' = [entry EXCEPT ![e] = s]
    BY <1>11 DEF CheckBudget, CheckSkipped, Take, StepEntry
  <2>2. \A x \in UsageEvent : entry'[x] # entry[x] => x = e /\ entry'[x] \in {"over", "passed"}
    BY <1>t, <2>1 DEF BudgetTypes
  <2>3. ASSUME NEW x \in UsageEvent PROVE Settled(x)'
    <3>1. Settled(x) /\ CountersOf(x[1])' = CountersOf(x[1])
      BY <1>h, <1>d
    <3> QED
      BY <2>1, <2>2, <3>1 DEF Settled
  <2> QED
    BY <1>c, <2>1, <2>2, <2>3
<1>12. ASSUME NEW e \in UsageEvent, WriteLedger(e) PROVE HandlerInv'
  <2>1. /\ UNCHANGED <<now, handlerVars, hit>> /\ entry[e] = "passed" /\ entry' = [entry EXCEPT ![e] = "written"]
        /\ uncounted' = [uncounted EXCEPT ![e] = CountersOf(e[1])]
        /\ ledger' = IF \E row \in ledger : row[1] = e[1] THEN ledger ELSE ledger \cup {e}
    BY <1>12 DEF WriteLedger, StepEntry
  <2>2. \A x \in UsageEvent : x # e => entry'[x] = entry[x] /\ uncounted'[x] = uncounted[x] /\ (x \in ledger' => x \in ledger)
    BY <1>t, <2>1 DEF BudgetTypes
  <2>3. entry'[e] = "written" /\ uncounted'[e] = CountersOf(e[1]) /\ ledger \subseteq ledger'
    BY <1>t, <2>1 DEF BudgetTypes
  <2>4. hit \subseteq {"limits"} => e \in ledger' /\ e[2] = 1
    <3> SUFFICES ASSUME hit \subseteq {"limits"}, e \notin ledger' PROVE FALSE
      BY <1>h, <2>1 DEF Settled
    <3>1. PICK row \in ledger : row[1] = e[1]
      BY <2>1
    <3>2. row \in UsageEvent /\ entry[row] = "written" /\ row[2] = 1 /\ e[2] = 1
      BY <1>t, <1>h, <2>1 DEF Settled, BudgetTypes
    <3> QED
      BY <2>1, <3>1, <3>2, EventsAre
  <2>5. ASSUME NEW x \in UsageEvent PROVE Settled(x)'
    <3>1. Settled(x) /\ CountersOf(x[1])' = CountersOf(x[1])
      BY <1>h, <1>d
    <3> QED
      BY <2>1, <2>2, <2>3, <2>4, <3>1 DEF Settled
  <2>6. \A x \in UsageEvent : entry'[x] # "none" => entry[x] # "none"
    BY <2>1, <2>2
  <2> QED
    BY <1>c, <2>1, <2>5, <2>6
<1>13. ASSUME NEW e \in UsageEvent, NEW c \in Counter, IncrementBudget(e, c) \/ IncrementLost(e, c) PROVE HandlerInv'
  <2>1. /\ UNCHANGED <<now, handlerVars, entry, ledger>> /\ hit \subseteq hit'
        /\ uncounted' = [uncounted EXCEPT ![e] = @ \ {c}]
    BY <1>13 DEF IncrementBudget, IncrementLost
  <2>2. \A x \in UsageEvent : uncounted'[x] \subseteq uncounted[x]
    BY <1>t, <2>1 DEF BudgetTypes
  <2>3. ASSUME NEW x \in UsageEvent PROVE Settled(x)'
    <3>1. Settled(x) /\ CountersOf(x[1])' = CountersOf(x[1]) /\ uncounted'[x] \subseteq uncounted[x]
      BY <1>h, <1>d, <2>2
    <3> QED
      BY <2>1, <3>1 DEF Settled
  <2> QED
    BY <1>c, <2>1, <2>3
<1>14. ASSUME NEW e \in UsageEvent, WorkerFails(e) PROVE HandlerInv'
  <2>1. /\ UNCHANGED <<now, handlerVars, ledger>> /\ hit \subseteq hit' /\ "crash" \in hit'
        /\ uncounted' = [uncounted EXCEPT ![e] = {}]
        /\ entry' = IF entry[e] = "written" THEN entry ELSE [entry EXCEPT ![e] = "left"]
        /\ entry[e] \in {"queued", "passed"} \/ uncounted[e] # {}
    BY <1>14 DEF WorkerFails, Take
  <2>2. /\ entry[e] # "none" /\ uncounted'[e] = {} /\ (entry[e] = "written" => entry'[e] = "written")
        /\ \A x \in UsageEvent : x # e => uncounted'[x] = uncounted[x] /\ entry'[x] = entry[x]
    BY <1>t, <1>h, <2>1 DEF BudgetTypes, Settled
  <2>3. ASSUME NEW x \in UsageEvent PROVE Settled(x)'
    <3>1. Settled(x) /\ CountersOf(x[1])' = CountersOf(x[1])
      BY <1>h, <1>d
    <3> QED
      BY <2>1, <2>2, <3>1 DEF Settled
  <2>4. \A x \in UsageEvent : entry'[x] # "none" => entry[x] # "none"
    BY <2>2
  <2> QED
    BY <1>c, <2>1, <2>3, <2>4
<1>15. CASE NextPeriod \/ UNCHANGED budgetVars
  <2>1. UNCHANGED <<handlerVars, entry, uncounted, ledger, hit>> /\ now <= now'
    BY <1>15, <1>t DEF NextPeriod, budgetVars, BudgetTypes
  <2>2. \A q \in Request : Handled(q)' /\ Returned(q)'
    BY <1>t, <1>h, <2>1, HandledKept
  <2>3. \A e \in UsageEvent : Settled(e)'
    BY <1>h, <2>1, SettledKept
  <2> QED
    BY <1>t, <2>2, <2>3 DEF HandlerInv
<1> QED
  BY <1>1, <1>2, <1>3, <1>4, <1>5, <1>6, <1>7, <1>8, <1>9, <1>10, <1>11, <1>12, <1>13, <1>14, <1>15
     DEF NextBudget, Handle, Settle

\* No counter is above the reservations made in this period and not returned;
\* while every command arrives in time it is their sum.
ReservedInv ==
  \A s \in Scope :
    /\ reserved[s] <= Sum(reservedAmount, Outstanding(s))
    /\ "redis" \notin hit /\ lateRelease = {} => reserved[s] = Sum(reservedAmount, Outstanding(s))

\* Sums of reservations are numbers.
LEMMA ReservedNat ==
  ASSUME BudgetTypes, NEW S \in SUBSET Request
  PROVE  /\ IsFiniteSet(S) /\ Sum(reservedAmount, S) \in Nat
         /\ \A r \in S : reservedAmount[r] \in Nat
<1>1. IsFiniteSet(S)
  BY FS_Subset, BudgetAssumption
<1>2. \A r \in S : reservedAmount[r] \in Nat
  BY DEF BudgetTypes
<1> QED
  BY <1>1, <1>2, SumNat

\* A reservation joins those outstanding in its scopes.
LEMMA ReserveAdds ==
  ASSUME BudgetTypes, BudgetTypes', NEW r \in Request, NEW s \in Scope, reservedAmount[r] = 0, r \notin released,
         reservedAmount' = [reservedAmount EXCEPT ![r] = ReserveOf[r]],
         reservedAt' = [reservedAt EXCEPT ![r] = now], now' = now, released' = released
  PROVE  /\ s \in ScopesOf(r) => (Sum(reservedAmount, Outstanding(s)))' = Sum(reservedAmount, Outstanding(s)) + ReserveOf[r]
         /\ s \notin ScopesOf(r) => (Sum(reservedAmount, Outstanding(s)))' = Sum(reservedAmount, Outstanding(s))
<1> DEFINE O == Outstanding(s)
           P == O \ {r}
           f == reservedAmount
           g == reservedAmount'
<1>0. P \in SUBSET Request /\ O \in SUBSET Request
  BY DEF Outstanding
<1>1. s \in ScopesOf(r) => Outstanding(s)' = P \cup {r}
  BY DEF Outstanding, BudgetTypes, ScopesOf
<1>a. s \notin ScopesOf(r) => Outstanding(s)' = P /\ O = P
  BY DEF Outstanding, BudgetTypes, ScopesOf
<1>2. IsFiniteSet(P) /\ IsFiniteSet(O)
  BY <1>0, ReservedNat
<1>3. \A q \in Request : f[q] \in Int /\ g[q] \in Int /\ (q # r => f[q] = g[q])
  BY DEF BudgetTypes
<1>4. f[r] = 0 /\ g[r] = ReserveOf[r] /\ ReserveOf[r] \in Nat
  BY BudgetAssumption DEF BudgetTypes
<1>5. P \in SUBSET O /\ r \notin P /\ \A q \in O \ P : q = r
  OBVIOUS
<1> HIDE DEF P, O, f, g
<1>6. Sum(f, O) = Sum(f, P)
  BY <1>0, <1>2, <1>3, <1>4, <1>5, SumZeros
<1>7. Sum(g, P \cup {r}) = Sum(g, P) + g[r]
  BY <1>0, <1>2, <1>3, <1>5, SumAdd
<1>8. Sum(f, P) = Sum(g, P)
  BY <1>0, <1>2, <1>3, <1>5, SumSame
<1>9. Sum(g, P \cup {r}) = Sum(f, O) + ReserveOf[r]
  BY <1>4, <1>6, <1>7, <1>8
<1> QED
  BY <1>1, <1>a, <1>8, <1>9 DEF O, g, f

\* Every step keeps ReservedInv.
LEMMA ReservedStep == HandlerInv /\ ReservedInv /\ [NextBudget]_budgetVars => ReservedInv'
<1> USE DEF handlerVars, usageVars, faultVars, Goto, StepTo, Fault
<1> SUFFICES ASSUME HandlerInv, ReservedInv, [NextBudget]_budgetVars PROVE ReservedInv'
  OBVIOUS
<1>t. BudgetTypes /\ BudgetTypes'
  BY BudgetTypesStep DEF HandlerInv
<1>h. \A q \in Request : Handled(q)
  BY DEF HandlerInv
<1>n. \A s \in Scope :
        /\ Sum(reservedAmount, Outstanding(s)) \in Nat /\ Outstanding(s) \in SUBSET Request
        /\ IsFiniteSet(Outstanding(s)) /\ reserved[s] \in Int
  <2>1. \A s \in Scope : Outstanding(s) \in SUBSET Request
    BY DEF Outstanding
  <2> QED
    BY <1>t, <2>1, ReservedNat DEF BudgetTypes
\* A step that neither reserves nor returns anything.
<1>a. UNCHANGED <<reserved, reservedAmount, reservedAt, released, lateRelease, now>> /\ hit \subseteq hit' => ReservedInv'
  <2> SUFFICES ASSUME UNCHANGED <<reserved, reservedAmount, reservedAt, released, lateRelease, now>>, hit \subseteq hit'
               PROVE  ReservedInv'
    OBVIOUS
  <2>1. \A s \in Scope : Outstanding(s)' = Outstanding(s)
    BY DEF Outstanding, ScopesOf
  <2> QED
    BY <2>1 DEF ReservedInv
<1>1. ASSUME NEW r \in Request, ReserveSpend(r) PROVE ReservedInv'
  <2> SUFFICES ASSUME NEW s \in Scope
               PROVE  /\ (reserved[s] <= Sum(reservedAmount, Outstanding(s)))'
                      /\ "redis" \notin hit' /\ lateRelease' = {} =>
                           (reserved[s] = Sum(reservedAmount, Outstanding(s)))'
    BY DEF ReservedInv
  <2>0. reservedAmount[r] = 0 /\ r \notin released
    <3>1. Handled(r) /\ st[r] = "checked"
      BY <1>1, <1>h DEF ReserveSpend
    <3> QED
      BY <3>1 DEF Handled
  <2>1. /\ s \in ScopesOf(r) => (Sum(reservedAmount, Outstanding(s)))' = Sum(reservedAmount, Outstanding(s)) + ReserveOf[r]
        /\ s \notin ScopesOf(r) => (Sum(reservedAmount, Outstanding(s)))' = Sum(reservedAmount, Outstanding(s))
    BY <1>1, <1>t, <2>0, ReserveAdds DEF ReserveSpend
  <2>2. ReserveOf[r] \in Nat
    BY BudgetAssumption
  <2>3. reserved'[s] = IF s \in ScopesOf(r) THEN reserved[s] + ReserveOf[r] ELSE reserved[s]
    BY <1>1 DEF ReserveSpend, Reserving
  <2>4. UNCHANGED <<hit, lateRelease>>
    BY <1>1 DEF ReserveSpend
  <2>5. CASE s \in ScopesOf(r)
    BY <1>n, <2>1, <2>2, <2>3, <2>4, <2>5 DEF ReservedInv
  <2>6. CASE s \notin ScopesOf(r)
    BY <1>n, <2>1, <2>2, <2>3, <2>4, <2>6 DEF ReservedInv
  <2> QED
    BY <2>5, <2>6
<1>2. ASSUME NEW r \in Request, ReserveLost(r) PROVE ReservedInv'
  <2> SUFFICES ASSUME NEW s \in Scope
               PROVE  (reserved[s] <= Sum(reservedAmount, Outstanding(s)))'
    BY <1>2 DEF ReservedInv, ReserveLost
  <2>0. reservedAmount[r] = 0 /\ r \notin released
    <3>1. Handled(r) /\ st[r] = "checked"
      BY <1>2, <1>h DEF ReserveLost
    <3> QED
      BY <3>1 DEF Handled
  <2>1. /\ s \in ScopesOf(r) => (Sum(reservedAmount, Outstanding(s)))' = Sum(reservedAmount, Outstanding(s)) + ReserveOf[r]
        /\ s \notin ScopesOf(r) => (Sum(reservedAmount, Outstanding(s)))' = Sum(reservedAmount, Outstanding(s))
    BY <1>2, <1>t, <2>0, ReserveAdds DEF ReserveLost
  <2>2. ReserveOf[r] \in Nat /\ reserved' = reserved
    BY <1>2, BudgetAssumption DEF ReserveLost
  <2> QED
    BY <1>n, <2>1, <2>2 DEF ReservedInv
<1>3. ASSUME NEW r \in Request, ReleaseReservation(r) PROVE ReservedInv'
  <2> SUFFICES ASSUME NEW s \in Scope
               PROVE  /\ (reserved[s] <= Sum(reservedAmount, Outstanding(s)))'
                      /\ "redis" \notin hit' /\ lateRelease' = {} =>
                           (reserved[s] = Sum(reservedAmount, Outstanding(s)))'
    BY DEF ReservedInv
  <2>1. /\ reserved'[s] = IF s \in ScopesOf(r) THEN reserved[s] + (0 - reservedAmount[r]) ELSE reserved[s]
        /\ UNCHANGED <<reservedAmount, reservedAt, now, hit>> /\ released' = released \cup {r}
        /\ lateRelease' = IF reservedAt[r] # now THEN lateRelease \cup {r} ELSE lateRelease
    BY <1>3 DEF ReleaseReservation, Reserving
  <2>a. reservedAmount[r] \in Nat
    BY <1>t DEF BudgetTypes
  <2>2. r \notin released
    <3>1. Handled(r) /\ st[r] = "closing"
      BY <1>3, <1>h DEF ReleaseReservation
    <3> QED
      BY <3>1 DEF Handled
  <2>3. CASE reservedAt[r] = now /\ s \in ScopesOf(r)
    <3>1. r \in Outstanding(s) /\ Outstanding(s)' = Outstanding(s) \ {r}
      BY <2>1, <2>2, <2>3 DEF Outstanding, ScopesOf
    <3>2. \A q \in Outstanding(s) : reservedAmount[q] \in Int
      BY <1>n, <1>t DEF BudgetTypes
    <3>3. Sum(reservedAmount, Outstanding(s) \ {r}) = Sum(reservedAmount, Outstanding(s)) - reservedAmount[r]
      BY <1>n, <3>1, <3>2, SumRemove
    <3>4. (Sum(reservedAmount, Outstanding(s)))' = Sum(reservedAmount, Outstanding(s)) - reservedAmount[r]
      BY <2>1, <3>1, <3>3
    <3>5. lateRelease' = lateRelease
      BY <2>1, <2>3
    <3> QED
      BY <1>n, <2>1, <2>a, <2>3, <3>4, <3>5 DEF ReservedInv
  <2>4. CASE ~(reservedAt[r] = now /\ s \in ScopesOf(r))
    <3>1. Outstanding(s)' = Outstanding(s)
      BY <2>1, <2>4 DEF Outstanding, ScopesOf
    <3>2. reservedAt[r] # now => lateRelease' # {}
      BY <2>1
    <3>3. reservedAt[r] = now => lateRelease' = lateRelease /\ s \notin ScopesOf(r)
      BY <2>1, <2>4
    <3>4. (Sum(reservedAmount, Outstanding(s)))' = Sum(reservedAmount, Outstanding(s)) /\ reserved'[s] <= reserved[s]
      BY <1>n, <2>1, <2>a, <3>1
    <3>5. CASE reservedAt[r] # now
      BY <1>n, <1>t, <3>2, <3>4, <3>5 DEF ReservedInv, BudgetTypes
    <3>6. CASE reservedAt[r] = now
      BY <1>n, <2>1, <3>3, <3>4, <3>6 DEF ReservedInv
    <3> QED
      BY <3>5, <3>6
  <2> QED
    BY <2>3, <2>4
<1>4. CASE NextPeriod
  <2> SUFFICES ASSUME NEW s \in Scope PROVE (reserved[s] = Sum(reservedAmount, Outstanding(s)))' /\ reserved'[s] = 0
    BY DEF ReservedInv
  <2>1. Outstanding(s)' = {}
    <3>1. \A r \in Request : reservedAt'[r] # now'
      BY <1>4, <1>t, <1>h DEF NextPeriod, Handled, BudgetTypes
    <3> QED
      BY <3>1 DEF Outstanding
  <2>2. (Sum(reservedAmount, Outstanding(s)))' = 0
    BY <2>1, SumEmpty
  <2> QED
    BY <1>4, <2>2 DEF NextPeriod
<1>5. ASSUME NEW r \in Request,
             \/ Reject(r) \/ PreCheckBudget(r) \/ PreCheckFails(r) \/ AuthFails(r) \/ CallUpstream(r) \/ Disconnect(r)
             \/ UpstreamFails(r) \/ UpstreamAnswers(r) \/ BodyCut(r) \/ ResponseEnds(r) \/ ReleaseLost(r)
             \/ PublishUsage(r) \/ PublishLost(r) \/ Crash(r)
      PROVE  ReservedInv'
  BY <1>5, <1>a DEF Reject, PreCheckBudget, PreCheckFails, AuthFails, CallUpstream, Disconnect, UpstreamFails,
     UpstreamAnswers, BodyCut, ResponseEnds, ReleaseLost, PublishUsage, PublishLost, Crash
<1>6. ASSUME NEW e \in UsageEvent, Settle(e) PROVE ReservedInv'
  BY <1>6, <1>a DEF Settle, CheckBudget, CheckSkipped, WriteLedger, IncrementBudget, IncrementLost, WorkerFails
<1>7. CASE UNCHANGED budgetVars
  BY <1>7, <1>a DEF budgetVars
<1> QED
  BY <1>1, <1>2, <1>3, <1>4, <1>5, <1>6, <1>7 DEF NextBudget, Handle

\* The entries a counter of the present period has counted: written, and not
\* among those whose increment is still to come or was lost with its worker.
Counted(c) ==
  {e \in UsageEvent : /\ entry[e] = "written" /\ c \in CountersOf(e[1]) \ uncounted[e]
                      /\ usageAt[e[1]] = now}

\* No spend counter is above what was written for it.
SpendInv ==
  \A c \in Counter :
    /\ c \notin present => spend[c] = 0
    /\ spend[c] <= Sum(UsageOf, Counted(c))

\* Sums of usage are numbers, and grow with their set.
LEMMA UsageNat ==
  ASSUME BudgetTypes, NEW S \in SUBSET UsageEvent
  PROVE  /\ IsFiniteSet(S) /\ Sum(UsageOf, S) \in Nat
         /\ \A e \in UsageEvent : UsageOf[e] = usage[e[1]] /\ UsageOf[e] \in Nat
         /\ \A T \in SUBSET S : Sum(UsageOf, T) \in Nat /\ Sum(UsageOf, T) <= Sum(UsageOf, S)
<1>1. IsFiniteSet(UsageEvent)
  <2>1. IsFiniteSet({1, 2})
    <3>1. IsFiniteSet({} \cup {1})
      BY FS_EmptySet, FS_AddElement
    <3>2. IsFiniteSet(({} \cup {1}) \cup {2})
      BY <3>1, FS_AddElement
    <3>3. {1, 2} = ({} \cup {1}) \cup {2}
      OBVIOUS
    <3> QED
      BY <3>2, <3>3
  <2> QED
    BY <2>1, FS_Product, BudgetAssumption DEF UsageEvent
<1>2. IsFiniteSet(S)
  BY <1>1, FS_Subset
<1>3. \A e \in UsageEvent : UsageOf[e] = usage[e[1]] /\ UsageOf[e] \in Nat
  BY EventsAre DEF UsageOf, BudgetTypes
<1> QED
  BY <1>2, <1>3, SumNat

\* A counter that no step touches stays within what was written, which does
\* not shrink.
LEMMA CountedGrows ==
  ASSUME BudgetTypes, BudgetTypes', SpendInv, UNCHANGED <<present, spend>>,
         \A c \in Counter : Counted(c) \subseteq Counted(c)',
         \A c \in Counter : \A e \in Counted(c) : usage'[e[1]] = usage[e[1]]
  PROVE  SpendInv'
<1> SUFFICES ASSUME NEW c \in Counter PROVE (spend[c] <= Sum(UsageOf, Counted(c)))'
  BY DEF SpendInv
<1>1. Counted(c) \in SUBSET UsageEvent /\ Counted(c)' \in SUBSET UsageEvent
  BY DEF Counted
<1>2. Sum(UsageOf, Counted(c)) = Sum(UsageOf', Counted(c))
  <2>1. \A e \in Counted(c) : UsageOf[e] = UsageOf'[e]
    BY <1>1 DEF UsageOf
  <2> QED
    BY <1>1, <2>1, UsageNat, SumSame
<1>3. Sum(UsageOf', Counted(c)) <= Sum(UsageOf', Counted(c)')
  <2>1. (\A e \in UsageEvent : UsageOf[e] \in Nat)' /\ IsFiniteSet(Counted(c)')
    <3>1. (\A e \in UsageEvent : UsageOf[e] \in Nat)'
      BY EventsAre DEF UsageOf, BudgetTypes
    <3> QED
      BY <1>1, <3>1, UsageNat
  <2> QED
    BY <1>1, <2>1, SumNat
<1>4. Sum(UsageOf, Counted(c)) \in Nat /\ Sum(UsageOf', Counted(c)') \in Nat
  <2>1. (\A e \in UsageEvent : UsageOf[e] \in Nat)'
    BY EventsAre DEF UsageOf, BudgetTypes
  <2> QED
    BY <1>1, <2>1, UsageNat, SumNat
<1>5. spend'[c] = spend[c] /\ spend[c] \in Nat /\ spend[c] <= Sum(UsageOf, Counted(c))
  BY DEF SpendInv, BudgetTypes
<1>6. spend'[c] <= Sum(UsageOf', Counted(c)')
  BY <1>2, <1>3, <1>4, <1>5
<1> QED
  BY <1>6

\* Every step keeps SpendInv.
LEMMA SpendStep == HandlerInv /\ SpendInv /\ [NextBudget]_budgetVars => SpendInv'
<1> USE DEF handlerVars, usageVars, settleVars, faultVars, Goto, StepTo, StepEntry, Fault
<1> SUFFICES ASSUME HandlerInv, SpendInv, [NextBudget]_budgetVars PROVE SpendInv'
  OBVIOUS
<1>t. BudgetTypes /\ BudgetTypes'
  BY BudgetTypesStep DEF HandlerInv
<1>h. /\ \A q \in Request : Handled(q)
      /\ \A e \in UsageEvent : Settled(e)
  BY DEF HandlerInv
<1>d. \A e \in UsageEvent : CountersOf(e[1])' = CountersOf(e[1])
  BY DEF CountersOf, ScopesOf, Matches
\* A step of a handler: what was written keeps its usage.
<1>a. ASSUME UNCHANGED <<now, uncounted, present, spend>>,
             \A e \in UsageEvent : entry[e] = "written" =>
               entry'[e] = "written" /\ usage'[e[1]] = usage[e[1]] /\ usageAt'[e[1]] = usageAt[e[1]]
      PROVE  SpendInv'
  <2>1. \A c \in Counter : Counted(c) \subseteq Counted(c)'
    BY <1>a, <1>d DEF Counted
  <2>2. \A c \in Counter : \A e \in Counted(c) : usage'[e[1]] = usage[e[1]]
    BY <1>a DEF Counted
  <2> QED
    BY <1>a, <1>t, <2>1, <2>2, CountedGrows
<1>1. ASSUME NEW r \in Request,
             \/ Reject(r) \/ PreCheckBudget(r) \/ PreCheckFails(r) \/ ReserveSpend(r) \/ ReserveLost(r) \/ AuthFails(r)
             \/ Disconnect(r) \/ UpstreamFails(r) \/ ReleaseReservation(r) \/ ReleaseLost(r)
             \/ PublishLost(r) \/ Crash(r)
      PROVE  SpendInv'
  BY <1>1, <1>a DEF Reject, PreCheckBudget, PreCheckFails, ReserveSpend, ReserveLost, AuthFails, Disconnect,
     UpstreamFails, ReleaseReservation, ReleaseLost, PublishLost, Crash
<1>2. ASSUME NEW r \in Request, CallUpstream(r) \/ UpstreamAnswers(r) \/ BodyCut(r) \/ ResponseEnds(r)
      PROVE  SpendInv'
  <2>1. Handled(r) /\ st[r] # "done"
    BY <1>2, <1>h DEF CallUpstream, UpstreamAnswers, BodyCut, ResponseEnds
  <2>2. \A e \in UsageEvent : e[1] = r => entry[e] = "none"
    BY <2>1 DEF Handled
  <2>3. \A q \in Request : q # r => usage'[q] = usage[q] /\ usageAt'[q] = usageAt[q]
    BY <1>2, <1>t DEF CallUpstream, UpstreamAnswers, BodyCut, ResponseEnds, BudgetTypes
  <2>4. UNCHANGED <<now, entry, uncounted, present, spend>>
    BY <1>2 DEF CallUpstream, UpstreamAnswers, BodyCut, ResponseEnds
  <2> QED
    BY <1>a, <2>2, <2>3, <2>4, EventsAre
<1>3. ASSUME NEW r \in Request, PublishUsage(r) PROVE SpendInv'
  <2>1. Handled(r) /\ st[r] = "publishing" /\ UNCHANGED <<now, usageAt, usage, uncounted, present, spend>>
    BY <1>3, <1>h DEF PublishUsage
  <2>2. \A e \in UsageEvent : e[1] = r => entry[e] = "none"
    BY <2>1 DEF Handled
  <2>3. \A e \in UsageEvent : entry[e] = "written" => e # <<r, 1>> /\ e # <<r, 2>>
    BY <2>2, EventsAre
  <2>4. \A e \in UsageEvent : entry[e] = "written" => entry'[e] = "written"
    BY <1>3, <1>t, <2>3 DEF PublishUsage, BudgetTypes
  <2> QED
    BY <1>a, <2>1, <2>4
<1>4. ASSUME NEW e \in UsageEvent, CheckBudget(e) \/ CheckSkipped(e) PROVE SpendInv'
  <2>1. UNCHANGED <<now, usageAt, usage, uncounted, present, spend>> /\ entry[e] = "queued"
        /\ \E s \in EntryStatus : entry' = [entry EXCEPT ![e] = s]
    BY <1>4 DEF CheckBudget, CheckSkipped, Take, EntryStatus
  <2>2. \A x \in UsageEvent : entry[x] = "written" => entry'[x] = "written"
    BY <1>t, <2>1 DEF BudgetTypes
  <2> QED
    BY <1>a, <2>1, <2>2
<1>5. ASSUME NEW e \in UsageEvent, WriteLedger(e) PROVE SpendInv'
  <2>1. /\ UNCHANGED <<now, usageAt, usage, present, spend>> /\ entry[e] = "passed"
        /\ entry' = [entry EXCEPT ![e] = "written"]
        /\ uncounted' = [uncounted EXCEPT ![e] = CountersOf(e[1])]
    BY <1>5 DEF WriteLedger
  <2>2. \A x \in UsageEvent : entry[x] = "written" =>
          x # e /\ entry'[x] = "written" /\ uncounted'[x] = uncounted[x]
    BY <1>t, <2>1 DEF BudgetTypes
  <2>3. \A c \in Counter : Counted(c) \subseteq Counted(c)'
    BY <1>d, <2>1, <2>2 DEF Counted
  <2> QED
    BY <1>t, <2>1, <2>3, CountedGrows
<1>6. ASSUME NEW e \in UsageEvent, NEW c \in Counter, IncrementLost(e, c) PROVE SpendInv'
  <2>1. /\ UNCHANGED <<now, usageAt, usage, entry, present, spend>>
        /\ uncounted' = [uncounted EXCEPT ![e] = @ \ {c}]
    BY <1>6 DEF IncrementLost
  <2>2. \A x \in UsageEvent : uncounted'[x] \subseteq uncounted[x]
    BY <1>t, <2>1 DEF BudgetTypes
  <2>3. \A d \in Counter : Counted(d) \subseteq Counted(d)'
    BY <1>d, <2>1, <2>2 DEF Counted
  <2> QED
    BY <1>t, <2>1, <2>3, CountedGrows
<1>7. ASSUME NEW e \in UsageEvent, WorkerFails(e) PROVE SpendInv'
  <2>1. /\ UNCHANGED <<now, usageAt, usage, present, spend>>
        /\ entry' = IF entry[e] = "written" THEN entry ELSE [entry EXCEPT ![e] = "left"]
        /\ uncounted' = [uncounted EXCEPT ![e] = {}]
    BY <1>7 DEF WorkerFails
  <2>2. \A x \in UsageEvent : uncounted'[x] \subseteq uncounted[x] /\ (entry[x] = "written" => entry'[x] = "written")
    BY <1>t, <2>1 DEF BudgetTypes
  <2>3. \A d \in Counter : Counted(d) \subseteq Counted(d)'
    BY <1>d, <2>1, <2>2 DEF Counted
  <2> QED
    BY <1>t, <2>1, <2>3, CountedGrows
<1>8. ASSUME NEW e \in UsageEvent, NEW c \in Counter, IncrementBudget(e, c) PROVE SpendInv'
  <2>1. /\ UNCHANGED <<now, usageAt, usage, entry>> /\ c \in uncounted[e]
        /\ uncounted' = [uncounted EXCEPT ![e] = @ \ {c}]
        /\ IF usageAt[e[1]] = now
           THEN spend' = [spend EXCEPT ![c] = @ + usage[e[1]]] /\ present' = present \cup {c}
           ELSE UNCHANGED <<present, spend>>
    BY <1>8 DEF IncrementBudget
  <2>2. \A x \in UsageEvent : uncounted'[x] \subseteq uncounted[x]
    BY <1>t, <2>1 DEF BudgetTypes
  <2>3. \A d \in Counter : Counted(d) \subseteq Counted(d)'
    BY <1>d, <2>1, <2>2 DEF Counted
  <2>4. CASE usageAt[e[1]] # now
    BY <1>t, <2>1, <2>3, <2>4, CountedGrows
  <2>5. CASE usageAt[e[1]] = now
    <3> SUFFICES ASSUME NEW d \in Counter
                 PROVE  /\ d \notin present' => spend'[d] = 0
                        /\ spend'[d] <= Sum(UsageOf, Counted(d)')
      BY <2>1 DEF SpendInv, UsageOf
    <3>1. Counted(d) \in SUBSET UsageEvent /\ Counted(d)' \in SUBSET UsageEvent
      BY DEF Counted
    <3>2. Sum(UsageOf, Counted(d)) \in Nat /\ Sum(UsageOf, Counted(d)') \in Nat
          /\ Sum(UsageOf, Counted(d)) <= Sum(UsageOf, Counted(d)')
      BY <1>t, <2>3, <3>1, UsageNat
    <3>3. /\ spend[d] \in Nat /\ spend[d] <= Sum(UsageOf, Counted(d)) /\ (d \notin present => spend[d] = 0)
          /\ usage[e[1]] \in Nat
      BY <1>t, EventsAre DEF SpendInv, BudgetTypes
    <3>4. CASE d # c
      <4>1. spend'[d] = spend[d] /\ (d \in present' <=> d \in present)
        BY <1>t, <2>1, <2>5, <3>4 DEF BudgetTypes
      <4> QED
        BY <3>2, <3>3, <4>1
    <3>5. CASE d = c
      <4>1. spend'[c] = spend[c] + usage[e[1]] /\ c \in present'
        BY <1>t, <2>1, <2>5 DEF BudgetTypes
      <4>2. Counted(c)' = Counted(c) \cup {e} /\ e \notin Counted(c)
        <5>1. Settled(e)
          BY <1>h
        <5>2. entry[e] = "written" /\ c \in CountersOf(e[1])
          BY <2>1, <5>1 DEF Settled
        <5>3. uncounted'[e] = uncounted[e] \ {c} /\ \A x \in UsageEvent : x # e => uncounted'[x] = uncounted[x]
          BY <1>t, <2>1 DEF BudgetTypes
        <5> QED
          BY <1>d, <2>1, <2>5, <5>2, <5>3 DEF Counted
      <4>3. Sum(UsageOf, Counted(c) \cup {e}) = Sum(UsageOf, Counted(c)) + UsageOf[e]
        <5>1. IsFiniteSet(Counted(c)) /\ \A x \in Counted(c) \cup {e} : UsageOf[x] \in Int
          BY <1>t, <3>1, <3>5, UsageNat
        <5> QED
          BY <4>2, <5>1, SumAdd
      <4>4. UsageOf[e] = usage[e[1]]
        BY <1>t, <3>1, UsageNat
      <4> QED
        BY <3>2, <3>3, <3>5, <4>1, <4>2, <4>3, <4>4
    <3> QED
      BY <3>4, <3>5
  <2> QED
    BY <2>4, <2>5
<1>9. CASE NextPeriod
  <2>1. \A c \in Counter : spend'[c] = 0
    BY <1>9 DEF NextPeriod
  <2>2. \A c \in Counter : Sum(UsageOf, Counted(c)') \in Nat
    <3>1. \A c \in Counter : Counted(c)' \in SUBSET UsageEvent
      BY DEF Counted
    <3> QED
      BY <1>t, <3>1, UsageNat
  <2>3. UsageOf' = UsageOf
    BY <1>9 DEF NextPeriod, UsageOf
  <2>4. \A c \in Counter : spend'[c] <= Sum(UsageOf', Counted(c)')
    BY <2>1, <2>2, <2>3
  <2> QED
    BY <2>1, <2>4 DEF SpendInv
<1>10. CASE UNCHANGED budgetVars
  BY <1>10, <1>a DEF budgetVars
<1> QED
  BY <1>1, <1>2, <1>3, <1>4, <1>5, <1>6, <1>7, <1>8, <1>9, <1>10 DEF NextBudget, Handle, Settle

BudgetInv == HandlerInv /\ ReservedInv /\ SpendInv

\* Initially nothing is reserved or spent.
LEMMA BudgetInit == InitBudget => BudgetInv
<1> SUFFICES ASSUME InitBudget PROVE BudgetInv
  OBVIOUS
<1>1. HandlerInv
  BY HandlerInit
<1>2. ASSUME NEW s \in Scope PROVE Sum(reservedAmount, Outstanding(s)) = 0
  <2>1. /\ {} \in SUBSET Outstanding(s) /\ IsFiniteSet(Outstanding(s))
        /\ \A r \in Outstanding(s) : reservedAmount[r] \in Int /\ reservedAmount[r] = 0
    <3>1. Outstanding(s) \in SUBSET Request
      BY DEF Outstanding
    <3> QED
      BY <1>1, <3>1, ReservedNat DEF InitBudget, HandlerInv
  <2>2. Sum(reservedAmount, Outstanding(s)) = Sum(reservedAmount, {})
    BY <2>1, SumZeros
  <2> QED
    BY <2>2, SumEmpty
<1>3. ReservedInv
  BY <1>2 DEF InitBudget, ReservedInv
<1>4. \A c \in Counter : spend[c] = 0 /\ Counted(c) = {}
  BY DEF InitBudget, Counted
<1>5. SpendInv
  BY <1>4, SumEmpty DEF SpendInv
<1> QED
  BY <1>1, <1>3, <1>5 DEF BudgetInv

LEMMA BudgetStep == BudgetInv /\ [NextBudget]_budgetVars => BudgetInv'
  BY HandledStep, ReservedStep, SpendStep DEF BudgetInv

\* Without lost commands and late releases each reservation counter is the sum
\* of the reservations of this period that nobody returned, in every scope,
\* for every set of requests and however their handlers fail.
THEOREM ReservationsAreConserved == SpecBudget => []ReservationsConserved
<1>1. BudgetInv => ReservationsConserved
  BY DEF BudgetInv, ReservedInv, ReservationsConserved
<1> QED
  BY <1>1, BudgetInit, BudgetStep, PTL DEF SpecBudget

\* What a check reads is at most what was charged to the limit's budget.
LEMMA SpendCharged ==
  ASSUME BudgetInv, NEW l \in Limits, NEW t \in Nat
  PROVE  /\ GetSpend(l.scope, l.provider, t) \in Nat /\ Sum(UsageOf, ChargedTo(l, t)) \in Nat
         /\ GetSpend(l.scope, l.provider, t) <= Sum(UsageOf, ChargedTo(l, t))
<1>t. BudgetTypes /\ \A e \in UsageEvent : Settled(e)
  BY DEF BudgetInv, HandlerInv
<1> DEFINE c == <<l.scope, l.provider>>
           R == {e \in ledger : Matches(l.provider, e[1]) /\ usageAt[e[1]] >= t}
<1>1. ChargedTo(l, t) \in SUBSET UsageEvent
  BY DEF ChargedTo
<1>2. Sum(UsageOf, ChargedTo(l, t)) \in Nat
      /\ \A T \in SUBSET ChargedTo(l, t) : Sum(UsageOf, T) \in Nat /\ Sum(UsageOf, T) <= Sum(UsageOf, ChargedTo(l, t))
  BY <1>t, <1>1, UsageNat
<1>3. CASE t = now /\ c \in present
  <2>1. c \in Counter /\ spend[c] \in Nat /\ spend[c] <= Sum(UsageOf, Counted(c))
    BY <1>t, <1>3 DEF BudgetInv, SpendInv, BudgetTypes
  <2>2. Counted(c) \in SUBSET ChargedTo(l, t)
    BY <1>t, <1>3 DEF Counted, CountersOf, ChargedTo, Applies, BudgetTypes
  <2>3. GetSpend(l.scope, l.provider, t) = spend[c]
    BY <1>3 DEF GetSpend
  <2> HIDE DEF c
  <2>4. Sum(UsageOf, Counted(c)) \in Nat /\ Sum(UsageOf, Counted(c)) <= Sum(UsageOf, ChargedTo(l, t))
    BY <1>2, <2>2
  <2> QED
    BY <1>2, <2>1, <2>3, <2>4
<1>4. CASE ~(t = now /\ c \in present) /\ l.scope = Account
  <2>1. R \in SUBSET ChargedTo(l, t)
    <3>1. \A e \in ledger : e \in UsageEvent /\ entry[e] = "written"
      BY <1>t DEF Settled, BudgetTypes
    <3> QED
      BY <1>4, <3>1 DEF ChargedTo, Applies, ScopesOf
  <2>2. GetSpend(l.scope, l.provider, t) = Sum(UsageOf, R)
    BY <1>4 DEF GetSpend, LedgerSince
  <2> QED
    BY <1>2, <2>1, <2>2
<1>5. CASE ~(t = now /\ c \in present) /\ l.scope # Account
  BY <1>2, <1>5 DEF GetSpend
<1> QED
  BY <1>3, <1>4, <1>5

\* Until something fails, all that is outstanding is held by requests in
\* flight, and all that was written is in the ledger.
LEMMA OutstandingInFlight ==
  ASSUME BudgetInv, hit \subseteq {"limits"}
  PROVE  /\ \A s \in Scope : Sum(reservedAmount, Outstanding(s)) = Sum(reservedAmount, InFlight(s))
         /\ \A l \in Limits, t \in Nat : ChargedTo(l, t) \cap ledger = ChargedTo(l, t)
<1>1. BudgetTypes /\ (\A r \in Request : Handled(r) /\ Returned(r)) /\ (\A e \in UsageEvent : Settled(e))
  BY DEF BudgetInv, HandlerInv
<1>2. ASSUME NEW s \in Scope PROVE Sum(reservedAmount, Outstanding(s)) = Sum(reservedAmount, InFlight(s))
  <2>1. Outstanding(s) \in SUBSET Request /\ InFlight(s) \in SUBSET Outstanding(s)
    BY DEF Outstanding, InFlight
  <2>2. IsFiniteSet(Outstanding(s)) /\ \A r \in Outstanding(s) : reservedAmount[r] \in Int
    BY <1>1, <2>1, ReservedNat
  <2>3. ASSUME NEW r \in Outstanding(s), r \notin InFlight(s) PROVE reservedAmount[r] = 0
    <3>1. r \in Request /\ r \notin released /\ st[r] \notin {"reserved", "calling", "streaming", "closing"}
      BY <2>3 DEF Outstanding, InFlight
    <3>2. st[r] \in HandlerStatus
      BY <1>1, <3>1 DEF BudgetTypes
    <3>3. Handled(r) /\ Returned(r)
      BY <1>1, <3>1
    <3> QED
      BY <3>1, <3>2, <3>3 DEF Handled, Returned, HandlerStatus
  <2> QED
    BY <2>1, <2>2, <2>3, SumZeros
<1>3. \A e \in UsageEvent : entry[e] = "written" => e \in ledger
  BY <1>1 DEF Settled
<1> QED
  BY <1>2, <1>3 DEF ChargedTo

\* A request is refused only when what was charged to a budget that applies to
\* it and what is outstanding reach that budget; and, as long as nothing but a
\* query failed, when the ledger and the requests in flight do.
THEOREM RefusedOnlyCommitted == SpecBudget => RefusedOnlyWhenCommitted
<1> DEFINE Act == \A r \in Request :
                    st[r] = "new" /\ st'[r] = "refused" =>
                      \E l \in Limits :
                        /\ Blocks(l) /\ Applies(l, r)
                        /\ Sum(UsageOf, ChargedTo(l, now)) + Sum(reservedAmount, Outstanding(l.scope)) >= l.amount
                        /\ hit \subseteq {"limits"} =>
                             Sum(UsageOf, ChargedTo(l, now) \cap ledger) + Sum(reservedAmount, InFlight(l.scope)) >= l.amount
<1>1. BudgetInv /\ [NextBudget]_budgetVars => [Act]_budgetVars
  <2> SUFFICES ASSUME BudgetInv, NextBudget, NEW r \in Request, st[r] = "new", st'[r] = "refused"
               PROVE  \E l \in Limits :
                        /\ Blocks(l) /\ Applies(l, r)
                        /\ Sum(UsageOf, ChargedTo(l, now)) + Sum(reservedAmount, Outstanding(l.scope)) >= l.amount
                        /\ hit \subseteq {"limits"} =>
                             Sum(UsageOf, ChargedTo(l, now) \cap ledger) + Sum(reservedAmount, InFlight(l.scope)) >= l.amount
    OBVIOUS
  <2>1. BudgetTypes
    BY DEF BudgetInv, HandlerInv
  <2>2. Blocked(r)
    <3>1. ASSUME NEW q \in Request, Handle(q) \/ Reject(q) \/ Disconnect(q) \/ Crash(q)
          PROVE  Blocked(r)
      <4>1. CASE PreCheckBudget(q)
        BY <2>1, <4>1 DEF PreCheckBudget, StepTo, Goto, BudgetTypes
      <4>2. CASE ~PreCheckBudget(q)
        BY <2>1, <3>1, <4>2 DEF BudgetTypes, Handle, StepTo, Goto, Reject, PreCheckFails, ReserveSpend, ReserveLost,
           AuthFails, CallUpstream, Disconnect, UpstreamFails, UpstreamAnswers, BodyCut, ResponseEnds,
           ReleaseReservation, ReleaseLost, PublishUsage, PublishLost, Crash
      <4> QED
        BY <4>1, <4>2
    <3>2. \A e \in UsageEvent : ~Settle(e)
      BY DEF Settle, CheckBudget, CheckSkipped, WriteLedger, IncrementBudget, IncrementLost, WorkerFails, handlerVars
    <3>3. ~NextPeriod
      BY DEF NextPeriod, handlerVars
    <3> QED
      BY <3>1, <3>2, <3>3 DEF NextBudget
  <2>3. PICK l \in Limits : /\ Blocks(l) /\ Applies(l, r)
                            /\ GetSpend(l.scope, l.provider, now) + GetReserved(l.scope) >= l.amount
    BY <2>2 DEF Blocked
  <2>4. l.amount \in Nat /\ l.scope \in Scope /\ now \in Nat
    BY <2>1, BudgetAssumption DEF BudgetTypes
  <2>5. /\ GetSpend(l.scope, l.provider, now) \in Nat /\ Sum(UsageOf, ChargedTo(l, now)) \in Nat
        /\ GetSpend(l.scope, l.provider, now) <= Sum(UsageOf, ChargedTo(l, now))
    BY <2>4, SpendCharged
  <2>6. Sum(reservedAmount, Outstanding(l.scope)) \in Nat /\ reserved[l.scope] \in Int
    <3>1. Outstanding(l.scope) \in SUBSET Request
      BY DEF Outstanding
    <3> QED
      BY <2>1, <2>4, <3>1, ReservedNat DEF BudgetTypes
  <2>7. GetReserved(l.scope) \in Nat /\ GetReserved(l.scope) <= Sum(reservedAmount, Outstanding(l.scope))
    BY <2>4, <2>6 DEF GetReserved, BudgetInv, ReservedInv
  <2>8. Sum(UsageOf, ChargedTo(l, now)) + Sum(reservedAmount, Outstanding(l.scope)) >= l.amount
    BY <2>3, <2>4, <2>5, <2>6, <2>7
  <2>9. hit \subseteq {"limits"} =>
          /\ ChargedTo(l, now) \cap ledger = ChargedTo(l, now)
          /\ Sum(reservedAmount, InFlight(l.scope)) = Sum(reservedAmount, Outstanding(l.scope))
    BY <2>4, OutstandingInFlight
  <2> QED
    BY <2>3, <2>8, <2>9
<1> QED
  BY <1>1, BudgetInit, BudgetStep, PTL DEF SpecBudget, RefusedOnlyWhenCommitted

\* Usage is dropped only when, with it, what was charged to a budget of its own
\* scope and provider passes that budget, however many workers settle at a time
\* and whatever they leave undone.
THEOREM DropsAreOverBudget == SpecBudget => DroppedOnlyOverBudget
<1> DEFINE Act == \A e \in UsageEvent :
                    entry[e] # "over" /\ entry'[e] = "over" =>
                      \E l \in Limits :
                        /\ l.action = "block" /\ Applies(l, e[1])
                        /\ Sum(UsageOf, ChargedTo(l, usageAt[e[1]])) + usage[e[1]] > l.amount
<1>1. BudgetInv /\ [NextBudget]_budgetVars => [Act]_budgetVars
  <2> SUFFICES ASSUME BudgetInv, NextBudget, NEW e \in UsageEvent, entry[e] # "over", entry'[e] = "over"
               PROVE  \E l \in Limits :
                        /\ l.action = "block" /\ Applies(l, e[1])
                        /\ Sum(UsageOf, ChargedTo(l, usageAt[e[1]])) + usage[e[1]] > l.amount
    OBVIOUS
  <2>1. BudgetTypes
    BY DEF BudgetInv, HandlerInv
  <2>2. OverBudget(e[1])
    <3>1. ASSUME NEW q \in Request, Handle(q) \/ Reject(q) \/ Disconnect(q) \/ Crash(q) PROVE FALSE
      <4>1. CASE PublishUsage(q)
        BY <2>1, <4>1 DEF PublishUsage, BudgetTypes, UsageEvent
      <4>2. CASE ~PublishUsage(q)
        BY <3>1, <4>2 DEF Handle, Reject, PreCheckBudget, PreCheckFails, ReserveSpend, ReserveLost,
           AuthFails, CallUpstream, Disconnect, UpstreamFails, UpstreamAnswers, BodyCut, ResponseEnds,
           ReleaseReservation, ReleaseLost, PublishLost, Crash, usageVars, settleVars
      <4> QED
        BY <4>1, <4>2
    <3>2. ASSUME NEW x \in UsageEvent, Settle(x) PROVE OverBudget(e[1])
      <4>1. CASE CheckBudget(x)
        BY <2>1, <4>1 DEF CheckBudget, StepEntry, BudgetTypes
      <4>2. CASE CheckSkipped(x)
        BY <2>1, <4>2 DEF CheckSkipped, StepEntry, BudgetTypes
      <4>3. CASE WriteLedger(x)
        BY <2>1, <4>3 DEF WriteLedger, StepEntry, BudgetTypes
      <4>4. CASE WorkerFails(x)
        BY <2>1, <4>4 DEF WorkerFails, BudgetTypes
      <4>5. CASE \E c \in Counter : IncrementBudget(x, c) \/ IncrementLost(x, c)
        BY <4>5 DEF IncrementBudget, IncrementLost
      <4> QED
        BY <3>2, <4>1, <4>2, <4>3, <4>4, <4>5 DEF Settle
    <3>3. ~NextPeriod
      BY DEF NextPeriod
    <3> QED
      BY <3>1, <3>2, <3>3 DEF NextBudget
  <2>3. PICK l \in Limits : /\ l.action = "block" /\ Applies(l, e[1])
                            /\ GetSpend(l.scope, l.provider, usageAt[e[1]]) + usage[e[1]] > l.amount
    BY <2>2 DEF OverBudget
  <2>4. l.amount \in Nat /\ usageAt[e[1]] \in Nat /\ usage[e[1]] \in Nat
    BY <2>1, BudgetAssumption, EventsAre DEF BudgetTypes
  <2>5. /\ GetSpend(l.scope, l.provider, usageAt[e[1]]) \in Nat /\ Sum(UsageOf, ChargedTo(l, usageAt[e[1]])) \in Nat
        /\ GetSpend(l.scope, l.provider, usageAt[e[1]]) <= Sum(UsageOf, ChargedTo(l, usageAt[e[1]]))
    BY <2>4, SpendCharged
  <2> QED
    BY <2>3, <2>4, <2>5
<1> QED
  BY <1>1, BudgetInit, BudgetStep, PTL DEF SpecBudget, DroppedOnlyOverBudget

-----------------------------------------------------------------------------
(* SmartRouter: round robin gives every candidate its weight.  The         *)
(* remainders of the counter are split among the candidates at the sums of *)
(* their weights, and a full cycle of the counter meets each remainder     *)
(* once.                                                                   *)


\* A set of naturals that has a member has a least one.
LEMMA LeastNatural ==
  ASSUME NEW C \in SUBSET Nat, C # {}
  PROVE  \E n \in C : \A m \in C : n <= m
<1>1. PICK c \in C : TRUE
  OBVIOUS
<1> DEFINE D == {T \in SUBSET (0..c) : \E n \in C : n <= c /\ T = 0..n}
<1>2. IsFiniteSet(0..c) /\ D \subseteq SUBSET (0..c) /\ 0..c \in D
  BY FS_Interval
<1>3. PICK T \in D : \A U \in D : U \subseteq T => U = T
  <2>1. PICK S : S = 0..c
    OBVIOUS
  <2>2. IsFiniteSet(S) /\ D \subseteq SUBSET S /\ D # {}
    BY <1>2, <2>1
  <2> HIDE DEF D
  <2>3. \E T \in D : \A U \in D : U \subseteq T => U = T
    BY <2>2, Smallest
  <2> QED
    BY <2>3
<1>4. PICK n \in C : n <= c /\ T = 0..n
  BY <1>3
<1>5. ASSUME NEW m \in C PROVE n <= m
  <2>1. CASE m < n
    <3>1. 0..m \in D /\ 0..m \subseteq T
      BY <1>4, <2>1
    <3>2. 0..m = 0..n
      BY <1>3, <1>4, <3>1
    <3> QED
      BY <2>1, <3>2
  <2> QED
    BY <2>1
<1> QED
  BY <1>5

\* The remainder of a division is the only one.
LEMMA RemainderUnique ==
  ASSUME NEW W \in Nat \ {0}, NEW k \in Int, NEW x \in 0..(W - 1)
  PROVE  (W * k + x) % W = x
<1> DEFINE n == W * k + x
           d == n \div W
           m == n % W
<1>1. n \in Int /\ d \in Int /\ m \in 0..(W - 1) /\ n = W * d + m
  OBVIOUS
<1> QED
  BY <1>1

LEMMA Wraps ==
  ASSUME NEW W \in Nat \ {0}, NEW t \in Nat
  PROVE  /\ t % W \in 0..(W - 1)
         /\ \A j \in 0..(W - 1) :
              (t + j) % W = IF (t % W) + j < W THEN (t % W) + j ELSE (t % W) + j - W
<1> DEFINE k == t \div W
           r == t % W
<1>1. k \in Int /\ r \in 0..(W - 1) /\ t = W * k + r
  OBVIOUS
<1>2. ASSUME NEW j \in 0..(W - 1)
      PROVE  (t + j) % W = IF r + j < W THEN r + j ELSE r + j - W
  <2>1. CASE r + j < W
    <3>1. t + j = W * k + (r + j) /\ r + j \in 0..(W - 1)
      BY <1>1, <2>1
    <3> QED
      BY <1>1, <2>1, <3>1, RemainderUnique
  <2>2. CASE r + j >= W
    <3>1. PICK x \in 0..(W - 1), l \in Int : x = r + j - W /\ l = k + 1
      BY <1>1, <2>2
    <3>2. t + j = W * l + x
      BY <1>1, <3>1
    <3>3. (t + j) % W = x
      BY <3>2, RemainderUnique
    <3> QED
      BY <1>1, <2>2, <3>1, <3>3
  <2> QED
    BY <1>1, <2>1, <2>2
<1> QED
  BY <1>1, <1>2


\* In every window of W naturals, b - a have a remainder from a to b - 1.
LEMMA WindowShare ==
  ASSUME NEW W \in Nat \ {0}, NEW t \in Nat, NEW a \in 0..W, NEW b \in 0..W, a <= b
  PROVE  Cardinality({n \in t..(t + W - 1) : a <= n % W /\ n % W < b}) = b - a
<1> DEFINE Mod(n) == n % W
           N == {n \in t..(t + W - 1) : a <= Mod(n) /\ Mod(n) < b}
           At(x, r) == IF x >= r THEN t + (x - r) ELSE t + (x - r + W)
<1>1. PICK r \in 0..(W - 1) :
        \A j \in 0..(W - 1) : Mod(t + j) = IF r + j < W THEN r + j ELSE r + j - W
  BY Wraps
<1> DEFINE f == [x \in a..(b - 1) |-> At(x, r)]
<1> HIDE DEF Mod
<1>2. ASSUME NEW x \in a..(b - 1) PROVE At(x, r) \in N /\ Mod(At(x, r)) = x
  <2>1. x \in 0..(W - 1) /\ a <= x /\ x < b
    OBVIOUS
  <2>2. CASE x >= r
    <3>1. PICK j \in 0..(W - 1) : j = x - r /\ At(x, r) = t + j
      BY <2>1, <2>2
    <3>2. Mod(t + j) = x
      BY <1>1, <2>1, <3>1
    <3> QED
      BY <2>1, <3>1, <3>2
  <2>3. CASE x < r
    <3>1. PICK j \in 0..(W - 1) : j = x - r + W /\ At(x, r) = t + j
      BY <2>1, <2>3
    <3>2. ~(r + j < W) /\ r + j - W = x
      BY <2>1, <3>1
    <3>3. Mod(t + j) = x
      BY <1>1, <3>2
    <3> QED
      BY <2>1, <3>1, <3>3
  <2> QED
    BY <2>1, <2>2, <2>3
<1>3. ASSUME NEW n \in N PROVE Mod(n) \in a..(b - 1) /\ At(Mod(n), r) = n
  <2>1. PICK j \in 0..(W - 1) : n = t + j
    <3>1. n \in t..(t + W - 1)
      BY <1>3
    <3>2. n - t \in 0..(W - 1) /\ n = t + (n - t)
      BY <3>1
    <3> QED
      BY <3>2
  <2>2. Mod(n) = IF r + j < W THEN r + j ELSE r + j - W
    BY <1>1, <2>1
  <2>3. Mod(n) \in Int /\ a <= Mod(n) /\ Mod(n) < b
    BY <1>3, <2>2
  <2>4. CASE r + j < W
    BY <1>1, <2>1, <2>2, <2>3, <2>4
  <2>5. CASE r + j >= W
    BY <1>1, <2>1, <2>2, <2>3, <2>5
  <2> QED
    BY <1>1, <2>4, <2>5
<1>4. f \in Bijection(a..(b - 1), N)
  <2> HIDE DEF N, At
  <2>1. f \in [a..(b - 1) -> N]
    BY <1>2
  <2>2. \A x, y \in a..(b - 1) : f[x] = f[y] => x = y
    BY <1>2
  <2>3. \A n \in N : \E x \in a..(b - 1) : f[x] = n
    BY <1>3
  <2> HIDE DEF f
  <2> QED
    BY <2>1, <2>2, <2>3 DEF Bijection, Injection, Surjection, IsInjective
<1>5. IsFiniteSet(a..(b - 1)) /\ Cardinality(a..(b - 1)) = b - a
  <2>1. PICK c \in Int : c = b - 1
    OBVIOUS
  <2>2. IsFiniteSet(a..c) /\ Cardinality(a..c) = IF a > c THEN 0 ELSE c - a + 1
    BY FS_Interval
  <2> QED
    BY <2>1, <2>2
<1>6. Cardinality(N) = Cardinality(a..(b - 1))
  <2> HIDE DEF N
  <2> QED
    BY <1>4, <1>5, FS_Bijection DEF ExistsBijection
<1> QED
  BY <1>5, <1>6 DEF Mod


\* weightedSelect takes the i-th deployment for the remainders between the
\* weights before it and its own.
LEMMA ShareOfSequence ==
  ASSUME NEW S, NEW L \in Nat \ {0}, DOMAIN S = 1..L, \A i \in 1..L : S[i] \in Deployment,
         \A i, j \in 1..L : S[i] = S[j] => i = j,
         weight \in [Deployment -> Nat], turn \in Nat, \A i \in 1..L : weight[S[i]] > 0,
         NEW i \in 1..L
  PROVE  Cardinality({n \in turn..(turn + TotalWeight(S) - 1) : SelectRoundRobin(S, n) = S[i]}) = weight[S[i]]
<1> DEFINE w == [k \in 1..L |-> weight[S[k]]]
           C(n) == Sum(w, 1..n)
           W == TotalWeight(S)
<1>1. IsFiniteSet(1..L) /\ \A k \in 1..L : w[k] \in Nat \ {0}
  BY FS_Interval
<1>2. \A n \in 0..L : C(n) \in Nat /\ C(n) <= C(L)
  <2>1. \A T \in SUBSET (1..L) : Sum(w, T) \in Nat /\ Sum(w, T) <= Sum(w, 1..L)
    <3> HIDE DEF w
    <3> QED
      BY <1>1, SumNat
  <2>2. \A n \in 0..L : 1..n \in SUBSET (1..L)
    OBVIOUS
  <2> QED
    BY <2>1, <2>2
<1>3. \A n \in 1..L : C(n) = C(n - 1) + w[n]
  <2> TAKE n \in 1..L
  <2>1. 1..n = 1..(n - 1) \cup {n} /\ n \notin 1..(n - 1) /\ \A k \in 1..(n - 1) \cup {n} : k \in 1..L
    OBVIOUS
  <2>2. IsFiniteSet(1..(n - 1))
    <3>1. 1 \in Int /\ n - 1 \in Int
      OBVIOUS
    <3> QED
      BY <3>1, FS_Interval
  <2>3. \A k \in 1..(n - 1) \cup {n} : w[k] \in Int
    BY <1>1, <2>1
  <2> HIDE DEF w
  <2>4. PICK T : T = 1..(n - 1)
    OBVIOUS
  <2>5. Sum(w, T \cup {n}) = Sum(w, T) + w[n]
    <3>1. IsFiniteSet(T) /\ n \notin T /\ \A k \in T \cup {n} : w[k] \in Int
      BY <2>1, <2>2, <2>3, <2>4
    <3> QED
      BY <3>1, SumAdd, Zenon
  <2> QED
    BY <2>1, <2>4, <2>5
<1>4. C(0) = 0
  <2>1. 1..0 = {}
    OBVIOUS
  <2> HIDE DEF w
  <2> QED
    BY <2>1, SumEmpty
<1>5. \A n \in 0..L : Cumulative(S, n) = C(n)
  <2> TAKE n \in 0..L
  <2>1. IsFiniteSet(1..n)
    BY FS_Interval
  <2> DEFINE v == [k \in 1..n |-> ShareOf(S[k])]
  <2>2. \A k \in 1..n : v[k] = w[k]
    BY DEF ShareOf
  <2>3. Sum(v, 1..n) = Sum(w, 1..n)
    <3> HIDE DEF v, w
    <3> QED
      BY <2>1, <2>2, SumSame
  <2> QED
    BY <2>3 DEF Cumulative
<1>6. W = C(L)
  BY DEF TotalWeight
<1>7. W \in Nat \ {0}
  <2>1. C(L) = C(L - 1) + w[L] /\ L - 1 \in 0..L
    BY <1>3
  <2> HIDE DEF w, C
  <2> QED
    BY <1>1, <1>2, <1>6, <2>1
<1> HIDE DEF w, C, W
\* The sums grow with every deployment.
<1>8. \A k \in 1..L : \A n \in 0..(k - 1) : C(n) <= C(k - 1)
  <2> DEFINE Bad == {k \in 1..L : \E n \in 0..(k - 1) : ~(C(n) <= C(k - 1))}
  <2>1. CASE Bad # {}
    <3>1. PICK k \in Bad : \A m \in Bad : k <= m
      <4>1. Bad \in SUBSET Nat
        OBVIOUS
      <4> HIDE DEF Bad
      <4> QED
        BY <2>1, <4>1, LeastNatural
    <3>2. PICK n \in 0..(k - 1) : ~(C(n) <= C(k - 1))
      BY <3>1
    <3>3. n # k - 1 /\ k - 1 \in 1..L /\ n \in 0..(k - 1 - 1)
      BY <1>2, <3>1, <3>2
    <3>4. C(n) <= C(k - 1 - 1)
      BY <3>1, <3>3
    <3>5. C(k - 1) = C(k - 1 - 1) + w[k - 1]
      BY <1>3, <3>3
    <3>6. /\ C(n) \in Nat /\ C(k - 1) \in Nat /\ C(k - 1 - 1) \in Nat /\ w[k - 1] \in Nat
      <4>1. n \in 0..L /\ k - 1 \in 0..L /\ k - 1 - 1 \in 0..L /\ k - 1 \in 1..L
        BY <3>1, <3>2, <3>3
      <4> QED
        BY <1>1, <1>2, <4>1
    <3> QED
      BY <3>2, <3>4, <3>5, <3>6
  <2> QED
    BY <2>1
<1>9. ASSUME NEW n \in Nat
      PROVE  SelectRoundRobin(S, n) = S[i] <=> C(i - 1) <= n % W /\ n % W < C(i)
  <2> DEFINE idx == n % W
             open == {k \in DOMAIN S : idx < Cumulative(S, k)}
  <2>1. idx \in 0..(W - 1)
    BY <1>7, Wraps
  <2>2. open = {k \in 1..L : idx < C(k)}
    BY <1>5
  <2>3. L \in open
    <3> HIDE DEF idx, open
    <3>1. idx < C(L)
      BY <1>6, <1>7, <2>1
    <3> QED
      BY <2>2, <3>1
  <2>4. PICK k \in open : \A m \in open : k <= m
    <3>1. open \in SUBSET Nat
      BY <2>2
    <3> HIDE DEF open
    <3> QED
      BY <2>3, <3>1, LeastNatural
  <2>5. Min(open) = k
    <3> HIDE DEF open
    <3>1. open \in SUBSET Nat
      BY <2>2
    <3>2. Min(open) \in open /\ \A m \in open : Min(open) <= m
      BY <2>4 DEF Min
    <3>3. PICK x \in Nat : x = Min(open)
      BY <3>1, <3>2
    <3>4. k \in Nat /\ k <= x /\ x <= k
      BY <2>4, <3>1, <3>2, <3>3
    <3> QED
      BY <3>3, <3>4
  <2>6. SelectRoundRobin(S, n) = S[k] /\ k \in 1..L
    <3>1. W > 0
      BY <1>7
    <3> QED
      BY <2>2, <2>3, <2>5, <3>1 DEF SelectRoundRobin, WeightedSelect, W
  <2> HIDE DEF open, idx
  <2>7. SelectRoundRobin(S, n) = S[i] <=> k = i
    BY <2>6
  <2>8. k = i => C(i - 1) <= idx /\ idx < C(i)
    <3>1. ASSUME k = i, ~(C(i - 1) <= idx) PROVE FALSE
      <4>1. i - 1 \in 0..L
        OBVIOUS
      <4>2. idx < C(i - 1)
        BY <1>2, <2>1, <3>1, <4>1
      <4>3. i - 1 # 0
        BY <1>4, <2>1, <4>2
      <4>4. i - 1 \in open
        BY <2>2, <4>1, <4>2, <4>3
      <4> QED
        BY <2>4, <3>1, <4>4
    <3> QED
      BY <2>2, <2>4, <3>1
  <2>9. C(i - 1) <= idx /\ idx < C(i) => k = i
    <3> SUFFICES ASSUME C(i - 1) <= idx, idx < C(i) PROVE k = i
      OBVIOUS
    <3>1. i \in open /\ k <= i
      BY <2>2, <2>4
    <3>2. ASSUME k # i PROVE FALSE
      <4>1. k \in 0..(i - 1) /\ k \in 0..L /\ i - 1 \in 0..L
        BY <2>6, <3>1, <3>2
      <4>2. C(k) <= C(i - 1)
        BY <1>8, <4>1
      <4>3. idx < C(k)
        BY <2>2, <2>4
      <4> QED
        BY <1>2, <2>1, <4>1, <4>2, <4>3
    <3> QED
      BY <3>2
  <2> QED
    BY <2>7, <2>8, <2>9 DEF idx
<1>10. C(i - 1) \in 0..W /\ C(i) \in 0..W /\ C(i - 1) <= C(i) /\ C(i) - C(i - 1) = weight[S[i]]
  <2>1. i - 1 \in 0..L /\ i \in 0..L
    OBVIOUS
  <2>2. C(i) = C(i - 1) + w[i] /\ w[i] = weight[S[i]]
    BY <1>3 DEF w
  <2> QED
    BY <1>1, <1>2, <1>6, <2>1, <2>2
<1>11. Cardinality({n \in turn..(turn + W - 1) : C(i - 1) <= n % W /\ n % W < C(i)}) = C(i) - C(i - 1)
  <2>1. PICK t \in Nat, V \in Nat \ {0} : t = turn /\ V = W
    BY <1>7
  <2>2. PICK a \in 0..V, b \in 0..V : a = C(i - 1) /\ b = C(i) /\ a <= b
    BY <1>10, <2>1
  <2>3. Cardinality({n \in t..(t + V - 1) : a <= n % V /\ n % V < b}) = b - a
    BY <2>2, WindowShare
  <2> QED
    BY <2>1, <2>2, <2>3
<1>12. {n \in turn..(turn + W - 1) : SelectRoundRobin(S, n) = S[i]}
         = {n \in turn..(turn + W - 1) : C(i - 1) <= n % W /\ n % W < C(i)}
  <2>1. turn..(turn + W - 1) \subseteq Nat
    BY <1>7
  <2> QED
    BY <1>9, <2>1
<1> QED
  BY <1>10, <1>11, <1>12 DEF W


\* The loop of healthyDeployments as a function of the deployments it has seen.
IsLoop(f, m) ==
  f = [n \in 0..m |-> IF n = 0 THEN << >>
                      ELSE IF Usable(Group[n]) THEN Append(f[n - 1], Group[n])
                      ELSE f[n - 1]]

\* A filtered group: some of its first n deployments, each once.
Filtered(s, n) ==
  /\ s \in Seq(Deployment)
  /\ \A i \in 1..Len(s) : \E k \in 1..n : s[i] = Group[k]
  /\ \A i, j \in 1..Len(s) : s[i] = s[j] => i = j

LEMMA LoopExists == \A m \in 0..Len(Group) : \E f : IsLoop(f, m)
<1> DEFINE Bad == {m \in 0..Len(Group) : ~ \E f : IsLoop(f, m)}
<1>1. CASE Bad # {}
  <2>0. Len(Group) \in Nat
    BY RouterAssumption
  <2>1. PICK m \in Bad : \A k \in Bad : m <= k
    <3>1. Bad \in SUBSET Nat
      BY <2>0
    <3> HIDE DEF Bad
    <3> QED
      BY <1>1, <3>1, LeastNatural
  <2>2. CASE m = 0
    <3>1. IsLoop([n \in 0..0 |-> << >>], 0)
      BY DEF IsLoop
    <3> QED
      BY <2>1, <2>2, <3>1
  <2>3. CASE m # 0
    <3>1. m - 1 \in 0..Len(Group) /\ m - 1 \notin Bad /\ m \in Nat
      BY <2>0, <2>1, <2>3
    <3>2. PICK g : IsLoop(g, m - 1)
      BY <3>1
    <3> DEFINE f == [n \in 0..m |-> IF n = m
                                    THEN IF Usable(Group[m]) THEN Append(g[m - 1], Group[m]) ELSE g[m - 1]
                                    ELSE g[n]]
               h == [n \in 0..m |-> IF n = 0 THEN << >>
                      ELSE IF Usable(Group[n]) THEN Append(f[n - 1], Group[n])
                      ELSE f[n - 1]]
    <3>3. \A n \in 0..(m - 1) : g[n] = IF n = 0 THEN << >>
                      ELSE IF Usable(Group[n]) THEN Append(g[n - 1], Group[n])
                      ELSE g[n - 1]
      BY <3>2 DEF IsLoop
    <3>4. \A n \in 0..(m - 1) : f[n] = g[n]
      BY <3>1
    <3>5. ASSUME NEW n \in 0..m PROVE f[n] = h[n]
      <4>1. CASE n = 0
        BY <2>3, <3>1, <3>3, <3>4, <4>1
      <4>2. CASE n # 0
        <5>1. n - 1 \in 0..(m - 1) /\ f[n - 1] = g[n - 1]
          BY <3>1, <3>4, <4>2
        <5>2. h[n] = IF Usable(Group[n]) THEN Append(g[n - 1], Group[n]) ELSE g[n - 1]
          <6> HIDE DEF f
          <6> QED
            BY <4>2, <5>1
        <5>3. CASE n = m
          BY <5>2, <5>3
        <5>4. CASE n # m
          <6>1. n \in 0..(m - 1)
            BY <3>1, <5>4
          <6> HIDE DEF f, h
          <6> QED
            BY <3>3, <3>4, <4>2, <5>2, <6>1
        <5> QED
          BY <5>3, <5>4
      <4> QED
        BY <4>1, <4>2
    <3>6. f = h
      <4>1. DOMAIN f = 0..m /\ DOMAIN h = 0..m /\ f = [n \in 0..m |-> f[n]] /\ h = [n \in 0..m |-> h[n]]
        OBVIOUS
      <4> HIDE DEF f, h
      <4> QED
        BY <3>5, <4>1
    <3>7. IsLoop(f, m)
      <4>1. f = [n \in 0..m |-> IF n = 0 THEN << >>
                      ELSE IF Usable(Group[n]) THEN Append(f[n - 1], Group[n])
                      ELSE f[n - 1]]
        BY <3>6
      <4> HIDE DEF f
      <4> QED
        BY <4>1 DEF IsLoop
    <3> HIDE DEF f
    <3> QED
      BY <2>1, <3>7
  <2> QED
    BY <2>2, <2>3
<1>2. CASE Bad = {}
  BY <1>2
<1> QED
  BY <1>1, <1>2

LEMMA LoopFilters ==
  ASSUME NEW f, IsLoop(f, Len(Group))
  PROVE  \A n \in 0..Len(Group) : Filtered(f[n], n)
<1> DEFINE Bad == {n \in 0..Len(Group) : ~Filtered(f[n], n)}
<1>0. Len(Group) \in Nat /\ \A k \in 1..Len(Group) : Group[k] \in Deployment
  BY RouterAssumption
<1>g. \A i, j \in 1..Len(Group) : Group[i] = Group[j] => i = j
  BY RouterAssumption
<1>1. CASE Bad # {}
  <2>1. PICK m \in Bad : \A k \in Bad : m <= k
    <3>1. Bad \in SUBSET Nat
      BY <1>0
    <3> HIDE DEF Bad
    <3> QED
      BY <1>1, <3>1, LeastNatural
  <2>2. f[m] = IF m = 0 THEN << >>
               ELSE IF Usable(Group[m]) THEN Append(f[m - 1], Group[m])
               ELSE f[m - 1]
    BY <2>1 DEF IsLoop
  <2>3. CASE m = 0
    <3>1. f[m] = << >>
      BY <2>2, <2>3
    <3>2. Filtered(<< >>, m)
      BY DEF Filtered
    <3> QED
      BY <2>1, <3>1, <3>2
  <2>4. CASE m # 0
    <3>1. m - 1 \in 0..Len(Group) /\ m - 1 \notin Bad /\ m \in 1..Len(Group)
      BY <1>0, <2>1, <2>4
    <3>2. PICK s : s = f[m - 1] /\ Filtered(s, m - 1)
      BY <3>1
    <3>3. CASE ~Usable(Group[m])
      <4>1. f[m] = s
        BY <2>2, <2>4, <3>2, <3>3
      <4>2. Filtered(s, m)
        <5>1. 1..(m - 1) \subseteq 1..m
          BY <3>1
        <5> QED
          BY <3>2, <5>1 DEF Filtered
      <4> QED
        BY <2>1, <4>1, <4>2
    <3>4. CASE Usable(Group[m])
      <4>1. PICK t : t = Append(s, Group[m]) /\ f[m] = t
        BY <2>2, <2>4, <3>2, <3>4
      <4>2. s \in Seq(Deployment) /\ Len(s) \in Nat /\ Group[m] \in Deployment
        BY <1>0, <3>1, <3>2 DEF Filtered
      <4>3. /\ t \in Seq(Deployment) /\ Len(t) = Len(s) + 1
            /\ \A i \in 1..Len(s) : t[i] = s[i]
            /\ t[Len(s) + 1] = Group[m]
        BY <4>1, <4>2, AppendProperties
      <4>4. ASSUME NEW i \in 1..Len(t) PROVE \E k \in 1..m : t[i] = Group[k]
        <5>1. CASE i \in 1..Len(s)
          <6>1. PICK k \in 1..(m - 1) : s[i] = Group[k]
            BY <3>2, <5>1 DEF Filtered
          <6> QED
            BY <3>1, <4>3, <5>1, <6>1
        <5>2. CASE i = Len(s) + 1
          BY <3>1, <4>3, <5>2
        <5> QED
          BY <4>2, <4>3, <5>1, <5>2
      <4>5. \A i \in 1..Len(s) : t[i] # Group[m]
        <5> TAKE i \in 1..Len(s)
        <5>1. PICK k \in 1..(m - 1) : s[i] = Group[k]
          BY <3>2 DEF Filtered
        <5>2. k \in 1..Len(Group) /\ k # m
          BY <1>0, <3>1, <5>1
        <5> QED
          BY <1>g, <3>1, <4>3, <5>1, <5>2
      <4>6. ASSUME NEW i \in 1..Len(t), NEW j \in 1..Len(t), t[i] = t[j] PROVE i = j
        <5>1. CASE i \in 1..Len(s) /\ j \in 1..Len(s)
          BY <3>2, <4>3, <4>6, <5>1 DEF Filtered
        <5>2. CASE i = Len(s) + 1 \/ j = Len(s) + 1
          BY <4>2, <4>3, <4>5, <4>6, <5>2
        <5> QED
          BY <4>2, <4>3, <5>1, <5>2
      <4>7. Filtered(t, m)
        BY <4>3, <4>4, <4>6 DEF Filtered
      <4> QED
        BY <2>1, <4>1, <4>7
    <3> QED
      BY <3>3, <3>4
  <2> QED
    BY <2>3, <2>4
<1>2. CASE Bad = {}
  BY <1>2
<1> QED
  BY <1>1, <1>2

\* Round robin chooses from a non-empty part of the group.
LEMMA CandidatesFiltered == Filtered(Candidates, Len(Group)) /\ Candidates # << >>
<1> DEFINE f == CHOOSE g : IsLoop(g, Len(Group))
<1>1. Len(Group) \in Nat /\ Len(Group) > 0 /\ Group \in Seq(Deployment)
      /\ \A i, j \in 1..Len(Group) : Group[i] = Group[j] => i = j
  BY RouterAssumption
<1>2. IsLoop(f, Len(Group))
  BY <1>1, LoopExists
<1>3. HealthyDeployments = f[Len(Group)]
  BY DEF HealthyDeployments, IsLoop
<1> HIDE DEF f
<1>4. Filtered(HealthyDeployments, Len(Group))
  BY <1>1, <1>2, <1>3, LoopFilters
<1>5. Filtered(Group, Len(Group)) /\ Group # << >>
  BY <1>1 DEF Filtered
<1> QED
  BY <1>4, <1>5 DEF Candidates


\* The counter and the weights stay numbers.
TurnInv == weight \in [Deployment -> Nat] /\ turn \in Nat

LEMMA TurnStep == TurnInv /\ [NextRouter]_routerVars => TurnInv'
<1> SUFFICES ASSUME TurnInv, [NextRouter]_routerVars PROVE TurnInv'
  OBVIOUS
<1>1. weight' = weight /\ (turn' = turn \/ turn' = (turn + 1) % CounterMod)
  <2>1. ASSUME NEW c \in Client, BeginRequest(c) PROVE weight' = weight /\ turn' = turn
    BY <2>1 DEF BeginRequest
  <2>2. ASSUME NEW c \in Client, Exhausted(c) PROVE weight' = weight /\ turn' = turn
    BY <2>2 DEF Exhausted
  <2>3. ASSUME NEW c \in Client, SelectDeployment(c)
        PROVE  weight' = weight /\ (turn' = turn \/ turn' = (turn + 1) % CounterMod)
    BY <2>3 DEF SelectDeployment
  <2>4. ASSUME NEW c \in Client, CallReturns(c) PROVE weight' = weight /\ turn' = turn
    BY <2>4 DEF CallReturns, CallSucceeds, CallFails
  <2>5. ASSUME NEW c \in Client, BackoffEnds(c) \/ ClientGone(c) \/ StreamEnds(c)
        PROVE  weight' = weight /\ turn' = turn
    BY <2>5 DEF BackoffEnds, ClientGone, StreamEnds
  <2>6. RouterTick \/ UNCHANGED routerVars => weight' = weight /\ turn' = turn
    BY DEF RouterTick, routerVars
  <2> QED
    BY <2>1, <2>2, <2>3, <2>4, <2>5, <2>6 DEF NextRouter, HandlerStep
<1>2. turn \in Nat /\ CounterMod \in Nat \ {0}
  BY RouterAssumption DEF TurnInv
<1>3. (turn + 1) % CounterMod \in Nat
  <2>1. PICK t \in Nat, m \in Nat \ {0} : t = turn + 1 /\ m = CounterMod
    BY <1>2
  <2>2. t % m \in 0..(m - 1)
    BY <2>1, Wraps
  <2> QED
    BY <2>1, <2>2
<1> QED
  BY <1>1, <1>3 DEF TurnInv


LEMMA TurnInit == InitRouter => TurnInv
  BY RouterAssumption DEF InitRouter, TurnInv

LEMMA TurnShare == TurnInv => WeightedShare
<1> SUFFICES ASSUME TurnInv, \A d \in Members : weight[d] > 0,
                    NEW i \in DOMAIN Candidates
             PROVE  Cardinality({n \in turn..(turn + TotalWeight(Candidates) - 1) :
                                   SelectRoundRobin(Candidates, n) = Candidates[i]})
                      = weight[Candidates[i]]
  BY DEF WeightedShare
<1>1. PICK S : S = Candidates /\ Filtered(S, Len(Group)) /\ S # << >>
  BY CandidatesFiltered
<1>2. PICK L \in Nat \ {0} : L = Len(S) /\ DOMAIN S = 1..L
  <2>1. S \in Seq(Deployment)
    BY <1>1 DEF Filtered
  <2>2. Len(S) \in Nat /\ Len(S) # 0 /\ DOMAIN S = 1..Len(S)
    BY <1>1, <2>1, EmptySeq, LenProperties
  <2> QED
    BY <2>2
<1>3. \A k \in 1..L : S[k] \in Members /\ S[k] \in Deployment
  <2>1. DOMAIN Group = 1..Len(Group) /\ \A k \in 1..Len(Group) : Group[k] \in Deployment
    BY RouterAssumption
  <2> QED
    BY <1>1, <1>2, <2>1 DEF Filtered, Members
<1>4. \A k, j \in 1..L : S[k] = S[j] => k = j
  BY <1>1, <1>2 DEF Filtered
<1>5. weight \in [Deployment -> Nat] /\ turn \in Nat /\ i \in 1..L /\ \A k \in 1..L : weight[S[k]] > 0
  BY <1>1, <1>2, <1>3 DEF TurnInv
<1>6. Cardinality({n \in turn..(turn + TotalWeight(S) - 1) : SelectRoundRobin(S, n) = S[i]}) = weight[S[i]]
  BY ONLY <1>2, <1>3, <1>4, <1>5, ShareOfSequence, RouterAssumption
<1> QED
  BY <1>1, <1>6

\* WeightedShare (strategy.go's weightedSelect over healthyDeployments): for
\* every group, every choice of weights and every set of deployments that is
\* unhealthy or low on quota, each candidate gets exactly its weight in the
\* next cycle of the counter, provided every weight is positive.
THEOREM WeightsAreShared == SpecRouter => []WeightedShare
  BY TurnInit, TurnStep, TurnShare, PTL DEF SpecRouter


=============================================================================

--------------------------- MODULE ProjectsProofs ---------------------------
(***************************************************************************)
(* For any number of keys, requests and failures, a revoked key opens the  *)
(* gateway for at most TTL + Delay after its revocation, and no copy opens *)
(* it after the key's expiry: for the keys alone (ApiKeys) and in the      *)
(* composition with the projects.                                          *)
(*                                                                         *)
(* The inductive invariant says where a copy comes from.  A request that   *)
(* is about to write a copy has read its row at most Delay ago, and no     *)
(* later than the revocation of its key (Writes); so the copy of a revoked *)
(* key ends at most TTL + Delay after the revocation (CopyOK).  That no    *)
(* copy outlives now + TTL is what the revocation finds when it happens.   *)
(* A copy is only ever made of a row that exists, and the expiry of a row  *)
(* is never changed, so the two agree about it.                            *)
(*                                                                         *)
(* Projects implements ApiKeys: whatever the requests for projects and     *)
(* members do, the keys and their copies change only by the steps of       *)
(* ApiKeys, so what is proved of the keys alone holds in the composition.  *)
(*                                                                         *)
(* For requests of members one at a time and without failures, roles belong*)
(* to members and an archived project has no key in use: ProjectsInv says  *)
(* what each request has found out or removed by its program counter.      *)
(***************************************************************************)
EXTENDS Projects, TLAPS

CopyOK(k) ==
    /\ cache[k].until <= now + TTL
    /\ row[k] = "revoked" => /\ revokedAt[k] <= now
                             /\ cache[k].until <= revokedAt[k] + TTL + Delay
    /\ cache[k].until # 0 => row[k] # "absent" /\ cache[k].expires = expires[k]

Writes(c) ==
    call[c].pc \in {"keep", "store"} =>
        /\ call[c].at <= now /\ now <= call[c].at + Delay
        /\ row[call[c].key] # "absent"
        /\ row[call[c].key] = "revoked" => call[c].at <= revokedAt[call[c].key]

CopiesInv == /\ TypeOK
             /\ \A k \in Keys : CopyOK(k)
             /\ \A c \in Calls : Writes(c)

USE KeysAssumption, TimesAssumption, BoundsAssumption

LEMMA InitCopies == Init => CopiesInv
<1> SUFFICES ASSUME Init PROVE CopiesInv
  OBVIOUS
<1>1. TypeOK
  BY DEF Init, TypeOK, Copies, CallStates, Steps, Idle, Uncached
<1>2. \A k \in Keys : CopyOK(k)
  BY DEF Init, CopyOK, Uncached
<1>3. \A c \in Calls : Writes(c)
  BY DEF Init, Writes, Idle
<1> QED  BY <1>1, <1>2, <1>3 DEF CopiesInv

-----------------------------------------------------------------------------
(* A step of one request that leaves keys, copies and the clock alone. *)

LEMMA QuietStep ==
    ASSUME CopiesInv, NEW c \in Calls, NEW r \in CallStates,
           call' = [call EXCEPT ![c] = r],
           r.pc \notin {"idle", "count", "recount", "insert"} => r.key \in Keys,
           r.pc \in {"keep", "store"} => /\ r.at = now
                                         /\ row[r.key] = "live",
           UNCHANGED <<Rows, cache, now>>, ops' \in 0..MaxOps, faults' \in 0..MaxFaults
    PROVE  CopiesInv'
<1>1. TypeOK'
  BY DEF CopiesInv, TypeOK, Rows
<1>2. \A k \in Keys : CopyOK(k)'
  BY DEF CopiesInv, CopyOK, Rows
<1>3. \A d \in Calls : Writes(d)'
  <2> TAKE d \in Calls
  <2>1. now \in Nat
    BY DEF CopiesInv, TypeOK
  <2>2. CASE d = c
    BY <2>1, <2>2 DEF CopiesInv, TypeOK, Writes, Rows
  <2>3. CASE d # c
    BY <2>3 DEF CopiesInv, TypeOK, Writes, Rows
  <2> QED  BY <2>2, <2>3
<1> QED  BY <1>1, <1>2, <1>3 DEF CopiesInv

\* The same when the step also writes the copy of its key, or deletes it.
LEMMA CopyStep ==
    ASSUME CopiesInv, NEW c \in Calls, call[c].key \in Keys, Finish(c),
           NEW e \in Copies, cache' = [cache EXCEPT ![call[c].key] = e],
           \/ e = Uncached
           \/ /\ call[c].pc \in {"keep", "store"}
              /\ e.until = now + TTL /\ e.expires = expires[call[c].key],
           UNCHANGED <<Rows, now, ops, faults>>
    PROVE  CopiesInv'
<1> DEFINE k == call[c].key
<1>1. TypeOK'
  BY DEF CopiesInv, TypeOK, Rows, Finish, Idle, CallStates, Steps
<1>2. Writes(c) /\ CopyOK(k) /\ now \in Nat /\ revokedAt[k] \in Nat /\ call[c].at \in Nat
  BY DEF CopiesInv, TypeOK, CallStates
<1>3. \A j \in Keys : CopyOK(j)'
  <2> TAKE j \in Keys
  <2>1. CASE j = k
    <3>1. cache'[k] = e
      BY DEF CopiesInv, TypeOK
    <3>2. CASE e = Uncached
      BY <1>2, <2>1, <3>1, <3>2 DEF CopyOK, Uncached, Rows
    <3>3. CASE /\ call[c].pc \in {"keep", "store"}
                /\ e.until = now + TTL /\ e.expires = expires[k]
      BY <1>2, <2>1, <3>1, <3>3 DEF CopyOK, Writes, Rows
    <3> QED  BY <3>2, <3>3
  <2>2. CASE j # k
    BY <2>2 DEF CopiesInv, TypeOK, CopyOK, Rows
  <2> QED  BY <2>1, <2>2
<1>4. \A d \in Calls : Writes(d)'
  BY DEF CopiesInv, TypeOK, Writes, Rows, Finish, Idle
<1> QED  BY <1>1, <1>3, <1>4 DEF CopiesInv

\* Ending a request, or moving it on to a step that writes no copy.
LEMMA FinishStep ==
    ASSUME CopiesInv, NEW c \in Calls, Finish(c),
           UNCHANGED <<Rows, cache, now>>, ops' \in 0..MaxOps, faults' \in 0..MaxFaults
    PROVE  CopiesInv'
<1>1. Idle \in CallStates /\ Idle.pc = "idle"
  BY DEF Idle, CallStates, Steps
<1> QED  BY <1>1, QuietStep DEF Finish

LEMMA GotoStep ==
    ASSUME CopiesInv, NEW c \in Calls, NEW pc \in Steps \ {"keep", "store"}, Goto(c, pc),
           pc \in {"recount", "insert"} \/ call[c].key \in Keys,
           UNCHANGED <<Rows, cache, now>>, ops' \in 0..MaxOps, faults' \in 0..MaxFaults
    PROVE  CopiesInv'
<1> DEFINE r == [call[c] EXCEPT !.pc = pc]
<1>1. call[c] \in CallStates
  BY DEF CopiesInv, TypeOK
<1>2. r \in CallStates /\ r.pc = pc /\ r.key = call[c].key
  BY <1>1 DEF CallStates
<1>3. call' = [call EXCEPT ![c] = r]
  BY DEF Goto
<1> QED  BY <1>2, <1>3, QuietStep

-----------------------------------------------------------------------------
(* The actions. *)

LEMMA ValidateStep ==
    ASSUME CopiesInv, NEW v \in Validators, Validate(v)
    PROVE  CopiesInv'
<1>1. /\ v \in Calls /\ TypeOK /\ call[v] \in CallStates
      /\ now \in Nat /\ ops \in 0..MaxOps /\ faults \in 0..MaxFaults
  BY DEF CopiesInv, TypeOK, Calls
<1>2. CASE Present(v)
  <2>1. PICK k \in Keys, out \in BOOLEAN :
            call' = [call EXCEPT ![v] = [Idle EXCEPT !.pc = "get", !.key = k, !.outside = out]]
    BY <1>2 DEF Present
  <2> DEFINE r == [Idle EXCEPT !.pc = "get", !.key = k, !.outside = out]
  <2>2. r \in CallStates /\ r.pc = "get" /\ r.key = k
    BY DEF Idle, CallStates, Steps
  <2> QED  BY <1>1, <1>2, <2>1, <2>2, QuietStep DEF Present
<1>3. CASE ServeCached(v) \/ RefuseCached(v) \/ RefuseRow(v)
  BY <1>1, <1>3, FinishStep DEF ServeCached, RefuseCached, RefuseRow
<1>4. CASE Miss(v)
  <2>1. call[v].key \in Keys
    BY <1>1, <1>4 DEF Miss, At, TypeOK
  <2> QED  BY <1>1, <1>4, <2>1, GotoStep DEF Miss, Steps
<1>5. CASE ReadRow(v)
  <2> DEFINE r == [call[v] EXCEPT !.pc = "keep", !.at = now]
  <2>1. call[v].key \in Keys
    BY <1>1, <1>5 DEF ReadRow, At, TypeOK
  <2>2. r \in CallStates /\ r.key = call[v].key /\ r.at = now
    BY <1>1 DEF CallStates, Steps
  <2>3. call' = [call EXCEPT ![v] = r]
    BY <1>5 DEF ReadRow
  <2>4. row[r.key] = "live"
    BY <1>5, <2>2 DEF ReadRow, GoodRow
  <2> QED  BY <1>1, <1>5, <2>1, <2>2, <2>3, <2>4, QuietStep DEF ReadRow
<1>6. CASE ServeRow(v)
  <2> DEFINE e == Copy(call[v].key)
  <2>1. call[v].key \in Keys /\ call[v].pc = "keep"
    BY <1>1, <1>6 DEF ServeRow, At, TypeOK
  <2>2. e \in Copies /\ e.until = now + TTL /\ e.expires = expires[call[v].key]
    BY <1>1, <2>1 DEF Copy, Copies, TypeOK
  <2> QED  BY <1>1, <1>6, <2>1, <2>2, CopyStep DEF ServeRow
<1> QED  BY <1>2, <1>3, <1>4, <1>5, <1>6 DEF Validate

\* What a revocation finds: copies that end by now + TTL, and writers that
\* have read their row by now.
LEMMA RevokeStep ==
    ASSUME CopiesInv, NEW set \in SUBSET Keys, Revoke(set),
           UNCHANGED <<expires, listed, cache, now, faults>>, ops' \in 0..MaxOps,
           \/ call' = call
           \/ \E a \in Calls : At(a, "update") /\ Goto(a, "del")
    PROVE  CopiesInv'
<1>1. TypeOK /\ now \in 0..MaxTime
  BY DEF CopiesInv, TypeOK
<1>2. /\ call' \in [Calls -> CallStates]
      /\ \A c \in Calls : /\ call'[c].key = call[c].key /\ call'[c].at = call[c].at
                          /\ call'[c].pc = call[c].pc \/ (call[c].pc = "update" /\ call'[c].pc = "del")
  <2>1. CASE call' = call
    BY <1>1, <2>1 DEF TypeOK
  <2>2. CASE \E a \in Calls : At(a, "update") /\ Goto(a, "del")
    BY <1>1, <2>2 DEF TypeOK, At, Goto, CallStates, Steps
  <2> QED  BY <2>1, <2>2
<1>3. row' \in [Keys -> {"absent", "live", "revoked"}] /\ revokedAt' \in [Keys -> 0..MaxTime]
  BY <1>1 DEF TypeOK, Revoke
<1>4. TypeOK'
  BY <1>1, <1>2, <1>3 DEF TypeOK
<1>5. \A k \in Keys : \/ row'[k] = row[k] /\ revokedAt'[k] = revokedAt[k]
                      \/ row'[k] = "revoked" /\ row[k] = "revoked" /\ revokedAt'[k] = revokedAt[k]
                      \/ row'[k] = "revoked" /\ revokedAt'[k] = now
  BY DEF Revoke
<1>6. \A k \in Keys : CopyOK(k)'
  <2> TAKE k \in Keys
  <2>1. CopyOK(k) /\ cache[k].until \in Nat /\ now \in Nat
    BY <1>1 DEF CopiesInv, TypeOK, Copies
  <2> QED  BY <1>5, <2>1 DEF CopyOK
<1>7. \A c \in Calls : Writes(c)'
  <2> SUFFICES ASSUME NEW c \in Calls, call'[c].pc \in {"keep", "store"} PROVE Writes(c)'
    BY DEF Writes
  <2>1. /\ call[c].pc \in {"keep", "store"} /\ call'[c].key = call[c].key
        /\ call'[c].at = call[c].at /\ call[c].key \in Keys
    BY <1>1, <1>2 DEF TypeOK
  <2>2. Writes(c)
    BY DEF CopiesInv
  <2> QED  BY <1>5, <2>1, <2>2 DEF Writes
<1> QED  BY <1>4, <1>6, <1>7 DEF CopiesInv

LEMMA AdministerStep ==
    ASSUME CopiesInv, NEW a \in Admins, Administer(a)
    PROVE  CopiesInv'
<1>1. /\ a \in Calls /\ TypeOK /\ call[a] \in CallStates
      /\ now \in 0..MaxTime /\ ops \in 0..MaxOps /\ faults \in 0..MaxFaults
  BY DEF CopiesInv, TypeOK, Calls
<1>2. CASE RequestCreate(a)
  <2> DEFINE r == [Idle EXCEPT !.pc = "count"]
  <2>1. r \in CallStates /\ r.pc = "count"
    BY DEF Idle, CallStates, Steps
  <2>2. ops' \in 0..MaxOps
    BY <1>1, <1>2 DEF RequestCreate
  <2> QED  BY <1>1, <1>2, <2>1, <2>2, QuietStep DEF RequestCreate
<1>3. CASE CountKeys(a)
  BY <1>1, <1>3, FinishStep, GotoStep DEF CountKeys, Steps
<1>4. CASE RecountKeys(a)
  BY <1>1, <1>4, FinishStep, GotoStep DEF RecountKeys, Steps
<1>5. CASE InsertKey(a)
  <2>1. PICK k \in Keys, e \in {now + d : d \in Lifetimes} \cup {Never}, l \in BOOLEAN :
           /\ row[k] = "absent" /\ row' = [row EXCEPT ![k] = "live"]
           /\ expires' = [expires EXCEPT ![k] = e] /\ listed' = [listed EXCEPT ![k] = l]
           /\ call' = [call EXCEPT ![a].pc = "store", ![a].key = k, ![a].at = now]
    BY <1>5 DEF InsertKey, Inserted
  <2> DEFINE r == [call[a] EXCEPT !.pc = "store", !.key = k, !.at = now]
  <2>2. r \in CallStates /\ r.pc = "store" /\ r.key = k /\ r.at = now
    <3>1. now \in Nat /\ k \in Keys
      BY <1>1, <2>1
    <3> QED  BY <1>1, <3>1 DEF CallStates, Steps
  <2>3. call' = [call EXCEPT ![a] = r]
    BY <2>1
  <2>4. e \in Nat
    BY <1>1 DEF Never
  <2>5. UNCHANGED <<cache, now, ops, faults, revokedAt>>
    BY <1>5 DEF InsertKey
  <2>6. TypeOK'
    <3>1. /\ row' \in [Keys -> {"absent", "live", "revoked"}] /\ expires' \in [Keys -> Nat]
          /\ listed' \in [Keys -> BOOLEAN]
      BY <1>1, <2>1, <2>4 DEF TypeOK
    <3>2. call' \in [Calls -> CallStates] /\ call'[a] = r /\ \A c \in Calls \ {a} : call'[c] = call[c]
      BY <1>1, <2>2, <2>3 DEF TypeOK
    <3>3. \A c \in Calls : call'[c].pc \notin {"idle", "count", "recount", "insert"} => call'[c].key \in Keys
      BY <1>1, <2>2, <3>2 DEF TypeOK
    <3> QED  BY <1>1, <2>5, <3>1, <3>2, <3>3 DEF TypeOK
  <2>7. row'[k] = "live" /\ \A j \in Keys \ {k} : row'[j] = row[j]
    BY <1>1, <2>1 DEF TypeOK
  <2>8. \A j \in Keys : CopyOK(j)'
    <3> TAKE j \in Keys
    <3>1. CopyOK(j) /\ (j # k => expires'[j] = expires[j])
      BY <1>1, <2>1 DEF CopiesInv, TypeOK
    <3>2. j = k => cache[j].until = 0
      BY <2>1, <3>1 DEF CopyOK
    <3> QED  BY <2>5, <2>7, <3>1, <3>2 DEF CopyOK
  <2>9. \A c \in Calls : Writes(c)'
    <3> TAKE c \in Calls
    <3>1. CASE c = a
      BY <1>1, <2>2, <2>3, <2>5, <2>7, <3>1 DEF TypeOK, Writes
    <3>2. CASE c # a
      <4>1. call'[c] = call[c] /\ Writes(c)
        BY <1>1, <2>3, <3>2 DEF CopiesInv, TypeOK
      <4>2. call[c].pc \in {"keep", "store"} => call[c].key \in Keys
        BY <1>1 DEF TypeOK
      <4> QED  BY <2>5, <2>7, <4>1, <4>2 DEF Writes
    <3> QED  BY <3>1, <3>2
  <2> QED  BY <2>6, <2>8, <2>9 DEF CopiesInv
<1>6. CASE StoreCopy(a)
  <2> DEFINE e == Copy(call[a].key)
  <2>1. call[a].key \in Keys /\ call[a].pc = "store"
    BY <1>1, <1>6 DEF StoreCopy, At, TypeOK
  <2>2. e \in Copies /\ e.until = now + TTL /\ e.expires = expires[call[a].key]
    BY <1>1, <2>1 DEF Copy, Copies, TypeOK
  <2> QED  BY <1>1, <1>6, <2>1, <2>2, CopyStep DEF StoreCopy
<1>7. CASE RequestRevoke(a)
  <2>1. PICK k \in Keys : call' = [call EXCEPT ![a] = [Idle EXCEPT !.pc = "update", !.key = k]]
    BY <1>7 DEF RequestRevoke
  <2> DEFINE r == [Idle EXCEPT !.pc = "update", !.key = k]
  <2>2. r \in CallStates /\ r.pc = "update" /\ r.key = k
    BY DEF Idle, CallStates, Steps
  <2>3. ops' \in 0..MaxOps
    BY <1>1, <1>7 DEF RequestRevoke
  <2> QED  BY <1>1, <1>7, <2>1, <2>2, <2>3, QuietStep DEF RequestRevoke
<1>8. CASE UpdateRevoked(a)
  <2>1. {call[a].key} \in SUBSET Keys
    BY <1>1, <1>8 DEF UpdateRevoked, At, TypeOK
  <2> QED  BY <1>1, <1>8, <2>1, RevokeStep DEF UpdateRevoked
<1>9. CASE DeleteCopy(a)
  <2>1. call[a].key \in Keys
    BY <1>1, <1>9 DEF DeleteCopy, At, TypeOK
  <2>2. Uncached \in Copies
    BY DEF Uncached, Copies
  <2> QED  BY <1>1, <1>9, <2>1, <2>2, CopyStep DEF DeleteCopy
<1>10. CASE RevokeAll(a)
  <2>1. {k \in Keys : row[k] # "absent"} \in SUBSET Keys
    OBVIOUS
  <2>2. ops' \in 0..MaxOps
    BY <1>1, <1>10 DEF RevokeAll
  <2> QED  BY <1>10, <2>1, <2>2, RevokeStep DEF RevokeAll
<1> QED  BY <1>2, <1>3, <1>4, <1>5, <1>6, <1>7, <1>8, <1>9, <1>10 DEF Administer

LEMMA TickStep ==
    ASSUME CopiesInv, Tick PROVE CopiesInv'
<1>1. TypeOK /\ now \in Nat /\ now' = now + 1 /\ now' \in 0..MaxTime
  BY DEF CopiesInv, TypeOK, Tick
<1>2. TypeOK'
  BY <1>1 DEF TypeOK, Tick, Rows
<1>3. \A k \in Keys : CopyOK(k)'
  <2> TAKE k \in Keys
  <2>1. CopyOK(k) /\ cache[k].until \in Nat /\ revokedAt[k] \in Nat
    BY <1>1 DEF CopiesInv, TypeOK, Copies
  <2> QED  BY <1>1, <2>1 DEF CopyOK, Tick, Rows
<1>4. \A c \in Calls : Writes(c)'
  <2> TAKE c \in Calls
  <2>1. Writes(c) /\ call[c].at \in Nat
    BY <1>1 DEF CopiesInv, TypeOK, CallStates
  <2> QED  BY <1>1, <2>1 DEF Writes, Tick, Rows
<1> QED  BY <1>2, <1>3, <1>4 DEF CopiesInv

LEMMA FaultStep ==
    ASSUME CopiesInv,
           \/ \E c \in Calls : CommandFails(c) \/ StatementFails(c)
           \/ \E a \in Admins : CountFails(a)
    PROVE  CopiesInv'
<1>1. TypeOK /\ ops \in 0..MaxOps /\ faults \in 0..MaxFaults
  BY DEF CopiesInv, TypeOK
<1>2. ASSUME NEW c \in Calls, CommandFails(c) PROVE CopiesInv'
  <2>1. faults' \in 0..MaxFaults
    BY <1>1, <1>2 DEF CommandFails, Fault
  <2>2. CASE At(c, "get") /\ Goto(c, "db")
    BY <1>1, <1>2, <2>1, <2>2, GotoStep DEF CommandFails, Steps, At, TypeOK
  <2>3. CASE Finish(c)
    BY <1>1, <1>2, <2>1, <2>3, FinishStep DEF CommandFails
  <2> QED  BY <1>2, <2>2, <2>3 DEF CommandFails
<1>3. ASSUME NEW c \in Calls, StatementFails(c) PROVE CopiesInv'
  <2>1. faults' \in 0..MaxFaults
    BY <1>1, <1>3 DEF StatementFails, Fault
  <2> QED  BY <1>1, <1>3, <2>1, FinishStep DEF StatementFails
<1>4. ASSUME NEW a \in Admins, CountFails(a) PROVE CopiesInv'
  <2>1. faults' \in 0..MaxFaults /\ a \in Calls
    BY <1>1, <1>4 DEF CountFails, Fault, Calls
  <2> QED  BY <1>1, <1>4, <2>1, GotoStep DEF CountFails, Steps
<1> QED  BY <1>2, <1>3, <1>4

LEMMA StutterStep ==
    ASSUME CopiesInv, UNCHANGED vars PROVE CopiesInv'
  BY DEF CopiesInv, TypeOK, CopyOK, Writes, vars

-----------------------------------------------------------------------------

\* ValidateKey, CreateKey and RevokeKey keep the invariant, for any number of
\* keys, requests, failures and any TTL.
THEOREM CopiesBounded == Spec => []CopiesInv
<1>1. CopiesInv /\ [Next]_vars => CopiesInv'
  BY ValidateStep, AdministerStep, TickStep, FaultStep, StutterStep DEF Next
<1> QED  BY InitCopies, <1>1, PTL DEF Spec

\* A request at work on a key names it, and all counters stay in bounds.
THEOREM ApiKeyTypes == Spec => []TypeOK
<1>1. CopiesInv => TypeOK
  BY DEF CopiesInv
<1> QED  BY CopiesBounded, <1>1, PTL

\* A revoked key is accepted by ValidateKey at most TTL + Delay after its
\* revocation: by a copy, which has ended by then, or by a request that read
\* the row before the revocation and takes at most Delay.  A copy is accepted
\* only before the expiry that the row has.
THEOREM KeyUseEnds == Spec => KeyUseBounded
<1>1. ASSUME CopiesInv, NEW v \in Validators, Served(v), row[call[v].key] = "revoked"
      PROVE  now <= revokedAt[call[v].key] + TTL + Delay
  <2> DEFINE k == call[v].key
  <2>1. v \in Calls /\ TypeOK /\ Writes(v)
    BY <1>1 DEF CopiesInv, Calls
  <2>2. call[v].pc \in {"get", "keep"}
    BY <1>1 DEF Served, ServeCached, At
  <2>3. k \in Keys
    BY <2>1, <2>2 DEF TypeOK
  <2>4. CopyOK(k) /\ now \in Nat /\ revokedAt[k] \in Nat /\ cache[k].until \in Nat /\ call[v].at \in Nat
    BY <1>1, <2>1, <2>3 DEF CopiesInv, TypeOK, Copies, CallStates
  <2>5. CASE ServeCached(v)
    BY <1>1, <2>4, <2>5 DEF ServeCached, GoodCopy, Cached, CopyOK
  <2>6. CASE At(v, "keep")
    BY <1>1, <2>1, <2>4, <2>6 DEF At, Writes
  <2> QED  BY <1>1, <2>5, <2>6 DEF Served
<1>2. ASSUME CopiesInv, NEW v \in Validators, ServeCached(v)
      PROVE  ~Past(expires[call[v].key])
  <2>1. call[v].key \in Keys
    BY <1>2 DEF CopiesInv, TypeOK, Calls, ServeCached, At
  <2>2. now \in Nat /\ CopyOK(call[v].key) /\ now < cache[call[v].key].until
    BY <1>2, <2>1 DEF CopiesInv, TypeOK, ServeCached, GoodCopy, Cached
  <2>3. cache[call[v].key].until # 0
    BY <2>2
  <2> QED  BY <1>2, <2>2, <2>3 DEF CopyOK, ServeCached, GoodCopy
<1>3. CopiesInv => [\A v \in Validators :
                      /\ Served(v) /\ row[call[v].key] = "revoked"
                           => now <= revokedAt[call[v].key] + TTL + Delay
                      /\ ServeCached(v) => ~Past(expires[call[v].key])]_vars
  BY <1>1, <1>2
<1> QED  BY CopiesBounded, <1>3, PTL DEF KeyUseBounded

-----------------------------------------------------------------------------
(* The composition. *)

\* A request that works on a key takes a step of ApiKeys.
LEMMA KeyRequestSteps ==
    ASSUME NEW a \in Admins, OnKey(a)
    PROVE  Next \/ UNCHANGED vars
<1>1. CASE FetchProject(a)
  BY <1>1 DEF FetchProject, NoKeyStep
<1>2. CASE AuthorizeKey(a)
  BY <1>2 DEF AuthorizeKey, Next, Administer
<1>3. CASE CheckMine(a)
  BY <1>3 DEF CheckMine, Next, Administer
<1>4. CASE InsertProjectKey(a)
  BY <1>4 DEF InsertProjectKey, Next, Administer
<1>5. CASE WorkOnKey(a)
  BY <1>5 DEF WorkOnKey, Next, Administer, Calls
<1> QED
  BY <1>1, <1>2, <1>3, <1>4, <1>5 DEF OnKey

\* Requests for projects and members leave the keys alone.
LEMMA ProjectRequestSteps ==
    ASSUME NEW a \in Admins,
           OnProject(a) \/ OnTenant(a) \/ OnMember(a) \/ ProjectStatementFails(a) \/ Ask(a)
    PROVE  UNCHANGED vars
<1>1. CASE OnProject(a)
  BY <1>1 DEF OnProject, CountProjects, InsertProject, AddCreator, CheckDefault, CountProjectKeys,
              ArchiveProject, ClearMembers, NoKeyStep
<1>2. CASE OnMember(a)
  BY <1>2 DEF OnMember, CheckTenantMember, CheckExisting, AddMember, ReadCurrent, SetRole,
              RemoveMember, CheckTarget, RemoveUser, WriteRole, NoKeyStep
<1>3. CASE ProjectStatementFails(a)
  BY <1>3 DEF ProjectStatementFails
<1>4. CASE Ask(a)
  BY <1>4 DEF Ask
<1>5. CASE OnTenant(a)
  BY <1>5 DEF OnTenant, AtOnce, InviteUser, AcceptInvitation, DenyInvitation, ChangeOrgRole
<1> QED
  BY <1>1, <1>2, <1>3, <1>4, <1>5

\* The deletion of the account revokes the keys and then removes projects.
LEMMA AccountRequestSteps ==
    ASSUME NEW a \in Admins, OnAccount(a)
    PROVE  Next \/ UNCHANGED vars
<1>1. CASE RevokeKeys(a)
  BY <1>1 DEF RevokeKeys, Next, Administer
<1>2. CASE WipeRoles(a) \/ WipeProjects(a) \/ WipeMembers(a)
  BY <1>2 DEF WipeRoles, WipeProjects, WipeMembers, NoKeyStep
<1> QED
  BY <1>1, <1>2 DEF OnAccount

\* The gateway's requests are those of ApiKeys.
LEMMA GatewaySteps == ASSUME Gateway PROVE Next
BY DEF Gateway, Next, Calls

\* A step of the composition is a step of ApiKeys, or none.
LEMMA StepsImplement == ASSUME [NextProjects]_allVars PROVE [Next]_vars
<1>1. ASSUME NextProjects PROVE Next \/ UNCHANGED vars
  BY <1>1, KeyRequestSteps, ProjectRequestSteps, AccountRequestSteps, GatewaySteps
     DEF NextProjects
<1> QED
  BY <1>1 DEF allVars

\* Projects implements ApiKeys: every behaviour of the composition is one of
\* apikey_service.go, the projects' handlers stuttering on the keys.
THEOREM ProjectsImplementApiKeys == SpecProjects => Spec
<1>1. [NextProjects]_allVars => [Next]_vars
  BY StepsImplement
<1>2. InitProjects => Init
  BY DEF InitProjects
<1> QED
  BY <1>1, <1>2, PTL DEF SpecProjects, Spec

\* In the composition, as in ApiKeys, ValidateKey accepts a revoked key at most
\* one TTL and one request after its revocation, and no expired one by a copy,
\* whoever may revoke it and whatever becomes of its project.
THEOREM KeyUseEndsInProjects == SpecProjects => KeyUseBounded
BY ProjectsImplementApiKeys, KeyUseEnds, PTL

-----------------------------------------------------------------------------
(* Projects and their members, while requests do not overlap and nothing   *)
(* fails.                                                                  *)

OneAtATime == \A a, b \in Admins : a = b

AskSteps == {"none", "project", "authorize", "mine", "key", "countProjects", "insertProject",
             "creator", "default", "countKeys", "archive", "clear", "tenantMember", "existing",
             "add", "current", "setRole", "remove", "target", "removeUser", "revokeKeys",
             "wipeRoles", "wipeProjects", "wipeMembers"}

AskStates == [pc : AskSteps, op : Op \cup {"none"}, by : User \cup {None}, as : OrgRole \cup {"none"},
              project : Project \cup {None}, on : User \cup Keys \cup {None}]

\* Who asks, and what a request is about, by its operation and step.
Shape(r) ==
    /\ r.pc # "none" => r.by \in User
    /\ r.op = "addMember" => r.on \in User
    /\ r.pc = "project" =>
         r.op \in {"createKey", "deleteProject", "addMember", "setRole", "removeMember"}

ProjectTypes ==
    /\ status \in [Project -> {"new", "active", "archived", "deleted"}]
    /\ role \in [Project -> [User -> ProjectRole \cup {"none"}]]
    /\ org \in [User -> OrgRole \cup {"none"}]
    /\ ask \in [Admins -> AskStates]
    /\ \A a \in Admins : Shape(ask[a])
    /\ slips \in Nat

\* A step leaves a role without its membership only where an invitation is denied.
RolesKept ==
    \A p \in Project, u \in User : role'[p][u] # "none" /\ org'[u] = "none"
       => \/ role[p][u] # "none" /\ org[u] = "none"
          \/ \E a \in Admins : DenyInvitation(a, u)

\* A project that does not exist, or no longer, has no members: this is why it
\* is enough that RemoveUser looks at the stored ones.
RolesStored == \A p \in Project \ Stored, u \in User : role[p][u] = "none"

NoRoles == \A p \in Project, u \in User : role[p][u] = "none"

\* What a request has checked still holds when it writes.
AskOK(a) ==
    /\ ask[a].pc \in {"tenantMember", "existing", "add"} =>
         ask[a].op = "addMember" /\ ask[a].project \in Stored
    /\ ask[a].pc \in {"existing", "add"} => org[ask[a].on] # "none"
    /\ ask[a].pc \in {"countProjects", "insertProject", "creator"} => org[ask[a].by] # "none"
    /\ AskAt(a, "creator") => ask[a].project \in Stored
    /\ ask[a].pc \in {"wipeProjects", "wipeMembers"} => NoRoles
    /\ ask[a].pc \in {"countKeys", "archive"} => ask[a].project # Default
    /\ AskAt(a, "archive") => KeysOf(ask[a].project) = {}

ProjectsInv == NoFailure => RolesStored /\ \A a \in Admins : AskOK(a)

ProjectsKept == ProjectsInv' /\ RolesKept

LEMMA AskMoves ==
    ASSUME ProjectTypes, NEW a \in Admins, NEW pc \in AskSteps, Step(a, pc)
    PROVE  /\ ask' \in [Admins -> AskStates]
           /\ ask'[a].pc = pc /\ ask'[a].op = ask[a].op /\ ask'[a].by = ask[a].by
           /\ ask'[a].project = ask[a].project /\ ask'[a].on = ask[a].on
           /\ \A b \in Admins \ {a} : ask'[b] = ask[b]
  BY DEF ProjectTypes, Step, AskStates

LEMMA AskEnds ==
    ASSUME ProjectTypes, NEW a \in Admins, Leave(a)
    PROVE  ask' \in [Admins -> AskStates] /\ ask'[a] = NoAsk /\ NoAsk.pc = "none"
           /\ \A b \in Admins \ {a} : ask'[b] = ask[b]
  BY DEF ProjectTypes, Leave, AskStates, AskSteps, NoAsk


\* The steps of projects keep the shape of the state.
LEMMA ProjectTypesStep ==
    ASSUME ProjectTypes, [NextProjects]_allVars
    PROVE  ProjectTypes'
<1>t. /\ status \in [Project -> {"new", "active", "archived", "deleted"}]
      /\ role \in [Project -> [User -> ProjectRole \cup {"none"}]]
      /\ org \in [User -> OrgRole \cup {"none"}]
      /\ ask \in [Admins -> AskStates] /\ slips \in Nat
      /\ \A a \in Admins : Shape(ask[a])
  BY DEF ProjectTypes
<1>0. ASSUME UNCHANGED <<status, role, org, ask, slips>> PROVE ProjectTypes'
  BY <1>0, <1>t DEF ProjectTypes
\* A role is written; there is no row for what is no project or no user.
<1>r. ASSUME NEW p, NEW u, NEW r,
             p \in Project /\ u \in User => r \in ProjectRole \cup {"none"},
             role' = [role EXCEPT ![p][u] = r]
      PROVE  role' \in [Project -> [User -> ProjectRole \cup {"none"}]]
  <2>1. CASE p \in Project
    <3>1. [role[p] EXCEPT ![u] = r] \in [User -> ProjectRole \cup {"none"}]
      <4>1. role[p] \in [User -> ProjectRole \cup {"none"}]
        BY <1>t, <2>1
      <4> QED
        BY <1>r, <2>1, <4>1
    <3> QED
      BY <1>r, <1>t, <2>1, <3>1
  <2>2. CASE p \notin Project
    BY <1>r, <1>t, <2>2
  <2> QED
    BY <2>1, <2>2
\* A step that is not the first of a request.
<1>m. ASSUME NEW a \in Admins,
             \/ Leave(a)
             \/ ask[a].pc # "none" /\ \E pc \in AskSteps \ {"project"} : Step(a, pc),
             status' \in [Project -> {"new", "active", "archived", "deleted"}],
             role' \in [Project -> [User -> ProjectRole \cup {"none"}]],
             org' \in [User -> OrgRole \cup {"none"}], slips' \in Nat
      PROVE  ProjectTypes'
  <2>1. CASE Leave(a)
    BY <1>m, <1>t, <2>1, AskEnds DEF ProjectTypes, Shape, NoAsk
  <2>2. CASE ask[a].pc # "none" /\ \E pc \in AskSteps \ {"project"} : Step(a, pc)
    BY <1>m, <1>t, <2>2, AskMoves DEF ProjectTypes, Shape
  <2> QED
    BY <1>m, <2>1, <2>2
<1>1. ASSUME NEW a \in Admins, Ask(a) PROVE ProjectTypes'
  <2>1. PICK op \in Op, by \in User : \E target \in Targets(op) :
           /\ May(by, op)
           /\ ask' = [ask EXCEPT ![a] = [pc |-> FirstStep(op), op |-> op, by |-> by, as |-> org[by],
                                         project |-> target[1], on |-> target[2]]]
    BY <1>1 DEF Ask
  <2>2. PICK target \in Targets(op) :
           ask' = [ask EXCEPT ![a] = [pc |-> FirstStep(op), op |-> op, by |-> by, as |-> org[by],
                                      project |-> target[1], on |-> target[2]]]
    BY <2>1
  <2>3. target[1] \in Project \cup {None} /\ target[2] \in User \cup Keys \cup {None}
    BY <2>2, OpAssumption DEF Targets, Stored
  <2>4. FirstStep(op) \in AskSteps
    BY DEF FirstStep, AskSteps
  <2>5. ask' \in [Admins -> AskStates]
    BY <1>t, <2>2, <2>3, <2>4 DEF AskStates
  <2>6. FirstStep(op) = "project" =>
          op \in {"createKey", "deleteProject", "addMember", "setRole", "removeMember"}
    BY OpAssumption DEF FirstStep
  <2>7. op = "addMember" => target[2] \in User
    BY <2>2 DEF Targets
  <2>8. \A b \in Admins : Shape(ask'[b])
    BY <1>t, <2>2, <2>6, <2>7 DEF Shape
  <2> QED
    BY <1>1, <1>t, <2>5, <2>8 DEF Ask, projectVars, ProjectTypes
<1>2. ASSUME NEW a \in Admins, OnKey(a) PROVE ProjectTypes'
  <2>1. CASE FetchProject(a)
    <3>1. Leave(a) \/ Step(a, "authorize") \/ Step(a, "default") \/ Step(a, "tenantMember")
          \/ Step(a, "current") \/ Step(a, "remove")
      BY <1>t, <2>1 DEF FetchProject, StepIf, AskAt, Shape
    <3> QED
      BY <1>m, <1>t, <2>1, <3>1 DEF FetchProject, projectVars, NoKeyStep, AskSteps, AskAt
  <2>2. CASE AuthorizeKey(a) \/ CheckMine(a)
    BY <1>m, <1>t, <2>2 DEF AuthorizeKey, CheckMine, projectVars, AskSteps, AskAt
  <2>3. CASE InsertProjectKey(a) \/ WorkOnKey(a)
    BY <1>0, <1>m, <1>t, <2>3 DEF InsertProjectKey, WorkOnKey, KeyStep, projectVars
  <2> QED
    BY <1>2, <2>1, <2>2, <2>3 DEF OnKey
<1>3. ASSUME NEW a \in Admins, OnProject(a) PROVE ProjectTypes'
  <2>1. CASE CountProjects(a) \/ CheckDefault(a) \/ CountProjectKeys(a)
    BY <1>m, <1>t, <2>1 DEF CountProjects, CheckDefault, CountProjectKeys, StepIf, projectVars,
       NoKeyStep, AskSteps, AskAt
  <2>2. CASE InsertProject(a)
    <3>1. CASE Leave(a) /\ UNCHANGED status
      BY <1>m, <1>t, <2>2, <3>1 DEF InsertProject, NoKeyStep
    <3>2. CASE \E p \in Project :
                 /\ status[p] = "new"
                 /\ status' = [status EXCEPT ![p] = "active"]
                 /\ ask' = [ask EXCEPT ![a].pc = "creator", ![a].project = p]
      <4>1. PICK p \in Project :
               /\ status' = [status EXCEPT ![p] = "active"]
               /\ ask' = [ask EXCEPT ![a] = [ask[a] EXCEPT !.pc = "creator", !.project = p]]
        BY <3>2
      <4>2. [ask[a] EXCEPT !.pc = "creator", !.project = p] \in AskStates
        <5>1. ask[a] \in AskStates /\ "creator" \in AskSteps
          BY <1>t DEF AskSteps
        <5> QED
          BY ONLY <5>1, p \in Project DEF AskStates
      <4>3. /\ ask' \in [Admins -> AskStates] /\ ask'[a].pc = "creator"
            /\ ask'[a].op = ask[a].op /\ ask'[a].by = ask[a].by /\ ask'[a].on = ask[a].on
            /\ \A b \in Admins \ {a} : ask'[b] = ask[b]
        BY <1>t, <4>1, <4>2 DEF AskStates
      <4>4. status' \in [Project -> {"new", "active", "archived", "deleted"}]
        BY <1>t, <4>1
      <4> QED
        BY <1>t, <2>2, <4>3, <4>4 DEF InsertProject, NoKeyStep, ProjectTypes, Shape, AskAt
    <3> QED
      BY <2>2, <3>1, <3>2 DEF InsertProject
  <2>3. CASE AddCreator(a)
    <3>1. "project_admin" \in ProjectRole
      BY DEF ProjectRole
    <3> QED
      BY <1>m, <1>t, <2>3, <3>1, <1>r DEF AddCreator, NoKeyStep
  <2>4. CASE ArchiveProject(a)
    <3>1. status' \in [Project -> {"new", "active", "archived", "deleted"}]
      BY <1>t, <2>4 DEF ArchiveProject
    <3> QED
      BY <1>m, <1>t, <2>4, <3>1 DEF ArchiveProject, NoKeyStep, AskSteps, AskAt
  <2>5. CASE ClearMembers(a)
    <3>1. role' \in [Project -> [User -> ProjectRole \cup {"none"}]]
      BY <1>t, <2>5 DEF ClearMembers
    <3> QED
      BY <1>m, <1>t, <2>5, <3>1 DEF ClearMembers, NoKeyStep
  <2> QED
    BY <1>3, <2>1, <2>2, <2>3, <2>4, <2>5 DEF OnProject
<1>4. ASSUME NEW a \in Admins, OnMember(a) PROVE ProjectTypes'
  <2>1. CASE CheckTenantMember(a) \/ CheckExisting(a) \/ ReadCurrent(a) \/ CheckTarget(a)
    BY <1>m, <1>t, <2>1 DEF CheckTenantMember, CheckExisting, ReadCurrent, CheckTarget, StepIf,
       projectVars, NoKeyStep, AskSteps, AskAt
  <2>2. CASE AddMember(a) \/ SetRole(a) \/ RemoveMember(a)
    <3>1. PICK r : /\ r \in ProjectRole \cup {"none"} \/ r = Member(a)
                   /\ role' = [role EXCEPT ![ask[a].project][ask[a].on] = r]
      BY <2>2 DEF AddMember, SetRole, RemoveMember, WriteRole
    <3>2. ask[a].project \in Project /\ ask[a].on \in User => r \in ProjectRole \cup {"none"}
      BY <1>t, <3>1 DEF Member
    <3>3. role' \in [Project -> [User -> ProjectRole \cup {"none"}]]
      BY <1>r, <3>1, <3>2
    <3> QED
      BY <1>m, <1>t, <2>2, <3>3 DEF AddMember, SetRole, RemoveMember, WriteRole, NoKeyStep
  <2>3. CASE RemoveUser(a)
    BY <1>m, <1>t, <2>3 DEF RemoveUser, NoKeyStep
  <2> QED
    BY <1>4, <2>1, <2>2, <2>3 DEF OnMember
<1>5. ASSUME NEW a \in Admins, OnAccount(a) PROVE ProjectTypes'
  BY <1>5, <1>m, <1>t DEF OnAccount, RevokeKeys, WipeRoles, WipeProjects, WipeMembers, projectVars,
     NoKeyStep, AskSteps, AskAt
<1>6. ASSUME NEW a \in Admins, ProjectStatementFails(a) PROVE ProjectTypes'
  <2>1. \A pc \in DOMAIN Unchecked : Unchecked[pc] \in AskSteps \ {"project"}
    BY DEF Unchecked, AskSteps
  <2>2. "none" \notin DOMAIN Unchecked
    BY DEF Unchecked
  <2> QED
    BY <1>6, <1>m, <1>t, <2>1, <2>2 DEF ProjectStatementFails, projectVars
<1>7. ASSUME NEW a \in Admins, OnTenant(a) PROVE ProjectTypes'
  <2>1. UNCHANGED <<status, role, ask, slips>>
    BY <1>7 DEF OnTenant, AtOnce, InviteUser, AcceptInvitation, DenyInvitation, ChangeOrgRole
  <2>2. org' \in [User -> OrgRole \cup {"none"}]
    <3>1. CASE InviteUser(a)
      BY <1>t, <3>1 DEF InviteUser, OrgRole
    <3>2. CASE AcceptInvitation(a) \/ ChangeOrgRole(a) \/ \E u \in User : DenyInvitation(a, u)
      BY <1>t, <3>2 DEF AcceptInvitation, ChangeOrgRole, DenyInvitation
    <3> QED
      BY <1>7, <3>1, <3>2 DEF OnTenant
  <2> QED
    BY <1>t, <2>1, <2>2 DEF ProjectTypes
<1>8. CASE Gateway
  BY <1>0, <1>8 DEF Gateway, projectVars
<1>9. CASE UNCHANGED allVars
  BY <1>0, <1>9 DEF allVars, projectVars
<1> QED
  BY <1>1, <1>2, <1>3, <1>4, <1>5, <1>6, <1>7, <1>8, <1>9 DEF NextProjects


\* Without a failure so far there was none before.
LEMMA NoFailureBefore ==
    ASSUME TypeOK, TypeOK', ProjectTypes, ProjectTypes', NoFailure', [NextProjects]_allVars
    PROVE  NoFailure /\ faults' = faults /\ slips' = slips
<1>1. faults \in Nat /\ slips \in Nat /\ faults' \in Nat /\ slips' \in Nat
  <2>1. faults \in 0..MaxFaults /\ faults' \in 0..MaxFaults
    BY DEF TypeOK
  <2>2. slips \in Nat /\ slips' \in Nat
    BY DEF ProjectTypes
  <2> QED
    BY <2>1, <2>2, BoundsAssumption
<1>2. faults' = 0 /\ slips' = 0
  <2>1. faults' + slips' = 0
    BY DEF NoFailure
  <2> QED
    <3>1. \A x, y \in Nat : x + y = 0 => x = 0 /\ y = 0
      OBVIOUS
    <3> QED
      BY <1>1, <2>1, <3>1
<1>3. faults' = faults \/ faults' = faults + 1
  <2>1. [Next]_vars
    BY StepsImplement
  <2> QED
    BY <2>1 DEF Next, Validate, Present, ServeCached, RefuseCached, Miss, ReadRow, RefuseRow,
       ServeRow, Administer, RequestCreate, CountKeys, RecountKeys, InsertKey, StoreCopy,
       RequestRevoke, UpdateRevoked, DeleteCopy, RevokeAll, Tick, CommandFails, StatementFails,
       CountFails, Fault, vars
<1>4. slips' = slips \/ slips' = slips + 1
  BY DEF NextProjects, allVars, Ask, OnKey, OnProject, OnTenant, OnMember, OnAccount,
     ProjectStatementFails, AtOnce, InviteUser, AcceptInvitation, DenyInvitation, ChangeOrgRole, Gateway, FetchProject, AuthorizeKey, CheckMine, InsertProjectKey, WorkOnKey, KeyStep,
     CountProjects, InsertProject, AddCreator, CheckDefault, CountProjectKeys, ArchiveProject,
     ClearMembers, CheckTenantMember, CheckExisting, AddMember, ReadCurrent, SetRole,
     RemoveMember, CheckTarget, RemoveUser, WriteRole, RevokeKeys, WipeRoles, WipeProjects,
     WipeMembers, NoKeyStep
<1> QED
  BY <1>1, <1>2, <1>3, <1>4 DEF NoFailure

\* Every step of the one administrator, when nothing fails, keeps the roles
\* with the members and the keys with the projects in use.
LEMMA ProjectsStep ==
    ASSUME OneAtATime, ProjectTypes, ProjectTypes', NoFailure, ProjectsInv, [NextProjects]_allVars,
           slips' = slips, faults' = faults, TypeOK
    PROVE  ProjectsKept
<1>t. /\ status \in [Project -> {"new", "active", "archived", "deleted"}]
      /\ role \in [Project -> [User -> ProjectRole \cup {"none"}]]
      /\ org \in [User -> OrgRole \cup {"none"}]
      /\ ask \in [Admins -> AskStates] /\ slips \in Nat
      /\ RolesStored /\ \A a \in Admins : AskOK(a)
  BY DEF ProjectTypes, ProjectsInv
\* The goal, for the one administrator.
<1>g. ASSUME NEW a \in Admins, RolesKept, RolesStored', AskOK(a)' PROVE ProjectsKept
  BY <1>g DEF OneAtATime, ProjectsInv, ProjectsKept
<1>s. ASSUME UNCHANGED <<status, role, org>> PROVE RolesKept /\ RolesStored'
  BY <1>s, <1>t DEF RolesKept, RolesStored, Stored
\* The end of a request.
<1>l. ASSUME NEW a \in Admins, Leave(a), RolesKept, RolesStored' PROVE ProjectsKept
  <2>1. ask'[a].pc = "none"
    BY <1>l, AskEnds
  <2> QED
    BY <1>g, <1>l, <2>1 DEF AskOK, AskAt
<1>1. ASSUME NEW a \in Admins, Ask(a) PROVE ProjectsKept
  <2>1. PICK op \in Op, by \in User :
           /\ May(by, op)
           /\ ask'[a].pc = FirstStep(op) /\ ask'[a].op = op /\ ask'[a].by = by
    BY <1>1, <1>t DEF Ask
  <2>2. ask'[a].pc = "countProjects" => org[by] # "none"
    BY <2>1, OpAssumption DEF May, FirstStep, MinRole, RoleLevel
  <2>3. ask'[a].pc \in {"project", "mine", "countProjects", "target", "revokeKeys"}
    BY <2>1 DEF FirstStep
  <2>4. UNCHANGED <<status, role, org>>
    BY <1>1 DEF Ask, projectVars
  <2> QED
    BY <1>g, <1>s, <2>1, <2>2, <2>3, <2>4 DEF AskOK, AskAt
<1>2. ASSUME NEW a \in Admins, OnKey(a) PROVE ProjectsKept
  <2>0. UNCHANGED <<status, role, org>>
    BY <1>2 DEF OnKey, FetchProject, AuthorizeKey, CheckMine, InsertProjectKey, WorkOnKey, projectVars
  <2>1. CASE FetchProject(a)
    <3>1. \/ Leave(a)
          \/ /\ ask[a].project \in Stored
             /\ \/ Step(a, "authorize") \/ Step(a, "default")
                \/ Step(a, "tenantMember") /\ ask[a].op = "addMember"
                \/ Step(a, "current") \/ Step(a, "remove")
      BY <2>1 DEF FetchProject, StepIf, ProjectTypes, AskAt, Shape
    <3>2. ASSUME ask[a].project \in Stored, NEW pc \in {"authorize", "default", "tenantMember", "current", "remove"},
                 Step(a, pc), pc = "tenantMember" => ask[a].op = "addMember"
          PROVE  ProjectsKept
      <4>1. ask'[a].pc = pc /\ ask'[a].project = ask[a].project /\ ask'[a].op = ask[a].op
        BY <3>2, AskMoves DEF AskSteps
      <4> QED
        BY <1>g, <1>s, <2>0, <3>2, <4>1 DEF AskOK, AskAt, Stored
    <3> QED
      BY <1>l, <1>s, <2>0, <3>1, <3>2
  <2>2. ASSUME Step(a, "key") PROVE ProjectsKept
    <3>1. ask'[a].pc = "key"
      BY <2>2, AskMoves DEF AskSteps
    <3> QED
      BY <1>g, <1>s, <2>0, <3>1 DEF AskOK, AskAt
  <2>3. CASE AuthorizeKey(a) \/ CheckMine(a)
    BY <1>l, <1>s, <2>0, <2>2, <2>3 DEF AuthorizeKey, CheckMine
  <2>4. CASE InsertProjectKey(a) \/ WorkOnKey(a)
    <3>1. Leave(a) \/ (ask' = ask /\ ask[a].pc = "key")
      BY <2>4 DEF InsertProjectKey, WorkOnKey, KeyStep, AskAt
    <3> QED
      BY <1>g, <1>l, <1>s, <2>0, <3>1 DEF AskOK, AskAt
  <2> QED
    BY <1>2, <2>1, <2>3, <2>4 DEF OnKey
\* Roles that are written for members only, in stored projects.
<1>r. ASSUME NEW p, NEW u, NEW r, role' = [role EXCEPT ![p][u] = r],
             UNCHANGED <<status, org>>,
             r # "none" /\ p \in Project /\ u \in User
               => (org[u] # "none" \/ role[p][u] # "none") /\ p \in Stored
      PROVE  RolesKept /\ RolesStored'
  <2>1. \A q \in Project, v \in User :
          role'[q][v] = IF q = p /\ v = u THEN r ELSE role[q][v]
    BY <1>r, <1>t
  <2>2. Stored' = Stored
    BY <1>r DEF Stored
  <2> QED
    BY <1>r, <1>t, <2>1, <2>2 DEF RolesKept, RolesStored
<1>3. ASSUME NEW a \in Admins, OnProject(a) PROVE ProjectsKept
  <2>k. ASSUME NEW pc \in {"insertProject", "countKeys", "archive", "clear"}, Step(a, pc)
        PROVE  /\ ask'[a].pc = pc /\ ask'[a].by = ask[a].by /\ ask'[a].project = ask[a].project
    BY <2>k, AskMoves DEF AskSteps
  <2>1. CASE CountProjects(a)
    <3>0. UNCHANGED <<status, role, org>>
      BY <2>1 DEF CountProjects, projectVars
    <3>1. CASE Leave(a)
      BY <1>l, <1>s, <3>0, <3>1
    <3>2. CASE Step(a, "insertProject")
      <4>1. ask'[a].pc = "insertProject" /\ ask'[a].by = ask[a].by /\ ask[a].pc = "countProjects"
        BY <2>1, <2>k, <3>2 DEF CountProjects, AskAt
      <4> QED
        BY <1>g, <1>s, <1>t, <3>0, <4>1 DEF AskOK, AskAt
    <3> QED
      BY <2>1, <3>1, <3>2 DEF CountProjects, StepIf
  <2>2. CASE InsertProject(a)
    <3>0. UNCHANGED <<role, org>> /\ ask[a].pc = "insertProject"
      BY <2>2 DEF InsertProject, AskAt
    <3>1. CASE Leave(a) /\ UNCHANGED status
      BY <1>l, <1>s, <3>0, <3>1
    <3>2. CASE \E p \in Project :
                 /\ status[p] = "new"
                 /\ status' = [status EXCEPT ![p] = "active"]
                 /\ ask' = [ask EXCEPT ![a].pc = "creator", ![a].project = p]
      <4>1. PICK p \in Project :
               /\ status' = [status EXCEPT ![p] = "active"]
               /\ ask' = [ask EXCEPT ![a] = [ask[a] EXCEPT !.pc = "creator", !.project = p]]
        BY <3>2
      <4>2. ask'[a].pc = "creator" /\ ask'[a].project = p /\ ask'[a].by = ask[a].by
        BY <1>t, <4>1 DEF AskStates
      <4>3. p \in Stored' /\ Stored \subseteq Stored'
        BY <1>t, <4>1 DEF Stored
      <4>4. RolesKept /\ RolesStored'
        BY <1>t, <3>0, <4>3 DEF RolesKept, RolesStored
      <4>5. AskOK(a)'
        BY <1>t, <3>0, <4>2, <4>3 DEF AskOK, AskAt
      <4> QED
        BY <1>g, <4>4, <4>5
    <3> QED
      BY <2>2, <3>1, <3>2 DEF InsertProject
  <2>3. CASE AddCreator(a)
    <3>1. org[ask[a].by] # "none" /\ ask[a].project \in Stored
      BY <1>t, <2>3 DEF AddCreator, AskOK, AskAt
    <3> QED
      BY <1>l, <1>r, <2>3, <3>1 DEF AddCreator
  <2>4. CASE CheckDefault(a) \/ CountProjectKeys(a)
    <3>0. UNCHANGED <<status, role, org, row, origin>>
      BY <2>4 DEF CheckDefault, CountProjectKeys, projectVars, NoKeyStep, vars
    <3>1. CASE Leave(a)
      BY <1>l, <1>s, <3>0, <3>1
    <3>2. CASE Step(a, "countKeys") /\ ask[a].project # Default
      <4>1. ask'[a].pc = "countKeys" /\ ask'[a].project = ask[a].project
        BY <2>k, <3>2
      <4> QED
        BY <1>g, <1>s, <3>0, <3>2, <4>1 DEF AskOK, AskAt
    <3>3. CASE Step(a, "archive") /\ AskAt(a, "countKeys") /\ KeysOf(ask[a].project) = {}
      <4>1. ask'[a].pc = "archive" /\ ask'[a].project = ask[a].project
        BY <2>k, <3>3
      <4>2. ask'[a].project # Default /\ KeysOf(ask[a].project)' = {}
        BY <1>t, <3>0, <3>3, <4>1 DEF AskOK, AskAt, KeysOf
      <4> QED
        BY <1>g, <1>s, <3>0, <4>1, <4>2 DEF AskOK, AskAt
    <3> QED
      BY <2>4, <3>1, <3>2, <3>3 DEF CheckDefault, CountProjectKeys, StepIf
  <2>5. CASE ArchiveProject(a)
    <3>1. Stored' = Stored
      BY <1>t, <2>5 DEF ArchiveProject, Stored
    <3>2. RolesKept /\ RolesStored'
      BY <1>t, <2>5, <3>1 DEF ArchiveProject, RolesKept, RolesStored
    <3>3. ask'[a].pc = "clear"
      BY <2>5, <2>k DEF ArchiveProject
    <3> QED
      BY <1>g, <3>2, <3>3 DEF AskOK, AskAt
  <2>6. CASE ClearMembers(a)
    <3>1. \A q \in Project, u \in User : role'[q][u] \in {role[q][u], "none"}
      BY <1>t, <2>6 DEF ClearMembers
    <3>2. UNCHANGED <<status, org>>
      BY <2>6 DEF ClearMembers
    <3>3. RolesKept /\ RolesStored'
      BY <1>t, <3>1, <3>2 DEF RolesKept, RolesStored, Stored
    <3> QED
      BY <1>l, <2>6, <3>3 DEF ClearMembers
  <2> QED
    BY <1>3, <2>1, <2>2, <2>3, <2>4, <2>5, <2>6 DEF OnProject
<1>4. ASSUME NEW a \in Admins, OnMember(a) PROVE ProjectsKept
  <2>1. CASE CheckTenantMember(a) \/ CheckExisting(a) \/ ReadCurrent(a) \/ CheckTarget(a)
    <3>0. UNCHANGED <<status, role, org>>
      BY <2>1 DEF CheckTenantMember, CheckExisting, ReadCurrent, CheckTarget, projectVars
    <3>1. CASE Leave(a)
      BY <1>l, <1>s, <3>0, <3>1
    <3>2. ASSUME NEW pc \in {"existing", "add"}, Step(a, pc), ask[a].project \in Stored,
                 org[ask[a].on] # "none", ask[a].op = "addMember"
          PROVE  ProjectsKept
      <4>1. /\ ask'[a].pc = pc /\ ask'[a].project = ask[a].project /\ ask'[a].on = ask[a].on
            /\ ask'[a].op = ask[a].op
        BY <3>2, AskMoves DEF AskSteps
      <4> QED
        BY <1>g, <1>s, <3>0, <3>2, <4>1 DEF AskOK, AskAt, Stored
    <3>3. ASSUME NEW pc \in {"setRole", "removeUser"}, Step(a, pc) PROVE ProjectsKept
      <4>1. ask'[a].pc = pc
        BY <3>3, AskMoves DEF AskSteps
      <4> QED
        BY <1>g, <1>s, <3>0, <4>1 DEF AskOK, AskAt
    <3>4. CASE CheckTenantMember(a)
      <4>1. ask[a].project \in Stored /\ ask[a].op = "addMember"
        BY <1>t, <3>4 DEF CheckTenantMember, AskOK, AskAt
      <4> QED
        BY <3>1, <3>2, <3>4, <4>1 DEF CheckTenantMember, StepIf
    <3>5. CASE CheckExisting(a)
      <4>1. ask[a].project \in Stored /\ org[ask[a].on] # "none" /\ ask[a].op = "addMember"
        BY <1>t, <3>5 DEF CheckExisting, AskOK, AskAt
      <4> QED
        BY <3>1, <3>2, <3>5, <4>1 DEF CheckExisting, StepIf
    <3> QED
      BY <2>1, <3>1, <3>3, <3>4, <3>5 DEF ReadCurrent, CheckTarget, StepIf
  <2>2. CASE AddMember(a)
    <3>1. PICK r : role' = [role EXCEPT ![ask[a].project][ask[a].on] = r]
      BY <2>2 DEF AddMember, WriteRole
    <3>2. org[ask[a].on] # "none" /\ ask[a].project \in Stored
      BY <1>t, <2>2 DEF AddMember, AskOK, AskAt
    <3> QED
      BY <1>l, <1>r, <2>2, <3>1, <3>2 DEF AddMember, WriteRole
  <2>3. CASE SetRole(a) \/ RemoveMember(a)
    <3>1. PICK r : /\ role' = [role EXCEPT ![ask[a].project][ask[a].on] = r]
                   /\ r # "none" => Member(a) # "none"
      BY <2>3 DEF SetRole, RemoveMember, WriteRole
    <3>2. r # "none" /\ ask[a].project \in Project /\ ask[a].on \in User
            => Member(a) # "none" /\ ask[a].project \in Stored
      BY <1>t, <3>1 DEF Member, RolesStored
    <3> QED
      BY <1>l, <1>r, <2>3, <3>1, <3>2 DEF SetRole, RemoveMember, WriteRole, Member
  <2>4. CASE RemoveUser(a)
    <3>1. /\ \A u \in User : u # ask[a].on => org'[u] = org[u]
          /\ \A q \in Project, u \in User : role'[q][u] \in {role[q][u], "none"}
          /\ \A q \in Stored : ask[a].on \in User => role'[q][ask[a].on] = "none"
          /\ status' = status
      BY <1>t, <2>4 DEF RemoveUser, Stored
    <3>2. RolesKept /\ RolesStored'
      BY <1>t, <3>1 DEF RolesKept, RolesStored, Stored
    <3> QED
      BY <1>l, <2>4, <3>2 DEF RemoveUser
  <2> QED
    BY <1>4, <2>1, <2>2, <2>3, <2>4 DEF OnMember
<1>5. ASSUME NEW a \in Admins, OnAccount(a) PROVE ProjectsKept
  <2>k. ASSUME NEW pc \in {"wipeRoles", "wipeProjects", "wipeMembers"}, Step(a, pc)
        PROVE  ask'[a].pc = pc
    BY <2>k, AskMoves DEF AskSteps
  <2>n. NoRoles' => RolesKept /\ RolesStored'
    BY DEF NoRoles, RolesKept, RolesStored
  <2>1. CASE RevokeKeys(a)
    <3>1. UNCHANGED <<status, role, org>> /\ ask'[a].pc = "wipeRoles"
      BY <2>1, <2>k DEF RevokeKeys, projectVars
    <3> QED
      BY <1>g, <1>s, <3>1 DEF AskOK, AskAt
  <2>2. CASE WipeRoles(a)
    <3>1. NoRoles' /\ ask'[a].pc = "wipeProjects"
      BY <1>t, <2>2, <2>k DEF WipeRoles, NoRoles, RolesStored
    <3> QED
      BY <1>g, <2>n, <3>1 DEF AskOK, AskAt
  <2>3. CASE WipeProjects(a)
    <3>1. NoRoles' /\ ask'[a].pc = "wipeMembers"
      BY <1>t, <2>3, <2>k DEF WipeProjects, AskOK, AskAt, NoRoles
    <3> QED
      BY <1>g, <2>n, <3>1 DEF AskOK, AskAt
  <2>4. CASE WipeMembers(a)
    <3>1. NoRoles'
      BY <1>t, <2>4 DEF WipeMembers, AskOK, AskAt, NoRoles
    <3> QED
      BY <1>l, <2>4, <2>n, <3>1 DEF WipeMembers
  <2> QED
    BY <1>5, <2>1, <2>2, <2>3, <2>4 DEF OnAccount
<1>6. ASSUME NEW a \in Admins, ProjectStatementFails(a) PROVE FALSE
  BY <1>6, <1>t DEF ProjectStatementFails
\* The answer to an invitation and the like: the administrator is in no request.
<1>7. ASSUME NEW a \in Admins, OnTenant(a) PROVE ProjectsKept
  <2>1. UNCHANGED <<status, role, ask>> /\ ask[a].pc = "none"
    BY <1>7 DEF OnTenant, AtOnce, InviteUser, AcceptInvitation, DenyInvitation, ChangeOrgRole, NoAsk
  <2>2. AskOK(a)' /\ RolesStored'
    BY <1>t, <2>1 DEF AskOK, AskAt, RolesStored, Stored
  <2>3. ASSUME NEW u \in User, org'[u] = "none" PROVE org[u] = "none" \/ DenyInvitation(a, u)
    <3>1. CASE InviteUser(a)
      BY <1>t, <2>3, <3>1 DEF InviteUser
    <3>2. CASE AcceptInvitation(a)
      BY <2>3, <3>2 DEF AcceptInvitation
    <3>3. CASE ChangeOrgRole(a)
      BY <1>t, <2>3, <3>3 DEF ChangeOrgRole, OrgRole
    <3>4. ASSUME NEW v \in User, DenyInvitation(a, v)
          PROVE  org[u] = "none" \/ DenyInvitation(a, u)
      <4>1. CASE u = v
        BY <3>4, <4>1
      <4>2. CASE u # v
        BY <1>t, <2>3, <3>4, <4>2 DEF DenyInvitation
      <4> QED
        BY <4>1, <4>2
    <3> QED
      BY <1>7, <3>1, <3>2, <3>3, <3>4 DEF OnTenant
  <2>4. RolesKept
    BY <2>1, <2>3 DEF RolesKept
  <2> QED
    BY <1>g, <2>2, <2>4
\* Steps of no administrator.
<1>o. ASSUME UNCHANGED <<status, role, org, ask, origin, row>> PROVE ProjectsKept
  <2>1. \A a \in Admins : AskOK(a)'
    BY <1>o, <1>t DEF AskOK, AskAt, Stored, NoRoles, KeysOf
  <2> QED
    BY <1>o, <1>s, <2>1 DEF ProjectsInv, ProjectsKept
<1>8. CASE Gateway
  <2>1. row' = row
    BY <1>8 DEF Gateway, Validate, Present, ServeCached, RefuseCached, Miss, ReadRow, RefuseRow,
       ServeRow, CommandFails, StatementFails, Tick, Rows
  <2> QED
    BY <1>8, <1>o, <2>1 DEF Gateway, projectVars
<1>9. CASE UNCHANGED allVars
  BY <1>9, <1>o DEF allVars, projectVars, vars
<1> QED
  BY <1>1, <1>2, <1>3, <1>4, <1>5, <1>6, <1>7, <1>8, <1>9 DEF NextProjects


\* The invariant of the projects holds of every behaviour with one administrator.
LEMMA ProjectsInvariant ==
    ASSUME OneAtATime
    PROVE  SpecProjects => [](ProjectTypes /\ ProjectsInv)
<1>1. InitProjects => ProjectTypes /\ ProjectsInv
  <2> SUFFICES ASSUME InitProjects PROVE ProjectTypes /\ ProjectsInv
    OBVIOUS
  <2>1. NoAsk \in AskStates /\ Shape(NoAsk) /\ NoAsk.pc = "none"
    BY DEF NoAsk, AskStates, AskSteps, Shape
  <2>2. "project_admin" \in ProjectRole /\ {"owner", "editor"} \subseteq OrgRole
    BY DEF ProjectRole, OrgRole
  <2>3. ProjectTypes
    BY <2>1, <2>2 DEF InitProjects, ProjectTypes
  <2>4. RolesStored
    BY ProjectsAssumption DEF InitProjects, RolesStored, Stored
  <2>5. \A a \in Admins : AskOK(a)
    BY <2>1 DEF InitProjects, AskOK, AskAt
  <2> QED
    BY <2>3, <2>4, <2>5 DEF ProjectsInv
<1>2. TypeOK /\ TypeOK' /\ ProjectTypes /\ ProjectsInv /\ [NextProjects]_allVars
        => ProjectTypes' /\ ProjectsInv'
  <2> SUFFICES ASSUME TypeOK, TypeOK', ProjectTypes, ProjectsInv, [NextProjects]_allVars
               PROVE  ProjectTypes' /\ ProjectsInv'
    OBVIOUS
  <2>1. ProjectTypes'
    BY ProjectTypesStep
  <2>2. ASSUME NoFailure' PROVE ProjectsInv'
    <3>1. NoFailure /\ faults' = faults /\ slips' = slips
      BY <2>1, <2>2, NoFailureBefore
    <3> QED
      BY <2>1, <3>1, ProjectsStep DEF ProjectsKept
  <2>3. ~NoFailure' => ProjectsInv'
    BY DEF ProjectsInv
  <2> QED
    BY <2>1, <2>2, <2>3
<1>3. SpecProjects => []TypeOK
  BY ProjectsImplementApiKeys, ApiKeyTypes, PTL
<1> QED
  BY <1>1, <1>2, <1>3, PTL DEF SpecProjects

\* handleRemoveUser, handleDeleteProject and handleDeleteAccount leave no role
\* behind: with one administrative request at a time and no failure, the denial
\* of an invitation (handleDenyInvitation) is the only step after which someone
\* has a role in a project and no membership of the tenant, and had not before,
\* for any number of projects, users and requests.
THEOREM RolesAreMembers ==
    ASSUME OneAtATime
    PROVE  SpecProjects => MembersBelong
<1>1. ASSUME TypeOK, TypeOK', ProjectTypes, ProjectTypes', ProjectsInv, [NextProjects]_allVars, NoFailure',
             NEW s \in Stray' \ Stray
      PROVE  \E a \in Admins : DenyInvitation(a, s[2])
  <2>1. NoFailure /\ faults' = faults /\ slips' = slips
    BY <1>1, NoFailureBefore
  <2>2. RolesKept
    BY <1>1, <2>1, ProjectsStep DEF ProjectsKept
  <2>3. PICK p \in Project, u \in User : s = <<p, u>>
    BY <1>1 DEF Stray
  <2>4. role'[p][u] # "none" /\ org'[u] = "none"
    BY <1>1, <2>3 DEF Stray
  <2>5. ~(role[p][u] # "none" /\ org[u] = "none")
    BY <1>1, <2>3 DEF Stray
  <2>6. \E a \in Admins : DenyInvitation(a, u)
    BY <2>2, <2>4, <2>5 DEF RolesKept
  <2> QED
    BY <2>3, <2>6
<1>2. TypeOK /\ TypeOK' /\ ProjectTypes /\ ProjectTypes' /\ ProjectsInv /\ [NextProjects]_allVars
        => [NoFailure' => \A s \in Stray' \ Stray : \E a \in Admins : DenyInvitation(a, s[2])]_allVars
  BY <1>1
<1>3. SpecProjects => []TypeOK
  BY ProjectsImplementApiKeys, ApiKeyTypes, PTL
<1> QED
  BY <1>2, <1>3, ProjectsInvariant, PTL DEF SpecProjects, MembersBelong

\* The step by which handleDeleteProject archives a project finds, under the same
\* conditions, every key created in it revoked, and a project that is not the
\* default one.  (Keys may be created in an archived project afterwards.)
THEOREM ArchivedProjectsAreEmpty ==
    ASSUME OneAtATime
    PROVE  SpecProjects => ArchivedEmpty
<1>1. ASSUME ProjectTypes, ProjectsInv, NextProjects
      PROVE  \A p \in Project : status[p] = "active" /\ status'[p] = "archived" /\ NoFailure
               => p # Default /\ KeysOf(p) = {}
  <2> SUFFICES ASSUME NEW p \in Project, status[p] = "active", status'[p] = "archived", NoFailure
               PROVE  p # Default /\ KeysOf(p) = {}
    OBVIOUS
  <2>t. /\ status \in [Project -> {"new", "active", "archived", "deleted"}]
        /\ \A a \in Admins : AskOK(a)
    BY <1>1 DEF ProjectTypes, ProjectsInv
  <2>1. ASSUME NEW a \in Admins, ArchiveProject(a) PROVE p # Default /\ KeysOf(p) = {}
    BY <2>1, <2>t DEF ArchiveProject, AskOK, AskAt
  <2>2. ASSUME NEW a \in Admins, InsertProject(a) \/ WipeProjects(a) PROVE FALSE
    BY <2>2, <2>t DEF InsertProject, WipeProjects
  <2>3. ASSUME \/ \E a \in Admins :
                    \/ Ask(a) \/ OnKey(a) \/ OnMember(a) \/ ProjectStatementFails(a) \/ OnTenant(a)
                    \/ CountProjects(a) \/ AddCreator(a) \/ CheckDefault(a) \/ CountProjectKeys(a)
                    \/ ClearMembers(a) \/ RevokeKeys(a) \/ WipeRoles(a) \/ WipeMembers(a)
               \/ Gateway
        PROVE  status' = status
    BY <2>3 DEF Ask, OnKey, OnMember, ProjectStatementFails, Gateway, projectVars, OnTenant, AtOnce,
       InviteUser, AcceptInvitation, DenyInvitation, ChangeOrgRole,
       FetchProject, AuthorizeKey, CheckMine, InsertProjectKey, WorkOnKey, CountProjects,
       AddCreator, CheckDefault, CountProjectKeys, ClearMembers, CheckTenantMember, CheckExisting,
       AddMember, ReadCurrent, SetRole, RemoveMember, CheckTarget, RemoveUser, WriteRole,
       RevokeKeys, WipeRoles, WipeMembers
  <2> QED
    BY <1>1, <2>1, <2>2, <2>3 DEF NextProjects, OnProject, OnAccount
<1>2. ProjectTypes /\ ProjectsInv /\ [NextProjects]_allVars
        => [\A p \in Project : status[p] = "active" /\ status'[p] = "archived" /\ NoFailure
              => p # Default /\ KeysOf(p) = {}]_allVars
  BY <1>1
<1> QED
  BY <1>2, ProjectsInvariant, PTL DEF SpecProjects, ArchivedEmpty
=============================================================================

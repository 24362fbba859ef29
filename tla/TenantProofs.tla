--------------------------- MODULE TenantProofs ----------------------------
(***************************************************************************)
(* For any number of slots, requests and administrators: limits and prices *)
(* go out of use within one TTL and one request of being replaced, and a   *)
(* tenant exceeds its plan by at most one row per other request and per    *)
(* failed count.  For requests that run one at a time: pricing             *)
(* configurations stay consistent, the router follows the groups, and a    *)
(* tenant keeps one owner, its limit of members and its suspensions.       *)
(*                                                                         *)
(* FreshInv follows where a copy comes from: a request about to SET has    *)
(* read the table at most ReadDelay ago and no later than the write that   *)
(* replaced what it read (LoadOK), so the copy ends at most CopyTTL after  *)
(* that (CopyOK).  PlanInv counts, besides the rows, the slots of requests *)
(* that are past the count and have not inserted yet: only passing the     *)
(* count adds one, and then the rows were fewer than the plan allows.      *)
(* ConfigInv says what each statement of a request about a configuration   *)
(* may rely on (TaskOK), GroupInv what a request has done to the row and   *)
(* not yet to the map (JobOK); while a request is between the two its      *)
(* group is the only one that need not be routed as it is saved.           *)
(* MembersInv says what a request for members is about (RequestShape) and  *)
(* what it has made sure of (RequestKnows): that it may act on its target, *)
(* that the plan has room for an invitation, which user row is its own and *)
(* which of the same address; between requests a tenant has one active     *)
(* owner, every active user a membership, and an address one user.         *)
(***************************************************************************)
EXTENDS LimitConfig, PricingConfigs, ModelGroups, Membership, FiniteSetTheorems, TLAPS

CallState == [pc : Step, slot : Slot \cup {NoSlot}, id : Nat, on : BOOLEAN, version : Nat, at : Nat]

\* What TypeOK says of one request.
CallOK(c, r) ==
  /\ r \in CallState
  /\ c \in Admin \/ r.pc \in {"ready", "get", "load", "store"}
  /\ r.pc \in Inserting \cup {"find", "count", "lookup", "remove"} => r.slot \in Slot

\* The calls are well typed after one of them has changed.
LEMMA CallChanged ==
  ASSUME TypeOK, NEW c \in Call, NEW r, CallOK(c, r), call' = [call EXCEPT ![c] = r]
  PROVE  /\ call' \in [Call -> CallState]
         /\ \A d \in Call : CallOK(d, call'[d])
<1>1. call \in [Call -> CallState] /\ \A d \in Call : CallOK(d, call[d])
  BY DEF TypeOK, CallState, CallOK
<1> QED
  BY <1>1 DEF CallOK

\* Everything TypeOK says of the other variables.
RestOK ==
  /\ table \in Table /\ row \in [Slot -> Row] /\ ids \in Nat
  /\ copy \in [until : Nat, version : Nat]
  /\ clock \in Nat /\ requests \in Nat /\ failures \in Nat
  /\ writes \in Seq(Nat)

\* A step that changes one call and keeps the rest well typed.
LEMMA TypeKept ==
  ASSUME TypeOK, RestOK', NEW c \in Call, NEW r, CallOK(c, r), call' = [call EXCEPT ![c] = r]
  PROVE  TypeOK'
BY CallChanged DEF TypeOK, RestOK, CallOK, CallState

\* Going on to the next step of a request, and returning from it.
LEMMA Moves ==
  ASSUME TypeOK, NEW c \in Call
  PROVE  /\ CallOK(c, Ready)
         /\ \A pc \in Step : Goto(c, pc) => call' = [call EXCEPT ![c] = [call[c] EXCEPT !.pc = pc]]
         /\ call[c] \in CallState /\ CallOK(c, call[c])
<1>1. call[c] \in CallState /\ CallOK(c, call[c])
  BY DEF TypeOK, CallState, CallOK
<1>2. CallOK(c, Ready)
  BY DEF CallOK, CallState, Ready, Step, Inserting
<1>3. \A pc \in Step : Goto(c, pc) => call' = [call EXCEPT ![c] = [call[c] EXCEPT !.pc = pc]]
  BY DEF Goto
<1> QED
  BY <1>1, <1>2, <1>3

\* Initially every variable has its type.
LEMMA TypeInit == Init => TypeOK
<1> SUFFICES ASSUME Init PROVE TypeOK
  OBVIOUS
<1>1. row \in [Slot -> Row]
  <2>1. [id |-> 1, on |-> TRUE] \in Row /\ NoRow \in Row
    BY DEF Row, NoRow
  <2> QED
    BY <2>1 DEF Init
<1>2. copy \in [until : Nat, version : Nat]
  BY DEF Init, NoCopy
<1>3. call \in [Call -> CallState] /\ \A c \in Call : CallOK(c, call[c])
  BY DEF Init, CallState, CallOK, Ready, Step, Inserting
<1> QED
  BY <1>1, <1>2, <1>3 DEF Init, TypeOK, CallOK, CallState

\* A request that only goes on to step pc, or returns.
LEMMA TypeGoto ==
  ASSUME TypeOK, RestOK', NEW c \in Call, NEW pc \in Step, Goto(c, pc),
         c \in Admin \/ pc \in {"ready", "get", "load", "store"},
         pc \in Inserting \cup {"find", "count", "lookup", "remove"} => call[c].slot \in Slot
  PROVE  TypeOK'
<1>1. CallOK(c, [call[c] EXCEPT !.pc = pc])
  BY Moves DEF CallOK, CallState
<1> QED
  BY <1>1, Moves, TypeKept

LEMMA TypeReturn ==
  ASSUME TypeOK, RestOK', NEW c \in Call, Return(c)
  PROVE  TypeOK'
BY Moves, TypeKept DEF Return

\* A row is written and the DEL comes next.
LEMMA TypePut ==
  ASSUME TypeOK, NEW a \in Admin, NEW r \in Row, Put(a, r), ids' \in Nat, call[a].slot \in Slot,
         UNCHANGED <<table, copy, clock, requests, failures>>
  PROVE  TypeOK'
<1>1. RestOK'
  <2>1. row' \in [Slot -> Row]
    BY DEF Put, TypeOK
  <2>2. writes' \in Seq(Nat)
    BY DEF Put, Wrote, TypeOK
  <2> QED
    BY <2>1, <2>2 DEF RestOK, TypeOK
<1>2. a \in Call /\ "del" \in Step /\ "del" \notin Inserting \cup {"find", "count", "lookup", "remove"}
  BY DEF Call, Step, Inserting
<1> QED
  BY <1>1, <1>2, TypeGoto DEF Put

\* Every step keeps the types.
LEMMA TypeStep == TypeOK /\ [Next]_vars => TypeOK'
<1> SUFFICES ASSUME TypeOK, [Next]_vars PROVE TypeOK'
  OBVIOUS
<1>0. RestOK /\ \A c \in Call : call[c] \in CallState /\ CallOK(c, call[c])
  BY Moves DEF RestOK, TypeOK
<1>r. UNCHANGED <<table, tableVars, copy, clock, requests>> /\ failures' \in Nat => RestOK'
  BY <1>0 DEF RestOK, tableVars
<1>u. UNCHANGED <<table, tableVars, copy, clock, requests, failures>> => RestOK'
  BY <1>0 DEF RestOK, tableVars
<1>s. Inserting \subseteq Step /\ {"ready", "get", "load", "store", "find", "count", "lookup", "remove", "price", "del"} \subseteq Step
  BY DEF Step
<1>a. Admin \subseteq Call /\ Reader \subseteq Call
  BY DEF Call
<1>1. ASSUME NEW c \in Reader, Read(c) PROVE TypeOK'
  <2>1. CASE Ask(c) \/ Miss(c)
    BY <1>u, <1>s, <1>a, <2>1, TypeGoto DEF Ask, Miss, Inserting
  <2>2. CASE Hit(c)
    BY <1>u, <1>a, <2>2, TypeReturn DEF Hit
  <2>3. CASE Load(c)
    <3>1. call' = [call EXCEPT ![c] = [call[c] EXCEPT !.pc = "store", !.version = Version, !.at = clock]]
      BY <2>3, <1>0, <1>a DEF Load, CallState, TypeOK
    <3>2. Version \in Nat /\ clock \in Nat
      BY DEF TypeOK, Version
    <3>3. CallOK(c, [call[c] EXCEPT !.pc = "store", !.version = Version, !.at = clock])
      BY <1>0, <1>a, <1>s, <3>2 DEF CallOK, CallState, Inserting
    <3>4. RestOK'
      BY <1>u, <2>3 DEF Load
    <3> QED
      BY <1>a, <3>1, <3>3, <3>4, TypeKept
  <2>4. CASE Store(c)
    <3>1. clock + CopyTTL \in Nat /\ call[c].version \in Nat
      BY <1>0, <1>a, LimitAssumption DEF TypeOK, CallState
    <3>2. RestOK'
      BY <1>0, <2>4, <3>1 DEF Store, RestOK, tableVars
    <3> QED
      BY <1>a, <2>4, <3>2, TypeReturn DEF Store
  <2> QED
    BY <1>1, <2>1, <2>2, <2>3, <2>4 DEF Read
<1>2. ASSUME NEW a \in Admin, NEW r, CallOK(a, r), Request(a, r) PROVE TypeOK'
  <2>1. RestOK'
    BY <1>0, <1>2 DEF Request, RestOK, tableVars
  <2> QED
    BY <1>2, <1>a, <2>1, TypeKept DEF Request
<1>3. ASSUME NEW a \in Admin, Upsert(a) PROVE TypeOK'
  <2>1. PICK s \in Slot, on \in Asked : Request(a, [Ready EXCEPT !.pc = "find", !.slot = s, !.on = on])
    BY <1>3 DEF Upsert
  <2>2. on \in BOOLEAN
    BY LimitAssumption
  <2>3. CallOK(a, [Ready EXCEPT !.pc = "find", !.slot = s, !.on = on])
    BY <1>s, <2>2 DEF CallOK, CallState, Ready
  <2> QED
    BY <1>2, <2>1, <2>3
<1>4. ASSUME NEW a \in Admin, Find(a) \/ First(a) PROVE TypeOK'
  <2>1. RestOK' /\ call[a].slot \in Slot
    BY <1>4, <1>u, <1>0, <1>a DEF Find, First, At, CallOK, Inserting
  <2>2. row[call[a].slot].id \in Nat
    BY <2>1 DEF TypeOK, Row
  <2>3. ASSUME NEW pc \in Inserting, call' = [call EXCEPT ![a].pc = pc, ![a].id = Mine(a).id]
        PROVE  TypeOK'
    <3>1. call' = [call EXCEPT ![a] = [call[a] EXCEPT !.pc = pc, !.id = Mine(a).id]]
      BY <2>3, <1>0, <1>a DEF CallState, TypeOK
    <3>2. CallOK(a, [call[a] EXCEPT !.pc = pc, !.id = Mine(a).id])
      BY <1>0, <1>a, <1>s, <2>1, <2>2, <2>3 DEF CallOK, CallState, Mine
    <3> QED
      BY <1>a, <2>1, <3>1, <3>2, TypeKept
  <2>4. CASE Goto(a, "count") \/ Goto(a, "create")
    BY <1>s, <1>a, <2>1, <2>4, TypeGoto DEF Inserting
  <2> QED
    BY <1>4, <2>3, <2>4 DEF Find, First, Inserting
<1>5. ASSUME NEW a \in Admin, At(a, "count"), Counted(a), RestOK' PROVE TypeOK'
  <2>1. call[a].slot \in Slot
    BY <1>5, <1>0, <1>a DEF At, CallOK
  <2> QED
    BY <1>5, <1>s, <1>a, <2>1, TypeGoto DEF Counted, Inserting
<1>6. ASSUME NEW a \in Admin, CountLimits(a) PROVE TypeOK'
  BY <1>5, <1>6, <1>u, <1>a, TypeReturn DEF CountLimits
<1>7. ASSUME NEW a \in Admin, Save(a) \/ Assign(a) \/ Create(a) PROVE TypeOK'
  <2>1. call[a].slot \in Slot /\ call[a].id \in Nat /\ call[a].on \in BOOLEAN
    BY <1>7, <1>0, <1>a DEF Save, Assign, Create, At, CallOK, CallState, Inserting
  <2>2. Mine(a) \in Row
    BY <2>1 DEF Mine, TypeOK
  <2>3. ASSUME NEW r \in Row, Put(a, r) PROVE TypeOK'
    <3>1. ids' \in Nat
      BY <1>7 DEF Save, Assign, Create, Put, TypeOK, tableVars
    <3> QED
      BY <1>7, <2>1, <2>3, <3>1, TypePut DEF Save, Assign, Create
  <2>4. ASSUME Return(a) \/ Goto(a, "del"), UNCHANGED <<table, tableVars, copy, clock, requests, failures>>
        PROVE  TypeOK'
    BY <1>u, <1>s, <1>a, <2>4, TypeReturn, TypeGoto DEF Inserting
  <2>5. CASE Save(a)
    <3>1. [id |-> call[a].id, on |-> call[a].on] \in Row /\ [id |-> call[a].id, on |-> TRUE] \in Row
      BY <2>1 DEF Row
    <3> QED
      BY <2>3, <2>4, <2>5, <3>1 DEF Save, Insert, tableVars
  <2>6. CASE Assign(a)
    <3>1. [Mine(a) EXCEPT !.on = @ \/ call[a].on] \in Row
      BY <2>1, <2>2 DEF Row
    <3> QED
      BY <2>3, <2>4, <2>6, <3>1 DEF Assign, tableVars
  <2>7. CASE Create(a)
    <3>1. [id |-> ids + 1, on |-> TRUE] \in Row
      BY DEF Row, TypeOK
    <3> QED
      BY <2>3, <2>4, <2>7, <3>1 DEF Create, Insert, tableVars
  <2> QED
    BY <1>7, <2>5, <2>6, <2>7
<1>8. ASSUME NEW a \in Admin, Delete(a) PROVE TypeOK'
  <2>1. PICK s \in Rows : Request(a, [Ready EXCEPT !.pc = IF table = "rate" THEN "lookup" ELSE "remove",
                                                  !.slot = s, !.id = row[s].id])
    BY <1>8 DEF Delete
  <2>2. s \in Slot /\ row[s].id \in Nat
    BY DEF Rows, TypeOK, Row
  <2>3. CallOK(a, [Ready EXCEPT !.pc = IF table = "rate" THEN "lookup" ELSE "remove",
                                !.slot = s, !.id = row[s].id])
    BY <1>s, <2>2 DEF CallOK, CallState, Ready
  <2> QED
    BY <1>2, <2>1, <2>3
<1>9. ASSUME NEW a \in Admin, Lookup(a) \/ Remove(a) PROVE TypeOK'
  <2>1. call[a].slot \in Slot
    BY <1>9, <1>0, <1>a DEF Lookup, Remove, At, CallOK
  <2>2. CASE Put(a, NoRow) /\ UNCHANGED <<table, ids, copy, clock, requests, failures>>
    <3>1. NoRow \in Row /\ ids' \in Nat
      BY <2>2 DEF NoRow, Row, TypeOK
    <3> QED
      BY <2>1, <2>2, <3>1, TypePut
  <2>3. CASE (Goto(a, "remove") \/ Goto(a, "del") \/ Return(a))
             /\ UNCHANGED <<table, tableVars, copy, clock, requests, failures>>
    BY <1>u, <1>s, <1>a, <2>1, <2>3, TypeReturn, TypeGoto DEF Inserting
  <2> QED
    BY <1>9, <2>2, <2>3 DEF Lookup, Remove, tableVars
<1>10. ASSUME NEW a \in Admin, ChangePrice(a) PROVE TypeOK'
  <2>1. CallOK(a, [Ready EXCEPT !.pc = "price"])
    BY <1>s DEF CallOK, CallState, Ready, Inserting
  <2> QED
    BY <1>2, <1>10, <2>1 DEF ChangePrice
<1>11. ASSUME NEW a \in Admin, WritePrice(a) \/ InvalidateCache(a) PROVE TypeOK'
  <2>1. writes' \in Seq(Nat)
    <3>1. writes \in Seq(Nat) /\ clock \in Nat
      BY DEF TypeOK
    <3>2. writes' = Append(writes, clock) \/ writes' = writes
      BY <1>11 DEF WritePrice, InvalidateCache, Wrote, tableVars
    <3> QED
      BY ONLY <3>1, <3>2
  <2>2. RestOK'
    BY <1>0, <1>11, <2>1 DEF WritePrice, InvalidateCache, NoCopy, RestOK, tableVars
  <2> QED
    BY <1>11, <1>a, <2>2, TypeReturn DEF WritePrice, InvalidateCache
<1>12. ASSUME NEW a \in Admin, ReadFails(a) PROVE TypeOK'
  <2>1. RestOK'
    BY <1>12, <1>r, <1>0 DEF ReadFails, Failure, RestOK
  <2>2. CASE At(a, "find") /\ Goto(a, "count")
    <3>1. call[a].slot \in Slot
      BY <2>2, <1>0, <1>a DEF At, CallOK
    <3> QED
      BY <1>s, <1>a, <2>1, <2>2, <3>1, TypeGoto
  <2> QED
    BY <1>5, <1>12, <2>1, <2>2 DEF ReadFails
<1>13. ASSUME NEW c \in Call, CommandFails(c) \/ StatementFails(c) PROVE TypeOK'
  <2>1. RestOK'
    BY <1>13, <1>r, <1>0 DEF CommandFails, StatementFails, Failure, RestOK
  <2>2. CASE Goto(c, "load")
    BY <1>s, <2>1, <2>2, TypeGoto DEF Inserting
  <2>3. CASE Return(c)
    BY <2>1, <2>3, TypeReturn
  <2> QED
    BY <1>13, <2>2, <2>3 DEF CommandFails, StatementFails
<1>14. CASE Tick
  BY <1>14 DEF Tick, TypeOK, tableVars
<1>15. CASE UNCHANGED vars
  BY <1>15 DEF vars, TypeOK, tableVars
<1> QED
  BY <1>1, <1>3, <1>4, <1>6, <1>7, <1>8, <1>9, <1>10, <1>11, <1>12, <1>13, <1>14, <1>15
     DEF Next, Administer

\* The variables are always well typed: in particular a request that is about to
\* write a row knows its slot, and no reader ever writes one.
THEOREM LimitTypes == Spec => []TypeOK
BY TypeInit, TypeStep, PTL DEF Spec

-----------------------------------------------------------------------------
(* Limits go out of use. *)

WritesOK == \A i \in 1..Version : writes[i] <= clock

CopyOK ==
  /\ copy.until <= clock + CopyTTL
  /\ copy.version <= Version
  /\ copy.version < Version => copy.until <= writes[copy.version + 1] + CopyTTL + ReadDelay

LoadOK(c) ==
  At(c, "store") =>
    /\ call[c].at <= clock /\ clock <= call[c].at + ReadDelay
    /\ call[c].version <= Version
    /\ call[c].version < Version => call[c].at <= writes[call[c].version + 1]

\* The strengthening of LimitsFresh that every step keeps.
FreshInv == TypeOK /\ WritesOK /\ CopyOK /\ \A c \in Reader : LoadOK(c)

\* The types of what FreshInv compares.
LEMMA Numbers ==
  ASSUME TypeOK
  PROVE  /\ clock \in Nat /\ Version \in Nat /\ CopyTTL \in Nat /\ ReadDelay \in Nat
         /\ copy.until \in Nat /\ copy.version \in Nat
         /\ writes \in Seq(Nat) /\ \A i \in 1..Version : writes[i] \in Nat
         /\ \A c \in Reader : call[c].at \in Nat /\ call[c].version \in Nat
BY LimitAssumption DEF TypeOK, Version, Call

\* A write at the present time makes everything loaded before older than it.
LEMMA WriteFresh ==
  ASSUME FreshInv, writes' = Append(writes, clock), clock' = clock
  PROVE  /\ WritesOK' /\ Version' = Version + 1
         /\ \A v \in Nat : v < Version => writes'[v + 1] = writes[v + 1]
         /\ writes'[Version + 1] = clock
<1>1. writes \in Seq(Nat) /\ clock \in Nat /\ Version = Len(writes) /\ Version \in Nat
  BY Numbers DEF FreshInv, Version
<1>2. Version' = Version + 1
  BY <1>1 DEF Version
<1>3. \A i \in 1..Version : writes'[i] = writes[i]
  BY <1>1
<1>4. writes'[Version + 1] = clock
  BY <1>1
<1>5. WritesOK'
  <2> SUFFICES ASSUME NEW i \in 1..Version' PROVE writes'[i] <= clock'
    BY DEF WritesOK
  <2>1. CASE i = Version + 1
    BY <1>1, <1>4, <2>1
  <2>2. CASE i # Version + 1
    <3>1. i \in 1..Version
      BY <1>1, <1>2, <2>2
    <3> QED
      BY <1>3, <3>1 DEF FreshInv, WritesOK
  <2> QED
    BY <2>1, <2>2
<1>6. \A v \in Nat : v < Version => v + 1 \in 1..Version
  BY <1>1
<1> QED
  BY <1>2, <1>3, <1>4, <1>5, <1>6

\* A step that may write the table and delete the copy, and loads nothing.
LEMMA FreshKept ==
  ASSUME FreshInv, TypeOK', clock' = clock,
         writes' = writes \/ writes' = Append(writes, clock),
         copy' = copy \/ copy' = NoCopy,
         \A c \in Reader : At(c, "store")' => call'[c] = call[c]
  PROVE  FreshInv'
<1>0. TypeOK
  BY DEF FreshInv
<1>1. CASE writes' = writes
  <2>1. Version' = Version /\ WritesOK'
    BY <1>1 DEF Version, WritesOK, FreshInv
  <2>2. \A c \in Reader : LoadOK(c)'
    BY <1>1, <2>1 DEF FreshInv, LoadOK, At
  <2>3. CASE copy' = copy
    BY <1>1, <2>1, <2>2, <2>3 DEF FreshInv, CopyOK
  <2>4. CASE copy' = NoCopy
    <3>1. CopyOK'
      <4>1. copy'.until = 0 /\ copy'.version = 0
        BY <2>4 DEF NoCopy
      <4>2. 0 < Version => writes[1] \in Nat
        BY <1>0, Numbers
      <4>3. clock \in Nat /\ Version \in Nat /\ CopyTTL \in Nat /\ ReadDelay \in Nat
        BY <1>0, Numbers
      <4> QED
        BY <1>1, <2>1, <4>1, <4>2, <4>3 DEF CopyOK
    <3> QED
      BY <2>1, <2>2, <3>1 DEF FreshInv
  <2> QED
    BY <2>3, <2>4
<1>2. CASE writes' = Append(writes, clock)
  <2>1. /\ WritesOK' /\ Version' = Version + 1 /\ writes'[Version + 1] = clock
        /\ \A v \in Nat : v < Version => writes'[v + 1] = writes[v + 1]
    BY <1>2, WriteFresh
  <2>2. clock \in Nat /\ Version \in Nat /\ CopyTTL \in Nat /\ ReadDelay \in Nat
    BY <1>0, Numbers
  <2>3. ASSUME NEW c \in Reader PROVE LoadOK(c)'
    <3> SUFFICES ASSUME At(c, "store")' PROVE LoadOK(c)'
      BY DEF LoadOK
    <3>1. call'[c] = call[c] /\ At(c, "store")
      BY DEF At
    <3>2. call[c].at \in Nat /\ call[c].version \in Nat
      BY <1>0, Numbers
    <3>3. /\ call[c].at <= clock /\ clock <= call[c].at + ReadDelay /\ call[c].version <= Version
          /\ call[c].version < Version => call[c].at <= writes[call[c].version + 1]
      BY <3>1 DEF FreshInv, LoadOK
    <3>4. call[c].at <= writes'[call[c].version + 1]
      BY <2>1, <2>2, <3>2, <3>3
    <3>5. call[c].version <= Version'
      BY <2>1, <2>2, <3>2, <3>3
    <3> QED
      BY <3>1, <3>3, <3>4, <3>5 DEF LoadOK
  <2>4. CopyOK'
    <3>1. CASE copy' = copy
      <4>1. copy.until \in Nat /\ copy.version \in Nat
        BY <1>0, Numbers
      <4>2. copy.until <= clock + CopyTTL /\ copy.version <= Version
            /\ (copy.version < Version => copy.until <= writes[copy.version + 1] + CopyTTL + ReadDelay)
        BY DEF FreshInv, CopyOK
      <4>3. copy.until <= writes'[copy.version + 1] + CopyTTL + ReadDelay
        BY <2>1, <2>2, <4>1, <4>2
      <4> QED
        BY <2>1, <2>2, <3>1, <4>1, <4>2, <4>3 DEF CopyOK
    <3>2. CASE copy' = NoCopy
      <4>1. copy'.until = 0 /\ copy'.version = 0
        BY <3>2 DEF NoCopy
      <4>2. writes'[1] \in Nat
        <5>1. 1 \in 1..Version'
          BY <2>1, <2>2
        <5> QED
          BY <5>1 DEF TypeOK, Version
      <4> QED
        BY <2>1, <2>2, <4>1, <4>2 DEF CopyOK
    <3> QED
      BY <3>1, <3>2
  <2> QED
    BY <2>1, <2>3, <2>4 DEF FreshInv
<1> QED
  BY <1>1, <1>2

\* A SELECT: what it loads is the present version.
LEMMA FreshLoad ==
  ASSUME FreshInv, TypeOK', NEW c \in Reader, Load(c)
  PROVE  FreshInv'
<1>1. UNCHANGED <<writes, copy, clock>> /\ Version' = Version
  BY DEF Load, tableVars, Version
<1>2. clock \in Nat /\ Version \in Nat /\ ReadDelay \in Nat
  BY Numbers DEF FreshInv
<1>3. WritesOK' /\ CopyOK'
  BY <1>1 DEF FreshInv, WritesOK, CopyOK
<1>4. ASSUME NEW d \in Reader PROVE LoadOK(d)'
  <2>1. CASE d = c
    <3>1. call'[c].version = Version /\ call'[c].at = clock
      BY DEF Load, TypeOK, FreshInv, Call
    <3> QED
      BY <1>1, <1>2, <2>1, <3>1 DEF LoadOK
  <2>2. CASE d # c
    <3>1. call'[d] = call[d]
      BY <2>2 DEF Load, TypeOK, FreshInv, Call
    <3> QED
      BY <1>1, <3>1 DEF LoadOK, At, FreshInv
  <2> QED
    BY <2>1, <2>2
<1> QED
  BY <1>3, <1>4 DEF FreshInv

\* A SET: the copy lives one TTL, and was read within ReadDelay.
LEMMA FreshStore ==
  ASSUME FreshInv, TypeOK', NEW c \in Reader, Store(c)
  PROVE  FreshInv'
<1>1. UNCHANGED <<writes, clock>> /\ Version' = Version
  BY DEF Store, tableVars, Version
<1>2. /\ clock \in Nat /\ Version \in Nat /\ CopyTTL \in Nat /\ ReadDelay \in Nat
      /\ call[c].at \in Nat /\ call[c].version \in Nat
      /\ \A i \in 1..Version : writes[i] \in Nat
  BY Numbers DEF FreshInv
<1>3. copy'.until = clock + CopyTTL /\ copy'.version = call[c].version
  BY DEF Store
<1>4. /\ clock <= call[c].at + ReadDelay /\ call[c].version <= Version
      /\ call[c].version < Version => call[c].at <= writes[call[c].version + 1]
  BY DEF Store, FreshInv, LoadOK
<1>5. CopyOK'
  <2>1. call[c].version < Version =>
          clock + CopyTTL <= writes[call[c].version + 1] + CopyTTL + ReadDelay
    <3>1. call[c].version < Version => writes[call[c].version + 1] \in Nat
      BY <1>2
    <3> QED
      BY <1>2, <1>4, <3>1
  <2> QED
    BY <1>1, <1>2, <1>3, <1>4, <2>1 DEF CopyOK
<1>6. WritesOK'
  BY <1>1 DEF FreshInv, WritesOK
<1>7. ASSUME NEW d \in Reader PROVE LoadOK(d)'
  <2>1. CASE d = c
    <3>1. call'[d].pc = "ready"
      BY <2>1 DEF Store, Return, Ready, TypeOK, FreshInv, Call
    <3> QED
      BY <3>1 DEF LoadOK, At
  <2>2. CASE d # c
    <3>1. call'[d] = call[d]
      BY <2>2 DEF Store, Return, TypeOK, FreshInv, Call
    <3> QED
      BY <1>1, <3>1 DEF LoadOK, At, FreshInv
  <2> QED
    BY <2>1, <2>2
<1> QED
  BY <1>5, <1>6, <1>7 DEF FreshInv

\* Time passes, but not while a SET is due.
LEMMA FreshTick ==
  ASSUME FreshInv, TypeOK', Tick
  PROVE  FreshInv'
<1>1. UNCHANGED <<writes, copy, call>> /\ Version' = Version /\ clock' = clock + 1
  BY DEF Tick, tableVars, Version
<1>2. /\ clock \in Nat /\ Version \in Nat /\ CopyTTL \in Nat /\ ReadDelay \in Nat
      /\ copy.until \in Nat /\ \A i \in 1..Version : writes[i] \in Nat
      /\ \A c \in Reader : call[c].at \in Nat
  BY Numbers DEF FreshInv
<1>3. WritesOK'
  BY <1>1, <1>2 DEF FreshInv, WritesOK
<1>4. CopyOK'
  BY <1>1, <1>2 DEF FreshInv, CopyOK
<1>5. ASSUME NEW c \in Reader PROVE LoadOK(c)'
  <2>1. At(c, "store") => clock < call[c].at + ReadDelay
    BY DEF Tick
  <2> QED
    BY <1>1, <1>2, <2>1 DEF FreshInv, LoadOK, At
<1> QED
  BY <1>3, <1>4, <1>5 DEF FreshInv

\* Every step keeps FreshInv.
LEMMA FreshStep == FreshInv /\ [Next]_vars => FreshInv'
<1> SUFFICES ASSUME FreshInv, [Next]_vars PROVE FreshInv'
  OBVIOUS
<1>t. TypeOK /\ TypeOK'
  BY TypeStep DEF FreshInv
<1> DEFINE Others(c) == \A d \in Call : d # c => call'[d] = call[d]
<1>r. ASSUME NEW c \in Call, NEW r, call' = [call EXCEPT ![c] = r] PROVE Others(c) /\ call'[c] = r
  BY <1>r, <1>t DEF TypeOK
<1>g. ASSUME NEW c \in Call, NEW pc, Goto(c, pc) PROVE Others(c) /\ call'[c].pc = pc
  BY <1>g, <1>t DEF Goto, TypeOK
<1>d. Reader \cap Admin = {} /\ Admin \subseteq Call /\ Reader \subseteq Call
  BY LimitAssumption DEF Call
<1>k. ASSUME clock' = clock, writes' = writes \/ writes' = Append(writes, clock),
             copy' = copy \/ copy' = NoCopy,
             NEW c \in Call, Others(c), c \in Admin \/ call'[c].pc # "store"
      PROVE  FreshInv'
  <2>1. \A d \in Reader : At(d, "store")' => call'[d] = call[d]
    BY <1>k, <1>d DEF At
  <2> QED
    BY <1>k, <1>t, <2>1, FreshKept
<1>1. ASSUME NEW c \in Reader, Ask(c) \/ Hit(c) \/ Miss(c) PROVE FreshInv'
  <2>1. Others(c) /\ call'[c].pc # "store"
    BY <1>1, <1>r, <1>g, <1>d DEF Ask, Hit, Miss, Return, Ready
  <2> QED
    BY <1>1, <1>k, <1>d, <2>1 DEF Ask, Hit, Miss, tableVars
<1>2. ASSUME NEW a \in Admin, Administer(a) PROVE FreshInv'
  <2> HIDE DEF Others
  <2>1. ASSUME NEW r, Request(a, r) PROVE FreshInv'
    BY <2>1, <1>k, <1>r, <1>d DEF Request, tableVars
  <2>2. CASE Upsert(a) \/ Delete(a) \/ ChangePrice(a)
    BY <2>1, <2>2 DEF Upsert, Delete, ChangePrice
  <2>3. CASE Find(a)
    <3>1. Mine(a) = NoRow => Others(a)
      BY <2>3, <1>g, <1>d DEF Find
    <3>2. Mine(a) # NoRow => Others(a)
      BY <2>3, <1>d, <1>t DEF Find, TypeOK, Others
    <3> QED
      BY <2>3, <1>k, <1>d, <3>1, <3>2 DEF Find, tableVars
  <2>4. CASE First(a)
    <3>1. Mine(a) = NoRow => Others(a)
      BY <2>4, <1>g, <1>d DEF First
    <3>2. Mine(a) # NoRow => Others(a)
      BY <2>4, <1>d, <1>t DEF First, TypeOK, Others
    <3> QED
      BY <2>4, <1>k, <1>d, <3>1, <3>2 DEF First, tableVars
  <2>5. CASE CountLimits(a) \/ Lookup(a)
    <3>1. Others(a)
      BY <2>5, <1>g, <1>r, <1>d DEF CountLimits, Counted, Lookup, Return
    <3> QED
      BY <2>5, <1>k, <1>d, <3>1 DEF CountLimits, Lookup, tableVars
  <2>6. CASE Save(a) \/ Assign(a) \/ Create(a) \/ Remove(a)
    <3>1. Others(a)
      BY <2>6, <1>g, <1>r, <1>d DEF Save, Assign, Create, Remove, Insert, Put, Return
    <3>2. (writes' = writes \/ writes' = Append(writes, clock)) /\ UNCHANGED <<copy, clock>>
      BY <2>6 DEF Save, Assign, Create, Remove, Insert, Put, Wrote, tableVars
    <3> QED
      BY <1>k, <1>d, <3>1, <3>2
  <2>7. CASE WritePrice(a) \/ InvalidateCache(a)
    <3>1. Others(a)
      BY <2>7, <1>r, <1>d DEF WritePrice, InvalidateCache, Return
    <3> QED
      BY <2>7, <1>k, <1>d, <3>1 DEF WritePrice, InvalidateCache, Wrote, tableVars
  <2> QED
    BY <1>2, <2>2, <2>3, <2>4, <2>5, <2>6, <2>7 DEF Administer
<1>3. ASSUME NEW a \in Admin, ReadFails(a) PROVE FreshInv'
  <2>1. Others(a)
    BY <1>3, <1>g, <1>d DEF ReadFails, Counted
  <2> QED
    BY <1>3, <1>k, <1>d, <2>1 DEF ReadFails, tableVars
<1>4. ASSUME NEW c \in Call, CommandFails(c) \/ StatementFails(c) PROVE FreshInv'
  <2>1. Others(c) /\ call'[c].pc # "store"
    BY <1>4, <1>g, <1>r DEF CommandFails, StatementFails, Return, Ready
  <2> QED
    BY <1>4, <1>k, <2>1 DEF CommandFails, StatementFails, tableVars
<1>5. CASE UNCHANGED vars
  BY <1>5, <1>t, FreshKept DEF vars, tableVars
<1> QED
  BY <1>1, <1>2, <1>3, <1>4, <1>5, <1>t, FreshLoad, FreshStore, FreshTick DEF Next, Read

\* The copies of loadLimits, loadBudgetLimits and Resolve: no request is decided by
\* limits or prices that were replaced more than one TTL and one request ago,
\* for any number of readers and administrators and any lost DEL.
THEOREM LimitsGoOutOfUse == Spec => []LimitsFresh
<1>1. Init => FreshInv
  <2> SUFFICES ASSUME Init PROVE FreshInv
    OBVIOUS
  <2>1. TypeOK /\ Version = 0
    BY TypeInit DEF Init, Version
  <2>2. WritesOK /\ CopyOK
    BY <2>1, Numbers DEF Init, WritesOK, CopyOK, NoCopy
  <2>3. \A c \in Reader : LoadOK(c)
    BY DEF Init, LoadOK, At, Ready, Call
  <2> QED
    BY <2>1, <2>2, <2>3 DEF FreshInv
<1>2. FreshInv => LimitsFresh
  <2> SUFFICES ASSUME FreshInv PROVE LimitsFresh
    OBVIOUS
  <2>1. TypeOK
    BY DEF FreshInv
  <2>2. Cached => Fresh(copy.version)
    <3>1. copy.version < Version => writes[copy.version + 1] \in Nat
      BY <2>1, Numbers
    <3>2. /\ clock \in Nat /\ Version \in Nat /\ CopyTTL \in Nat /\ ReadDelay \in Nat
          /\ copy.until \in Nat /\ copy.version \in Nat /\ copy.version <= Version
      BY <2>1, Numbers DEF FreshInv, CopyOK
    <3>3. copy.version < Version => copy.until <= writes[copy.version + 1] + CopyTTL + ReadDelay
      BY DEF FreshInv, CopyOK
    <3> QED
      BY <3>1, <3>2, <3>3 DEF Cached, Fresh
  <2>3. ASSUME NEW c \in Reader, At(c, "store") PROVE Fresh(call[c].version)
    <3>1. call[c].version < Version => writes[call[c].version + 1] \in Nat
      BY <2>1, Numbers
    <3>2. /\ clock \in Nat /\ Version \in Nat /\ CopyTTL \in Nat /\ ReadDelay \in Nat
          /\ call[c].at \in Nat /\ call[c].version \in Nat /\ call[c].version <= Version
      BY <2>1, <2>3, Numbers DEF FreshInv, LoadOK
    <3>3. /\ clock <= call[c].at + ReadDelay
          /\ call[c].version < Version => call[c].at <= writes[call[c].version + 1]
      BY <2>3 DEF FreshInv, LoadOK
    <3> QED
      BY <3>1, <3>2, <3>3 DEF Fresh
  <2> QED
    BY <2>2, <2>3 DEF LimitsFresh
<1> QED
  BY <1>1, <1>2, FreshStep, PTL DEF Spec

-----------------------------------------------------------------------------
(* The plan's limit. *)

Inserters == {a \in Admin : call[a].pc \in Inserting}
Claimed == Rows \cup {call[a].slot : a \in Inserters}

\* The strengthening of LimitsWithinPlan that every step keeps.
PlanInv == Cardinality(Claimed) <= MaxLimits + Cardinality(Admin) - 1 + failures

\* A set of rows R and the slots T of requests that are at most as many as the
\* administrators.
LEMMA ClaimedSize ==
  ASSUME NEW R \in SUBSET Slot, NEW T, IsFiniteSet(T), Cardinality(T) <= Cardinality(Admin),
         Cardinality(Admin) \in Nat
  PROVE  /\ IsFiniteSet(R \cup T) /\ Cardinality(R \cup T) \in Nat /\ Cardinality(R) \in Nat
         /\ Cardinality(R \cup T) <= Cardinality(R) + Cardinality(Admin)
<1>1. IsFiniteSet(R)
  BY LimitAssumption, FS_Subset
<1>2. /\ IsFiniteSet(R \cup T)
      /\ Cardinality(R \cup T) = Cardinality(R) + Cardinality(T) - Cardinality(R \cap T)
  BY <1>1, FS_Union
<1>3. IsFiniteSet(R \cap T)
  BY <1>1, FS_Subset
<1>4. /\ Cardinality(R \cup T) \in Nat /\ Cardinality(R) \in Nat
      /\ Cardinality(T) \in Nat /\ Cardinality(R \cap T) \in Nat
  BY <1>1, <1>2, <1>3, FS_CardinalityType
<1> QED
  BY <1>2, <1>4

\* The administrators are finitely many, and there is one.
LEMMA SomeAdmin == Cardinality(Admin) \in Nat /\ Cardinality(Admin) > 0
BY LimitAssumption, FS_EmptySet, FS_CardinalityType

\* Rows and claimed slots are finitely many, and each request claims one.
LEMMA ClaimedFinite ==
  /\ IsFiniteSet(Claimed) /\ IsFiniteSet(Rows) /\ Rows \subseteq Claimed
  /\ Cardinality(Claimed) \in Nat /\ Cardinality(Rows) \in Nat /\ Cardinality(Admin) \in Nat
  /\ Cardinality(Admin) > 0
  /\ Cardinality(Claimed) <= Cardinality(Rows) + Cardinality(Admin)
<1> DEFINE T == {call[a].slot : a \in Inserters}
           f == [a \in Inserters |-> call[a].slot]
<1>1. Inserters \in SUBSET Admin /\ Rows \in SUBSET Slot
  BY DEF Inserters, Rows
<1>2. /\ IsFiniteSet(Rows) /\ IsFiniteSet(Inserters)
      /\ Cardinality(Inserters) <= Cardinality(Admin) /\ Cardinality(Inserters) \in Nat
  BY <1>1, FS_Subset, FS_CardinalityType, LimitAssumption
<1>3. f \in Surjection(Inserters, T)
  BY DEF Surjection
<1>4. IsFiniteSet(T) /\ Cardinality(T) <= Cardinality(Inserters)
  BY <1>2, <1>3, FS_Surjection
<1>5. Claimed = Rows \cup T
  BY DEF Claimed
<1> HIDE DEF T
<1>6. Cardinality(T) <= Cardinality(Admin)
  BY <1>2, <1>4, SomeAdmin, FS_CardinalityType
<1> QED
  BY <1>1, <1>2, <1>4, <1>5, <1>6, ClaimedSize, SomeAdmin

\* A step that claims no new slot.
LEMMA PlanKept ==
  ASSUME TypeOK, PlanInv, TypeOK', Claimed' \subseteq Claimed, failures <= failures'
  PROVE  PlanInv'
<1>1. IsFiniteSet(Claimed) /\ Cardinality(Claimed) \in Nat /\ Cardinality(Admin) \in Nat
  BY ClaimedFinite
<1>2. Cardinality(Claimed') <= Cardinality(Claimed) /\ Cardinality(Claimed') \in Nat
  BY <1>1, FS_Subset, FS_CardinalityType
<1>3. MaxLimits \in Nat /\ failures \in Nat /\ failures' \in Nat
  BY LimitAssumption DEF TypeOK
<1> QED
  BY <1>1, <1>2, <1>3 DEF PlanInv

\* A request that goes on with the rows as they are: its slot was claimed before
\* when it is now about to insert.
LEMMA PlanMoved ==
  ASSUME TypeOK, PlanInv, TypeOK', row' = row, failures <= failures', NEW c \in Call,
         \A d \in Call : d # c => call'[d] = call[d],
         c \in Admin /\ call'[c].pc \in Inserting => call'[c].slot \in Claimed
  PROVE  PlanInv'
<1>1. Rows' = Rows
  BY DEF Rows
<1>2. ASSUME NEW a \in Inserters' PROVE call'[a].slot \in Claimed
  <2>1. a \in Admin /\ a \in Call /\ call'[a].pc \in Inserting
    BY DEF Inserters, Call
  <2>2. CASE a = c
    BY <2>1, <2>2
  <2>3. CASE a # c
    BY <2>1, <2>3 DEF Inserters, Claimed
  <2> QED
    BY <2>2, <2>3
<1>3. Claimed' \subseteq Claimed
  <2>1. Claimed' = Rows' \cup {call'[a].slot : a \in Inserters'}
    BY DEF Claimed
  <2> QED
    BY <1>1, <1>2, <2>1 DEF Claimed
<1> QED
  BY <1>3, PlanKept

\* A row is written by a request that had claimed its slot, or removed.
LEMMA PlanPut ==
  ASSUME TypeOK, PlanInv, TypeOK', failures' = failures, NEW a \in Admin, NEW r, Put(a, r),
         r = NoRow \/ call[a].pc \in Inserting
  PROVE  PlanInv'
<1>1. a \in Call
  BY DEF Call
<1>2. \A d \in Call : d # a => call'[d] = call[d]
  BY DEF Put, Goto, TypeOK
<1>3. call'[a].pc = "del"
  BY <1>1 DEF Put, Goto, TypeOK
<1>4. \A s \in Slot : s # call[a].slot => row'[s] = row[s]
  BY DEF Put, TypeOK
<1>5. call[a].slot \in Slot => row'[call[a].slot] = r
  BY DEF Put, TypeOK
<1>6. Rows' \subseteq Claimed
  <2> SUFFICES ASSUME NEW s \in Slot, row'[s] # NoRow PROVE s \in Claimed
    BY DEF Rows
  <2>1. CASE s = call[a].slot
    BY <1>5, <2>1 DEF Claimed, Inserters
  <2>2. CASE s # call[a].slot
    BY <1>4, <2>2 DEF Claimed, Rows
  <2> QED
    BY <2>1, <2>2
<1>7. \A b \in Inserters' : b \in Inserters /\ call'[b].slot = call[b].slot
  BY <1>2, <1>3 DEF Inserters, Inserting, Call
<1>8. Claimed' \subseteq Claimed
  <2>1. Claimed' = Rows' \cup {call'[b].slot : b \in Inserters'}
    BY DEF Claimed
  <2> QED
    BY <1>6, <1>7, <2>1 DEF Claimed
<1>9. failures <= failures'
  BY DEF TypeOK
<1> QED
  BY <1>8, <1>9, PlanKept

\* Passing the count, when it was read: the rows are fewer than the plan allows
\* and every request, this one included, claims at most one slot more.
LEMMA PlanCounted ==
  ASSUME TypeOK, TypeOK', row' = row, failures' = failures, Cardinality(Rows) < MaxLimits
  PROVE  PlanInv'
<1>1. Rows' = Rows
  BY DEF Rows
<1>2. /\ Cardinality(Claimed') \in Nat /\ Cardinality(Rows) \in Nat /\ Cardinality(Admin) \in Nat
      /\ Cardinality(Claimed') <= Cardinality(Rows) + Cardinality(Admin)
  <2> DEFINE T == {call'[a].slot : a \in Inserters'}
             f == [a \in Inserters' |-> call'[a].slot]
  <2>1. Inserters' \in SUBSET Admin /\ Rows' \in SUBSET Slot
    BY DEF Inserters, Rows
  <2>2. /\ IsFiniteSet(Inserters')
        /\ Cardinality(Inserters') <= Cardinality(Admin) /\ Cardinality(Inserters') \in Nat
    BY <2>1, FS_Subset, FS_CardinalityType, LimitAssumption
  <2>3. f \in Surjection(Inserters', T)
    BY DEF Surjection
  <2>4. IsFiniteSet(T) /\ Cardinality(T) <= Cardinality(Inserters')
    BY <2>2, <2>3, FS_Surjection
  <2>5. Claimed' = Rows' \cup T
    BY DEF Claimed
  <2> HIDE DEF T
  <2>6. Cardinality(T) <= Cardinality(Admin)
    BY <2>2, <2>4, SomeAdmin, FS_CardinalityType
  <2> QED
    BY <1>1, <2>1, <2>4, <2>5, <2>6, ClaimedSize, SomeAdmin
<1>3. MaxLimits \in Nat /\ failures \in Nat
  BY LimitAssumption DEF TypeOK
<1> QED
  BY <1>2, <1>3 DEF PlanInv

\* Passing the count when it failed: one slot more, and one failure more.
LEMMA PlanUncounted ==
  ASSUME TypeOK, PlanInv, TypeOK', row' = row, failures' = failures + 1, NEW a \in Admin,
         \A d \in Call : d # a => call'[d] = call[d]
  PROVE  PlanInv'
<1>1. Rows' = Rows
  BY DEF Rows
<1>2. Claimed' \subseteq Claimed \cup {call'[a].slot}
  <2>1. \A b \in Inserters' : b # a => b \in Inserters /\ call'[b].slot = call[b].slot
    BY DEF Inserters, Call
  <2>2. Claimed' = Rows' \cup {call'[b].slot : b \in Inserters'}
    BY DEF Claimed
  <2> QED
    BY <1>1, <2>1, <2>2 DEF Claimed
<1>3. IsFiniteSet(Claimed) /\ Cardinality(Claimed) \in Nat /\ Cardinality(Admin) \in Nat
  BY ClaimedFinite
<1>4. /\ IsFiniteSet(Claimed \cup {call'[a].slot})
      /\ Cardinality(Claimed \cup {call'[a].slot}) <= Cardinality(Claimed) + 1
      /\ Cardinality(Claimed \cup {call'[a].slot}) \in Nat
  <2> DEFINE x == call'[a].slot
  <2> HIDE DEF x
  <2>1. /\ IsFiniteSet(Claimed \cup {x})
        /\ Cardinality(Claimed \cup {x}) = IF x \in Claimed THEN Cardinality(Claimed) ELSE Cardinality(Claimed) + 1
    BY <1>3, FS_AddElement
  <2>2. Cardinality(Claimed \cup {x}) <= Cardinality(Claimed) + 1 /\ Cardinality(Claimed \cup {x}) \in Nat
    BY <1>3, <2>1
  <2> QED
    BY <2>1, <2>2 DEF x
<1>5. Cardinality(Claimed') <= Cardinality(Claimed \cup {call'[a].slot}) /\ Cardinality(Claimed') \in Nat
  BY <1>2, <1>4, FS_Subset, FS_CardinalityType
<1>6. MaxLimits \in Nat /\ failures \in Nat
  BY LimitAssumption DEF TypeOK
<1> QED
  BY <1>3, <1>4, <1>5, <1>6 DEF PlanInv

\* Every step keeps PlanInv.
LEMMA PlanStep == TypeOK /\ PlanInv /\ [Next]_vars => PlanInv'
<1> SUFFICES ASSUME TypeOK, PlanInv, [Next]_vars PROVE PlanInv'
  OBVIOUS
<1>t. TypeOK'
  BY TypeStep
<1> DEFINE Others(c) == \A d \in Call : d # c => call'[d] = call[d]
<1>r. ASSUME NEW c \in Call, NEW r, call' = [call EXCEPT ![c] = r] PROVE Others(c) /\ call'[c] = r
  BY <1>r DEF TypeOK
<1>g. ASSUME NEW c \in Call, NEW pc, Goto(c, pc)
      PROVE  Others(c) /\ call'[c].pc = pc /\ call'[c].slot = call[c].slot
  BY <1>g DEF Goto, TypeOK
<1>d. Admin \subseteq Call /\ Reader \subseteq Call
  BY DEF Call
<1>f. failures \in Nat
  BY DEF TypeOK
\* A request moves to a step at which it inserts nothing.
<1>q. ASSUME NEW c \in Call, Others(c), call'[c].pc \notin Inserting, row' = row, failures <= failures'
      PROVE  PlanInv'
  BY <1>q, <1>t, PlanMoved
<1>z. ASSUME NEW c \in Call, Return(c), row' = row, failures <= failures'
      PROVE  PlanInv'
  <2>1. Others(c) /\ call'[c] = Ready
    BY <1>z, <1>r DEF Return
  <2>2. call'[c].pc \notin Inserting
    BY <2>1 DEF Ready, Inserting
  <2> QED
    BY <1>z, <1>q, <2>1, <2>2
<1>y. ASSUME NEW c \in Call, NEW pc \in Step \ Inserting, Goto(c, pc), row' = row, failures <= failures'
      PROVE  PlanInv'
  <2>1. Others(c) /\ call'[c].pc \notin Inserting
    BY <1>y, <1>g
  <2> QED
    BY <1>y, <1>q, <2>1
<1>s. {"ready", "get", "load", "count", "remove", "del"} \subseteq Step \ Inserting
  BY DEF Step, Inserting
<1> HIDE DEF Others
<1>1. ASSUME NEW c \in Reader, Read(c) PROVE PlanInv'
  <2>1. CASE Ask(c) \/ Miss(c)
    BY <2>1, <1>y, <1>d, <1>f, <1>s DEF Ask, Miss, tableVars
  <2>2. CASE Hit(c) \/ Store(c)
    BY <2>2, <1>z, <1>d, <1>f DEF Hit, Store, tableVars
  <2>3. CASE Load(c)
    <3>1. Others(c) /\ call'[c].pc \notin Inserting
      BY <2>3, <1>d DEF Load, Others, TypeOK, Inserting
    <3>2. row' = row /\ failures <= failures'
      BY <2>3, <1>f DEF Load, tableVars
    <3> QED
      BY <3>1, <3>2, <1>q, <1>d
  <2> QED
    BY <1>1, <2>1, <2>2, <2>3 DEF Read
<1>2. ASSUME NEW a \in Admin, Administer(a) PROVE PlanInv'
  <2>1. ASSUME NEW r, Request(a, r), r.pc \notin Inserting PROVE PlanInv'
    <3>1. Others(a) /\ call'[a] = r
      BY <2>1, <1>r, <1>d DEF Request
    <3> QED
      BY <2>1, <1>q, <1>d, <1>f, <3>1 DEF Request, tableVars
  <2>2. CASE Upsert(a)
    <3>1. PICK s \in Slot, on \in Asked : Request(a, [Ready EXCEPT !.pc = "find", !.slot = s, !.on = on])
      BY <2>2 DEF Upsert
    <3> QED
      BY <2>1, <3>1 DEF Ready, Inserting
  <2>3. CASE Delete(a)
    <3>1. PICK s \in Rows : Request(a, [Ready EXCEPT !.pc = IF table = "rate" THEN "lookup" ELSE "remove",
                                                    !.slot = s, !.id = row[s].id])
      BY <2>3 DEF Delete
    <3> QED
      BY <2>1, <3>1 DEF Ready, Inserting
  <2>4. CASE ChangePrice(a)
    BY <2>1, <2>4 DEF ChangePrice, Ready, Inserting
  <2>5. CASE Find(a)
    <3>1. row' = row /\ failures' = failures /\ call[a].slot \in Slot
      BY <2>5, <1>d DEF Find, At, TypeOK, tableVars
    <3>2. CASE Mine(a) = NoRow
      BY <2>5, <1>y, <1>d, <1>f, <1>s, <3>1, <3>2 DEF Find
    <3>3. CASE Mine(a) # NoRow
      <4>1. Others(a) /\ call'[a].slot = call[a].slot
        BY <2>5, <1>d, <3>3 DEF Find, Others, TypeOK
      <4>2. call[a].slot \in Claimed
        BY <3>1, <3>3 DEF Mine, Claimed, Rows
      <4> QED
        BY <1>d, <1>f, <1>t, <3>1, <4>1, <4>2, PlanMoved DEF Others
    <3> QED
      BY <3>2, <3>3
  <2>6. CASE First(a)
    <3>1. row' = row /\ failures' = failures /\ call[a].slot \in Claimed
      BY <2>6, <1>d DEF First, At, tableVars, Claimed, Inserters, Inserting
    <3>2. Mine(a) = NoRow => Others(a) /\ call'[a].slot = call[a].slot
      BY <2>6, <1>g, <1>d DEF First
    <3>3. Mine(a) # NoRow => Others(a) /\ call'[a].slot = call[a].slot
      BY <2>6, <1>d DEF First, Others, TypeOK
    <3> QED
      BY <1>d, <1>f, <1>t, <3>1, <3>2, <3>3, PlanMoved DEF Others
  <2>7. CASE CountLimits(a)
    <3>1. row' = row /\ failures' = failures
      BY <2>7 DEF CountLimits, tableVars
    <3>2. CASE Cardinality(Rows) < MaxLimits
      BY <1>t, <3>1, <3>2, PlanCounted
    <3>3. CASE ~(Cardinality(Rows) < MaxLimits)
      BY <2>7, <1>z, <1>d, <1>f, <3>1, <3>3 DEF CountLimits
    <3> QED
      BY <3>2, <3>3
  <2>8. CASE Save(a) \/ Assign(a) \/ Create(a) \/ Remove(a)
    <3>1. failures' = failures
      BY <2>8 DEF Save, Assign, Create, Remove
    <3>2. ASSUME NEW r, Put(a, r) PROVE r = NoRow \/ ~Remove(a) => PlanInv'
      <4>1. ~Remove(a) => call[a].pc \in Inserting
        BY <2>8 DEF Save, Assign, Create, At, Inserting
      <4> QED
        BY <1>t, <3>1, <3>2, <4>1, PlanPut
    <3>3. ASSUME (Return(a) \/ Goto(a, "del")), row' = row PROVE PlanInv'
      BY <1>z, <1>y, <1>d, <1>f, <1>s, <3>1, <3>3
    <3>4. CASE Remove(a)
      BY <3>2, <3>3, <3>4 DEF Remove
    <3>5. CASE ~Remove(a)
      BY <2>8, <3>2, <3>3, <3>5 DEF Save, Assign, Create, Insert, tableVars
    <3> QED
      BY <3>4, <3>5
  <2>9. CASE Lookup(a)
    BY <2>9, <1>y, <1>z, <1>d, <1>f, <1>s DEF Lookup, tableVars
  <2>10. CASE WritePrice(a) \/ InvalidateCache(a)
    BY <2>10, <1>z, <1>d, <1>f DEF WritePrice, InvalidateCache, tableVars
  <2> QED
    BY <1>2, <2>2, <2>3, <2>4, <2>5, <2>6, <2>7, <2>8, <2>9, <2>10 DEF Administer
<1>3. ASSUME NEW a \in Admin, ReadFails(a) PROVE PlanInv'
  <2>1. row' = row /\ failures' = failures + 1
    BY <1>3 DEF ReadFails, Failure, tableVars
  <2>2. Others(a)
    BY <1>3, <1>g, <1>d DEF ReadFails, Counted
  <2> QED
    BY <1>t, <2>1, <2>2, PlanUncounted DEF Others
<1>4. ASSUME NEW c \in Call, CommandFails(c) \/ StatementFails(c) PROVE PlanInv'
  <2>1. row' = row /\ failures <= failures'
    BY <1>4, <1>f DEF CommandFails, StatementFails, Failure, tableVars
  <2> QED
    BY <1>4, <1>y, <1>z, <1>s, <2>1 DEF CommandFails, StatementFails
<1>5. CASE Tick \/ UNCHANGED vars
  <2>1. UNCHANGED <<row, call, failures>>
    BY <1>5 DEF Tick, vars, tableVars
  <2> QED
    BY <2>1 DEF PlanInv, Claimed, Rows, Inserters
<1> QED
  BY <1>1, <1>2, <1>3, <1>4, <1>5 DEF Next

\* MaxRateLimits and MaxBudgetLimits: a tenant has at most one row more than the
\* plan allows for every other request at work, and one per failed count, for
\* any number of slots, administrators and failures.
THEOREM PlanNearlyKept == Spec => []LimitsWithinPlan
<1>1. Init => PlanInv
  <2> SUFFICES ASSUME Init PROVE PlanInv
    OBVIOUS
  <2>1. TypeOK /\ failures = 0 /\ MaxLimits \in Nat
    BY TypeInit, LimitAssumption DEF Init
  <2>2. Inserters = {}
    BY DEF Init, Inserters, Ready, Inserting, Call
  <2>3. Claimed = Rows
    BY <2>2 DEF Claimed
  <2>4. Cardinality(Rows) <= (IF table = "price" THEN 0 ELSE MaxLimits)
    BY DEF Init
  <2> QED
    BY <2>1, <2>3, <2>4, ClaimedFinite DEF PlanInv
<1>2. TypeOK /\ PlanInv => LimitsWithinPlan
  <2> SUFFICES ASSUME TypeOK, PlanInv PROVE LimitsWithinPlan
    OBVIOUS
  <2>1. Cardinality(Rows) <= Cardinality(Claimed) /\ Cardinality(Rows) \in Nat
        /\ Cardinality(Claimed) \in Nat /\ Cardinality(Admin) \in Nat
    BY ClaimedFinite, FS_Subset
  <2>2. MaxLimits \in Nat /\ failures \in Nat
    BY LimitAssumption DEF TypeOK
  <2> QED
    BY <2>1, <2>2 DEF PlanInv, LimitsWithinPlan
<1> QED
  BY <1>1, <1>2, TypeInit, TypeStep, PlanStep, PTL DEF Spec
-----------------------------------------------------------------------------
(* Pricing configurations. *)

OneConfigAdmin == \A a, b \in ConfigAdmin : a = b

ConfigStep == {"none", "verify", "rates", "assignments", "config", "existing", "createRate",
               "dropRate", "key", "clear", "assign", "unassign", "forget"}
ConfigTask == [pc : ConfigStep, op : {"none"} \cup DOMAIN AfterVerify,
               config : Config \cup {NoConfig}, key : KeyId \cup {"none"}]

\* What a request about a configuration says.
Asks(t) == t.op \in DOMAIN AfterVerify /\ t.config \in Config /\ t.key \in KeyId

ConfigTypes ==
  /\ config \in [Config -> {"new", "stored", "deleted"}]
  /\ rates \in [Config -> Nat]
  /\ assigned \in [KeyId -> Config \cup {NoConfig}]
  /\ keyState \in [KeyId -> {"live", "revoked", "closed"}]
  /\ task \in [ConfigAdmin -> ConfigTask]
  /\ \A a \in ConfigAdmin : task[a].pc \notin {"none", "forget"} => Asks(task[a])
  /\ dead \in Nat /\ ignored \in Nat

\* What a request has made sure of before its next statement.
TaskOK(t) ==
  /\ t.pc \notin {"none", "verify", "forget"} => config[t.config] = "stored"
  /\ t.pc \in {"assignments", "config", "createRate"} => rates[t.config] = 0
  /\ t.pc = "config" => \A k \in KeyId : assigned[k] # t.config
  /\ t.pc \in {"clear", "assign"} => keyState[t.key] = "live"
  /\ t.pc = "forget" => t.key \in KeyId /\ keyState[t.key] = "revoked"

\* The rows between any two statements.
RowsOK ==
  /\ \A c \in Config : config[c] # "stored" => rates[c] = 0 /\ \A k \in KeyId : assigned[k] # c
  /\ \A c \in Config : rates[c] <= 1
  /\ dead = 0 =>
       \A k \in KeyId : keyState[k] = "revoked" =>
          assigned[k] = NoConfig \/ \E a \in ConfigAdmin : task[a].pc = "forget" /\ task[a].key = k

ConfigInv == ConfigTypes /\ (ignored = 0 => RowsOK /\ \A a \in ConfigAdmin : TaskOK(task[a]))

\* The rows as they stand belong together, and what the run checks follows.
LEMMA ConfigsHold ==
  ASSUME ConfigInv
  PROVE  ConfigsConsistent
<1>1. SUFFICES ASSUME ignored = 0
               PROVE  ConfigsConsistent
  BY DEF ConfigsConsistent
<1>2. RowsOK
  BY <1>1 DEF ConfigInv
<1>3. \A k \in KeyId : KeyRates(k) <= 1
  BY <1>2 DEF RowsOK, KeyRates, ConfigInv, ConfigTypes
<1>4. dead = 0 /\ (\A a \in ConfigAdmin : task[a] = NoTask) =>
        \A k \in KeyId : keyState[k] = "revoked" => assigned[k] = NoConfig
  BY <1>2 DEF RowsOK, NoTask
<1> QED
  BY <1>2, <1>3, <1>4 DEF RowsOK, ConfigsConsistent


\* What one request does, whatever else is in the tables: its step, and its task
\* set to another one.
LEMMA ConfigTypesKept ==
  ASSUME ConfigTypes, NEW a \in ConfigAdmin,
         OnConfig(a) \/ OnRate(a) \/ OnAssignment(a) \/ DieConfig(a) \/ IgnoreError(a)
  PROVE  ConfigTypes'
<1> USE NoConfigAssumption
<1>n. NoTask \in ConfigTask /\ NoTask.pc = "none"
  BY DEF NoTask, ConfigTask, ConfigStep
<1>v. /\ DOMAIN AfterVerify = {"delete", "addRate", "dropRate", "assign", "unassign"}
      /\ \A op \in DOMAIN AfterVerify : AfterVerify[op] \in ConfigStep \ {"none", "forget"}
  BY DEF AfterVerify, ConfigStep
<1>e. /\ DOMAIN AfterError = {"rates", "assignments", "existing", "clear", "config", "forget"}
      /\ \A pc \in DOMAIN AfterError : AfterError[pc] \in ConfigStep \ {"forget"}
      /\ AfterError["forget"] = "none"
  BY DEF AfterError, ConfigStep
\* A request goes on to its next step, ends, or begins.
<1>m. ASSUME NEW t, task' = [task EXCEPT ![a] = t], t \in ConfigTask,
             t.pc \notin {"none", "forget"} => Asks(t)
      PROVE  /\ task' \in [ConfigAdmin -> ConfigTask]
             /\ \A b \in ConfigAdmin : task'[b].pc \notin {"none", "forget"} => Asks(task'[b])
  BY <1>m DEF ConfigTypes
<1>d. Done(a) => /\ task' \in [ConfigAdmin -> ConfigTask]
                 /\ \A b \in ConfigAdmin : task'[b].pc \notin {"none", "forget"} => Asks(task'[b])
  BY <1>n DEF ConfigTypes, Done
<1>p. ASSUME NEW pc \in ConfigStep, Proceed(a, pc), task[a].pc \notin {"none", "forget"}
      PROVE  /\ task' \in [ConfigAdmin -> ConfigTask]
             /\ \A b \in ConfigAdmin : task'[b].pc \notin {"none", "forget"} => Asks(task'[b])
  <2>1. task' = [task EXCEPT ![a] = [task[a] EXCEPT !.pc = pc]]
    BY <1>p DEF Proceed
  <2>2. [task[a] EXCEPT !.pc = pc] \in ConfigTask /\ Asks([task[a] EXCEPT !.pc = pc])
    BY <1>p DEF ConfigTypes, ConfigTask, Asks
  <2> QED
    BY <1>m, <2>1, <2>2
<1>u. \A c \in Config \cup {NoConfig} : Unassigned(c) \in [KeyId -> Config \cup {NoConfig}]
  BY DEF Unassigned, ConfigTypes
<1>1. CASE CreateConfig(a)
  BY <1>1 DEF CreateConfig, ConfigTypes, Asks
<1>2. CASE AskConfig(a)
  <2>1. PICK op \in DOMAIN AfterVerify, c \in Config, k \in KeyId :
          Begin(a, [pc |-> "verify", op |-> op, config |-> c, key |-> k])
    BY <1>2 DEF AskConfig
  <2>2. [pc |-> "verify", op |-> op, config |-> c, key |-> k] \in ConfigTask
    BY DEF ConfigTask, ConfigStep
  <2>3. Asks([pc |-> "verify", op |-> op, config |-> c, key |-> k])
    BY DEF Asks
  <2> QED
    BY <1>2, <1>m, <2>1, <2>2, <2>3 DEF AskConfig, Begin, rowVars, ConfigTypes
<1>3. CASE VerifyConfig(a)
  <2>1. task[a].pc = "verify" /\ AfterVerify[task[a].op] \in ConfigStep
    BY <1>3, <1>v DEF VerifyConfig, TaskAt, ConfigTypes, Asks
  <2> QED
    BY <1>3, <2>1, <1>p, <1>d DEF VerifyConfig, rowVars, Counts, ConfigTypes
<1>4. CASE DeleteRates(a)
  <2>1. task[a].pc = "rates" /\ "assignments" \in ConfigStep
    BY <1>4 DEF DeleteRates, TaskAt, ConfigStep
  <2>t. task[a] \in ConfigTask /\ (task[a].pc # "forget" => Asks(task[a]))
    BY <2>1 DEF ConfigTypes
  <2> QED
    BY <1>4, <2>1, <2>t, <1>p, <1>d, <1>u DEF DeleteRates, Its, rowVars, Counts, ConfigTypes, ConfigTask, Asks
<1>5. CASE DeleteAssignments(a)
  <2>1. task[a].pc = "assignments" /\ "config" \in ConfigStep
    BY <1>5 DEF DeleteAssignments, TaskAt, ConfigStep
  <2>t. task[a] \in ConfigTask /\ (task[a].pc # "forget" => Asks(task[a]))
    BY <2>1 DEF ConfigTypes
  <2> QED
    BY <1>5, <2>1, <2>t, <1>p, <1>d, <1>u DEF DeleteAssignments, Its, rowVars, Counts, ConfigTypes, ConfigTask, Asks
<1>6. CASE DeleteConfig(a)
  <2>1. task[a].pc = "config"
    BY <1>6 DEF DeleteConfig, TaskAt, ConfigStep
  <2>t. task[a] \in ConfigTask /\ (task[a].pc # "forget" => Asks(task[a]))
    BY <2>1 DEF ConfigTypes
  <2> QED
    BY <1>6, <2>1, <2>t, <1>d, <1>u DEF DeleteConfig, Its, rowVars, Counts, ConfigTypes, ConfigTask, Asks
<1>7. CASE FindRate(a)
  <2>1. task[a].pc = "existing" /\ "createRate" \in ConfigStep
    BY <1>7 DEF FindRate, TaskAt, ConfigStep
  <2>t. task[a] \in ConfigTask /\ (task[a].pc # "forget" => Asks(task[a]))
    BY <2>1 DEF ConfigTypes
  <2> QED
    BY <1>7, <2>1, <2>t, <1>p, <1>d, <1>u DEF FindRate, Its, rowVars, Counts, ConfigTypes, ConfigTask, Asks
<1>8. CASE CreateRate(a)
  <2>1. task[a].pc = "createRate"
    BY <1>8 DEF CreateRate, TaskAt, ConfigStep
  <2>t. task[a] \in ConfigTask /\ (task[a].pc # "forget" => Asks(task[a]))
    BY <2>1 DEF ConfigTypes
  <2> QED
    BY <1>8, <2>1, <2>t, <1>d, <1>u DEF CreateRate, Its, rowVars, Counts, ConfigTypes, ConfigTask, Asks
<1>9. CASE DeleteRate(a)
  <2>1. task[a].pc = "dropRate"
    BY <1>9 DEF DeleteRate, TaskAt, ConfigStep
  <2>t. task[a] \in ConfigTask /\ (task[a].pc # "forget" => Asks(task[a]))
    BY <2>1 DEF ConfigTypes
  <2> QED
    BY <1>9, <2>1, <2>t, <1>d, <1>u DEF DeleteRate, Its, rowVars, Counts, ConfigTypes, ConfigTask, Asks
<1>10. CASE CheckKey(a)
  <2>1. task[a].pc = "key" /\ "clear" \in ConfigStep
    BY <1>10 DEF CheckKey, TaskAt, ConfigStep
  <2>t. task[a] \in ConfigTask /\ (task[a].pc # "forget" => Asks(task[a]))
    BY <2>1 DEF ConfigTypes
  <2> QED
    BY <1>10, <2>1, <2>t, <1>p, <1>d, <1>u DEF CheckKey, Its, rowVars, Counts, ConfigTypes, ConfigTask, Asks
<1>11. CASE ClearAssignment(a)
  <2>1. task[a].pc = "clear" /\ "assign" \in ConfigStep
    BY <1>11 DEF ClearAssignment, TaskAt, ConfigStep
  <2>t. task[a] \in ConfigTask /\ (task[a].pc # "forget" => Asks(task[a]))
    BY <2>1 DEF ConfigTypes
  <2> QED
    BY <1>11, <2>1, <2>t, <1>p, <1>d, <1>u DEF ClearAssignment, Its, rowVars, Counts, ConfigTypes, ConfigTask, Asks
<1>12. CASE CreateAssignment(a)
  <2>1. task[a].pc = "assign"
    BY <1>12 DEF CreateAssignment, TaskAt, ConfigStep
  <2>t. task[a] \in ConfigTask /\ (task[a].pc # "forget" => Asks(task[a]))
    BY <2>1 DEF ConfigTypes
  <2> QED
    BY <1>12, <2>1, <2>t, <1>d, <1>u DEF CreateAssignment, Its, rowVars, Counts, ConfigTypes, ConfigTask, Asks
<1>13. CASE Unassign(a)
  <2>1. task[a].pc = "unassign"
    BY <1>13 DEF Unassign, TaskAt, ConfigStep
  <2>t. task[a] \in ConfigTask /\ (task[a].pc # "forget" => Asks(task[a]))
    BY <2>1 DEF ConfigTypes
  <2> QED
    BY <1>13, <2>1, <2>t, <1>d, <1>u DEF Unassign, Its, rowVars, Counts, ConfigTypes, ConfigTask, Asks
<1>14. CASE RevokePricedKey(a)
  <2>1. PICK k \in KeyId : /\ Begin(a, [NoTask EXCEPT !.pc = "forget", !.key = k])
                        /\ keyState' = [keyState EXCEPT ![k] = "revoked"]
    BY <1>14 DEF RevokePricedKey
  <2>2. [NoTask EXCEPT !.pc = "forget", !.key = k] \in ConfigTask /\ [NoTask EXCEPT !.pc = "forget", !.key = k].pc = "forget"
    BY DEF NoTask, ConfigTask, ConfigStep
  <2> QED
    BY <1>14, <1>m, <2>1, <2>2 DEF RevokePricedKey, Begin, ConfigTypes
<1>15. CASE ForgetAssignment(a)
  <2>1. task[a].pc = "forget"
    BY <1>15 DEF ForgetAssignment, TaskAt, ConfigStep
  <2>t. task[a] \in ConfigTask /\ (task[a].pc # "forget" => Asks(task[a]))
    BY <2>1 DEF ConfigTypes
  <2> QED
    BY <1>15, <2>1, <2>t, <1>d, <1>u DEF ForgetAssignment, Its, rowVars, Counts, ConfigTypes, ConfigTask, Asks
<1>16. CASE DieConfig(a)
  BY <1>16, <1>d DEF DieConfig, rowVars, ConfigTypes
<1>17. CASE IgnoreError(a)
  <2>1. task[a].pc \in DOMAIN AfterError /\ AfterError[task[a].pc] \in ConfigStep
    BY <1>17, <1>e DEF IgnoreError
  <2>2. AfterError[task[a].pc] # "none" => task[a].pc \notin {"none", "forget"}
    BY <2>1, <1>e
  <2> QED
    BY <1>17, <2>1, <2>2, <1>p, <1>d DEF IgnoreError, rowVars, ConfigTypes
<1>18. CASE RevokeAllKeys(a)
  BY <1>18 DEF RevokeAllKeys, ConfigTypes, Asks
<1> QED
  BY <1>1, <1>2, <1>3, <1>4, <1>5, <1>6, <1>7, <1>8, <1>9, <1>10, <1>11, <1>12, <1>13, <1>14, <1>15, <1>16, <1>17, <1>18
     DEF OnConfig, OnRate, OnAssignment


\* The rows belong together and every request has made sure of what it needs,
\* after any step of a request that runs alone.
LEMMA ConfigRowsKept ==
  ASSUME OneConfigAdmin, ConfigInv, ConfigTypes', ignored' = 0, NEW a \in ConfigAdmin,
         OnConfig(a) \/ OnRate(a) \/ OnAssignment(a) \/ DieConfig(a) \/ IgnoreError(a)
  PROVE  RowsOK' /\ \A b \in ConfigAdmin : TaskOK(task[b])'
<1> USE NoConfigAssumption
<1> DEFINE t == task[a]
<1>o. \A b \in ConfigAdmin : b = a
  BY DEF OneConfigAdmin
<1>n. NoTask.pc = "none" /\ NoTask \in ConfigTask
  BY DEF NoTask, ConfigTask, ConfigStep
<1>z. ignored = 0 /\ ~IgnoreError(a)
  <2>1. ignored \in Nat
    BY DEF ConfigInv, ConfigTypes
  <2>2. ~IgnoreError(a)
    BY <2>1 DEF IgnoreError
  <2> QED
    BY <2>2 DEF OnConfig, CreateConfig, AskConfig, VerifyConfig, DeleteRates, DeleteAssignments, DeleteConfig,
                OnRate, FindRate, CreateRate, DeleteRate, OnAssignment, CheckKey, ClearAssignment, CreateAssignment,
                Unassign, RevokePricedKey, ForgetAssignment, RevokeAllKeys, DieConfig, Begin, Counts
<1>h. /\ RowsOK /\ TaskOK(t) /\ ConfigTypes
      /\ t \in ConfigTask /\ (t.pc \notin {"none", "forget"} => Asks(t))
  BY <1>z DEF ConfigInv, ConfigTypes
<1>s. SUFFICES RowsOK' /\ TaskOK(task[a])'
  BY <1>o
<1>g. \A pc : Proceed(a, pc) => task'[a] = [t EXCEPT !.pc = pc] /\ task'[a].pc = pc
  BY <1>h DEF Proceed, ConfigTypes, ConfigTask
<1>d. Done(a) => task'[a] = NoTask /\ TaskOK(task[a])'
  BY <1>n DEF Done, ConfigInv, ConfigTypes, TaskOK
<1>b. \A u : Begin(a, u) => task'[a] = u /\ t = NoTask /\ dead' = dead
  BY DEF Begin, ConfigInv, ConfigTypes
<1>u. \A c, k : k \in KeyId => Unassigned(c)[k] = IF assigned[k] = c THEN NoConfig ELSE assigned[k]
  BY DEF Unassigned
\* Nothing of the rows changes, and no key waits for its assignment to go.
<1>q. ASSUME UNCHANGED rowVars, dead' = dead \/ dead' # 0, t.pc # "forget" \/ dead' # 0
      PROVE  RowsOK'
  BY <1>q, <1>h, <1>o DEF RowsOK, rowVars
<1>1. CASE CreateConfig(a)
  BY <1>1, <1>h, <1>o DEF CreateConfig, ConfigTypes, RowsOK, TaskOK
<1>2. CASE AskConfig(a)
  <2>1. PICK op \in DOMAIN AfterVerify, c \in Config, k \in KeyId :
          Begin(a, [pc |-> "verify", op |-> op, config |-> c, key |-> k])
    BY <1>2 DEF AskConfig
  <2>2. TaskOK(task[a])'
    BY <2>1, <1>b DEF TaskOK
  <2>3. RowsOK'
    BY <1>2, <2>1, <1>b, <1>q, <1>n DEF AskConfig
  <2> QED
    BY <2>2, <2>3
<1>3. CASE VerifyConfig(a)
  <2>1. t.pc = "verify" /\ Asks(t)
    BY <1>3, <1>h DEF VerifyConfig, TaskAt
  <2>2. RowsOK'
    BY <1>3, <2>1, <1>q DEF VerifyConfig, Counts
  <2>3. ASSUME config[t.config] = "stored", Proceed(a, AfterVerify[t.op])
        PROVE  TaskOK(task[a])'
    <3>1. AfterVerify[t.op] \in {"rates", "existing", "dropRate", "key", "unassign"}
      BY <2>1 DEF Asks, AfterVerify
    <3>2. task'[a].pc = AfterVerify[t.op] /\ task'[a].config = t.config
      BY <2>3, <1>g, <1>h DEF ConfigTask
    <3> QED
      BY <1>3, <3>1, <3>2, <2>3 DEF VerifyConfig, TaskOK, rowVars
  <2> QED
    BY <1>3, <2>2, <2>3, <1>d DEF VerifyConfig, Its
<1>4. CASE DeleteRates(a)
  <2>1. t.pc = "rates" /\ Asks(t)
    BY <1>4, <1>h DEF DeleteRates, TaskAt
  <2>2. RowsOK'
    BY <1>4, <2>1, <1>h, <1>o, <1>u DEF DeleteRates, Its, Counts, rowVars, RowsOK, TaskOK, Asks, ConfigTypes
  <2>3. TaskOK(task[a])'
    BY <1>4, <2>1, <1>h, <1>g, <1>d, <1>u DEF DeleteRates, Its, rowVars, TaskOK, Asks, ConfigTypes, ConfigTask
  <2> QED
    BY <2>2, <2>3
<1>5. CASE DeleteAssignments(a)
  <2>1. t.pc = "assignments" /\ Asks(t)
    BY <1>5, <1>h DEF DeleteAssignments, TaskAt
  <2>2. RowsOK'
    BY <1>5, <2>1, <1>h, <1>o, <1>u DEF DeleteAssignments, Its, Counts, rowVars, RowsOK, TaskOK, Asks, ConfigTypes
  <2>3. TaskOK(task[a])'
    BY <1>5, <2>1, <1>h, <1>g, <1>d, <1>u DEF DeleteAssignments, Its, rowVars, TaskOK, Asks, ConfigTypes, ConfigTask
  <2> QED
    BY <2>2, <2>3
<1>6. CASE DeleteConfig(a)
  <2>1. t.pc = "config" /\ Asks(t)
    BY <1>6, <1>h DEF DeleteConfig, TaskAt
  <2>2. RowsOK'
    BY <1>6, <2>1, <1>h, <1>o, <1>u DEF DeleteConfig, Its, Counts, rowVars, RowsOK, TaskOK, Asks, ConfigTypes
  <2>3. TaskOK(task[a])'
    BY <1>6, <2>1, <1>h, <1>g, <1>d, <1>u DEF DeleteConfig, Its, rowVars, TaskOK, Asks, ConfigTypes, ConfigTask
  <2> QED
    BY <2>2, <2>3
<1>7. CASE FindRate(a)
  <2>1. t.pc = "existing" /\ Asks(t)
    BY <1>7, <1>h DEF FindRate, TaskAt
  <2>2. RowsOK'
    BY <1>7, <2>1, <1>h, <1>o, <1>u DEF FindRate, Its, Counts, rowVars, RowsOK, TaskOK, Asks, ConfigTypes
  <2>3. TaskOK(task[a])'
    BY <1>7, <2>1, <1>h, <1>g, <1>d, <1>u DEF FindRate, Its, rowVars, TaskOK, Asks, ConfigTypes, ConfigTask
  <2> QED
    BY <2>2, <2>3
<1>8. CASE CreateRate(a)
  <2>1. t.pc = "createRate" /\ Asks(t)
    BY <1>8, <1>h DEF CreateRate, TaskAt
  <2>2. RowsOK'
    BY <1>8, <2>1, <1>h, <1>o, <1>u DEF CreateRate, Its, Counts, rowVars, RowsOK, TaskOK, Asks, ConfigTypes
  <2>3. TaskOK(task[a])'
    BY <1>8, <2>1, <1>h, <1>g, <1>d, <1>u DEF CreateRate, Its, rowVars, TaskOK, Asks, ConfigTypes, ConfigTask
  <2> QED
    BY <2>2, <2>3
<1>9. CASE DeleteRate(a)
  <2>1. t.pc = "dropRate" /\ Asks(t)
    BY <1>9, <1>h DEF DeleteRate, TaskAt
  <2>2. RowsOK'
    BY <1>9, <2>1, <1>h, <1>o, <1>u DEF DeleteRate, Its, Counts, rowVars, RowsOK, TaskOK, Asks, ConfigTypes
  <2>3. TaskOK(task[a])'
    BY <1>9, <2>1, <1>h, <1>g, <1>d, <1>u DEF DeleteRate, Its, rowVars, TaskOK, Asks, ConfigTypes, ConfigTask
  <2> QED
    BY <2>2, <2>3
<1>10. CASE CheckKey(a)
  <2>1. t.pc = "key" /\ Asks(t)
    BY <1>10, <1>h DEF CheckKey, TaskAt
  <2>2. RowsOK'
    BY <1>10, <2>1, <1>h, <1>o, <1>u DEF CheckKey, Its, Counts, rowVars, RowsOK, TaskOK, Asks, ConfigTypes
  <2>3. TaskOK(task[a])'
    BY <1>10, <2>1, <1>h, <1>g, <1>d, <1>u DEF CheckKey, Its, rowVars, TaskOK, Asks, ConfigTypes, ConfigTask
  <2> QED
    BY <2>2, <2>3
<1>11. CASE ClearAssignment(a)
  <2>1. t.pc = "clear" /\ Asks(t)
    BY <1>11, <1>h DEF ClearAssignment, TaskAt
  <2>2. RowsOK'
    BY <1>11, <2>1, <1>h, <1>o, <1>u DEF ClearAssignment, Its, Counts, rowVars, RowsOK, TaskOK, Asks, ConfigTypes
  <2>3. TaskOK(task[a])'
    BY <1>11, <2>1, <1>h, <1>g, <1>d, <1>u DEF ClearAssignment, Its, rowVars, TaskOK, Asks, ConfigTypes, ConfigTask
  <2> QED
    BY <2>2, <2>3
<1>12. CASE CreateAssignment(a)
  <2>1. t.pc = "assign" /\ Asks(t)
    BY <1>12, <1>h DEF CreateAssignment, TaskAt
  <2>2. RowsOK'
    BY <1>12, <2>1, <1>h, <1>o, <1>u DEF CreateAssignment, Its, Counts, rowVars, RowsOK, TaskOK, Asks, ConfigTypes
  <2>3. TaskOK(task[a])'
    BY <1>12, <2>1, <1>h, <1>g, <1>d, <1>u DEF CreateAssignment, Its, rowVars, TaskOK, Asks, ConfigTypes, ConfigTask
  <2> QED
    BY <2>2, <2>3
<1>13. CASE Unassign(a)
  <2>1. t.pc = "unassign" /\ Asks(t)
    BY <1>13, <1>h DEF Unassign, TaskAt
  <2>2. RowsOK'
    BY <1>13, <2>1, <1>h, <1>o, <1>u DEF Unassign, Its, Counts, rowVars, RowsOK, TaskOK, Asks, ConfigTypes
  <2>3. TaskOK(task[a])'
    BY <1>13, <2>1, <1>h, <1>g, <1>d, <1>u DEF Unassign, Its, rowVars, TaskOK, Asks, ConfigTypes, ConfigTask
  <2> QED
    BY <2>2, <2>3
<1>14. CASE ForgetAssignment(a)
  <2>1. t.pc = "forget"
    BY <1>14, <1>h DEF ForgetAssignment, TaskAt
  <2>2. RowsOK'
    BY <1>14, <2>1, <1>h, <1>o, <1>u DEF ForgetAssignment, Its, Counts, rowVars, RowsOK, TaskOK, Asks, ConfigTypes
  <2>3. TaskOK(task[a])'
    BY <1>14, <2>1, <1>h, <1>g, <1>d, <1>u DEF ForgetAssignment, Its, rowVars, TaskOK, Asks, ConfigTypes, ConfigTask
  <2> QED
    BY <2>2, <2>3
<1>15. CASE RevokePricedKey(a)
  <2>1. PICK k \in KeyId : /\ Begin(a, [NoTask EXCEPT !.pc = "forget", !.key = k])
                        /\ keyState' = [keyState EXCEPT ![k] = "revoked"]
    BY <1>15 DEF RevokePricedKey
  <2>2. task'[a].pc = "forget" /\ task'[a].key = k /\ t.pc = "none" /\ dead' = dead
    <3>1. task'[a] = [NoTask EXCEPT !.pc = "forget", !.key = k] /\ t = NoTask /\ dead' = dead
      BY <2>1, <1>b
    <3> QED
      BY <3>1 DEF NoTask
  <2>3. RowsOK'
    BY <1>15, <2>1, <2>2, <1>h, <1>o DEF RevokePricedKey, RowsOK
  <2>4. TaskOK(task[a])'
    BY <2>1, <2>2, <1>h DEF TaskOK, ConfigTypes
  <2> QED
    BY <2>3, <2>4
<1>16. CASE DieConfig(a)
  <2>1. dead' # 0 /\ UNCHANGED rowVars /\ Done(a)
    BY <1>16, <1>h DEF DieConfig, ConfigTypes
  <2> QED
    BY <2>1, <1>q, <1>d
<1>17. CASE RevokeAllKeys(a)
  <2>1. t.pc = "none" /\ task' = task /\ dead' = dead /\ config' = config /\ rates' = rates /\ assigned' = assigned
    BY <1>17 DEF RevokeAllKeys, NoTask
  <2>2. \A k \in KeyId : keyState'[k] = "revoked" => keyState[k] = "revoked"
    BY <1>17 DEF RevokeAllKeys
  <2>3. RowsOK'
    BY <2>1, <2>2, <1>h, <1>o DEF RowsOK
  <2>4. TaskOK(task[a])'
    BY <2>1 DEF TaskOK
  <2> QED
    BY <2>3, <2>4
<1> QED
  BY <1>z, <1>1, <1>2, <1>3, <1>4, <1>5, <1>6, <1>7, <1>8, <1>9, <1>10, <1>11, <1>12, <1>13, <1>14, <1>15, <1>16, <1>17
     DEF OnConfig, OnRate, OnAssignment


\* A tenant's pricing configurations are consistent after every statement of
\* requests that run one at a time and whose ignored statements succeed, wherever
\* a request dies: no rate or assignment is left without its configuration, a
\* request finds at most one price, and a key that RevokeKey has revoked keeps no
\* assignment (one that the deletion of the account has revoked does).
THEOREM ConfigsStayConsistent ==
  ASSUME OneConfigAdmin
  PROVE  ConfigSpec => []ConfigsConsistent
<1>1. InitConfigs => ConfigInv
  BY NoConfigAssumption DEF InitConfigs, ConfigInv, ConfigTypes, RowsOK, TaskOK, Asks, NoTask, ConfigTask, ConfigStep
<1>2. ConfigInv /\ [NextConfigs]_configVars => ConfigInv'
  <2> SUFFICES ASSUME ConfigInv, [NextConfigs]_configVars
               PROVE  ConfigInv'
    OBVIOUS
  <2>1. ASSUME NEW a \in ConfigAdmin, OnConfig(a) \/ OnRate(a) \/ OnAssignment(a) \/ DieConfig(a) \/ IgnoreError(a)
        PROVE  ConfigInv'
    <3>1. ConfigTypes'
      BY <2>1, ConfigTypesKept DEF ConfigInv
    <3>2. ignored' = 0 => RowsOK' /\ \A b \in ConfigAdmin : TaskOK(task[b])'
      BY <2>1, <3>1, ConfigRowsKept
    <3> QED
      BY <3>1, <3>2 DEF ConfigInv
  <2>2. CASE UNCHANGED configVars
    BY <2>2 DEF configVars, rowVars, ConfigInv, ConfigTypes, RowsOK, TaskOK, Asks
  <2> QED
    BY <2>1, <2>2 DEF NextConfigs
<1>3. ConfigInv => ConfigsConsistent
  BY ConfigsHold
<1> QED
  BY <1>1, <1>2, <1>3, PTL DEF ConfigSpec


-----------------------------------------------------------------------------
(* Model groups. *)

\* One tenant's groups, changed one at a time and served by one pod.
OneGroupAdmin ==
  /\ \A a, b \in GroupAdmin : a = b
  /\ \A p, q \in Pod : p = q
  /\ \A g, h \in Group : TenantOf[g] = TenantOf[h]

GroupRow == [state : {"new", "stored", "deleted"}, name : GroupName \cup {NoName}, on : BOOLEAN, version : Nat]
GroupEntry == [group : Group \cup {"none"}, version : Nat]
GroupJob == [pc : {"none", "load", "update", "reload", "sync", "delete", "unroute"},
             group : Group \cup {"none"}, name : GroupName \cup {NoName}, on : BOOLEAN, version : Nat]

GroupTypes ==
  /\ group \in [Group -> GroupRow]
  /\ routed \in [Pod -> [GroupName -> GroupEntry]]
  /\ job \in [GroupAdmin -> GroupJob]
  /\ \A a \in GroupAdmin : job[a].pc # "none" => job[a].group \in Group
  /\ mishaps \in Nat

\* What GroupsFollow says of one group on one pod.
Follows(p, g) ==
  /\ Exists(g) /\ group[g].on => routed[p][group[g].name] = Current(g)
  /\ group[g].state # "new" /\ ~(Exists(g) /\ group[g].on) => routed[p][group[g].name].group # g

\* What a request has done to its group, and what it is about to do to the map.
JobOK(j) ==
  /\ j.pc = "none" => j = NoJob
  /\ j.pc \in {"load", "update", "delete"} => group[j.group].state # "new" /\ j.name \in GroupName
  /\ j.pc \in {"update", "reload", "sync", "delete"} => Exists(j.group)
  /\ j.pc = "reload" => IF j.name = NoName THEN group[j.group].on ELSE j.name = group[j.group].name
  /\ j.pc = "sync" => j.name = group[j.group].name /\ j.on = group[j.group].on
  /\ j.pc = "sync" /\ j.on => j.version = group[j.group].version
  /\ j.pc \in {"delete", "unroute"} => j.name = group[j.group].name
  /\ j.pc = "unroute" => /\ group[j.group].state = "deleted"
                         /\ \A g \in Group : Exists(g) => group[g].name # j.name

\* Until its request has changed the map, a group is not routed as it is saved.
Unsynced(g) == \E a \in GroupAdmin : job[a].pc \in {"reload", "sync", "unroute"} /\ job[a].group = g

NamesUnique == \A g, h \in Group : Exists(g) /\ Exists(h) /\ group[g].name = group[h].name => g = h

GroupsOK ==
  /\ \A g \in Group : group[g].state # "new" => group[g].name \in GroupName
  /\ NamesUnique
  /\ \A a \in GroupAdmin : JobOK(job[a])
  /\ \A p \in Pod, g \in Group : Unsynced(g) \/ Follows(p, g)

GroupInv == GroupTypes /\ (mishaps = 0 => GroupsOK)


LEMMA GroupsHold ==
  ASSUME GroupInv
  PROVE  GroupsFollow
<1>1. SUFFICES ASSUME Undisturbed
               PROVE  GroupsFollow
  BY DEF GroupsFollow
<1>2. GroupsOK /\ \A g \in Group : ~Unsynced(g)
  BY <1>1 DEF GroupInv, Undisturbed, Unsynced, NoJob
<1> QED
  BY <1>2 DEF GroupsOK, Follows, GroupsFollow

\* What one request does to its own record.
LEMMA GroupTypesKept ==
  ASSUME GroupTypes, NEW a \in GroupAdmin, OnGroup(a) \/ JobFails(a)
  PROVE  GroupTypes'
<1> USE GroupAssumption
<1> DEFINE JobsTyped == /\ job' \in [GroupAdmin -> GroupJob]
                        /\ \A b \in GroupAdmin : job'[b].pc # "none" => job'[b].group \in Group
           Steps == {"load", "update", "reload", "sync", "delete", "unroute"}
<1>n. NoJob \in GroupJob /\ NoJob.pc = "none"
  BY DEF NoJob, GroupJob
<1>h. /\ job[a] \in GroupJob /\ (job[a].pc # "none" => job[a].group \in Group)
      /\ \A p \in Pod, n \in GroupName : routed[p][n] \in GroupEntry
      /\ ServedBy[a] \in Pod
  BY DEF GroupTypes
<1>m. ASSUME NEW j, job' = [job EXCEPT ![a] = j], j \in GroupJob, j.pc # "none" => j.group \in Group
      PROVE  JobsTyped
  BY <1>m DEF GroupTypes
<1>l. Leave(a) => JobsTyped
  BY <1>n, <1>m DEF Leave
<1>p. ASSUME NEW pc \in Steps, Move(a, pc), job[a].pc # "none"
      PROVE  JobsTyped
  <2>1. job' = [job EXCEPT ![a] = [job[a] EXCEPT !.pc = pc]]
    BY <1>p DEF Move
  <2>2. [job[a] EXCEPT !.pc = pc] \in GroupJob /\ [job[a] EXCEPT !.pc = pc].group = job[a].group
    BY <1>p, <1>h DEF GroupJob
  <2> QED
    BY <1>m, <1>p, <1>h, <2>1, <2>2
<1>s. ASSUME NEW j, StartJob(a, j), j \in GroupJob, j.pc # "none" => j.group \in Group
      PROVE  JobsTyped
  BY <1>s, <1>m DEF StartJob
<1>r. ASSUME NEW n, NEW e \in GroupEntry, Route(a, n, e)
      PROVE  routed' \in [Pod -> [GroupName -> GroupEntry]]
  BY <1>r, <1>h DEF Route, GroupTypes
<1>e. Unrouted \in GroupEntry
  BY DEF Unrouted, GroupEntry
<1>1. CASE CreateGroup(a)
  <2>1. PICK g \in Group, n \in GroupName :
          /\ StartJob(a, [NoJob EXCEPT !.pc = "reload", !.group = g])
          /\ group' = [group EXCEPT ![g] = [state |-> "stored", name |-> n, on |-> TRUE, version |-> 1]]
    BY <1>1 DEF CreateGroup
  <2>2. [NoJob EXCEPT !.pc = "reload", !.group = g] \in GroupJob /\ [NoJob EXCEPT !.pc = "reload", !.group = g].group = g
    BY DEF NoJob, GroupJob
  <2>3. JobsTyped
    BY <2>1, <2>2, <1>s
  <2>4. [state |-> "stored", name |-> n, on |-> TRUE, version |-> 1] \in GroupRow
    BY DEF GroupRow
  <2> QED
    BY <1>1, <2>1, <2>3, <2>4 DEF CreateGroup, GroupTypes
<1>2. CASE UpdateGroup(a)
  <2>1. PICK g \in Group, n \in GroupName, on \in BOOLEAN :
          StartJob(a, [NoJob EXCEPT !.pc = "load", !.group = g, !.name = n, !.on = on])
    BY <1>2 DEF UpdateGroup
  <2> DEFINE j == [NoJob EXCEPT !.pc = "load", !.group = g, !.name = n, !.on = on]
  <2>2. j \in GroupJob /\ j.group = g
    BY DEF NoJob, GroupJob
  <2>3. JobsTyped
    BY <2>1, <2>2, <1>s
  <2> QED
    BY <1>2, <2>3 DEF UpdateGroup, GroupTypes
<1>3. CASE LoadGroup(a)
  <2>1. JobsTyped
    BY <1>3, <1>p, <1>l DEF LoadGroup, JobAt
  <2> QED
    BY <1>3, <2>1 DEF LoadGroup, GroupTypes
<1>4. CASE UpdateRow(a)
  <2>1. JobsTyped
    BY <1>4, <1>p, <1>l DEF UpdateRow, JobAt
  <2>2. CASE UNCHANGED group
    BY <1>4, <2>1, <2>2 DEF UpdateRow, GroupTypes
  <2>3. CASE ~UNCHANGED group
    <3> DEFINE g == job[a].group
               r == [group[g] EXCEPT !.name = job[a].name, !.on = job[a].on, !.version = @ + 1]
    <3>1. g \in Group /\ group[g] \in GroupRow /\ Exists(g) /\ group' = [group EXCEPT ![g] = r]
      BY <1>4, <2>3, <1>h DEF UpdateRow, JobAt, GroupTypes
    <3>2. job[a].name \in GroupName \cup {NoName} /\ job[a].on \in BOOLEAN /\ group[g].version + 1 \in Nat
      BY <3>1, <1>h DEF GroupRow, GroupJob
    <3>3. r \in GroupRow
      BY <3>1, <3>2 DEF GroupRow
    <3> QED
      BY <1>4, <2>1, <3>1, <3>3 DEF UpdateRow, GroupTypes
  <2> QED
    BY <2>2, <2>3
<1>5. CASE Reload(a)
  <2> DEFINE r == group[job[a].group]
             on == [job[a] EXCEPT !.pc = "sync", !.name = r.name, !.on = TRUE, !.version = r.version]
             off == [job[a] EXCEPT !.pc = "sync", !.on = FALSE]
  <2>1. job[a].group \in Group /\ r \in GroupRow
    BY <1>5, <1>h DEF Reload, JobAt, GroupTypes
  <2>2. on \in GroupJob /\ on.group = job[a].group /\ off \in GroupJob /\ off.group = job[a].group
    BY <2>1, <1>h DEF GroupJob, GroupRow
  <2>3. job' = [job EXCEPT ![a] = on] \/ job' = [job EXCEPT ![a] = off] \/ Leave(a)
    BY <1>5 DEF Reload
  <2>4. JobsTyped
    BY <2>1, <2>2, <2>3, <1>m, <1>l
  <2> QED
    BY <1>5, <2>4 DEF Reload, GroupTypes
<1>6. CASE SyncRouter(a)
  <2>1. JobsTyped
    BY <1>6, <1>l DEF SyncRouter
  <2>2. [group |-> job[a].group, version |-> job[a].version] \in GroupEntry
    BY <1>h DEF GroupJob, GroupEntry
  <2>3. routed' \in [Pod -> [GroupName -> GroupEntry]]
    BY <1>6, <2>2, <1>r, <1>e DEF SyncRouter
  <2> QED
    BY <1>6, <2>1, <2>3 DEF SyncRouter, GroupTypes
<1>7. CASE DeleteGroup(a)
  <2>1. PICK g \in Group : Exists(g) /\ StartJob(a, [NoJob EXCEPT !.pc = "delete", !.group = g, !.name = group[g].name])
    BY <1>7 DEF DeleteGroup
  <2> DEFINE j == [NoJob EXCEPT !.pc = "delete", !.group = g, !.name = group[g].name]
  <2>2. j \in GroupJob /\ j.group = g
    BY DEF NoJob, GroupJob, GroupTypes, GroupRow
  <2>3. JobsTyped
    BY <2>1, <2>2, <1>s
  <2> QED
    BY <1>7, <2>3 DEF DeleteGroup, GroupTypes
<1>8. CASE DeleteRow(a)
  <2>1. JobsTyped
    BY <1>8, <1>p DEF DeleteRow, JobAt
  <2> DEFINE g == job[a].group
             r == [group[g] EXCEPT !.state = "deleted"]
  <2>2. g \in Group /\ group[g] \in GroupRow /\ group' = [group EXCEPT ![g] = r]
    BY <1>8, <1>h DEF DeleteRow, JobAt, GroupTypes
  <2>3. r \in GroupRow
    BY <2>2 DEF GroupRow
  <2> QED
    BY <1>8, <2>1, <2>2, <2>3 DEF DeleteRow, GroupTypes
<1>9. CASE Unroute(a)
  <2>1. JobsTyped
    BY <1>9, <1>l DEF Unroute
  <2>2. routed' \in [Pod -> [GroupName -> GroupEntry]]
    BY <1>9, <1>r, <1>e DEF Unroute
  <2> QED
    BY <1>9, <2>1, <2>2 DEF Unroute, GroupTypes
<1>10. CASE JobFails(a)
  BY <1>10, <1>l DEF JobFails, GroupTypes
<1> QED
  BY <1>1, <1>2, <1>3, <1>4, <1>5, <1>6, <1>7, <1>8, <1>9, <1>10 DEF OnGroup


\* A request that runs alone leaves every other group routed as it was saved, and
\* its own when it is done.
LEMMA GroupsKept ==
  ASSUME OneGroupAdmin, GroupInv, GroupTypes', mishaps' = 0, NEW a \in GroupAdmin, OnGroup(a) \/ JobFails(a)
  PROVE  GroupsOK'
<1> USE GroupAssumption
<1> DEFINE j == job[a]
           g == j.group
           Named == \A h \in Group : group[h].state # "new" => group[h].name \in GroupName
           Routes == \A p \in Pod, h \in Group : Unsynced(h) \/ Follows(p, h)
<1>o. (\A b \in GroupAdmin : b = a) /\ (\A p \in Pod : p = ServedBy[a]) /\ \A x, y \in Group : TenantOf[x] = TenantOf[y]
  BY DEF OneGroupAdmin
<1>z. mishaps = 0 /\ ~JobFails(a)
  <2>1. mishaps \in Nat
    BY DEF GroupInv, GroupTypes
  <2>2. ~JobFails(a)
    BY <2>1 DEF JobFails
  <2> QED
    BY <2>2 DEF OnGroup, CreateGroup, UpdateGroup, LoadGroup, UpdateRow, Reload, SyncRouter, DeleteGroup, DeleteRow, Unroute
<1>h. /\ NamesUnique /\ JobOK(j) /\ Named /\ Routes
      /\ j \in GroupJob /\ (j.pc # "none" => g \in Group)
      /\ group \in [Group -> GroupRow] /\ job \in [GroupAdmin -> GroupJob]
      /\ routed \in [Pod -> [GroupName -> GroupEntry]] /\ ServedBy[a] \in Pod
  BY <1>z DEF GroupInv, GroupTypes, GroupsOK
<1>u. \A h \in Group : Unsynced(h) <=> j.pc \in {"reload", "sync", "unroute"} /\ g = h
  BY <1>o DEF Unsynced
<1>v. \A h \in Group : Unsynced(h)' <=> job'[a].pc \in {"reload", "sync", "unroute"} /\ job'[a].group = h
  BY <1>o DEF Unsynced
<1>l. Leave(a) => job'[a] = NoJob /\ JobOK(job[a])' /\ \A h \in Group : ~Unsynced(h)'
  <2>1. Leave(a) => job'[a] = NoJob
    BY <1>h DEF Leave
  <2>2. NoJob.pc = "none"
    BY DEF NoJob
  <2> QED
    BY <2>1, <2>2, <1>v DEF JobOK
<1>m. \A pc : Move(a, pc) => job'[a] = [j EXCEPT !.pc = pc] /\ job'[a].pc = pc /\ job'[a].group = g /\ job'[a].name = j.name
  BY <1>h DEF Move, GroupJob
<1>b. \A k : StartJob(a, k) => job'[a] = k /\ j = NoJob /\ \A h \in Group : ~Unsynced(h)
  <2>1. \A k : StartJob(a, k) => job'[a] = k /\ j = NoJob
    BY <1>h DEF StartJob
  <2>2. NoJob.pc = "none"
    BY DEF NoJob
  <2> QED
    BY <2>1, <2>2, <1>u
<1>s. SUFFICES Named' /\ NamesUnique' /\ JobOK(job[a])' /\ Routes'
  BY <1>o DEF GroupsOK
\* A group that is not touched, on a map that is the same under its name.
<1>f. ASSUME NEW h \in Group, NEW p \in Pod, group'[h] = group[h], Follows(p, h),
             group[h].state # "new" => routed'[p][group[h].name] = routed[p][group[h].name]
      PROVE  Follows(p, h)'
  BY <1>f DEF Follows, Exists, Current
\* The request goes on, and neither rows nor map change.
<1>k. ASSUME UNCHANGED <<group, routed>>, \A h \in Group : Unsynced(h) => Unsynced(h)'
      PROVE  Named' /\ NamesUnique' /\ Routes'
  BY <1>k, <1>h DEF NamesUnique, Exists, Follows, Current
<1>1. CASE CreateGroup(a)
  <2>1. PICK x \in Group, n \in GroupName :
          /\ group[x].state = "new" /\ ~Taken(n, x)
          /\ StartJob(a, [NoJob EXCEPT !.pc = "reload", !.group = x])
          /\ group' = [group EXCEPT ![x] = [state |-> "stored", name |-> n, on |-> TRUE, version |-> 1]]
    BY <1>1 DEF CreateGroup
  <2>2. job'[a] = [NoJob EXCEPT !.pc = "reload", !.group = x] /\ \A h \in Group : ~Unsynced(h)
    BY <2>1, <1>b
  <2>3. job'[a].pc = "reload" /\ job'[a].group = x /\ job'[a].name = NoName
    BY <2>2 DEF NoJob
  <2>4. /\ group'[x] = [state |-> "stored", name |-> n, on |-> TRUE, version |-> 1]
        /\ \A h \in Group \ {x} : group'[h] = group[h]
    BY <2>1, <1>h
  <2>5. NamesUnique'
    BY <2>1, <2>4, <1>h, <1>o DEF NamesUnique, Taken, Exists
  <2>6. JobOK(job[a])'
    BY <2>3, <2>4 DEF JobOK, Exists
  <2>7. Routes'
    BY <1>1, <2>2, <2>3, <2>4, <1>f, <1>h, <1>v DEF CreateGroup
  <2>8. Named'
    BY <2>4, <1>h
  <2> QED
    BY <2>5, <2>6, <2>7, <2>8
<1>2. CASE UpdateGroup(a)
  <2>1. PICK x \in Group, n \in GroupName, on \in BOOLEAN :
          group[x].state # "new" /\ StartJob(a, [NoJob EXCEPT !.pc = "load", !.group = x, !.name = n, !.on = on])
    BY <1>2 DEF UpdateGroup
  <2>2. job'[a] = [NoJob EXCEPT !.pc = "load", !.group = x, !.name = n, !.on = on] /\ \A h \in Group : ~Unsynced(h)
    BY <2>1, <1>b
  <2>3. job'[a].pc = "load" /\ job'[a].group = x /\ job'[a].name = n
    BY <2>2 DEF NoJob
  <2>4. JobOK(job[a])'
    BY <1>2, <2>1, <2>3 DEF UpdateGroup, JobOK
  <2> QED
    BY <1>2, <2>2, <2>4, <1>k DEF UpdateGroup
<1>3. CASE LoadGroup(a)
  <2>1. j.pc = "load" /\ \A h \in Group : ~Unsynced(h)
    BY <1>3, <1>u DEF LoadGroup, JobAt
  <2>2. CASE Move(a, "update")
    <3>1. Exists(g) \/ Leave(a)
      BY <1>3 DEF LoadGroup
    <3>2. job'[a].pc = "update" /\ job'[a].group = g /\ job'[a].name = j.name /\ j.name \in GroupName
      BY <2>1, <2>2, <1>m, <1>h DEF JobOK
    <3>3. Exists(g)
      BY <3>1, <3>2, <1>l DEF NoJob
    <3>4. JobOK(job[a])'
      BY <1>3, <3>2, <3>3 DEF LoadGroup, JobOK, Exists
    <3> QED
      BY <1>3, <2>1, <3>4, <1>k DEF LoadGroup
  <2> QED
    BY <1>3, <2>1, <2>2, <1>l, <1>k DEF LoadGroup
<1>4. CASE UpdateRow(a)
  <2>1. j.pc = "update" /\ g \in Group /\ j.name \in GroupName /\ \A h \in Group : ~Unsynced(h)
    BY <1>4, <1>u, <1>h DEF UpdateRow, JobAt, JobOK
  <2>2. CASE Leave(a) /\ UNCHANGED group
    BY <1>4, <2>1, <2>2, <1>l, <1>k DEF UpdateRow
  <2>3. CASE ~(Leave(a) /\ UNCHANGED group)
    <3>1. /\ Exists(g) /\ ~Taken(j.name, g) /\ Move(a, "reload")
          /\ group' = [group EXCEPT ![g] = [group[g] EXCEPT !.name = j.name, !.on = j.on, !.version = @ + 1]]
      BY <1>4, <2>3, <1>h, <2>1 DEF UpdateRow
    <3>2. /\ group'[g].name = j.name /\ group'[g].state = "stored"
          /\ \A h \in Group \ {g} : group'[h] = group[h]
      BY <3>1, <2>1, <1>h DEF GroupRow, Exists
    <3>3. job'[a].pc = "reload" /\ job'[a].group = g /\ job'[a].name = j.name
      BY <3>1, <1>m
    <3>4. NamesUnique'
      BY <3>1, <3>2, <1>h, <1>o, <2>1 DEF NamesUnique, Taken, Exists
    <3>5. JobOK(job[a])'
      BY <3>2, <3>3, <2>1 DEF JobOK, Exists
    <3>6. Routes'
      BY <1>4, <2>1, <3>2, <3>3, <1>f, <1>h, <1>v DEF UpdateRow
    <3>7. Named'
      BY <3>2, <2>1, <1>h
    <3> QED
      BY <3>4, <3>5, <3>6, <3>7
  <2> QED
    BY <2>2, <2>3
<1>5. CASE Reload(a)
  <2>1. j.pc = "reload" /\ g \in Group /\ Exists(g) /\ Unsynced(g)
    BY <1>5, <1>u, <1>h DEF Reload, JobAt, JobOK
  <2>2. IF j.name = NoName THEN group[g].on ELSE j.name = group[g].name
    BY <2>1, <1>h DEF JobOK
  <2>3. \/ /\ group[g].on
           /\ job' = [job EXCEPT ![a] = [j EXCEPT !.pc = "sync", !.name = group[g].name, !.on = TRUE, !.version = group[g].version]]
        \/ /\ ~group[g].on /\ j.name # NoName
           /\ job' = [job EXCEPT ![a] = [j EXCEPT !.pc = "sync", !.on = FALSE]]
    BY <1>5, <2>1, <2>2, <1>h DEF Reload
  <2>4. /\ job'[a].pc = "sync" /\ job'[a].group = g /\ job'[a].name = group[g].name
        /\ job'[a].on = group[g].on /\ (group[g].on => job'[a].version = group[g].version)
    <3>1. group[g].on \in BOOLEAN
      BY <2>1, <1>h DEF GroupRow
    <3>2. CASE group[g].on
      <4>1. job'[a] = [j EXCEPT !.pc = "sync", !.name = group[g].name, !.on = TRUE, !.version = group[g].version]
        BY <3>2, <2>3, <1>h
      <4> QED
        BY <3>1, <3>2, <4>1, <1>h DEF GroupJob
    <3>3. CASE ~group[g].on
      <4>1. job'[a] = [j EXCEPT !.pc = "sync", !.on = FALSE] /\ j.name = group[g].name
        BY <3>3, <2>2, <2>3, <1>h
      <4> QED
        BY <3>1, <3>3, <4>1, <1>h DEF GroupJob
    <3> QED
      BY <3>2, <3>3
  <2>5. JobOK(job[a])'
    BY <1>5, <2>1, <2>4 DEF Reload, JobOK, Exists
  <2> QED
    BY <1>5, <2>1, <2>4, <2>5, <1>k, <1>u, <1>v DEF Reload
<1>6. CASE SyncRouter(a)
  <2>1. j.pc = "sync" /\ g \in Group /\ Exists(g) /\ j.name = group[g].name /\ j.on = group[g].on
        /\ (j.on => j.version = group[g].version) /\ j.name \in GroupName
    BY <1>6, <1>h DEF SyncRouter, JobAt, JobOK, Exists
  <2>x. PICK x \in Group : x = g
    BY <2>1
  <2> DEFINE e == IF j.on THEN [group |-> g, version |-> j.version] ELSE Unrouted
             p == ServedBy[a]
  <2>2. /\ routed'[p][j.name] = e
        /\ \A n \in GroupName \ {j.name} : routed'[p][n] = routed[p][n]
    BY <1>6, <2>1, <1>h DEF SyncRouter, Route
  <2>3. Follows(p, x)'
    <3>1. UNCHANGED group
      BY <1>6 DEF SyncRouter
    <3>2. CASE j.on
      BY <2>1, <2>2, <2>x, <3>1, <3>2 DEF Follows, Exists, Current
    <3>3. CASE ~j.on
      BY <2>1, <2>2, <2>x, <3>1, <3>3 DEF Follows, Exists, Unrouted
    <3> QED
      BY <3>2, <3>3
  <2>4. ASSUME NEW h \in Group, h # x
        PROVE  Follows(p, h)'
    <3>1. Follows(p, h)
      BY <2>1, <2>4, <2>x, <1>h, <1>u
    <3>2. CASE group[h].state = "new"
      BY <1>6, <3>2 DEF SyncRouter, Follows, Exists
    <3>3. CASE group[h].state # "new" /\ group[h].name # j.name
      BY <1>6, <3>1, <3>3, <2>2, <1>f, <1>h DEF SyncRouter
    <3>4. CASE group[h].state # "new" /\ group[h].name = j.name
      <4>1. ~Exists(h)
        BY <2>1, <2>4, <2>x, <3>4, <1>h DEF NamesUnique
      <4>2. routed'[p][group[h].name].group # h
        BY <2>2, <2>4, <2>x, <3>4 DEF Unrouted
      <4> QED
        BY <1>6, <4>1, <4>2 DEF SyncRouter, Follows, Exists
    <3> QED
      BY <3>2, <3>3, <3>4
  <2>5. Routes'
    BY <2>3, <2>4, <1>o DEF Follows, Exists, Current
  <2>6. Named' /\ NamesUnique'
    BY <1>6, <1>h DEF SyncRouter, NamesUnique, Exists
  <2> QED
    BY <1>6, <2>5, <2>6, <1>l DEF SyncRouter
<1>7. CASE DeleteGroup(a)
  <2>1. PICK x \in Group : Exists(x) /\ StartJob(a, [NoJob EXCEPT !.pc = "delete", !.group = x, !.name = group[x].name])
    BY <1>7 DEF DeleteGroup
  <2>2. job'[a] = [NoJob EXCEPT !.pc = "delete", !.group = x, !.name = group[x].name] /\ \A h \in Group : ~Unsynced(h)
    BY <2>1, <1>b
  <2>3. job'[a].pc = "delete" /\ job'[a].group = x /\ job'[a].name = group[x].name
    BY <2>2 DEF NoJob
  <2>4. JobOK(job[a])'
    BY <1>7, <2>1, <2>3, <1>h DEF DeleteGroup, JobOK, Exists
  <2> QED
    BY <1>7, <2>2, <2>4, <1>k DEF DeleteGroup
<1>8. CASE DeleteRow(a)
  <2>1. j.pc = "delete" /\ g \in Group /\ Exists(g) /\ j.name = group[g].name /\ \A h \in Group : ~Unsynced(h)
    BY <1>8, <1>u, <1>h DEF DeleteRow, JobAt, JobOK
  <2>2. /\ group'[g].state = "deleted" /\ group'[g].name = group[g].name
        /\ \A h \in Group \ {g} : group'[h] = group[h]
    BY <1>8, <2>1, <1>h DEF DeleteRow, GroupRow
  <2>3. job'[a].pc = "unroute" /\ job'[a].group = g /\ job'[a].name = j.name
    BY <1>8, <1>m DEF DeleteRow
  <2>4. JobOK(job[a])'
    BY <2>1, <2>2, <2>3, <1>h DEF JobOK, Exists, NamesUnique
  <2>5. NamesUnique' /\ Named'
    BY <2>1, <2>2, <1>h DEF NamesUnique, Exists
  <2>6. Routes'
    BY <1>8, <2>1, <2>2, <2>3, <1>f, <1>h, <1>v DEF DeleteRow
  <2> QED
    BY <2>4, <2>5, <2>6
<1>9. CASE Unroute(a)
  <2>1. /\ j.pc = "unroute" /\ g \in Group /\ group[g].state = "deleted" /\ j.name = group[g].name
        /\ j.name \in GroupName /\ \A h \in Group : Exists(h) => group[h].name # j.name
    BY <1>9, <1>h DEF Unroute, JobAt, JobOK
  <2>x. PICK x \in Group : x = g
    BY <2>1
  <2> DEFINE p == ServedBy[a]
  <2>2. /\ routed'[p][j.name] = Unrouted
        /\ \A n \in GroupName \ {j.name} : routed'[p][n] = routed[p][n]
    BY <1>9, <2>1, <1>h DEF Unroute, Route
  <2>3. Follows(p, x)'
    <3>1. UNCHANGED group /\ Unrouted.group = "none"
      BY <1>9 DEF Unroute, Unrouted
    <3> QED
      BY <2>1, <2>2, <2>x, <3>1 DEF Follows, Exists
  <2>4. ASSUME NEW h \in Group, h # x
        PROVE  Follows(p, h)'
    <3>1. Follows(p, h)
      BY <2>1, <2>4, <2>x, <1>h, <1>u
    <3>2. CASE group[h].state = "new"
      BY <1>9, <3>2 DEF Unroute, Follows, Exists
    <3>3. CASE group[h].state # "new" /\ group[h].name # j.name
      BY <1>9, <3>1, <3>3, <2>2, <1>f, <1>h DEF Unroute
    <3>4. CASE group[h].state # "new" /\ group[h].name = j.name
      BY <1>9, <3>4, <2>1, <2>2 DEF Unroute, Follows, Exists, Unrouted
    <3> QED
      BY <3>2, <3>3, <3>4
  <2>5. Routes'
    BY <2>3, <2>4, <1>o DEF Follows, Exists, Current
  <2>6. Named' /\ NamesUnique'
    BY <1>9, <1>h DEF Unroute, NamesUnique, Exists
  <2> QED
    BY <1>9, <2>5, <2>6, <1>l DEF Unroute
<1> QED
  BY <1>z, <1>1, <1>2, <1>3, <1>4, <1>5, <1>6, <1>7, <1>8, <1>9 DEF OnGroup

\* The groups of one tenant, saved one at a time and served by one pod, are routed
\* as they were last saved whenever no request is under way and nothing has
\* failed: the service keeps the router in step with the database, also when
\* groups swap names, and takes a disabled or deleted one out.
THEOREM RouterFollowsGroups ==
  ASSUME OneGroupAdmin
  PROVE  GroupSpec => []GroupsFollow
<1>1. InitGroups => GroupInv
  <2> SUFFICES ASSUME InitGroups
               PROVE  GroupInv
    OBVIOUS
  <2>1. NewRow \in GroupRow /\ Unrouted \in GroupEntry /\ NoJob \in GroupJob
    BY DEF NewRow, GroupRow, Unrouted, GroupEntry, NoJob, GroupJob
  <2>2. GroupTypes
    BY <2>1 DEF InitGroups, GroupTypes, NoJob
  <2>3. GroupsOK
    BY DEF InitGroups, GroupsOK, NamesUnique, JobOK, NoJob, NewRow, Follows, Exists
  <2> QED
    BY <2>2, <2>3 DEF GroupInv
<1>2. GroupInv /\ [NextGroups]_groupVars => GroupInv'
  <2> SUFFICES ASSUME GroupInv, [NextGroups]_groupVars
               PROVE  GroupInv'
    OBVIOUS
  <2>1. ASSUME NEW a \in GroupAdmin, OnGroup(a) \/ JobFails(a)
        PROVE  GroupInv'
    BY <2>1, GroupTypesKept, GroupsKept DEF GroupInv
  <2>2. ASSUME NEW p \in Pod, RestartPod(p)
        PROVE  GroupInv'
    <3>1. NoJob \in GroupJob /\ NoJob.pc = "none" /\ Unrouted \in GroupEntry
      BY DEF NoJob, GroupJob, Unrouted, GroupEntry
    <3>2. job' \in [GroupAdmin -> GroupJob] /\ \A a \in GroupAdmin : job'[a].pc # "none" => job'[a].group \in Group
      BY <2>2, <3>1 DEF RestartPod, GroupInv, GroupTypes
    <3>3. routed' \in [Pod -> [GroupName -> GroupEntry]]
      BY <2>2, <3>1 DEF RestartPod, GroupInv, GroupTypes
    <3>4. mishaps' \in Nat /\ mishaps' # 0
      BY <2>2 DEF RestartPod, GroupInv, GroupTypes
    <3> QED
      BY <2>2, <3>2, <3>3, <3>4 DEF RestartPod, GroupInv, GroupTypes
  <2>3. CASE UNCHANGED groupVars
    BY <2>3 DEF groupVars, GroupInv, GroupTypes, GroupsOK, NamesUnique, JobOK, Unsynced, Follows, Exists, Current
  <2> QED
    BY <2>1, <2>2, <2>3 DEF NextGroups
<1>3. GroupInv => GroupsFollow
  BY GroupsHold
<1> QED
  BY <1>1, <1>2, <1>3, PTL DEF GroupSpec
-----------------------------------------------------------------------------
(* Members, while requests do not overlap. *)

OneRequest == \A g, h \in Handlers : g = h

MemberSteps == {"idle", "check", "write", "count", "lookup", "exists", "adduser", "addmember",
                "pending", "answer", "sync", "relabel", "relabelMember", "activate", "signup",
                "planCount", "planSet", "snapshot", "wipe", "wipeUsers"}

MemberRequest == [pc : MemberSteps,
                  op : TargetOps \cup {"none", "invite", "accept", "deny", "sync", "plan", "delete"},
                  by : Ids \cup {None}, as : Roles \cup {None}, on : Ids \cup Emails \cup {None},
                  to : {"viewer", "editor", None} \cup Plans, seen : SUBSET Ids]

MemberTypes ==
    /\ users \in [Ids -> {"none", "pending", "active"}]
    /\ member \in [Ids -> Memberships \cup {None}]
    /\ elsewhere \subseteq Ids
    /\ plan \in Plans
    /\ reqs \in [Handlers -> MemberRequest]
    /\ faults \in Nat

\* What the steps of a request are about.
RequestShape(r) ==
    /\ r.pc \in {"check", "write"} =>
         /\ r.op \in TargetOps /\ r.by \in Ids /\ r.on \in Ids /\ r.to \in {"viewer", "editor"}
         /\ r.op \in NotOnSelf => r.on # r.by
    /\ r.pc \in {"count", "lookup", "adduser", "exists", "addmember"} => r.to \in {"viewer", "editor"}
    /\ r.pc \in {"exists", "addmember"} => r.on \in Ids
    /\ r.pc \in {"pending", "answer"} => r.by \in Ids /\ r.op \in {"accept", "deny"}
    /\ r.pc \in {"sync", "signup"} => r.by \in Ids
    /\ r.pc \in {"relabel", "relabelMember", "activate"} =>
         r.by \in Ids /\ r.on \in Ids /\ r.on # r.by /\ EmailOf[r.on] = EmailOf[r.by]
    /\ r.pc \in {"planCount", "planSet"} => r.to \in Plans

\* What a request has made sure of before its next statement.
RequestKnows(r) ==
    /\ r.pc \in {"check", "write"} => member[r.by] # None
    /\ r.pc \in {"check", "write"} /\ r.op = "transfer" => member[r.by].role = "owner"
    /\ r.pc = "write" => member[r.on] # None /\ Allowed(r, member[r.on])
    /\ r.pc = "count" => r.seen = {}
    /\ r.pc \in {"count", "lookup", "adduser", "exists", "addmember"} => Members # {}
    /\ r.pc \in {"lookup", "adduser", "exists", "addmember"} /\ r.seen # {} => HasRoom(Cardinality(Members), plan)
    /\ r.pc = "pending" => r.by \in elsewhere \/ (member[r.by] # None /\ member[r.by].status = "active")
    /\ r.pc = "answer" => r.by \in elsewhere /\ member[r.by] # None /\ member[r.by].status = "pending"
    /\ r.pc = "relabel" => users[r.on] = "active" /\ users[r.by] = "none"
    /\ r.pc = "activate" => users[r.on] # "none" /\ users[r.by] = "none"
    /\ r.pc = "relabelMember" => users[r.on] = "none"
    /\ r.pc = "relabelMember" /\ faults = 0 => r.on \in Members \cup elsewhere
    /\ r.pc = "planSet" => Fits(Cardinality(Members), r.to)
    /\ r.pc = "wipe" => r.seen = Members
    /\ r.pc = "wipeUsers" => Members = {}

EmailsUnique ==
    \A i, j \in Ids : users[i] # "none" /\ users[j] # "none" /\ EmailOf[i] = EmailOf[j] => i = j

Owned == Members # {} => \E o \in Owners : Owners = {o} /\ member[o].status = "active"

\* An active user is a member of some tenant, unless a request is between the
\* two statements that take both or that move both.
Belongs(i) ==
    \/ i \in Members \cup elsewhere
    \/ \E h \in Handlers : \/ reqs[h].pc = "relabelMember" /\ reqs[h].by = i
                           \/ reqs[h].pc = "wipeUsers" /\ i \in reqs[h].seen

MembersInv ==
    /\ MemberTypes
    /\ \A h \in Handlers : RequestShape(reqs[h])
    /\ \A h \in Handlers : RequestKnows(reqs[h])
    /\ EmailsUnique
    /\ Owned
    /\ faults = 0 => \A i \in Ids : users[i] = "active" => Belongs(i)
    /\ IsFiniteSet(Members)


LEMMA RequestSet ==
    ASSUME MemberTypes, NEW h \in Handlers, NEW r \in MemberRequest, reqs' = [reqs EXCEPT ![h] = r]
    PROVE  /\ reqs' \in [Handlers -> MemberRequest] /\ reqs'[h] = r
           /\ \A g \in Handlers \ {h} : reqs'[g] = reqs[g]
  BY DEF MemberTypes

LEMMA RequestStarts ==
    ASSUME MemberTypes, NEW h \in Handlers, NEW r \in MemberRequest, Start(h, r)
    PROVE  /\ reqs' \in [Handlers -> MemberRequest] /\ reqs'[h] = r
           /\ \A g \in Handlers \ {h} : reqs'[g] = reqs[g]
  BY RequestSet DEF Start

LEMMA RequestGoes ==
    ASSUME MemberTypes, NEW h \in Handlers, NEW pc \in MemberSteps, GoOn(h, pc)
    PROVE  /\ reqs' \in [Handlers -> MemberRequest]
           /\ reqs'[h] = [reqs[h] EXCEPT !.pc = pc]
           /\ reqs'[h].pc = pc /\ reqs'[h].op = reqs[h].op /\ reqs'[h].by = reqs[h].by
           /\ reqs'[h].as = reqs[h].as /\ reqs'[h].on = reqs[h].on /\ reqs'[h].to = reqs[h].to
           /\ reqs'[h].seen = reqs[h].seen
           /\ \A g \in Handlers \ {h} : reqs'[g] = reqs[g]
<1>1. reqs \in [Handlers -> MemberRequest]
  BY DEF MemberTypes
<1> QED
  BY <1>1 DEF GoOn, MemberRequest

\* A request looks up the id it goes on with.
LEMMA RequestFinds ==
    ASSUME MemberTypes, NEW h \in Handlers, NEW pc \in MemberSteps, NEW i \in Ids,
           reqs' = [reqs EXCEPT ![h].pc = pc, ![h].on = i]
    PROVE  /\ reqs' \in [Handlers -> MemberRequest]
           /\ reqs'[h].pc = pc /\ reqs'[h].op = reqs[h].op /\ reqs'[h].by = reqs[h].by
           /\ reqs'[h].on = i /\ reqs'[h].to = reqs[h].to /\ reqs'[h].seen = reqs[h].seen
           /\ \A g \in Handlers \ {h} : reqs'[g] = reqs[g]
<1> DEFINE r == [reqs[h] EXCEPT !.pc = pc, !.on = i]
<1>1. reqs \in [Handlers -> MemberRequest] /\ reqs[h] \in MemberRequest
  BY DEF MemberTypes
<1>2. /\ r \in MemberRequest /\ r.pc = pc /\ r.op = reqs[h].op /\ r.by = reqs[h].by /\ r.on = i
      /\ r.to = reqs[h].to /\ r.seen = reqs[h].seen
  BY <1>1 DEF MemberRequest
<1>3. reqs' = [reqs EXCEPT ![h] = r]
  BY <1>1 DEF MemberRequest
<1> QED
  BY <1>2, <1>3, RequestSet

LEMMA RequestFindsOn ==
    ASSUME MemberTypes, NEW h \in Handlers, NEW pc \in MemberSteps, NEW i \in Ids,
           reqs' = [reqs EXCEPT ![h].on = i, ![h].pc = pc]
    PROVE  /\ reqs' \in [Handlers -> MemberRequest]
           /\ reqs'[h].pc = pc /\ reqs'[h].op = reqs[h].op /\ reqs'[h].by = reqs[h].by
           /\ reqs'[h].on = i /\ reqs'[h].to = reqs[h].to /\ reqs'[h].seen = reqs[h].seen
           /\ \A g \in Handlers \ {h} : reqs'[g] = reqs[g]
<1>1. reqs' = [reqs EXCEPT ![h].pc = pc, ![h].on = i]
  BY DEF MemberTypes, MemberRequest
<1> QED
  BY <1>1, RequestFinds

\* A request keeps the members it has seen.
LEMMA RequestSees ==
    ASSUME MemberTypes, NEW h \in Handlers, NEW pc \in {"lookup", "wipe"}, RequestShape([reqs[h] EXCEPT !.pc = pc]),
           reqs' = [reqs EXCEPT ![h].pc = pc, ![h].seen = Members]
    PROVE  /\ reqs' \in [Handlers -> MemberRequest] /\ reqs'[h].pc = pc /\ reqs'[h].seen = Members
           /\ RequestShape(reqs'[h])
           /\ \A g \in Handlers \ {h} : reqs'[g] = reqs[g]
<1> DEFINE r == [reqs[h] EXCEPT !.pc = pc, !.seen = Members]
<1>1. reqs \in [Handlers -> MemberRequest] /\ reqs[h] \in MemberRequest
  BY DEF MemberTypes
<1>2. r \in MemberRequest /\ r.pc = pc /\ r.seen = Members
  BY <1>1 DEF MemberRequest, MemberSteps, Members
<1>3. RequestShape(r)
  BY <1>1 DEF RequestShape, MemberRequest
<1>4. reqs' = [reqs EXCEPT ![h] = r]
  BY <1>1 DEF MemberRequest
<1> QED
  BY <1>2, <1>3, <1>4, RequestSet

\* The same when a sign-in has found a user of its address.
LEMMA RequestIdentifies ==
    ASSUME MemberTypes, NEW h \in Handlers, NEW pc \in {"relabel", "activate"}, NEW i \in Ids, reqs[h].by \in Ids,
           i # reqs[h].by, EmailOf[i] = EmailOf[reqs[h].by],
           reqs' = [reqs EXCEPT ![h].pc = pc, ![h].on = i]
    PROVE  /\ reqs'[h].pc = pc /\ reqs'[h].by = reqs[h].by /\ reqs'[h].on = i
           /\ RequestShape(reqs'[h])
<1> DEFINE r == [reqs[h] EXCEPT !.pc = pc, !.on = i]
<1>1. reqs \in [Handlers -> MemberRequest] /\ reqs[h] \in MemberRequest
  BY DEF MemberTypes
<1>2. r \in MemberRequest /\ r.pc = pc /\ r.by = reqs[h].by /\ r.on = i
  BY <1>1 DEF MemberRequest, MemberSteps
<1>3. reqs' = [reqs EXCEPT ![h] = r]
  BY <1>1 DEF MemberRequest
<1>4. reqs'[h] = r
  BY <1>1, <1>3
<1>5. RequestShape(r)
  <2> HIDE DEF r
  <2> QED
    BY <1>2 DEF RequestShape
<1> QED
  BY <1>2, <1>4, <1>5

LEMMA RequestEnds ==
    ASSUME MemberTypes, NEW h \in Handlers, Finish(h)
    PROVE  /\ reqs' \in [Handlers -> MemberRequest] /\ reqs'[h] = Idle /\ Idle.pc = "idle"
           /\ \A g \in Handlers \ {h} : reqs'[g] = reqs[g]
<1>1. Idle \in MemberRequest /\ Idle.pc = "idle"
  BY DEF Idle, MemberRequest, MemberSteps
<1> QED
  BY <1>1, RequestSet DEF Finish

\* An UPDATE by key of a membership.
LEMMA RowSet ==
    ASSUME MemberTypes, NEW m \in [Ids -> Memberships \cup {None}], NEW i \in Ids,
           NEW role \in Roles, NEW status \in Statuses
    PROVE  /\ SetRole(m, i, role) \in [Ids -> Memberships \cup {None}]
           /\ SetStatus(m, i, status) \in [Ids -> Memberships \cup {None}]
           /\ \A j \in Ids \ {i} : SetRole(m, i, role)[j] = m[j] /\ SetStatus(m, i, status)[j] = m[j]
           /\ m[i] = None => SetRole(m, i, role)[i] = None /\ SetStatus(m, i, status)[i] = None
           /\ m[i] # None =>
                /\ m[i] \in Memberships
                /\ SetRole(m, i, role)[i] \in Memberships /\ SetStatus(m, i, status)[i] \in Memberships
                /\ SetRole(m, i, role)[i] # None /\ SetStatus(m, i, status)[i] # None
                /\ SetRole(m, i, role)[i].role = role /\ SetRole(m, i, role)[i].status = m[i].status
                /\ SetStatus(m, i, status)[i].status = status /\ SetStatus(m, i, status)[i].role = m[i].role
<1>1. CASE m[i] = None
  BY <1>1 DEF SetRole, SetStatus
<1>2. CASE m[i] # None
  <2>1. m[i] \in Memberships
    BY <1>2
  <2>2. [m[i] EXCEPT !.role = role] \in Memberships /\ [m[i] EXCEPT !.status = status] \in Memberships
    BY <2>1 DEF Memberships
  <2>3. SetRole(m, i, role) = [m EXCEPT ![i] = [m[i] EXCEPT !.role = role]]
        /\ SetStatus(m, i, status) = [m EXCEPT ![i] = [m[i] EXCEPT !.status = status]]
    BY <1>2 DEF SetRole, SetStatus
  <2>4. SetRole(m, i, role)[i] = [m[i] EXCEPT !.role = role] /\ SetStatus(m, i, status)[i] = [m[i] EXCEPT !.status = status]
    BY <2>3
  <2> QED
    BY <2>1, <2>2, <2>3, <2>4, NoneAssumption DEF Memberships
<1> QED
  BY <1>1, <1>2


\* Every step keeps the types, and what a request is about.
LEMMA MemberTypesStep ==
    ASSUME MemberTypes, \A h \in Handlers : RequestShape(reqs[h]), [NextMembers]_memberVars
    PROVE  MemberTypes' /\ \A h \in Handlers : RequestShape(reqs'[h])
<1> DEFINE Goal == MemberTypes' /\ \A h \in Handlers : RequestShape(reqs'[h])
           Stays == /\ users' \in [Ids -> {"none", "pending", "active"}]
                    /\ member' \in [Ids -> Memberships \cup {None}]
                    /\ elsewhere' \subseteq Ids /\ plan' \in Plans /\ faults' \in Nat
<1>t. /\ users \in [Ids -> {"none", "pending", "active"}]
      /\ member \in [Ids -> Memberships \cup {None}]
      /\ elsewhere \subseteq Ids /\ plan \in Plans
      /\ reqs \in [Handlers -> MemberRequest] /\ faults \in Nat
  BY DEF MemberTypes
<1>r. \A h \in Handlers : reqs[h] \in MemberRequest /\ RequestShape(reqs[h])
  BY <1>t
<1>i. RequestShape(Idle)
  BY DEF RequestShape, Idle
<1>e. ASSUME NEW h \in Handlers, Finish(h), Stays PROVE Goal
  <2>1. \A g \in Handlers : RequestShape(reqs'[g])
    BY <1>e, <1>r, <1>i, RequestEnds
  <2> QED
    BY <1>e, <2>1, RequestEnds DEF MemberTypes
<1>g. ASSUME NEW h \in Handlers, NEW pc \in MemberSteps, GoOn(h, pc), RequestShape([reqs[h] EXCEPT !.pc = pc]), Stays
      PROVE  Goal
  <2>1. \A g \in Handlers : RequestShape(reqs'[g])
    BY <1>g, <1>r, RequestGoes
  <2> QED
    BY <1>g, <2>1, RequestGoes DEF MemberTypes
<1>s. ASSUME NEW h \in Handlers, NEW r \in MemberRequest, Start(h, r), RequestShape(r), Stays PROVE Goal
  <2>1. \A g \in Handlers : RequestShape(reqs'[g])
    BY <1>s, <1>r, RequestStarts
  <2> QED
    BY <1>s, <2>1, RequestStarts DEF MemberTypes
<1>1. ASSUME NEW h \in Handlers, Manage(h) PROVE Goal
  <2>1. PICK op \in TargetOps, i \in Ids, t \in Ids, to \in {"viewer", "editor"} :
          /\ May(i, op) /\ (op \in NotOnSelf => t # i)
          /\ Start(h, [Idle EXCEPT !.pc = "check", !.op = op, !.by = i, !.as = member[i].role, !.on = t, !.to = to])
    BY <1>1 DEF Manage
  <2> DEFINE r == [Idle EXCEPT !.pc = "check", !.op = op, !.by = i, !.as = member[i].role, !.on = t, !.to = to]
  <2>2. member[i].role \in Roles
    BY <1>t, <2>1 DEF May, Acts, Memberships
  <2>3. r \in MemberRequest
    BY <2>1, <2>2 DEF Idle, MemberRequest, MemberSteps
  <2>4. RequestShape(r)
    BY <2>1 DEF Idle, RequestShape
  <2>5. Stays
    BY <1>1, <1>t DEF Manage, Data
  <2> QED
    BY <2>1, <2>3, <2>4, <2>5, <1>s
<1>2. ASSUME NEW h \in Handlers, Check(h) PROVE Goal
  <2>1. Stays
    BY <1>2, <1>t DEF Check, Data
  <2>2. reqs[h].pc = "check" /\ (GoOn(h, "write") \/ Finish(h))
    BY <1>2 DEF Check, Doing
  <2>3. RequestShape([reqs[h] EXCEPT !.pc = "write"]) /\ "write" \in MemberSteps
    BY <2>2, <1>r DEF RequestShape, MemberRequest, MemberSteps
  <2> QED
    BY <2>1, <2>2, <2>3, <1>e, <1>g
<1>3. ASSUME NEW h \in Handlers,
             \/ UpdateUserRole(h) \/ SuspendUser(h) \/ UnsuspendUser(h) \/ PromoteAdmin(h) \/ DemoteAdmin(h)
             \/ TransferOwnership(h) \/ RemoveUser(h)
      PROVE  Goal
  <2>1. reqs[h].by \in Ids /\ reqs[h].on \in Ids /\ reqs[h].to \in {"viewer", "editor"}
    BY <1>3, <1>r DEF UpdateUserRole, SuspendUser, UnsuspendUser, PromoteAdmin, DemoteAdmin, TransferOwnership,
       RemoveUser, Write, Doing, RequestShape
  <2>2. \A role \in Roles, status \in Statuses, i \in Ids :
          SetRole(member, i, role) \in [Ids -> Memberships \cup {None}] /\ SetStatus(member, i, status) \in [Ids -> Memberships \cup {None}]
    BY <1>t, RowSet
  <2>3. "active" \in Statuses /\ "suspended" \in Statuses /\ {"viewer", "editor", "admin", "owner"} = Roles
    BY DEF Statuses, Roles
  <2>4. SetRole(SetRole(member, reqs[h].by, "admin"), reqs[h].on, "owner") \in [Ids -> Memberships \cup {None}]
    <3>1. PICK m \in [Ids -> Memberships \cup {None}] : m = SetRole(member, reqs[h].by, "admin")
      BY <2>1, <2>2, <2>3
    <3>2. "owner" \in Roles
      BY DEF Roles
    <3>3. SetRole(m, reqs[h].on, "owner") \in [Ids -> Memberships \cup {None}]
      BY <2>1, <2>3, <3>2, RowSet
    <3> QED
      BY <3>1, <3>3
  <2>5. member' \in [Ids -> Memberships \cup {None}]
    <3>1. CASE UpdateUserRole(h) \/ PromoteAdmin(h) \/ DemoteAdmin(h)
      <4>1. \E role \in Roles : member' = SetRole(member, reqs[h].on, role)
        BY <3>1, <2>1, <2>3 DEF UpdateUserRole, PromoteAdmin, DemoteAdmin
      <4> QED
        BY <4>1, <2>1, <2>2, <2>3
    <3>2. CASE SuspendUser(h) \/ UnsuspendUser(h)
      <4>1. \E status \in Statuses : member' = SetStatus(member, reqs[h].on, status)
        BY <3>2, <2>3 DEF SuspendUser, UnsuspendUser
      <4> QED
        BY <4>1, <2>1, <2>2, <2>3
    <3>3. CASE TransferOwnership(h)
      BY <3>3, <2>4 DEF TransferOwnership
    <3>4. CASE RemoveUser(h)
      <4>1. member' = [member EXCEPT ![reqs[h].on] = None]
        BY <3>4 DEF RemoveUser
      <4> QED
        BY <4>1, <1>t
    <3> QED
      BY <1>3, <3>1, <3>2, <3>3, <3>4
  <2>6. /\ users' \in [Ids -> {"none", "pending", "active"}] /\ faults' \in Nat
        /\ UNCHANGED <<elsewhere, plan>> /\ Finish(h)
    BY <1>3, <1>t, <2>1 DEF UpdateUserRole, SuspendUser, UnsuspendUser, PromoteAdmin, DemoteAdmin,
       TransferOwnership, RemoveUser
  <2> QED
    BY <2>5, <2>6, <1>t, <1>e
<1>4. ASSUME NEW h \in Handlers, LeaveElsewhere(h) \/ StripeSetsPlan(h) PROVE Goal
  <2>1. reqs' = reqs /\ Stays
    BY <1>4, <1>t DEF LeaveElsewhere, StripeSetsPlan
  <2> QED
    BY <2>1, <1>t, <1>r DEF MemberTypes
<1>5. ASSUME NEW h \in Handlers, Invite(h) PROVE Goal
  <2>1. PICK i \in Ids, e \in Emails, to \in {"viewer", "editor"} :
          /\ May(i, "invite")
          /\ Start(h, [Idle EXCEPT !.pc = "count", !.op = "invite", !.by = i, !.as = member[i].role, !.on = e, !.to = to])
    BY <1>5 DEF Invite
  <2> DEFINE r == [Idle EXCEPT !.pc = "count", !.op = "invite", !.by = i, !.as = member[i].role, !.on = e, !.to = to]
  <2>2. member[i].role \in Roles
    BY <1>t, <2>1 DEF May, Acts, Memberships
  <2>3. r \in MemberRequest
    BY <2>1, <2>2 DEF Idle, MemberRequest, MemberSteps
  <2>4. RequestShape(r)
    BY <2>1 DEF Idle, RequestShape
  <2>5. Stays
    BY <1>5, <1>t DEF Invite, Data
  <2> QED
    BY <2>1, <2>3, <2>4, <2>5, <1>s
<1>6. ASSUME NEW h \in Handlers, CountMembers(h) PROVE Goal
  <2>1. Stays
    BY <1>6, <1>t DEF CountMembers, Data
  <2>2. /\ reqs[h].pc = "count"
        /\ GoOn(h, "lookup") \/ Finish(h) \/ reqs' = [reqs EXCEPT ![h].pc = "lookup", ![h].seen = Members]
    BY <1>6 DEF CountMembers, Doing
  <2>3. RequestShape([reqs[h] EXCEPT !.pc = "lookup"]) /\ "lookup" \in MemberSteps
    BY <2>2, <1>r DEF RequestShape, MemberRequest, MemberSteps
  <2>4. CASE reqs' = [reqs EXCEPT ![h].pc = "lookup", ![h].seen = Members]
    BY <2>1, <2>3, <2>4, <1>r, RequestSees DEF MemberTypes
  <2> QED
    BY <2>1, <2>2, <2>3, <2>4, <1>e, <1>g
<1>7. ASSUME NEW h \in Handlers, LookupInvited(h) PROVE Goal
  <2>1. Stays
    BY <1>7, <1>t DEF LookupInvited, Data
  <2>2. reqs[h].pc = "lookup" /\ reqs[h].to \in {"viewer", "editor"}
    BY <1>7, <1>r DEF LookupInvited, Doing, RequestShape
  <2>3. RequestShape([reqs[h] EXCEPT !.pc = "adduser"]) /\ "adduser" \in MemberSteps /\ "exists" \in MemberSteps
    BY <2>2, <1>r DEF RequestShape, MemberRequest, MemberSteps
  <2>4. CASE UsersOf(reqs[h].on) = {}
    BY <1>7, <2>1, <2>3, <2>4, <1>g DEF LookupInvited
  <2>5. CASE UsersOf(reqs[h].on) # {}
    <3>1. PICK i \in Ids : reqs' = [reqs EXCEPT ![h].on = i, ![h].pc = "exists"]
      BY <1>7, <2>5 DEF LookupInvited, UsersOf
    <3>2. RequestShape(reqs'[h])
      <4>1. reqs'[h].pc = "exists" /\ reqs'[h].on \in Ids /\ reqs'[h].to \in {"viewer", "editor"}
        <5>1. "exists" \in MemberSteps
          BY DEF MemberSteps
        <5> QED
          BY <2>2, <3>1, <5>1, RequestFindsOn
      <4> QED
        BY <4>1 DEF RequestShape
    <3> QED
      BY <1>r, <2>1, <2>3, <3>1, <3>2, RequestFindsOn DEF MemberTypes
  <2> QED
    BY <2>4, <2>5
<1>8. ASSUME NEW h \in Handlers, CheckExists(h) PROVE Goal
  <2>1. Stays
    BY <1>8, <1>t DEF CheckExists, Data
  <2>2. reqs[h].pc = "exists" /\ (GoOn(h, "addmember") \/ Finish(h))
    BY <1>8 DEF CheckExists, Doing
  <2>3. RequestShape([reqs[h] EXCEPT !.pc = "addmember"]) /\ "addmember" \in MemberSteps
    BY <2>2, <1>r DEF RequestShape, MemberRequest, MemberSteps
  <2> QED
    BY <2>1, <2>2, <2>3, <1>e, <1>g
<1>9. ASSUME NEW h \in Handlers, CreatePlaceholder(h) PROVE Goal
  <2>1. Stays
    BY <1>9, <1>t, IdsAssumption DEF CreatePlaceholder
  <2>2. reqs[h].pc = "adduser" /\ reqs[h].to \in {"viewer", "editor"} /\ "addmember" \in MemberSteps
    BY <1>9, <1>r DEF CreatePlaceholder, Doing, RequestShape, MemberSteps
  <2>3. CASE UsersOf(reqs[h].on) # {}
    BY <1>9, <2>1, <2>3, <1>e DEF CreatePlaceholder
  <2>4. CASE UsersOf(reqs[h].on) = {}
    <3>1. PICK i \in Ids : reqs' = [reqs EXCEPT ![h].on = i, ![h].pc = "addmember"]
      BY <1>9, <2>4, IdsAssumption DEF CreatePlaceholder
    <3>2. RequestShape(reqs'[h])
      <4>1. reqs'[h].pc = "addmember" /\ reqs'[h].on \in Ids /\ reqs'[h].to \in {"viewer", "editor"}
        BY <2>2, <3>1, RequestFindsOn
      <4> QED
        BY <4>1 DEF RequestShape
    <3> QED
      BY <1>r, <2>1, <2>2, <3>1, <3>2, RequestFindsOn DEF MemberTypes
  <2> QED
    BY <2>3, <2>4
<1>10. ASSUME NEW h \in Handlers, CreateMembership(h) PROVE Goal
  <2>1. reqs[h].on \in Ids /\ reqs[h].to \in {"viewer", "editor"}
    BY <1>10, <1>r DEF CreateMembership, Doing, RequestShape
  <2>2. [role |-> reqs[h].to, status |-> "pending"] \in Memberships
    BY <2>1 DEF Memberships, Roles, Statuses
  <2> QED
    BY <1>10, <1>t, <1>e, <2>1, <2>2 DEF CreateMembership
<1>11. ASSUME NEW h \in Handlers, Answer(h) PROVE Goal
  <2>1. PICK op \in {"accept", "deny"}, i \in Ids :
          Start(h, [Idle EXCEPT !.pc = "pending", !.op = op, !.by = i, !.on = i])
    BY <1>11 DEF Answer
  <2> DEFINE r == [Idle EXCEPT !.pc = "pending", !.op = op, !.by = i, !.on = i]
  <2>2. r \in MemberRequest
    BY <2>1 DEF Idle, MemberRequest, MemberSteps
  <2>3. RequestShape(r)
    BY <2>1 DEF Idle, RequestShape
  <2>4. Stays
    BY <1>11, <1>t DEF Answer, Data
  <2> QED
    BY <2>1, <2>2, <2>3, <2>4, <1>s
<1>12. ASSUME NEW h \in Handlers, FindInvitation(h) PROVE Goal
  <2>1. Stays
    BY <1>12, <1>t DEF FindInvitation, Data
  <2>2. reqs[h].pc = "pending" /\ (GoOn(h, "answer") \/ Finish(h))
    BY <1>12 DEF FindInvitation, Doing
  <2>3. RequestShape([reqs[h] EXCEPT !.pc = "answer"]) /\ "answer" \in MemberSteps
    BY <2>2, <1>r DEF RequestShape, MemberRequest, MemberSteps
  <2> QED
    BY <2>1, <2>2, <2>3, <1>e, <1>g
<1>13. ASSUME NEW h \in Handlers, AcceptInvitation(h) \/ DenyInvitation(h) PROVE Goal
  <2>1. reqs[h].by \in Ids
    BY <1>13, <1>r DEF AcceptInvitation, DenyInvitation, Doing, RequestShape
  <2>2. SetStatus(member, reqs[h].by, "active") \in [Ids -> Memberships \cup {None}]
    <3>1. "active" \in Statuses /\ "owner" \in Roles
      BY DEF Statuses, Roles
    <3> QED
      BY <1>t, <2>1, <3>1, RowSet
  <2> QED
    BY <1>13, <1>t, <1>e, <2>1, <2>2 DEF AcceptInvitation, DenyInvitation
<1>14. ASSUME NEW h \in Handlers, SignIn(h) PROVE Goal
  <2>1. PICK c \in Ids : Start(h, [Idle EXCEPT !.pc = "sync", !.op = "sync", !.by = c])
    BY <1>14 DEF SignIn
  <2> DEFINE r == [Idle EXCEPT !.pc = "sync", !.op = "sync", !.by = c]
  <2>2. r \in MemberRequest
    BY <2>1 DEF Idle, MemberRequest, MemberSteps
  <2>3. RequestShape(r)
    BY <2>1 DEF Idle, RequestShape
  <2>4. Stays
    BY <1>14, <1>t DEF SignIn
  <2> QED
    BY <2>1, <2>2, <2>3, <2>4, <1>s
<1>15. ASSUME NEW h \in Handlers, FindUser(h) PROVE Goal
  <2> DEFINE c == reqs[h].by
             known == UsersOf(EmailOf[c])
  <2>1. Stays /\ c \in Ids
    BY <1>15, <1>t, <1>r DEF FindUser, Data, Doing, RequestShape
  <2>2. RequestShape([reqs[h] EXCEPT !.pc = "signup"]) /\ "signup" \in MemberSteps /\ "relabel" \in MemberSteps
        /\ "activate" \in MemberSteps
    BY <2>1, <1>r DEF RequestShape, MemberRequest, MemberSteps
  <2>3. \/ Finish(h)
        \/ GoOn(h, "signup")
        \/ /\ users[c] = "none" /\ known # {}
           /\ \E pc \in {"relabel", "activate"} : reqs' = [reqs EXCEPT ![h].pc = pc, ![h].on = CHOOSE i \in known : TRUE]
    BY <1>15, <1>t, <2>1 DEF FindUser
  <2>4. CASE users[c] = "none" /\ known # {}
             /\ \E pc \in {"relabel", "activate"} : reqs' = [reqs EXCEPT ![h].pc = pc, ![h].on = CHOOSE i \in known : TRUE]
    <3>1. PICK pc \in {"relabel", "activate"}, i \in known : reqs' = [reqs EXCEPT ![h].pc = pc, ![h].on = i]
      BY <2>4
    <3>2. i \in Ids /\ i # c /\ EmailOf[i] = EmailOf[c]
      BY <2>4 DEF UsersOf
    <3>3. RequestShape(reqs'[h])
      BY <2>1, <3>1, <3>2, RequestIdentifies
    <3>4. pc \in MemberSteps
      BY <2>2, <3>1
    <3> QED
      <4>1. reqs' = [reqs EXCEPT ![h].on = i, ![h].pc = pc] /\ i \in Ids
        BY <1>t, <3>1, <3>2 DEF MemberRequest
      <4> QED
        BY <1>r, <2>1, <3>3, <3>4, <4>1, RequestFindsOn DEF MemberTypes
  <2> QED
    BY <2>1, <2>2, <2>3, <2>4, <1>e, <1>g
<1>16. ASSUME NEW h \in Handlers, RelabelUser(h) PROVE Goal
  <2>1. reqs[h].pc = "relabel" /\ reqs[h].by \in Ids /\ reqs[h].on \in Ids
    BY <1>16, <1>r DEF RelabelUser, Doing, RequestShape
  <2>2. RequestShape([reqs[h] EXCEPT !.pc = "relabelMember"]) /\ "relabelMember" \in MemberSteps
    BY <2>1, <1>r DEF RequestShape, MemberRequest, MemberSteps
  <2> QED
    BY <1>16, <1>t, <1>g, <2>1, <2>2 DEF RelabelUser
<1>17. ASSUME NEW h \in Handlers, RelabelMemberships(h) PROVE Goal
  <2>1. reqs[h].by \in Ids /\ reqs[h].on \in Ids
    BY <1>17, <1>r DEF RelabelMemberships, Doing, RequestShape
  <2> QED
    BY <1>17, <1>t, <1>e, <2>1 DEF RelabelMemberships, Rename
<1>18. ASSUME NEW h \in Handlers, ActivateInvited(h) PROVE Goal
  <2>1. reqs[h].by \in Ids /\ reqs[h].on \in Ids
    BY <1>18, <1>r DEF ActivateInvited, Doing, RequestShape
  <2>2. member[reqs[h].on] # None => [member[reqs[h].on] EXCEPT !.status = "active"] \in Memberships
    BY <1>t, <2>1 DEF Memberships, Statuses
  <2> QED
    BY <1>18, <1>t, <1>e, <2>1, <2>2 DEF ActivateInvited
<1>19. ASSUME NEW h \in Handlers, SignUp(h) PROVE Goal
  <2>1. reqs[h].by \in Ids
    BY <1>19, <1>r DEF SignUp, Doing, RequestShape
  <2> QED
    BY <1>19, <1>t, <1>e, <2>1 DEF SignUp
<1>20. ASSUME NEW h \in Handlers, ChangePlan(h) PROVE Goal
  <2>1. PICK p \in Plans : Start(h, [Idle EXCEPT !.pc = "planCount", !.op = "plan", !.to = p])
    BY <1>20 DEF ChangePlan
  <2> DEFINE r == [Idle EXCEPT !.pc = "planCount", !.op = "plan", !.to = p]
  <2>2. r \in MemberRequest
    BY <2>1 DEF Idle, MemberRequest, MemberSteps
  <2>3. RequestShape(r)
    BY <2>1 DEF Idle, RequestShape
  <2>4. Stays
    BY <1>20, <1>t DEF ChangePlan, Data
  <2> QED
    BY <2>1, <2>2, <2>3, <2>4, <1>s
<1>21. ASSUME NEW h \in Handlers, CountForPlan(h) PROVE Goal
  <2>1. Stays
    BY <1>21, <1>t DEF CountForPlan, Data
  <2>2. reqs[h].pc = "planCount" /\ (GoOn(h, "planSet") \/ Finish(h))
    BY <1>21 DEF CountForPlan, Doing
  <2>3. RequestShape([reqs[h] EXCEPT !.pc = "planSet"]) /\ "planSet" \in MemberSteps
    BY <2>2, <1>r DEF RequestShape, MemberRequest, MemberSteps
  <2> QED
    BY <2>1, <2>2, <2>3, <1>e, <1>g
<1>22. ASSUME NEW h \in Handlers, SetPlan(h) PROVE Goal
  <2>1. reqs[h].to \in Plans
    BY <1>22, <1>r DEF SetPlan, Doing, RequestShape
  <2> QED
    BY <1>22, <1>t, <1>e, <2>1 DEF SetPlan
<1>23. ASSUME NEW h \in Handlers, DeleteAccount(h) PROVE Goal
  <2>1. PICK i \in Ids : Start(h, [Idle EXCEPT !.pc = "snapshot", !.op = "delete", !.by = i])
    BY <1>23 DEF DeleteAccount
  <2> DEFINE r == [Idle EXCEPT !.pc = "snapshot", !.op = "delete", !.by = i]
  <2>2. r \in MemberRequest
    BY <2>1 DEF Idle, MemberRequest, MemberSteps
  <2>3. RequestShape(r)
    BY <2>1 DEF Idle, RequestShape
  <2>4. Stays
    BY <1>23, <1>t DEF DeleteAccount, Data
  <2> QED
    BY <2>1, <2>2, <2>3, <2>4, <1>s
<1>24. ASSUME NEW h \in Handlers, DeleteClerkUsers(h) PROVE Goal
  <2>1. Stays /\ (Finish(h) \/ reqs' = [reqs EXCEPT ![h].pc = "wipe", ![h].seen = Members])
    BY <1>24, <1>t DEF DeleteClerkUsers
  <2> DEFINE r == [reqs[h] EXCEPT !.pc = "wipe", !.seen = Members]
  <2>2. CASE reqs' = [reqs EXCEPT ![h].pc = "wipe", ![h].seen = Members]
    <3>1. r \in MemberRequest
      BY <1>r DEF MemberRequest, MemberSteps, Members
    <3>2. RequestShape(r)
      BY <1>r DEF RequestShape, MemberRequest
    <3>3. reqs' = [reqs EXCEPT ![h] = r]
      BY <1>t, <2>2 DEF MemberRequest
    <3>4. reqs' \in [Handlers -> MemberRequest] /\ reqs'[h] = r /\ \A g \in Handlers \ {h} : reqs'[g] = reqs[g]
      BY <3>1, <3>3, RequestSet
    <3> QED
      BY <1>r, <2>1, <3>2, <3>4 DEF MemberTypes
  <2> QED
    BY <2>1, <2>2, <1>e
<1>25. ASSUME NEW h \in Handlers, DeleteMemberships(h) PROVE Goal
  <2>1. reqs[h].pc = "wipe"
    BY <1>25 DEF DeleteMemberships, Doing
  <2>2. RequestShape([reqs[h] EXCEPT !.pc = "wipeUsers"]) /\ "wipeUsers" \in MemberSteps
    BY <2>1, <1>r DEF RequestShape, MemberRequest, MemberSteps
  <2> QED
    BY <1>25, <1>t, <1>g, <2>2 DEF DeleteMemberships
<1>26. ASSUME NEW h \in Handlers, DeleteUsers(h) PROVE Goal
  BY <1>26, <1>t, <1>e DEF DeleteUsers
<1>27. ASSUME NEW h \in Handlers, Crash(h) PROVE Goal
  BY <1>27, <1>t, <1>e DEF Crash, Data
<1>28. CASE UNCHANGED memberVars
  BY <1>28, <1>t, <1>r DEF memberVars, MemberTypes
<1> QED
  BY <1>1, <1>2, <1>3, <1>4, <1>5, <1>6, <1>7, <1>8, <1>9, <1>10, <1>11, <1>12, <1>13, <1>14, <1>15, <1>16,
     <1>17, <1>18, <1>19, <1>20, <1>21, <1>22, <1>23, <1>24, <1>25, <1>26, <1>27, <1>28
     DEF NextMembers, OnMember, OnInvitation, OnSignIn, OnTenant


\* Requests that only read, and the end of a request that dies, leave the data.
MemberReads(h) ==
    \/ Manage(h) \/ Check(h) \/ Invite(h) \/ CountMembers(h) \/ LookupInvited(h) \/ CheckExists(h)
    \/ Answer(h) \/ FindInvitation(h) \/ SignIn(h) \/ FindUser(h) \/ ChangePlan(h) \/ CountForPlan(h)
    \/ DeleteAccount(h) \/ DeleteClerkUsers(h) \/ Crash(h)

LEMMA ReadsLeave ==
    ASSUME NEW h \in Handlers, MemberReads(h)
    PROVE  UNCHANGED <<users, member, elsewhere, plan>> /\ Members' = Members
BY DEF MemberReads, Manage, Check, Invite, CountMembers, LookupInvited, CheckExists, Answer, FindInvitation,
   SignIn, FindUser, ChangePlan, CountForPlan, DeleteAccount, DeleteClerkUsers, Crash, Data, Members

\* The steps that write and then end the request.
MemberWrites(h) ==
    \/ UpdateUserRole(h) \/ SuspendUser(h) \/ UnsuspendUser(h) \/ PromoteAdmin(h) \/ DemoteAdmin(h)
    \/ TransferOwnership(h) \/ RemoveUser(h) \/ CreateMembership(h) \/ AcceptInvitation(h) \/ DenyInvitation(h)
    \/ RelabelMemberships(h) \/ ActivateInvited(h) \/ SignUp(h) \/ SetPlan(h) \/ DeleteUsers(h)

LEMMA WritesFinish ==
    ASSUME NEW h \in Handlers, MemberWrites(h)
    PROVE  Finish(h) /\ faults' \in {faults, faults + 1}
BY DEF MemberWrites, UpdateUserRole, SuspendUser, UnsuspendUser, PromoteAdmin, DemoteAdmin, TransferOwnership,
   RemoveUser, CreateMembership, AcceptInvitation, DenyInvitation, RelabelMemberships, ActivateInvited, SignUp,
   SetPlan, DeleteUsers

\* The steps of a member's request, by what they leave for its other steps.
LEMMA MemberStepKinds ==
    ASSUME [NextMembers]_memberVars
    PROVE  \/ \E h \in Handlers : \/ MemberReads(h) \/ MemberWrites(h) \/ LeaveElsewhere(h)
                                  \/ StripeSetsPlan(h) \/ CreatePlaceholder(h) \/ RelabelUser(h) \/ DeleteMemberships(h)
           \/ UNCHANGED memberVars
BY DEF NextMembers, OnMember, OnInvitation, OnSignIn, OnTenant, MemberReads, MemberWrites

LEMMA KnowsIdle ==
    ASSUME NEW h \in Handlers, reqs'[h].pc = "idle"
    PROVE  RequestKnows(reqs[h])'
BY DEF RequestKnows

\* A request's next step rests on what it has made sure of.
LEMMA KnowsStep ==
    ASSUME OneRequest, MembersInv, [NextMembers]_memberVars
    PROVE  \A h \in Handlers : RequestKnows(reqs[h])'
<1> DEFINE Goal == \A h \in Handlers : RequestKnows(reqs[h])'
<1>t. /\ users \in [Ids -> {"none", "pending", "active"}]
      /\ member \in [Ids -> Memberships \cup {None}]
      /\ elsewhere \subseteq Ids /\ plan \in Plans
      /\ reqs \in [Handlers -> MemberRequest] /\ faults \in Nat /\ MemberTypes
      /\ MemberTypes'
  BY MemberTypesStep DEF MembersInv, MemberTypes
<1>k. \A h \in Handlers : reqs[h] \in MemberRequest /\ RequestShape(reqs[h]) /\ RequestKnows(reqs[h])
  BY <1>t DEF MembersInv
<1>o. ASSUME NEW h \in Handlers, RequestKnows(reqs[h])' PROVE Goal
  BY <1>o DEF OneRequest
<1>e. ASSUME NEW h \in Handlers, Finish(h) PROVE Goal
  <2>1. reqs'[h].pc = "idle"
    BY <1>e, <1>t, RequestEnds
  <2> QED
    BY <2>1, <1>o, KnowsIdle
<1>m. Members = {i \in Ids : member[i] # None} /\ Members' = {i \in Ids : member'[i] # None}
  BY DEF Members
<1>1. ASSUME NEW h \in Handlers, Manage(h) PROVE Goal
  <2>1. PICK op \in TargetOps, i \in Ids, t \in Ids, to \in {"viewer", "editor"} :
          /\ May(i, op)
          /\ Start(h, [Idle EXCEPT !.pc = "check", !.op = op, !.by = i, !.as = member[i].role, !.on = t, !.to = to])
    BY <1>1 DEF Manage
  <2>2. member[i] # None /\ member[i].role \in Roles /\ member' = member
    BY <1>t, <1>1, <2>1 DEF May, Acts, Memberships, Manage, Data
  <2>3. op = "transfer" => member[i].role = "owner"
    BY <2>1, <2>2 DEF May, MinRole, RoleLevel, Roles
  <2>4. [Idle EXCEPT !.pc = "check", !.op = op, !.by = i, !.as = member[i].role, !.on = t, !.to = to] \in MemberRequest
    BY <2>1, <2>2 DEF Idle, MemberRequest, MemberSteps
  <2>5. reqs'[h].pc = "check" /\ reqs'[h].op = op /\ reqs'[h].by = i
    <3>1. PICK r \in MemberRequest : Start(h, r) /\ r.pc = "check" /\ r.op = op /\ r.by = i
      BY <2>1, <2>4 DEF Idle
    <3> QED
      BY <1>t, <3>1, RequestStarts
  <2>6. RequestKnows(reqs[h])'
    BY <2>2, <2>3, <2>5 DEF RequestKnows
  <2> QED
    BY <2>6, <1>o
<1>2. ASSUME NEW h \in Handlers, Check(h) PROVE Goal
  <2>1. CASE Finish(h)
    BY <2>1, <1>e
  <2>2. CASE ~Finish(h)
    <3>1. GoOn(h, "write") /\ member' = member /\ reqs[h].pc = "check"
          /\ member[reqs[h].on] # None /\ Allowed(reqs[h], member[reqs[h].on])
      BY <1>2, <2>2 DEF Check, Doing, Data
    <3>2. "write" \in MemberSteps
      BY DEF MemberSteps
    <3>3. /\ reqs'[h].pc = "write" /\ reqs'[h].op = reqs[h].op /\ reqs'[h].by = reqs[h].by
          /\ reqs'[h].as = reqs[h].as /\ reqs'[h].on = reqs[h].on
      BY <1>t, <3>1, <3>2, RequestGoes
    <3>4. Allowed(reqs'[h], member[reqs[h].on])
      BY <3>1, <3>3 DEF Allowed
    <3>5. member[reqs[h].by] # None /\ (reqs[h].op = "transfer" => member[reqs[h].by].role = "owner")
      BY <1>k, <3>1 DEF RequestKnows
    <3>6. RequestKnows(reqs[h])'
      BY <3>1, <3>3, <3>4, <3>5 DEF RequestKnows, Allowed
    <3> QED
      BY <3>6, <1>o
  <2> QED
    BY <2>1, <2>2
<1>3. ASSUME NEW h \in Handlers, MemberWrites(h) PROVE Goal
  BY <1>3, <1>e, WritesFinish
<1>4. ASSUME NEW h \in Handlers, LeaveElsewhere(h) \/ StripeSetsPlan(h) PROVE Goal
  <2>1. reqs'[h].pc = "idle"
    BY <1>4 DEF LeaveElsewhere, StripeSetsPlan, Idle
  <2> QED
    BY <2>1, <1>o, KnowsIdle
<1>5. ASSUME NEW h \in Handlers, Invite(h) PROVE Goal
  <2>1. PICK i \in Ids, e \in Emails, to \in {"viewer", "editor"} :
          /\ May(i, "invite")
          /\ Start(h, [Idle EXCEPT !.pc = "count", !.op = "invite", !.by = i, !.as = member[i].role, !.on = e, !.to = to])
    BY <1>5 DEF Invite
  <2>2. member[i] # None /\ member[i].role \in Roles /\ member' = member
    BY <1>t, <1>5, <2>1 DEF May, Acts, Memberships, Invite, Data
  <2>3. [Idle EXCEPT !.pc = "count", !.op = "invite", !.by = i, !.as = member[i].role, !.on = e, !.to = to] \in MemberRequest
    BY <2>1, <2>2 DEF Idle, MemberRequest, MemberSteps
  <2>4. reqs'[h].pc = "count" /\ reqs'[h].seen = {}
    <3>1. PICK r \in MemberRequest : Start(h, r) /\ r.pc = "count" /\ r.seen = {}
      BY <2>1, <2>3 DEF Idle
    <3> QED
      BY <1>t, <3>1, RequestStarts
  <2>5. Members' # {}
    BY <1>m, <2>2
  <2>6. RequestKnows(reqs[h])'
    BY <2>4, <2>5 DEF RequestKnows
  <2> QED
    BY <2>6, <1>o
<1>6. ASSUME NEW h \in Handlers, CheckExists(h) \/ LookupInvited(h) \/ CreatePlaceholder(h) PROVE Goal
  <2>1. CASE Finish(h)
    BY <2>1, <1>e
  <2>2. CASE ~Finish(h)
    <3>1. Members' = Members /\ plan' = plan
      BY <1>6 DEF CheckExists, LookupInvited, CreatePlaceholder, Data, Members
    <3>2. Members # {} /\ (reqs[h].seen # {} => HasRoom(Cardinality(Members), plan))
      BY <1>6, <1>k, <2>2 DEF CheckExists, LookupInvited, CreatePlaceholder, Doing, RequestKnows
    <3>3. reqs[h].seen # {} => HasRoom(Cardinality(Members'), plan')
      BY <3>1, <3>2
    <3>4. reqs'[h].pc \in {"adduser", "exists", "addmember"} /\ reqs'[h].seen = reqs[h].seen
      <4>1. {"adduser", "exists", "addmember"} \subseteq MemberSteps
        BY DEF MemberSteps
      <4>2. CASE CheckExists(h)
        BY <1>t, <2>2, <4>1, <4>2, RequestGoes DEF CheckExists
      <4>3. CASE LookupInvited(h)
        <5>1. CASE GoOn(h, "adduser")
          BY <1>t, <4>1, <5>1, RequestGoes
        <5>2. CASE ~GoOn(h, "adduser")
          <6>1. PICK i \in Ids : reqs' = [reqs EXCEPT ![h].on = i, ![h].pc = "exists"]
            BY <4>3, <5>2 DEF LookupInvited, UsersOf
          <6> QED
            BY <1>t, <4>1, <6>1, RequestFindsOn
        <5> QED
          BY <5>1, <5>2
      <4>4. CASE CreatePlaceholder(h)
        <5>1. PICK i \in Ids : reqs' = [reqs EXCEPT ![h].on = i, ![h].pc = "addmember"]
          BY <2>2, <4>4, IdsAssumption DEF CreatePlaceholder
        <5> QED
          BY <1>t, <4>1, <5>1, RequestFindsOn
      <4> QED
        BY <1>6, <4>2, <4>3, <4>4
    <3>5. RequestKnows(reqs[h])'
      BY <3>1, <3>2, <3>3, <3>4 DEF RequestKnows
    <3> QED
      BY <3>5, <1>o
  <2> QED
    BY <2>1, <2>2
<1>17. ASSUME NEW h \in Handlers, CountMembers(h) PROVE Goal
  <2>1. CASE Finish(h)
    BY <2>1, <1>e
  <2>2. Members' = Members /\ plan' = plan /\ Members # {} /\ reqs[h].pc = "count"
    BY <1>17, <1>k DEF CountMembers, Doing, RequestKnows, Data, Members
  <2>3. RequestShape([reqs[h] EXCEPT !.pc = "lookup"]) /\ "lookup" \in MemberSteps
    BY <1>k, <2>2 DEF RequestShape, MemberRequest, MemberSteps
  <2>4. CASE GoOn(h, "lookup")
    <3>1. reqs'[h].pc = "lookup" /\ reqs'[h].seen = {}
      BY <1>t, <1>k, <2>2, <2>3, <2>4, RequestGoes DEF RequestKnows
    <3>2. RequestKnows(reqs[h])'
      BY <2>2, <3>1 DEF RequestKnows
    <3> QED
      BY <3>2, <1>o
  <2>5. CASE reqs' = [reqs EXCEPT ![h].pc = "lookup", ![h].seen = Members] /\ HasRoom(Cardinality(Members), plan)
    <3>1. reqs'[h].pc = "lookup"
      BY <1>t, <2>3, <2>5, RequestSees
    <3>2. HasRoom(Cardinality(Members'), plan')
      BY <2>2, <2>5
    <3>3. RequestKnows(reqs[h])'
      BY <2>2, <3>1, <3>2 DEF RequestKnows
    <3> QED
      BY <3>3, <1>o
  <2> QED
    BY <1>17, <2>1, <2>4, <2>5 DEF CountMembers

<1>7. ASSUME NEW h \in Handlers, Answer(h) PROVE Goal
  <2>1. PICK op \in {"accept", "deny"}, i \in Ids :
          /\ i \in elsewhere \/ Acts(i)
          /\ Start(h, [Idle EXCEPT !.pc = "pending", !.op = op, !.by = i, !.on = i])
    BY <1>7 DEF Answer
  <2>2. [Idle EXCEPT !.pc = "pending", !.op = op, !.by = i, !.on = i] \in MemberRequest
    BY <2>1 DEF Idle, MemberRequest, MemberSteps
  <2>3. reqs'[h].pc = "pending" /\ reqs'[h].by = i
    <3>1. PICK r \in MemberRequest : Start(h, r) /\ r.pc = "pending" /\ r.by = i
      BY <2>1, <2>2 DEF Idle
    <3> QED
      BY <1>t, <3>1, RequestStarts
  <2>4. member' = member /\ elsewhere' = elsewhere
    BY <1>7 DEF Answer, Data
  <2>5. RequestKnows(reqs[h])'
    BY <2>1, <2>3, <2>4 DEF RequestKnows, Acts
  <2> QED
    BY <2>5, <1>o
<1>8. ASSUME NEW h \in Handlers, FindInvitation(h) PROVE Goal
  <2>1. CASE Finish(h)
    BY <2>1, <1>e
  <2>2. CASE ~Finish(h)
    <3>1. GoOn(h, "answer") /\ member' = member /\ elsewhere' = elsewhere /\ reqs[h].pc = "pending"
          /\ member[reqs[h].by] # None /\ member[reqs[h].by].status = "pending"
      BY <1>8, <2>2 DEF FindInvitation, Doing, Data
    <3>2. "answer" \in MemberSteps
      BY DEF MemberSteps
    <3>3. reqs'[h].pc = "answer" /\ reqs'[h].by = reqs[h].by
      BY <1>t, <3>1, <3>2, RequestGoes
    <3>4. reqs[h].by \in elsewhere
      BY <1>k, <3>1 DEF RequestKnows
    <3>5. RequestKnows(reqs[h])'
      BY <3>1, <3>3, <3>4 DEF RequestKnows
    <3> QED
      BY <3>5, <1>o
  <2> QED
    BY <2>1, <2>2
<1>9. ASSUME NEW h \in Handlers, SignIn(h) \/ ChangePlan(h) \/ DeleteAccount(h) PROVE Goal
  <2>1. reqs'[h].pc \in {"sync", "planCount", "snapshot"}
    <3>1. PICK c \in Ids, p \in Plans : \E r \in {[Idle EXCEPT !.pc = "sync", !.op = "sync", !.by = c],
                                                [Idle EXCEPT !.pc = "planCount", !.op = "plan", !.to = p],
                                                [Idle EXCEPT !.pc = "snapshot", !.op = "delete", !.by = c]} : Start(h, r)
      BY <1>9, IdsAssumption, PlansAssumption DEF SignIn, ChangePlan, DeleteAccount
    <3>2. \A r \in {[Idle EXCEPT !.pc = "sync", !.op = "sync", !.by = c],
                    [Idle EXCEPT !.pc = "planCount", !.op = "plan", !.to = p],
                    [Idle EXCEPT !.pc = "snapshot", !.op = "delete", !.by = c]} :
            r \in MemberRequest /\ r.pc \in {"sync", "planCount", "snapshot"}
      BY DEF Idle, MemberRequest, MemberSteps
    <3> QED
      BY <1>t, <3>1, <3>2, RequestStarts
  <2>2. RequestKnows(reqs[h])'
    BY <2>1 DEF RequestKnows
  <2> QED
    BY <2>2, <1>o
<1>10. ASSUME NEW h \in Handlers, FindUser(h) PROVE Goal
  <2> DEFINE c == reqs[h].by
             known == UsersOf(EmailOf[c])
             active == {i \in known : users[i] = "active"}
  <2>1. users' = users /\ c \in Ids
    BY <1>10, <1>k DEF FindUser, Data, Doing, RequestShape
  <2>2. \/ Finish(h)
        \/ GoOn(h, "signup")
        \/ /\ users[c] = "none" /\ known # {}
           /\ \E pc \in {"relabel", "activate"} :
                 /\ reqs' = [reqs EXCEPT ![h].pc = pc, ![h].on = CHOOSE i \in known : TRUE]
                 /\ pc = "relabel" => active # {}
    BY <1>10, <1>t, <2>1 DEF FindUser
  <2>3. CASE GoOn(h, "signup")
    <3>1. "signup" \in MemberSteps
      BY DEF MemberSteps
    <3>2. reqs'[h].pc = "signup"
      BY <1>t, <2>3, <3>1, RequestGoes
    <3>3. RequestKnows(reqs[h])'
      BY <3>2 DEF RequestKnows
    <3> QED
      BY <3>3, <1>o
  <2>4. CASE /\ users[c] = "none" /\ known # {}
             /\ \E pc \in {"relabel", "activate"} :
                   /\ reqs' = [reqs EXCEPT ![h].pc = pc, ![h].on = CHOOSE i \in known : TRUE]
                   /\ pc = "relabel" => active # {}
    <3>1. PICK pc \in {"relabel", "activate"}, i \in known :
            reqs' = [reqs EXCEPT ![h].pc = pc, ![h].on = i] /\ (pc = "relabel" => active # {})
      BY <2>4
    <3>2. i \in Ids /\ users[i] # "none" /\ i # c /\ EmailOf[i] = EmailOf[c]
      BY <2>4 DEF UsersOf
    <3>3. pc = "relabel" => users[i] = "active"
      BY <3>1, <3>2 DEF UsersOf, MembersInv, EmailsUnique
    <3>4. reqs'[h].pc = pc /\ reqs'[h].by = reqs[h].by /\ reqs'[h].on = i
      BY <1>t, <2>1, <3>1, <3>2, RequestIdentifies
    <3>5. RequestKnows(reqs[h])'
      <4>1. pc \in {"relabel", "activate"} /\ users'[i] # "none" /\ users'[reqs'[h].by] = "none"
            /\ (pc = "relabel" => users'[i] = "active")
        BY <2>1, <2>4, <3>1, <3>2, <3>3, <3>4
      <4> QED
        BY <3>4, <4>1 DEF RequestKnows
    <3> QED
      BY <3>5, <1>o
  <2> QED
    BY <2>2, <2>3, <2>4, <1>e
<1>11. ASSUME NEW h \in Handlers, RelabelUser(h) PROVE Goal
  <2>1. reqs[h].pc = "relabel" /\ reqs[h].by \in Ids /\ reqs[h].on \in Ids /\ reqs[h].on # reqs[h].by
    BY <1>11, <1>k DEF RelabelUser, Doing, RequestShape
  <2>2. users[reqs[h].on] = "active" /\ users[reqs[h].by] = "none"
    BY <1>k, <2>1 DEF RequestKnows
  <2>3. users'[reqs[h].on] = "none" /\ member' = member /\ elsewhere' = elsewhere /\ faults' = faults
        /\ GoOn(h, "relabelMember")
    BY <1>11, <1>t, <2>1, <2>2 DEF RelabelUser
  <2>4. faults = 0 => reqs[h].on \in Members \cup elsewhere
    BY <2>1, <2>2 DEF MembersInv, Belongs, OneRequest
  <2>5. "relabelMember" \in MemberSteps
    BY DEF MemberSteps
  <2>6. reqs'[h].pc = "relabelMember" /\ reqs'[h].on = reqs[h].on
    BY <1>t, <2>3, <2>5, RequestGoes
  <2>7. Members' = Members
    BY <2>3 DEF Members
  <2>8. RequestKnows(reqs[h])'
    BY <2>3, <2>4, <2>6, <2>7 DEF RequestKnows
  <2> QED
    BY <2>8, <1>o
<1>12. ASSUME NEW h \in Handlers, CountForPlan(h) PROVE Goal
  <2>1. CASE Finish(h)
    BY <2>1, <1>e
  <2>2. CASE ~Finish(h)
    <3>1. GoOn(h, "planSet") /\ Fits(Cardinality(Members), reqs[h].to) /\ member' = member
      BY <1>12, <2>2 DEF CountForPlan, Data
    <3>2. "planSet" \in MemberSteps
      BY DEF MemberSteps
    <3>3. reqs'[h].pc = "planSet" /\ reqs'[h].to = reqs[h].to /\ Members' = Members
      BY <1>t, <3>1, <3>2, RequestGoes DEF Members
    <3>4. Fits(Cardinality(Members'), reqs'[h].to)
      BY <3>1, <3>3
    <3>5. RequestKnows(reqs[h])'
      BY <3>3, <3>4 DEF RequestKnows
    <3> QED
      BY <3>5, <1>o
  <2> QED
    BY <2>1, <2>2
<1>13. ASSUME NEW h \in Handlers, DeleteClerkUsers(h) PROVE Goal
  <2>1. CASE Finish(h)
    BY <2>1, <1>e
  <2>2. CASE ~Finish(h)
    <3>1. reqs' = [reqs EXCEPT ![h].pc = "wipe", ![h].seen = Members] /\ Members' = Members
      BY <1>13, <2>2 DEF DeleteClerkUsers, Members
    <3>2. reqs'[h].pc = "wipe" /\ reqs'[h].seen = Members
      BY <1>t, <3>1 DEF MemberRequest
    <3>3. RequestKnows(reqs[h])'
      BY <3>1, <3>2 DEF RequestKnows
    <3> QED
      BY <3>3, <1>o
  <2> QED
    BY <2>1, <2>2
<1>14. ASSUME NEW h \in Handlers, DeleteMemberships(h) PROVE Goal
  <2>1. "wipeUsers" \in MemberSteps /\ GoOn(h, "wipeUsers") /\ Members' = {}
    BY <1>14 DEF MemberSteps, DeleteMemberships, Members
  <2>2. reqs'[h].pc = "wipeUsers"
    BY <1>t, <2>1, RequestGoes
  <2>3. RequestKnows(reqs[h])'
    BY <2>1, <2>2 DEF RequestKnows
  <2> QED
    BY <2>3, <1>o
<1>15. ASSUME NEW h \in Handlers, Crash(h) PROVE Goal
  BY <1>15, <1>e DEF Crash
<1>16. CASE UNCHANGED memberVars
  <2>1. \A h \in Handlers : RequestKnows(reqs[h])' <=> RequestKnows(reqs[h])
    BY <1>16 DEF memberVars, RequestKnows, Members, HasRoom, Fits, Allowed
  <2> QED
    BY <2>1, <1>k
<1> QED
  BY <1>1, <1>2, <1>3, <1>4, <1>5, <1>6, <1>7, <1>8, <1>9, <1>10, <1>11, <1>12, <1>13, <1>14, <1>15, <1>16,
     <1>17, MemberStepKinds DEF MemberReads


\* No step gives one address to two users.
LEMMA EmailsStep ==
    ASSUME MembersInv, [NextMembers]_memberVars
    PROVE  EmailsUnique'
<1>t. /\ users \in [Ids -> {"none", "pending", "active"}]
      /\ reqs \in [Handlers -> MemberRequest]
      /\ EmailsUnique
  BY DEF MembersInv, MemberTypes
<1>k. \A h \in Handlers : RequestShape(reqs[h]) /\ RequestKnows(reqs[h])
  BY DEF MembersInv
<1>s. ASSUME \A i \in Ids : users'[i] # "none" => users[i] # "none" PROVE EmailsUnique'
  BY <1>t, <1>s DEF EmailsUnique
<1>1. ASSUME NEW h \in Handlers, MemberReads(h) PROVE EmailsUnique'
  BY <1>1, <1>s, ReadsLeave
<1>2. ASSUME NEW h \in Handlers, RemoveUser(h) \/ DeleteUsers(h) \/ LeaveElsewhere(h) \/ StripeSetsPlan(h)
      PROVE  EmailsUnique'
  <2>1. \A i \in Ids : users'[i] # "none" => users[i] # "none"
    BY <1>2, <1>t DEF RemoveUser, DeleteUsers, LeaveElsewhere, StripeSetsPlan
  <2> QED
    BY <2>1, <1>s
<1>3. ASSUME NEW h \in Handlers, CreatePlaceholder(h) PROVE EmailsUnique'
  <2>1. CASE users' = users
    BY <2>1, <1>s
  <2>2. CASE users' # users
    <3>1. PICK p \in Ids : /\ UsersOf(EmailOf[p]) = {}
                           /\ users' = [users EXCEPT ![p] = "pending"]
      BY <1>3, <2>2, IdsAssumption DEF CreatePlaceholder
    <3>2. \A i \in Ids : users[i] # "none" => EmailOf[i] # EmailOf[p]
      BY <3>1 DEF UsersOf
    <3> QED
      BY <1>t, <3>1, <3>2 DEF EmailsUnique
  <2> QED
    BY <2>1, <2>2
<1>4. ASSUME NEW h \in Handlers, RelabelUser(h) PROVE EmailsUnique'
  <2> DEFINE old == reqs[h].on
             new == reqs[h].by
  <2>1. old \in Ids /\ new \in Ids /\ old # new /\ EmailOf[old] = EmailOf[new]
    BY <1>4, <1>k DEF RelabelUser, Doing, RequestShape
  <2>2. users[old] = "active" /\ users[new] = "none"
    BY <1>4, <1>k DEF RelabelUser, Doing, RequestKnows
  <2>3. users' = [users EXCEPT ![new] = users[old], ![old] = "none"]
    BY <1>4, <2>2 DEF RelabelUser
  <2>4. /\ users'[old] = "none"
        /\ \A i \in Ids \ {new} : users'[i] # "none" => users[i] # "none" /\ i # old
    BY <1>t, <2>1, <2>3
  <2>5. \A i \in Ids \ {new} : users'[i] # "none" => EmailOf[i] # EmailOf[new]
    BY <1>t, <2>1, <2>2, <2>4 DEF EmailsUnique
  <2> HIDE DEF old, new
  <2> QED
    BY <1>t, <2>4, <2>5 DEF EmailsUnique
<1>5. ASSUME NEW h \in Handlers, ActivateInvited(h) \/ SignUp(h) PROVE EmailsUnique'
  <2> DEFINE new == reqs[h].by
  <2>1. new \in Ids
    BY <1>5, <1>k DEF ActivateInvited, SignUp, Doing, RequestShape
  <2>2. CASE users' = users
    BY <2>2, <1>s
  <2>3. CASE users' # users
    <3>1. \A i \in Ids \ {new} : users'[i] # "none" => users[i] # "none" /\ EmailOf[i] # EmailOf[new]
      BY <1>5, <1>t, <2>1, <2>3 DEF ActivateInvited, SignUp, UsersOf
    <3> HIDE DEF new
    <3> QED
      BY <1>t, <3>1 DEF EmailsUnique
  <2> QED
    BY <2>2, <2>3
<1>6. ASSUME NEW h \in Handlers,
             \/ UpdateUserRole(h) \/ SuspendUser(h) \/ UnsuspendUser(h) \/ PromoteAdmin(h) \/ DemoteAdmin(h)
             \/ TransferOwnership(h) \/ CreateMembership(h) \/ AcceptInvitation(h) \/ DenyInvitation(h)
             \/ RelabelMemberships(h) \/ SetPlan(h) \/ DeleteMemberships(h)
      PROVE  EmailsUnique'
  <2>1. users' = users
    BY <1>6 DEF UpdateUserRole, SuspendUser, UnsuspendUser, PromoteAdmin, DemoteAdmin, TransferOwnership,
       CreateMembership, AcceptInvitation, DenyInvitation, RelabelMemberships, SetPlan, DeleteMemberships
  <2> QED
    BY <2>1, <1>s
<1>7. CASE UNCHANGED memberVars
  BY <1>7, <1>s DEF memberVars
<1> QED
  BY <1>1, <1>2, <1>3, <1>4, <1>5, <1>6, <1>7, MemberStepKinds DEF MemberWrites

\* What the writing steps do to the rows of the members, one lemma per kind.
\* A role, a status or an answer leaves who is a member, but for the answer
\* "deny", and touches one row, but for the transfer.
LEMMA RowWritten ==
    ASSUME MembersInv, NEW h \in Handlers,
           \/ UpdateUserRole(h) \/ SuspendUser(h) \/ UnsuspendUser(h) \/ PromoteAdmin(h) \/ DemoteAdmin(h)
           \/ AcceptInvitation(h)
    PROVE  \E t \in Ids :
             /\ member[t] # None => member'[t] # None
             /\ member[t] = None => member'[t] = None
             /\ \A j \in Ids \ {t} : member'[j] = member[j]
             /\ member[t] # None => (member'[t].role = "owner" <=> member[t].role = "owner")
             /\ member[t] # None /\ member[t].role = "owner" =>
                  member'[t].status \in {member[t].status, "active"}
             /\ member[t] # None /\ member[t].status = "suspended" /\ member'[t].status = "active" =>
                  Write(h, "unsuspend") /\ reqs[h].on = t
<1>t. member \in [Ids -> Memberships \cup {None}] /\ MemberTypes
  BY DEF MembersInv, MemberTypes
<1>k. RequestShape(reqs[h]) /\ RequestKnows(reqs[h])
  BY DEF MembersInv
<1>r. Roles = {"viewer", "editor", "admin", "owner"} /\ Statuses = {"pending", "active", "suspended"}
  BY DEF Roles, Statuses
<1>1. CASE UpdateUserRole(h) \/ PromoteAdmin(h) \/ DemoteAdmin(h)
  <2>1. PICK op \in {"role", "promote", "demote"}, role \in {"viewer", "editor", "admin"} :
          reqs[h].op = op /\ reqs[h].pc = "write" /\ member' = SetRole(member, reqs[h].on, role)
    BY <1>1, <1>k DEF UpdateUserRole, PromoteAdmin, DemoteAdmin, Write, Doing, RequestShape
  <2>2. reqs[h].on \in Ids /\ member[reqs[h].on] # None
    BY <1>k, <2>1 DEF RequestShape, RequestKnows
  <2>3. member[reqs[h].on].role # "owner"
    BY <1>k, <2>1 DEF RequestKnows, Allowed
  <2>4. role \in Roles /\ "active" \in Statuses
    BY <1>r
  <2>5. /\ \A j \in Ids \ {reqs[h].on} : member'[j] = member[j]
        /\ member'[reqs[h].on] # None /\ member'[reqs[h].on].role = role
        /\ member'[reqs[h].on].status = member[reqs[h].on].status
    BY <1>t, <2>1, <2>2, <2>4, RowSet
  <2> QED
    BY <2>1, <2>2, <2>3, <2>5
<1>2. CASE SuspendUser(h) \/ UnsuspendUser(h)
  <2>1. PICK status \in {"suspended", "active"} :
          /\ reqs[h].pc = "write" /\ member' = SetStatus(member, reqs[h].on, status)
          /\ status = "suspended" => reqs[h].op = "suspend"
          /\ status = "active" => Write(h, "unsuspend")
    BY <1>2 DEF SuspendUser, UnsuspendUser, Write, Doing
  <2>2. reqs[h].on \in Ids /\ member[reqs[h].on] # None
    BY <1>k, <2>1 DEF RequestShape, RequestKnows
  <2>3. reqs[h].op = "suspend" => member[reqs[h].on].role # "owner"
    BY <1>k, <2>1 DEF RequestKnows, Allowed
  <2>4. status \in Statuses /\ "owner" \in Roles
    BY <1>r
  <2>5. /\ \A j \in Ids \ {reqs[h].on} : member'[j] = member[j]
        /\ member'[reqs[h].on] # None /\ member'[reqs[h].on].status = status
        /\ member'[reqs[h].on].role = member[reqs[h].on].role
    BY <1>t, <2>1, <2>2, <2>4, RowSet
  <2> QED
    BY <2>1, <2>2, <2>3, <2>5
<1>3. CASE AcceptInvitation(h)
  <2>1. reqs[h].pc = "answer" /\ member' = SetStatus(member, reqs[h].by, "active")
    BY <1>3 DEF AcceptInvitation, Doing
  <2>2. reqs[h].by \in Ids /\ member[reqs[h].by] # None /\ member[reqs[h].by].status = "pending"
    BY <1>k, <2>1 DEF RequestShape, RequestKnows
  <2>3. "active" \in Statuses /\ "owner" \in Roles
    BY <1>r
  <2>4. /\ \A j \in Ids \ {reqs[h].by} : member'[j] = member[j]
        /\ member'[reqs[h].by] # None /\ member'[reqs[h].by].status = "active"
        /\ member'[reqs[h].by].role = member[reqs[h].by].role
    BY <1>t, <2>1, <2>2, <2>3, RowSet
  <2> QED
    BY <2>2, <2>4
<1> QED
  BY <1>1, <1>2, <1>3

LEMMA OwnershipMoved ==
    ASSUME MembersInv, NEW h \in Handlers, TransferOwnership(h)
    PROVE  \E o, n \in Ids :
             /\ n # o
             /\ member[o] # None /\ member[o].role = "owner"
             /\ member[n] # None /\ member[n].status = "active"
             /\ member'[o] # None /\ member'[o].role = "admin" /\ member'[o].status = member[o].status
             /\ member'[n] # None /\ member'[n].role = "owner" /\ member'[n].status = member[n].status
             /\ \A j \in Ids \ {o, n} : member'[j] = member[j]
<1>t. member \in [Ids -> Memberships \cup {None}] /\ MemberTypes
  BY DEF MembersInv, MemberTypes
<1>1. RequestShape(reqs[h]) /\ RequestKnows(reqs[h]) /\ reqs[h].pc = "write" /\ reqs[h].op = "transfer"
  BY DEF MembersInv, TransferOwnership, Write, Doing
<1>2. "admin" \in Roles /\ "owner" \in Roles /\ "active" \in Statuses
  BY DEF Roles, Statuses
<1>3. PICK o \in Ids, n \in Ids : o = reqs[h].by /\ n = reqs[h].on
  BY <1>1 DEF RequestShape
<1>4. /\ n # o /\ member[o] # None /\ member[o].role = "owner"
      /\ member[n] # None /\ member[n].status = "active"
  BY <1>1, <1>3 DEF RequestShape, RequestKnows, NotOnSelf, Allowed
<1>5. PICK m \in [Ids -> Memberships \cup {None}] : m = SetRole(member, o, "admin")
  BY <1>t, <1>2, RowSet
<1>6. /\ m[o] # None /\ m[o].role = "admin" /\ m[o].status = member[o].status
      /\ \A j \in Ids \ {o} : m[j] = member[j]
  BY <1>t, <1>2, <1>4, <1>5, RowSet
<1>7. member' = SetRole(m, n, "owner")
  BY <1>3, <1>5 DEF TransferOwnership
<1>8. /\ member'[n] # None /\ member'[n].role = "owner" /\ member'[n].status = m[n].status
      /\ \A j \in Ids \ {n} : member'[j] = m[j]
  BY <1>t, <1>2, <1>4, <1>5, <1>6, <1>7, RowSet
<1> QED
  BY <1>4, <1>6, <1>8

\* A removal and a refused invitation take one row; neither is an owner's.
LEMMA RowDeleted ==
    ASSUME MembersInv, NEW h \in Handlers, RemoveUser(h) \/ DenyInvitation(h)
    PROVE  \E t \in Ids :
             /\ member'[t] = None /\ \A j \in Ids \ {t} : member'[j] = member[j]
             /\ t \notin Owners
<1>t. member \in [Ids -> Memberships \cup {None}]
  BY DEF MembersInv, MemberTypes
<1>k. RequestShape(reqs[h]) /\ RequestKnows(reqs[h])
  BY DEF MembersInv
<1>1. CASE RemoveUser(h)
  <2>1. /\ reqs[h].on \in Ids /\ member[reqs[h].on].role # "owner"
    BY <1>1, <1>k DEF RemoveUser, Write, Doing, RequestShape, RequestKnows, Allowed
  <2>2. member' = [member EXCEPT ![reqs[h].on] = None]
    BY <1>1 DEF RemoveUser
  <2> QED
    BY <1>t, <2>1, <2>2 DEF Owners
<1>2. CASE DenyInvitation(h)
  <2>1. reqs[h].by \in Ids /\ member[reqs[h].by] # None /\ member[reqs[h].by].status = "pending"
    BY <1>2, <1>k DEF DenyInvitation, Doing, RequestShape, RequestKnows
  <2>2. member' = [member EXCEPT ![reqs[h].by] = None]
    BY <1>2 DEF DenyInvitation
  <2>3. reqs[h].by \notin Owners
    BY <2>1 DEF MembersInv, Owned, Members, Owners
  <2> QED
    BY <1>t, <2>1, <2>2, <2>3
<1> QED
  BY <1>1, <1>2

\* Sign-ins move a row to an id that has none.
LEMMA RowMoved ==
    ASSUME MembersInv, NEW h \in Handlers, RelabelMemberships(h) \/ ActivateInvited(h)
    PROVE  \/ member' = member
           \/ \E old, new \in Ids :
                /\ old = reqs[h].on /\ new = reqs[h].by /\ old # new
                /\ member[old] # None /\ member[new] = None
                /\ member'[old] = None /\ member'[new] # None
                /\ member'[new].role = member[old].role
                /\ member[old].role = "owner" => member'[new].status = "active"
                /\ \A j \in Ids \ {old, new} : member'[j] = member[j]
<1>t. member \in [Ids -> Memberships \cup {None}]
  BY DEF MembersInv, MemberTypes
<1>k. RequestShape(reqs[h])
  BY DEF MembersInv
<1> DEFINE old == reqs[h].on
           new == reqs[h].by
<1>1. old \in Ids /\ new \in Ids /\ old # new
  BY <1>k DEF RequestShape, RelabelMemberships, ActivateInvited, Doing
<1>2. CASE RelabelMemberships(h) /\ member' # member
  <2>1. /\ member[old] # None /\ member[new] = None
        /\ member' = [member EXCEPT ![new] = member[old], ![old] = None]
    BY <1>1, <1>2 DEF RelabelMemberships
  <2>2. member'[old] = None /\ member'[new] = member[old] /\ \A j \in Ids \ {old, new} : member'[j] = member[j]
    BY <1>t, <1>1, <2>1
  <2>3. member[old].role = "owner" => member[old].status = "active"
    BY <1>1, <2>1 DEF MembersInv, Owned, Members, Owners
  <2> QED
    BY <1>1, <2>1, <2>2, <2>3
<1>3. CASE ActivateInvited(h) /\ member' # member
  <2>1. /\ member[old] # None /\ member[old].status = "pending" /\ member[new] = None
        /\ member' = [member EXCEPT ![old] = None, ![new] = [member[old] EXCEPT !.status = "active"]]
    BY <1>1, <1>3 DEF ActivateInvited
  <2>2. member'[old] = None /\ member'[new] = [member[old] EXCEPT !.status = "active"]
        /\ \A j \in Ids \ {old, new} : member'[j] = member[j]
    BY <1>t, <1>1, <2>1
  <2>3. [member[old] EXCEPT !.status = "active"] \in Memberships
        /\ [member[old] EXCEPT !.status = "active"].role = member[old].role
        /\ [member[old] EXCEPT !.status = "active"].status = "active"
    BY <1>t, <1>1, <2>1 DEF Memberships, Statuses
  <2>4. member'[new] # None /\ member'[new].role = member[old].role /\ member'[new].status = "active"
    BY <2>2, <2>3, NoneAssumption
  <2> HIDE DEF old, new
  <2>5. \E o, n \in Ids :
          /\ o = old /\ n = new /\ o # n
          /\ member[o] # None /\ member[n] = None
          /\ member'[o] = None /\ member'[n] # None
          /\ member'[n].role = member[o].role
          /\ member[o].role = "owner" => member'[n].status = "active"
          /\ \A j \in Ids \ {o, n} : member'[j] = member[j]
    BY <1>1, <2>1, <2>2, <2>4
  <2> QED
    BY <2>5 DEF old, new
<1> QED
  BY <1>2, <1>3


\* A placeholder's membership is a new row, with the room counted before,
\* unless that count failed.
LEMMA RowCreated ==
    ASSUME MembersInv, NEW h \in Handlers, CreateMembership(h)
    PROVE  \/ member' = member
           \/ \E t \in Ids :
                /\ member[t] = None /\ member'[t] # None /\ member'[t].role # "owner"
                /\ \A j \in Ids \ {t} : member'[j] = member[j]
                /\ Members # {} /\ (reqs[h].seen # {} => HasRoom(Cardinality(Members), plan))
<1>t. member \in [Ids -> Memberships \cup {None}]
  BY DEF MembersInv, MemberTypes
<1>1. /\ reqs[h].pc = "addmember" /\ reqs[h].on \in Ids /\ reqs[h].to \in {"viewer", "editor"}
      /\ Members # {} /\ (reqs[h].seen # {} => HasRoom(Cardinality(Members), plan))
  BY DEF MembersInv, RequestShape, RequestKnows, CreateMembership, Doing
<1>2. CASE member' # member
  <2>1. member[reqs[h].on] = None
        /\ member' = [member EXCEPT ![reqs[h].on] = [role |-> reqs[h].to, status |-> "pending"]]
    BY <1>2 DEF CreateMembership
  <2>2. [role |-> reqs[h].to, status |-> "pending"] \in Memberships
    BY <1>1 DEF Memberships, Roles, Statuses
  <2>3. /\ member'[reqs[h].on] = [role |-> reqs[h].to, status |-> "pending"]
        /\ \A j \in Ids \ {reqs[h].on} : member'[j] = member[j]
    BY <1>t, <1>1, <2>1
  <2>4. member'[reqs[h].on] # None /\ member'[reqs[h].on].role # "owner"
    BY <1>1, <2>2, <2>3, NoneAssumption
  <2> QED
    BY <1>1, <2>1, <2>3, <2>4
<1> QED
  BY <1>2

\* The remaining steps leave the rows, but for the deletion of the account.
LEMMA RowsLeft ==
    ASSUME NEW h \in Handlers,
           \/ MemberReads(h) \/ LeaveElsewhere(h) \/ CreatePlaceholder(h) \/ RelabelUser(h) \/ SignUp(h)
           \/ SetPlan(h) \/ StripeSetsPlan(h) \/ DeleteUsers(h)
    PROVE  member' = member
BY ReadsLeave DEF LeaveElsewhere, StripeSetsPlan, CreatePlaceholder, RelabelUser, SignUp, SetPlan, DeleteUsers

\* The tenant keeps its one owner.
LEMMA OwnedStep ==
    ASSUME MembersInv, [NextMembers]_memberVars
    PROVE  Owned'
<1>o. Members # {} => \E o \in Owners : Owners = {o} /\ member[o].status = "active"
  BY DEF MembersInv, Owned
<1>m. /\ Members = {i \in Ids : member[i] # None} /\ Members' = {i \in Ids : member'[i] # None}
      /\ Owners = {i \in Members : member[i].role = "owner"}
      /\ Owners' = {i \in Members' : member'[i].role = "owner"}
  BY DEF Members, Owners
<1>k. ASSUME Owners' = Owners, Members # {} \/ Members' = {},
             \A i \in Owners : member'[i].status \in {member[i].status, "active"}
      PROVE  Owned'
  BY <1>k, <1>o DEF Owned
<1>s. ASSUME member' = member PROVE Owned'
  BY <1>s, <1>m, <1>k
<1>1. ASSUME NEW h \in Handlers,
             \/ UpdateUserRole(h) \/ SuspendUser(h) \/ UnsuspendUser(h) \/ PromoteAdmin(h) \/ DemoteAdmin(h)
             \/ AcceptInvitation(h)
      PROVE  Owned'
  <2>1. PICK t \in Ids :
             /\ member[t] # None => member'[t] # None
             /\ member[t] = None => member'[t] = None
             /\ \A j \in Ids \ {t} : member'[j] = member[j]
             /\ member[t] # None => (member'[t].role = "owner" <=> member[t].role = "owner")
             /\ member[t] # None /\ member[t].role = "owner" =>
                  member'[t].status \in {member[t].status, "active"}
    BY <1>1, RowWritten
  <2>2. Members' = Members /\ Owners' = Owners
    BY <1>m, <2>1
  <2>3. \A i \in Owners : member'[i].status \in {member[i].status, "active"}
    BY <1>m, <2>1
  <2> QED
    BY <2>2, <2>3, <1>k
<1>2. ASSUME NEW h \in Handlers, TransferOwnership(h) PROVE Owned'
  <2>1. PICK o, n \in Ids :
             /\ n # o
             /\ member[o] # None /\ member[o].role = "owner"
             /\ member[n] # None /\ member[n].status = "active"
             /\ member'[o] # None /\ member'[o].role = "admin" /\ member'[o].status = member[o].status
             /\ member'[n] # None /\ member'[n].role = "owner" /\ member'[n].status = member[n].status
             /\ \A j \in Ids \ {o, n} : member'[j] = member[j]
    BY <1>2, OwnershipMoved
  <2>2. Owners = {o}
    BY <1>o, <1>m, <2>1
  <2>3. Owners' = {n}
    BY <1>m, <2>1, <2>2
  <2> QED
    BY <2>1, <2>3 DEF Owned
<1>3. ASSUME NEW h \in Handlers, RemoveUser(h) \/ DenyInvitation(h) PROVE Owned'
  <2>1. PICK t \in Ids : /\ member'[t] = None /\ \A j \in Ids \ {t} : member'[j] = member[j]
                         /\ t \notin Owners
    BY <1>3, RowDeleted
  <2>2. Owners' = Owners /\ Members' \subseteq Members
    BY <1>m, <2>1
  <2>3. \A i \in Owners : member'[i] = member[i]
    BY <1>m, <2>1
  <2> QED
    BY <2>2, <2>3, <1>k
<1>4. ASSUME NEW h \in Handlers, RelabelMemberships(h) \/ ActivateInvited(h) PROVE Owned'
  <2>1. CASE member' = member
    BY <2>1, <1>s
  <2>2. CASE member' # member
    <3>1. PICK old, new \in Ids :
                /\ old # new
                /\ member[old] # None /\ member[new] = None
                /\ member'[old] = None /\ member'[new] # None
                /\ member'[new].role = member[old].role
                /\ member[old].role = "owner" => member'[new].status = "active"
                /\ \A j \in Ids \ {old, new} : member'[j] = member[j]
      BY <1>4, <2>2, RowMoved
    <3>2. PICK o \in Owners : Owners = {o} /\ member[o].status = "active"
      BY <1>o, <1>m, <3>1
    <3>3. CASE o = old
      <4>1. Owners' = {new} /\ member'[new].status = "active"
        BY <1>m, <3>1, <3>2, <3>3
      <4> QED
        BY <4>1 DEF Owned
    <3>4. CASE o # old
      <4>1. Owners' = {o} /\ member'[o] = member[o]
        BY <1>m, <3>1, <3>2, <3>4
      <4> QED
        BY <3>2, <4>1 DEF Owned
    <3> QED
      BY <3>3, <3>4
  <2> QED
    BY <2>1, <2>2
<1>5. ASSUME NEW h \in Handlers, CreateMembership(h) PROVE Owned'
  <2>1. CASE member' = member
    BY <2>1, <1>s
  <2>2. CASE member' # member
    <3>1. PICK t \in Ids :
                /\ member[t] = None /\ member'[t] # None /\ member'[t].role # "owner"
                /\ \A j \in Ids \ {t} : member'[j] = member[j]
                /\ Members # {}
      BY <1>5, <2>2, RowCreated
    <3>2. Owners' = Owners /\ \A i \in Owners : member'[i] = member[i]
      BY <1>m, <3>1
    <3> QED
      BY <3>1, <3>2, <1>k
  <2> QED
    BY <2>1, <2>2
<1>6. ASSUME NEW h \in Handlers, DeleteMemberships(h) PROVE Owned'
  <2>1. Members' = {}
    BY <1>6, <1>m DEF DeleteMemberships
  <2> QED
    BY <2>1 DEF Owned
<1>7. ASSUME NEW h \in Handlers,
             \/ MemberReads(h) \/ LeaveElsewhere(h) \/ CreatePlaceholder(h) \/ RelabelUser(h) \/ SignUp(h)
             \/ SetPlan(h) \/ StripeSetsPlan(h) \/ DeleteUsers(h)
      PROVE  Owned'
  BY <1>7, <1>s, RowsLeft
<1>8. CASE UNCHANGED memberVars
  BY <1>8, <1>s DEF memberVars
<1> QED
  BY <1>1, <1>2, <1>3, <1>4, <1>5, <1>6, <1>7, <1>8, MemberStepKinds DEF MemberWrites

\* What a step may do to the number of members and to the plan.
LimitKept ==
    /\ Cardinality(Members') > Cardinality(Members) =>
          \/ Fits(Cardinality(Members'), plan')
          \/ \E h \in Handlers : Doing(h, "addmember") /\ reqs[h].seen = {}
    /\ plan' # plan /\ reqs' # reqs => Fits(Cardinality(Members'), plan')

LEMMA LimitStep ==
    ASSUME MembersInv, [NextMembers]_memberVars
    PROVE  IsFiniteSet(Members') /\ LimitKept
<1>f. IsFiniteSet(Members) /\ Cardinality(Members) \in Nat
  BY FS_CardinalityType DEF MembersInv
<1>m. Members = {i \in Ids : member[i] # None} /\ Members' = {i \in Ids : member'[i] # None}
  BY DEF Members
<1>p. plan \in Plans /\ MaxMembers[plan] \in Int
  BY PlansAssumption DEF MembersInv, MemberTypes
<1>s. ASSUME Members' \subseteq Members, plan' = plan
      PROVE  IsFiniteSet(Members') /\ LimitKept
  <2>1. IsFiniteSet(Members') /\ Cardinality(Members') <= Cardinality(Members) /\ Cardinality(Members') \in Nat
    BY <1>f, <1>s, FS_Subset, FS_CardinalityType
  <2>2. ~(Cardinality(Members') > Cardinality(Members))
    BY <1>f, <2>1
  <2> QED
    BY <1>s, <2>1, <2>2 DEF LimitKept
<1>1. ASSUME NEW h \in Handlers,
             \/ UpdateUserRole(h) \/ SuspendUser(h) \/ UnsuspendUser(h) \/ PromoteAdmin(h) \/ DemoteAdmin(h)
             \/ AcceptInvitation(h)
      PROVE  IsFiniteSet(Members') /\ LimitKept
  <2>1. plan' = plan
    BY <1>1 DEF UpdateUserRole, SuspendUser, UnsuspendUser, PromoteAdmin, DemoteAdmin, AcceptInvitation
  <2>2. PICK t \in Ids : /\ member[t] = None => member'[t] = None
                         /\ \A j \in Ids \ {t} : member'[j] = member[j]
    BY <1>1, RowWritten
  <2>3. Members' \subseteq Members
    BY <1>m, <2>2
  <2> QED
    BY <2>1, <2>3, <1>s
<1>2. ASSUME NEW h \in Handlers, TransferOwnership(h) PROVE IsFiniteSet(Members') /\ LimitKept
  <2>1. plan' = plan
    BY <1>2 DEF TransferOwnership
  <2>2. PICK o, n \in Ids : /\ member[o] # None /\ member[n] # None
                            /\ \A j \in Ids \ {o, n} : member'[j] = member[j]
    BY <1>2, OwnershipMoved
  <2>3. Members' \subseteq Members
    BY <1>m, <2>2
  <2> QED
    BY <2>1, <2>3, <1>s
<1>3. ASSUME NEW h \in Handlers, RemoveUser(h) \/ DenyInvitation(h) \/ DeleteMemberships(h)
      PROVE  IsFiniteSet(Members') /\ LimitKept
  <2>1. plan' = plan
    BY <1>3 DEF RemoveUser, DenyInvitation, DeleteMemberships
  <2>2. CASE DeleteMemberships(h)
    BY <1>m, <1>s, <2>1, <2>2 DEF DeleteMemberships
  <2>3. CASE RemoveUser(h) \/ DenyInvitation(h)
    <3>1. PICK t \in Ids : member'[t] = None /\ \A j \in Ids \ {t} : member'[j] = member[j]
      BY <2>3, RowDeleted
    <3>2. Members' \subseteq Members
      BY <1>m, <3>1
    <3> QED
      BY <2>1, <3>2, <1>s
  <2> QED
    BY <1>3, <2>2, <2>3
<1>4. ASSUME NEW h \in Handlers, RelabelMemberships(h) \/ ActivateInvited(h)
      PROVE  IsFiniteSet(Members') /\ LimitKept
  <2>1. plan' = plan
    BY <1>4 DEF RelabelMemberships, ActivateInvited
  <2>2. CASE member' = member
    BY <1>m, <1>s, <2>1, <2>2
  <2>3. CASE member' # member
    <3>1. PICK old, new \in Ids :
                /\ old # new
                /\ member[old] # None /\ member[new] = None
                /\ member'[old] = None /\ member'[new] # None
                /\ \A j \in Ids \ {old, new} : member'[j] = member[j]
      BY <1>4, <2>3, RowMoved
    <3>2. Members' = (Members \ {old}) \cup {new} /\ old \in Members /\ new \notin Members \ {old}
      BY <1>m, <3>1
    <3>3. IsFiniteSet(Members \ {old}) /\ Cardinality(Members \ {old}) = Cardinality(Members) - 1
      BY <1>f, <3>2, FS_RemoveElement
    <3>4. IsFiniteSet(Members') /\ Cardinality(Members') = Cardinality(Members \ {old}) + 1
      BY <3>2, <3>3, FS_AddElement
    <3>5. Cardinality(Members') = Cardinality(Members)
      BY <1>f, <3>3, <3>4
    <3> QED
      BY <1>f, <2>1, <3>4, <3>5 DEF LimitKept
  <2> QED
    BY <2>2, <2>3
<1>5. ASSUME NEW h \in Handlers, CreateMembership(h) PROVE IsFiniteSet(Members') /\ LimitKept
  <2>1. plan' = plan
    BY <1>5 DEF CreateMembership
  <2>2. CASE member' = member
    BY <1>m, <1>s, <2>1, <2>2
  <2>3. CASE member' # member
    <3>1. PICK t \in Ids : /\ member[t] = None /\ member'[t] # None
                           /\ \A j \in Ids \ {t} : member'[j] = member[j]
                           /\ reqs[h].seen # {} => HasRoom(Cardinality(Members), plan)
      BY <1>5, <2>3, RowCreated
    <3>2. Members' = Members \cup {t} /\ t \notin Members
      BY <1>m, <3>1
    <3>3. IsFiniteSet(Members') /\ Cardinality(Members') = Cardinality(Members) + 1
      BY <1>f, <3>2, FS_AddElement
    <3>4. reqs[h].seen = {} \/ Fits(Cardinality(Members'), plan')
      BY <1>f, <1>p, <2>1, <3>1, <3>3 DEF Fits, HasRoom, Unlimited
    <3> QED
      BY <1>5, <2>1, <3>3, <3>4 DEF LimitKept, CreateMembership
  <2> QED
    BY <2>2, <2>3
<1>6. ASSUME NEW h \in Handlers, SetPlan(h) PROVE IsFiniteSet(Members') /\ LimitKept
  <2>1. Fits(Cardinality(Members), reqs[h].to)
    BY <1>6 DEF MembersInv, RequestKnows, SetPlan, Doing
  <2>2. Members' = Members /\ plan' = reqs[h].to
    BY <1>6, <1>m DEF SetPlan
  <2> QED
    BY <1>f, <2>1, <2>2 DEF LimitKept
<1>7. ASSUME NEW h \in Handlers,
             \/ MemberReads(h) \/ LeaveElsewhere(h) \/ CreatePlaceholder(h) \/ RelabelUser(h) \/ SignUp(h)
             \/ DeleteUsers(h)
      PROVE  IsFiniteSet(Members') /\ LimitKept
  <2>1. member' = member
    BY <1>7, RowsLeft
  <2>2. plan' = plan
    BY <1>7, ReadsLeave DEF LeaveElsewhere, CreatePlaceholder, RelabelUser, SignUp, DeleteUsers
  <2> QED
    BY <1>m, <1>s, <2>1, <2>2
<1>9. ASSUME NEW h \in Handlers, StripeSetsPlan(h) PROVE IsFiniteSet(Members') /\ LimitKept
  <2>1. Members' = Members /\ reqs' = reqs
    BY <1>9, <1>m DEF StripeSetsPlan
  <2> QED
    BY <1>f, <2>1 DEF LimitKept
<1>8. CASE UNCHANGED memberVars
  BY <1>8, <1>m, <1>s DEF memberVars
<1> QED
  BY <1>1, <1>2, <1>3, <1>4, <1>5, <1>6, <1>7, <1>8, <1>9, MemberStepKinds DEF MemberWrites


\* An active user stays a member of some tenant.
AllBelong == \A i \in Ids : users[i] = "active" => Belongs(i)

LEMMA ReadsAlone ==
    ASSUME NEW h \in Handlers, MemberReads(h)
    PROVE  /\ faults' \in {faults, faults + 1}
           /\ Crash(h) \/ reqs[h].pc \notin {"relabelMember", "wipeUsers"}
<1>1. CASE Manage(h) \/ Invite(h) \/ Answer(h) \/ SignIn(h) \/ ChangePlan(h) \/ DeleteAccount(h)
  <2>1. reqs[h] = Idle /\ faults' = faults
    BY <1>1 DEF Manage, Invite, Answer, SignIn, ChangePlan, DeleteAccount, Start
  <2> QED
    BY <2>1 DEF Idle
<1>6. CASE CountMembers(h)
  BY <1>6 DEF CountMembers, Doing
<1>2. CASE Check(h) \/ LookupInvited(h) \/ CheckExists(h) \/ FindInvitation(h)
           \/ CountForPlan(h)
  BY <1>2 DEF Check, LookupInvited, CheckExists, FindInvitation, CountForPlan, Doing
<1>3. CASE FindUser(h)
  BY <1>3 DEF FindUser, Doing
<1>4. CASE DeleteClerkUsers(h)
  BY <1>4 DEF DeleteClerkUsers, Doing
<1>5. CASE Crash(h)
  BY <1>5 DEF Crash
<1> QED
  BY <1>1, <1>2, <1>3, <1>4, <1>5, <1>6 DEF MemberReads

LEMMA BelongStep ==
    ASSUME OneRequest, MembersInv, [NextMembers]_memberVars, faults' = 0
    PROVE  AllBelong'
<1>t. /\ users \in [Ids -> {"none", "pending", "active"}]
      /\ member \in [Ids -> Memberships \cup {None}]
      /\ elsewhere \subseteq Ids /\ faults \in Nat
      /\ reqs \in [Handlers -> MemberRequest] /\ MemberTypes
  BY DEF MembersInv, MemberTypes
<1>k. \A h \in Handlers : RequestShape(reqs[h]) /\ RequestKnows(reqs[h])
  BY DEF MembersInv
<1>m. Members = {i \in Ids : member[i] # None} /\ Members' = {i \in Ids : member'[i] # None}
  BY DEF Members
<1>z. faults = 0 => AllBelong
  BY DEF MembersInv, AllBelong
\* Between requests' two statements nothing else happens.
<1>n. ASSUME NEW h \in Handlers, faults = 0, reqs[h].pc \notin {"relabelMember", "wipeUsers"}
      PROVE  \A i \in Ids : users[i] = "active" => i \in Members \cup elsewhere
  BY <1>z, <1>n DEF AllBelong, Belongs, OneRequest
<1>s. ASSUME NEW h \in Handlers, faults = 0, reqs[h].pc \notin {"relabelMember", "wipeUsers"},
             \A i \in Ids : users'[i] = "active" /\ i \in Members \cup elsewhere => i \in Members' \cup elsewhere',
             \A i \in Ids : users'[i] = "active" => users[i] = "active" \/ i \in Members' \cup elsewhere'
      PROVE  AllBelong'
  <2>1. \A i \in Ids : users'[i] = "active" => i \in Members' \cup elsewhere'
    BY <1>n, <1>s
  <2> QED
    BY <2>1 DEF AllBelong, Belongs
<1>1. ASSUME NEW h \in Handlers, MemberReads(h) PROVE AllBelong'
  <2>1. faults = 0
    <3>1. faults' \in {faults, faults + 1}
      BY <1>1, ReadsAlone
    <3> QED
      BY <1>t, <3>1
  <2>2. CASE Crash(h)
    BY <1>t, <2>1, <2>2 DEF Crash
  <2>3. CASE ~Crash(h)
    <3>1. reqs[h].pc \notin {"relabelMember", "wipeUsers"}
      BY <1>1, <2>3, ReadsAlone
    <3> QED
      BY <1>1, <1>s, <2>1, <3>1, ReadsLeave
  <2> QED
    BY <2>2, <2>3
<1>2. ASSUME NEW h \in Handlers,
             \/ UpdateUserRole(h) \/ SuspendUser(h) \/ UnsuspendUser(h) \/ PromoteAdmin(h) \/ DemoteAdmin(h)
             \/ TransferOwnership(h) \/ AcceptInvitation(h) \/ SetPlan(h) \/ CreatePlaceholder(h)
             \/ CreateMembership(h)
      PROVE  AllBelong'
  <2>1. faults = 0 /\ elsewhere' = elsewhere /\ reqs[h].pc \notin {"relabelMember", "wipeUsers"}
    BY <1>2 DEF UpdateUserRole, SuspendUser, UnsuspendUser, PromoteAdmin, DemoteAdmin, TransferOwnership,
       AcceptInvitation, SetPlan, CreatePlaceholder, CreateMembership, Write, Doing
  <2>2. \A i \in Ids : users'[i] = "active" => users[i] = "active"
    <3>1. CASE users' = users
      BY <3>1
    <3>2. CASE users' # users
      <4>1. PICK p \in Ids : users' = [users EXCEPT ![p] = "pending"]
        BY <1>2, <3>2, IdsAssumption DEF UpdateUserRole, SuspendUser, UnsuspendUser, PromoteAdmin, DemoteAdmin,
           TransferOwnership, AcceptInvitation, SetPlan, CreatePlaceholder, CreateMembership
      <4> QED
        BY <1>t, <4>1
    <3> QED
      BY <3>1, <3>2
  <2>3. \A i \in Ids : member[i] # None => member'[i] # None
    <3>1. CASE SetPlan(h) \/ CreatePlaceholder(h)
      BY <3>1, RowsLeft
    <3>2. CASE CreateMembership(h)
      <4>1. CASE member' # member
        <5>1. PICK t \in Ids : member'[t] # None /\ \A j \in Ids \ {t} : member'[j] = member[j]
          BY <3>2, <4>1, RowCreated
        <5> QED
          BY <5>1
      <4> QED
        BY <4>1
    <3>3. CASE TransferOwnership(h)
      <4>1. PICK o, n \in Ids : /\ member'[o] # None /\ member'[n] # None
                                /\ \A j \in Ids \ {o, n} : member'[j] = member[j]
        BY <3>3, OwnershipMoved
      <4> QED
        BY <4>1
    <3>4. CASE ~(SetPlan(h) \/ CreatePlaceholder(h) \/ CreateMembership(h) \/ TransferOwnership(h))
      <4>1. PICK t \in Ids : /\ member[t] # None => member'[t] # None
                             /\ \A j \in Ids \ {t} : member'[j] = member[j]
        BY <1>2, <3>4, RowWritten
      <4> QED
        BY <4>1
    <3> QED
      BY <3>1, <3>2, <3>3, <3>4
  <2>4. Members \cup elsewhere \subseteq Members' \cup elsewhere'
    BY <1>m, <2>1, <2>3
  <2> QED
    BY <1>s, <2>1, <2>2, <2>4
<1>3. ASSUME NEW h \in Handlers, RemoveUser(h) PROVE AllBelong'
  <2> DEFINE t == reqs[h].on
  <2>1. t \in Ids /\ reqs[h].pc = "write"
    BY <1>3, <1>k DEF RemoveUser, Write, Doing, RequestShape
  <2>2. /\ member' = [member EXCEPT ![t] = None] /\ elsewhere' = elsewhere /\ faults = 0
        /\ users' = IF t \notin elsewhere THEN [users EXCEPT ![t] = "none"] ELSE users
    BY <1>3, <1>t DEF RemoveUser
  <2>3. \A i \in Ids : users'[i] = "active" => users[i] = "active" /\ (i = t => i \in elsewhere')
    BY <1>t, <2>1, <2>2
  <2>4. \A i \in Ids \ {t} : i \in Members => i \in Members'
    BY <1>t, <1>m, <2>1, <2>2
  <2> HIDE DEF t
  <2> QED
    BY <1>s, <2>1, <2>2, <2>3, <2>4
<1>4. ASSUME NEW h \in Handlers, LeaveElsewhere(h) PROVE AllBelong'
  <2>1. PICK i \in Ids : /\ elsewhere' = elsewhere \ {i}
                         /\ users' = IF member[i] = None THEN [users EXCEPT ![i] = "none"] ELSE users
    BY <1>4, <1>t DEF LeaveElsewhere
  <2>2. reqs[h].pc = "idle" /\ faults = 0 /\ member' = member
    BY <1>4 DEF LeaveElsewhere, Idle
  <2>3. \A j \in Ids : users'[j] = "active" => users[j] = "active" /\ (j = i => j \in Members')
    BY <1>t, <1>m, <2>1, <2>2
  <2> QED
    BY <1>m, <1>s, <2>1, <2>2, <2>3
<1>12. ASSUME NEW h \in Handlers, StripeSetsPlan(h) PROVE AllBelong'
  <2>1. reqs[h].pc = "idle" /\ faults = 0 /\ users' = users /\ member' = member /\ elsewhere' = elsewhere
    BY <1>12 DEF StripeSetsPlan, Idle
  <2> QED
    BY <1>m, <1>s, <2>1
<1>5. ASSUME NEW h \in Handlers, DenyInvitation(h) PROVE AllBelong'
  <2>1. /\ reqs[h].pc = "answer" /\ reqs[h].by \in Ids /\ reqs[h].by \in elsewhere
    BY <1>5, <1>k DEF DenyInvitation, Doing, RequestShape, RequestKnows
  <2>2. /\ member' = [member EXCEPT ![reqs[h].by] = None] /\ elsewhere' = elsewhere /\ faults = 0 /\ users' = users
    BY <1>5 DEF DenyInvitation
  <2>3. \A i \in Ids \ {reqs[h].by} : i \in Members => i \in Members'
    BY <1>t, <1>m, <2>1, <2>2
  <2> QED
    BY <1>s, <2>1, <2>2, <2>3
<1>6. ASSUME NEW h \in Handlers, RelabelUser(h) PROVE AllBelong'
  <2> DEFINE old == reqs[h].on
             new == reqs[h].by
  <2>1. old \in Ids /\ new \in Ids /\ old # new /\ reqs[h].pc = "relabel"
    BY <1>6, <1>k DEF RelabelUser, Doing, RequestShape
  <2>2. "relabelMember" \in MemberSteps /\ GoOn(h, "relabelMember") /\ faults = 0 /\ member' = member
        /\ elsewhere' = elsewhere
    BY <1>6 DEF RelabelUser, MemberSteps
  <2>3. reqs'[h].pc = "relabelMember" /\ reqs'[h].by = reqs[h].by
    BY <1>t, <2>2, RequestGoes
  <2>4. \A i \in Ids \ {new} : users'[i] = "active" => users[i] = "active"
    BY <1>6, <1>t, <2>1 DEF RelabelUser
  <2>5. \A i \in Ids \ {new} : users'[i] = "active" => i \in Members' \cup elsewhere'
    BY <1>m, <1>n, <2>1, <2>2, <2>4
  <2>6. \A i \in Ids : users'[i] = "active" => (i \in Members' \cup elsewhere' \/ (reqs'[h].pc = "relabelMember" /\ reqs'[h].by = i))
    BY <2>3, <2>5
  <2> QED
    BY <2>6 DEF AllBelong, Belongs
<1>7. ASSUME NEW h \in Handlers, RelabelMemberships(h) PROVE AllBelong'
  <2> DEFINE old == reqs[h].on
             new == reqs[h].by
  <2>1. old \in Ids /\ new \in Ids /\ old # new /\ reqs[h].pc = "relabelMember"
    BY <1>7, <1>k DEF RelabelMemberships, Doing, RequestShape
  <2>2. faults = 0 /\ users' = users
    BY <1>7 DEF RelabelMemberships
  <2>3. users[old] = "none" /\ old \in Members \cup elsewhere
    BY <1>k, <2>1, <2>2 DEF RequestKnows
  <2>4. \A i \in Ids \ {new} : users[i] = "active" => i # old /\ i \in Members \cup elsewhere
    BY <1>z, <2>1, <2>2, <2>3 DEF AllBelong, Belongs, OneRequest
  <2>5. CASE member[old] # None /\ member[new] # None
    <3>1. member' = member /\ elsewhere' = elsewhere
      BY <1>7, <2>1, <2>5 DEF RelabelMemberships
    <3>2. \A i \in Ids : users'[i] = "active" => i \in Members' \cup elsewhere'
      BY <1>m, <2>1, <2>2, <2>4, <2>5, <3>1
    <3> QED
      BY <3>2 DEF AllBelong, Belongs
  <2>6. CASE ~(member[old] # None /\ member[new] # None)
    <3>1. /\ member' = IF member[old] = None THEN member ELSE [member EXCEPT ![new] = member[old], ![old] = None]
          /\ elsewhere' = Rename(elsewhere, old, new)
      BY <1>7, <2>1, <2>6 DEF RelabelMemberships
    <3>2. new \in Members' \cup elsewhere'
      BY <1>t, <1>m, <2>1, <2>3, <3>1 DEF Rename
    <3>3. \A i \in Ids \ {old, new} : i \in Members \cup elsewhere => i \in Members' \cup elsewhere'
      BY <1>t, <1>m, <2>1, <3>1 DEF Rename
    <3>4. \A i \in Ids : users'[i] = "active" => i \in Members' \cup elsewhere'
      BY <2>2, <2>3, <2>4, <3>2, <3>3
    <3> QED
      BY <3>4 DEF AllBelong, Belongs
  <2> QED
    BY <2>5, <2>6
<1>8. ASSUME NEW h \in Handlers, ActivateInvited(h) \/ SignUp(h) PROVE AllBelong'
  <2> DEFINE old == reqs[h].on
             new == reqs[h].by
  <2>1. new \in Ids /\ reqs[h].pc \in {"activate", "signup"} /\ faults = 0
        /\ (reqs[h].pc = "activate" => old \in Ids /\ old # new)
    BY <1>8, <1>k DEF ActivateInvited, SignUp, Doing, RequestShape
  <2>2. CASE users' = users /\ member' = member /\ elsewhere' = elsewhere
    BY <1>m, <1>s, <2>1, <2>2
  <2>3. CASE ~(users' = users /\ member' = member /\ elsewhere' = elsewhere)
    <3>1. /\ elsewhere' = elsewhere \cup {new}
          /\ \A i \in Ids \ {new} : users'[i] = "active" => users[i] = "active" /\ member'[i] = member[i]
      BY <1>8, <1>t, <2>1, <2>3 DEF ActivateInvited, SignUp, Doing
    <3> HIDE DEF new
    <3>2. \A i \in Ids : users'[i] = "active" /\ i \in Members \cup elsewhere => i \in Members' \cup elsewhere'
      BY <1>m, <3>1
    <3> QED
      BY <1>s, <2>1, <3>1, <3>2
  <2> QED
    BY <2>2, <2>3
<1>9. ASSUME NEW h \in Handlers, DeleteMemberships(h) PROVE AllBelong'
  <2>1. "wipeUsers" \in MemberSteps /\ GoOn(h, "wipeUsers") /\ reqs[h].pc = "wipe" /\ faults = 0 /\ users' = users
        /\ elsewhere' = elsewhere
    BY <1>9 DEF DeleteMemberships, MemberSteps, Doing
  <2>2. reqs[h].seen = Members
    BY <1>k, <2>1 DEF RequestKnows
  <2>3. reqs'[h].pc = "wipeUsers" /\ reqs'[h].seen = Members
    BY <1>t, <2>1, <2>2, RequestGoes
  <2>4. \A i \in Ids : users'[i] = "active" => (i \in elsewhere' \/ (reqs'[h].pc = "wipeUsers" /\ i \in reqs'[h].seen))
    BY <1>n, <2>1, <2>3
  <2> QED
    BY <2>4 DEF AllBelong, Belongs
<1>10. ASSUME NEW h \in Handlers, DeleteUsers(h) PROVE AllBelong'
  <2>1. reqs[h].pc = "wipeUsers" /\ faults = 0 /\ elsewhere' = elsewhere
        /\ users' = [i \in Ids |-> IF i \in reqs[h].seen \ (elsewhere \cup Members) THEN "none" ELSE users[i]]
    BY <1>10 DEF DeleteUsers, Doing
  <2>2. Members = {}
    BY <1>k, <2>1 DEF RequestKnows
  <2>3. \A i \in Ids : users[i] = "active" => i \in elsewhere \cup reqs[h].seen
    BY <1>z, <2>1, <2>2 DEF AllBelong, Belongs, OneRequest
  <2>4. \A i \in Ids : users'[i] = "active" => i \in elsewhere'
    BY <2>1, <2>2, <2>3
  <2> QED
    BY <2>4 DEF AllBelong, Belongs
<1>11. CASE UNCHANGED memberVars
  BY <1>11, <1>z DEF memberVars, AllBelong, Belongs, Members
<1> QED
  BY <1>1, <1>2, <1>3, <1>4, <1>5, <1>6, <1>7, <1>8, <1>9, <1>10, <1>11, <1>12, MemberStepKinds DEF MemberWrites

LEMMA MembersInitial == ASSUME InitMembers PROVE MembersInv
<1>1. [role |-> "owner", status |-> "active"] \in Memberships
  BY DEF Memberships, Roles, Statuses
<1>2. Idle \in MemberRequest /\ Idle.pc = "idle"
  BY DEF Idle, MemberRequest, MemberSteps
<1>3. Founder \in Ids /\ Guests \subseteq Ids
  BY IdsAssumption
<1>t. MemberTypes
  BY <1>1, <1>2, <1>3, PlansAssumption DEF InitMembers, MemberTypes
<1>k. \A h \in Handlers : RequestShape(reqs[h]) /\ RequestKnows(reqs[h])
  BY <1>2 DEF InitMembers, RequestShape, RequestKnows
<1>4. member[Founder] = [role |-> "owner", status |-> "active"] /\ member[Founder] # None
      /\ \A i \in Ids \ {Founder} : member[i] = None
  BY <1>1, <1>3, NoneAssumption DEF InitMembers
<1>5. Members = {Founder}
  BY <1>3, <1>4 DEF Members
<1>6. Owners = {Founder} /\ member[Founder].status = "active"
  BY <1>4, <1>5 DEF Owners
<1>7. Owned
  BY <1>6 DEF Owned
<1>8. EmailsUnique
  BY <1>3, EmailsAssumption DEF InitMembers, EmailsUnique
<1>9. \A i \in Ids : users[i] = "active" => Belongs(i)
  <2>1. \A i \in Ids : users[i] = "active" => i \in Members \cup elsewhere
    BY <1>3, <1>5 DEF InitMembers
  <2> QED
    BY <2>1 DEF Belongs
<1>10. IsFiniteSet(Members)
  BY <1>5, FS_Singleton
<1> QED
  BY <1>t, <1>k, <1>7, <1>8, <1>9, <1>10 DEF MembersInv

LEMMA MembersInductive ==
    ASSUME OneRequest
    PROVE  SpecMembers => []MembersInv
<1>1. InitMembers => MembersInv
  BY MembersInitial
<1>2. MembersInv /\ [NextMembers]_memberVars => MembersInv'
  <2> SUFFICES ASSUME MembersInv, [NextMembers]_memberVars PROVE MembersInv'
    OBVIOUS
  <2>1. MemberTypes' /\ (\A h \in Handlers : RequestShape(reqs[h]))'
    BY MemberTypesStep DEF MembersInv
  <2>2. (\A h \in Handlers : RequestKnows(reqs[h]))'
    BY KnowsStep
  <2>3. (faults = 0 => \A i \in Ids : users[i] = "active" => Belongs(i))'
    BY BelongStep DEF AllBelong
  <2> QED
    BY <2>1, <2>2, <2>3, EmailsStep, OwnedStep, LimitStep DEF MembersInv
<1> QED
  BY <1>1, <1>2, PTL DEF SpecMembers

\* While the requests of a tenant do not overlap, it has exactly one owner,
\* who is active, for as long as it has members, and every active user is a
\* member of some tenant between requests: the guards of handleUpdateUserRole,
\* handleSuspendUser, handleRemoveUser, handleTransferOwnership, handleAuthSync
\* and handleDeleteAccount together, for any number of users and requests.
THEOREM OneOwnerAndNobodyLeftOver ==
    ASSUME OneRequest
    PROVE  SpecMembers => []OwnedAndBelonging
<1>1. MembersInv => OwnedAndBelonging
  <2> SUFFICES ASSUME MembersInv PROVE OwnedAndBelonging
    OBVIOUS
  <2>1. ASSUME Quiet, faults = 0, NEW i \in Ids, users[i] = "active" PROVE i \in Members \cup elsewhere
    <3>1. \A h \in Handlers : reqs[h].pc = "idle"
      BY <2>1 DEF Quiet, Idle
    <3> QED
      BY <2>1, <3>1 DEF MembersInv, Belongs
  <2> QED
    BY <2>1 DEF MembersInv, Owned, OwnedAndBelonging
<1> QED
  BY <1>1, MembersInductive, PTL

\* While the requests of a tenant do not overlap, no step of invitations,
\* sign-ins, removals and the rest leaves more members than the plan allows
\* where there were fewer, and the operators choose no plan that is too small:
\* the counts of handleInviteUser and applyPlanChange are still right when they
\* are used, unless the count failed, and whatever Stripe did to the plan.
THEOREM InvitationsKeepTheLimit ==
    ASSUME OneRequest
    PROVE  SpecMembers => MembersWithinLimit
<1>1. MembersInv /\ [NextMembers]_memberVars => [LimitKept]_memberVars
  BY LimitStep
<1> QED
  BY <1>1, MembersInductive, PTL DEF MembersWithinLimit, LimitKept, SpecMembers

\* While the requests of a tenant do not overlap, no answer to an invitation
\* and no sign-in lifts a suspension: only handleUnsuspendUser does.
THEOREM SuspensionsAreLiftedByAdminsOnly ==
    ASSUME OneRequest
    PROVE  SpecMembers => SuspensionHolds
<1> DEFINE Kept == \A i \in Members : member[i].status = "suspended" /\ member'[i] # None =>
                      \/ member'[i].status # "active"
                      \/ \E h \in Handlers : Write(h, "unsuspend") /\ reqs[h].on = i
<1>1. MembersInv /\ [NextMembers]_memberVars => Kept
  <2> SUFFICES ASSUME MembersInv, [NextMembers]_memberVars PROVE Kept
    OBVIOUS
  <2>m. Members = {i \in Ids : member[i] # None}
    BY DEF Members
  <2>s. ASSUME member' = member PROVE Kept
    BY <2>s
  <2>1. ASSUME NEW h \in Handlers,
               \/ UpdateUserRole(h) \/ SuspendUser(h) \/ UnsuspendUser(h) \/ PromoteAdmin(h) \/ DemoteAdmin(h)
               \/ AcceptInvitation(h)
        PROVE  Kept
    <3>1. PICK t \in Ids :
             /\ \A j \in Ids \ {t} : member'[j] = member[j]
             /\ member[t] # None /\ member[t].status = "suspended" /\ member'[t].status = "active" =>
                  Write(h, "unsuspend") /\ reqs[h].on = t
      BY <2>1, RowWritten
    <3> QED
      BY <2>m, <3>1
  <2>2. ASSUME NEW h \in Handlers, TransferOwnership(h) PROVE Kept
    <3>1. PICK o, n \in Ids :
             /\ member'[o].status = member[o].status /\ member'[n].status = member[n].status
             /\ \A j \in Ids \ {o, n} : member'[j] = member[j]
      BY <2>2, OwnershipMoved
    <3> QED
      BY <2>m, <3>1
  <2>3. ASSUME NEW h \in Handlers, RemoveUser(h) \/ DenyInvitation(h) PROVE Kept
    <3>1. PICK t \in Ids : member'[t] = None /\ \A j \in Ids \ {t} : member'[j] = member[j]
      BY <2>3, RowDeleted
    <3> QED
      BY <2>m, <3>1
  <2>4. ASSUME NEW h \in Handlers, RelabelMemberships(h) \/ ActivateInvited(h) PROVE Kept
    <3>1. CASE member' # member
      <4>1. PICK old, new \in Ids : /\ member[new] = None /\ member'[old] = None
                                    /\ \A j \in Ids \ {old, new} : member'[j] = member[j]
        BY <2>4, <3>1, RowMoved
      <4> QED
        BY <2>m, <4>1
    <3> QED
      BY <3>1, <2>s
  <2>5. ASSUME NEW h \in Handlers, CreateMembership(h) PROVE Kept
    <3>1. CASE member' # member
      <4>1. PICK t \in Ids : member[t] = None /\ \A j \in Ids \ {t} : member'[j] = member[j]
        BY <2>5, <3>1, RowCreated
      <4> QED
        BY <2>m, <4>1
    <3> QED
      BY <3>1, <2>s
  <2>6. ASSUME NEW h \in Handlers, DeleteMemberships(h) PROVE Kept
    BY <2>6, <2>m DEF DeleteMemberships
  <2>7. ASSUME NEW h \in Handlers,
               \/ MemberReads(h) \/ LeaveElsewhere(h) \/ CreatePlaceholder(h) \/ RelabelUser(h) \/ SignUp(h)
               \/ SetPlan(h) \/ StripeSetsPlan(h) \/ DeleteUsers(h)
        PROVE  Kept
    BY <2>7, <2>s, RowsLeft
  <2>8. CASE UNCHANGED memberVars
    BY <2>8, <2>s DEF memberVars
  <2> QED
    BY <2>1, <2>2, <2>3, <2>4, <2>5, <2>6, <2>7, <2>8, MemberStepKinds DEF MemberWrites
<1>2. MembersInv /\ [NextMembers]_memberVars => [Kept]_memberVars
  BY <1>1
<1> QED
  BY <1>2, MembersInductive, PTL DEF SuspensionHolds, SpecMembers


=============================================================================

---------------------------- MODULE LimitConfig -----------------------------
(***************************************************************************)
(* A tenant's rate limits (api/ratelimits.go) and budget limits            *)
(* (api/pricing.go), and the copy in Redis that every request of the       *)
(* gateway reads them through (loadLimits of ratelimit/limiter.go,         *)
(* loadBudgetLimits of pricing/engine.go).  The resolved prices of         *)
(* pricing/resolver.go are read through such a copy too, which no change   *)
(* of a price deletes.  A behaviour is about one of the three tables.      *)
(*                                                                         *)
(* One step is one SQL statement or one Redis command.  A slot is the      *)
(* unique index of the table: scope, provider, model and metric of a rate  *)
(* limit; scope, period and provider of a budget.  Of a row its id and its *)
(* enabled flag are kept.  The checks of the request against the plan's    *)
(* features come before everything else and are left out; so is the audit. *)
(***************************************************************************)
EXTENDS Integers, Sequences, FiniteSets

CONSTANTS
  Slot,         \* values of the unique index
  NoSlot,       \* no slot
  Reader,       \* requests of the gateway that may run at a time
  Admin,        \* administrative requests that may run at a time
  Asked,        \* values of "enabled" in the requests
  MaxLimits,    \* MaxRateLimits, MaxBudgetLimits of the plan
  CopyTTL,      \* 60 s, in ticks
  ReadDelay,    \* longest time from the SELECT to the SET after it
  MaxTime,      \* bound: ticks
  MaxRequests,  \* bound: administrative requests
  MaxFailures   \* bound: failed statements and commands

ASSUME LimitAssumption ==
  /\ IsFiniteSet(Slot) /\ NoSlot \notin Slot
  /\ Reader \cap Admin = {} /\ IsFiniteSet(Admin) /\ Admin # {}
  /\ Asked \subseteq BOOLEAN
  /\ MaxLimits \in Nat /\ CopyTTL \in Nat \ {0} /\ ReadDelay \in Nat
  /\ MaxTime \in Nat /\ MaxRequests \in Nat /\ MaxFailures \in Nat

VARIABLES
  table,     \* which table: "rate", "budget" or "price"
  row,       \* [Slot -> row of the table or NoRow]
  ids,       \* ids given out so far
  copy,      \* the copy in Redis, there until its TTL ends
  call,      \* where a request is and what it has read
  clock,
  requests,  \* administrative requests begun
  failures,  \* failures so far
  writes     \* history: when the table was written

tableVars == <<row, ids, writes>>
vars == <<table, tableVars, copy, call, clock, requests, failures>>

Table == {"rate", "budget", "price"}
NoRow == [id |-> 0, on |-> FALSE]
Row == [id : Nat, on : BOOLEAN]
Version == Len(writes)
NoCopy == [until |-> 0, version |-> 0]
Call == Reader \cup Admin
Ready == [pc |-> "ready", slot |-> NoSlot, id |-> 0, on |-> FALSE, version |-> 0, at |-> 0]
Inserting == {"save", "first", "assign", "create"}
Step == {"ready", "get", "load", "store", "find", "count", "lookup", "remove", "price", "del"} \cup Inserting

Rows == {s \in Slot : row[s] # NoRow}

\* At the start the tenant may have a limit.
Init ==
  /\ table \in Table
  /\ \E first \in Slot \cup {NoSlot} :
        row = [s \in Slot |-> IF s = first THEN [id |-> 1, on |-> TRUE] ELSE NoRow]
  /\ Cardinality(Rows) <= (IF table = "price" THEN 0 ELSE MaxLimits) /\ ids = 1
  /\ copy = NoCopy
  /\ call = [c \in Call |-> Ready]
  /\ clock = 0 /\ requests = 0 /\ failures = 0
  /\ writes = <<>>

At(c, pc) == call[c].pc = pc
Goto(c, pc) == call' = [call EXCEPT ![c].pc = pc]
Return(c) == call' = [call EXCEPT ![c] = Ready]

\* A statement that changed the table.
Wrote == writes' = Append(writes, clock)

-----------------------------------------------------------------------------
(* loadLimits, loadBudgetLimits, Resolve. *)

Ask(c) ==
  /\ At(c, "ready")
  /\ Goto(c, "get")
  /\ UNCHANGED <<table, tableVars, copy, clock, requests, failures>>

Cached == clock < copy.until

\* The request goes on with the copy.
Hit(c) ==
  /\ At(c, "get") /\ Cached
  /\ Return(c)
  /\ UNCHANGED <<table, tableVars, copy, clock, requests, failures>>

Miss(c) ==
  /\ At(c, "get") /\ ~Cached
  /\ Goto(c, "load")
  /\ UNCHANGED <<table, tableVars, copy, clock, requests, failures>>

Load(c) ==
  /\ At(c, "load")
  /\ call' = [call EXCEPT ![c].pc = "store", ![c].version = Version, ![c].at = clock]
  /\ UNCHANGED <<table, tableVars, copy, clock, requests, failures>>

\* Mutant: SET with expiration 0, which means none.
StoreForever(c) ==
  /\ At(c, "store")
  /\ copy' = [until |-> MaxTime + 1, version |-> call[c].version]
  /\ Return(c)
  /\ UNCHANGED <<table, tableVars, clock, requests, failures>>

\* SET with the TTL; the request goes on with what it loaded.
Store(c) ==
  /\ At(c, "store")
  /\ copy' = [until |-> clock + CopyTTL, version |-> call[c].version]
  /\ Return(c)
  /\ UNCHANGED <<table, tableVars, clock, requests, failures>>

-----------------------------------------------------------------------------
(* handleUpsertRateLimit, handleUpsertBudget. *)

Request(a, r) ==
  /\ At(a, "ready") /\ requests < MaxRequests
  /\ requests' = requests + 1
  /\ call' = [call EXCEPT ![a] = r]
  /\ UNCHANGED <<table, tableVars, copy, clock, failures>>

Upsert(a) ==
  /\ table # "price"
  /\ \E s \in Slot, on \in Asked : Request(a, [Ready EXCEPT !.pc = "find", !.slot = s, !.on = on])

Mine(a) == row[call[a].slot]

\* An update of an existing row is not counted.
Find(a) ==
  /\ At(a, "find")
  /\ IF Mine(a) = NoRow THEN Goto(a, "count")
     ELSE call' = [call EXCEPT ![a].pc = IF table = "rate" THEN "save" ELSE "first",
                               ![a].id = Mine(a).id]
  /\ UNCHANGED <<table, tableVars, copy, clock, requests, failures>>

Counted(a) == Goto(a, IF table = "rate" THEN "create" ELSE "first")

\* Mutant: one more than the plan allows.
CountLimitsInclusive(a) ==
  /\ At(a, "count")
  /\ IF Cardinality(Rows) <= MaxLimits THEN Counted(a) ELSE Return(a)
  /\ UNCHANGED <<table, tableVars, copy, clock, requests, failures>>

CountLimits(a) ==
  /\ At(a, "count")
  /\ IF Cardinality(Rows) < MaxLimits THEN Counted(a) ELSE Return(a)
  /\ UNCHANGED <<table, tableVars, copy, clock, requests, failures>>

\* The row of the slot is written, and the copy deleted next.
Put(a, r) ==
  /\ row' = [row EXCEPT ![call[a].slot] = r]
  /\ Wrote
  /\ Goto(a, "del")

\* gorm's INSERT takes FALSE for "not given": the column's default is TRUE.
Insert(a, id) == Put(a, [id |-> id, on |-> TRUE])

\* gorm's Save: UPDATE by id, and when no row has it an INSERT of the same id,
\* which the unique index refuses if the slot was given to another row.
Save(a) ==
  /\ At(a, "save")
  /\ \/ Mine(a).id = call[a].id /\ Put(a, [id |-> call[a].id, on |-> call[a].on])
     \/ Mine(a) = NoRow /\ Insert(a, call[a].id)
     \/ Mine(a).id \notin {0, call[a].id} /\ Return(a) /\ UNCHANGED <<row, writes>>
  /\ UNCHANGED <<table, ids, copy, clock, requests, failures>>

\* FirstOrCreate: its own SELECT.
First(a) ==
  /\ At(a, "first")
  /\ IF Mine(a) = NoRow THEN Goto(a, "create")
     ELSE call' = [call EXCEPT ![a].pc = "assign", ![a].id = Mine(a).id]
  /\ UNCHANGED <<table, tableVars, copy, clock, requests, failures>>

\* ... its UPDATE by id, of the fields that are not zero: FALSE is not stored.
\* The second UPDATE, for when no row was affected, affects none either.
Assign(a) ==
  /\ At(a, "assign")
  /\ \/ Mine(a).id = call[a].id /\ Put(a, [Mine(a) EXCEPT !.on = @ \/ call[a].on])
     \/ Mine(a).id # call[a].id /\ Goto(a, "del") /\ UNCHANGED <<row, writes>>
  /\ UNCHANGED <<table, ids, copy, clock, requests, failures>>

\* The INSERT, which the unique index may refuse.
Create(a) ==
  /\ At(a, "create")
  /\ \/ /\ Mine(a) = NoRow
        /\ ids' = ids + 1
        /\ Insert(a, ids + 1)
     \/ Mine(a) # NoRow /\ Return(a) /\ UNCHANGED tableVars
  /\ UNCHANGED <<table, copy, clock, requests, failures>>

-----------------------------------------------------------------------------
(* handleDeleteRateLimit, handleDeleteBudget; InvalidateCache. *)

\* By the id of a row on the dashboard's list.
Delete(a) ==
  \E s \in Rows :
    Request(a, [Ready EXCEPT !.pc = IF table = "rate" THEN "lookup" ELSE "remove",
                             !.slot = s, !.id = row[s].id])

Lookup(a) ==
  /\ At(a, "lookup")
  /\ IF Mine(a).id = call[a].id THEN Goto(a, "remove") ELSE Return(a)
  /\ UNCHANGED <<table, tableVars, copy, clock, requests, failures>>

\* A budget that is gone is answered with 404, and the copy stays.
Remove(a) ==
  /\ At(a, "remove")
  /\ \/ Mine(a).id = call[a].id /\ Put(a, NoRow)
     \/ Mine(a).id # call[a].id /\ table = "rate" /\ Goto(a, "del") /\ UNCHANGED <<row, writes>>
     \/ Mine(a).id # call[a].id /\ table = "budget" /\ Return(a) /\ UNCHANGED <<row, writes>>
  /\ UNCHANGED <<table, ids, copy, clock, requests, failures>>

\* A price, a contract, a rate or an assignment of a configuration changes
\* (PricingConfigs): nothing is invalidated.
ChangePrice(a) == table = "price" /\ Request(a, [Ready EXCEPT !.pc = "price"])

WritePrice(a) ==
  /\ At(a, "price")
  /\ Wrote
  /\ Return(a)
  /\ UNCHANGED <<table, row, ids, copy, clock, requests, failures>>

InvalidateCache(a) ==
  /\ At(a, "del")
  /\ copy' = NoCopy
  /\ Return(a)
  /\ UNCHANGED <<table, tableVars, clock, requests, failures>>

-----------------------------------------------------------------------------
(* Time and failures. *)

\* The SET follows its SELECT within ReadDelay.
Tick ==
  /\ clock < MaxTime
  /\ \A c \in Reader : At(c, "store") => clock < call[c].at + ReadDelay
  /\ clock' = clock + 1
  /\ UNCHANGED <<table, tableVars, copy, call, requests, failures>>

Failure == failures < MaxFailures /\ failures' = failures + 1

\* GET fails and Postgres decides; a failed SET or DEL is not noticed.
CommandFails(c) ==
  /\ Failure
  /\ \/ At(c, "get") /\ Goto(c, "load")
     \/ (At(c, "store") \/ At(c, "del")) /\ Return(c)
  /\ UNCHANGED <<table, tableVars, copy, clock, requests>>

\* Any error of the first SELECT means "new", and a failed count is 0.
ReadFails(a) ==
  /\ Failure
  /\ \/ At(a, "find") /\ Goto(a, "count")
     \/ At(a, "count") /\ MaxLimits > 0 /\ Counted(a)
  /\ UNCHANGED <<table, tableVars, copy, clock, requests>>

\* Any other statement fails, or the request dies before it.
StatementFails(c) ==
  /\ Failure
  /\ call[c].pc \notin {"ready", "get", "store"}
  /\ Return(c)
  /\ UNCHANGED <<table, tableVars, copy, clock, requests>>

-----------------------------------------------------------------------------
Read(c) == Ask(c) \/ Hit(c) \/ Miss(c) \/ Load(c) \/ Store(c)

Administer(a) ==
  \/ Upsert(a) \/ Find(a) \/ CountLimits(a) \/ Save(a) \/ First(a) \/ Assign(a) \/ Create(a)
  \/ Delete(a) \/ Lookup(a) \/ Remove(a) \/ ChangePrice(a) \/ WritePrice(a) \/ InvalidateCache(a)

Next ==
  \/ \E c \in Reader : Read(c)
  \/ \E a \in Admin : Administer(a) \/ ReadFails(a)
  \/ \E c \in Call : CommandFails(c) \/ StatementFails(c)
  \/ Tick

Spec == Init /\ [][Next]_vars

-----------------------------------------------------------------------------
(* Properties. *)

\* The state keeps its shape; a request at work on a row names its slot.
TypeOK ==
  /\ table \in Table
  /\ row \in [Slot -> Row] /\ ids \in Nat
  /\ copy \in [until : Nat, version : Nat]
  /\ call \in [Call -> [pc : Step, slot : Slot \cup {NoSlot}, id : Nat, on : BOOLEAN,
                        version : Nat, at : Nat]]
  /\ \A c \in Call :
        /\ c \in Admin \/ call[c].pc \in {"ready", "get", "load", "store"}
        /\ call[c].pc \in Inserting \cup {"find", "count", "lookup", "remove"} => call[c].slot \in Slot
  /\ clock \in Nat /\ requests \in Nat /\ failures \in Nat
  /\ writes \in Seq(Nat)

\* What was loaded as version v may still be acted upon.
Fresh(v) == v = Version \/ clock <= writes[v + 1] + CopyTTL + ReadDelay

\* The copies of loadLimits, loadBudgetLimits and Resolve: however changes,
\* deletions of the copy, lost DELs and SETs of rows read earlier interleave, no
\* request is decided by limits or prices that were replaced more than one TTL
\* and one request ago.
LimitsFresh ==
  /\ Cached => Fresh(copy.version)
  /\ \A c \in Reader : At(c, "store") => Fresh(call[c].version)

\* MaxRateLimits and MaxBudgetLimits: the count and the INSERT are separate
\* statements, and Save or FirstOrCreate may insert a row again that was found
\* and deleted since; still a tenant has at most one row more than the plan allows
\* for every other request at work at the time, and one per failed count.
LimitsWithinPlan == Cardinality(Rows) <= MaxLimits + Cardinality(Admin) - 1 + failures

-----------------------------------------------------------------------------
(* What the documents and comments say and the code does not keep. *)

\* "enabled" of the request (pricing.go:472 "nil = default true"): an upsert
\* that reaches the DEL has stored it, when no other request came in between.
EnabledStored ==
  Cardinality(Admin) = 1 =>
    \A a \in Admin : At(a, "del") /\ Mine(a) # NoRow /\ Mine(a).id = call[a].id => Mine(a).on = call[a].on

\* InvalidateCache "removes the cached rate limit config": once it has, no
\* request uses limits that were replaced before.
InvalidatedAtOnce ==
  (\A a \in Admin : At(a, "ready")) /\ failures = 0 /\ Cached => copy.version = Version
=============================================================================

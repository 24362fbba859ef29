------------------------------ MODULE ApiKeys -------------------------------
(***************************************************************************)
(* The gateway keys of one tenant: services/apikey_service.go,             *)
(* api/apikeys.go, and the middleware and proxy code that depend on them.  *)
(*                                                                         *)
(* Postgres holds the keys.  ValidateKey, run for every request of the     *)
(* gateway, reads a copy from Redis first and falls back to Postgres,      *)
(* after which it writes the copy with a TTL.  CreateKey writes a copy at  *)
(* once, RevokeKey deletes it after the update, and the deletion of the    *)
(* account revokes every key and leaves the copies alone.                  *)
(*                                                                         *)
(* One step is one statement on Postgres or one Redis command.  Secrets,   *)
(* labels, scopes, last_seen_at and the pricing assignment that RevokeKey  *)
(* deletes are left out; the secret is always the right one.               *)
(***************************************************************************)
EXTENDS Integers, FiniteSets

CONSTANTS
    Keys,         \* identities of keys
    NoKey,        \* no key
    Validators,   \* requests of the gateway that may run at a time
    Admins,       \* administrative requests that may run at a time
    TTL,          \* cacheTTL, in ticks
    Delay,        \* longest time from a statement to the cache write after it
    Lifetimes,    \* after how many ticks a key may be made to expire
    MaxAPIKeys,   \* the limit of the tenant's plan
    MaxTime,      \* bound: ticks
    MaxOps,       \* bound: administrative requests
    MaxFaults     \* bound: failed statements and commands, dead requests

ASSUME KeysAssumption == NoKey \notin Keys /\ Validators \cap Admins = {}

ASSUME TimesAssumption == /\ TTL \in Nat \ {0} /\ Delay \in Nat
                          /\ Lifetimes \subseteq Nat /\ MaxTime \in Nat

ASSUME BoundsAssumption == MaxAPIKeys \in Nat /\ MaxOps \in Nat /\ MaxFaults \in Nat

VARIABLES
    row,        \* row[k]: "absent", "live" or "revoked"
    expires,    \* expires[k]: expires_at; Never for a key that does not expire
    listed,     \* listed[k]: the key has a model allowlist
    cache,      \* cache[k]: the copy in Redis, present until its TTL ends
    call,       \* call[c]: where a request is and what it has read
    now,        \* the clock
    ops,        \* administrative requests begun
    faults,     \* failures so far
    revokedAt   \* history: when a key was revoked

vars == <<row, expires, listed, cache, call, now, ops, faults, revokedAt>>

Never == MaxTime + 1
Calls == Validators \cup Admins

\* apiKeyCacheData: the copy has no place for the allowlist.
Uncached == [until |-> 0, expires |-> 0]
Copies == [until : Nat, expires : Nat]
Cached(k) == now < cache[k].until

Idle == [pc |-> "idle", key |-> NoKey, at |-> 0, outside |-> FALSE]
Steps == {"idle", "get", "db", "keep", "count", "recount", "insert", "store", "update", "del"}
CallStates == [pc : Steps, key : Keys \cup {NoKey}, at : Nat, outside : BOOLEAN]

\* expires_at.Before(now).
Past(t) == t < now

\* "revoked = false AND (expires_at IS NULL OR expires_at > NOW())".
ActiveKeys == {k \in Keys : row[k] = "live" /\ expires[k] > now}

Init ==
    /\ row = [k \in Keys |-> "absent"]
    /\ expires = [k \in Keys |-> 0]
    /\ listed = [k \in Keys |-> FALSE]
    /\ cache = [k \in Keys |-> Uncached]
    /\ call = [c \in Calls |-> Idle]
    /\ now = 0
    /\ ops = 0
    /\ faults = 0
    /\ revokedAt = [k \in Keys |-> 0]

Finish(c) == call' = [call EXCEPT ![c] = Idle]
Goto(c, pc) == call' = [call EXCEPT ![c].pc = pc]
At(c, pc) == call[c].pc = pc

Rows == <<row, expires, listed, revokedAt>>

-----------------------------------------------------------------------------
(* ValidateKey and the allowlist check of the handler behind it. *)

\* A request of the gateway, for a model on or outside the key's allowlist.
Present(v) ==
    /\ call[v] = Idle
    /\ \E k \in Keys, out \in BOOLEAN :
          /\ row[k] # "absent"
          /\ call' = [call EXCEPT ![v] = [Idle EXCEPT !.pc = "get", !.key = k, !.outside = out]]
    /\ UNCHANGED <<Rows, cache, now, ops, faults>>

GoodCopy(k) == Cached(k) /\ ~Past(cache[k].expires)

\* A hit decides alone.  The key it returns has no allowlist.
ServeCached(v) ==
    /\ At(v, "get")
    /\ GoodCopy(call[v].key)
    /\ Finish(v)
    /\ UNCHANGED <<Rows, cache, now, ops, faults>>

RefuseCached(v) ==
    /\ At(v, "get")
    /\ Cached(call[v].key) /\ ~GoodCopy(call[v].key)
    /\ Finish(v)
    /\ UNCHANGED <<Rows, cache, now, ops, faults>>

Miss(v) ==
    /\ At(v, "get")
    /\ ~Cached(call[v].key)
    /\ Goto(v, "db")
    /\ UNCHANGED <<Rows, cache, now, ops, faults>>

\* Mutant: the revoked column is not looked at.
GoodRowRevoked(k) == row[k] # "absent" /\ ~Past(expires[k])

GoodRow(k) == row[k] = "live" /\ ~Past(expires[k])

ReadRow(v) ==
    /\ At(v, "db")
    /\ GoodRow(call[v].key)
    /\ call' = [call EXCEPT ![v].pc = "keep", ![v].at = now]
    /\ UNCHANGED <<Rows, cache, now, ops, faults>>

RefuseRow(v) ==
    /\ At(v, "db")
    /\ ~GoodRow(call[v].key)
    /\ Finish(v)
    /\ UNCHANGED <<Rows, cache, now, ops, faults>>

\* cacheKey: SET with the TTL.
Copy(k) == [until |-> now + TTL, expires |-> expires[k]]

\* The request goes on with the row just read, which has the allowlist.
ServeRow(v) ==
    /\ At(v, "keep")
    /\ cache' = [cache EXCEPT ![call[v].key] = Copy(call[v].key)]
    /\ Finish(v)
    /\ UNCHANGED <<Rows, now, ops, faults>>

-----------------------------------------------------------------------------
(* CreateKey: both the handler and the service count the active keys. *)

RequestCreate(a) ==
    /\ call[a] = Idle /\ ops < MaxOps
    /\ ops' = ops + 1
    /\ call' = [call EXCEPT ![a] = [Idle EXCEPT !.pc = "count"]]
    /\ UNCHANGED <<Rows, cache, now, faults>>

HasRoom == Cardinality(ActiveKeys) < MaxAPIKeys

\* A key of the kind BYOK also needs an active provider key.
CountKeys(a) ==
    /\ At(a, "count")
    /\ \/ HasRoom /\ Goto(a, "recount")
       \/ Finish(a)
    /\ UNCHANGED <<Rows, cache, now, ops, faults>>

RecountKeys(a) ==
    /\ At(a, "recount")
    /\ IF HasRoom THEN Goto(a, "insert") ELSE Finish(a)
    /\ UNCHANGED <<Rows, cache, now, ops, faults>>

Inserted(a, k) == call' = [call EXCEPT ![a].pc = "store", ![a].key = k, ![a].at = now]

InsertKey(a) ==
    /\ At(a, "insert")
    /\ \E k \in Keys, e \in {now + d : d \in Lifetimes} \cup {Never}, l \in BOOLEAN :
          /\ row[k] = "absent"
          /\ row' = [row EXCEPT ![k] = "live"]
          /\ expires' = [expires EXCEPT ![k] = e]
          /\ listed' = [listed EXCEPT ![k] = l]
          /\ Inserted(a, k)
    /\ UNCHANGED <<cache, now, ops, faults, revokedAt>>

StoreCopy(a) ==
    /\ At(a, "store")
    /\ cache' = [cache EXCEPT ![call[a].key] = Copy(call[a].key)]
    /\ Finish(a)
    /\ UNCHANGED <<Rows, now, ops, faults>>

-----------------------------------------------------------------------------
(* RevokeKey, and the account's deletion. *)

RequestRevoke(a) ==
    /\ call[a] = Idle /\ ops < MaxOps
    /\ ops' = ops + 1
    /\ \E k \in Keys : /\ row[k] # "absent"
                       /\ call' = [call EXCEPT ![a] = [Idle EXCEPT !.pc = "update", !.key = k]]
    /\ UNCHANGED <<Rows, cache, now, faults>>

Revoke(set) ==
    /\ row' = [k \in Keys |-> IF k \in set THEN "revoked" ELSE row[k]]
    /\ revokedAt' = [k \in Keys |-> IF k \in set /\ row[k] # "revoked" THEN now ELSE revokedAt[k]]

UpdateRevoked(a) ==
    /\ At(a, "update")
    /\ Revoke({call[a].key})
    /\ Goto(a, "del")
    /\ UNCHANGED <<expires, listed, cache, now, ops, faults>>

DeleteCopy(a) ==
    /\ At(a, "del")
    /\ cache' = [cache EXCEPT ![call[a].key] = Uncached]
    /\ Finish(a)
    /\ UNCHANGED <<Rows, now, ops, faults>>

\* handleDeleteAccount: one UPDATE for all keys of the tenant.
RevokeAll(a) ==
    /\ call[a] = Idle /\ ops < MaxOps
    /\ ops' = ops + 1
    /\ Revoke({k \in Keys : row[k] # "absent"})
    /\ UNCHANGED <<expires, listed, cache, call, now, faults>>

-----------------------------------------------------------------------------
(* Time and failures. *)

\* A cache write follows its statement within Delay.
Tick ==
    /\ now < MaxTime
    /\ \A c \in Calls : call[c].pc \in {"keep", "store"} => now < call[c].at + Delay
    /\ now' = now + 1
    /\ UNCHANGED <<Rows, cache, call, ops, faults>>

Fault == faults < MaxFaults /\ faults' = faults + 1

\* GET fails and Postgres decides; SET and DEL fail unseen.
CommandFails(c) ==
    /\ Fault
    /\ \/ At(c, "get") /\ Goto(c, "db")
       \/ call[c].pc \in {"keep", "store", "del"} /\ Finish(c)
    /\ UNCHANGED <<Rows, cache, now, ops>>

\* A statement fails, or the request dies before it.
StatementFails(c) ==
    /\ Fault
    /\ call[c].pc \in {"db", "count", "recount", "insert", "update"}
    /\ Finish(c)
    /\ UNCHANGED <<Rows, cache, now, ops>>

\* The error of a count is not looked at: the count is 0.
CountFails(a) ==
    /\ Fault
    /\ 0 < MaxAPIKeys
    /\ \/ At(a, "count") /\ Goto(a, "recount")
       \/ At(a, "recount") /\ Goto(a, "insert")
    /\ UNCHANGED <<Rows, cache, now, ops>>

Validate(v) == \/ Present(v) \/ ServeCached(v) \/ RefuseCached(v) \/ Miss(v)
               \/ ReadRow(v) \/ RefuseRow(v) \/ ServeRow(v)

Administer(a) == \/ RequestCreate(a) \/ CountKeys(a) \/ RecountKeys(a) \/ InsertKey(a)
                 \/ StoreCopy(a) \/ RequestRevoke(a) \/ UpdateRevoked(a) \/ DeleteCopy(a)
                 \/ RevokeAll(a)

Next == \/ \E v \in Validators : Validate(v)
        \/ \E a \in Admins : Administer(a)
        \/ Tick
        \/ \E c \in Calls : CommandFails(c) \/ StatementFails(c)
        \/ \E a \in Admins : CountFails(a)

Spec == Init /\ [][Next]_vars

-----------------------------------------------------------------------------
(* Properties. *)

\* The state keeps its shape; a request at work on a key names it.
TypeOK ==
    /\ row \in [Keys -> {"absent", "live", "revoked"}]
    /\ expires \in [Keys -> Nat]
    /\ listed \in [Keys -> BOOLEAN]
    /\ cache \in [Keys -> Copies]
    /\ call \in [Calls -> CallStates]
    /\ \A c \in Calls : call[c].pc \notin {"idle", "count", "recount", "insert"} => call[c].key \in Keys
    /\ now \in 0..MaxTime
    /\ ops \in 0..MaxOps /\ faults \in 0..MaxFaults
    /\ revokedAt \in [Keys -> 0..MaxTime]

\* The step in which ValidateKey accepts or refuses a key.
Served(v) == call'[v] = Idle /\ (ServeCached(v) \/ At(v, "keep"))
\* What isModelAllowed gets to see: the row has an allowlist, a copy never.
Passes(v) == Served(v) /\ (At(v, "keep") => ~(listed[call[v].key] /\ call[v].outside))

\* ValidateKey: however revocations, deletions of the account, lost DELs and
\* late writes of copies interleave, a revoked key opens the gateway no later
\* than one TTL and one request after its revocation; and a copy and the row it
\* was made from decide alike about expiry, so no copy outlives its key's.
KeyUseBounded ==
    [][\A v \in Validators :
          /\ Served(v) /\ row[call[v].key] = "revoked"
               => now <= revokedAt[call[v].key] + TTL + Delay
          /\ ServeCached(v) => ~Past(expires[call[v].key])]_vars

-----------------------------------------------------------------------------
(* What the documents and comments say and the code does not keep. *)

\* After a revocation has been answered no request is let through by a copy.
RevokedRefusedAtOnce ==
    [][\A v \in Validators : ServeCached(v) /\ row[call[v].key] = "revoked"
          => \E a \in Admins : At(a, "del") /\ call[a].key = call[v].key]_vars

\* A request for a model outside the key's allowlist is not served.
AllowlistHolds ==
    [][\A v \in Validators : Passes(v) => ~(listed[call[v].key] /\ call[v].outside)]_vars
=============================================================================

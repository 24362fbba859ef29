---------------------------- MODULE ProviderKeys ----------------------------
(***************************************************************************)
(* The upstream keys of one tenant and one provider, as kept by            *)
(* services/providerkey_service.go and api/provider_keys.go.               *)
(*                                                                         *)
(* Postgres holds the keys and one row of settings that names the active   *)
(* key.  Two caches stand in front of it: a Redis entry (tps) that copies  *)
(* the settings for every pod, and in each pod a map from key to plaintext *)
(* (plain).  Both have an idle TTL that every hit extends and a hard TTL   *)
(* that nothing extends.  The proxy reads through both caches in           *)
(* GetActiveKey; administrators store, activate, rotate and revoke keys.   *)
(*                                                                         *)
(* One step is one statement on Postgres, one Redis command or one section *)
(* under the mutex of the map, so that requests interleave between them.   *)
(* Encryption, labels and the format of a key are left out: Store and      *)
(* Rotate accept only well-formed keys, and so the two format guards at    *)
(* the end of GetActiveKey do not fire.                                    *)
(***************************************************************************)
EXTENDS Integers, FiniteSets

CONSTANTS
    Keys,             \* identities of provider keys
    NoKey,            \* no active key: the settings row does not exist
    Pods,             \* instances of the API server
    Getters,          \* requests of the proxy that may run at a time
    Admins,           \* requests of administrators that may run at a time
    PodOf,            \* the pod that serves a request
    IdleTTL,          \* providerKeyIdleTTL = tpsIdleTTL, in ticks
    HardTTL,          \* providerKeyHardTTL = tpsHardTTL, in ticks
    Delay,            \* longest time from a database read to the cache write
    MaxProviderKeys,  \* the limit of the tenant's plan
    MaxTime,          \* bound: ticks
    MaxOps,           \* bound: administrative requests
    MaxFaults         \* bound: failed statements, commands and restarts

Calls == Getters \cup Admins

ASSUME KeysAssumption == NoKey \notin Keys /\ PodOf \in [Calls -> Pods]

ASSUME CallsAssumption == Getters \cap Admins = {}

ASSUME TTLAssumption == /\ IdleTTL \in Nat \ {0}
                        /\ HardTTL \in Nat \ {0}
                        /\ Delay \in Nat

ASSUME BoundsAssumption == /\ MaxProviderKeys \in Nat /\ MaxTime \in Nat
                           /\ MaxOps \in Nat /\ MaxFaults \in Nat

VARIABLES
    row,        \* row[k]: "absent", "live" or "revoked"
    settings,   \* the active key and its policy_version
    tps,        \* the Redis entry: key, hard expiry, end of its TTL
    plain,      \* plain[p][k]: idle and hard expiry of a cached plaintext
    call,       \* call[c]: where a request is and what it has read
    now,        \* the clock
    ops,        \* administrative requests begun
    faults,     \* failures so far
    revokedAt,  \* history: when a key was revoked
    changedAt,  \* history: when settings last changed
    highest     \* history: the highest policy_version so far

history == <<revokedAt, changedAt, highest>>
vars == <<row, settings, tps, plain, call, now, ops, faults, history>>

GetterSteps == {"slide", "drop", "settings", "cache", "plain", "evict",
                "extend", "decrypt", "store"}
AdminSteps == {"insert", "upsert", "rotate", "revoke", "evictRotated",
               "evictRevoked", "clear", "invalidate"}

NoEntry == [key |-> NoKey, hard |-> 0, ttl |-> 0]
TPSEntries == [key : Keys, hard : Nat, ttl : Nat] \cup {NoEntry}

Uncached == [idle |-> 0, hard |-> 0]
Plaintexts == [idle : Nat, hard : Nat]

Idle == [pc |-> "idle", key |-> NoKey, at |-> 0, fresh |-> FALSE]
CallStates == [pc : GetterSteps \cup AdminSteps \cup {"idle"},
               key : Keys \cup {NoKey}, at : Nat, fresh : BOOLEAN]

LiveKeys == {k \in Keys : row[k] = "live"}

\* No administrator is at work.
Quiet == \A a \in Admins : call[a].pc = "idle"

-----------------------------------------------------------------------------
(* Steps of requests: c does what pc names and goes on at next.  at is the  *)
(* time of the read that the next step acts on.                            *)

At(c, pc) == call[c].pc = pc

Become(c, r) == call' = [call EXCEPT ![c] = r]

Goto(c, next) == Become(c, [pc |-> next, key |-> call[c].key, at |-> 0,
                            fresh |-> call[c].fresh])

\* c has read k at this moment and goes on at next.
Read(c, k, next) == Become(c, [pc |-> next, key |-> k, at |-> now,
                               fresh |-> call[c].fresh])

Return(c) == Become(c, Idle)

\* A command or statement fails, or the request's context is cancelled.
Fault == faults < MaxFaults /\ faults' = faults + 1

-----------------------------------------------------------------------------
(* GetActiveKey: the Redis entry, else the settings row. *)

\* The entry is looked up; a failing Redis is a miss.
Lookup(c, found, next) ==
    /\ At(c, "idle")
    /\ Become(c, [pc |-> next, key |-> found, at |-> now, fresh |-> Quiet])
    /\ UNCHANGED <<row, settings, tps, plain, now, ops, history>>

LookupHit(c) == /\ now < tps.ttl /\ now < tps.hard
                /\ Lookup(c, tps.key, "slide")
                /\ UNCHANGED faults

LookupExpired(c) == /\ now < tps.ttl /\ now >= tps.hard
                    /\ Lookup(c, tps.key, "drop")
                    /\ UNCHANGED faults

LookupMiss(c) == /\ (now >= tps.ttl /\ UNCHANGED faults) \/ Fault
                 /\ Lookup(c, NoKey, "settings")

\* A hit restarts the idle TTL of whatever entry is there now.
Slide(c) ==
    /\ At(c, "slide")
    /\ tps' = [tps EXCEPT !.ttl = IF now < @ THEN now + IdleTTL ELSE @]
    /\ Goto(c, "plain")
    /\ UNCHANGED <<row, settings, plain, now, ops, faults, history>>

Drop(c) ==
    /\ At(c, "drop")
    /\ tps' = NoEntry
    /\ Goto(c, "settings")
    /\ UNCHANGED <<row, settings, plain, now, ops, faults, history>>

\* Without a settings row the request ends with ErrNoActiveKey.
LoadSettings(c) ==
    /\ At(c, "settings")
    /\ \/ settings.key = NoKey /\ Return(c)
       \/ settings.key # NoKey /\ Read(c, settings.key, "cache")
    /\ UNCHANGED <<row, settings, tps, plain, now, ops, faults, history>>

CacheTPS(c) ==
    /\ At(c, "cache")
    /\ tps' = [key |-> call[c].key, hard |-> now + HardTTL, ttl |-> now + IdleTTL]
    /\ Goto(c, "plain")
    /\ UNCHANGED <<row, settings, plain, now, ops, faults, history>>

-----------------------------------------------------------------------------
(* GetPlaintext: the map of the pod, else decryption of the row. *)

Entry(c) == plain[PodOf[c]][call[c].key]

Write(c, entry) ==
    plain' = [plain EXCEPT ![PodOf[c]][call[c].key] = entry]

FromMap(c) ==
    /\ At(c, "plain")
    /\ \/ /\ now < Entry(c).idle /\ now < Entry(c).hard
          /\ Read(c, call[c].key, "extend")
       \/ /\ Entry(c) # Uncached
          /\ now >= Entry(c).idle \/ now >= Entry(c).hard
          /\ Goto(c, "evict")
       \/ Entry(c) = Uncached /\ Goto(c, "decrypt")
    /\ UNCHANGED <<row, settings, tps, plain, now, ops, faults, history>>

\* Mutant: the hit extends the hard expiry as well.
ExtendBoth(c) ==
    /\ At(c, "extend")
    /\ \/ Entry(c) = Uncached /\ UNCHANGED plain
       \/ /\ Entry(c) # Uncached
          /\ Write(c, [idle |-> now + IdleTTL, hard |-> now + HardTTL])
    /\ Return(c)
    /\ UNCHANGED <<row, settings, tps, now, ops, faults, history>>

\* The hit extends the idle expiry of an entry that is still there, and the
\* request is sent with the key.
Extend(c) ==
    /\ At(c, "extend")
    /\ \/ Entry(c) = Uncached /\ UNCHANGED plain
       \/ /\ Entry(c) # Uncached
          /\ Write(c, [idle |-> now + IdleTTL, hard |-> Entry(c).hard])
    /\ Return(c)
    /\ UNCHANGED <<row, settings, tps, now, ops, faults, history>>

Evict(c, next) ==
    /\ Write(c, Uncached)
    /\ Goto(c, next)
    /\ UNCHANGED <<row, settings, tps, now, ops, faults, history>>

EvictExpired(c) == At(c, "evict") /\ Evict(c, "decrypt")

\* A revoked key is answered like one that does not exist.
Decrypt(c) ==
    /\ At(c, "decrypt")
    /\ \/ row[call[c].key] # "live" /\ Return(c)
       \/ row[call[c].key] = "live" /\ Read(c, call[c].key, "store")
    /\ UNCHANGED <<row, settings, tps, plain, now, ops, faults, history>>

StorePlaintext(c) ==
    /\ At(c, "store")
    /\ Write(c, [idle |-> now + IdleTTL, hard |-> now + HardTTL])
    /\ Return(c)
    /\ UNCHANGED <<row, settings, tps, now, ops, faults, history>>

GetActiveKey(c) ==
    \/ LookupHit(c) \/ LookupExpired(c) \/ LookupMiss(c)
    \/ Slide(c) \/ Drop(c) \/ LoadSettings(c) \/ CacheTPS(c)
    \/ FromMap(c) \/ Extend(c) \/ EvictExpired(c) \/ Decrypt(c)
    \/ StorePlaintext(c)

-----------------------------------------------------------------------------
(* Administrators. *)

Request(a, k, next) ==
    /\ At(a, "idle")
    /\ ops < MaxOps
    /\ ops' = ops + 1
    /\ Become(a, [pc |-> next, key |-> k, at |-> 0, fresh |-> FALSE])
    /\ UNCHANGED <<row, settings, tps, plain, now, history>>

\* handleCreateProviderKey counts the keys and then stores one more; a count
\* that fails is taken for zero.
CountKeys(a) ==
    /\ (Cardinality(LiveKeys) < MaxProviderKeys /\ UNCHANGED faults) \/ Fault
    /\ Request(a, NoKey, "insert")

Store(a) ==
    /\ At(a, "insert")
    /\ \E k \in Keys : row[k] = "absent" /\ row' = [row EXCEPT ![k] = "live"]
    /\ Return(a)
    /\ UNCHANGED <<settings, tps, plain, now, ops, faults, history>>

CheckActivate(a, k) ==
    row[k] = "live" /\ Request(a, k, "upsert") /\ UNCHANGED faults

CheckRotate(a, k) ==
    row[k] = "live" /\ Request(a, k, "rotate") /\ UNCHANGED faults

CheckRevoke(a, k) ==
    row[k] # "absent" /\ Request(a, k, "revoke") /\ UNCHANGED faults

NextVersion == IF settings.key = NoKey THEN 1 ELSE settings.version + 1

Larger(x, y) == IF x > y THEN x ELSE y

\* settings change: no request before this one is known to be current.
ChangeSettings(a, k, version, next) ==
    /\ settings' = [key |-> k, version |-> version]
    /\ changedAt' = now
    /\ highest' = Larger(highest, version)
    /\ call' = [c \in Calls |->
                  [call[c] EXCEPT !.fresh = FALSE,
                                  !.pc = IF c = a THEN next ELSE @]]

RevokeRow(rows, k) ==
    /\ row' = [rows EXCEPT ![k] = "revoked"]
    /\ revokedAt' = IF row[k] = "revoked" THEN revokedAt
                    ELSE [revokedAt EXCEPT ![k] = now]

\* Activate: the upsert increments policy_version or starts it at 1.
Upsert(a) ==
    /\ At(a, "upsert")
    /\ ChangeSettings(a, call[a].key, NextVersion, "invalidate")
    /\ UNCHANGED <<row, tps, plain, now, ops, faults, revokedAt>>

\* Rotate: one transaction stores a new key, activates it, revokes the old.
RotateTx(a) ==
    /\ At(a, "rotate")
    /\ \E k \in Keys :
          /\ row[k] = "absent"
          /\ RevokeRow([row EXCEPT ![k] = "live"], call[a].key)
          /\ ChangeSettings(a, k, NextVersion, "evictRotated")
    /\ UNCHANGED <<tps, plain, now, ops, faults>>

EvictRotated(a) == At(a, "evictRotated") /\ Evict(a, "invalidate")

InvalidateTPS(a) ==
    /\ At(a, "invalidate")
    /\ tps' = NoEntry
    /\ Return(a)
    /\ UNCHANGED <<row, settings, plain, now, ops, faults, history>>

MarkRevoked(a) ==
    /\ At(a, "revoke")
    /\ RevokeRow(row, call[a].key)
    /\ Goto(a, "evictRevoked")
    /\ UNCHANGED <<settings, tps, plain, now, ops, faults, changedAt, highest>>

EvictRevoked(a) == At(a, "evictRevoked") /\ Evict(a, "clear")

\* Mutant: revocation forgets the settings row.
ClearSettingsNever(a) ==
    /\ At(a, "clear")
    /\ Return(a)
    /\ UNCHANGED <<row, settings, tps, plain, now, ops, faults, history>>

\* The settings row is deleted if it names the revoked key.  The Redis entry
\* stays.
ClearSettings(a) ==
    /\ At(a, "clear")
    /\ \/ settings.key # call[a].key /\ Return(a) /\ UNCHANGED <<settings, history>>
       \/ /\ settings.key = call[a].key
          /\ settings' = [key |-> NoKey, version |-> 0]
          /\ changedAt' = now
          /\ call' = [c \in Calls |-> IF c = a THEN Idle
                                      ELSE [call[c] EXCEPT !.fresh = FALSE]]
          /\ UNCHANGED <<revokedAt, highest>>
    /\ UNCHANGED <<row, tps, plain, now, ops, faults>>

Administer(a) ==
    \/ CountKeys(a) \/ Store(a)
    \/ \E k \in Keys : CheckActivate(a, k) \/ CheckRotate(a, k) \/ CheckRevoke(a, k)
    \/ Upsert(a) \/ RotateTx(a) \/ EvictRotated(a) \/ InvalidateTPS(a)
    \/ MarkRevoked(a) \/ EvictRevoked(a) \/ ClearSettings(a)

-----------------------------------------------------------------------------
(* Failures and time. *)

\* A failing Redis command is ignored: the request goes on without its effect.
CommandFails(c) ==
    /\ Fault
    /\ \/ At(c, "slide") /\ Goto(c, "plain")
       \/ At(c, "drop") /\ Goto(c, "settings")
       \/ At(c, "cache") /\ Goto(c, "plain")
       \/ At(c, "invalidate") /\ Return(c)
    /\ UNCHANGED <<row, settings, tps, plain, now, ops, history>>

\* A failing statement ends the request.
StatementFails(c) ==
    /\ call[c].pc \in {"settings", "decrypt", "insert", "upsert", "rotate",
                       "revoke", "clear"}
    /\ Fault
    /\ Return(c)
    /\ UNCHANGED <<row, settings, tps, plain, now, ops, history>>

\* A pod restarts: its map is empty and its requests are gone.
Restart(p) ==
    /\ Fault
    /\ plain' = [plain EXCEPT ![p] = [k \in Keys |-> Uncached]]
    /\ call' = [c \in Calls |-> IF PodOf[c] = p THEN Idle ELSE call[c]]
    /\ UNCHANGED <<row, settings, tps, now, ops, history>>

\* Time passes, but a request takes at most Delay from reading Postgres to
\* writing what it has read into a cache.
Tick ==
    /\ now < MaxTime
    /\ \A c \in Getters : At(c, "cache") \/ At(c, "store") => now - call[c].at < Delay
    /\ now' = now + 1
    /\ UNCHANGED <<row, settings, tps, plain, call, ops, faults, history>>

\* At the start no cache is filled and the tenant has some keys.
Init ==
    /\ row \in [Keys -> {"absent", "live"}]
    /\ Cardinality(LiveKeys) <= MaxProviderKeys
    /\ settings \in [key : LiveKeys, version : {1}] \cup {[key |-> NoKey, version |-> 0]}
    /\ tps = NoEntry
    /\ plain = [p \in Pods |-> [k \in Keys |-> Uncached]]
    /\ call = [c \in Calls |-> Idle]
    /\ now = 1 /\ ops = 0 /\ faults = 0
    /\ revokedAt = [k \in Keys |-> 0] /\ changedAt = 0
    /\ highest = settings.version

Next ==
    \/ \E c \in Getters : GetActiveKey(c)
    \/ \E a \in Admins : Administer(a)
    \/ \E c \in Calls : CommandFails(c) \/ StatementFails(c)
    \/ \E p \in Pods : Restart(p)
    \/ Tick

Spec == Init /\ [][Next]_vars

-----------------------------------------------------------------------------
(* Properties. *)

\* Shape of the state: a cached settings entry always names a key, because
\* GetActiveKey ends early when there is no settings row.
TypeOK ==
    /\ row \in [Keys -> {"absent", "live", "revoked"}]
    /\ settings \in [key : Keys \cup {NoKey}, version : Nat]
    /\ tps \in TPSEntries
    /\ plain \in [Pods -> [Keys -> Plaintexts]]
    /\ call \in [Calls -> CallStates]
    /\ now \in Nat \ {0} /\ ops \in Nat /\ faults \in Nat
    /\ revokedAt \in [Keys -> Nat] /\ changedAt \in Nat /\ highest \in Nat

\* hardExpiry is "set once at write time, never extended" (plaintexts) and an
\* "absolute max lifetime even for hot keys" (settings): however often it is
\* used, and on whichever pod, no request takes a revoked key from a cache, or
\* follows a cached entry that differs from the settings row, later than the
\* hard TTL plus one request's delay after the revocation or the change,
\* although Revoke leaves the entry in place, other pods are not told, and
\* Redis may lose an invalidation.
StaleUseBounded ==
    \A c \in Getters :
        /\ At(c, "extend") /\ row[call[c].key] = "revoked" =>
              call[c].at < revokedAt[call[c].key] + HardTTL + Delay
        /\ At(c, "slide") /\ call[c].key # settings.key =>
              call[c].at < changedAt + HardTTL + Delay

\* Between administrative requests the active key is one that is not revoked
\* (Activate and Rotate check, Revoke clears the settings it leaves behind),
\* as long as no statement fails and only one administrator is at work.
ActiveIsLive == Quiet /\ faults = 0 => settings.key \in LiveKeys \cup {NoKey}

-----------------------------------------------------------------------------
(* What the comments of the code say and the code does not keep. *)

\* Rotate: "every pod picks up the new active_key_id ... on the very next
\* request (no wait for TTL expiry)".  A request that begins when no
\* administrator is at work uses the key that the settings row names.
NextRequestIsCurrent ==
    \A c \in Getters :
        call[c].fresh /\ settings.key # NoKey
          /\ call[c].pc \in {"plain", "evict", "extend", "decrypt", "store"} =>
            call[c].key = settings.key

\* models.go: "PolicyVersion is a monotonically-increasing counter bumped on
\* every Activate or Rotate call".
VersionsIncrease == settings.key # NoKey => settings.version = highest
=============================================================================

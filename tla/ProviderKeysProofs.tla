------------------------- MODULE ProviderKeysProofs -------------------------
(***************************************************************************)
(* For any number of keys, pods, requests and failures, a stale cache      *)
(* entry is not used beyond the hard TTL.                                  *)
(*                                                                         *)
(* The two properties speak of a request that has just hit an entry.  The  *)
(* inductive invariant adds where the entry came from: a request between   *)
(* its read of Postgres and its write to a cache has read no later than    *)
(* the revocation or change that makes its value stale (Carries), and so a *)
(* stale entry ends at most HardTTL + Delay after that moment (MapOK,      *)
(* EntryOK).  No entry outlives now + HardTTL, which is what a revocation  *)
(* or a change of the settings finds when it happens.                      *)
(*                                                                         *)
(* While one administrator is at work and nothing fails, the active key is *)
(* not a revoked one: ActiveInv allows the settings to name the key whose  *)
(* revocation has yet to clear it, and says that what an administrator is  *)
(* about to activate or to rotate is live.                                 *)
(***************************************************************************)
EXTENDS ProviderKeys, TLAPS

\* What a request that has read a value and not yet used it may carry.
Carries(r) ==
    /\ r.pc \in {"slide", "cache", "plain", "evict", "extend", "decrypt", "store"}
         => r.key \in Keys
    /\ r.pc \in {"cache", "store"} => r.at <= now /\ now <= r.at + Delay
    /\ r.pc = "cache" /\ r.key # settings.key => r.at <= changedAt
    /\ r.pc = "store" /\ row[r.key] = "revoked" => r.at <= revokedAt[r.key]
    /\ r.pc \in {"slide", "extend"} => r.at <= now
    /\ r.pc = "slide" /\ r.key # settings.key => r.at < changedAt + HardTTL + Delay
    /\ r.pc = "extend" /\ row[r.key] = "revoked" =>
         r.at < revokedAt[r.key] + HardTTL + Delay

\* An administrator beyond the first step names the key to work on.
Administers(r) == r.pc \in AdminSteps \ {"insert"} => r.key \in Keys

\* A cached plaintext e of key k.
PlaintextOK(e, k) ==
    /\ e.hard <= now + HardTTL
    /\ row[k] = "revoked" => e.hard <= revokedAt[k] + HardTTL + Delay

MapOK(m) == \A p \in Pods, k \in Keys : PlaintextOK(m[p][k], k)

EntryOK(e) ==
    /\ e.hard <= now + HardTTL
    /\ e.key # settings.key => e.hard <= changedAt + HardTTL + Delay

GettersOK(s) == \A c \in Getters : s[c].pc \in GetterSteps \cup {"idle"} /\ Carries(s[c])

AdminsOK(s) == \A a \in Admins : s[a].pc \in AdminSteps \cup {"idle"} /\ Administers(s[a])

CacheInv == /\ TypeOK
            /\ GettersOK(call) /\ AdminsOK(call)
            /\ MapOK(plain) /\ EntryOK(tps)

-----------------------------------------------------------------------------
(* Writing one request's state, or one entry of the map. *)

LEMMA BecomeWrites ==
    ASSUME TypeOK, NEW c \in Calls, NEW r \in CallStates, Become(c, r)
    PROVE  /\ call' \in [Calls -> CallStates]
           /\ call'[c] = r
           /\ \A d \in Calls \ {c} : call'[d] = call[d]
  BY DEF TypeOK, Become

LEMMA WriteWrites ==
    ASSUME TypeOK, NEW c \in Calls, call[c].key \in Keys,
           NEW e \in Plaintexts, PlaintextOK(e, call[c].key), MapOK(plain), Write(c, e)
    PROVE  plain' \in [Pods -> [Keys -> Plaintexts]] /\ MapOK(plain')
<1> DEFINE p == PodOf[c]
           k == call[c].key
<1>1. p \in Pods
  BY KeysAssumption
<1>2. plain' = [plain EXCEPT ![p] = [plain[p] EXCEPT ![k] = e]]
  BY DEF Write
<1>3. plain \in [Pods -> [Keys -> Plaintexts]]
  BY DEF TypeOK
<1>4. [plain[p] EXCEPT ![k] = e] \in [Keys -> Plaintexts]
  BY <1>1, <1>3
<1>5. plain' \in [Pods -> [Keys -> Plaintexts]]
  BY <1>1, <1>2, <1>3, <1>4
<1>6. \A q \in Pods, j \in Keys :
         plain'[q][j] = IF q = p /\ j = k THEN e ELSE plain[q][j]
  BY <1>1, <1>2, <1>3
<1> QED  BY <1>5, <1>6 DEF MapOK

-----------------------------------------------------------------------------
(* A step that leaves the database and the clock alone. *)

LEMMA GetterStep ==
    ASSUME CacheInv, NEW c \in Getters, NEW r \in CallStates, Become(c, r),
           r.pc \in GetterSteps \cup {"idle"}, Carries(r),
           UNCHANGED <<row, settings, now, ops, history>>, faults' \in Nat,
           tps' \in TPSEntries, EntryOK(tps'),
           plain' \in [Pods -> [Keys -> Plaintexts]], MapOK(plain')
    PROVE  CacheInv'
<1>1. TypeOK /\ c \in Calls
  BY DEF CacheInv, Calls
<1>2. /\ call' \in [Calls -> CallStates] /\ call'[c] = r
      /\ \A d \in Calls \ {c} : call'[d] = call[d]
  BY <1>1, BecomeWrites
<1>3. TypeOK'
  BY <1>1, <1>2 DEF TypeOK, history
<1>4. GettersOK(call) /\ AdminsOK(call)
  BY DEF CacheInv
<1>5. GettersOK(call') /\ AdminsOK(call')
  BY <1>2, <1>4, CallsAssumption DEF GettersOK, AdminsOK, Calls
<1>6. GettersOK(call)' /\ AdminsOK(call)' /\ MapOK(plain)' /\ EntryOK(tps)'
  BY <1>5 DEF GettersOK, AdminsOK, Carries, Administers, MapOK, PlaintextOK, EntryOK, history
<1> QED  BY <1>3, <1>6 DEF CacheInv

-----------------------------------------------------------------------------
(* GetActiveKey *)

LEMMA LookupKeeps ==
    ASSUME CacheInv, NEW c \in Getters,
           LookupHit(c) \/ LookupExpired(c) \/ LookupMiss(c)
    PROVE  CacheInv'
<1> USE TTLAssumption, KeysAssumption
<1>1. /\ TypeOK /\ EntryOK(tps) /\ MapOK(plain) /\ tps \in TPSEntries
      /\ now \in Nat /\ faults \in Nat
  BY DEF CacheInv, TypeOK
<1>2. faults' \in Nat
  BY <1>1 DEF LookupHit, LookupExpired, LookupMiss, Fault
<1>3. UNCHANGED <<row, settings, now, ops, history>> /\ UNCHANGED <<tps, plain>>
  BY DEF LookupHit, LookupExpired, LookupMiss, Lookup
<1>4. EntryOK(tps') /\ MapOK(plain') /\ tps' \in TPSEntries
        /\ plain' \in [Pods -> [Keys -> Plaintexts]]
  BY <1>1, <1>3 DEF TypeOK
<1> DEFINE R(k, next) == [pc |-> next, key |-> k, at |-> now, fresh |-> Quiet]
<1>5. Quiet \in BOOLEAN
  BY DEF Quiet
<1>6. CASE LookupHit(c)
  <2>1. tps.key \in Keys /\ tps.hard \in Nat
    BY <1>1, <1>6 DEF LookupHit, TPSEntries, NoEntry
  <2>2. R(tps.key, "slide") \in CallStates
    BY <1>1, <1>5, <2>1 DEF CallStates, GetterSteps
  <2>3. Carries(R(tps.key, "slide"))
    BY <1>1, <1>6, <2>1 DEF Carries, LookupHit, EntryOK, TypeOK
  <2>4. Become(c, R(tps.key, "slide"))
    BY <1>6 DEF LookupHit, Lookup
  <2> QED  BY <1>2, <1>3, <1>4, <2>2, <2>3, <2>4, GetterStep DEF GetterSteps
<1>7. CASE LookupExpired(c)
  <2>1. tps.key \in Keys \cup {NoKey}
    BY <1>1 DEF TPSEntries, NoEntry
  <2>2. R(tps.key, "drop") \in CallStates
    BY <1>1, <1>5, <2>1 DEF CallStates, GetterSteps
  <2>3. Carries(R(tps.key, "drop"))
    BY DEF Carries
  <2>4. Become(c, R(tps.key, "drop"))
    BY <1>7 DEF LookupExpired, Lookup
  <2> QED  BY <1>2, <1>3, <1>4, <2>2, <2>3, <2>4, GetterStep DEF GetterSteps
<1>8. CASE LookupMiss(c)
  <2>2. R(NoKey, "settings") \in CallStates
    BY <1>1, <1>5 DEF CallStates, GetterSteps
  <2>3. Carries(R(NoKey, "settings"))
    BY DEF Carries
  <2>4. Become(c, R(NoKey, "settings"))
    BY <1>8 DEF LookupMiss, Lookup
  <2> QED  BY <1>2, <1>3, <1>4, <2>2, <2>3, <2>4, GetterStep DEF GetterSteps
<1> QED  BY <1>6, <1>7, <1>8

\* Steps that read or write Redis and the settings row.
LEMMA SettingsKeeps ==
    ASSUME CacheInv, NEW c \in Getters,
           Slide(c) \/ Drop(c) \/ LoadSettings(c) \/ CacheTPS(c)
    PROVE  CacheInv'
<1> USE TTLAssumption, KeysAssumption
<1> DEFINE R(next, k, t) == [pc |-> next, key |-> k, at |-> t, fresh |-> call[c].fresh]
<1>1. /\ TypeOK /\ EntryOK(tps) /\ MapOK(plain) /\ tps \in TPSEntries
      /\ now \in Nat /\ faults \in Nat /\ call[c] \in CallStates /\ Carries(call[c])
  BY DEF CacheInv, TypeOK, Calls, GettersOK
<1>2. UNCHANGED <<row, settings, now, ops, history>> /\ faults' \in Nat
  BY <1>1 DEF Slide, Drop, LoadSettings, CacheTPS
<1>3. MapOK(plain') /\ plain' \in [Pods -> [Keys -> Plaintexts]]
  BY <1>1 DEF Slide, Drop, LoadSettings, CacheTPS, TypeOK
<1>4. call[c].key \in Keys \cup {NoKey} /\ call[c].fresh \in BOOLEAN
  BY <1>1 DEF CallStates
<1>5. CASE Slide(c)
  <2>1. tps' \in TPSEntries /\ EntryOK(tps')
    <3>1. CASE tps = NoEntry
      BY <1>1, <1>5, <3>1 DEF Slide, NoEntry, TPSEntries, EntryOK, TypeOK
    <3>2. CASE tps \in [key : Keys, hard : Nat, ttl : Nat]
      BY <1>1, <1>5, <3>2 DEF Slide, TPSEntries, EntryOK
    <3> QED  BY <1>1, <3>1, <3>2 DEF TPSEntries
  <2>2. R("plain", call[c].key, 0) \in CallStates
    BY <1>4 DEF CallStates, GetterSteps
  <2>3. Carries(R("plain", call[c].key, 0))
    BY <1>1, <1>5 DEF Carries, Slide, At
  <2>4. Become(c, R("plain", call[c].key, 0))
    BY <1>5 DEF Slide, Goto
  <2> QED  BY <1>2, <1>3, <2>1, <2>2, <2>3, <2>4, GetterStep DEF GetterSteps
<1>6. CASE Drop(c)
  <2>1. tps' \in TPSEntries /\ EntryOK(tps')
    BY <1>1, <1>6 DEF Drop, TPSEntries, NoEntry, EntryOK, TypeOK
  <2>2. R("settings", call[c].key, 0) \in CallStates
    BY <1>4 DEF CallStates, GetterSteps
  <2>3. Carries(R("settings", call[c].key, 0))
    BY DEF Carries
  <2>4. Become(c, R("settings", call[c].key, 0))
    BY <1>6 DEF Drop, Goto
  <2> QED  BY <1>2, <1>3, <2>1, <2>2, <2>3, <2>4, GetterStep DEF GetterSteps
<1>7. CASE LoadSettings(c)
  <2>1. tps' \in TPSEntries /\ EntryOK(tps')
    BY <1>1, <1>7 DEF LoadSettings
  <2>2. CASE Return(c)
    <3>1. Become(c, Idle) /\ Idle \in CallStates /\ Carries(Idle)
      BY <2>2 DEF Return, Idle, CallStates, Carries
    <3> QED  BY <1>2, <1>3, <2>1, <3>1, GetterStep DEF Idle
  <2>3. CASE settings.key # NoKey /\ Read(c, settings.key, "cache")
    <3>1. settings.key \in Keys
      BY <1>1, <2>3 DEF TypeOK
    <3>2. R("cache", settings.key, now) \in CallStates
      BY <1>1, <1>4, <3>1 DEF CallStates, GetterSteps
    <3>3. Carries(R("cache", settings.key, now))
      BY <1>1, <3>1 DEF Carries
    <3>4. Become(c, R("cache", settings.key, now))
      BY <2>3 DEF Read
    <3> QED  BY <1>2, <1>3, <2>1, <3>2, <3>3, <3>4, GetterStep DEF GetterSteps
  <2> QED  BY <1>7, <2>2, <2>3 DEF LoadSettings
<1>8. CASE CacheTPS(c)
  <2>1. call[c].key \in Keys /\ call[c].at \in Nat /\ changedAt \in Nat
    BY <1>1, <1>8 DEF CacheTPS, At, Carries, CallStates, TypeOK
  <2>2. tps' \in TPSEntries
    BY <1>1, <1>8, <2>1 DEF CacheTPS, TPSEntries
  <2>3. EntryOK(tps')
    BY <1>1, <1>8, <2>1 DEF CacheTPS, At, Carries, EntryOK
  <2>4. R("plain", call[c].key, 0) \in CallStates
    BY <1>4 DEF CallStates, GetterSteps
  <2>5. Carries(R("plain", call[c].key, 0))
    BY <2>1 DEF Carries
  <2>6. Become(c, R("plain", call[c].key, 0))
    BY <1>8 DEF CacheTPS, Goto
  <2> QED  BY <1>2, <1>3, <2>2, <2>3, <2>4, <2>5, <2>6, GetterStep DEF GetterSteps
<1> QED  BY <1>5, <1>6, <1>7, <1>8

\* GetPlaintext: steps on the map of the pod and on the row of the key.
LEMMA PlaintextKeeps ==
    ASSUME CacheInv, NEW c \in Getters,
           FromMap(c) \/ Extend(c) \/ EvictExpired(c) \/ Decrypt(c) \/ StorePlaintext(c)
    PROVE  CacheInv'
<1> USE TTLAssumption, KeysAssumption
<1> DEFINE R(next, t) == [pc |-> next, key |-> call[c].key, at |-> t, fresh |-> call[c].fresh]
<1>1. /\ TypeOK /\ EntryOK(tps) /\ MapOK(plain) /\ tps \in TPSEntries
      /\ now \in Nat /\ faults \in Nat /\ c \in Calls
      /\ call[c] \in CallStates /\ Carries(call[c])
  BY DEF CacheInv, TypeOK, Calls, GettersOK
<1>2. UNCHANGED <<row, settings, now, ops, history>> /\ faults' \in Nat
        /\ tps' \in TPSEntries /\ EntryOK(tps')
  BY <1>1 DEF FromMap, Extend, EvictExpired, Evict, Decrypt, StorePlaintext
<1>3. call[c].key \in Keys /\ call[c].fresh \in BOOLEAN /\ call[c].at \in Nat
  BY <1>1 DEF CallStates, Carries, FromMap, Extend, EvictExpired, Decrypt, StorePlaintext, At
<1>4. /\ Entry(c) \in Plaintexts /\ PlaintextOK(Entry(c), call[c].key)
      /\ revokedAt[call[c].key] \in Nat
  BY <1>1, <1>3 DEF Entry, TypeOK, MapOK
<1>5. Uncached \in Plaintexts /\ PlaintextOK(Uncached, call[c].key)
  BY <1>1, <1>3, <1>4 DEF Uncached, Plaintexts, PlaintextOK
<1>6. Idle \in CallStates /\ Carries(Idle) /\ Idle.pc = "idle"
  BY DEF Idle, CallStates, Carries
<1>7. \A next \in {"extend", "evict", "decrypt", "store"}, t \in Nat :
         R(next, t) \in CallStates
  BY <1>3 DEF CallStates, GetterSteps
<1>8. Carries(R("evict", 0)) /\ Carries(R("decrypt", 0))
  BY <1>3 DEF Carries
<1>9. CASE FromMap(c)
  <2>1. plain' \in [Pods -> [Keys -> Plaintexts]] /\ MapOK(plain')
    BY <1>1, <1>9 DEF FromMap, TypeOK
  <2>2. CASE now < Entry(c).idle /\ now < Entry(c).hard /\ Read(c, call[c].key, "extend")
    <3>1. Carries(R("extend", now))
      BY <1>1, <1>3, <1>4, <2>2 DEF Carries, PlaintextOK, Plaintexts
    <3>2. Become(c, R("extend", now))
      BY <2>2 DEF Read
    <3> QED  BY <1>1, <1>2, <1>7, <2>1, <3>1, <3>2, GetterStep DEF GetterSteps
  <2>3. CASE Goto(c, "evict")
    <3>1. Become(c, R("evict", 0))
      BY <2>3 DEF Goto
    <3> QED  BY <1>1, <1>2, <1>7, <1>8, <2>1, <3>1, GetterStep DEF GetterSteps
  <2>4. CASE Goto(c, "decrypt")
    <3>1. Become(c, R("decrypt", 0))
      BY <2>4 DEF Goto
    <3> QED  BY <1>1, <1>2, <1>7, <1>8, <2>1, <3>1, GetterStep DEF GetterSteps
  <2> QED  BY <1>9, <2>2, <2>3, <2>4 DEF FromMap
<1>10. CASE Extend(c)
  <2> DEFINE e == [idle |-> now + IdleTTL, hard |-> Entry(c).hard]
  <2>1. e \in Plaintexts /\ PlaintextOK(e, call[c].key)
    BY <1>1, <1>4 DEF Plaintexts, PlaintextOK
  <2>2. CASE UNCHANGED plain
    BY <1>1, <1>2, <1>6, <1>10, <2>2, GetterStep DEF Extend, Return, TypeOK
  <2>3. CASE Write(c, e)
    <3>1. plain' \in [Pods -> [Keys -> Plaintexts]] /\ MapOK(plain')
      BY <1>1, <1>3, <2>1, <2>3, WriteWrites
    <3> QED  BY <1>2, <1>6, <1>10, <3>1, GetterStep DEF Extend, Return
  <2> QED  BY <1>10, <2>2, <2>3 DEF Extend
<1>11. CASE EvictExpired(c)
  <2>1. plain' \in [Pods -> [Keys -> Plaintexts]] /\ MapOK(plain')
    BY <1>1, <1>3, <1>5, <1>11, WriteWrites DEF EvictExpired, Evict
  <2>2. Become(c, R("decrypt", 0))
    BY <1>11 DEF EvictExpired, Evict, Goto
  <2> QED  BY <1>2, <1>7, <1>8, <2>1, <2>2, GetterStep DEF GetterSteps
<1>12. CASE Decrypt(c)
  <2>1. plain' \in [Pods -> [Keys -> Plaintexts]] /\ MapOK(plain')
    BY <1>1, <1>12 DEF Decrypt, TypeOK
  <2>2. CASE Return(c)
    BY <1>2, <1>6, <2>1, <2>2, GetterStep DEF Return
  <2>3. CASE row[call[c].key] = "live" /\ Read(c, call[c].key, "store")
    <3>1. Carries(R("store", now))
      BY <1>1, <1>3, <2>3 DEF Carries
    <3>2. Become(c, R("store", now))
      BY <2>3 DEF Read
    <3> QED  BY <1>1, <1>2, <1>7, <2>1, <3>1, <3>2, GetterStep DEF GetterSteps
  <2> QED  BY <1>12, <2>2, <2>3 DEF Decrypt
<1>13. CASE StorePlaintext(c)
  <2> DEFINE e == [idle |-> now + IdleTTL, hard |-> now + HardTTL]
  <2>1. e \in Plaintexts
    BY <1>1 DEF Plaintexts
  <2>2. PlaintextOK(e, call[c].key)
    BY <1>1, <1>3, <1>4, <1>13 DEF PlaintextOK, Carries, StorePlaintext, At
  <2>3. plain' \in [Pods -> [Keys -> Plaintexts]] /\ MapOK(plain')
    BY <1>1, <1>3, <1>13, <2>1, <2>2, WriteWrites DEF StorePlaintext
  <2> QED  BY <1>2, <1>6, <1>13, <2>3, GetterStep DEF StorePlaintext, Return
<1> QED  BY <1>9, <1>10, <1>11, <1>12, <1>13

-----------------------------------------------------------------------------
(* The database changes under the requests: what they carry and what is    *)
(* cached stays within its bounds, because the change happens now.         *)

RowStep(k) ==
    \/ row'[k] = row[k] /\ revokedAt'[k] = revokedAt[k]
    \/ row'[k] = "live" /\ revokedAt'[k] = revokedAt[k]
    \/ row'[k] = "revoked" /\ revokedAt'[k] = now

WorldStep ==
    /\ now' = now
    /\ row' \in [Keys -> {"absent", "live", "revoked"}] /\ revokedAt' \in [Keys -> Nat]
    /\ \A k \in Keys : RowStep(k)
    /\ changedAt' = now \/ (changedAt' = changedAt /\ settings'.key = settings.key)

LEMMA WorldKeepsCarries ==
    ASSUME TypeOK, WorldStep, NEW r \in CallStates, Carries(r)
    PROVE  Carries(r)'
<1> USE TTLAssumption
<1>1. now \in Nat /\ changedAt \in Nat /\ r.at \in Nat
  BY DEF TypeOK, CallStates
<1>2. CASE r.key \notin Keys
  BY <1>2 DEF Carries, WorldStep
<1>3. CASE r.key \in Keys
  <2>1. /\ RowStep(r.key) /\ revokedAt[r.key] \in Nat /\ revokedAt'[r.key] \in Nat
        /\ now' = now
    BY <1>3 DEF WorldStep, TypeOK
  <2>2. changedAt' = now \/ (changedAt' = changedAt /\ settings'.key = settings.key)
    BY DEF WorldStep
  <2> QED  BY <1>1, <1>3, <2>1, <2>2 DEF Carries, RowStep
<1> QED  BY <1>2, <1>3

LEMMA WorldKeepsPlaintext ==
    ASSUME TypeOK, WorldStep, NEW k \in Keys, NEW e \in Plaintexts, PlaintextOK(e, k)
    PROVE  PlaintextOK(e, k)'
<1> USE TTLAssumption
<1>1. now \in Nat /\ revokedAt[k] \in Nat /\ RowStep(k) /\ now' = now
  BY DEF TypeOK, WorldStep
<1> QED  BY <1>1 DEF PlaintextOK, RowStep, Plaintexts

LEMMA WorldKeepsEntry ==
    ASSUME TypeOK, WorldStep, NEW e \in TPSEntries, EntryOK(e)
    PROVE  EntryOK(e)'
<1> USE TTLAssumption
<1>1. now \in Nat /\ changedAt \in Nat /\ e.hard \in Nat
  BY DEF TypeOK, TPSEntries, NoEntry
<1> QED  BY <1>1 DEF EntryOK, WorldStep

\* A step of administrator a that may change the database.
LEMMA AdminStep ==
    ASSUME CacheInv, WorldStep, NEW a \in Admins,
           settings' \in [key : Keys \cup {NoKey}, version : Nat],
           ops' \in Nat, faults' \in Nat, changedAt' \in Nat, highest' \in Nat,
           call' \in [Calls -> CallStates],
           \A d \in Calls \ {a} : /\ call'[d].pc = call[d].pc
                                  /\ call'[d].key = call[d].key
                                  /\ call'[d].at = call[d].at,
           call'[a].pc \in AdminSteps \cup {"idle"}, Administers(call'[a]),
           tps' \in TPSEntries, EntryOK(tps'),
           plain' \in [Pods -> [Keys -> Plaintexts]], MapOK(plain')
    PROVE  CacheInv'
<1>1. TypeOK /\ GettersOK(call) /\ AdminsOK(call)
  BY DEF CacheInv
<1>2. TypeOK'
  BY <1>1 DEF TypeOK, WorldStep
<1>3. GettersOK(call)'
  <2> SUFFICES ASSUME NEW d \in Getters
               PROVE  call'[d].pc \in GetterSteps \cup {"idle"} /\ Carries(call[d])'
    BY DEF GettersOK
  <2>1. d \in Calls \ {a} /\ call'[d] \in CallStates
    BY CallsAssumption DEF Calls
  <2>2. PICK r \in CallStates : r = call'[d]
    BY <2>1
  <2>3. r.pc \in GetterSteps \cup {"idle"} /\ Carries(r)
    BY <1>1, <2>1, <2>2 DEF GettersOK, Carries
  <2>4. Carries(r)'
    BY <1>1, <2>3, WorldKeepsCarries
  <2> QED  BY <2>2, <2>3, <2>4 DEF Carries
<1>4. AdminsOK(call)'
  BY <1>1 DEF AdminsOK, Administers, Calls
<1>5. MapOK(plain)'
  <2> SUFFICES ASSUME NEW p \in Pods, NEW k \in Keys
               PROVE  PlaintextOK(plain[p][k], k)'
    BY DEF MapOK
  <2>1. PICK e \in Plaintexts : e = plain'[p][k]
    OBVIOUS
  <2>2. PlaintextOK(e, k)
    BY <2>1 DEF MapOK
  <2>3. PlaintextOK(e, k)'
    BY <1>1, <2>2, WorldKeepsPlaintext
  <2> QED  BY <2>1, <2>3 DEF PlaintextOK
<1>6. EntryOK(tps)'
  <2>1. PICK e \in TPSEntries : e = tps'
    OBVIOUS
  <2>2. EntryOK(e)'
    BY <1>1, <2>1, WorldKeepsEntry
  <2> QED  BY <2>1, <2>2 DEF EntryOK
<1> QED  BY <1>2, <1>3, <1>4, <1>5, <1>6 DEF CacheInv

-----------------------------------------------------------------------------
(* Administrators *)

\* A step that leaves the database alone.
LEMMA StillWorld ==
    ASSUME TypeOK, UNCHANGED <<row, settings, now, history>>
    PROVE  /\ WorldStep /\ settings' \in [key : Keys \cup {NoKey}, version : Nat]
           /\ changedAt' \in Nat /\ highest' \in Nat
  BY DEF TypeOK, WorldStep, RowStep, history

LEMMA RequestKeeps ==
    ASSUME CacheInv, NEW a \in Admins,
           \/ CountKeys(a)
           \/ \E k \in Keys : CheckActivate(a, k) \/ CheckRotate(a, k) \/ CheckRevoke(a, k)
    PROVE  CacheInv'
<1>1. /\ TypeOK /\ a \in Calls /\ ops \in Nat /\ faults \in Nat
      /\ tps \in TPSEntries /\ EntryOK(tps) /\ MapOK(plain)
      /\ plain \in [Pods -> [Keys -> Plaintexts]]
  BY DEF CacheInv, TypeOK, Calls
<1>2. PICK j \in Keys \cup {NoKey}, next \in {"insert", "upsert", "rotate", "revoke"} :
         Request(a, j, next) /\ (next # "insert" => j \in Keys)
  BY DEF CountKeys, CheckActivate, CheckRotate, CheckRevoke
<1>3. faults' \in Nat
  BY <1>1 DEF CountKeys, CheckActivate, CheckRotate, CheckRevoke, Fault
<1> DEFINE r == [pc |-> next, key |-> j, at |-> 0, fresh |-> FALSE]
<1>4. r \in CallStates /\ Administers(r) /\ r.pc \in AdminSteps \cup {"idle"}
  BY <1>2 DEF CallStates, AdminSteps, Administers
<1>5. /\ Become(a, r) /\ ops' \in Nat
      /\ UNCHANGED <<row, settings, now, history>> /\ UNCHANGED <<tps, plain>>
  BY <1>1, <1>2 DEF Request
<1>6. call' \in [Calls -> CallStates] /\ call'[a] = r
        /\ \A d \in Calls \ {a} : call'[d] = call[d]
  BY <1>1, <1>4, <1>5, BecomeWrites
<1>7. /\ WorldStep /\ settings' \in [key : Keys \cup {NoKey}, version : Nat]
      /\ changedAt' \in Nat /\ highest' \in Nat
  BY <1>1, <1>5, StillWorld
<1>8. tps' \in TPSEntries /\ EntryOK(tps') /\ MapOK(plain')
        /\ plain' \in [Pods -> [Keys -> Plaintexts]]
  BY <1>1, <1>5
<1> QED  BY <1>3, <1>4, <1>5, <1>6, <1>7, <1>8, AdminStep

\* Steps of an administrator that leave the database alone.
LEMMA AdminMoves ==
    ASSUME CacheInv, NEW a \in Admins, NEW r \in CallStates, Become(a, r),
           r.pc \in AdminSteps \cup {"idle"}, Administers(r),
           UNCHANGED <<row, settings, now, ops, history>>, faults' \in Nat,
           tps' \in TPSEntries, EntryOK(tps'),
           plain' \in [Pods -> [Keys -> Plaintexts]], MapOK(plain')
    PROVE  CacheInv'
<1>1. TypeOK /\ a \in Calls /\ ops' \in Nat
  BY DEF CacheInv, Calls, TypeOK
<1>2. call' \in [Calls -> CallStates] /\ call'[a] = r
        /\ \A d \in Calls \ {a} : call'[d] = call[d]
  BY <1>1, BecomeWrites
<1>3. /\ WorldStep /\ settings' \in [key : Keys \cup {NoKey}, version : Nat]
      /\ changedAt' \in Nat /\ highest' \in Nat
  BY <1>1, StillWorld
<1> QED  BY <1>1, <1>2, <1>3, AdminStep

LEMMA AdminCachesKeep ==
    ASSUME CacheInv, NEW a \in Admins,
           EvictRotated(a) \/ EvictRevoked(a) \/ InvalidateTPS(a)
    PROVE  CacheInv'
<1> USE TTLAssumption, KeysAssumption
<1>1. /\ TypeOK /\ a \in Calls /\ now \in Nat /\ faults \in Nat /\ changedAt \in Nat
      /\ tps \in TPSEntries /\ EntryOK(tps) /\ MapOK(plain)
      /\ plain \in [Pods -> [Keys -> Plaintexts]]
      /\ call[a] \in CallStates /\ Administers(call[a])
  BY DEF CacheInv, TypeOK, Calls, AdminsOK
<1>2. CASE EvictRotated(a) \/ EvictRevoked(a)
  <2>1. PICK next \in {"invalidate", "clear"} : Evict(a, next)
    BY <1>2 DEF EvictRotated, EvictRevoked
  <2>2. call[a].key \in Keys /\ call[a].fresh \in BOOLEAN
    BY <1>1, <1>2 DEF EvictRotated, EvictRevoked, At, Administers, AdminSteps, CallStates
  <2>3. Uncached \in Plaintexts /\ PlaintextOK(Uncached, call[a].key)
    <3>1. revokedAt[call[a].key] \in Nat
      BY <1>1, <2>2 DEF TypeOK
    <3> QED  BY <1>1, <3>1 DEF Uncached, Plaintexts, PlaintextOK
  <2>4. plain' \in [Pods -> [Keys -> Plaintexts]] /\ MapOK(plain')
    BY <1>1, <2>1, <2>2, <2>3, WriteWrites DEF Evict
  <2> DEFINE r == [pc |-> next, key |-> call[a].key, at |-> 0, fresh |-> call[a].fresh]
  <2>5. r \in CallStates /\ Administers(r) /\ r.pc \in AdminSteps \cup {"idle"}
    BY <2>1, <2>2 DEF CallStates, AdminSteps, Administers
  <2>6. Become(a, r)
    BY <2>1 DEF Evict, Goto
  <2>7. UNCHANGED <<row, settings, now, ops, history>> /\ faults' \in Nat
          /\ tps' \in TPSEntries /\ EntryOK(tps')
    BY <1>1, <2>1 DEF Evict
  <2> QED  BY <2>4, <2>5, <2>6, <2>7, AdminMoves
<1>3. CASE InvalidateTPS(a)
  <2>1. tps' \in TPSEntries /\ EntryOK(tps')
    BY <1>1, <1>3 DEF InvalidateTPS, NoEntry, TPSEntries, EntryOK
  <2>2. /\ Become(a, Idle) /\ Idle \in CallStates /\ Administers(Idle)
        /\ Idle.pc \in AdminSteps \cup {"idle"}
    BY <1>3 DEF InvalidateTPS, Return, Idle, CallStates, Administers, AdminSteps
  <2>3. UNCHANGED <<row, settings, now, ops, history>> /\ faults' \in Nat
          /\ plain' \in [Pods -> [Keys -> Plaintexts]] /\ MapOK(plain')
    BY <1>1, <1>3 DEF InvalidateTPS
  <2> QED  BY <2>1, <2>2, <2>3, AdminMoves
<1> QED  BY <1>2, <1>3

\* A new key, or a revoked one: the rows change.
LEMMA RowsKeep ==
    ASSUME CacheInv, NEW a \in Admins, Store(a) \/ MarkRevoked(a)
    PROVE  CacheInv'
<1>1. /\ TypeOK /\ a \in Calls /\ now \in Nat /\ faults \in Nat /\ ops \in Nat
      /\ tps \in TPSEntries /\ EntryOK(tps) /\ MapOK(plain)
      /\ plain \in [Pods -> [Keys -> Plaintexts]]
      /\ call[a] \in CallStates /\ Administers(call[a])
  BY DEF CacheInv, TypeOK, Calls, AdminsOK
<1>2. /\ UNCHANGED <<settings, now, ops, faults, tps, plain, changedAt, highest>>
  BY DEF Store, MarkRevoked, history
<1>3. PICK r \in CallStates :
         Become(a, r) /\ Administers(r) /\ r.pc \in AdminSteps \cup {"idle"}
  <2>1. CASE Store(a)
    <3>1. Idle \in CallStates /\ Administers(Idle) /\ Idle.pc \in AdminSteps \cup {"idle"}
      BY DEF Idle, CallStates, Administers, AdminSteps
    <3> QED  BY <2>1, <3>1 DEF Store, Return
  <2>2. CASE MarkRevoked(a)
    <3> DEFINE r == [pc |-> "evictRevoked", key |-> call[a].key, at |-> 0,
                     fresh |-> call[a].fresh]
    <3>1. call[a].key \in Keys /\ call[a].fresh \in BOOLEAN
      BY <1>1, <2>2 DEF MarkRevoked, At, Administers, AdminSteps, CallStates
    <3>2. r \in CallStates /\ Administers(r) /\ r.pc \in AdminSteps \cup {"idle"}
      BY <3>1 DEF CallStates, AdminSteps, Administers
    <3> QED  BY <2>2, <3>2 DEF MarkRevoked, Goto
  <2> QED  BY <2>1, <2>2
<1>4. call' \in [Calls -> CallStates] /\ call'[a] = r
        /\ \A d \in Calls \ {a} : call'[d] = call[d]
  BY <1>1, <1>3, BecomeWrites
<1>5. WorldStep
  <2>1. CASE Store(a)
    BY <1>1, <1>2, <2>1 DEF Store, WorldStep, RowStep, TypeOK, history
  <2>2. CASE MarkRevoked(a)
    <3>1. /\ row' = [row EXCEPT ![call[a].key] = "revoked"]
          /\ revokedAt' = IF row[call[a].key] = "revoked" THEN revokedAt
                          ELSE [revokedAt EXCEPT ![call[a].key] = now]
          /\ row \in [Keys -> {"absent", "live", "revoked"}]
          /\ revokedAt \in [Keys -> Nat] /\ now \in Nat
      BY <1>1, <2>2 DEF MarkRevoked, RevokeRow, TypeOK
    <3>2. /\ row' \in [Keys -> {"absent", "live", "revoked"}]
          /\ revokedAt' \in [Keys -> Nat] /\ \A k \in Keys : RowStep(k)
      BY <3>1 DEF RowStep
    <3> QED  BY <1>2, <3>2 DEF WorldStep
  <2> QED  BY <2>1, <2>2
<1>6. /\ settings' \in [key : Keys \cup {NoKey}, version : Nat] /\ ops' \in Nat
      /\ faults' \in Nat /\ changedAt' \in Nat /\ highest' \in Nat
      /\ tps' \in TPSEntries /\ EntryOK(tps')
      /\ plain' \in [Pods -> [Keys -> Plaintexts]] /\ MapOK(plain')
  BY <1>1, <1>2 DEF TypeOK
<1> QED  BY <1>3, <1>4, <1>5, <1>6, AdminStep

\* The settings row changes.
LEMMA SettingsRowKeeps ==
    ASSUME CacheInv, NEW a \in Admins, Upsert(a) \/ RotateTx(a) \/ ClearSettings(a)
    PROVE  CacheInv'
<1>1. /\ TypeOK /\ a \in Calls /\ now \in Nat /\ faults \in Nat /\ ops \in Nat
      /\ tps \in TPSEntries /\ EntryOK(tps) /\ MapOK(plain)
      /\ plain \in [Pods -> [Keys -> Plaintexts]]
      /\ call \in [Calls -> CallStates] /\ call[a] \in CallStates
      /\ Administers(call[a]) /\ highest \in Nat
      /\ settings \in [key : Keys \cup {NoKey}, version : Nat]
  BY DEF CacheInv, TypeOK, Calls, AdminsOK
<1>2. /\ UNCHANGED <<now, ops, faults, tps, plain>>
  BY DEF Upsert, RotateTx, ClearSettings
<1>3. call[a].key \in Keys
  BY <1>1 DEF Upsert, RotateTx, ClearSettings, At, Administers, AdminSteps
<1>4. NextVersion \in Nat
  BY <1>1 DEF NextVersion
<1>5. ASSUME NEW k \in Keys, NEW next \in {"invalidate", "evictRotated"},
             ChangeSettings(a, k, NextVersion, next)
      PROVE  /\ settings' \in [key : Keys \cup {NoKey}, version : Nat]
             /\ changedAt' = now /\ highest' \in Nat
             /\ call' \in [Calls -> CallStates]
             /\ \A d \in Calls \ {a} : /\ call'[d].pc = call[d].pc
                                       /\ call'[d].key = call[d].key
                                       /\ call'[d].at = call[d].at
             /\ call'[a].pc \in AdminSteps \cup {"idle"} /\ Administers(call'[a])
  <2>1. settings' \in [key : Keys \cup {NoKey}, version : Nat] /\ changedAt' = now
          /\ highest' \in Nat
    BY <1>1, <1>4, <1>5 DEF ChangeSettings, Larger
  <2>2. \A d \in Calls : /\ call'[d] = [call[d] EXCEPT !.fresh = FALSE,
                                          !.pc = IF d = a THEN next ELSE @]
                         /\ call[d] \in CallStates
    BY <1>1, <1>5 DEF ChangeSettings
  <2>3. \A d \in Calls : /\ call'[d] \in CallStates
                         /\ call'[d].pc = IF d = a THEN next ELSE call[d].pc
                         /\ call'[d].key = call[d].key /\ call'[d].at = call[d].at
    <3>1. next \in AdminSteps
      BY ONLY <1>5 DEF AdminSteps
    <3>2. ASSUME NEW d \in Calls, d = a
          PROVE  /\ call'[d] \in CallStates /\ call'[d].pc = next
                 /\ call'[d].key = call[d].key /\ call'[d].at = call[d].at
      <4>1. /\ call'[d] = [call[d] EXCEPT !.fresh = FALSE, !.pc = next]
            /\ call[d] \in CallStates
        BY ONLY <2>2, <3>2
      <4> QED  BY ONLY <3>1, <4>1 DEF CallStates
    <3>3. ASSUME NEW d \in Calls, d # a
          PROVE  /\ call'[d] \in CallStates /\ call'[d].pc = call[d].pc
                 /\ call'[d].key = call[d].key /\ call'[d].at = call[d].at
      <4>1. /\ call'[d] = [call[d] EXCEPT !.fresh = FALSE, !.pc = call[d].pc]
            /\ call[d] \in CallStates
        BY ONLY <2>2, <3>3
      <4> QED  BY ONLY <4>1 DEF CallStates
    <3> QED  BY ONLY <3>2, <3>3
  <2>4. call' \in [Calls -> CallStates]
    BY <1>5, <2>3 DEF ChangeSettings
  <2> QED  BY <1>1, <1>3, <2>1, <2>3, <2>4 DEF AdminSteps, Administers
<1>6. CASE Upsert(a)
  <2>1. ChangeSettings(a, call[a].key, NextVersion, "invalidate") /\ UNCHANGED <<row, revokedAt>>
    BY <1>6 DEF Upsert
  <2>2. WorldStep
    BY <1>1, <1>2, <1>3, <1>5, <2>1 DEF WorldStep, RowStep, TypeOK
  <2> QED  BY <1>1, <1>2, <1>3, <1>5, <2>1, <2>2, AdminStep
<1>7. CASE RotateTx(a)
  <2>1. PICK k \in Keys : /\ RevokeRow([row EXCEPT ![k] = "live"], call[a].key)
                          /\ ChangeSettings(a, k, NextVersion, "evictRotated")
    BY <1>7 DEF RotateTx
  <2>2. WorldStep
    BY <1>1, <1>2, <1>3, <1>5, <2>1 DEF WorldStep, RowStep, RevokeRow, TypeOK
  <2> QED  BY <1>1, <1>2, <1>5, <2>1, <2>2, AdminStep
<1>8. CASE ClearSettings(a)
  <2>1. /\ Idle \in CallStates /\ Administers(Idle)
        /\ Idle.pc \in AdminSteps \cup {"idle"}
    BY KeysAssumption DEF Idle, CallStates, Administers, AdminSteps
  <2>2. CASE Return(a) /\ UNCHANGED <<settings, history>>
    BY <1>1, <1>2, <1>8, <2>1, <2>2, AdminMoves DEF Return, ClearSettings
  <2>3. CASE /\ settings' = [key |-> NoKey, version |-> 0] /\ changedAt' = now
             /\ call' = [c \in Calls |-> IF c = a THEN Idle
                                         ELSE [call[c] EXCEPT !.fresh = FALSE]]
             /\ UNCHANGED <<revokedAt, highest>>
    <3>1. UNCHANGED row
      BY <1>8 DEF ClearSettings
    <3>2. WorldStep
      BY <1>1, <1>2, <2>3, <3>1 DEF WorldStep, RowStep, TypeOK
    <3>3. \A d \in Calls \ {a} : /\ call'[d] \in CallStates
                                /\ call'[d].pc = call[d].pc
                                /\ call'[d].key = call[d].key
                                /\ call'[d].at = call[d].at
      BY <1>1, <2>3 DEF CallStates
    <3>4. call'[a] = Idle /\ call' \in [Calls -> CallStates]
      BY <1>1, <2>1, <2>3, <3>3
    <3> QED  BY <1>1, <1>2, <2>1, <2>3, <3>2, <3>3, <3>4, AdminStep
  <2> QED  BY <1>8, <2>2, <2>3 DEF ClearSettings
<1> QED  BY <1>6, <1>7, <1>8

-----------------------------------------------------------------------------
(* Failures and time *)

LEMMA FailureKeeps ==
    ASSUME CacheInv, NEW c \in Calls, CommandFails(c) \/ StatementFails(c)
    PROVE  CacheInv'
<1> USE KeysAssumption
<1>1. /\ TypeOK /\ faults \in Nat
      /\ tps \in TPSEntries /\ EntryOK(tps) /\ MapOK(plain)
      /\ plain \in [Pods -> [Keys -> Plaintexts]]
      /\ call[c] \in CallStates /\ GettersOK(call) /\ AdminsOK(call)
  BY DEF CacheInv, TypeOK
<1>2. /\ UNCHANGED <<row, settings, now, ops, history>> /\ faults' \in Nat
      /\ tps' \in TPSEntries /\ EntryOK(tps') /\ MapOK(plain')
      /\ plain' \in [Pods -> [Keys -> Plaintexts]]
  BY <1>1 DEF CommandFails, StatementFails, Fault
<1>3. Idle \in CallStates /\ Carries(Idle) /\ Administers(Idle) /\ Idle.pc = "idle"
  BY DEF Idle, CallStates, Carries, Administers, AdminSteps
<1>4. CASE Return(c)
  <2>1. CASE c \in Getters
    BY <1>2, <1>3, <1>4, <2>1, GetterStep DEF Return
  <2>2. CASE c \in Admins
    BY <1>2, <1>3, <1>4, <2>2, AdminMoves DEF Return
  <2> QED  BY <2>1, <2>2 DEF Calls
<1>5. ASSUME NEW next \in {"plain", "settings"}, Goto(c, next),
             call[c].pc \in {"slide", "drop", "cache"},
             next = "plain" => call[c].pc # "drop"
      PROVE  CacheInv'
  <2> DEFINE r == [pc |-> next, key |-> call[c].key, at |-> 0, fresh |-> call[c].fresh]
  <2>1. c \in Getters
    BY <1>1, <1>5 DEF AdminsOK, AdminSteps, Calls
  <2>2. r \in CallStates
    BY <1>1 DEF CallStates, GetterSteps
  <2>3. Carries(call[c])
    BY <1>1, <2>1 DEF GettersOK
  <2>4. Carries(r)
    BY <1>5, <2>3 DEF Carries
  <2>5. Become(c, r) /\ r.pc \in GetterSteps
    BY <1>5 DEF Goto, GetterSteps
  <2> QED  BY <1>2, <2>1, <2>2, <2>4, <2>5, GetterStep
<1> QED  BY <1>4, <1>5 DEF CommandFails, StatementFails, At

LEMMA RestartKeeps ==
    ASSUME CacheInv, NEW p \in Pods, Restart(p)
    PROVE  CacheInv'
<1> USE TTLAssumption
<1>1. /\ TypeOK /\ GettersOK(call) /\ AdminsOK(call) /\ MapOK(plain) /\ EntryOK(tps)
  BY DEF CacheInv
<1>2. Idle \in CallStates /\ Carries(Idle) /\ Administers(Idle) /\ Idle.pc = "idle"
  BY DEF Idle, CallStates, Carries, Administers, AdminSteps
<1>3. \A c \in Calls : call'[c] \in {Idle, call[c]}
  BY DEF Restart
<1>4. call' \in [Calls -> CallStates]
  BY <1>1, <1>2 DEF Restart, TypeOK
<1>5. GettersOK(call') /\ AdminsOK(call')
  BY <1>1, <1>2, <1>3 DEF GettersOK, AdminsOK, Calls
<1>6. Uncached \in Plaintexts
  BY DEF Uncached, Plaintexts
<1>7. plain' \in [Pods -> [Keys -> Plaintexts]]
  BY <1>1, <1>6 DEF Restart, TypeOK
<1>8. \A q \in Pods, k \in Keys : plain'[q][k] \in {Uncached, plain[q][k]}
  BY <1>1 DEF Restart, TypeOK
<1>9. \A k \in Keys : PlaintextOK(Uncached, k)
  BY <1>1 DEF PlaintextOK, Uncached, TypeOK
<1>10. MapOK(plain')
  BY <1>1, <1>8, <1>9 DEF MapOK
<1>11. UNCHANGED <<row, settings, tps, now, ops, history>> /\ faults' \in Nat
  BY <1>1 DEF Restart, Fault, TypeOK
<1>12. TypeOK'
  BY <1>1, <1>4, <1>7, <1>11 DEF TypeOK, history
<1>13. GettersOK(call)' /\ AdminsOK(call)' /\ MapOK(plain)' /\ EntryOK(tps)'
  BY <1>1, <1>5, <1>10, <1>11
     DEF GettersOK, AdminsOK, Carries, Administers, MapOK, PlaintextOK, EntryOK, history
<1> QED  BY <1>12, <1>13 DEF CacheInv

LEMMA TickKeeps ==
    ASSUME CacheInv, Tick
    PROVE  CacheInv'
<1> USE TTLAssumption
<1>1. /\ TypeOK /\ GettersOK(call) /\ AdminsOK(call) /\ MapOK(plain) /\ EntryOK(tps)
      /\ now \in Nat
  BY DEF CacheInv, TypeOK
<1>2. now' = now + 1 /\ UNCHANGED <<row, settings, tps, plain, call, ops, faults, history>>
  BY DEF Tick
<1>3. TypeOK'
  BY <1>1, <1>2 DEF TypeOK, history
<1>4. GettersOK(call)'
  <2> SUFFICES ASSUME NEW c \in Getters
               PROVE  call'[c].pc \in GetterSteps \cup {"idle"} /\ Carries(call[c])'
    BY DEF GettersOK
  <2>1. /\ call[c].pc \in GetterSteps \cup {"idle"} /\ Carries(call[c])
        /\ call[c].at \in Nat
    BY <1>1 DEF GettersOK, TypeOK, Calls, CallStates
  <2>2. call[c].pc \in {"cache", "store"} => now - call[c].at < Delay
    BY DEF Tick, At
  <2> QED  BY <1>1, <1>2, <2>1, <2>2 DEF Carries, history
<1>5. AdminsOK(call)'
  BY <1>1, <1>2 DEF AdminsOK, Administers
<1>6. MapOK(plain)'
  <2> SUFFICES ASSUME NEW p \in Pods, NEW k \in Keys
               PROVE  PlaintextOK(plain[p][k], k)'
    BY DEF MapOK
  <2>1. PlaintextOK(plain[p][k], k) /\ plain[p][k].hard \in Nat
    BY <1>1 DEF MapOK, TypeOK, Plaintexts
  <2> QED  BY <1>1, <1>2, <2>1 DEF PlaintextOK, history
<1>7. EntryOK(tps)'
  <2>1. tps.hard \in Nat
    BY <1>1 DEF TypeOK, TPSEntries, NoEntry
  <2> QED  BY <1>1, <1>2, <2>1 DEF EntryOK, history
<1> QED  BY <1>3, <1>4, <1>5, <1>6, <1>7 DEF CacheInv

-----------------------------------------------------------------------------
(* The theorems *)

\* The inductive invariant holds in every reachable state.
LEMMA CacheInvariant == Spec => []CacheInv
<1>1. Init => CacheInv
  <2> SUFFICES ASSUME Init PROVE CacheInv
    OBVIOUS
  <2> USE TTLAssumption
  <2>1. Idle \in CallStates /\ Carries(Idle) /\ Administers(Idle) /\ Idle.pc = "idle"
    BY DEF Idle, CallStates, Carries, Administers, AdminSteps
  <2>2. settings \in [key : Keys \cup {NoKey}, version : Nat]
    BY DEF Init, LiveKeys
  <2>3. TypeOK
    BY <2>1, <2>2 DEF Init, TypeOK, TPSEntries, NoEntry, Uncached, Plaintexts
  <2>4. GettersOK(call) /\ AdminsOK(call)
    BY <2>1 DEF Init, GettersOK, AdminsOK, Calls
  <2>5. MapOK(plain) /\ EntryOK(tps)
    BY DEF Init, MapOK, PlaintextOK, EntryOK, Uncached, NoEntry
  <2> QED  BY <2>3, <2>4, <2>5 DEF CacheInv
<1>2. CacheInv /\ [Next]_vars => CacheInv'
  <2> SUFFICES ASSUME CacheInv, [Next]_vars PROVE CacheInv'
    OBVIOUS
  <2>1. CASE \E c \in Getters : GetActiveKey(c)
    BY <2>1, LookupKeeps, SettingsKeeps, PlaintextKeeps DEF GetActiveKey
  <2>2. CASE \E a \in Admins : Administer(a)
    BY <2>2, RequestKeeps, AdminCachesKeep, RowsKeep, SettingsRowKeeps DEF Administer
  <2>3. CASE \E c \in Calls : CommandFails(c) \/ StatementFails(c)
    BY <2>3, FailureKeeps
  <2>4. CASE \E p \in Pods : Restart(p)
    BY <2>4, RestartKeeps
  <2>5. CASE Tick
    BY <2>5, TickKeeps
  <2>6. CASE UNCHANGED vars
    BY <2>6 DEF CacheInv, TypeOK, GettersOK, AdminsOK, Carries, Administers, MapOK,
       PlaintextOK, EntryOK, vars, history
  <2> QED  BY <2>1, <2>2, <2>3, <2>4, <2>5, <2>6 DEF Next
<1> QED  BY <1>1, <1>2, PTL DEF Spec

\* No request takes a revoked key from the map of a pod (GetPlaintext), or
\* follows a Redis entry (GetActiveKey) that differs from the settings row, later
\* than HardTTL + Delay after the revocation or the last change of the row, for
\* any number of keys, pods, requests and failures.
THEOREM StaleUseEnds == Spec => []StaleUseBounded
<1>1. CacheInv => StaleUseBounded
  BY DEF CacheInv, GettersOK, Carries, StaleUseBounded, At
<1> QED  BY <1>1, CacheInvariant, PTL

\* A cached settings entry always names a key, and the state keeps its shape.
THEOREM KeyTypes == Spec => []TypeOK
<1>1. CacheInv => TypeOK
  BY DEF CacheInv
<1> QED  BY <1>1, CacheInvariant, PTL

-----------------------------------------------------------------------------
(* The active key, while one administrator is at work.                     *)

OneAdmin == \A a, b \in Admins : a = b

\* The settings row names a live key, or the one whose revocation has yet to
\* clear it; what an administrator is about to activate or to rotate is live.
SettingsLive ==
    \/ settings.key \in LiveKeys \cup {NoKey}
    \/ \E a \in Admins : /\ call[a].pc \in {"evictRevoked", "clear"}
                         /\ call[a].key = settings.key

CheckedIsLive ==
    \A a \in Admins : call[a].pc \in {"upsert", "rotate"} => row[call[a].key] = "live"

ActiveInv == faults = 0 => SettingsLive /\ CheckedIsLive

\* A step that changes neither the rows nor the settings, and no administrator.
LEMMA ActiveSame ==
    ASSUME TypeOK, ActiveInv, UNCHANGED <<row, settings>>, faults' \in Nat,
           faults' = 0 => faults = 0,
           \A a \in Admins : call'[a] = call[a]
    PROVE  ActiveInv'
  BY DEF ActiveInv, SettingsLive, CheckedIsLive, LiveKeys

\* A failure ends what the invariant promises.
LEMMA ActiveFault == TypeOK /\ Fault => ActiveInv'
  BY DEF TypeOK, Fault, ActiveInv

\* The one administrator's step, when nothing fails.
LEMMA ActiveAdmin ==
    ASSUME OneAdmin, CacheInv, CacheInv', ActiveInv, faults = 0, faults' = 0,
           NEW a \in Admins, Administer(a)
    PROVE  ActiveInv'
<1>t. /\ TypeOK /\ a \in Calls /\ call \in [Calls -> CallStates]
      /\ row \in [Keys -> {"absent", "live", "revoked"}]
      /\ settings.key \in Keys \cup {NoKey}
      /\ Administers(call[a]) /\ SettingsLive /\ CheckedIsLive
  BY DEF CacheInv, TypeOK, Calls, AdminsOK, ActiveInv
<1>u. \A b \in Admins : b = a
  BY DEF OneAdmin
\* The goal, for the one administrator.
<1>g. ASSUME \/ settings'.key \in LiveKeys' \cup {NoKey}
             \/ call'[a].pc \in {"evictRevoked", "clear"} /\ call'[a].key = settings'.key,
             call'[a].pc \in {"upsert", "rotate"} => row'[call'[a].key] = "live"
      PROVE  ActiveInv'
  BY <1>g, <1>u DEF ActiveInv, SettingsLive, CheckedIsLive
<1>l. ASSUME call[a].pc \notin {"evictRevoked", "clear"}
      PROVE  settings.key \in LiveKeys \cup {NoKey}
  BY <1>l, <1>t, <1>u DEF SettingsLive
<1>1. ASSUME NEW k \in Keys \cup {NoKey}, NEW next, Request(a, k, next),
             next \in {"upsert", "rotate"} => row[k] = "live"
      PROVE  ActiveInv'
  <2>1. /\ call'[a].pc = next /\ call'[a].key = k /\ UNCHANGED <<row, settings>>
        /\ call[a].pc = "idle"
    BY <1>1, <1>t DEF Request, Become, At
  <2> QED
    BY <1>1, <1>g, <1>l, <2>1 DEF LiveKeys
<1>2. CASE CountKeys(a)
  BY <1>1, <1>2 DEF CountKeys
<1>3. ASSUME NEW k \in Keys, CheckActivate(a, k) \/ CheckRotate(a, k) \/ CheckRevoke(a, k)
      PROVE  ActiveInv'
  BY <1>1, <1>3 DEF CheckActivate, CheckRotate, CheckRevoke
<1>4. CASE Store(a)
  <2>1. /\ call'[a] = Idle /\ settings' = settings /\ call[a].pc = "insert"
        /\ LiveKeys \subseteq LiveKeys'
    BY <1>4, <1>t DEF Store, Return, Become, At, LiveKeys
  <2> QED
    BY <1>g, <1>l, <2>1 DEF Idle
<1>5. CASE Upsert(a)
  <2>1. /\ call'[a].pc = "invalidate" /\ settings'.key = call[a].key /\ row' = row
        /\ call[a].pc = "upsert"
    BY <1>5, <1>t DEF Upsert, ChangeSettings, At, CallStates
  <2>2. call[a].key \in Keys /\ row[call[a].key] = "live"
    BY <1>t, <2>1 DEF Administers, AdminSteps, CheckedIsLive
  <2> QED
    BY <1>g, <2>1, <2>2 DEF LiveKeys
<1>6. CASE RotateTx(a)
  <2>1. PICK k \in Keys : /\ row[k] = "absent"
                          /\ RevokeRow([row EXCEPT ![k] = "live"], call[a].key)
                          /\ ChangeSettings(a, k, NextVersion, "evictRotated")
    BY <1>6 DEF RotateTx
  <2>2. /\ call'[a].pc = "evictRotated" /\ settings'.key = k /\ call[a].pc = "rotate"
    BY <1>6, <1>t, <2>1 DEF RotateTx, ChangeSettings, At, CallStates
  <2>3. call[a].key # k
    BY <1>t, <2>1, <2>2 DEF CheckedIsLive
  <2>4. k \in LiveKeys'
    BY <1>t, <2>1, <2>3 DEF RevokeRow, LiveKeys
  <2> QED
    BY <1>g, <2>2, <2>4
<1>7. CASE EvictRotated(a) \/ InvalidateTPS(a)
  <2>1. /\ UNCHANGED <<row, settings>> /\ call'[a].pc \in {"invalidate", "idle"}
        /\ call[a].pc \in {"evictRotated", "invalidate"}
    BY <1>7, <1>t DEF EvictRotated, InvalidateTPS, Evict, Goto, Return, Become, Idle, At
  <2> QED
    BY <1>g, <1>l, <2>1 DEF LiveKeys
<1>8. CASE MarkRevoked(a)
  <2>1. /\ call'[a].pc = "evictRevoked" /\ call'[a].key = call[a].key /\ settings' = settings
        /\ row' = [row EXCEPT ![call[a].key] = "revoked"] /\ call[a].pc = "revoke"
    BY <1>8, <1>t DEF MarkRevoked, RevokeRow, Goto, Become, At
  <2>2. settings.key # call[a].key => settings.key \in LiveKeys' \cup {NoKey}
    BY <1>l, <1>t, <2>1 DEF LiveKeys
  <2> QED
    BY <1>g, <2>1, <2>2
<1>9. CASE EvictRevoked(a)
  <2>1. /\ UNCHANGED <<row, settings>> /\ call'[a].pc = "clear" /\ call'[a].key = call[a].key
    BY <1>9, <1>t DEF EvictRevoked, Evict, Goto, Become, At
  <2> QED
    BY <1>g, <1>t, <1>u, <2>1 DEF SettingsLive, LiveKeys
<1>10. CASE ClearSettings(a)
  <2>1. call'[a].pc = "idle" /\ row' = row /\ NoKey \notin Keys
    BY <1>10, <1>t, KeysAssumption DEF ClearSettings, Return, Become, Idle
  <2>2. settings'.key \in LiveKeys \cup {NoKey}
    BY <1>10, <1>t, <1>u DEF ClearSettings, SettingsLive
  <2> QED
    BY <1>g, <2>1, <2>2 DEF LiveKeys
<1> QED
  BY <1>2, <1>3, <1>4, <1>5, <1>6, <1>7, <1>8, <1>9, <1>10 DEF Administer

LEMMA ActiveStep ==
    ASSUME OneAdmin
    PROVE  CacheInv /\ CacheInv' /\ ActiveInv /\ [Next]_vars => ActiveInv'
<1> SUFFICES ASSUME CacheInv, CacheInv', ActiveInv, [Next]_vars PROVE ActiveInv'
  OBVIOUS
<1>t. TypeOK /\ faults \in Nat /\ faults' \in Nat /\ call \in [Calls -> CallStates]
  BY DEF CacheInv, TypeOK
<1>1. ASSUME NEW c \in Getters, GetActiveKey(c) PROVE ActiveInv'
  <2>1. \/ Fault
        \/ /\ UNCHANGED <<row, settings, faults>> /\ \A a \in Admins : call'[a] = call[a]
    <3>1. \A r : Become(c, r) => \A a \in Admins : call'[a] = call[a]
      BY <1>t, CallsAssumption DEF Become, Calls
    <3> QED
      BY <1>1, <3>1 DEF GetActiveKey, LookupHit, LookupExpired, LookupMiss, Lookup, Slide, Drop,
         LoadSettings, CacheTPS, FromMap, Extend, EvictExpired, Evict, Decrypt, StorePlaintext,
         Goto, Read, Return
  <2> QED
    BY <1>t, <2>1, ActiveFault, ActiveSame
<1>2. ASSUME NEW a \in Admins, Administer(a) PROVE ActiveInv'
  <2>1. faults' = 0 => faults = 0
    BY <1>2, <1>t DEF Administer, CountKeys, Store, CheckActivate, CheckRotate, CheckRevoke,
       Upsert, RotateTx, EvictRotated, InvalidateTPS, MarkRevoked, EvictRevoked, Evict,
       ClearSettings, Fault
  <2> QED
    BY <1>2, <2>1, ActiveAdmin DEF ActiveInv
<1>3. ASSUME \/ \E c \in Calls : CommandFails(c) \/ StatementFails(c)
             \/ \E p \in Pods : Restart(p)
      PROVE  ActiveInv'
  BY <1>3, <1>t, ActiveFault DEF CommandFails, StatementFails, Restart
<1>4. CASE Tick
  BY <1>4, <1>t, ActiveSame DEF Tick
<1>5. CASE UNCHANGED vars
  BY <1>5, <1>t, ActiveSame DEF vars
<1> QED
  BY <1>1, <1>2, <1>3, <1>4, <1>5 DEF Next

\* Activate and Rotate check their key and Revoke clears the settings behind it,
\* so that between the requests of one administrator, while nothing has failed,
\* the active key is live (a revocation at work may still have to clear it),
\* for any number of requests, keys, pods and uses of the key.
THEOREM ActiveKeyIsLive ==
    ASSUME OneAdmin
    PROVE  Spec => []ActiveIsLive
<1>1. Init => ActiveInv
  <2> SUFFICES ASSUME Init PROVE SettingsLive /\ CheckedIsLive
    BY DEF ActiveInv
  <2>1. \A a \in Admins : call[a].pc = "idle"
    BY DEF Init, Calls, Idle
  <2> QED
    BY <2>1 DEF Init, SettingsLive, CheckedIsLive
<1>2. CacheInv /\ CacheInv' /\ ActiveInv /\ [Next]_vars => ActiveInv'
  BY ActiveStep
<1>3. ActiveInv => ActiveIsLive
  BY DEF ActiveInv, ActiveIsLive, Quiet, SettingsLive
<1> QED
  BY <1>1, <1>2, <1>3, CacheInvariant, PTL DEF Spec


=============================================================================

---------------------------- MODULE RateLimiter ----------------------------
(***************************************************************************)
(* Limiter.Check and Limiter.Reconcile (ratelimit/limiter.go): fixed       *)
(* windows counted in Redis.  A check increments the counters of all       *)
(* limits that match the request, looks at the values the increments       *)
(* returned, and takes its increments back when one of them was over.  The *)
(* commands of different requests interleave.  After the response the      *)
(* output-token counters are decremented by what max_tokens overestimated. *)
(*                                                                         *)
(* One tenant; all windows are WindowTicks long.                           *)
(***************************************************************************)
EXTENDS RequestPath

CONSTANTS
  Entry,        \* the tenant's enabled limits
  RPM, OTPM,    \* those counting requests, and output tokens
  Value,        \* [Entry -> Nat]: LimitValue
  Amount,       \* [Request -> [Entry -> Nat]]: 0 when the limit does not match
  Actual,       \* [Request -> Nat]: output tokens of the response
  WindowTicks,  \* window_seconds, in ticks of the clock
  MaxTick       \* bound: the last tick

\* Faults: config, loadLimits fails; redis, a pipeline is lost.

ASSUME ConstantsAssumption ==
  /\ IsFiniteSet(Request)
  /\ RPM \subseteq Entry /\ OTPM \subseteq Entry /\ RPM \cap OTPM = {}
  /\ Value \in [Entry -> Nat]
  /\ Amount \in [Request -> [Entry -> Nat]]
  /\ \A r \in Request, e \in RPM : Amount[r][e] \in {0, 1}
  /\ Actual \in [Request -> Nat]
  /\ WindowTicks \in Nat \ {0} /\ MaxTick \in Nat
  /\ MaxFaults \in Nat

Window == 0..MaxTick

VARIABLES
  win,      \* [Request -> Window]: the window its check counts in
  tick,     \* [Request -> 0..MaxTick]: when it was checked
  todo,     \* [Request -> SUBSET Entry]: increments (or decrements) to come
  held,     \* [Request -> SUBSET Entry]: counters that include its amount
  fits,     \* [Request -> SUBSET Entry]: those whose new value was within the limit
  first,    \* [Request -> SUBSET Entry]: those whose new value was its own amount
  counter,  \* [Entry \X Window -> Int]
  keys,     \* the counters that exist in Redis
  ttl,      \* those with an expiry
  late      \* requests reconciled on counters that did not hold their amount

Status == {"idle", "incr", "undo", "admitted", "rejected", "waved", "settled", "done"}

checkVars == <<st, win, tick, todo, held, fits, first>>
redisVars == <<counter, keys, ttl>>
vars == <<now, checkVars, redisVars, late, faultVars>>

Init ==
  /\ now = 0
  /\ st = [r \in Request |-> "idle"]
  /\ win = [r \in Request |-> 0] /\ tick = [r \in Request |-> 0]
  /\ todo = [r \in Request |-> {}] /\ held = [r \in Request |-> {}]
  /\ fits = [r \in Request |-> {}] /\ first = [r \in Request |-> {}]
  /\ counter = [k \in Entry \X Window |-> 0]
  /\ keys = {} /\ ttl = {}
  /\ late = {} /\ faults = 0 /\ hit = {}

WindowOf(t) == t \div WindowTicks
Entries(r) == {e \in Entry : Amount[r][e] > 0}

-----------------------------------------------------------------------------
\* Check: the matching limits and the window of the clock.
BeginCheck(r) ==
  /\ st[r] = "idle"
  /\ Goto(r, "incr")
  /\ win' = [win EXCEPT ![r] = WindowOf(now)]
  /\ tick' = [tick EXCEPT ![r] = now]
  /\ todo' = [todo EXCEPT ![r] = Entries(r)]
  /\ UNCHANGED <<now, held, fits, first, redisVars, late, faultVars>>

\* "don't block on config errors".
LoadFails(r) ==
  /\ st[r] = "idle" /\ Fault("config")
  /\ Goto(r, "waved")
  /\ UNCHANGED <<now, win, tick, todo, held, fits, first, redisVars, late>>

\* Mutant: one more than the limit passes.
IncrByOneOver(r, e) ==
  LET k == <<e, win[r]>>
      new == counter[k] + Amount[r][e]
  IN /\ st[r] = "incr" /\ e \in todo[r]
     /\ counter' = [counter EXCEPT ![k] = new]
     /\ keys' = keys \cup {k}
     /\ todo' = [todo EXCEPT ![r] = @ \ {e}]
     /\ held' = [held EXCEPT ![r] = @ \cup {e}]
     /\ fits' = [fits EXCEPT ![r] = @ \cup {x \in {e} : new <= Value[e] + 1}]
     /\ first' = [first EXCEPT ![r] = @ \cup {x \in {e} : new = Amount[r][e]}]
     /\ UNCHANGED <<now, st, win, tick, ttl, late, faultVars>>

\* One INCRBY of the pipeline, and the value it returns.
IncrBy(r, e) ==
  LET k == <<e, win[r]>>
      new == counter[k] + Amount[r][e]
  IN /\ st[r] = "incr" /\ e \in todo[r]
     /\ counter' = [counter EXCEPT ![k] = new]
     /\ keys' = keys \cup {k}
     /\ todo' = [todo EXCEPT ![r] = @ \ {e}]
     /\ held' = [held EXCEPT ![r] = @ \cup {e}]
     /\ fits' = [fits EXCEPT ![r] = @ \cup {x \in {e} : new <= Value[e]}]
     /\ first' = [first EXCEPT ![r] = @ \cup {x \in {e} : new = Amount[r][e]}]
     /\ UNCHANGED <<now, st, win, tick, ttl, late, faultVars>>

\* The pipeline fails part way: the request is let through, and what was
\* incremented stays.
IncrLost(r) ==
  /\ st[r] = "incr" /\ todo[r] # {} /\ Fault("redis")
  /\ Goto(r, "waved")
  /\ todo' = [todo EXCEPT ![r] = {}]
  /\ UNCHANGED <<now, win, tick, held, fits, first, redisVars, late>>

\* Mutant: only the counters that are over are taken back.
DecideUndoOver(r) ==
  /\ st[r] = "incr" /\ todo[r] = {}
  /\ ttl' = ttl \cup {<<e, win[r]>> : e \in first[r]}
  /\ \/ held[r] \subseteq fits[r] /\ Goto(r, "admitted") /\ UNCHANGED todo
     \/ /\ ~(held[r] \subseteq fits[r]) /\ Goto(r, "undo")
        /\ todo' = [todo EXCEPT ![r] = held[r] \ fits[r]]
  /\ UNCHANGED <<now, win, tick, held, fits, first, counter, keys, late, faultVars>>

\* Mutant: a rejection returns before the EXPIREs.
DecideExpireAdmitted(r) ==
  /\ st[r] = "incr" /\ todo[r] = {}
  /\ \/ /\ held[r] \subseteq fits[r] /\ Goto(r, "admitted") /\ UNCHANGED todo
        /\ ttl' = ttl \cup {<<e, win[r]>> : e \in first[r]}
     \/ /\ ~(held[r] \subseteq fits[r]) /\ Goto(r, "undo")
        /\ todo' = [todo EXCEPT ![r] = held[r]] /\ UNCHANGED ttl
  /\ UNCHANGED <<now, win, tick, held, fits, first, counter, keys, late, faultVars>>

\* All values are in: EXPIRE for first increments; over a limit, everything
\* is to be taken back.
Decide(r) ==
  /\ st[r] = "incr" /\ todo[r] = {}
  /\ ttl' = ttl \cup {<<e, win[r]>> : e \in first[r]}
  /\ \/ held[r] \subseteq fits[r] /\ Goto(r, "admitted") /\ UNCHANGED todo
     \/ ~(held[r] \subseteq fits[r]) /\ Goto(r, "undo") /\ todo' = [todo EXCEPT ![r] = held[r]]
  /\ UNCHANGED <<now, win, tick, held, fits, first, counter, keys, late, faultVars>>

\* The second pipeline (EXPIRE and rollback) is lost before its first command:
\* its error is ignored and the decision stands.
DecideLost(r) ==
  /\ st[r] = "incr" /\ todo[r] = {} /\ Fault("redis")
  /\ Goto(r, IF held[r] \subseteq fits[r] THEN "admitted" ELSE "rejected")
  /\ UNCHANGED <<now, win, tick, todo, held, fits, first, redisVars, late>>

\* One DECRBY of the rollback.
DecrBy(r, e) ==
  /\ st[r] = "undo" /\ e \in todo[r]
  /\ counter' = [counter EXCEPT ![<<e, win[r]>>] = @ - Amount[r][e]]
  /\ todo' = [todo EXCEPT ![r] = @ \ {e}]
  /\ held' = [held EXCEPT ![r] = @ \ {e}]
  /\ UNCHANGED <<now, st, win, tick, fits, first, keys, ttl, late, faultVars>>

\* 429, with Retry-After at the end of the window.
RejectRequest(r) ==
  /\ st[r] = "undo" /\ todo[r] = {}
  /\ Goto(r, "rejected")
  /\ UNCHANGED <<now, win, tick, todo, held, fits, first, redisVars, late, faultVars>>

\* The rollback is lost part way.
UndoLost(r) ==
  /\ st[r] = "undo" /\ todo[r] # {} /\ Fault("redis")
  /\ Goto(r, "rejected")
  /\ todo' = [todo EXCEPT ![r] = {}]
  /\ UNCHANGED <<now, win, tick, held, fits, first, redisVars, late>>

\* What max_tokens reserved beyond the actual output.
Excess(r, e) ==
  IF e \in OTPM /\ Amount[r][e] > Actual[r] THEN Amount[r][e] - Actual[r] ELSE 0

\* Reconcile, for a request that was answered, the ones let through unchecked
\* included: it decrements the counters of the window the clock is in now.
\* (Its own failures leave the request as it was.)
Reconcile(r) ==
  LET w == WindowOf(now)
      K == {<<e, w>> : e \in {x \in OTPM : Excess(r, x) > 0}}
  IN /\ st[r] \in {"admitted", "waved"}
     /\ Goto(r, IF st[r] = "admitted" THEN "settled" ELSE "done")
     /\ counter' = [k \in Entry \X Window |->
                      IF k[2] = w THEN counter[k] - Excess(r, k[1]) ELSE counter[k]]
     /\ keys' = keys \cup K
     /\ late' = IF K \subseteq {<<e, win[r]>> : e \in held[r]} THEN late ELSE late \cup {r}
     /\ UNCHANGED <<now, win, tick, todo, held, fits, first, ttl, faultVars>>

Tick ==
  /\ now < MaxTick
  /\ now' = now + 1
  /\ UNCHANGED <<checkVars, redisVars, late, faultVars>>

-----------------------------------------------------------------------------
CheckStep(r) ==
  \/ BeginCheck(r) \/ LoadFails(r) \/ IncrLost(r) \/ Decide(r) \/ DecideLost(r) \/ RejectRequest(r) \/ UndoLost(r)
  \/ \E e \in Entry : IncrBy(r, e) \/ DecrBy(r, e)

Next == (\E r \in Request : CheckStep(r) \/ Reconcile(r)) \/ Tick

Spec == Init /\ [][Next]_vars

-----------------------------------------------------------------------------
(* Properties.                                                             *)

\* Types; a request decides on, and rolls back, only counters it incremented.
TypeOK ==
  /\ now \in 0..MaxTick
  /\ st \in [Request -> Status]
  /\ win \in [Request -> Window] /\ tick \in [Request -> 0..MaxTick]
  /\ todo \in [Request -> SUBSET Entry] /\ held \in [Request -> SUBSET Entry]
  /\ fits \in [Request -> SUBSET Entry] /\ first \in [Request -> SUBSET Entry]
  /\ counter \in [Entry \X Window -> Int]
  /\ keys \subseteq Entry \X Window /\ ttl \subseteq Entry \X Window
  /\ late \subseteq Request /\ hit \subseteq FaultKind

Admitted(r) == st[r] \in {"admitted", "settled"}

\* The requests that passed limit e in window w.
AdmittedIn(e, w) == {r \in Request : Admitted(r) /\ win[r] = w /\ e \in Entries(r)}

\* However checks interleave, fail, roll back or straddle windows, no more
\* requests pass a requests-per-window limit in one window than it allows.
RequestsWithinLimit ==
  \A e \in RPM, w \in Window : Cardinality(AdmittedIn(e, w)) <= Value[e]

\* What request r costs limit e: its reservation, corrected once answered.
Charge(r, e) == Amount[r][e] - (IF st[r] \in {"settled", "done"} THEN Excess(r, e) ELSE 0)

Charged(e, S) == Sum([r \in Request |-> Charge(r, e)], S)

Holders(e, w) == {r \in Request : e \in held[r] /\ win[r] = w}

\* Counters count exactly the requests admitted or still being decided: a
\* rejected request leaves no trace (unless its rollback was lost).  So what the
\* admitted requests of a window reserved, or used, stays within every limit,
\* tokens too, unless a reservation was returned to a counter that did not hold it.
CounterExact ==
  /\ late = {} => \A e \in Entry, w \in Window :
                    /\ counter[<<e, w>>] = Charged(e, Holders(e, w))
                    /\ Charged(e, AdmittedIn(e, w)) <= Value[e]
  /\ \A r \in Request : st[r] = "rejected" /\ "redis" \notin hit => held[r] = {}

Undecided(r) == st[r] \in {"incr", "undo"}

\* The check whose increment found an empty counter sets the expiry, whether it
\* admits or rejects and whoever increments in between: once no check is under
\* way every counter expires, unless a pipeline was lost or a reconciliation
\* met a counter that did not hold the reservation.
CountersBounded ==
  late = {} /\ "redis" \notin hit /\ (\A r \in Request : ~Undecided(r)) => keys \subseteq ttl

-----------------------------------------------------------------------------
(* What the documents and comments say and the code does not keep. *)

\* "Redis sliding-window counters" (README.md:14): in any span of one window
\* length no more requests pass than the limit allows.
SlidingWindow ==
  \A e \in RPM, t \in 0..MaxTick :
    Cardinality({r \in Request : Admitted(r) /\ e \in Entries(r)
                                 /\ tick[r] \in t..(t + WindowTicks - 1)}) <= Value[e]

\* "Set expiry on first increment" (limiter.go:164): once no check is under
\* way every counter in Redis has an expiry.
CountersExpire ==
  (\A r \in Request : ~Undecided(r)) => keys \subseteq ttl

=============================================================================

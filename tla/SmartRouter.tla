----------------------------- MODULE SmartRouter -----------------------------
(***************************************************************************)
(* Routing a chat completion over the deployments of a model group         *)
(* (provider/health.go, strategy.go, retry.go, ratelimit_tracker.go and    *)
(* proxy/smart_proxy.go).  Clients send requests one after the other; each *)
(* request selects a deployment, calls it, records the outcome in the      *)
(* health tracker all requests share, and retries or answers.  The steps   *)
(* of different requests interleave; the clock ticks every 30 seconds.     *)
(*                                                                         *)
(* Latencies are abstracted: lowest-latency may pick any candidate.  One   *)
(* Select is one step.                                                     *)
(***************************************************************************)
EXTENDS Sequences, Sums

CONSTANTS
  Client,
  Streaming,    \* the clients that ask for a stream
  Deployment,
  Group,        \* the group's deployments, a sequence without repetition
  Registered,   \* those whose provider has an adapter
  Priority, Cost,  \* [Deployment -> Nat]
  Weights,      \* bound: the settings of weights, [Deployment -> Nat], the group may have
  Strategies,   \* the routing strategies the group may have
  Outcomes,     \* bound: how a call may end
  MaxRetries,
  CounterMod,   \* the round-robin counter wraps here (2^64 in the code)
  LastTick,      \* bound: the last tick
  MaxStreak,    \* bound: no new request once a deployment failed this often
  None

AllStrategies == {"fallback", "round-robin", "lowest-latency", "cost-optimized"}

\* transform, garbled: a request or response the adapter cannot translate;
\* unreachable: no HTTP response; refused: a client error status; busy: a
\* retryable status.
AllOutcomes == {"ok", "transform", "unreachable", "refused", "busy", "garbled"}

ASSUME RouterAssumption ==
  /\ Streaming \subseteq Client /\ Registered \subseteq Deployment
  /\ Group \in Seq(Deployment) /\ Len(Group) > 0
  /\ \A i, j \in DOMAIN Group : Group[i] = Group[j] => i = j
  /\ Priority \in [Deployment -> Nat] /\ Cost \in [Deployment -> Nat]
  /\ Weights \subseteq [Deployment -> Nat]
  /\ Strategies \subseteq AllStrategies /\ Outcomes \subseteq AllOutcomes
  /\ MaxRetries \in Nat /\ CounterMod \in Nat \ {0}
  /\ LastTick \in Nat /\ MaxStreak \in Nat
  /\ None \notin Deployment /\ None \notin Outcomes

VARIABLES
  clock,              \* in ticks
  strategy, weight,   \* of the group, fixed
  failCount, cooldownLevel, cooldownUntil,  \* DeploymentHealth (LastFailure is read nowhere)
  known,              \* deployments with a health record
  avoid,              \* deployments with less than a tenth of their quota left
  turn,               \* RouterState.Counter
  pc,                 \* [Client -> Step]
  attempt,            \* [Client -> Nat]: the loop variable
  tried,              \* [Client -> SUBSET Deployment]
  dep,                \* [Client -> Deployment \cup {None}]: being called
  last,               \* [Client -> outcome of its last attempt, or None]
  reply,              \* [Client -> what it was answered]
  streak              \* failures of a deployment since its last success (history)

Step == {"idle", "loop", "call", "backoff", "stream", "replied"}
\* "default": the error as body under gin's default status, which is 200.
Reply == {None, "200", "upstream", "502", "default", "gone"}
Never == -1

healthVars == <<failCount, cooldownLevel, cooldownUntil, known, streak>>
requestVars == <<pc, attempt, tried, dep, last, reply>>
routerVars == <<clock, strategy, weight, healthVars, avoid, turn, requestVars>>

InitRouter ==
  /\ clock = 0
  /\ strategy \in Strategies /\ weight \in Weights
  /\ failCount = [d \in Deployment |-> 0] /\ cooldownLevel = [d \in Deployment |-> 0]
  /\ cooldownUntil = [d \in Deployment |-> Never]
  /\ known = {} /\ avoid = {} /\ turn = 0
  /\ pc = [c \in Client |-> "idle"] /\ attempt = [c \in Client |-> 0]
  /\ tried = [c \in Client |-> {}] /\ dep = [c \in Client |-> None]
  /\ last = [c \in Client |-> None] /\ reply = [c \in Client |-> None]
  /\ streak = [d \in Deployment |-> 0]

-----------------------------------------------------------------------------
(* The health tracker.                                                     *)

\* baseCooldownDur is 29296875 * 2^10 ns; shifted left by level - 1, its
\* signed 64-bit value is negative when this bit of the factor is set.
SignBit(level) == level \in 30..54 /\ (29296875 \div 2^(54 - level)) % 2 = 1

\* baseCooldownDur * (1 << (level - 1)), capped at maxCooldownDur, in ticks;
\* the shift loses all bits from level 55 on.
CooldownDur(level) ==
  CASE level <= 4       -> 2^(level - 1)
    [] SignBit(level)   -> -LastTick - 2
    [] level > 54       -> 0
    [] OTHER            -> 10

\* Mutant: the cooldown starts one failure early.
RecordFailureEarly(d) ==
  LET n == failCount[d] + 1
      lv == cooldownLevel[d] + 1
  IN /\ known' = known \cup {d}
     /\ streak' = [streak EXCEPT ![d] = @ + 1]
     /\ \/ /\ n < 2
           /\ failCount' = [failCount EXCEPT ![d] = n]
           /\ UNCHANGED <<cooldownLevel, cooldownUntil>>
        \/ /\ n >= 2
           /\ failCount' = [failCount EXCEPT ![d] = 0]
           /\ cooldownLevel' = [cooldownLevel EXCEPT ![d] = lv]
           /\ cooldownUntil' = [cooldownUntil EXCEPT ![d] = clock + CooldownDur(lv)]

RecordFailure(d) ==
  LET n == failCount[d] + 1
      lv == cooldownLevel[d] + 1
  IN /\ known' = known \cup {d}
     /\ streak' = [streak EXCEPT ![d] = @ + 1]
     /\ \/ /\ n < 3
           /\ failCount' = [failCount EXCEPT ![d] = n]
           /\ UNCHANGED <<cooldownLevel, cooldownUntil>>
        \/ /\ n >= 3
           /\ failCount' = [failCount EXCEPT ![d] = 0]
           /\ cooldownLevel' = [cooldownLevel EXCEPT ![d] = lv]
           /\ cooldownUntil' = [cooldownUntil EXCEPT ![d] = clock + CooldownDur(lv)]

\* Mutant: a success ends the cooldown and leaves the count of failures.
RecordSuccessKeepsCount(d) ==
  /\ known' = known \cup {d}
  /\ cooldownLevel' = [cooldownLevel EXCEPT ![d] = 0]
  /\ cooldownUntil' = [cooldownUntil EXCEPT ![d] = Never]
  /\ streak' = [streak EXCEPT ![d] = 0]
  /\ UNCHANGED failCount

RecordSuccess(d) ==
  /\ known' = known \cup {d}
  /\ failCount' = [failCount EXCEPT ![d] = 0]
  /\ cooldownLevel' = [cooldownLevel EXCEPT ![d] = 0]
  /\ cooldownUntil' = [cooldownUntil EXCEPT ![d] = Never]
  /\ streak' = [streak EXCEPT ![d] = 0]

IsHealthy(d) == clock > cooldownUntil[d]

-----------------------------------------------------------------------------
(* The strategies: the deployments Select may return.                      *)

Members == {Group[i] : i \in DOMAIN Group}
Usable(d) == IsHealthy(d) /\ d \notin avoid
Lowest(f, S) == {d \in S : \A x \in S : f[d] <= f[x]}

\* The first in priority order without a health record; otherwise the first
\* whose cooldown ends earliest.
EarliestCooldownExpiry ==
  IF Members \ known # {} THEN Lowest(Priority, Members \ known)
  ELSE Lowest(Priority, Lowest(cooldownUntil, Members))

SelectFallback ==
  LET up == {d \in Members : Usable(d)}
  IN IF up # {} THEN Lowest(Priority, up) ELSE EarliestCooldownExpiry

\* healthyDeployments: the loop that filters the group.
HealthyDeployments ==
  LET healthy[n \in 0..Len(Group)] ==
        IF n = 0 THEN << >>
        ELSE IF Usable(Group[n]) THEN Append(healthy[n - 1], Group[n])
        ELSE healthy[n - 1]
  IN healthy[Len(Group)]

\* All of them when none is healthy.
Candidates == IF HealthyDeployments = << >> THEN Group ELSE HealthyDeployments

ShareOf(d) == IF weight[d] > 0 THEN weight[d] ELSE 1
TotalWeight(S) == Sum([i \in DOMAIN S |-> weight[S[i]]], DOMAIN S)
Cumulative(S, n) == Sum([i \in 1..n |-> ShareOf(S[i])], 1..n)

\* Mutant: a deployment keeps the turn after its last one.
WeightedSelectOneMore(S, n) ==
  LET idx == n % TotalWeight(S)
      open == {i \in DOMAIN S : idx <= Cumulative(S, i)}
  IN IF open # {} THEN S[Min(open)] ELSE S[1]

\* weightedSelect, for value n of the counter.
WeightedSelect(S, n) ==
  LET idx == n % TotalWeight(S)
      open == {i \in DOMAIN S : idx < Cumulative(S, i)}
  IN IF open # {} THEN S[Min(open)] ELSE S[1]

SelectRoundRobin(S, n) ==
  IF TotalWeight(S) > 0 THEN WeightedSelect(S, n) ELSE S[(n % Len(S)) + 1]

Select ==
  CASE strategy = "fallback"       -> SelectFallback
    [] strategy = "round-robin"    -> {SelectRoundRobin(Candidates, turn)}
    [] strategy = "lowest-latency" -> {Candidates[i] : i \in DOMAIN Candidates}
    [] strategy = "cost-optimized" -> Lowest(Cost, {Candidates[i] : i \in DOMAIN Candidates})

-----------------------------------------------------------------------------
(* The retry loop (ExecuteWithRetry, handleStream).                        *)

MaxAttempts == Min({MaxRetries + 1, Len(Group)})
GoOn(c, step) == pc' = [pc EXCEPT ![c] = step]

\* What a request is answered whose last attempt ended this way: without an
\* HTTP response the status is 0, and gin then keeps its default, 200.
ReplyFor(outcome) ==
  CASE outcome = None                 -> "502"
    [] outcome \in {"refused", "busy"} -> "upstream"
    [] OTHER                           -> "default"

\* The variables of the retry loop end with it.
LeaveLoop(c) ==
  /\ attempt' = [attempt EXCEPT ![c] = 0] /\ tried' = [tried EXCEPT ![c] = {}]
  /\ dep' = [dep EXCEPT ![c] = None] /\ last' = [last EXCEPT ![c] = None]

SendReply(c, what) ==
  GoOn(c, "replied") /\ reply' = [reply EXCEPT ![c] = what] /\ LeaveLoop(c)

BeginRequest(c) ==
  /\ pc[c] \in {"idle", "replied"}
  /\ \A d \in Deployment : streak[d] < MaxStreak
  /\ GoOn(c, "loop") /\ reply' = [reply EXCEPT ![c] = None]
  /\ UNCHANGED <<clock, strategy, weight, healthVars, avoid, turn, attempt, tried, dep, last>>

\* The loop ran out of attempts.
Exhausted(c) ==
  /\ pc[c] = "loop" /\ attempt[c] >= MaxAttempts
  /\ SendReply(c, ReplyFor(last[c]))
  /\ UNCHANGED <<clock, strategy, weight, healthVars, avoid, turn>>

\* Mutant: a deployment that was tried already costs no attempt.
NextAttemptFree(c, d) ==
  IF d \in tried[c] THEN UNCHANGED attempt ELSE attempt' = [attempt EXCEPT ![c] = @ + 1]

NextAttempt(c, d) == attempt' = [attempt EXCEPT ![c] = @ + 1]

\* One turn of the loop up to the call.  A deployment tried before, or one
\* without an adapter, uses up the attempt.
SelectDeployment(c) ==
  /\ pc[c] = "loop" /\ attempt[c] < MaxAttempts
  /\ \E d \in Deployment :
       /\ d \in Select
       /\ turn' = IF strategy = "round-robin" THEN (turn + 1) % CounterMod ELSE turn
       /\ NextAttempt(c, d)
       /\ tried' = [tried EXCEPT ![c] = @ \cup {d}]
       /\ \/ /\ d \in tried[c] \/ d \notin Registered
             /\ UNCHANGED <<pc, dep>>
          \/ /\ d \notin tried[c] /\ d \in Registered
             /\ GoOn(c, "call") /\ dep' = [dep EXCEPT ![c] = d]
  /\ UNCHANGED <<clock, strategy, weight, healthVars, avoid, last, reply>>

\* Headers of the response: quota unknown, low or sufficient.
SeeHeaders(d) == avoid' \in {avoid, avoid \cup {d}, avoid \ {d}}

\* The provider answered and the answer could be translated.
CallSucceeds(c) ==
  /\ pc[c] = "call" /\ "ok" \in Outcomes
  /\ RecordSuccess(dep[c]) /\ SeeHeaders(dep[c])
  /\ \/ c \notin Streaming /\ SendReply(c, "200")
     \/ c \in Streaming /\ GoOn(c, "stream") /\ LeaveLoop(c) /\ UNCHANGED reply
  /\ UNCHANGED <<clock, strategy, weight, turn>>

\* A call that cannot be retried is answered at once.  A stream goes on to
\* the next deployment when its request cannot be translated, and forgets it.
CallFails(c, outcome) ==
  LET final == outcome = "refused" \/ (outcome \in {"transform", "garbled"} /\ c \notin Streaming)
  IN /\ pc[c] = "call" /\ outcome \in Outcomes \ {"ok"}
     /\ c \in Streaming => outcome # "garbled"
     /\ \/ outcome = "transform" /\ c \in Streaming /\ UNCHANGED healthVars
        \/ ~(outcome = "transform" /\ c \in Streaming) /\ RecordFailure(dep[c])
     /\ \/ outcome \in {"refused", "busy", "garbled"} /\ c \notin Streaming /\ SeeHeaders(dep[c])
        \/ (outcome \in {"transform", "unreachable"} \/ c \in Streaming) /\ UNCHANGED avoid
     /\ \/ final /\ SendReply(c, ReplyFor(outcome))
        \/ /\ ~final /\ GoOn(c, IF c \in Streaming THEN "loop" ELSE "backoff")
           /\ last' = [last EXCEPT ![c] = outcome]
           /\ UNCHANGED <<attempt, tried, dep, reply>>
     /\ UNCHANGED <<clock, strategy, weight, turn>>

BackoffEnds(c) ==
  /\ pc[c] = "backoff" /\ GoOn(c, "loop")
  /\ UNCHANGED <<clock, strategy, weight, healthVars, avoid, turn, attempt, tried, dep, last, reply>>

\* The client went away.  A call under way fails and counts as a failure of
\* the deployment; elsewhere the loop is left.
ClientGone(c) ==
  /\ pc[c] \in {"loop", "call", "backoff", "stream"}
  /\ SendReply(c, "gone")
  /\ \/ pc[c] = "call" /\ RecordFailure(dep[c])
     \/ pc[c] # "call" /\ UNCHANGED healthVars
  /\ UNCHANGED <<clock, strategy, weight, avoid, turn>>

\* The upstream ends its stream (or breaks it off).
StreamEnds(c) ==
  /\ pc[c] = "stream" /\ SendReply(c, "200")
  /\ UNCHANGED <<clock, strategy, weight, healthVars, avoid, turn>>

RouterTick ==
  /\ clock < LastTick /\ clock' = clock + 1
  /\ UNCHANGED <<strategy, weight, healthVars, avoid, turn, requestVars>>

-----------------------------------------------------------------------------
CallReturns(c) == CallSucceeds(c) \/ \E o \in Outcomes : CallFails(c, o)

\* What the handler does by itself, and what the HTTP timeouts bring about.
HandlerStep(c) == Exhausted(c) \/ SelectDeployment(c) \/ CallReturns(c) \/ BackoffEnds(c)

NextRouter ==
  \/ \E c \in Client : BeginRequest(c) \/ HandlerStep(c) \/ ClientGone(c) \/ StreamEnds(c)
  \/ RouterTick

SpecRouter == InitRouter /\ [][NextRouter]_routerVars

\* Handlers run; connecting, headers and backoff are bounded by timeouts.
\* Nothing makes an upstream end its stream.
LiveRouter == SpecRouter /\ \A c \in Client : WF_routerVars(HandlerStep(c))

-----------------------------------------------------------------------------
(* Properties.                                                             *)

\* Only three or more failures since its last success put a deployment in
\* cooldown, however the outcomes of concurrent requests are ordered.
CooldownEarned ==
  \A d \in Deployment : ~IsHealthy(d) => streak[d] >= 3

\* The backoff level is the number of complete rounds of three failures.
RoundsCounted ==
  \A d \in Deployment : streak[d] = 3 * cooldownLevel[d] + failCount[d]

\* Whichever deployments are healthy, weightedSelect gives each of them its
\* weight in every cycle of the counter that starts now, when all have one.
WeightedShare ==
  LET S == Candidates
      turns == turn..(turn + TotalWeight(S) - 1)
  IN (\A d \in Members : weight[d] > 0) =>
       \A i \in DOMAIN S : Cardinality({n \in turns : SelectRoundRobin(S, n) = S[i]}) = weight[S[i]]

\* Every non-streaming request is answered: no choice of deployments, however
\* often repeated, keeps the retry loop going.
EventuallyReplied ==
  \A c \in Client \ Streaming : pc[c] \in {"loop", "call", "backoff"} ~> pc[c] = "replied"

-----------------------------------------------------------------------------
(* What the documents say and the code does not keep.                      *)

\* "try multiple deployments until one succeeds" (smart_proxy.go:156): a
\* stream is given up only after every deployment was tried, or as many as
\* the retries allow.
FallbackReachesAll ==
  [][\A c \in Streaming :
       pc[c] = "loop" /\ reply'[c] \in {"upstream", "502", "default"} =>
         Cardinality(tried[c]) >= MaxAttempts]_routerVars

\* "3 consecutive failures trigger a cooldown period" (README.md:1147): the
\* third failure of a round starts a cooldown.
CooldownTriggered ==
  [][\A d \in Deployment : cooldownLevel'[d] > cooldownLevel[d] => cooldownUntil'[d] > clock]_routerVars

\* Exhausted deployments give "502 response with an error message"
\* (docs/test-plan-smart-routing.md:401), and not a success status.
FailureNotOK == \A c \in Client : reply[c] # "default"

\* streamChunkTimeout is "the max time to wait for the next SSE chunk before
\* considering the upstream connection stale" (smart_proxy.go:22): a stream
\* ends even when the upstream says nothing more.
StreamBounded ==
  \A c \in Streaming : pc[c] = "stream" ~> pc[c] # "stream"

=============================================================================

---------------------------- MODULE RequestPath ----------------------------
(***************************************************************************)
(* What the models of the gateway's request path share: requests in some   *)
(* status, the clock, and failures of what a request depends on, of which  *)
(* at most MaxFaults happen.                                               *)
(***************************************************************************)
EXTENDS Sums

CONSTANTS
  Request,
  FaultKind,   \* the failures that may happen
  MaxFaults    \* bound: how many of them

VARIABLES
  now,     \* the clock
  st,      \* [Request -> status of its handler]
  faults,  \* how many failures happened
  hit      \* and of which kinds

faultVars == <<faults, hit>>

Fault(f) ==
  /\ f \in FaultKind /\ faults < MaxFaults
  /\ faults' = faults + 1
  /\ hit' = hit \cup {f}

Goto(r, status) == st' = [st EXCEPT ![r] = status]

=============================================================================

---------------------------- MODULE UsageLedger ----------------------------
(***************************************************************************)
(* What the usage pipeline promises (README.md:221, 249, 295): one ledger  *)
(* in which an event is charged at most once and for good, a usage log     *)
(* whose priced events are charged, and acknowledgements of logged events  *)
(* only.  Three atomic operations; no stream, worker, retry or failure.    *)
(***************************************************************************)
EXTENDS Integers

CONSTANTS
  Event,          \* idempotency keys
  UnpricedEvent,  \* events whose model has no price
  Cost            \* [Event -> Nat]

VARIABLES
  charged,        \* the rows of the ledger, [event, billing]
  total,          \* what the billed rows sum up to
  logged,         \* the events in the usage log
  acknowledged    \* the events of which a message was acknowledged

vars == <<charged, total, logged, acknowledged>>

Init == charged = {} /\ total = 0 /\ logged = {} /\ acknowledged = {}

IsCharged(e) == \E row \in charged : row.event = e

\* Charge an event that was not charged before; only API usage is billed.
Charge(e, billing) ==
  /\ ~IsCharged(e)
  /\ charged' = charged \cup {[event |-> e, billing |-> billing]}
  /\ total' = total + (IF billing = "billed" THEN Cost[e] ELSE 0)
  /\ UNCHANGED <<logged, acknowledged>>

\* Log an event that was charged, or has no price.
Log(e) ==
  /\ e \in UnpricedEvent \/ IsCharged(e)
  /\ logged' = logged \cup {e}
  /\ UNCHANGED <<charged, total, acknowledged>>

\* Acknowledge an event that was logged.
Acknowledge(e) ==
  /\ e \in logged
  /\ acknowledged' = acknowledged \cup {e}
  /\ UNCHANGED <<charged, total, logged>>

Next ==
  \E e \in Event :
    \/ \E billing \in {"billed", "unbilled"} : Charge(e, billing)
    \/ Log(e)
    \/ Acknowledge(e)

Spec == Init /\ [][Next]_vars

=============================================================================

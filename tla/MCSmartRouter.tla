--------------------------- MODULE MCSmartRouter ---------------------------
(* Small instances of SmartRouter for TLC. *)
EXTENDS SmartRouter, TLC

CONSTANTS c1, c2, d1, d2

Group1 == <<d1>>
Group2 == <<d1, d2>>
Priorities == (d1 :> 1) @@ (d2 :> 2)
Costs == (d1 :> 2) @@ (d2 :> 1)
PriorityOf == [d \in Deployment |-> Priorities[d]]
\* d2 takes two turns of three.
Weights12 == {[d \in Deployment |-> IF d = d2 THEN 2 ELSE 1]}
CostOf == [d \in Deployment |-> Costs[d]]

=============================================================================

--------------------------- MODULE MCProxyBudget ---------------------------
(* Small instances of ProxyBudget for TLC. *)
EXTENDS ProxyBudget, TLC

CONSTANTS r1, r2, k1, k2, pa, pb

\* r1 reserves more than it costs, r2 less (the input is not reserved).
Costs == (r1 :> 1) @@ (r2 :> 2)
Reserves == (r1 :> 2) @@ (r2 :> 1)
Keys == (r1 :> k1) @@ (r2 :> k2)
Providers == (r1 :> pa) @@ (r2 :> pb)

BudgetLimit(s, p, n, a, on) == [scope |-> s, provider |-> p, amount |-> n, action |-> a, enabled |-> on]

\* The account's limit, one of a provider that settlement does not look at,
\* and one of a key that the pre-check skips.
BudgetLimits ==
  { BudgetLimit(Account, AnyProvider, 2, "block", TRUE),
    BudgetLimit(Account, pb, 1, "alert_block", TRUE),
    BudgetLimit(k1, AnyProvider, 1, "block", FALSE) }

=============================================================================

-------------------------- MODULE MCUsagePipeline --------------------------
(* Small instance of UsagePipeline for TLC. *)
EXTENDS UsagePipeline, TLC

CONSTANTS e1, e2, w1, w2, r1, account, key

Costs == (e1 :> 1) @@ (e2 :> 1)
\* Three entries of e1; e2, whose model is unknown, is only reported.
Copies30 == (e1 :> 3) @@ (e2 :> 0)
\* One entry of each, for EventuallyLogged (README, section 7).
Copies11 == (e1 :> 1) @@ (e2 :> 1)
\* The account may spend 2, the key 1.
Limit2And1 == (account :> 2) @@ (key :> 1)

=============================================================================

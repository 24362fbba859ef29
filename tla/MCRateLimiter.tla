--------------------------- MODULE MCRateLimiter ---------------------------
(* Small instances of RateLimiter for TLC. *)
EXTENDS RateLimiter, TLC

CONSTANTS r1, r2, r3, rpm, otpm

Values == (rpm :> 2) @@ (otpm :> 6)
\* r3 names no max_tokens.
Amounts == [r \in Request |-> (rpm :> 1) @@ (otpm :> IF r = r3 THEN 0 ELSE 4)]
Outputs == [r \in Request |-> IF r = r1 THEN 1 ELSE 5]

=============================================================================

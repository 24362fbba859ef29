-------------------------- MODULE MCStripeBilling --------------------------
(* Small instances of StripeBilling for TLC. *)
EXTENDS StripeBilling, TLC

CONSTANTS h1, h2, s1, s2

\* Subscriptions are interchangeable.
SubSymmetry == Permutations({s1, s2})

=============================================================================

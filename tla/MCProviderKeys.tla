--------------------------- MODULE MCProviderKeys ---------------------------
(* Instances of ProviderKeys for TLC. *)
EXTENDS ProviderKeys, TLC

CONSTANTS k1, k2, k3, p1, p2, g1, g2, a1, a2

\* Each pod serves one request of the proxy; the first also the first
\* administrator.
MCPodOf == [c \in Calls |-> IF c \in {g1, a1} THEN p1 ELSE p2]

\* Keys differ only in their rows.
Symmetry == Permutations(Keys)
=============================================================================

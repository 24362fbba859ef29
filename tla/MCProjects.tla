----------------------------- MODULE MCProjects -----------------------------
(* Instances of Projects, and with it of ApiKeys, for TLC. *)
EXTENDS Projects

CONSTANTS k1, k2, v1, v2, a1, a2, owner, member, main, side
=============================================================================

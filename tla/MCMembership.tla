---------------------------- MODULE MCMembership ----------------------------
(* Instances of Membership for TLC. *)
EXTENDS Membership, TLC

CONSTANTS olga, amir, bea, olga2, placeholder, olgaMail, amirMail, beaMail, small, large, h1, h2

\* Amir belongs to another tenant, Bea has never signed in, and Olga's Clerk
\* account may be made anew.
MCEmailOf == [i \in Ids |-> CASE i \in {olga, olga2} -> olgaMail
                              [] i = amir -> amirMail
                              [] i \in {bea, placeholder} -> beaMail]

\* The large plan has no limit.
MCMaxMembers == [p \in Plans |-> IF p = small THEN 2 ELSE -1]

\* Requests are interchangeable.
Symmetry == Permutations(Handlers)
=============================================================================

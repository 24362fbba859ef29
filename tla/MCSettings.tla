----------------------------- MODULE MCSettings -----------------------------
(***************************************************************************)
(* What a tenant's administrators configure: limits and their copies,      *)
(* pricing configurations, model groups.  The three share no state, so a   *)
(* behaviour is about one of them (subject) and the others stand still.    *)
(***************************************************************************)
EXTENDS LimitConfig, PricingConfigs, ModelGroups, TLC

CONSTANTS s1, s2, s3, q1, a1, a2, c1, c2, k1, k2, b1, g1, g2, n1, n2, p1, h1

VARIABLE subject

MCTenantOf == [g \in Group |-> "t1"]
MCServedBy == [a \in GroupAdmin |-> p1]
Symmetry == Permutations(Slot) \cup Permutations(Admin)

settingsVars == <<vars, configVars, groupVars, subject>>

InitSettings == Init /\ InitConfigs /\ InitGroups /\ subject \in {"limits", "configs", "groups"}
                     /\ (subject # "limits" => table = "rate" /\ Rows = {})

NextSettings ==
  /\ \/ subject = "limits" /\ Next /\ UNCHANGED <<configVars, groupVars>>
     \/ subject = "configs" /\ NextConfigs /\ UNCHANGED <<vars, groupVars>>
     \/ subject = "groups" /\ NextGroups /\ UNCHANGED <<vars, configVars>>
  /\ UNCHANGED subject

SpecSettings == InitSettings /\ [][NextSettings]_settingsVars
=============================================================================

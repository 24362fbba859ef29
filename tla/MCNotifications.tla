-------------------------- MODULE MCNotifications ---------------------------
(* An instance of Notifications for TLC. *)
EXTENDS Notifications, TLC

CONSTANTS p1, p2, h1, k1, c1, c2, blocked

OneEvent == k1 :> blocked
=============================================================================

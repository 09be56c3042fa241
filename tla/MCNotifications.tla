--------------------------- MODULE MCNotifications ---------------------------
(* Small instances of Notifications. *)
EXTENDS Notifications, TLC

CONSTANTS e1, e2

TwoClients == 1..2

(* One employee with two browsers, one with none. *)
BothOfTheFirst == [c \in Clients |-> e1]

(* A submission for both; a decision for one of them. *)
SomePlans == {<<e1, e2>>, <<e1>>}
=============================================================================

-------------------------- MODULE MCClothingClaims --------------------------
(* Small instances of ClothingClaims. *)
EXTENDS ClothingClaims, TLC

CONSTANTS e1, e2, d1, d2, PermB

(* One destination of a group of its own, one without a group. *)
SomeGroups == [d \in Destinations |-> IF d = d2 THEN PermB ELSE Nil]

(* One abroad for good, and a change of mind; the other comes by hand. *)
SomeSubmissions == {[kind |-> "international", team |-> {e1}, destination |-> d1],
                    [kind |-> "temporary", team |-> Missing, destination |-> Nil]}

(* A report; a date for the next claim only. *)
SomeBodies == {[reporting |-> 0, next |-> Missing], [reporting |-> Missing, next |-> 1]}
(* A report is taken back. *)
SomeByHand == {[reporting |-> Nil, next |-> 1]}

(* About a new approval, of someone who was transferred once or never. *)
SomeQuestions ==
    [employee : Employees, approval : {Nil}, kind : Kinds, destination : {d2}, start : {1},
     transfer : {Nil, [day |-> 0, destination |-> d1]}]
=============================================================================

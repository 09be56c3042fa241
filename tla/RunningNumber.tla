--------------------------- MODULE RunningNumber ---------------------------
(***************************************************************************)
(* The number of an approval: EX, two digits of the Buddhist year, two of  *)
(* the month and a running number of five digits.  The next one follows    *)
(* the row that is last when the numbers of the month are sorted as text.  *)
(***************************************************************************)
EXTENDS Integers

(* The first number that no longer fits the digits it is padded to: 10^5. *)
CONSTANT Wide

ASSUME WideAssumption == Wide \in Nat /\ Wide >= 2

Numbers == 1..Wide

(* Numbers below Wide are padded and sort as they count.  Wide itself has
   one digit more and begins like a tenth of it: 100000 comes between 10000
   and 10001. *)
SortsBefore(m, n) ==
    IF n = Wide THEN m <= Wide \div 10
    ELSE IF m = Wide THEN n > Wide \div 10
    ELSE m < n

(* ORDER BY increment_id DESC, first row. *)
Last(S) == {n \in S : \A m \in S \ {n} : SortsBefore(m, n)}

(* slice(-5) of the last number, and one more. *)
NumericSuccessors(S) ==
    IF S = {} THEN {1} ELSE {(n % Wide) + 1 : n \in {k \in S : \A m \in S : m <= k}}
NextNumbers(S) == IF S = {} THEN {1} ELSE {(n % Wide) + 1 : n \in Last(S)}
=============================================================================

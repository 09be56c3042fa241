----------------------------- MODULE NumberLedger -----------------------------
(***************************************************************************)
(* What the numbering of approvals promises: every approval that is stored *)
(* takes a number that follows those of its month in some earlier state of *)
(* the table, and the approval remembers which.                            *)
(*                                                                         *)
(* There are no requests, connections, retries or failures here.           *)
(* ConnectionPool is shown to implement this module.                       *)
(***************************************************************************)
EXTENDS RunningNumber, Sequences

CONSTANT Earlier     \* how many numbers the first month may have given

VARIABLES approvals,   \* rows of the table approval, in the order of commit
          month        \* the month the clock shows

ledger == <<approvals, month>>

(* The numbers of month m among the first k approvals. *)
Taken(m, k) == {approvals[i].number : i \in {j \in 1..k : approvals[j].month = m}}

Issue(m, k) ==
    /\ approvals' # approvals
    /\ \E n \in Numbers :
          /\ approvals' = Append(approvals, [month |-> m, number |-> n, read |-> k])
          /\ n \in NextNumbers(Taken(m, k))
    /\ UNCHANGED month

NextMonth == month' = month + 1 /\ UNCHANGED approvals

Init ==
    /\ \E k \in Earlier :
          approvals = [i \in 1..k |-> [month |-> 1, number |-> i, read |-> i - 1]]
    /\ month = 1

Next == NextMonth \/ \E m \in 1..month, k \in 0..Len(approvals) : Issue(m, k)

Spec == Init /\ [][Next]_ledger
=============================================================================

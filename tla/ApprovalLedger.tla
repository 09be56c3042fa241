---------------------------- MODULE ApprovalLedger ----------------------------
(***************************************************************************)
(* What the approval endpoints promise, each taken as one indivisible act  *)
(* on the current records: no request sees or leaves half of another's     *)
(* writes, and a status changes together with the tally of its history     *)
(* rows.  The one exception is create(), whose first history row comes     *)
(* later or, if the request dies, never.                                   *)
(*                                                                         *)
(* There are no requests, transactions, locks or dates here.               *)
(* ApprovalWorkflow is shown to implement this module.                     *)
(***************************************************************************)
EXTENDS Integers, ApprovalRecords

VARIABLES
    approval,       \* rows of approval, Nil where there is none
    continuous,     \* their steps, oldest first
    tally           \* how many history rows of each status they have

ledger == <<approval, continuous, tally>>

NoHistory == [s \in Statuses |-> 0]

Init ==
    /\ approval = [a \in Approvals |-> Nil]
    /\ continuous = [a \in Approvals |-> <<>>]
    /\ tally = [a \in Approvals |-> NoHistory]

Count(a, status) == tally' = [tally EXCEPT ![a][status] = @ + 1]

Open(a, employee) ==
    /\ approval[a] = Nil
    /\ approval' = [approval EXCEPT ![a] = NewRow(employee, Nil, Nil)]
    /\ UNCHANGED <<continuous, tally>>

RecordOpening(a) ==
    /\ approval[a] # Nil
    /\ Count(a, "DRAFT")
    /\ UNCHANGED <<approval, continuous>>

Copy(a, original, employee, holder, final) ==
    /\ approval[original] # Nil
    /\ approval[a] = Nil
    /\ approval' = [approval EXCEPT ![a] = NewRow(employee, holder, final)]
    /\ Count(a, "DRAFT")
    /\ UNCHANGED continuous

Revise(a, e) ==
    /\ approval[a] # Nil
    /\ approval' = [approval EXCEPT ![a] = EditedRow(@, e)]
    /\ continuous' = [continuous EXCEPT ![a] = EditedSteps(@, e)]
    /\ UNCHANGED tally

SetStatus(a, status) ==
    /\ approval[a] # Nil
    /\ approval' = [approval EXCEPT ![a].status = status]
    /\ Count(a, status)
    /\ UNCHANGED continuous

Delete(a) ==
    /\ approval[a] # Nil
    /\ approval' = [approval EXCEPT ![a].deleted = TRUE]
    /\ UNCHANGED <<continuous, tally>>

(* signer acts on a step that was once addressed to them.  Only the person
   who is the final signer now can approve; anyone else's APPROVED hands on. *)
Forward(a, signer, next) ==
    /\ approval[a] # Nil
    /\ signer # approval[a].finalStaff
    /\ approval' = [approval EXCEPT ![a] = Forwarded(@, next)]
    /\ continuous' = [continuous EXCEPT ![a] = WithStep(@, next, "APPROVED")]
    /\ UNCHANGED tally

Close(a, signer, verdict) ==
    /\ approval[a] # Nil
    /\ approval[a].employee # Nil
    /\ verdict = "APPROVED" => signer = approval[a].finalStaff
    /\ approval' = [approval EXCEPT ![a] = Closed(@, verdict)]
    /\ continuous' = [continuous EXCEPT ![a] =
           WithStep(@, approval[a].employee, verdict)]
    /\ Count(a, verdict)

Next ==
    \E a \in Approvals :
        \/ \E e \in Employees : Open(a, e)
        \/ RecordOpening(a)
        \/ \E original \in Approvals, e, h, f \in Person : Copy(a, original, e, h, f)
        \/ \E e \in Edits : Revise(a, e)
        \/ \E s \in Statuses : SetStatus(a, s)
        \/ Delete(a)
        \/ \E signer, next \in Employees : Forward(a, signer, next)
        \/ \E signer \in Employees, v \in {"APPROVED", "REJECTED"} :
               Close(a, signer, v)

Spec == Init /\ [][Next]_ledger
=============================================================================

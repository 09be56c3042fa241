------------------------- MODULE MCApprovalWorkflow -------------------------
(* Small instances of ApprovalWorkflow. *)
EXTENDS ApprovalWorkflow, TLC

CONSTANTS e1, e2

(* A submission replaces the team and adds a first step for staff. *)
Submission(staff, final) ==
    [employee |-> Nil, staffEmployee |-> staff, finalStaff |-> final,
     team |-> TRUE, signed |-> TRUE]

(* A draft is saved with its team but without a signer. *)
Draft(team) ==
    [employee |-> Nil, staffEmployee |-> Nil, finalStaff |-> Nil,
     team |-> team, signed |-> FALSE]

(* Submissions to the final signer at once and through someone else, a
   resubmission that names another final signer, and a saved draft. *)
ChainEdits == {Submission(e1, e2), Submission(e1, e1), Draft(TRUE)}

(* Names the employee the journey is for, who signs it too. *)
OwnerEdits == {[Submission(e1, e1) EXCEPT !.employee = e1]}

SomeFault == {"found", "working"}

RequestSymmetry == Permutations(Requests)

AnyFault == {"found", "dated", "working", "opened"}
=============================================================================

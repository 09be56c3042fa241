--------------------------- MODULE ApprovalRecords ---------------------------
(***************************************************************************)
(* The records the approval workflow keeps in the database, and what an    *)
(* edit (PATCH /approvals/:id) makes of them.  Shared by the workflow as   *)
(* the code runs it (ApprovalWorkflow) and as its users see it             *)
(* (ApprovalLedger).                                                       *)
(***************************************************************************)
EXTENDS Sequences

CONSTANTS
    Approvals,      \* ids the approval table may hand out
    Employees,      \* employee codes
    Edits,          \* bodies of PATCH /approvals/:id
    Nil             \* SQL NULL, a missing row, an absent property

Statuses == {"DRAFT", "PENDING", "APPROVED", "REJECTED"}
StepStatuses == {"PENDING", "APPROVED", "REJECTED"}
Person == Employees \cup {Nil}

(* A row of approval: whose journey it is, who holds it now, who signs last. *)
Row == [status : Statuses, employee : Person, continuousEmployee : Person,
        finalStaff : Person, deleted : BOOLEAN]

(* A row of approval_continuous; employee_code is NOT NULL. *)
Step == [employee : Employees, status : StepStatuses]

(* What update() takes from its body: Nil is an absent property.  team says
   whether staffMembers is an array, signed whether signerName is present. *)
Edit == [employee : Person, staffEmployee : Person, finalStaff : Person,
         team : BOOLEAN, signed : BOOLEAN]

ASSUME RecordsAssumption ==
    /\ Nil \notin Approvals \cup Employees
    /\ Nil \notin Row
    /\ Nil \notin Step
    /\ Edits \subseteq Edit

(* An edit that adds a step without naming its employee breaks the NOT NULL
   constraint and is rolled back: such bodies are left out. *)
ASSUME SignedEditsNameStaff ==
    \A e \in Edits : e.signed => e.staffEmployee \in Employees

NewRow(employee, holder, final) ==
    [status |-> "DRAFT", employee |-> employee, continuousEmployee |-> holder,
     finalStaff |-> final, deleted |-> FALSE]

(* knex drops undefined properties from an UPDATE. *)
Given(value, old) == IF value = Nil THEN old ELSE value

EditedRow(row, e) ==
    [row EXCEPT !.employee = Given(e.employee, @),
                !.continuousEmployee = Given(e.staffEmployee, @),
                !.finalStaff = Given(e.finalStaff, @)]

EditedStepsOfDraft(steps, e) ==      \* a variant: a draft adds a step too
    Append(IF e.team THEN <<>> ELSE steps,
           [employee |-> e.staffEmployee, status |-> "PENDING"])

EditedStepsKeepOld(steps, e) ==      \* a variant: the DELETE is forgotten
    IF e.signed
    THEN Append(steps, [employee |-> e.staffEmployee, status |-> "PENDING"])
    ELSE steps

(* With staffMembers the steps of the former submission are deleted; with
   signerName a first step is added. *)
EditedSteps(steps, e) ==
    LET kept == IF e.team THEN <<>> ELSE steps
    IN  IF e.signed
        THEN Append(kept, [employee |-> e.staffEmployee, status |-> "PENDING"])
        ELSE kept

Forwarded(row, next) == [row EXCEPT !.continuousEmployee = next]

ClosedKeepsHolder(row, verdict) ==   \* a variant: the hand-back is forgotten
    [row EXCEPT !.status = verdict]

(* A verdict hands the approval back to its employee. *)
Closed(row, verdict) ==
    [row EXCEPT !.status = verdict, !.continuousEmployee = row.employee]

WithStep(steps, employee, status) ==
    Append(steps, [employee |-> employee, status |-> status])
=============================================================================

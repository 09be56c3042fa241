-------------------------- MODULE ApprovalWorkflow --------------------------
(***************************************************************************)
(* The approval workflow of ApprovalService                                *)
(* (src/src/modules/approval/approval.service.ts): approval rows, the      *)
(* chain of approval_continuous rows ("steps") along which a request for   *)
(* travel is signed, and the status history.                               *)
(*                                                                         *)
(* Every handler is a sequence of awaits, and the event loop serves other  *)
(* requests between two of them: request[p] says where request p is.  The  *)
(* database is Oracle under READ COMMITTED: what a transaction writes is   *)
(* private (request[p].work, request[p].entry) until it commits, and an    *)
(* UPDATE of a row waits for the transaction that updated it last          *)
(* (rowLock).  Awaits that neither read nor write what is modelled here    *)
(* are folded into their neighbours.                                       *)
(*                                                                         *)
(* findById may answer from the Redis copy of a detail (module             *)
(* ApprovalCache), which may be older than the row and may outlive it.     *)
(* All this module assumes of the answer is that the approval existed.     *)
(***************************************************************************)
EXTENDS Integers, FiniteSets, ApprovalRecords

CONSTANTS
    Authors,        \* employees who create approvals
    Requests,       \* HTTP requests that may be in flight together
    FaultPoints,    \* places where a request may die (error or process crash)
    MaxHistory,     \* bound: history rows dated per approval before new ones stop
    MaxSteps        \* bound: approval_continuous rows per approval

(* A row of approval_status_history.  at is created_at, taken when the row is
   inserted, not when it is committed; via names the handler. *)
Entry == [at : Nat, status : Statuses,
          via : {"create", "duplicate", "updateStatus", "updateContinuous"}]

Work == [row : Row, steps : Seq(Step)]

PCs == {"idle", "found", "dated", "working", "opened"}
Ops == {"update", "updateStatus", "remove", "duplicate", "updateContinuous",
        "create"}

Request == [pc : PCs, op : Ops, id : Approvals \cup {Nil},
            step : Step \cup {Nil}, entry : Entry \cup {Nil},
            work : Work \cup {Nil}]

ASSUME WorkflowAssumption ==
    /\ Authors \subseteq Employees
    /\ Nil \notin Requests
    /\ Nil \notin Entry
    /\ Nil \notin Work
    /\ FaultPoints \subseteq PCs \ {"idle"}
    /\ MaxHistory \in Nat
    /\ MaxSteps \in Nat

VARIABLES
    approval,       \* committed rows of approval; Nil: no such row
    continuous,     \* committed approval_continuous rows, oldest first
    statusHistory,  \* committed approval_status_history rows
    clock,          \* next created_at of each approval's history
    rowLock,        \* the request whose open transaction holds the row
    request         \* what each request in flight is doing

vars == <<approval, continuous, statusHistory, clock, rowLock, request>>

-----------------------------------------------------------------------------
Idle == [pc |-> "idle", op |-> "create", id |-> Nil, step |-> Nil,
         entry |-> Nil, work |-> Nil]

At(p, pc, op) == request[p].pc = pc /\ request[p].op = op

Finish(p) == request' = [request EXCEPT ![p] = Idle]

(* UPDATE approval ... WHERE id waits while another transaction holds the row. *)
RowFree(a) == rowLock[a] = Nil

TakeRowUnlocked(p, a) ==             \* a variant: no row lock is taken
    UNCHANGED rowLock

TakeRow(p, a) ==
    /\ RowFree(a)
    /\ rowLock' = [rowLock EXCEPT ![a] = p]

ReleaseRows(p) ==
    rowLock' = [a \in Approvals |-> IF rowLock[a] = p THEN Nil ELSE rowLock[a]]

Dated(a, status, via) == [at |-> clock[a], status |-> status, via |-> via]

Tick(a) == clock' = [clock EXCEPT ![a] = @ + 1]

-----------------------------------------------------------------------------
(* create: the row is inserted on one connection and its first history row
   on another, with no transaction around the two. *)

Create(p, a, employee) ==
    /\ request[p].pc = "idle"
    /\ approval[a] = Nil
    /\ approval' = [approval EXCEPT ![a] = NewRow(employee, Nil, Nil)]
    /\ request' = [request EXCEPT ![p] =
           [Idle EXCEPT !.pc = "opened", !.op = "create", !.id = a]]
    /\ UNCHANGED <<continuous, statusHistory, clock, rowLock>>

CreateHistory(p) ==
    LET a == request[p].id
    IN  /\ request[p].pc = "opened"
        /\ statusHistory' = [statusHistory EXCEPT ![a] =
               @ \cup {Dated(a, "DRAFT", "create")}]
        /\ Tick(a)
        /\ Finish(p)
        /\ UNCHANGED <<approval, continuous, rowLock>>

-----------------------------------------------------------------------------
(* The handlers that change an existing approval call findById first. *)
FindById(p, op, a) ==
    /\ request[p].pc = "idle"
    /\ op \in {"update", "updateStatus", "remove", "duplicate"}
    /\ approval[a] # Nil
    /\ request' = [request EXCEPT ![p] =
           [Idle EXCEPT !.pc = "found", !.op = op, !.id = a]]
    /\ UNCHANGED <<approval, continuous, statusHistory, clock, rowLock>>

(* duplicate and duplicateCancel: a new row, filled from the answer of
   findById and so with people that may be out of date or missing, and its
   first history row, in one transaction. *)
Duplicate(p, a, employee, holder, final) ==
    /\ At(p, "found", "duplicate")
    /\ approval[a] = Nil
    /\ approval' = [approval EXCEPT ![a] = NewRow(employee, holder, final)]
    /\ statusHistory' = [statusHistory EXCEPT ![a] =
           {Dated(a, "DRAFT", "duplicate")}]
    /\ Tick(a)
    /\ Finish(p)
    /\ UNCHANGED <<continuous, rowLock>>

-----------------------------------------------------------------------------
(* update: the UPDATE of the row opens the transaction's writes, then the
   dependent tables are replaced. *)
Update(p, e) ==
    LET a == request[p].id
    IN  /\ At(p, "found", "update")
        /\ TakeRow(p, a)
        /\ Len(EditedSteps(continuous[a], e)) <= MaxSteps
        /\ request' = [request EXCEPT
               ![p].pc = "working",
               ![p].work = [row |-> EditedRow(approval[a], e),
                            steps |-> EditedSteps(continuous[a], e)]]
        /\ UNCHANGED <<approval, continuous, statusHistory, clock>>

-----------------------------------------------------------------------------
(* updateStatus: any known status may follow any other.  The history row is
   inserted, and so dated, before the UPDATE of the approval can wait for the
   row; nothing else happens before the commit. *)

UpdateStatusHistory(p, status) ==
    LET a == request[p].id
    IN  /\ At(p, "found", "updateStatus")
        /\ clock[a] <= MaxHistory
        /\ request' = [request EXCEPT
               ![p].pc = "dated",
               ![p].entry = Dated(a, status, "updateStatus")]
        /\ Tick(a)
        /\ UNCHANGED <<approval, continuous, statusHistory, rowLock>>

UpdateStatusWithoutHistory(p) ==     \* a variant: the history row is lost
    LET a == request[p].id
    IN  /\ request[p].pc = "dated"
        /\ RowFree(a)
        /\ approval' = [approval EXCEPT ![a].status = request[p].entry.status]
        /\ Finish(p)
        /\ UNCHANGED <<continuous, statusHistory, clock, rowLock>>

UpdateStatusCommit(p) ==
    LET a == request[p].id
        entry == request[p].entry
    IN  /\ request[p].pc = "dated"
        /\ RowFree(a)
        /\ approval' = [approval EXCEPT ![a].status = entry.status]
        /\ statusHistory' = [statusHistory EXCEPT ![a] = @ \cup {entry}]
        /\ Finish(p)
        /\ UNCHANGED <<continuous, clock, rowLock>>

-----------------------------------------------------------------------------
(* remove: a soft delete; no handler but findById looks at it again. *)
Remove(p) ==
    LET a == request[p].id
    IN  /\ At(p, "found", "remove")
        /\ RowFree(a)
        /\ approval' = [approval EXCEPT ![a].deleted = TRUE]
        /\ Finish(p)
        /\ UNCHANGED <<continuous, statusHistory, clock, rowLock>>

-----------------------------------------------------------------------------
(* updateApprovalContinuous: a step is read outside the transaction, and the
   decision taken on it inside.  The row of the step itself is not updated
   (those lines are commented out): the decision adds a step instead. *)

UpdateContinuousRead(p, a, i) ==
    /\ request[p].pc = "idle"
    /\ i \in DOMAIN continuous[a]
    /\ request' = [request EXCEPT ![p] =
           [Idle EXCEPT !.pc = "found", !.op = "updateContinuous", !.id = a,
                        !.step = continuous[a][i]]]
    /\ UNCHANGED <<approval, continuous, statusHistory, clock, rowLock>>

(* APPROVED by someone who is not the final signer: hand on to next. *)
ForwardStep(p, next) ==
    LET a == request[p].id
    IN  /\ At(p, "found", "updateContinuous")
        /\ TakeRow(p, a)
        /\ request[p].step.employee # approval[a].finalStaff
        /\ Len(continuous[a]) < MaxSteps
        /\ request' = [request EXCEPT
               ![p].pc = "working",
               ![p].work =
                   [row |-> Forwarded(approval[a], next),
                    steps |-> WithStep(continuous[a], next, "APPROVED")]]
        /\ UNCHANGED <<approval, continuous, statusHistory, clock>>

(* The two decisions that end the chain write the same tables: status,
   history, and a step that hands the approval back to its employee, which
   must not be NULL. *)
CloseChain(p, verdict) ==
    LET a == request[p].id
        author == approval[a].employee
    IN  /\ TakeRow(p, a)
        /\ author # Nil
        /\ Len(continuous[a]) < MaxSteps
        /\ clock[a] <= MaxHistory
        /\ request' = [request EXCEPT
               ![p].pc = "working",
               ![p].entry = Dated(a, verdict, "updateContinuous"),
               ![p].work =
                   [row |-> Closed(approval[a], verdict),
                    steps |-> WithStep(continuous[a], author, verdict)]]
        /\ Tick(a)
        /\ UNCHANGED <<approval, continuous, statusHistory>>

ApproveFinal(p) ==
    /\ At(p, "found", "updateContinuous")
    /\ request[p].step.employee = approval[request[p].id].finalStaff
    /\ CloseChain(p, "APPROVED")

Reject(p) ==
    /\ At(p, "found", "updateContinuous")
    /\ CloseChain(p, "REJECTED")

(* Any other known status code commits an empty transaction. *)
NoDecision(p) ==
    /\ At(p, "found", "updateContinuous")
    /\ Finish(p)
    /\ UNCHANGED <<approval, continuous, statusHistory, clock, rowLock>>

-----------------------------------------------------------------------------
(* trx.commit(): the private writes appear together and the row is released. *)
Commit(p) ==
    LET a == request[p].id
        r == request[p]
    IN  /\ r.pc = "working"
        /\ approval' = [approval EXCEPT ![a] = r.work.row]
        /\ continuous' = [continuous EXCEPT ![a] = r.work.steps]
        /\ statusHistory' = [statusHistory EXCEPT ![a] =
               IF r.entry = Nil THEN @ ELSE @ \cup {r.entry}]
        /\ ReleaseRows(p)
        /\ Finish(p)
        /\ UNCHANGED clock

AbortWithoutRollback(p) ==           \* a variant: the catch block forgets rollback
    /\ request[p].pc \in FaultPoints
    /\ Finish(p)
    /\ UNCHANGED <<approval, continuous, statusHistory, clock, rowLock>>

(* An exception, a lost connection or the end of the process: what was not
   committed is rolled back, what was stays, and later awaits never happen. *)
Abort(p) ==
    /\ request[p].pc \in FaultPoints
    /\ ReleaseRows(p)
    /\ Finish(p)
    /\ UNCHANGED <<approval, continuous, statusHistory, clock>>

-----------------------------------------------------------------------------
Init ==
    /\ approval = [a \in Approvals |-> Nil]
    /\ continuous = [a \in Approvals |-> <<>>]
    /\ statusHistory = [a \in Approvals |-> {}]
    /\ clock = [a \in Approvals |-> 1]
    /\ rowLock = [a \in Approvals |-> Nil]
    /\ request = [p \in Requests |-> Idle]

(* A request arrives. *)
Arrive(p) ==
    \E a \in Approvals :
        \/ \E e \in Authors : Create(p, a, e)
        \/ \E op \in Ops : FindById(p, op, a)
        \/ \E i \in DOMAIN continuous[a] : UpdateContinuousRead(p, a, i)

(* A request in flight takes its next step. *)
Proceed(p) ==
    \/ CreateHistory(p)
    \/ \E a \in Approvals, employee, holder, final \in Person :
           Duplicate(p, a, employee, holder, final)
    \/ \E e \in Edits : Update(p, e)
    \/ \E s \in Statuses : UpdateStatusHistory(p, s)
    \/ UpdateStatusCommit(p)
    \/ Remove(p)
    \/ \E next \in Employees : ForwardStep(p, next)
    \/ ApproveFinal(p) \/ Reject(p) \/ NoDecision(p)
    \/ Commit(p)

Next == \E p \in Requests : Arrive(p) \/ Proceed(p) \/ Abort(p)

Spec == Init /\ [][Next]_vars

(* Every request in flight is served again (the event loop and the database
   answer every await), and Oracle queues the transactions that wait for a
   row, so none is passed over for ever.  Nothing promises that requests
   arrive or that they fail. *)
Fairness ==
    \A p \in Requests :
        /\ WF_vars(Proceed(p))
        /\ SF_vars(UpdateStatusCommit(p))

FairSpec == Spec /\ Fairness

-----------------------------------------------------------------------------
(* Every variable holds what its table, lock or request can hold. *)
TypeOK ==
    /\ approval \in [Approvals -> Row \cup {Nil}]
    /\ continuous \in [Approvals -> Seq(Step)]
    /\ statusHistory \in [Approvals -> SUBSET Entry]
    /\ clock \in [Approvals -> Nat]
    /\ rowLock \in [Approvals -> Requests \cup {Nil}]
    /\ request \in [Requests -> Request]

(* Edits that move the approval to another holder also write the chain. *)
EditsMoveWithChain ==
    \A e \in Edits : e.staffEmployee # Nil => e.team \/ e.signed

(* Edits that add a first step also delete the former submission's. *)
EditsReplaceChain ==
    \A e \in Edits : e.signed => e.team

(* approval.continuous_employee_code and the approval_continuous rows are two
   records of one fact, written by different statements of update() and
   updateApprovalContinuous(): whoever holds an approval that is in a chain is
   the person its newest step names. *)
HolderIsNewestStep ==
    EditsMoveWithChain =>
        \A a \in Approvals :
            continuous[a] # <<>> =>
                approval[a].continuousEmployee
                    = continuous[a][Len(continuous[a])].employee

(* update() deletes the steps and inserts a new PENDING one while other
   requests resubmit or decide: a chain still never has a PENDING step but
   its first, so one submission is pending at a time. *)
OnlyFirstStepPending ==
    EditsReplaceChain =>
        \A a \in Approvals : \A i \in DOMAIN continuous[a] :
            continuous[a][i].status = "PENDING" => i = 1

(* updateApprovalContinuous() compares its step, read before the transaction,
   with final_staff_employee_code, read inside it, while update() may name
   another final signer: the chain approves only by the step of the person who
   is the final signer when the approval is committed. *)
FinalSignerApproves ==
    [][\A p \in Requests :
         LET r == request[p]
         IN  /\ r.entry # Nil
             /\ r.entry.via = "updateContinuous"
             /\ r.entry.status = "APPROVED"
             /\ r.entry \in statusHistory'[r.id] \ statusHistory[r.id]
             => r.step.employee = approval[r.id].finalStaff]_vars

(* Whatever handler changes the status of an existing approval, its history
   gains a row with the new status in the same step. *)
StatusChangeIsLogged ==
    [][\A a \in Approvals :
         approval[a] # Nil /\ approval'[a].status # approval[a].status =>
             \E e \in statusHistory'[a] \ statusHistory[a] :
                 e.status = approval'[a].status]_vars

IsNewest(a, e) ==
    e \in statusHistory[a] /\ \A f \in statusHistory[a] : f.at <= e.at

(* findById shows the history newest first, and clients read the current
   status off its head.  updateStatus() dates its row before it waits for the
   approval, and create() dates its row after the approval is visible, so head
   and status can part; two decisions of the chain never make them part, for
   they date their row while they hold the approval's. *)
ChainDecisionsStayInOrder ==
    \A a \in Approvals : \A head \in statusHistory[a] :
        IsNewest(a, head) /\ head.status # approval[a].status =>
            \/ head.via = "create"
            \/ \E e \in statusHistory[a] :
                   e.via = "updateStatus" /\ e.status = approval[a].status

(* A handler that fails anywhere gives its row back: a status change that
   waits for the row is made in the end. *)
WaitersAreServed ==
    \A p \in Requests : request[p].pc = "dated" ~> request[p].pc = "idle"

(* Each endpoint takes effect as one indivisible act (ApprovalLedger). *)
Ledger == INSTANCE ApprovalLedger WITH
    tally <- [a \in Approvals |-> [s \in Statuses |->
                 Cardinality({e \in statusHistory[a] : e.status = s})]]

ImplementsLedger == Ledger!Spec

-----------------------------------------------------------------------------
(* A statement of a comment in the code, which the code does not keep:
   "Check if approval_continuous exists and has PENDING status".  The step a
   hand-over inserts is never PENDING, and is decided like any other. *)
OnlyPendingStepsDecided ==
    \A p \in Requests :
        request[p].op = "updateContinuous" /\ request[p].pc = "working" =>
            request[p].step.status = "PENDING"
=============================================================================

----------------------- MODULE ApprovalWorkflowProofs -----------------------
(***************************************************************************)
(* Proofs about ApprovalWorkflow, for any number of approvals, employees   *)
(* and requests in flight, any edits and any places where requests fail.   *)
(*                                                                         *)
(* The safety properties rest on the type invariant, on what a request     *)
(* that holds a row may rely on (HoldsRow) and on the dates of the history *)
(* rows (DatesDiffer).  Last comes that waits for rows form no circle.     *)
(***************************************************************************)
EXTENDS ApprovalWorkflow, SequenceTheorems, TLAPS

-----------------------------------------------------------------------------
(* Every typing fact below rests on this: a request in flight works on an
   approval that exists and has what its program counter says it has, and
   steps belong to approvals that exist. *)
InFlight ==
    \A p \in Requests :
        LET r == request[p]
        IN  /\ r.pc # "idle" => r.id \in Approvals /\ approval[r.id] # Nil
            /\ r.pc = "dated" => r.entry # Nil
            /\ r.pc = "working" => r.work # Nil

StepsHaveApproval ==
    \A a \in Approvals : continuous[a] # <<>> => approval[a] # Nil

Typed == TypeOK /\ InFlight /\ StepsHaveApproval

-----------------------------------------------------------------------------
(* What the record operators return. *)

(* A new row is a row, whoever it names. *)
LEMMA NewRowType ==
    ASSUME NEW e \in Person, NEW h \in Person, NEW f \in Person
    PROVE  NewRow(e, h, f) \in Row
BY DEF NewRow, Row, Statuses

(* An edit leaves a row a row. *)
LEMMA EditedRowType ==
    ASSUME NEW row \in Row, NEW e \in Edits
    PROVE  EditedRow(row, e) \in Row
<1>1. e \in Edit
  BY RecordsAssumption
<1>2. /\ Given(e.employee, row.employee) \in Person
      /\ Given(e.staffEmployee, row.continuousEmployee) \in Person
      /\ Given(e.finalStaff, row.finalStaff) \in Person
  BY <1>1 DEF Given, Edit, Row, Person
<1> QED
  BY <1>2 DEF EditedRow, Row

(* An edit leaves the steps a sequence of steps: employee_code is never NULL. *)
LEMMA EditedStepsType ==
    ASSUME NEW steps \in Seq(Step), NEW e \in Edits
    PROVE  EditedSteps(steps, e) \in Seq(Step)
<1> DEFINE kept == IF e.team THEN <<>> ELSE steps
           first == [employee |-> e.staffEmployee, status |-> "PENDING"]
<1>1. kept \in Seq(Step)
  OBVIOUS
<1>2. CASE e.signed
  <2>1. first \in Step
    BY <1>2, SignedEditsNameStaff DEF Step, StepStatuses
  <2>2. Append(kept, first) \in Seq(Step)
    BY <1>1, <2>1
  <2> QED
    BY <1>2, <2>2 DEF EditedSteps
<1>3. CASE ~ e.signed
  BY <1>1, <1>3 DEF EditedSteps
<1> QED
  BY <1>2, <1>3

(* Handing on and closing leave a row a row. *)
LEMMA DecidedRowType ==
    ASSUME NEW row \in Row
    PROVE  /\ \A next \in Employees : Forwarded(row, next) \in Row
           /\ \A v \in Statuses : Closed(row, v) \in Row
BY DEF Forwarded, Closed, Row, Person

(* A step added to steps. *)
LEMMA WithStepType ==
    ASSUME NEW steps \in Seq(Step), NEW e \in Employees, NEW s \in StepStatuses
    PROVE  WithStep(steps, e, s) \in Seq(Step)
<1>1. [employee |-> e, status |-> s] \in Step
  BY DEF Step
<1> QED
  BY <1>1 DEF WithStep

(* An idle request is a request. *)
LEMMA IdleType == Idle \in Request
BY DEF Idle, Request, PCs, Ops

(* A history row dated now. *)
LEMMA DatedType ==
    ASSUME TypeOK, NEW a \in Approvals, NEW s \in Statuses,
           NEW via \in {"create", "duplicate", "updateStatus", "updateContinuous"}
    PROVE  Dated(a, s, via) \in Entry
BY DEF Dated, Entry, TypeOK

-----------------------------------------------------------------------------
(* Type correctness. *)

LEMMA TypedInit == Init => Typed
BY IdleType DEF Init, Typed, TypeOK, InFlight, StepsHaveApproval, Idle

(* A step that gives one request a consistent new state and takes no approval
   away leaves all requests consistent. *)
LEMMA RequestMoves ==
    ASSUME Typed, NEW p \in Requests, NEW r \in Request,
           request' = [request EXCEPT ![p] = r],
           \A a \in Approvals : approval[a] # Nil => approval'[a] # Nil,
           r.pc # "idle" => r.id \in Approvals /\ approval'[r.id] # Nil,
           r.pc = "dated" => r.entry # Nil,
           r.pc = "working" => r.work # Nil
    PROVE  request' \in [Requests -> Request] /\ InFlight'
BY DEF Typed, TypeOK, InFlight

LEMMA CreateTyped ==
    ASSUME Typed, NEW p \in Requests, NEW a \in Approvals, NEW e \in Authors,
           Create(p, a, e)
    PROVE  Typed'
<1>1. NewRow(e, Nil, Nil) \in Row
  BY NewRowType, WorkflowAssumption DEF Person
<1>2. TypeOK'
  BY <1>1, IdleType DEF Typed, TypeOK, Create, Request, PCs, Ops
<1>3. InFlight'
  BY <1>1, RecordsAssumption, IdleType DEF Typed, TypeOK, InFlight, Create, Idle
<1>4. StepsHaveApproval'
  BY <1>1, RecordsAssumption DEF Typed, TypeOK, StepsHaveApproval, Create
<1> QED
  BY <1>2, <1>3, <1>4 DEF Typed

LEMMA CreateHistoryTyped ==
    ASSUME Typed, NEW p \in Requests, CreateHistory(p)
    PROVE  Typed'
<1> DEFINE a == request[p].id
<1>1. a \in Approvals
  BY DEF Typed, InFlight, CreateHistory
<1>2. Dated(a, "DRAFT", "create") \in Entry
  BY <1>1, DatedType DEF Typed, Statuses
<1>3. TypeOK'
  BY <1>1, <1>2, IdleType DEF Typed, TypeOK, CreateHistory, Tick, Finish
<1>4. InFlight'
  BY DEF Typed, TypeOK, InFlight, CreateHistory, Finish, Idle
<1> QED
  BY <1>3, <1>4 DEF Typed, StepsHaveApproval, CreateHistory

LEMMA FindByIdTyped ==
    ASSUME Typed, NEW p \in Requests, NEW op \in Ops, NEW a \in Approvals,
           FindById(p, op, a)
    PROVE  Typed'
<1>1. TypeOK'
  BY IdleType DEF Typed, TypeOK, FindById, Request, PCs
<1>2. InFlight'
  BY DEF Typed, TypeOK, InFlight, FindById, Idle
<1> QED
  BY <1>1, <1>2 DEF Typed, StepsHaveApproval, FindById

LEMMA DuplicateTyped ==
    ASSUME Typed, NEW p \in Requests, NEW a \in Approvals,
           NEW e \in Person, NEW h \in Person, NEW f \in Person,
           Duplicate(p, a, e, h, f)
    PROVE  Typed'
<1>1. NewRow(e, h, f) \in Row
  BY NewRowType DEF Typed, InFlight, Duplicate, At
<1>2. Dated(a, "DRAFT", "duplicate") \in Entry
  BY DatedType DEF Typed, Statuses
<1>3. TypeOK'
  BY <1>1, <1>2, IdleType DEF Typed, TypeOK, Duplicate, Tick, Finish
<1>4. InFlight'
  BY <1>1, RecordsAssumption DEF Typed, TypeOK, InFlight, Duplicate, Finish, Idle
<1>5. StepsHaveApproval'
  BY <1>1, RecordsAssumption DEF Typed, TypeOK, StepsHaveApproval, Duplicate
<1> QED
  BY <1>3, <1>4, <1>5 DEF Typed

LEMMA UpdateTyped ==
    ASSUME Typed, NEW p \in Requests, NEW e \in Edits, Update(p, e)
    PROVE  Typed'
<1> DEFINE a == request[p].id
           work == [row |-> EditedRow(approval[a], e),
                    steps |-> EditedSteps(continuous[a], e)]
           r == [request[p] EXCEPT !.pc = "working", !.work = work]
<1>1. a \in Approvals /\ approval[a] \in Row
  BY DEF Typed, TypeOK, InFlight, Update, At
<1>2. work \in Work /\ work # Nil
  BY <1>1, EditedRowType, EditedStepsType, WorkflowAssumption
     DEF Work, Typed, TypeOK
<1>3. request' = [request EXCEPT ![p] = r]
  BY DEF Update, Typed, TypeOK
<1> HIDE DEF work
<1>4. r \in Request /\ r.pc = "working" /\ r.id = a /\ r.work = work
  BY <1>2 DEF Typed, TypeOK, Request, PCs
<1>5. approval' = approval
  BY DEF Update
<1>6. request' \in [Requests -> Request] /\ InFlight'
  BY <1>1, <1>2, <1>3, <1>4, <1>5, RequestMoves, RecordsAssumption
<1>7. TypeOK'
  BY <1>1, <1>6 DEF Typed, TypeOK, Update, TakeRow
<1> QED
  BY <1>6, <1>7 DEF Typed, StepsHaveApproval, Update

LEMMA UpdateStatusHistoryTyped ==
    ASSUME Typed, NEW p \in Requests, NEW s \in Statuses,
           UpdateStatusHistory(p, s)
    PROVE  Typed'
<1> DEFINE a == request[p].id
           entry == Dated(a, s, "updateStatus")
           r == [request[p] EXCEPT !.pc = "dated", !.entry = entry]
<1>1. a \in Approvals /\ approval[a] # Nil
  BY DEF Typed, InFlight, UpdateStatusHistory, At
<1>2. entry \in Entry /\ entry # Nil
  BY <1>1, DatedType, WorkflowAssumption DEF Typed
<1>3. request' = [request EXCEPT ![p] = r]
  BY DEF UpdateStatusHistory, Typed, TypeOK
<1> HIDE DEF entry
<1>4. r \in Request /\ r.pc = "dated" /\ r.id = a /\ r.entry = entry
  BY <1>2 DEF Typed, TypeOK, Request, PCs
<1>5. approval' = approval
  BY DEF UpdateStatusHistory
<1>6. request' \in [Requests -> Request] /\ InFlight'
  BY <1>1, <1>2, <1>3, <1>4, <1>5, RequestMoves
<1>7. TypeOK'
  BY <1>1, <1>6 DEF Typed, TypeOK, UpdateStatusHistory, Tick
<1> QED
  BY <1>6, <1>7 DEF Typed, StepsHaveApproval, UpdateStatusHistory

(* A request that ends is consistent, and so are the others. *)
LEMMA RequestEnds ==
    ASSUME Typed, NEW p \in Requests, Finish(p),
           \A a \in Approvals : approval[a] # Nil => approval'[a] # Nil
    PROVE  request' \in [Requests -> Request] /\ InFlight'
<1>1. Idle \in Request /\ Idle.pc = "idle"
  BY IdleType DEF Idle
<1> QED
  BY <1>1, RequestMoves DEF Finish

LEMMA UpdateStatusCommitTyped ==
    ASSUME Typed, NEW p \in Requests, UpdateStatusCommit(p)
    PROVE  Typed'
<1> DEFINE a == request[p].id
           entry == request[p].entry
           row == [approval[a] EXCEPT !.status = entry.status]
<1>1. a \in Approvals /\ approval[a] \in Row
  BY DEF Typed, TypeOK, InFlight, UpdateStatusCommit
<1>2. entry \in Entry
  BY DEF Typed, TypeOK, InFlight, UpdateStatusCommit, Request
<1>3. row \in Row
  BY <1>1, <1>2 DEF Row, Entry
<1>4. approval' = [approval EXCEPT ![a] = row]
  BY DEF UpdateStatusCommit
<1> HIDE DEF row
<1>5. \A b \in Approvals : approval[b] # Nil => approval'[b] # Nil
  BY <1>1, <1>3, <1>4, RecordsAssumption DEF Typed, TypeOK
<1>6. request' \in [Requests -> Request] /\ InFlight'
  BY <1>5, RequestEnds DEF UpdateStatusCommit
<1>7. TypeOK'
  BY <1>1, <1>2, <1>3, <1>4, <1>6 DEF Typed, TypeOK, UpdateStatusCommit
<1> QED
  BY <1>5, <1>6, <1>7 DEF Typed, StepsHaveApproval, UpdateStatusCommit

LEMMA RemoveTyped ==
    ASSUME Typed, NEW p \in Requests, Remove(p)
    PROVE  Typed'
<1> DEFINE a == request[p].id
           row == [approval[a] EXCEPT !.deleted = TRUE]
<1>1. a \in Approvals /\ approval[a] \in Row
  BY DEF Typed, TypeOK, InFlight, Remove, At
<1>2. row \in Row
  BY <1>1 DEF Row
<1>3. approval' = [approval EXCEPT ![a] = row]
  BY DEF Remove
<1> HIDE DEF row
<1>4. \A b \in Approvals : approval[b] # Nil => approval'[b] # Nil
  BY <1>1, <1>2, <1>3, RecordsAssumption DEF Typed, TypeOK
<1>5. request' \in [Requests -> Request] /\ InFlight'
  BY <1>4, RequestEnds DEF Remove
<1>6. TypeOK'
  BY <1>1, <1>2, <1>3, <1>5 DEF Typed, TypeOK, Remove
<1> QED
  BY <1>4, <1>5, <1>6 DEF Typed, StepsHaveApproval, Remove

LEMMA UpdateContinuousReadTyped ==
    ASSUME Typed, NEW p \in Requests, NEW a \in Approvals,
           NEW i \in DOMAIN continuous[a], UpdateContinuousRead(p, a, i)
    PROVE  Typed'
<1> DEFINE r == [Idle EXCEPT !.pc = "found", !.op = "updateContinuous",
                             !.id = a, !.step = continuous[a][i]]
<1>1. approval[a] # Nil /\ continuous[a][i] \in Step
  BY DEF Typed, TypeOK, StepsHaveApproval
<1>2. request' = [request EXCEPT ![p] = r]
  BY DEF UpdateContinuousRead
<1>3. r \in Request /\ r.pc = "found" /\ r.id = a
  BY <1>1, IdleType DEF Idle, Request, PCs, Ops
<1> HIDE DEF r
<1>4. request' \in [Requests -> Request] /\ InFlight'
  BY <1>1, <1>2, <1>3, RequestMoves DEF UpdateContinuousRead
<1> QED
  BY <1>4 DEF Typed, TypeOK, StepsHaveApproval, UpdateContinuousRead

LEMMA ForwardStepTyped ==
    ASSUME Typed, NEW p \in Requests, NEW next \in Employees,
           ForwardStep(p, next)
    PROVE  Typed'
<1> DEFINE a == request[p].id
           work == [row |-> Forwarded(approval[a], next),
                    steps |-> WithStep(continuous[a], next, "APPROVED")]
           r == [request[p] EXCEPT !.pc = "working", !.work = work]
<1>1. a \in Approvals /\ approval[a] \in Row
  BY DEF Typed, TypeOK, InFlight, ForwardStep, At
<1>2. work \in Work /\ work # Nil
  <2>1. Forwarded(approval[a], next) \in Row
    BY <1>1, DecidedRowType
  <2>2. continuous[a] \in Seq(Step) /\ "APPROVED" \in StepStatuses
    BY <1>1 DEF Typed, TypeOK, StepStatuses
  <2>3. WithStep(continuous[a], next, "APPROVED") \in Seq(Step)
    BY <2>2, WithStepType
  <2> QED
    BY <2>1, <2>3, WorkflowAssumption DEF Work
<1>3. request' = [request EXCEPT ![p] = r]
  BY DEF ForwardStep, Typed, TypeOK
<1> HIDE DEF work
<1>4. r \in Request /\ r.pc = "working" /\ r.id = a /\ r.work = work
  BY <1>2 DEF Typed, TypeOK, Request, PCs
<1>5. approval' = approval
  BY DEF ForwardStep
<1>6. request' \in [Requests -> Request] /\ InFlight'
  BY <1>1, <1>2, <1>3, <1>4, <1>5, RequestMoves, RecordsAssumption
<1>7. TypeOK'
  BY <1>1, <1>6 DEF Typed, TypeOK, ForwardStep, TakeRow
<1> QED
  BY <1>6, <1>7 DEF Typed, StepsHaveApproval, ForwardStep

LEMMA CloseChainTyped ==
    ASSUME Typed, NEW p \in Requests, NEW verdict \in {"APPROVED", "REJECTED"},
           At(p, "found", "updateContinuous"), CloseChain(p, verdict)
    PROVE  Typed'
<1> DEFINE a == request[p].id
           author == approval[a].employee
           entry == Dated(a, verdict, "updateContinuous")
           work == [row |-> Closed(approval[a], verdict),
                    steps |-> WithStep(continuous[a], author, verdict)]
           r == [request[p] EXCEPT !.pc = "working", !.entry = entry, !.work = work]
<1>1. a \in Approvals /\ approval[a] \in Row
  BY DEF Typed, TypeOK, InFlight, At
<1>2. author \in Employees
  BY <1>1 DEF CloseChain, Row, Person
<1>3. work \in Work /\ work # Nil
  <2>1. Closed(approval[a], verdict) \in Row
    BY <1>1, DecidedRowType DEF Statuses
  <2>2. continuous[a] \in Seq(Step) /\ verdict \in StepStatuses
    BY <1>1 DEF Typed, TypeOK, StepStatuses
  <2>3. WithStep(continuous[a], author, verdict) \in Seq(Step)
    BY <1>2, <2>2, WithStepType
  <2> QED
    BY <2>1, <2>3, WorkflowAssumption DEF Work
<1>4. entry \in Entry
  BY <1>1, DatedType DEF Typed, Statuses
<1>5. request' = [request EXCEPT ![p] = r]
  BY DEF CloseChain, Typed, TypeOK
<1> HIDE DEF work, entry
<1>6. r \in Request /\ r.pc = "working" /\ r.id = a /\ r.work = work
  BY <1>3, <1>4 DEF Typed, TypeOK, Request, PCs
<1>7. approval' = approval
  BY DEF CloseChain
<1>8. request' \in [Requests -> Request] /\ InFlight'
  BY <1>1, <1>3, <1>5, <1>6, <1>7, RequestMoves, RecordsAssumption
<1>9. TypeOK'
  BY <1>1, <1>8 DEF Typed, TypeOK, CloseChain, TakeRow, Tick
<1> QED
  BY <1>8, <1>9 DEF Typed, StepsHaveApproval, CloseChain

LEMMA CommitTyped ==
    ASSUME Typed, NEW p \in Requests, Commit(p)
    PROVE  Typed'
<1> DEFINE a == request[p].id
           r == request[p]
<1>1. a \in Approvals /\ r.work \in Work
  BY DEF Typed, TypeOK, InFlight, Commit, Request
<1>2. r.work.row \in Row /\ r.work.steps \in Seq(Step)
  BY <1>1 DEF Work
<1>3. /\ approval' = [approval EXCEPT ![a] = r.work.row]
      /\ continuous' = [continuous EXCEPT ![a] = r.work.steps]
  BY DEF Commit
<1>4. \A b \in Approvals : approval[b] # Nil => approval'[b] # Nil
  BY <1>1, <1>2, <1>3, RecordsAssumption DEF Typed, TypeOK
<1>5. request' \in [Requests -> Request] /\ InFlight'
  BY <1>4, RequestEnds DEF Commit
<1>6. statusHistory' \in [Approvals -> SUBSET Entry]
  BY <1>1 DEF Typed, TypeOK, Commit, Request
<1>7. rowLock' \in [Approvals -> Requests \cup {Nil}]
  BY DEF Typed, TypeOK, Commit, ReleaseRows
<1>8. TypeOK'
  BY <1>1, <1>2, <1>3, <1>5, <1>6, <1>7 DEF Typed, TypeOK, Commit
<1>9. StepsHaveApproval'
  BY <1>1, <1>2, <1>3, RecordsAssumption DEF Typed, TypeOK, StepsHaveApproval
<1> QED
  BY <1>5, <1>8, <1>9 DEF Typed

LEMMA AbortTyped ==
    ASSUME Typed, NEW p \in Requests, Abort(p)
    PROVE  Typed'
<1>1. request' \in [Requests -> Request] /\ InFlight'
  BY RequestEnds DEF Abort
<1>2. rowLock' \in [Approvals -> Requests \cup {Nil}]
  BY DEF Typed, TypeOK, Abort, ReleaseRows
<1> QED
  BY <1>1, <1>2 DEF Typed, TypeOK, StepsHaveApproval, Abort

LEMMA NoDecisionTyped ==
    ASSUME Typed, NEW p \in Requests, NoDecision(p)
    PROVE  Typed'
<1>1. request' \in [Requests -> Request] /\ InFlight'
  BY RequestEnds DEF NoDecision
<1> QED
  BY <1>1 DEF Typed, TypeOK, StepsHaveApproval, NoDecision

LEMMA TypedStep == Typed /\ [Next]_vars => Typed'
<1> SUFFICES ASSUME Typed, [Next]_vars PROVE Typed'
  OBVIOUS
<1>1. ASSUME NEW p \in Requests, Arrive(p) PROVE Typed'
  BY <1>1, CreateTyped, FindByIdTyped, UpdateContinuousReadTyped DEF Arrive
<1>2. ASSUME NEW p \in Requests, Proceed(p) PROVE Typed'
  <2>1. CASE ApproveFinal(p) \/ Reject(p)
    BY <2>1, CloseChainTyped DEF ApproveFinal, Reject
  <2> QED
    BY <1>2, <2>1, CreateHistoryTyped, DuplicateTyped, UpdateTyped,
       UpdateStatusHistoryTyped, UpdateStatusCommitTyped, RemoveTyped,
       ForwardStepTyped, NoDecisionTyped, CommitTyped
    DEF Proceed
<1>3. CASE UNCHANGED vars
  BY <1>3 DEF vars, Typed, TypeOK, InFlight, StepsHaveApproval
<1> QED
  BY <1>1, <1>2, <1>3, AbortTyped DEF Next

(* Every variable always holds what its table, lock or request can hold. *)
THEOREM TypeCorrect == Spec => []TypeOK
<1>1. Typed => TypeOK
  BY DEF Typed
<1> QED
  BY TypedInit, TypedStep, <1>1, PTL DEF Spec

-----------------------------------------------------------------------------
(* An open transaction holds the row of its approval, so what it read of the
   row still stands; only its own history row, if it has one, goes with a
   change of the status; and no decision is dated between that row and its
   commit. *)
Holds(p) ==
    LET r == request[p]
    IN  /\ r.pc \in {"idle", "found", "opened"} => r.entry = Nil
        /\ r.pc = "dated" => r.entry.via = "updateStatus"
        /\ r.pc = "working" =>
               /\ rowLock[r.id] = p
               /\ r.entry = Nil => r.work.row.status = approval[r.id].status
               /\ r.entry # Nil =>
                      /\ r.entry.via = "updateContinuous"
                      /\ r.entry.status = r.work.row.status
                      /\ r.entry.status = "APPROVED" =>
                             r.step.employee = approval[r.id].finalStaff
                      /\ \A e \in statusHistory[r.id] :
                             e.at > r.entry.at => e.via = "create"

HoldsRow == \A p \in Requests : Holds(p)

(* created_at tells the history rows of an approval apart, the uncommitted
   ones included. *)
DatesDiffer ==
    /\ \A a \in Approvals : \A e \in statusHistory[a] : e.at < clock[a]
    /\ \A p \in Requests :
           LET r == request[p]
           IN  r.entry # Nil =>
                   /\ r.entry.at < clock[r.id]
                   /\ \A e \in statusHistory[r.id] : e.at # r.entry.at
                   /\ \A q \in Requests \ {p} :
                          request[q].entry # Nil /\ request[q].id = r.id =>
                              request[q].entry.at # r.entry.at

Inv == Typed /\ HoldsRow /\ DatesDiffer

-----------------------------------------------------------------------------
(* Each action preserves HoldsRow: for the request that takes it, and for the
   others, whose rows it may not touch. *)

LEMMA CreateHolds ==
    ASSUME Inv, NEW p \in Requests, NEW a \in Approvals, NEW e \in Authors,
           Create(p, a, e)
    PROVE  HoldsRow'
<1> SUFFICES ASSUME NEW q \in Requests PROVE Holds(q)'
  BY DEF HoldsRow
<1>1. CASE q = p
  BY <1>1 DEF Inv, Typed, TypeOK, Holds, Idle, Create
<1>2. CASE q # p
  BY <1>2 DEF Inv, Typed, TypeOK, InFlight, HoldsRow, Holds, Create
<1> QED
  BY <1>1, <1>2

LEMMA CreateHistoryHolds ==
    ASSUME Inv, NEW p \in Requests, CreateHistory(p)
    PROVE  HoldsRow'
<1> SUFFICES ASSUME NEW q \in Requests PROVE Holds(q)'
  BY DEF HoldsRow
<1>1. CASE q = p
  BY <1>1 DEF Inv, Typed, TypeOK, Holds, Idle, CreateHistory, Finish
<1>2. CASE q # p
  BY <1>2 DEF Inv, Typed, TypeOK, InFlight, HoldsRow, Holds, CreateHistory, Dated, Finish, Tick
<1> QED
  BY <1>1, <1>2

LEMMA FindByIdHolds ==
    ASSUME Inv, NEW p \in Requests, NEW op \in Ops, NEW a \in Approvals,
           FindById(p, op, a)
    PROVE  HoldsRow'
<1> SUFFICES ASSUME NEW q \in Requests PROVE Holds(q)'
  BY DEF HoldsRow
<1>1. CASE q = p
  BY <1>1 DEF Inv, Typed, TypeOK, Holds, Idle, FindById
<1>2. CASE q # p
  BY <1>2 DEF Inv, Typed, TypeOK, InFlight, HoldsRow, Holds, FindById
<1> QED
  BY <1>1, <1>2

LEMMA DuplicateHolds ==
    ASSUME Inv, NEW p \in Requests, NEW a \in Approvals,
           NEW e \in Person, NEW h \in Person, NEW f \in Person,
           Duplicate(p, a, e, h, f)
    PROVE  HoldsRow'
<1> SUFFICES ASSUME NEW q \in Requests PROVE Holds(q)'
  BY DEF HoldsRow
<1>1. CASE q = p
  BY <1>1 DEF Inv, Typed, TypeOK, Holds, Idle, Duplicate, Finish
<1>2. CASE q # p
  BY <1>2 DEF Inv, Typed, TypeOK, InFlight, HoldsRow, Holds, Duplicate, At, Finish
<1> QED
  BY <1>1, <1>2

(* A request that takes a free row disturbs no other. *)
LEMMA TakeRowHolds ==
    ASSUME Inv, NEW p \in Requests, NEW q \in Requests, NEW a \in Approvals,
           TakeRow(p, a), request'[q] = request[q],
           UNCHANGED <<approval, statusHistory>>
    PROVE  Holds(q)'
<1>1. rowLock' = [rowLock EXCEPT ![a] = p] /\ rowLock[a] = Nil
  BY DEF TakeRow, RowFree
<1>2. Holds(q) /\ Nil # q
  BY WorkflowAssumption DEF Inv, HoldsRow
<1>3. request[q].pc = "working" => request[q].id \in Approvals \ {a}
  BY <1>1, <1>2 DEF Holds, Inv, Typed, InFlight
<1>4. request[q].pc = "working" => rowLock'[request[q].id] = rowLock[request[q].id]
  BY <1>1, <1>3 DEF Inv, Typed, TypeOK
<1> QED
  BY <1>2, <1>4 DEF Holds

LEMMA UpdateHolds ==
    ASSUME Inv, NEW p \in Requests, NEW e \in Edits, Update(p, e)
    PROVE  HoldsRow'
<1> SUFFICES ASSUME NEW q \in Requests PROVE Holds(q)'
  BY DEF HoldsRow
<1> DEFINE a == request[p].id
           work == [row |-> EditedRow(approval[a], e),
                    steps |-> EditedSteps(continuous[a], e)]
<1>1. CASE q = p
  <2>1. a \in Approvals /\ approval[a] \in Row /\ request[p].entry = Nil
    BY DEF Inv, Typed, TypeOK, InFlight, HoldsRow, Holds, Update, At
  <2>2. work.row.status = approval[a].status
    BY <2>1 DEF EditedRow, Row
  <2>3. request' = [request EXCEPT ![p] =
                       [request[p] EXCEPT !.pc = "working", !.work = work]]
    BY DEF Update, Inv, Typed, TypeOK
  <2> HIDE DEF work
  <2>4. /\ request'[p].pc = "working" /\ request'[p].id = a
        /\ request'[p].work = work /\ request'[p].entry = Nil
    BY <2>1, <2>3 DEF Inv, Typed, TypeOK, Request
  <2> QED
    BY <1>1, <2>1, <2>2, <2>4
    DEF Holds, Update, TakeRow, Inv, Typed, TypeOK
<1>2. CASE q # p
  <2>1. request[p].id \in Approvals /\ request'[q] = request[q]
    BY <1>2 DEF Update, Inv, Typed, TypeOK, InFlight, At
  <2> QED
    BY <2>1, TakeRowHolds DEF Update
<1> QED
  BY <1>1, <1>2

LEMMA UpdateStatusHistoryHolds ==
    ASSUME Inv, NEW p \in Requests, NEW s \in Statuses,
           UpdateStatusHistory(p, s)
    PROVE  HoldsRow'
<1> SUFFICES ASSUME NEW q \in Requests PROVE Holds(q)'
  BY DEF HoldsRow
<1>1. CASE q = p
  <2> DEFINE r == [request[p] EXCEPT !.pc = "dated",
                       !.entry = Dated(request[p].id, s, "updateStatus")]
  <2>1. request' = [request EXCEPT ![p] = r]
    BY DEF UpdateStatusHistory, Inv, Typed, TypeOK
  <2>2. r.pc = "dated" /\ r.entry.via = "updateStatus"
    BY DEF Dated, Inv, Typed, TypeOK, Request
  <2> QED
    BY <1>1, <2>1, <2>2 DEF Holds, Inv, Typed, TypeOK
<1>2. CASE q # p
  BY <1>2 DEF Inv, Typed, TypeOK, InFlight, HoldsRow, Holds, UpdateStatusHistory, At
<1> QED
  BY <1>1, <1>2

LEMMA UpdateStatusCommitHolds ==
    ASSUME Inv, NEW p \in Requests, UpdateStatusCommit(p)
    PROVE  HoldsRow'
<1> SUFFICES ASSUME NEW q \in Requests PROVE Holds(q)'
  BY DEF HoldsRow
<1>1. CASE q = p
  BY <1>1 DEF Inv, Typed, TypeOK, Holds, Idle, UpdateStatusCommit, Finish
<1>2. CASE q # p
  <2> DEFINE a == request[p].id
  <2>1. Holds(q) /\ Nil # q /\ request'[q] = request[q]
    BY <1>2, WorkflowAssumption
    DEF Inv, HoldsRow, UpdateStatusCommit, Finish, Typed, TypeOK
  <2>2. request[q].pc = "working" => request[q].id \in Approvals \ {a}
    BY <2>1 DEF UpdateStatusCommit, RowFree, Holds, Inv, Typed, InFlight
  <2>3. \A b \in Approvals \ {a} :
            approval'[b] = approval[b] /\ statusHistory'[b] = statusHistory[b]
    BY DEF UpdateStatusCommit, Inv, Typed, TypeOK
  <2> QED
    BY <2>1, <2>2, <2>3 DEF Holds, UpdateStatusCommit
<1> QED
  BY <1>1, <1>2

LEMMA RemoveHolds ==
    ASSUME Inv, NEW p \in Requests, Remove(p)
    PROVE  HoldsRow'
<1> SUFFICES ASSUME NEW q \in Requests PROVE Holds(q)'
  BY DEF HoldsRow
<1>1. CASE q = p
  BY <1>1 DEF Inv, Typed, TypeOK, Holds, Idle, Remove, Finish
<1>2. CASE q # p
  BY <1>2 DEF Inv, Typed, TypeOK, InFlight, HoldsRow, Holds, Remove, At, RowFree, Finish
<1> QED
  BY <1>1, <1>2

LEMMA UpdateContinuousReadHolds ==
    ASSUME Inv, NEW p \in Requests, NEW a \in Approvals,
           NEW i \in DOMAIN continuous[a], UpdateContinuousRead(p, a, i)
    PROVE  HoldsRow'
<1> SUFFICES ASSUME NEW q \in Requests PROVE Holds(q)'
  BY DEF HoldsRow
<1>1. CASE q = p
  BY <1>1 DEF Inv, Typed, TypeOK, Holds, Idle, UpdateContinuousRead
<1>2. CASE q # p
  BY <1>2 DEF Inv, Typed, TypeOK, InFlight, HoldsRow, Holds, UpdateContinuousRead
<1> QED
  BY <1>1, <1>2

LEMMA ForwardStepHolds ==
    ASSUME Inv, NEW p \in Requests, NEW next \in Employees,
           ForwardStep(p, next)
    PROVE  HoldsRow'
<1> SUFFICES ASSUME NEW q \in Requests PROVE Holds(q)'
  BY DEF HoldsRow
<1> DEFINE a == request[p].id
           work == [row |-> Forwarded(approval[a], next),
                    steps |-> WithStep(continuous[a], next, "APPROVED")]
<1>1. CASE q = p
  <2>1. a \in Approvals /\ approval[a] \in Row /\ request[p].entry = Nil
    BY DEF Inv, Typed, TypeOK, InFlight, HoldsRow, Holds, ForwardStep, At
  <2>2. work.row.status = approval[a].status
    BY <2>1 DEF Forwarded, Row
  <2>3. request' = [request EXCEPT ![p] =
                       [request[p] EXCEPT !.pc = "working", !.work = work]]
    BY DEF ForwardStep, Inv, Typed, TypeOK
  <2> HIDE DEF work
  <2>4. /\ request'[p].pc = "working" /\ request'[p].id = a
        /\ request'[p].work = work /\ request'[p].entry = Nil
    BY <2>1, <2>3 DEF Inv, Typed, TypeOK, Request
  <2> QED
    BY <1>1, <2>1, <2>2, <2>4
    DEF Holds, ForwardStep, TakeRow, Inv, Typed, TypeOK
<1>2. CASE q # p
  <2>1. request[p].id \in Approvals /\ request'[q] = request[q]
    BY <1>2 DEF ForwardStep, Inv, Typed, TypeOK, InFlight, At
  <2> QED
    BY <2>1, TakeRowHolds DEF ForwardStep
<1> QED
  BY <1>1, <1>2

(* The step was compared with the final signer when the row was taken. *)
LEMMA CloseChainHolds ==
    ASSUME Inv, NEW p \in Requests, NEW verdict \in {"APPROVED", "REJECTED"},
           At(p, "found", "updateContinuous"), CloseChain(p, verdict),
           verdict = "APPROVED" =>
               request[p].step.employee = approval[request[p].id].finalStaff
    PROVE  HoldsRow'
<1> SUFFICES ASSUME NEW q \in Requests PROVE Holds(q)'
  BY DEF HoldsRow
<1> DEFINE a == request[p].id
           entry == Dated(a, verdict, "updateContinuous")
           work == [row |-> Closed(approval[a], verdict),
                    steps |-> WithStep(continuous[a], approval[a].employee, verdict)]
<1>1. CASE q = p
  <2>1. a \in Approvals /\ approval[a] \in Row
    BY DEF Inv, Typed, TypeOK, InFlight, At
  <2>2. work.row.status = verdict
    BY <2>1 DEF Closed, Row
  <2>3. entry.at = clock[a] /\ entry.status = verdict /\ entry.via = "updateContinuous"
    BY DEF Dated
  <2>4. entry # Nil
    BY <2>1, DatedType, WorkflowAssumption DEF Inv, Typed, Statuses
  <2>5. request' = [request EXCEPT ![p] = [request[p] EXCEPT
                       !.pc = "working", !.entry = entry, !.work = work]]
    BY DEF CloseChain, Inv, Typed, TypeOK
  <2> HIDE DEF work, entry
  <2>6. /\ request'[p].pc = "working" /\ request'[p].id = a
        /\ request'[p].work = work /\ request'[p].entry = entry
        /\ request'[p].step = request[p].step
    BY <2>5 DEF Inv, Typed, TypeOK, Request
  <2>7. \A e \in statusHistory'[a] : ~ (e.at > entry.at)
    BY <2>1, <2>3 DEF CloseChain, Inv, Typed, TypeOK, DatesDiffer, Entry
  <2> QED
    BY <1>1, <2>1, <2>2, <2>3, <2>4, <2>6, <2>7
    DEF Holds, CloseChain, TakeRow, Inv, Typed, TypeOK
<1>2. CASE q # p
  <2>1. request[p].id \in Approvals /\ request'[q] = request[q]
    BY <1>2 DEF CloseChain, Inv, Typed, TypeOK, InFlight, At
  <2> QED
    BY <2>1, TakeRowHolds DEF CloseChain
<1> QED
  BY <1>1, <1>2

LEMMA NoDecisionHolds ==
    ASSUME Inv, NEW p \in Requests, NoDecision(p)
    PROVE  HoldsRow'
<1> SUFFICES ASSUME NEW q \in Requests PROVE Holds(q)'
  BY DEF HoldsRow
<1>1. CASE q = p
  BY <1>1 DEF Inv, Typed, TypeOK, Holds, Idle, NoDecision, Finish
<1>2. CASE q # p
  BY <1>2 DEF Inv, Typed, TypeOK, InFlight, HoldsRow, Holds, NoDecision, At, Finish
<1> QED
  BY <1>1, <1>2

LEMMA CommitHolds ==
    ASSUME Inv, NEW p \in Requests, Commit(p)
    PROVE  HoldsRow'
<1> SUFFICES ASSUME NEW q \in Requests PROVE Holds(q)'
  BY DEF HoldsRow
<1>1. CASE q = p
  BY <1>1 DEF Inv, Typed, TypeOK, Holds, Idle, Commit, Finish
<1>2. CASE q # p
  BY <1>2 DEF Inv, Typed, TypeOK, InFlight, HoldsRow, Holds, Commit, ReleaseRows, Finish
<1> QED
  BY <1>1, <1>2

LEMMA AbortHolds ==
    ASSUME Inv, NEW p \in Requests, Abort(p)
    PROVE  HoldsRow'
<1> SUFFICES ASSUME NEW q \in Requests PROVE Holds(q)'
  BY DEF HoldsRow
<1>1. CASE q = p
  BY <1>1 DEF Inv, Typed, TypeOK, Holds, Idle, Abort, Finish
<1>2. CASE q # p
  BY <1>2 DEF Inv, Typed, TypeOK, InFlight, HoldsRow, Holds, Abort, ReleaseRows, Finish
<1> QED
  BY <1>1, <1>2


-----------------------------------------------------------------------------
(* Each action preserves DatesDiffer.  A step either leaves the dates alone,
   dates a private row, adds a row dated now, or commits a private row. *)

LEMMA DatesLeftAlone ==
    ASSUME Inv, UNCHANGED <<statusHistory, clock>>,
           \A q \in Requests :
               \/ request'[q].entry = Nil
               \/ /\ request'[q].entry = request[q].entry
                  /\ request'[q].id = request[q].id
    PROVE  DatesDiffer'
BY DEF Inv, DatesDiffer

(* An uncommitted history row is dated before the next one. *)
LEMMA EntryType ==
    ASSUME Inv, NEW p \in Requests, request[p].entry # Nil
    PROVE  /\ request[p].id \in Approvals
           /\ request[p].entry \in Entry
           /\ request[p].entry.at \in Nat
           /\ clock[request[p].id] \in Nat
<1>1. request[p] \in Request /\ Holds(p)
  BY DEF Inv, Typed, TypeOK, HoldsRow
<1>2. request[p].entry \in Entry /\ request[p].pc # "idle"
  BY <1>1 DEF Request, Holds
<1> QED
  BY <1>2 DEF Inv, Typed, TypeOK, InFlight, Entry

LEMMA DatesPrivateRow ==
    ASSUME Inv, NEW p \in Requests, NEW a \in Approvals,
           UNCHANGED statusHistory, Tick(a),
           \A q \in Requests \ {p} : request'[q] = request[q],
           request'[p].id = a, request'[p].entry.at = clock[a]
    PROVE  DatesDiffer'
<1>1. clock' = [clock EXCEPT ![a] = clock[a] + 1] /\ clock \in [Approvals -> Nat]
  BY DEF Tick, Inv, Typed, TypeOK
<1>2. ASSUME NEW b \in Approvals, NEW e \in statusHistory[b]
      PROVE  e.at \in Nat /\ e.at < clock[b] /\ e.at < clock'[b]
  BY <1>1, <1>2 DEF Inv, Typed, TypeOK, DatesDiffer, Entry
<1>3. ASSUME NEW q \in Requests \ {p}, request'[q].entry # Nil
      PROVE  /\ request[q].entry.at < clock[request[q].id]
             /\ request[q].entry.at < clock'[request[q].id]
  BY <1>1, <1>3, EntryType DEF Inv, DatesDiffer
<1>4. request'[p].entry.at < clock'[a]
  BY <1>1
<1>5. \A q \in Requests : request'[q].entry # Nil =>
          /\ request'[q].entry.at < clock'[request'[q].id]
          /\ \A e \in statusHistory[request'[q].id] : e.at # request'[q].entry.at
  BY <1>1, <1>2, <1>3, <1>4, EntryType DEF Inv, DatesDiffer
<1>6. \A q, r \in Requests :
          /\ q # r
          /\ request'[q].entry # Nil /\ request'[r].entry # Nil
          /\ request'[q].id = request'[r].id
          => request'[q].entry.at # request'[r].entry.at
  BY <1>1, <1>3, EntryType DEF Inv, DatesDiffer
<1> QED
  BY <1>1, <1>2, <1>5, <1>6 DEF DatesDiffer

LEMMA AddsRowDatedNow ==
    ASSUME Inv, NEW p \in Requests, NEW a \in Approvals, NEW e \in Entry,
           e.at = clock[a], Tick(a),
           \A b \in Approvals \ {a} : statusHistory'[b] = statusHistory[b],
           statusHistory'[a] \subseteq statusHistory[a] \cup {e},
           \A q \in Requests \ {p} : request'[q] = request[q],
           request'[p].entry = Nil
    PROVE  DatesDiffer'
<1>1. clock' = [clock EXCEPT ![a] = clock[a] + 1] /\ clock \in [Approvals -> Nat]
  BY DEF Tick, Inv, Typed, TypeOK
<1>2. \A b \in Approvals : \A f \in statusHistory'[b] : f.at < clock'[b]
  <2>1. \A b \in Approvals : \A f \in statusHistory[b] :
            f.at \in Nat /\ f.at < clock[b]
    BY DEF Inv, Typed, TypeOK, DatesDiffer, Entry
  <2> QED
    BY <1>1, <2>1
<1>3. ASSUME NEW q \in Requests \ {p}, request'[q].entry # Nil
      PROVE  /\ request[q].entry.at < clock[request[q].id]
             /\ request[q].entry.at < clock'[request[q].id]
             /\ \A f \in statusHistory'[request[q].id] : f.at # request[q].entry.at
  BY <1>1, <1>3, EntryType DEF Inv, DatesDiffer
<1> QED
  BY <1>2, <1>3 DEF Inv, DatesDiffer

LEMMA CommitsPrivateRow ==
    ASSUME Inv, NEW p \in Requests, UNCHANGED clock,
           \A b \in Approvals \ {request[p].id} :
               statusHistory'[b] = statusHistory[b],
           \/ UNCHANGED statusHistory
           \/ /\ request[p].entry # Nil
              /\ statusHistory'[request[p].id] =
                     statusHistory[request[p].id] \cup {request[p].entry},
           \A q \in Requests \ {p} : request'[q] = request[q],
           request'[p].entry = Nil
    PROVE  DatesDiffer'
<1> DEFINE a == request[p].id
           entry == request[p].entry
<1>1. ASSUME NEW b \in Approvals, NEW e \in statusHistory'[b]
      PROVE  e.at < clock'[b]
  <2>1. CASE e \in statusHistory[b]
    BY <2>1 DEF Inv, DatesDiffer
  <2>2. CASE e \notin statusHistory[b]
    <3>1. b = a /\ e = entry /\ entry # Nil
      BY <1>1, <2>2
    <3> QED
      BY <3>1 DEF Inv, DatesDiffer
  <2> QED
    BY <2>1, <2>2
<1>2. ASSUME NEW q \in Requests \ {p}, request'[q].entry # Nil
      PROVE  /\ request[q].entry.at < clock[request[q].id]
             /\ \A e \in statusHistory'[request[q].id] : e.at # request[q].entry.at
  <2>1. request[q].entry # Nil /\ request[q].id \in Approvals
    BY <1>2, EntryType
  <2>2. request[q].id = a /\ entry # Nil => entry.at # request[q].entry.at
    BY <2>1 DEF Inv, DatesDiffer
  <2> QED
    BY <2>1, <2>2 DEF Inv, DatesDiffer
<1>3. ASSUME NEW q \in Requests, request'[q].entry # Nil
      PROVE  \A r \in Requests \ {q} :
                 request'[r].entry # Nil /\ request'[r].id = request'[q].id =>
                     request'[r].entry.at # request'[q].entry.at
  BY <1>3 DEF Inv, DatesDiffer
<1> QED
  BY <1>1, <1>2, <1>3 DEF DatesDiffer

LEMMA DatesStep == Inv /\ [Next]_vars => DatesDiffer'
<1> SUFFICES ASSUME Inv, [Next]_vars PROVE DatesDiffer'
  OBVIOUS
<1> USE DEF Idle
<1>1. ASSUME NEW p \in Requests, NEW a \in Approvals, NEW e \in Authors,
             Create(p, a, e)
      PROVE  DatesDiffer'
  BY <1>1, DatesLeftAlone DEF Create, Inv, Typed, TypeOK
<1>2. ASSUME NEW p \in Requests, NEW op \in Ops, NEW a \in Approvals,
             FindById(p, op, a)
      PROVE  DatesDiffer'
  BY <1>2, DatesLeftAlone DEF FindById, Inv, Typed, TypeOK
<1>3. ASSUME NEW p \in Requests, NEW a \in Approvals,
             NEW i \in DOMAIN continuous[a], UpdateContinuousRead(p, a, i)
      PROVE  DatesDiffer'
  BY <1>3, DatesLeftAlone DEF UpdateContinuousRead, Inv, Typed, TypeOK
<1>4. ASSUME NEW p \in Requests, CreateHistory(p)
      PROVE  DatesDiffer'
  <2>1. request[p].id \in Approvals
    BY <1>4 DEF CreateHistory, Inv, Typed, InFlight
  <2>2. Dated(request[p].id, "DRAFT", "create") \in Entry
    BY <2>1, DatedType DEF Inv, Typed, Statuses
  <2> QED
    BY <1>4, <2>1, <2>2, AddsRowDatedNow
    DEF CreateHistory, Dated, Finish, Inv, Typed, TypeOK
<1>5. ASSUME NEW p \in Requests, NEW a \in Approvals,
             NEW e \in Person, NEW h \in Person, NEW f \in Person,
             Duplicate(p, a, e, h, f)
      PROVE  DatesDiffer'
  <2>1. Dated(a, "DRAFT", "duplicate") \in Entry
    BY DatedType DEF Inv, Typed, Statuses
  <2> QED
    BY <1>5, <2>1, AddsRowDatedNow
    DEF Duplicate, Dated, Finish, Inv, Typed, TypeOK
<1>6. ASSUME NEW p \in Requests, NEW e \in Edits, Update(p, e)
      PROVE  DatesDiffer'
  <2>1. /\ request'[p].entry = request[p].entry
        /\ request'[p].id = request[p].id
    BY <1>6 DEF Update, Inv, Typed, TypeOK, Request
  <2> QED
    BY <1>6, <2>1, DatesLeftAlone DEF Update, Inv, Typed, TypeOK
<1>7. ASSUME NEW p \in Requests, NEW s \in Statuses, UpdateStatusHistory(p, s)
      PROVE  DatesDiffer'
  <2> DEFINE a == request[p].id
  <2>1. a \in Approvals
    BY <1>7 DEF UpdateStatusHistory, At, Inv, Typed, InFlight
  <2>2. request'[p].id = a /\ request'[p].entry = Dated(a, s, "updateStatus")
    BY <1>7 DEF UpdateStatusHistory, Inv, Typed, TypeOK, Request
  <2>3. request'[p].entry.at = clock[a]
    BY <2>2 DEF Dated
  <2> QED
    BY <1>7, <2>1, <2>2, <2>3, DatesPrivateRow
    DEF UpdateStatusHistory, Inv, Typed, TypeOK
<1>8. ASSUME NEW p \in Requests, UpdateStatusCommit(p)
      PROVE  DatesDiffer'
  <2>1. request[p].entry # Nil
    BY <1>8 DEF UpdateStatusCommit, Inv, Typed, InFlight
  <2>2. request[p].id \in Approvals
    BY <2>1, EntryType
  <2> QED
    BY <1>8, <2>1, <2>2, CommitsPrivateRow
    DEF UpdateStatusCommit, Finish, Inv, Typed, TypeOK
<1>9. ASSUME NEW p \in Requests, Remove(p) \/ NoDecision(p) \/ Abort(p)
      PROVE  DatesDiffer'
  <2>1. Finish(p) /\ UNCHANGED <<statusHistory, clock>>
    BY <1>9 DEF Remove, NoDecision, Abort
  <2> QED
    BY <2>1, DatesLeftAlone DEF Finish, Inv, Typed, TypeOK
<1>10. ASSUME NEW p \in Requests, NEW next \in Employees, ForwardStep(p, next)
       PROVE  DatesDiffer'
  <2>1. /\ request'[p].entry = request[p].entry
        /\ request'[p].id = request[p].id
    BY <1>10 DEF ForwardStep, Inv, Typed, TypeOK, Request
  <2> QED
    BY <1>10, <2>1, DatesLeftAlone DEF ForwardStep, Inv, Typed, TypeOK
<1>11. ASSUME NEW p \in Requests, NEW v \in {"APPROVED", "REJECTED"},
              At(p, "found", "updateContinuous"), CloseChain(p, v)
       PROVE  DatesDiffer'
  <2> DEFINE a == request[p].id
  <2>1. a \in Approvals
    BY <1>11 DEF At, Inv, Typed, InFlight
  <2>2. request'[p].id = a /\ request'[p].entry = Dated(a, v, "updateContinuous")
    BY <1>11 DEF CloseChain, Inv, Typed, TypeOK, Request
  <2>3. request'[p].entry.at = clock[a]
    BY <2>2 DEF Dated
  <2> QED
    BY <1>11, <2>1, <2>2, <2>3, DatesPrivateRow
    DEF CloseChain, Inv, Typed, TypeOK
<1>12. ASSUME NEW p \in Requests, Commit(p)
       PROVE  DatesDiffer'
  <2>1. request[p].id \in Approvals
    BY <1>12 DEF Commit, Inv, Typed, InFlight
  <2> QED
    BY <1>12, <2>1, CommitsPrivateRow DEF Commit, Finish, Inv, Typed, TypeOK
<1>13. CASE UNCHANGED vars
  BY <1>13 DEF vars, Inv, DatesDiffer
<1> QED
  BY <1>1, <1>2, <1>3, <1>4, <1>5, <1>6, <1>7, <1>8, <1>9, <1>10, <1>11,
     <1>12, <1>13
  DEF Next, Arrive, Proceed, ApproveFinal, Reject

-----------------------------------------------------------------------------
LEMMA HoldsStep == Inv /\ [Next]_vars => HoldsRow'
<1> SUFFICES ASSUME Inv, [Next]_vars PROVE HoldsRow'
  OBVIOUS
<1>1. ASSUME NEW p \in Requests, Arrive(p) PROVE HoldsRow'
  BY <1>1, CreateHolds, FindByIdHolds, UpdateContinuousReadHolds DEF Arrive
<1>2. ASSUME NEW p \in Requests, Proceed(p) PROVE HoldsRow'
  <2>1. CASE ApproveFinal(p)
    BY <2>1, CloseChainHolds DEF ApproveFinal
  <2>2. CASE Reject(p)
    BY <2>2, CloseChainHolds DEF Reject
  <2> QED
    BY <1>2, <2>1, <2>2, CreateHistoryHolds, DuplicateHolds, UpdateHolds,
       UpdateStatusHistoryHolds, UpdateStatusCommitHolds, RemoveHolds,
       ForwardStepHolds, NoDecisionHolds, CommitHolds
    DEF Proceed
<1>3. CASE UNCHANGED vars
  BY <1>3 DEF vars, Inv, HoldsRow, Holds
<1> QED
  BY <1>1, <1>2, <1>3, AbortHolds DEF Next

LEMMA InvInit == Init => Inv
BY TypedInit DEF Init, Inv, HoldsRow, Holds, DatesDiffer, Idle

(* What the safety properties rest on always holds. *)
THEOREM Invariance == Spec => []Inv
<1>1. Inv /\ [Next]_vars => Inv'
  BY TypedStep, HoldsStep, DatesStep DEF Inv
<1> QED
  BY InvInit, <1>1, PTL DEF Spec


-----------------------------------------------------------------------------
(* updateApprovalContinuous() approves only by the step of the person who is
   the final signer when the approval is committed, however update() and the
   decision interleave. *)
THEOREM FinalSigner == Spec => FinalSignerApproves
<1>1. ASSUME Inv, NEW p \in Requests, request[p].entry # Nil,
             request[p].entry.via = "updateContinuous",
             request[p].entry.status = "APPROVED"
      PROVE  request[p].step.employee = approval[request[p].id].finalStaff
  BY <1>1 DEF Inv, Typed, TypeOK, Request, PCs, HoldsRow, Holds
<1>2. Inv => \A p \in Requests :
                 LET r == request[p]
                 IN  /\ r.entry # Nil
                     /\ r.entry.via = "updateContinuous"
                     /\ r.entry.status = "APPROVED"
                     /\ r.entry \in statusHistory'[r.id] \ statusHistory[r.id]
                     => r.step.employee = approval[r.id].finalStaff
  BY <1>1
<1> QED
  BY Invariance, <1>2, PTL DEF FinalSignerApproves

-----------------------------------------------------------------------------
Logged(a) ==
    approval[a] # Nil /\ approval'[a].status # approval[a].status =>
        \E e \in statusHistory'[a] \ statusHistory[a] :
            e.status = approval'[a].status

(* A private history row is not yet in the history. *)
LEMMA EntryIsNew ==
    ASSUME Inv, NEW p \in Requests, request[p].entry # Nil
    PROVE  request[p].entry \notin statusHistory[request[p].id]
BY EntryType DEF Inv, DatesDiffer

LEMMA LoggedStep ==
    ASSUME Inv, [Next]_vars, NEW a \in Approvals
    PROVE  Logged(a)
<1>1. CASE UNCHANGED approval
  BY <1>1 DEF Logged
<1>2. ASSUME NEW p \in Requests, NEW b \in Approvals, NEW e \in Authors,
             Create(p, b, e)
      PROVE  Logged(a)
  BY <1>2 DEF Create, Logged, Inv, Typed, TypeOK
<1>3. ASSUME NEW p \in Requests, NEW b \in Approvals,
             NEW e \in Person, NEW h \in Person, NEW f \in Person,
             Duplicate(p, b, e, h, f)
      PROVE  Logged(a)
  BY <1>3 DEF Duplicate, Logged, Inv, Typed, TypeOK
<1>4. ASSUME NEW p \in Requests, UpdateStatusCommit(p) PROVE Logged(a)
  <2> DEFINE b == request[p].id
             entry == request[p].entry
  <2>1. b \in Approvals /\ entry # Nil /\ entry \notin statusHistory[b]
    BY <1>4, EntryIsNew, EntryType DEF UpdateStatusCommit, Inv, Typed, InFlight
  <2>2. approval[b] \in Row
    BY <1>4, <2>1 DEF UpdateStatusCommit, Inv, Typed, TypeOK, InFlight
  <2>3. approval'[b].status = entry.status /\ entry \in statusHistory'[b]
    BY <1>4, <2>1, <2>2 DEF UpdateStatusCommit, Inv, Typed, TypeOK, Row
  <2>4. a # b => approval'[a] = approval[a]
    BY <1>4 DEF UpdateStatusCommit, Inv, Typed, TypeOK
  <2> QED
    BY <2>1, <2>3, <2>4 DEF Logged
<1>5. ASSUME NEW p \in Requests, Remove(p) PROVE Logged(a)
  <2> DEFINE b == request[p].id
  <2>1. b \in Approvals /\ approval[b] \in Row
    BY <1>5 DEF Remove, At, Inv, Typed, TypeOK, InFlight
  <2>2. approval'[b].status = approval[b].status
    BY <1>5, <2>1 DEF Remove, Inv, Typed, TypeOK, Row
  <2>3. a # b => approval'[a] = approval[a]
    BY <1>5 DEF Remove, Inv, Typed, TypeOK
  <2> QED
    BY <2>2, <2>3 DEF Logged
<1>6. ASSUME NEW p \in Requests, Commit(p) PROVE Logged(a)
  <2> DEFINE b == request[p].id
             r == request[p]
  <2>1. b \in Approvals /\ Holds(p) /\ r.pc = "working"
    BY <1>6 DEF Commit, Inv, Typed, InFlight, HoldsRow
  <2>2. approval'[b] = r.work.row /\ (a # b => approval'[a] = approval[a])
    BY <1>6, <2>1 DEF Commit, Inv, Typed, TypeOK
  <2>3. CASE r.entry = Nil
    BY <2>1, <2>2, <2>3 DEF Logged, Holds
  <2>4. CASE r.entry # Nil
    <3>1. r.entry \notin statusHistory[b] /\ r.entry \in statusHistory'[b]
      BY <1>6, <2>1, <2>4, EntryIsNew DEF Commit, Inv, Typed, TypeOK
    <3> QED
      BY <2>1, <2>2, <2>4, <3>1 DEF Logged, Holds
  <2> QED
    BY <2>3, <2>4
<1> QED
  BY <1>1, <1>2, <1>3, <1>4, <1>5, <1>6
  DEF Next, Arrive, Proceed, vars, FindById, UpdateContinuousRead,
      CreateHistory, Update, UpdateStatusHistory, ForwardStep, ApproveFinal,
      Reject, CloseChain, NoDecision, Abort

(* The status of an existing approval never changes without a new history row
   that says so, in the same step. *)
THEOREM StatusIsLogged == Spec => StatusChangeIsLogged
<1>1. Inv /\ [Next]_vars => \A a \in Approvals : Logged(a)
  BY LoggedStep
<1>2. Inv /\ [Next]_vars =>
          \A a \in Approvals :
              approval[a] # Nil /\ approval'[a].status # approval[a].status =>
                  \E e \in statusHistory'[a] \ statusHistory[a] :
                      e.status = approval'[a].status
  BY <1>1 DEF Logged
<1> QED
  BY Invariance, <1>2, PTL DEF Spec, StatusChangeIsLogged


-----------------------------------------------------------------------------
InOrder(a) ==
    /\ statusHistory[a] # {} => approval[a] # Nil
    /\ \A head \in statusHistory[a] :
           IsNewest(a, head) /\ head.status # approval[a].status =>
               \/ head.via = "create"
               \/ \E e \in statusHistory[a] :
                      e.via = "updateStatus" /\ e.status = approval[a].status

LEMMA InOrderStep ==
    ASSUME Inv, NEW a \in Approvals, InOrder(a), [Next]_vars
    PROVE  InOrder(a)'
<1>1. CASE UNCHANGED <<approval, statusHistory>>
  BY <1>1 DEF InOrder, IsNewest
<1>2. ASSUME NEW p \in Requests, NEW b \in Approvals, NEW e \in Authors,
             Create(p, b, e)
      PROVE  InOrder(a)'
  <2>1. CASE a = b
    BY <1>2, <2>1 DEF Create, InOrder
  <2>2. CASE a # b
    BY <1>2, <2>2 DEF Create, InOrder, IsNewest, Inv, Typed, TypeOK
  <2> QED
    BY <2>1, <2>2
<1>3. ASSUME NEW p \in Requests, CreateHistory(p) PROVE InOrder(a)'
  <2> DEFINE b == request[p].id
             entry == Dated(b, "DRAFT", "create")
  <2>1. b \in Approvals /\ approval[b] # Nil
    BY <1>3 DEF CreateHistory, Inv, Typed, InFlight
  <2>2. entry.at = clock[b] /\ entry.via = "create"
    BY DEF Dated
  <2>3. CASE a = b
    <3>1. statusHistory'[a] = statusHistory[a] \cup {entry} /\ approval' = approval
      BY <1>3, <2>1, <2>3 DEF CreateHistory, Inv, Typed, TypeOK
    <3>2. \A e \in statusHistory[a] : e.at \in Nat /\ e.at < entry.at
      BY <2>2, <2>3 DEF Inv, Typed, TypeOK, DatesDiffer, Entry
    <3> HIDE DEF entry
    <3>3. ASSUME NEW head \in statusHistory'[a], IsNewest(a, head)'
          PROVE  head = entry
      <4>1. entry.at \in Nat
        BY <2>1, <2>2 DEF Inv, Typed, TypeOK
      <4>2. entry.at <= head.at
        BY <3>1, <3>3 DEF IsNewest
      <4> QED
        BY <3>1, <3>2, <4>1, <4>2
    <3> QED
      BY <2>1, <2>2, <2>3, <3>1, <3>3 DEF InOrder
  <2>4. CASE a # b
    BY <1>3, <2>4 DEF CreateHistory, InOrder, IsNewest, Inv, Typed, TypeOK
  <2> QED
    BY <2>3, <2>4
<1>4. ASSUME NEW p \in Requests, NEW b \in Approvals,
             NEW e \in Person, NEW h \in Person, NEW f \in Person,
             Duplicate(p, b, e, h, f)
      PROVE  InOrder(a)'
  <2> DEFINE row == NewRow(e, h, f)
  <2>1. CASE a = b
    <3>1. approval'[a] = row /\ statusHistory'[a] = {Dated(a, "DRAFT", "duplicate")}
      BY <1>4, <2>1 DEF Duplicate, Inv, Typed, TypeOK
    <3>2. row.status = "DRAFT" /\ Dated(a, "DRAFT", "duplicate").status = "DRAFT"
      BY DEF NewRow, Dated
    <3>3. row \in Row
      BY <1>4, NewRowType DEF Duplicate, At, Inv, Typed, InFlight
    <3> QED
      BY <3>1, <3>2, <3>3, RecordsAssumption DEF InOrder
  <2>2. CASE a # b
    BY <1>4, <2>2 DEF Duplicate, InOrder, IsNewest, Inv, Typed, TypeOK
  <2> QED
    BY <2>1, <2>2
<1>5. ASSUME NEW p \in Requests, UpdateStatusCommit(p) PROVE InOrder(a)'
  <2> DEFINE b == request[p].id
             entry == request[p].entry
             row == [approval[b] EXCEPT !.status = entry.status]
  <2>1. b \in Approvals /\ approval[b] \in Row /\ entry.via = "updateStatus"
        /\ entry \in Entry
    BY <1>5, EntryType DEF UpdateStatusCommit, Inv, Typed, TypeOK, InFlight, HoldsRow, Holds
  <2>2. row.status = entry.status /\ row \in Row
    BY <2>1 DEF Row, Entry
  <2>3. CASE a = b
    <3>1. approval'[a] = row /\ entry \in statusHistory'[a]
      BY <1>5, <2>1, <2>3 DEF UpdateStatusCommit, Inv, Typed, TypeOK
    <3> QED
      BY <2>1, <2>2, <3>1, RecordsAssumption DEF InOrder
  <2>4. CASE a # b
    BY <1>5, <2>4 DEF UpdateStatusCommit, InOrder, IsNewest, Inv, Typed, TypeOK
  <2> QED
    BY <2>3, <2>4
<1>6. ASSUME NEW p \in Requests, Remove(p) PROVE InOrder(a)'
  <2> DEFINE b == request[p].id
             row == [approval[b] EXCEPT !.deleted = TRUE]
  <2>1. b \in Approvals /\ approval[b] \in Row
    BY <1>6 DEF Remove, At, Inv, Typed, TypeOK, InFlight
  <2>2. row.status = approval[b].status /\ row \in Row
    BY <2>1 DEF Row
  <2>3. approval' = [approval EXCEPT ![b] = row] /\ statusHistory' = statusHistory
    BY <1>6 DEF Remove
  <2> HIDE DEF row
  <2> QED
    BY <2>1, <2>2, <2>3, RecordsAssumption
    DEF InOrder, IsNewest, Inv, Typed, TypeOK
<1>7. ASSUME NEW p \in Requests, Commit(p) PROVE InOrder(a)'
  <2> DEFINE b == request[p].id
             r == request[p]
  <2>1. b \in Approvals /\ Holds(p) /\ r.pc = "working" /\ r.work \in Work
    BY <1>7 DEF Commit, Inv, Typed, TypeOK, InFlight, HoldsRow, Request
  <2>2. r.work.row \in Row
    BY <2>1 DEF Work
  <2>3. CASE a # b
    BY <1>7, <2>3 DEF Commit, InOrder, IsNewest, Inv, Typed, TypeOK
  <2>4. CASE a = b /\ r.entry = Nil
    <3>1. /\ approval'[a].status = approval[a].status
          /\ approval'[a] # Nil
          /\ statusHistory'[a] = statusHistory[a]
      BY <1>7, <2>1, <2>2, <2>4, RecordsAssumption DEF Commit, Holds, Inv, Typed, TypeOK
    <3> QED
      BY <3>1 DEF InOrder, IsNewest
  <2>5. CASE a = b /\ r.entry # Nil
    <3>1. /\ approval'[a].status = r.entry.status
          /\ approval'[a] # Nil
          /\ statusHistory'[a] = statusHistory[a] \cup {r.entry}
      BY <1>7, <2>1, <2>2, <2>5, RecordsAssumption DEF Commit, Holds, Inv, Typed, TypeOK
    <3>2. ASSUME NEW head \in statusHistory[a], IsNewest(a, head)'
          PROVE  head.via = "create"
      <4>1. r.entry.at <= head.at /\ r.entry.at # head.at
        BY <2>5, <3>1, <3>2 DEF IsNewest, Inv, DatesDiffer
      <4>2. r.entry.at \in Nat /\ head.at \in Nat
        BY <2>5, EntryType DEF Inv, Typed, TypeOK, Entry
      <4> QED
        BY <2>1, <2>5, <4>1, <4>2 DEF Holds
    <3> QED
      BY <3>1, <3>2 DEF InOrder
  <2> QED
    BY <2>3, <2>4, <2>5
<1> QED
  BY <1>1, <1>2, <1>3, <1>4, <1>5, <1>6, <1>7
  DEF Next, Arrive, Proceed, vars, FindById, UpdateContinuousRead,
      Update, UpdateStatusHistory, ForwardStep, ApproveFinal,
      Reject, CloseChain, NoDecision, Abort

(* Decisions of the chain alone never make the head of the history and the
   status of the approval part. *)
THEOREM ChainOrder == Spec => []ChainDecisionsStayInOrder
<1> DEFINE AllInOrder == \A a \in Approvals : InOrder(a)
<1>1. Init => AllInOrder
  BY DEF Init, InOrder
<1>2. Inv /\ AllInOrder /\ [Next]_vars => AllInOrder'
  BY InOrderStep
<1>3. AllInOrder => ChainDecisionsStayInOrder
  BY DEF InOrder, ChainDecisionsStayInOrder
<1> QED
  BY Invariance, <1>1, <1>2, <1>3, PTL DEF Spec


-----------------------------------------------------------------------------
(* The chain of signatures.  Both properties hold of the committed rows
   because they hold of what every open transaction is about to commit. *)
HolderIsLast(row, steps) ==
    steps # <<>> => row.continuousEmployee = steps[Len(steps)].employee

OnlyFirstPending(steps) ==
    \A i \in DOMAIN steps : steps[i].status = "PENDING" => i = 1

Chain(row, steps) ==
    /\ EditsMoveWithChain => HolderIsLast(row, steps)
    /\ EditsReplaceChain => OnlyFirstPending(steps)

(* An edit keeps the chain in shape, if edits are what the front end sends. *)
LEMMA EditedChain ==
    ASSUME NEW row \in Row, NEW steps \in Seq(Step), NEW e \in Edits,
           Chain(row, steps)
    PROVE  Chain(EditedRow(row, e), EditedSteps(steps, e))
<1> DEFINE kept == IF e.team THEN <<>> ELSE steps
           first == [employee |-> e.staffEmployee, status |-> "PENDING"]
<1>1. EditedRow(row, e).continuousEmployee = Given(e.staffEmployee, row.continuousEmployee)
  BY DEF EditedRow, Row
<1>2. kept \in Seq(Step) /\ (kept = <<>> \/ (~ e.team /\ kept = steps))
  OBVIOUS
<1>3. CASE e.signed
  <2>1. first \in Step /\ e.staffEmployee \in Employees
    BY <1>3, SignedEditsNameStaff DEF Step, StepStatuses
  <2>2. EditedSteps(steps, e) = Append(kept, first)
    BY <1>3 DEF EditedSteps
  <2>3. e.staffEmployee # Nil
    BY <2>1, RecordsAssumption
  <2>4. first.employee = e.staffEmployee
    OBVIOUS
  <2> HIDE DEF kept, first
  <2>5. /\ Len(Append(kept, first)) = Len(kept) + 1
        /\ Append(kept, first)[Len(kept) + 1] = first
        /\ DOMAIN Append(kept, first) = 1 .. (Len(kept) + 1)
        /\ Len(kept) \in Nat
    BY <1>2, <2>1
  <2>6. HolderIsLast(EditedRow(row, e), EditedSteps(steps, e))
    BY <1>1, <2>2, <2>3, <2>4, <2>5 DEF HolderIsLast, Given
  <2>7. ASSUME EditsReplaceChain PROVE OnlyFirstPending(EditedSteps(steps, e))
    <3>1. kept = <<>>
      BY <1>3, <2>7 DEF EditsReplaceChain, kept
    <3> QED
      BY <2>2, <2>5, <3>1 DEF OnlyFirstPending
  <2> QED
    BY <2>6, <2>7 DEF Chain
<1>4. CASE ~ e.signed /\ e.team
  BY <1>4 DEF EditedSteps, Chain, HolderIsLast, OnlyFirstPending
<1>5. CASE ~ e.signed /\ ~ e.team
  <2>1. EditedSteps(steps, e) = steps
    BY <1>5 DEF EditedSteps
  <2>2. EditsMoveWithChain => e.staffEmployee = Nil
    BY <1>5 DEF EditsMoveWithChain
  <2> QED
    BY <1>1, <2>1, <2>2 DEF Chain, HolderIsLast, Given
<1> QED
  BY <1>3, <1>4, <1>5

(* So does a decision: it names the holder and the new last step at once, and
   its step is never PENDING. *)
LEMMA DecidedChain ==
    ASSUME NEW row \in Row, NEW steps \in Seq(Step), Chain(row, steps),
           NEW e \in Employees, NEW s \in {"APPROVED", "REJECTED"},
           NEW row2, row2.continuousEmployee = e
    PROVE  Chain(row2, WithStep(steps, e, s))
<1> DEFINE step == [employee |-> e, status |-> s]
<1>1. step \in Step /\ step.employee = e /\ step.status # "PENDING"
  BY DEF Step, StepStatuses
<1>2. WithStep(steps, e, s) = Append(steps, step)
  BY DEF WithStep
<1> HIDE DEF step
<1>3. /\ Len(Append(steps, step)) = Len(steps) + 1
      /\ Append(steps, step)[Len(steps) + 1] = step
      /\ DOMAIN Append(steps, step) = 1 .. (Len(steps) + 1)
      /\ \A i \in DOMAIN steps : Append(steps, step)[i] = steps[i]
      /\ DOMAIN steps = 1 .. Len(steps)
      /\ Len(steps) \in Nat
  BY <1>1
<1>4. \A i \in 1 .. (Len(steps) + 1) : i \in DOMAIN steps \/ i = Len(steps) + 1
  BY <1>3
<1>5. HolderIsLast(row2, WithStep(steps, e, s))
  BY <1>1, <1>2, <1>3 DEF HolderIsLast
<1>6. EditsReplaceChain => OnlyFirstPending(WithStep(steps, e, s))
  BY <1>1, <1>2, <1>3, <1>4 DEF OnlyFirstPending, Chain
<1> QED
  BY <1>5, <1>6 DEF Chain

ChainInv ==
    /\ \A a \in Approvals : Chain(approval[a], continuous[a])
    /\ \A p \in Requests :
           request[p].pc = "working" =>
               Chain(request[p].work.row, request[p].work.steps)

(* A step that begins no transaction and commits none leaves the chains. *)
LEMMA ChainsLeftAlone ==
    ASSUME ChainInv, UNCHANGED <<approval, continuous>>,
           \A p \in Requests : request'[p] = request[p] \/ request'[p].pc # "working"
    PROVE  ChainInv'
BY DEF ChainInv

(* A transaction that is about to commit a good chain. *)
LEMMA ChainBegun ==
    ASSUME Inv, ChainInv, UNCHANGED <<approval, continuous>>,
           NEW p \in Requests, NEW r, request' = [request EXCEPT ![p] = r],
           Chain(r.work.row, r.work.steps)
    PROVE  ChainInv'
BY DEF ChainInv, Inv, Typed, TypeOK

(* A step that touches neither the holders nor the steps of the approvals
   there were. *)
LEMMA HoldersLeftAlone ==
    ASSUME Inv, ChainInv, UNCHANGED continuous,
           \A a \in Approvals :
               approval[a] # Nil =>
                   approval'[a].continuousEmployee = approval[a].continuousEmployee,
           \A p \in Requests : request'[p] = request[p] \/ request'[p].pc # "working"
    PROVE  ChainInv'
<1>1. ASSUME NEW a \in Approvals PROVE Chain(approval[a], continuous[a])'
  <2>1. CASE approval[a] = Nil
    BY <2>1 DEF Inv, Typed, StepsHaveApproval, Chain, HolderIsLast, OnlyFirstPending
  <2>2. CASE approval[a] # Nil
    BY <2>2 DEF ChainInv, Chain, HolderIsLast
  <2> QED
    BY <2>1, <2>2
<1> QED
  BY <1>1 DEF ChainInv

LEMMA ChainStep ==
    ASSUME Inv, ChainInv, [Next]_vars
    PROVE  ChainInv'
<1> USE DEF Idle
<1>1. ASSUME NEW p \in Requests, NEW a \in Approvals, NEW e \in Authors,
             Create(p, a, e)
      PROVE  ChainInv'
  BY <1>1, HoldersLeftAlone DEF Create, Inv, Typed, TypeOK
<1>2. ASSUME NEW p \in Requests, NEW op \in Ops, NEW a \in Approvals,
             FindById(p, op, a)
      PROVE  ChainInv'
  BY <1>2, ChainsLeftAlone DEF FindById, Inv, Typed, TypeOK
<1>3. ASSUME NEW p \in Requests, NEW a \in Approvals,
             NEW i \in DOMAIN continuous[a], UpdateContinuousRead(p, a, i)
      PROVE  ChainInv'
  BY <1>3, ChainsLeftAlone DEF UpdateContinuousRead, Inv, Typed, TypeOK
<1>4. ASSUME NEW p \in Requests, NEW a \in Approvals,
             NEW e \in Person, NEW h \in Person, NEW f \in Person,
             Duplicate(p, a, e, h, f)
      PROVE  ChainInv'
  BY <1>4, HoldersLeftAlone DEF Duplicate, Finish, Inv, Typed, TypeOK
<1>5. ASSUME NEW p \in Requests,
             CreateHistory(p) \/ NoDecision(p) \/ Abort(p)
      PROVE  ChainInv'
  <2>1. Finish(p) /\ UNCHANGED <<approval, continuous>>
    BY <1>5 DEF CreateHistory, NoDecision, Abort
  <2> QED
    BY <2>1, ChainsLeftAlone DEF Finish, Inv, Typed, TypeOK
<1>6. ASSUME NEW p \in Requests, NEW e \in Edits, Update(p, e)
      PROVE  ChainInv'
  <2> DEFINE a == request[p].id
             work == [row |-> EditedRow(approval[a], e),
                      steps |-> EditedSteps(continuous[a], e)]
             r == [request[p] EXCEPT !.pc = "working", !.work = work]
  <2>1. a \in Approvals /\ approval[a] \in Row /\ continuous[a] \in Seq(Step)
    BY <1>6 DEF Update, At, Inv, Typed, TypeOK, InFlight
  <2>2. Chain(work.row, work.steps)
    BY <2>1, EditedChain DEF ChainInv
  <2>3. request' = [request EXCEPT ![p] = r]
    BY <1>6 DEF Update, Inv, Typed, TypeOK
  <2> HIDE DEF work
  <2>4. r.work = work
    BY DEF Inv, Typed, TypeOK, Request
  <2> QED
    BY <1>6, <2>2, <2>3, <2>4, ChainBegun DEF Update
<1>7. ASSUME NEW p \in Requests, NEW s \in Statuses, UpdateStatusHistory(p, s)
      PROVE  ChainInv'
  <2>1. request'[p].pc = "dated"
    BY <1>7 DEF UpdateStatusHistory, Inv, Typed, TypeOK, Request
  <2> QED
    BY <1>7, <2>1, ChainsLeftAlone DEF UpdateStatusHistory, Inv, Typed, TypeOK
<1>8. ASSUME NEW p \in Requests, UpdateStatusCommit(p) \/ Remove(p)
      PROVE  ChainInv'
  <2> DEFINE b == request[p].id
  <2>1. b \in Approvals /\ approval[b] \in Row
    BY <1>8 DEF UpdateStatusCommit, Remove, At, Inv, Typed, TypeOK, InFlight
  <2>2. approval'[b].continuousEmployee = approval[b].continuousEmployee
    <3>1. CASE UpdateStatusCommit(p)
      <4> DEFINE row == [approval[b] EXCEPT !.status = request[p].entry.status]
      <4>1. approval'[b] = row
        BY <2>1, <3>1 DEF UpdateStatusCommit, Inv, Typed, TypeOK
      <4> QED
        BY <2>1, <4>1 DEF Row
    <3>2. CASE Remove(p)
      <4> DEFINE row == [approval[b] EXCEPT !.deleted = TRUE]
      <4>1. approval'[b] = row
        BY <2>1, <3>2 DEF Remove, Inv, Typed, TypeOK
      <4> QED
        BY <2>1, <4>1 DEF Row
    <3> QED
      BY <1>8, <3>1, <3>2
  <2>3. \A a \in Approvals \ {b} : approval'[a] = approval[a]
    BY <1>8 DEF UpdateStatusCommit, Remove, Inv, Typed, TypeOK
  <2>4. Finish(p) /\ UNCHANGED continuous
    BY <1>8 DEF UpdateStatusCommit, Remove
  <2> QED
    BY <2>2, <2>3, <2>4, HoldersLeftAlone DEF Finish, Inv, Typed, TypeOK
<1>9. ASSUME NEW p \in Requests, NEW next \in Employees, ForwardStep(p, next)
      PROVE  ChainInv'
  <2> DEFINE a == request[p].id
             work == [row |-> Forwarded(approval[a], next),
                      steps |-> WithStep(continuous[a], next, "APPROVED")]
             r == [request[p] EXCEPT !.pc = "working", !.work = work]
  <2>1. a \in Approvals /\ approval[a] \in Row /\ continuous[a] \in Seq(Step)
    BY <1>9 DEF ForwardStep, At, Inv, Typed, TypeOK, InFlight
  <2>2. Forwarded(approval[a], next).continuousEmployee = next
    BY <2>1 DEF Forwarded, Row
  <2>3. Chain(work.row, work.steps)
    BY <2>1, <2>2, DecidedChain DEF ChainInv
  <2>4. request' = [request EXCEPT ![p] = r]
    BY <1>9 DEF ForwardStep, Inv, Typed, TypeOK
  <2> HIDE DEF work
  <2>5. r.work = work
    BY DEF Inv, Typed, TypeOK, Request
  <2> QED
    BY <1>9, <2>3, <2>4, <2>5, ChainBegun DEF ForwardStep
<1>10. ASSUME NEW p \in Requests, NEW v \in {"APPROVED", "REJECTED"},
              At(p, "found", "updateContinuous"), CloseChain(p, v)
       PROVE  ChainInv'
  <2> DEFINE a == request[p].id
             author == approval[a].employee
             entry == Dated(a, v, "updateContinuous")
             work == [row |-> Closed(approval[a], v),
                      steps |-> WithStep(continuous[a], author, v)]
             r == [request[p] EXCEPT !.pc = "working", !.entry = entry, !.work = work]
  <2>1. a \in Approvals /\ approval[a] \in Row /\ continuous[a] \in Seq(Step)
    BY <1>10 DEF At, Inv, Typed, TypeOK, InFlight
  <2>2. author \in Employees
    BY <1>10, <2>1 DEF CloseChain, Row, Person
  <2>3. Closed(approval[a], v).continuousEmployee = author
    BY <2>1 DEF Closed, Row
  <2>4. Chain(work.row, work.steps)
    BY <2>1, <2>2, <2>3, DecidedChain DEF ChainInv
  <2>5. request' = [request EXCEPT ![p] = r]
    BY <1>10 DEF CloseChain, Inv, Typed, TypeOK
  <2> HIDE DEF work, entry
  <2>6. r.work = work
    BY DEF Inv, Typed, TypeOK, Request
  <2> QED
    BY <1>10, <2>4, <2>5, <2>6, ChainBegun DEF CloseChain
<1>11. ASSUME NEW p \in Requests, Commit(p)
       PROVE  ChainInv'
  BY <1>11 DEF Commit, Finish, ChainInv, Inv, Typed, TypeOK
<1>12. CASE UNCHANGED vars
  BY <1>12, ChainsLeftAlone DEF vars
<1> QED
  BY <1>1, <1>2, <1>3, <1>4, <1>5, <1>6, <1>7, <1>8, <1>9, <1>10, <1>11, <1>12
  DEF Next, Arrive, Proceed, ApproveFinal, Reject

LEMMA ChainInvariance == Spec => []ChainInv
<1>1. Init => ChainInv
  BY DEF Init, Idle, ChainInv, Chain, HolderIsLast, OnlyFirstPending
<1>2. Inv /\ ChainInv /\ [Next]_vars => ChainInv'
  BY ChainStep
<1> QED
  BY Invariance, <1>1, <1>2, PTL DEF Spec

(* Whoever holds an approval that is in a chain is the person its newest step
   names, whatever updates and decisions interleave or fail. *)
THEOREM HolderIsNewest == Spec => []HolderIsNewestStep
<1>1. ChainInv => HolderIsNewestStep
  BY DEF ChainInv, Chain, HolderIsLast, HolderIsNewestStep
<1> QED
  BY ChainInvariance, <1>1, PTL

(* At most the first step of a chain is PENDING. *)
THEOREM OnePendingStep == Spec => []OnlyFirstStepPending
<1>1. ChainInv => OnlyFirstStepPending
  BY DEF ChainInv, Chain, OnlyFirstPending, OnlyFirstStepPending
<1> QED
  BY ChainInvariance, <1>1, PTL

-----------------------------------------------------------------------------
(* Who waits for a row never waits in a circle: the request that holds it is
   past every wait of its own, on that very approval, with nothing left to do
   but commit or fail.  This is what a status change that waits needs, besides
   fairness, to be served (WaitersAreServed). *)
HoldersWaitForNobody ==
    \A a \in Approvals : \A p \in Requests :
        rowLock[a] = p => request[p].pc = "working" /\ request[p].id = a

(* A request that holds no row may do anything but take one. *)
LEMMA NoRowHeld ==
    ASSUME HoldersWaitForNobody, NEW p \in Requests,
           request[p].pc # "working",
           \A q \in Requests \ {p} : request'[q] = request[q],
           UNCHANGED rowLock
    PROVE  HoldersWaitForNobody'
BY DEF HoldersWaitForNobody

LEMMA RowTaken ==
    ASSUME Typed, HoldersWaitForNobody, NEW p \in Requests,
           request[p].pc # "working", TakeRow(p, request[p].id),
           request[p].id \in Approvals,
           \A q \in Requests \ {p} : request'[q] = request[q],
           request'[p].pc = "working", request'[p].id = request[p].id
    PROVE  HoldersWaitForNobody'
<1>1. rowLock \in [Approvals -> Requests \cup {Nil}]
  BY DEF Typed, TypeOK
<1>2. \A a \in Approvals :
          rowLock'[a] = IF a = request[p].id THEN p ELSE rowLock[a]
  BY <1>1 DEF TakeRow
<1> QED
  BY <1>2 DEF HoldersWaitForNobody

LEMMA RowsReleased ==
    ASSUME HoldersWaitForNobody, NEW p \in Requests, ReleaseRows(p),
           \A q \in Requests \ {p} : request'[q] = request[q]
    PROVE  HoldersWaitForNobody'
<1>1. Nil \notin Requests
  BY WorkflowAssumption
<1>2. \A a \in Approvals : \A q \in Requests :
          rowLock'[a] = q => q # p /\ rowLock[a] = q
  BY <1>1 DEF ReleaseRows
<1> QED
  BY <1>2 DEF HoldersWaitForNobody

LEMMA HoldersStep ==
    Typed /\ HoldersWaitForNobody /\ [Next]_vars => HoldersWaitForNobody'
<1> SUFFICES ASSUME Typed, HoldersWaitForNobody, [Next]_vars
             PROVE  HoldersWaitForNobody'
  OBVIOUS
<1>1. ASSUME NEW p \in Requests, NEW a \in Approvals,
             \/ \E e \in Authors : Create(p, a, e)
             \/ \E op \in Ops : FindById(p, op, a)
             \/ \E i \in DOMAIN continuous[a] : UpdateContinuousRead(p, a, i)
      PROVE  HoldersWaitForNobody'
  <2>1. request[p].pc = "idle" /\ UNCHANGED rowLock
    BY <1>1 DEF Create, FindById, UpdateContinuousRead
  <2>2. \E r : request' = [request EXCEPT ![p] = r]
    BY <1>1 DEF Create, FindById, UpdateContinuousRead
  <2>3. \A q \in Requests \ {p} : request'[q] = request[q]
    BY <2>2 DEF Typed, TypeOK
  <2> QED
    BY <2>1, <2>3, NoRowHeld
<1>2. ASSUME NEW p \in Requests,
             \/ CreateHistory(p)
             \/ \E a \in Approvals, e, h, f \in Person : Duplicate(p, a, e, h, f)
             \/ \E s \in Statuses : UpdateStatusHistory(p, s)
             \/ UpdateStatusCommit(p)
             \/ Remove(p)
             \/ NoDecision(p)
      PROVE  HoldersWaitForNobody'
  BY <1>2, NoRowHeld
  DEF CreateHistory, Duplicate, UpdateStatusHistory, UpdateStatusCommit,
      Remove, NoDecision, At, Finish, Typed, TypeOK
<1>3. ASSUME NEW p \in Requests,
             \/ \E e \in Edits : Update(p, e)
             \/ \E next \in Employees : ForwardStep(p, next)
             \/ ApproveFinal(p)
             \/ Reject(p)
      PROVE  HoldersWaitForNobody'
  <2>1. /\ request[p].pc = "found" /\ TakeRow(p, request[p].id)
        /\ request[p].id \in Approvals
    BY <1>3 DEF Update, ForwardStep, ApproveFinal, Reject, CloseChain, At,
                Typed, InFlight
  <2>2. \A q \in Requests \ {p} : request'[q] = request[q]
    BY <1>3 DEF Update, ForwardStep, ApproveFinal, Reject, CloseChain,
                Typed, TypeOK
  <2>3. request'[p].pc = "working" /\ request'[p].id = request[p].id
    BY <1>3 DEF Update, ForwardStep, ApproveFinal, Reject, CloseChain,
                Typed, TypeOK, Request
  <2> QED
    BY <2>1, <2>2, <2>3, RowTaken
<1>4. ASSUME NEW p \in Requests, Commit(p) \/ Abort(p)
      PROVE  HoldersWaitForNobody'
  BY <1>4, RowsReleased DEF Commit, Abort, Finish, Typed, TypeOK
<1>5. CASE UNCHANGED vars
  BY <1>5 DEF vars, HoldersWaitForNobody
<1> QED
  BY <1>1, <1>2, <1>3, <1>4, <1>5 DEF Next, Arrive, Proceed

(* No circle of requests waits for rows of approvals, whatever updates and
   decisions interleave or fail. *)
THEOREM NoCircleOfWaits == Spec => []HoldersWaitForNobody
<1>1. Init => HoldersWaitForNobody
  BY WorkflowAssumption DEF Init, HoldersWaitForNobody
<1> QED
  BY TypedInit, TypedStep, <1>1, HoldersStep, PTL DEF Spec

=============================================================================

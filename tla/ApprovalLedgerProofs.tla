------------------------ MODULE ApprovalLedgerProofs ------------------------
(***************************************************************************)
(* ApprovalWorkflow implements ApprovalLedger: every handler, whatever     *)
(* interleaves with it and wherever it fails, takes effect as one          *)
(* indivisible act on the current records, or not at all.                  *)
(*                                                                         *)
(* A transaction reads the approval and its steps when it takes the row    *)
(* and writes them when it commits.  The act is the act of its commit, so  *)
(* the proof shows that what it is about to write is still made of what    *)
(* the tables hold (Ready), and that a history row it adds is a new one,   *)
(* which the tally counts (DatesDiffer, Recorded).                         *)
(***************************************************************************)
EXTENDS ApprovalWorkflowProofs, FiniteSetTheorems

-----------------------------------------------------------------------------
(* What an open transaction writes, made of the current row and steps. *)

Revising(r) ==
    /\ r.entry = Nil
    /\ \E e \in Edits :
           /\ r.work.row = EditedRow(approval[r.id], e)
           /\ r.work.steps = EditedSteps(continuous[r.id], e)

Forwarding(r) ==
    /\ r.entry = Nil
    /\ r.step.employee \in Employees
    /\ r.step.employee # approval[r.id].finalStaff
    /\ \E next \in Employees :
           /\ r.work.row = Forwarded(approval[r.id], next)
           /\ r.work.steps = WithStep(continuous[r.id], next, "APPROVED")

Closing(r) ==
    LET author == approval[r.id].employee
    IN  /\ r.entry # Nil
        /\ r.step.employee \in Employees
        /\ author # Nil
        /\ \E verdict \in {"APPROVED", "REJECTED"} :
               /\ r.entry.status = verdict
               /\ verdict = "APPROVED" =>
                      r.step.employee = approval[r.id].finalStaff
               /\ r.work.row = Closed(approval[r.id], verdict)
               /\ r.work.steps = WithStep(continuous[r.id], author, verdict)

Ready(p) ==
    LET r == request[p]
    IN  /\ r.pc = "working" => Revising(r) \/ Forwarding(r) \/ Closing(r)
        /\ r.pc = "found" /\ r.op = "updateContinuous" =>
               r.step.employee \in Employees

(* The history of an approval can be counted, and begins with its row. *)
Recorded ==
    \A a \in Approvals :
        /\ IsFiniteSet(statusHistory[a])
        /\ approval[a] = Nil => statusHistory[a] = {}

LedgerInv == (\A p \in Requests : Ready(p)) /\ Recorded

-----------------------------------------------------------------------------
(* A step leaves the other requests ready if it leaves alone the row and the
   steps of the approvals that are being worked on. *)
LEMMA OthersReady ==
    ASSUME LedgerInv, NEW q \in Requests, request'[q] = request[q],
           request[q].pc = "working" =>
               /\ approval'[request[q].id] = approval[request[q].id]
               /\ continuous'[request[q].id] = continuous[request[q].id]
    PROVE  Ready(q)'
BY DEF LedgerInv, Ready, Revising, Forwarding, Closing

(* Nobody but the holder of a row changes it. *)
LEMMA RowsHeld ==
    ASSUME Inv, NEW p \in Requests, NEW q \in Requests \ {p},
           request[q].pc = "working",
           NEW a \in Approvals, rowLock[a] \in {Nil, p} \/ approval[a] = Nil
    PROVE  request[q].id \in Approvals \ {a}
BY WorkflowAssumption DEF Inv, Typed, InFlight, HoldsRow, Holds

(* A request that ends or has only begun is ready. *)
LEMMA IdleReady ==
    ASSUME TypeOK, NEW p \in Requests,
           \/ Finish(p)
           \/ request'[p].pc \in {"idle", "opened", "dated"}
           \/ request'[p].pc = "found" /\ request'[p].op # "updateContinuous"
    PROVE  Ready(p)'
BY DEF Finish, Idle, Ready, TypeOK

(* A request that takes a row begins from what the tables hold. *)

LEMMA UpdateReady ==
    ASSUME Inv, NEW p \in Requests, NEW e \in Edits, Update(p, e)
    PROVE  Ready(p)'
<1> DEFINE a == request[p].id
           work == [row |-> EditedRow(approval[a], e),
                    steps |-> EditedSteps(continuous[a], e)]
<1>1. request[p].entry = Nil
  BY DEF Inv, HoldsRow, Holds, Update, At
<1>2. request' = [request EXCEPT ![p] =
                     [request[p] EXCEPT !.pc = "working", !.work = work]]
  BY DEF Update, Inv, Typed, TypeOK
<1>3. work.row = EditedRow(approval[a], e) /\ work.steps = EditedSteps(continuous[a], e)
  OBVIOUS
<1> HIDE DEF work
<1>4. /\ request'[p].pc = "working" /\ request'[p].id = a
      /\ request'[p].work = work /\ request'[p].entry = Nil
  BY <1>1, <1>2 DEF Inv, Typed, TypeOK, Request
<1> QED
  BY <1>3, <1>4 DEF Update, Ready, Revising

LEMMA ForwardStepReady ==
    ASSUME Inv, LedgerInv, NEW p \in Requests, NEW next \in Employees,
           ForwardStep(p, next)
    PROVE  Ready(p)'
<1> DEFINE a == request[p].id
           work == [row |-> Forwarded(approval[a], next),
                    steps |-> WithStep(continuous[a], next, "APPROVED")]
<1>1. /\ request[p].entry = Nil
      /\ request[p].step.employee \in Employees
      /\ request[p].step.employee # approval[a].finalStaff
  BY DEF Inv, HoldsRow, Holds, ForwardStep, At, LedgerInv, Ready
<1>2. request' = [request EXCEPT ![p] =
                     [request[p] EXCEPT !.pc = "working", !.work = work]]
  BY DEF ForwardStep, Inv, Typed, TypeOK
<1>3. /\ work.row = Forwarded(approval[a], next)
      /\ work.steps = WithStep(continuous[a], next, "APPROVED")
  OBVIOUS
<1> HIDE DEF work
<1>4. /\ request'[p].pc = "working" /\ request'[p].id = a
      /\ request'[p].step = request[p].step
      /\ request'[p].work = work /\ request'[p].entry = Nil
  BY <1>1, <1>2 DEF Inv, Typed, TypeOK, Request
<1>5. approval' = approval /\ continuous' = continuous
  BY DEF ForwardStep
<1>6. Forwarding(request[p])'
  BY <1>1, <1>3, <1>4, <1>5 DEF Forwarding
<1> QED
  BY <1>4, <1>6 DEF Ready

LEMMA CloseChainReady ==
    ASSUME Inv, LedgerInv, NEW p \in Requests,
           NEW verdict \in {"APPROVED", "REJECTED"},
           At(p, "found", "updateContinuous"), CloseChain(p, verdict),
           verdict = "APPROVED" =>
               request[p].step.employee = approval[request[p].id].finalStaff
    PROVE  Ready(p)'
<1> DEFINE a == request[p].id
           author == approval[a].employee
           entry == Dated(a, verdict, "updateContinuous")
           work == [row |-> Closed(approval[a], verdict),
                    steps |-> WithStep(continuous[a], author, verdict)]
<1>1. /\ a \in Approvals /\ author # Nil
      /\ request[p].step.employee \in Employees
  BY DEF Inv, Typed, InFlight, At, CloseChain, LedgerInv, Ready
<1>2. entry # Nil /\ entry.status = verdict
  BY <1>1, DatedType, WorkflowAssumption DEF Inv, Typed, Statuses, Dated
<1>3. request' = [request EXCEPT ![p] = [request[p] EXCEPT
                     !.pc = "working", !.entry = entry, !.work = work]]
  BY DEF CloseChain, Inv, Typed, TypeOK
<1>4. /\ work.row = Closed(approval[a], verdict)
      /\ work.steps = WithStep(continuous[a], author, verdict)
  OBVIOUS
<1> HIDE DEF work, entry
<1>5. /\ request'[p].pc = "working" /\ request'[p].id = a
      /\ request'[p].step = request[p].step
      /\ request'[p].work = work /\ request'[p].entry = entry
  BY <1>3 DEF Inv, Typed, TypeOK, Request
<1> QED
  BY <1>1, <1>2, <1>4, <1>5 DEF CloseChain, Ready, Closing

LEMMA UpdateContinuousReadReady ==
    ASSUME Inv, NEW p \in Requests, NEW a \in Approvals,
           NEW i \in DOMAIN continuous[a], UpdateContinuousRead(p, a, i)
    PROVE  Ready(p)'
<1>1. continuous[a] \in Seq(Step)
  BY DEF Inv, Typed, TypeOK
<1>2. continuous[a][i] \in Step
  BY <1>1
<1>3. continuous[a][i].employee \in Employees
  BY <1>2 DEF Step
<1> QED
  BY <1>3 DEF UpdateContinuousRead, Idle, Ready, Inv, Typed, TypeOK

LEMMA ReadyStep ==
    ASSUME Inv, LedgerInv, [Next]_vars, NEW q \in Requests
    PROVE  Ready(q)'
<1> USE DEF Idle
<1>1. ASSUME NEW p \in Requests, p # q, UNCHANGED <<approval, continuous>>,
             \A x \in Requests \ {p} : request'[x] = request[x]
      PROVE  Ready(q)'
  BY <1>1, OthersReady
<1>2. ASSUME NEW p \in Requests, p # q,
             NEW a \in Approvals, rowLock[a] \in {Nil, p} \/ approval[a] = Nil,
             \A x \in Requests \ {p} : request'[x] = request[x],
             \A b \in Approvals \ {a} : /\ approval'[b] = approval[b]
                                        /\ continuous'[b] = continuous[b]
      PROVE  Ready(q)'
  BY <1>2, RowsHeld, OthersReady
<1>3. ASSUME NEW p \in Requests, NEW a \in Approvals, NEW e \in Authors,
             Create(p, a, e)
      PROVE  Ready(q)'
  <2>1. CASE p = q
    BY <1>3, <2>1, IdleReady DEF Create, Inv, Typed, TypeOK
  <2>2. CASE p # q
    BY <1>2, <1>3, <2>2 DEF Create, Inv, Typed, TypeOK
  <2> QED
    BY <2>1, <2>2
<1>4. ASSUME NEW p \in Requests, NEW op \in Ops, NEW a \in Approvals,
             FindById(p, op, a)
      PROVE  Ready(q)'
  <2>1. CASE p = q
    BY <1>4, <2>1, IdleReady DEF FindById, Inv, Typed, TypeOK
  <2>2. CASE p # q
    BY <1>1, <1>4, <2>2 DEF FindById, Inv, Typed, TypeOK
  <2> QED
    BY <2>1, <2>2
<1>5. ASSUME NEW p \in Requests, NEW a \in Approvals,
             NEW i \in DOMAIN continuous[a], UpdateContinuousRead(p, a, i)
      PROVE  Ready(q)'
  <2>1. CASE p = q
    BY <1>5, <2>1, UpdateContinuousReadReady
  <2>2. CASE p # q
    BY <1>1, <1>5, <2>2 DEF UpdateContinuousRead, Inv, Typed, TypeOK
  <2> QED
    BY <2>1, <2>2
<1>6. ASSUME NEW p \in Requests,
             CreateHistory(p) \/ NoDecision(p) \/ Abort(p)
      PROVE  Ready(q)'
  <2>1. Finish(p) /\ UNCHANGED <<approval, continuous>>
    BY <1>6 DEF CreateHistory, NoDecision, Abort
  <2>2. CASE p = q
    BY <2>1, <2>2, IdleReady DEF Inv, Typed
  <2>3. CASE p # q
    BY <1>1, <2>1, <2>3 DEF Finish, Inv, Typed, TypeOK
  <2> QED
    BY <2>2, <2>3
<1>7. ASSUME NEW p \in Requests, NEW a \in Approvals,
             NEW e \in Person, NEW h \in Person, NEW f \in Person,
             Duplicate(p, a, e, h, f)
      PROVE  Ready(q)'
  <2>1. CASE p = q
    BY <1>7, <2>1, IdleReady DEF Duplicate, Inv, Typed
  <2>2. CASE p # q
    BY <1>2, <1>7, <2>2 DEF Duplicate, Finish, Inv, Typed, TypeOK
  <2> QED
    BY <2>1, <2>2
<1>8. ASSUME NEW p \in Requests, NEW e \in Edits, Update(p, e)
      PROVE  Ready(q)'
  <2>1. CASE p = q
    BY <1>8, <2>1, UpdateReady
  <2>2. CASE p # q
    BY <1>1, <1>8, <2>2 DEF Update, Inv, Typed, TypeOK
  <2> QED
    BY <2>1, <2>2
<1>9. ASSUME NEW p \in Requests, NEW s \in Statuses, UpdateStatusHistory(p, s)
      PROVE  Ready(q)'
  <2>1. CASE p = q
    <3>1. request'[p].pc = "dated"
      BY <1>9 DEF UpdateStatusHistory, Inv, Typed, TypeOK, Request
    <3> QED
      BY <2>1, <3>1, IdleReady DEF Inv, Typed
  <2>2. CASE p # q
    BY <1>1, <1>9, <2>2 DEF UpdateStatusHistory, Inv, Typed, TypeOK
  <2> QED
    BY <2>1, <2>2
<1>10. ASSUME NEW p \in Requests, UpdateStatusCommit(p) \/ Remove(p) \/ Commit(p)
       PROVE  Ready(q)'
  <2> DEFINE a == request[p].id
  <2>1. Finish(p) /\ a \in Approvals
    BY <1>10 DEF UpdateStatusCommit, Remove, Commit, At, Inv, Typed, InFlight
  <2>2. CASE p = q
    BY <2>1, <2>2, IdleReady DEF Inv, Typed
  <2>3. CASE p # q
    <3>1. rowLock[a] \in {Nil, p}
      BY <1>10 DEF UpdateStatusCommit, Remove, Commit, RowFree, Inv, HoldsRow, Holds
    <3>2. \A b \in Approvals \ {a} : /\ approval'[b] = approval[b]
                                     /\ continuous'[b] = continuous[b]
      BY <1>10 DEF UpdateStatusCommit, Remove, Commit, Inv, Typed, TypeOK
    <3> QED
      BY <1>2, <2>1, <2>3, <3>1, <3>2 DEF Finish, Inv, Typed, TypeOK
  <2> QED
    BY <2>2, <2>3
<1>11. ASSUME NEW p \in Requests, NEW next \in Employees, ForwardStep(p, next)
       PROVE  Ready(q)'
  <2>1. CASE p = q
    BY <1>11, <2>1, ForwardStepReady
  <2>2. CASE p # q
    BY <1>1, <1>11, <2>2 DEF ForwardStep, Inv, Typed, TypeOK
  <2> QED
    BY <2>1, <2>2
<1>12. ASSUME NEW p \in Requests, ApproveFinal(p) \/ Reject(p)
       PROVE  Ready(q)'
  <2>1. PICK verdict \in {"APPROVED", "REJECTED"} :
            /\ At(p, "found", "updateContinuous") /\ CloseChain(p, verdict)
            /\ verdict = "APPROVED" =>
                   request[p].step.employee = approval[request[p].id].finalStaff
    BY <1>12 DEF ApproveFinal, Reject
  <2>2. CASE p = q
    BY <2>1, <2>2, CloseChainReady
  <2>3. CASE p # q
    BY <1>1, <2>1, <2>3 DEF CloseChain, Inv, Typed, TypeOK
  <2> QED
    BY <2>2, <2>3
<1>13. CASE UNCHANGED vars
  BY <1>13, OthersReady DEF vars
<1> QED
  BY <1>3, <1>4, <1>5, <1>6, <1>7, <1>8, <1>9, <1>10, <1>11, <1>12, <1>13
  DEF Next, Arrive, Proceed

-----------------------------------------------------------------------------
(* Histories grow by one row at a time, of approvals that exist. *)

LEMMA HistoryGrows ==
    ASSUME Inv, Recorded, NEW a \in Approvals, NEW e,
           statusHistory' = [statusHistory EXCEPT ![a] = @ \cup {e}],
           approval'[a] # Nil,
           \A b \in Approvals : approval[b] # Nil => approval'[b] # Nil
    PROVE  Recorded'
<1>1. statusHistory'[a] = statusHistory[a] \cup {e} /\ IsFiniteSet(statusHistory'[a])
  BY FS_AddElement DEF Inv, Typed, TypeOK, Recorded
<1>2. \A b \in Approvals \ {a} : statusHistory'[b] = statusHistory[b]
  BY DEF Inv, Typed, TypeOK
<1> QED
  BY <1>1, <1>2 DEF Recorded

LEMMA HistoryStays ==
    ASSUME Inv, Recorded, UNCHANGED statusHistory,
           \A b \in Approvals : approval[b] # Nil => approval'[b] # Nil
    PROVE  Recorded'
BY DEF Recorded

(* The rows the handlers write are rows. *)
LEMMA RowsStay ==
    ASSUME Inv, NEW p \in Requests,
           UpdateStatusCommit(p) \/ Remove(p) \/ Commit(p)
    PROVE  /\ request[p].id \in Approvals
           /\ approval[request[p].id] \in Row
           /\ \A b \in Approvals : approval[b] # Nil => approval'[b] # Nil
<1> DEFINE a == request[p].id
<1>1. a \in Approvals /\ approval[a] \in Row
  BY DEF UpdateStatusCommit, Remove, Commit, At, Inv, Typed, TypeOK, InFlight
<1>2. approval'[a] \in Row
  <2>1. CASE UpdateStatusCommit(p)
    <3>1. request[p].entry.status \in Statuses
      BY <2>1 DEF UpdateStatusCommit, Inv, Typed, TypeOK, InFlight, Request, Entry
    <3>2. [approval[a] EXCEPT !.status = request[p].entry.status] \in Row
      BY <1>1, <3>1 DEF Row
    <3> QED
      BY <1>1, <2>1, <3>2 DEF UpdateStatusCommit, Inv, Typed, TypeOK
  <2>2. CASE Remove(p)
    <3>1. [approval[a] EXCEPT !.deleted = TRUE] \in Row
      BY <1>1 DEF Row
    <3> QED
      BY <1>1, <2>2, <3>1 DEF Remove, Inv, Typed, TypeOK
  <2>3. CASE Commit(p)
    <3>1. request[p].work \in Work
      BY <2>3 DEF Commit, Inv, Typed, TypeOK, InFlight, Request
    <3> QED
      BY <1>1, <2>3, <3>1 DEF Commit, Work, Inv, Typed, TypeOK
  <2> QED
    BY <2>1, <2>2, <2>3
<1>3. \A b \in Approvals \ {a} : approval'[b] = approval[b]
  BY DEF UpdateStatusCommit, Remove, Commit, Inv, Typed, TypeOK
<1> QED
  BY <1>1, <1>2, <1>3, RecordsAssumption

LEMMA RecordedStep ==
    ASSUME Inv, LedgerInv, [Next]_vars
    PROVE  Recorded'
<1>1. Recorded
  BY DEF LedgerInv
<1>2. ASSUME NEW a \in Approvals, NEW e \in Person, NEW h \in Person,
             NEW f \in Person,
             approval' = [approval EXCEPT ![a] = NewRow(e, h, f)]
      PROVE  \A b \in Approvals : b = a \/ approval[b] # Nil => approval'[b] # Nil
  BY <1>2, NewRowType, RecordsAssumption DEF Inv, Typed, TypeOK
<1>3. ASSUME NEW p \in Requests, NEW a \in Approvals, NEW e \in Authors,
             Create(p, a, e)
      PROVE  Recorded'
  <2>1. e \in Person /\ Nil \in Person
    BY WorkflowAssumption DEF Person
  <2> QED
    BY <1>1, <1>2, <1>3, <2>1, HistoryStays DEF Create
<1>4. ASSUME NEW p \in Requests, CreateHistory(p)
      PROVE  Recorded'
  <2>1. request[p].id \in Approvals /\ approval[request[p].id] # Nil
    BY <1>4 DEF CreateHistory, Inv, Typed, InFlight
  <2> QED
    BY <1>1, <1>4, <2>1, HistoryGrows DEF CreateHistory
<1>5. ASSUME NEW p \in Requests, NEW a \in Approvals,
             NEW e \in Person, NEW h \in Person, NEW f \in Person,
             Duplicate(p, a, e, h, f)
      PROVE  Recorded'
  <2>1. statusHistory' = [statusHistory EXCEPT ![a] =
                             @ \cup {Dated(a, "DRAFT", "duplicate")}]
    BY <1>1, <1>5 DEF Duplicate, Recorded
  <2> QED
    BY <1>1, <1>2, <1>5, <2>1, HistoryGrows DEF Duplicate
<1>6. ASSUME NEW p \in Requests, UpdateStatusCommit(p)
      PROVE  Recorded'
  <2>1. approval'[request[p].id] # Nil
    BY <1>6, RowsStay DEF UpdateStatusCommit, Inv, Typed, InFlight
  <2> QED
    BY <1>1, <1>6, <2>1, RowsStay, HistoryGrows DEF UpdateStatusCommit
<1>7. ASSUME NEW p \in Requests, Remove(p)
      PROVE  Recorded'
  BY <1>1, <1>7, RowsStay, HistoryStays DEF Remove
<1>8. ASSUME NEW p \in Requests, Commit(p)
      PROVE  Recorded'
  <2> DEFINE a == request[p].id
  <2>1. a \in Approvals /\ approval'[a] # Nil
    BY <1>8, RowsStay DEF Commit, Inv, Typed, InFlight
  <2>2. CASE request[p].entry = Nil
    <3>1. statusHistory' = statusHistory
      BY <1>8, <2>2 DEF Commit, Inv, Typed, TypeOK
    <3> QED
      BY <1>1, <1>8, <3>1, RowsStay, HistoryStays
  <2>3. CASE request[p].entry # Nil
    BY <1>1, <1>8, <2>1, <2>3, RowsStay, HistoryGrows DEF Commit
  <2> QED
    BY <2>2, <2>3
<1>9. CASE UNCHANGED <<approval, statusHistory>>
  BY <1>1, <1>9, HistoryStays
<1> QED
  BY <1>3, <1>4, <1>5, <1>6, <1>7, <1>8, <1>9
  DEF Next, Arrive, Proceed, vars, FindById, UpdateContinuousRead, Update,
      UpdateStatusHistory, ForwardStep, ApproveFinal, Reject, CloseChain,
      NoDecision, Abort

LEMMA LedgerInvariance == Spec => []LedgerInv
<1>1. Init => LedgerInv
  BY FS_EmptySet DEF Init, Idle, LedgerInv, Ready, Recorded
<1>2. Inv /\ LedgerInv /\ [Next]_vars => LedgerInv'
  BY ReadyStep, RecordedStep DEF LedgerInv
<1> QED
  BY Invariance, <1>1, <1>2, PTL DEF Spec

-----------------------------------------------------------------------------
(* The tally counts a row that was not in the history. *)

LEMMA Counted ==
    ASSUME Inv, Recorded, NEW a \in Approvals, NEW e \in Entry,
           e \notin statusHistory[a],
           statusHistory' = [statusHistory EXCEPT ![a] = @ \cup {e}]
    PROVE  Ledger!Count(a, e.status)
<1> DEFINE Of(b, s) == {f \in statusHistory[b] : f.status = s}
           Now(b, s) == {f \in statusHistory'[b] : f.status = s}
           tally == [b \in Approvals |-> [s \in Statuses |-> Cardinality(Of(b, s))]]
           next == [b \in Approvals |-> [s \in Statuses |-> Cardinality(Now(b, s))]]
<1>1. e.status \in Statuses
  BY DEF Entry
<1>2. Now(a, e.status) = Of(a, e.status) \cup {e}
  BY DEF Inv, Typed, TypeOK
<1>3. \A s \in Statuses \ {e.status} : Now(a, s) = Of(a, s)
  BY DEF Inv, Typed, TypeOK
<1>4. \A b \in Approvals \ {a} : \A s \in Statuses : Now(b, s) = Of(b, s)
  BY DEF Inv, Typed, TypeOK
<1>5. Cardinality(Now(a, e.status)) = Cardinality(Of(a, e.status)) + 1
  <2>1. IsFiniteSet(Of(a, e.status))
    BY FS_Subset DEF Recorded
  <2>2. e \notin Of(a, e.status)
    OBVIOUS
  <2> HIDE DEF Of, Now
  <2> QED
    BY <1>2, <2>1, <2>2, FS_AddElement
<1> HIDE DEF Of, Now
<1>6. next = [tally EXCEPT ![a] =
                 [tally[a] EXCEPT ![e.status] = tally[a][e.status] + 1]]
  <2>1. \A b \in Approvals \ {a} : next[b] = tally[b]
    BY <1>4
  <2>2. next[a] = [tally[a] EXCEPT ![e.status] = tally[a][e.status] + 1]
    BY <1>1, <1>3, <1>5
  <2>3. tally = [b \in Approvals |-> tally[b]] /\ next = [b \in Approvals |-> next[b]]
    OBVIOUS
  <2> HIDE DEF tally, next
  <2> QED
    BY <2>1, <2>2, <2>3
<1> QED
  BY <1>6 DEF Ledger!Count, Of, Now

(* Nothing is counted twice: a row dated now, and a private row, are new. *)
LEMMA NowIsNew ==
    ASSUME Inv, NEW a \in Approvals, NEW s, NEW via
    PROVE  Dated(a, s, via) \notin statusHistory[a]
<1>1. \A e \in statusHistory[a] : e.at < clock[a] /\ e.at \in Nat /\ clock[a] \in Nat
  BY DEF Inv, DatesDiffer, Typed, TypeOK, Entry
<1>2. Dated(a, s, via).at = clock[a]
  BY DEF Dated
<1> QED
  BY <1>1, <1>2

LEMMA PrivateIsNew ==
    ASSUME Inv, NEW p \in Requests, request[p].entry # Nil
    PROVE  request[p].entry \in Entry \ statusHistory[request[p].id]
BY EntryType DEF Inv, DatesDiffer

-----------------------------------------------------------------------------
(* Each action is an act of the ledger or leaves it alone. *)

LEMMA CreateActs ==
    ASSUME Inv, NEW p \in Requests, NEW a \in Approvals, NEW e \in Authors,
           Create(p, a, e)
    PROVE  Ledger!Next
<1>1. e \in Employees
  BY WorkflowAssumption
<1>2. Ledger!Open(a, e)
  BY DEF Create, Ledger!Open, Ledger!NewRow, NewRow
<1> QED
  BY <1>1, <1>2 DEF Ledger!Next

LEMMA CreateHistoryActs ==
    ASSUME Inv, Recorded, NEW p \in Requests, CreateHistory(p)
    PROVE  Ledger!Next
<1> DEFINE a == request[p].id
           e == Dated(a, "DRAFT", "create")
<1>1. a \in Approvals /\ approval[a] # Nil
  BY DEF CreateHistory, Inv, Typed, InFlight
<1>2. e \in Entry /\ e \notin statusHistory[a]
  BY <1>1, DatedType, NowIsNew DEF Inv, Typed, Statuses
<1>3. e.status = "DRAFT"
  BY DEF Dated
<1>4. statusHistory' = [statusHistory EXCEPT ![a] = @ \cup {e}]
  BY DEF CreateHistory
<1> HIDE DEF e
<1>5. Ledger!Count(a, "DRAFT")
  BY <1>1, <1>2, <1>3, <1>4, Counted
<1>6. Ledger!RecordOpening(a)
  BY <1>1, <1>5 DEF CreateHistory, Ledger!RecordOpening
<1> QED
  BY <1>1, <1>6 DEF Ledger!Next

LEMMA DuplicateActs ==
    ASSUME Inv, Recorded, NEW p \in Requests, NEW a \in Approvals,
           NEW employee \in Person, NEW holder \in Person, NEW final \in Person,
           Duplicate(p, a, employee, holder, final)
    PROVE  Ledger!Next
<1> DEFINE original == request[p].id
           e == Dated(a, "DRAFT", "duplicate")
<1>1. original \in Approvals /\ approval[original] # Nil
  BY DEF Duplicate, At, Inv, Typed, InFlight
<1>2. e \in Entry /\ e \notin statusHistory[a]
  BY DatedType, NowIsNew DEF Inv, Typed, Statuses
<1>3. e.status = "DRAFT"
  BY DEF Dated
<1>4. statusHistory' = [statusHistory EXCEPT ![a] = @ \cup {e}]
  BY DEF Duplicate, Recorded
<1> HIDE DEF e
<1>5. Ledger!Count(a, "DRAFT")
  BY <1>2, <1>3, <1>4, Counted
<1>6. Ledger!Copy(a, original, employee, holder, final)
  BY <1>1, <1>5 DEF Duplicate, Ledger!Copy, Ledger!NewRow, NewRow
<1> QED
  BY <1>1, <1>6 DEF Ledger!Next, Ledger!Person, Person

LEMMA UpdateStatusCommitActs ==
    ASSUME Inv, Recorded, NEW p \in Requests, UpdateStatusCommit(p)
    PROVE  Ledger!Next
<1> DEFINE a == request[p].id
           e == request[p].entry
<1>1. a \in Approvals /\ approval[a] # Nil /\ e # Nil
  BY DEF UpdateStatusCommit, Inv, Typed, InFlight
<1>2. e \in Entry /\ e \notin statusHistory[a]
  BY <1>1, PrivateIsNew
<1>3. Ledger!Count(a, e.status)
  BY <1>1, <1>2, Counted DEF UpdateStatusCommit
<1>4. e.status \in Statuses
  BY <1>2 DEF Entry
<1>5. Ledger!SetStatus(a, e.status)
  BY <1>1, <1>3 DEF UpdateStatusCommit, Ledger!SetStatus
<1> QED
  BY <1>1, <1>4, <1>5 DEF Ledger!Next, Ledger!Statuses, Statuses

LEMMA RemoveActs ==
    ASSUME Inv, NEW p \in Requests, Remove(p)
    PROVE  Ledger!Next
<1> DEFINE a == request[p].id
<1>1. a \in Approvals /\ approval[a] # Nil
  BY DEF Remove, At, Inv, Typed, InFlight
<1>2. Ledger!Delete(a)
  BY <1>1 DEF Remove, Ledger!Delete
<1> QED
  BY <1>1, <1>2 DEF Ledger!Next

LEMMA CommitActs ==
    ASSUME Inv, LedgerInv, NEW p \in Requests, Commit(p)
    PROVE  Ledger!Next
<1> DEFINE a == request[p].id
           r == request[p]
<1>1. a \in Approvals /\ approval[a] # Nil
  BY DEF Commit, Inv, Typed, InFlight
<1>2. /\ approval' = [approval EXCEPT ![a] = r.work.row]
      /\ continuous' = [continuous EXCEPT ![a] = r.work.steps]
  BY DEF Commit
<1>3. r.entry = Nil => statusHistory' = statusHistory
  BY DEF Commit, Inv, Typed, TypeOK
<1>4. CASE Revising(r)
  <2>1. PICK e \in Edits : /\ r.work.row = EditedRow(approval[a], e)
                          /\ r.work.steps = EditedSteps(continuous[a], e)
    BY <1>4 DEF Revising
  <2>2. statusHistory' = statusHistory
    BY <1>3, <1>4 DEF Revising
  <2>3. Ledger!Revise(a, e)
    BY <1>1, <1>2, <2>1, <2>2
    DEF Ledger!Revise, Ledger!EditedRow, Ledger!EditedSteps, Ledger!Given,
        EditedRow, EditedSteps, Given
  <2> QED
    BY <1>1, <2>3 DEF Ledger!Next
<1>5. CASE Forwarding(r)
  <2>1. PICK next \in Employees :
            /\ r.work.row = Forwarded(approval[a], next)
            /\ r.work.steps = WithStep(continuous[a], next, "APPROVED")
    BY <1>5 DEF Forwarding
  <2>2. /\ statusHistory' = statusHistory
        /\ r.step.employee \in Employees
        /\ r.step.employee # approval[a].finalStaff
    BY <1>3, <1>5 DEF Forwarding
  <2>3. Ledger!Forward(a, r.step.employee, next)
    BY <1>1, <1>2, <2>1, <2>2
    DEF Ledger!Forward, Ledger!Forwarded, Ledger!WithStep, Forwarded, WithStep
  <2> QED
    BY <1>1, <2>2, <2>3 DEF Ledger!Next
<1>6. CASE Closing(r)
  <2> DEFINE author == approval[a].employee
  <2>1. PICK verdict \in {"APPROVED", "REJECTED"} :
            /\ r.entry.status = verdict
            /\ verdict = "APPROVED" => r.step.employee = approval[a].finalStaff
            /\ r.work.row = Closed(approval[a], verdict)
            /\ r.work.steps = WithStep(continuous[a], author, verdict)
    BY <1>6 DEF Closing
  <2>2. r.entry # Nil /\ r.step.employee \in Employees /\ author # Nil
    BY <1>6 DEF Closing
  <2>3. r.entry \in Entry /\ r.entry \notin statusHistory[a]
    BY <2>2, PrivateIsNew
  <2>4. statusHistory' = [statusHistory EXCEPT ![a] = @ \cup {r.entry}]
    BY <2>2 DEF Commit
  <2>5. Ledger!Count(a, verdict)
    BY <1>1, <2>1, <2>3, <2>4, Counted DEF LedgerInv
  <2>6. Ledger!Close(a, r.step.employee, verdict)
    BY <1>1, <1>2, <2>1, <2>2, <2>5
    DEF Ledger!Close, Ledger!Closed, Ledger!WithStep, Closed, WithStep
  <2> QED
    BY <1>1, <2>2, <2>6 DEF Ledger!Next
<1> QED
  BY <1>4, <1>5, <1>6 DEF Commit, LedgerInv, Ready

(* Every other step leaves the ledger alone. *)
LEMMA LedgerStep ==
    ASSUME Inv, LedgerInv, [Next]_vars
    PROVE  [Ledger!Next]_(Ledger!ledger)
<1>1. CASE UNCHANGED <<approval, continuous, statusHistory>>
  BY <1>1 DEF Ledger!ledger
<1> QED
  BY <1>1, CreateActs, CreateHistoryActs, DuplicateActs, UpdateStatusCommitActs,
     RemoveActs, CommitActs
  DEF Next, Arrive, Proceed, vars, FindById, UpdateContinuousRead, Update,
      UpdateStatusHistory, ForwardStep, ApproveFinal, Reject, CloseChain,
      NoDecision, Abort, LedgerInv

(* Every endpoint takes effect as one indivisible act on the current records,
   or not at all: the workflow implements the ledger. *)
THEOREM WorkflowImplementsLedger == Spec => ImplementsLedger
<1>1. Init => Ledger!Init
  <2>1. \A s : {e \in {} : e.status = s} = {}
    OBVIOUS
  <2> QED
    BY <2>1, FS_EmptySet DEF Init, Ledger!Init, Ledger!NoHistory, Ledger!Statuses, Statuses
<1>2. Inv /\ LedgerInv /\ [Next]_vars => [Ledger!Next]_(Ledger!ledger)
  BY LedgerStep
<1> QED
  BY Invariance, LedgerInvariance, <1>1, <1>2, PTL
  DEF Spec, ImplementsLedger, Ledger!Spec

=============================================================================

-------------------------- MODULE ApprovalDetails --------------------------
(***************************************************************************)
(* The detail of an approval: what findById of ApprovalService gathers     *)
(* from some twenty tables, one query after the other and outside any      *)
(* transaction, and keeps in the cache; the handlers that write those      *)
(* tables, each in one transaction, and delete the cached detail after;    *)
(* and the copies that duplicate() makes of a detail.                      *)
(*                                                                         *)
(* A section stands for the tables that are read and written alike.  What  *)
(* a section holds is the number of the transaction that wrote it.  The    *)
(* lists of attachments and the names of people and places, which are      *)
(* shown too, are no sections.                                             *)
(***************************************************************************)
EXTENDS Integers, Sequences, FiniteSets

CONSTANTS
    Approvals,      \* ids of approvals
    Requests,       \* HTTP requests that may be in flight together
    Ops,            \* what clients ask for
    Outside,        \* approvals whose claims are written past ApprovalService
    Edits,          \* bodies of PATCH /approvals/:id: the parts they carry
    MaxWrites,      \* bound: transactions that write
    FaultPoints,    \* places where a request may die
    Nil

(* In the order findById reads them. *)
ReadOrder ==
    <<"approval",       \* the row of approval
      "history",        \* approval_status_history
      "contents",       \* approval_date_ranges, approval_contents
      "trips",          \* approval_trip_entries
      "tripDates",      \* approval_trip_date_ranges
      "staff",          \* approval_staff_members
      "locations",      \* work locations, their dates; entertainment
      "accommodation",  \* accommodation and transportation expenses
      "rides",          \* approval_accommodation_transport_expense
      "holidays",       \* approval_accommodation_holiday_expense
      "clothing",       \* approval_clothing_expense
      "budgets",        \* other expenses, conditions, budgets
      "continuous",     \* approval_continuous
      "reference">>     \* the row of the approval that approval_ref names

Sections == {ReadOrder[i] : i \in DOMAIN ReadOrder}

(* Rows looked up by the id of the row above them. *)
ParentOf == [tripDates |-> "trips", locations |-> "staff",
             accommodation |-> "locations", rides |-> "accommodation",
             holidays |-> "accommodation"]

Traveller == {"staff", "locations", "accommodation", "rides", "holidays"}

Parts == {"contents", "trips", "staff", "budgets", "signer", "reference"}
Copies == {"duplicate", "duplicateCancel"}
Writers == {"update", "status", "cancel", "dates", "remove", "decide"} \cup Copies
PCs == {"idle", "lookup", "reading", "fill", "write", "invalidate", "cacheCopy"}

(* id: the transaction that inserted the rows; at: the last to change them. *)
Rows == [id : Nat, at : Nat]
Empty == [id |-> 0, at |-> 0]
Detail == [Sections -> Rows]
Nothing == [s \in Sections |-> Empty]

(* ref: the approval_ref that findById read with the row. *)
Request == [pc : PCs, op : Writers \cup {"read"}, id : Approvals \cup {Nil},
            edit : SUBSET Parts, detail : Detail, ref : Approvals \cup {Nil},
            todo : Seq(Sections)]

ASSUME DetailsAssumption ==
    /\ Ops \subseteq Writers \cup {"read"}
    /\ Outside \subseteq Approvals
    /\ Edits \subseteq SUBSET Parts
    /\ IsFiniteSet(Requests)
    /\ MaxWrites \in Nat
    /\ FaultPoints \subseteq PCs \ {"idle"}
    /\ Nil \notin Approvals \cup Detail

VARIABLES
    rows,           \* the committed rows of each section of each approval
    reference,      \* approval_ref
    deleted,        \* approvals with deleted_at set
    cache,          \* approval:{id}
    writes,         \* transactions that have written
    request         \* what each request in flight is doing

vars == <<rows, reference, deleted, cache, writes, request>>

-----------------------------------------------------------------------------
Idle == [pc |-> "idle", op |-> "read", id |-> Nil, edit |-> {},
         detail |-> Nothing, ref |-> Nil, todo |-> <<>>]

Exists(a) == rows[a]["approval"] # Empty

Become(p, r) == request' = [request EXCEPT ![p] = r]

(* Rows inserted, updated in place, and inserted beside others. *)
New(w) == [id |-> w, at |-> w]
Touch(row, w) == IF row = Empty THEN Empty ELSE [row EXCEPT !.at = w]
Grow(row, w) == IF row = Empty THEN New(w) ELSE [row EXCEPT !.at = w]

LookByApproval(a, s, detail, ref) ==    \* a variant: children of any parent
    rows[a][s]

(* One query of findById, given what it has read before. *)
Look(a, s, detail, ref) ==
    CASE s \in DOMAIN ParentOf ->
            IF rows[a][s].id = detail[ParentOf[s]].id THEN rows[a][s] ELSE Empty
      [] s = "clothing" ->
            IF detail["staff"] = Empty THEN Empty ELSE rows[a][s]
      [] s = "reference" ->
            IF ref \in Approvals \ deleted THEN rows[ref]["approval"] ELSE Empty
      [] OTHER -> rows[a][s]

(* What findById would answer if nothing else ran. *)
Current(a) == [s \in Sections |-> Look(a, s, rows[a], reference[a])]

(* The sections update() deletes and inserts again.  The chain of signatures
   goes with the travellers, and comes back with a signer only. *)
Replaced(edit) ==
    (edit \cap {"contents", "budgets"})
        \cup (IF "trips" \in edit THEN {"trips", "tripDates"} ELSE {})
        \cup (IF "staff" \in edit THEN Traveller \cup {"clothing"} ELSE {})

Chain(edit, chain, w) ==
    LET kept == IF "staff" \in edit THEN Empty ELSE chain
    IN  IF "signer" \in edit THEN Grow(kept, w) ELSE kept

(* The sections a copy takes over from the detail of its original. *)
Copied(op) ==
    {"contents", "trips", "tripDates", "staff", "locations"}
        \cup (IF op = "duplicate"
              THEN {"accommodation", "rides", "clothing", "budgets"} ELSE {})

(* Bounds: a transaction, and a copy, have room if those under way leave some. *)
MayWrite ==
    writes + Cardinality({q \in Requests : request[q].op \in Writers}) < MaxWrites
MayInsert ==
    Cardinality({q \in Requests : request[q].op \in Copies})
        < Cardinality({b \in Approvals : ~ Exists(b)})

-----------------------------------------------------------------------------
(* POST /approvals; nobody has the id before both inserts are done. *)
Create(a, ref) ==
    /\ ~ Exists(a) /\ MayWrite /\ MayInsert
    /\ writes' = writes + 1
    /\ rows' = [rows EXCEPT ![a]["approval"] = New(writes'),
                            ![a]["history"] = New(writes')]
    /\ reference' = [reference EXCEPT ![a] = ref]
    /\ UNCHANGED <<deleted, cache, request>>

(* All endpoints but the decision of a step, which reads the step, begin with
   findById. *)
Arrive(p, op, a, edit) ==
    /\ request[p].pc = "idle" /\ Exists(a)
    /\ op # "read" => MayWrite
    /\ op \in Copies => MayInsert
    /\ op = "decide" => rows[a]["continuous"] # Empty
    /\ Become(p, [Idle EXCEPT !.pc = IF op = "decide" THEN "write" ELSE "lookup",
                     !.op = op, !.id = a, !.edit = edit])
    /\ UNCHANGED <<rows, reference, deleted, cache, writes>>

-----------------------------------------------------------------------------
(* findById *)

Answered(r) == IF r.op = "read" THEN Idle ELSE [r EXCEPT !.pc = "write"]

Hit(p) ==
    LET r == request[p]
    IN  /\ r.pc = "lookup" /\ cache[r.id] # Nil
        /\ Become(p, Answered([r EXCEPT !.detail = cache[r.id]]))
        /\ UNCHANGED <<rows, reference, deleted, cache, writes>>

Miss(p) ==
    LET r == request[p]
    IN  /\ r.pc = "lookup" /\ cache[r.id] = Nil
        /\ Become(p, [r EXCEPT !.pc = "reading", !.todo = ReadOrder])
        /\ UNCHANGED <<rows, reference, deleted, cache, writes>>

NotFound(p) ==
    LET r == request[p]
    IN  /\ r.pc = "reading"
        /\ Head(r.todo) = "approval" /\ r.id \in deleted
        /\ Become(p, Idle)
        /\ UNCHANGED <<rows, reference, deleted, cache, writes>>

Read(p) ==
    LET r == request[p]
        s == Head(r.todo)
    IN  /\ r.pc = "reading"
        /\ ~ (s = "approval" /\ r.id \in deleted)
        /\ Become(p, [r EXCEPT !.detail[s] = Look(r.id, s, r.detail, r.ref),
                         !.ref = IF s = "approval" THEN reference[r.id] ELSE @,
                         !.todo = Tail(r.todo),
                         !.pc = IF Tail(r.todo) = <<>> THEN "fill" ELSE "reading"])
        /\ UNCHANGED <<rows, reference, deleted, cache, writes>>

FillWithRow(p) ==                   \* a variant: the row instead of the answer
    LET r == request[p]
    IN  /\ r.pc = "fill"
        /\ cache' = [cache EXCEPT ![r.id] = r.detail["approval"]]
        /\ Become(p, Answered(r))
        /\ UNCHANGED <<rows, reference, deleted, writes>>

Fill(p) ==
    LET r == request[p]
    IN  /\ r.pc = "fill"
        /\ cache' = [cache EXCEPT ![r.id] = r.detail]
        /\ Become(p, Answered(r))
        /\ UNCHANGED <<rows, reference, deleted, writes>>

-----------------------------------------------------------------------------
(* The transactions, each taken whole at its commit. *)

Writes(p, op) ==
    /\ request[p].pc = "write" /\ request[p].op = op
    /\ writes' = writes + 1
    /\ UNCHANGED cache

Invalidating(p) == Become(p, [request[p] EXCEPT !.pc = "invalidate"])

Update(p, ref) ==
    LET r == request[p]
        Written(s) ==
            IF s \in Replaced(r.edit) THEN New(writes')
            ELSE IF s = "approval" THEN Touch(rows[r.id][s], writes')
            ELSE IF s = "continuous" THEN Chain(r.edit, rows[r.id][s], writes')
            ELSE rows[r.id][s]
    IN  /\ Writes(p, "update") /\ Invalidating(p)
        /\ rows' = [rows EXCEPT ![r.id] = [s \in Sections |-> Written(s)]]
        /\ IF "reference" \in r.edit
           THEN reference' = [reference EXCEPT ![r.id] = ref]
           ELSE ref = Nil /\ UNCHANGED reference
        /\ UNCHANGED deleted

(* updateStatus *)
UpdateStatus(p) ==
    /\ Writes(p, "status") /\ Invalidating(p)
    /\ rows' = [rows EXCEPT ![request[p].id]["approval"] = Touch(@, writes'),
                            ![request[p].id]["history"] = Grow(@, writes')]
    /\ UNCHANGED <<reference, deleted>>

(* updateStaffMembersCancelledStatus *)
Cancel(p) ==
    /\ Writes(p, "cancel") /\ Invalidating(p)
    /\ rows' = [rows EXCEPT ![request[p].id]["staff"] = Touch(@, writes')]
    /\ UNCHANGED <<reference, deleted>>

(* updateClothingExpenseDates *)
UpdateDates(p) ==
    /\ Writes(p, "dates") /\ Invalidating(p)
    /\ rows' = [rows EXCEPT ![request[p].id]["clothing"] = Touch(@, writes')]
    /\ UNCHANGED <<reference, deleted>>

(* remove *)
SoftDelete(p) ==
    /\ Writes(p, "remove") /\ Invalidating(p)
    /\ deleted' = deleted \cup {request[p].id}
    /\ rows' = [rows EXCEPT ![request[p].id]["approval"] = Touch(@, writes')]
    /\ UNCHANGED reference

(* updateApprovalContinuous; a verdict adds to the history as well. *)
Decide(p, verdict) ==
    /\ Writes(p, "decide") /\ Invalidating(p)
    /\ rows' = [rows EXCEPT
           ![request[p].id]["approval"] = Touch(@, writes'),
           ![request[p].id]["continuous"] = Grow(@, writes'),
           ![request[p].id]["history"] = IF verdict THEN Grow(@, writes') ELSE @]
    /\ UNCHANGED <<reference, deleted>>

(* duplicate and duplicateCancel *)
Duplicate(p, op, b) ==
    LET r == request[p]
        Copy(s) ==
            IF s \in {"approval", "history"} THEN New(writes')
            ELSE IF s \in Copied(op) /\ r.detail[s] # Empty THEN New(writes')
            ELSE Empty
    IN  /\ Writes(p, op) /\ ~ Exists(b)
        /\ Become(p, [r EXCEPT !.pc = "cacheCopy", !.id = b])
        /\ rows' = [rows EXCEPT ![b] = [s \in Sections |-> Copy(s)]]
        /\ reference' = [reference EXCEPT ![b] = r.id]
        /\ UNCHANGED deleted

-----------------------------------------------------------------------------
(* The cache after a transaction *)

InvalidateList(p) ==                 \* a variant: only the list key goes
    /\ request[p].pc = "invalidate"
    /\ Become(p, Idle)
    /\ UNCHANGED <<rows, reference, deleted, cache, writes>>

Invalidate(p) ==
    /\ request[p].pc = "invalidate"
    /\ cache' = [cache EXCEPT ![request[p].id] = Nil]
    /\ Become(p, Idle)
    /\ UNCHANGED <<rows, reference, deleted, writes>>

(* The raw row of the copy: only columns of one word have the name under which
   a detail is read, and none of the sections is there. *)
CacheCopy(p) ==
    /\ request[p].pc = "cacheCopy"
    /\ cache' = [cache EXCEPT ![request[p].id] = Nothing]
    /\ Become(p, Idle)
    /\ UNCHANGED <<rows, reference, deleted, writes>>

NeverExpire(a) ==                    \* a variant: set without a TTL
    FALSE /\ UNCHANGED vars

Expire(a) ==
    /\ cache[a] # Nil
    /\ cache' = [cache EXCEPT ![a] = Nil]
    /\ UNCHANGED <<rows, reference, deleted, writes, request>>

(* Three more write claims for clothing, and do not know the cache. *)
WriteClaims(a, claims) ==
    /\ a \in Outside /\ Exists(a) /\ MayWrite
    /\ writes' = writes + 1
    /\ rows' = [rows EXCEPT ![a]["clothing"] = claims]
    /\ UNCHANGED <<reference, deleted, cache, request>>

(* The nightly job dates those that have no date yet. *)
CopyReportDate(a) ==
    rows[a]["clothing"] # Empty /\ WriteClaims(a, Touch(rows[a]["clothing"], writes + 1))

(* A request for cancellation that is approved deletes some or all. *)
CancelClaims(a, all) ==
    /\ rows[a]["clothing"] # Empty
    /\ WriteClaims(a, IF all THEN Empty ELSE Touch(rows[a]["clothing"], writes + 1))

(* Clerks add and amend them by hand. *)
EnterClaim(a) == WriteClaims(a, Grow(rows[a]["clothing"], writes + 1))

(* An exception, a lost connection or the end of the process. *)
Abort(p) ==
    /\ request[p].pc \in FaultPoints
    /\ Become(p, Idle)
    /\ UNCHANGED <<rows, reference, deleted, cache, writes>>

-----------------------------------------------------------------------------
Init ==
    /\ rows = [a \in Approvals |-> Nothing]
    /\ reference = [a \in Approvals |-> Nil]
    /\ deleted = {}
    /\ cache = [a \in Approvals |-> Nil]
    /\ writes = 0
    /\ request = [p \in Requests |-> Idle]

Proceed(p) ==
    \/ Hit(p) \/ Miss(p) \/ NotFound(p) \/ Read(p) \/ Fill(p)
    \/ \E ref \in Approvals \cup {Nil} : Update(p, ref)
    \/ UpdateStatus(p) \/ Cancel(p) \/ UpdateDates(p) \/ SoftDelete(p)
    \/ \E verdict \in BOOLEAN : Decide(p, verdict)
    \/ \E op \in Copies, b \in Approvals : Duplicate(p, op, b)
    \/ Invalidate(p) \/ CacheCopy(p)

Next ==
    \/ \E a \in Approvals :
           \/ \E ref \in Approvals \cup {Nil} : Create(a, ref)
           \/ Expire(a)
           \/ CopyReportDate(a) \/ EnterClaim(a) \/ \E all \in BOOLEAN : CancelClaims(a, all)
           \/ \E p \in Requests, op \in Ops :
                  IF op = "update" THEN \E edit \in Edits : Arrive(p, op, a, edit)
                                   ELSE Arrive(p, op, a, {})
    \/ \E p \in Requests : Proceed(p) \/ Abort(p)

Spec == Init /\ [][Next]_vars

(* The event loop and the database answer every await, and the cache drops
   what is older than its TTL. *)
FairSpec ==
    /\ Spec
    /\ \A p \in Requests : WF_vars(Proceed(p))
    /\ \A a \in Approvals : WF_vars(Expire(a))

-----------------------------------------------------------------------------
(* Every variable holds what its table, key or request can hold. *)
TypeOK ==
    /\ rows \in [Approvals -> Detail]
    /\ reference \in [Approvals -> Approvals \cup {Nil}]
    /\ deleted \subseteq Approvals
    /\ cache \in [Approvals -> Detail \cup {Nil}]
    /\ writes \in 0..MaxWrites
    /\ request \in [Requests -> Request]

(* findById reads table after table while update() replaces them, so a detail
   may mix two submissions.  It never mixes them backwards: no traveller is
   shown with places, costs or holidays of another submission, nor with
   clothing expenses or signatures of an earlier one. *)
Consistent(d) ==
    /\ \A s \in DOMAIN ParentOf : d[s] = Empty \/ d[s].id = d[ParentOf[s]].id
    /\ \A s \in {"clothing", "continuous"} :
           d[s] = Empty \/ d[s].id >= d["staff"].id

NoOldSubmissionUnderNew ==
    \A a \in Approvals : cache[a] # Nil => Consistent(cache[a])

(* Once writes cease, the cache comes to hold nothing but current details, of
   approvals that are not deleted, whatever was read while they went on:
   fills that came too late, rows of copies and what the nightly job, a
   cancellation, a clerk or another approval has changed expire. *)
EventuallyCurrent ==
    <>[](\A a \in Approvals :
            cache[a] # Nil => a \notin deleted /\ cache[a] = Current(a))

Quiet == \A p \in Requests : request[p].pc = "idle"

(* Requests one after the other: whoever has written an approval through
   ApprovalService finds what it wrote, though a copy was made of it, and
   though others write its claims.  Those claims are what a detail may then
   show too late, and the approval it refers to: nobody tells the cache. *)
Heard(a) == Sections \ ({"reference"} \cup (IF a \in Outside THEN {"clothing"} ELSE {}))
WritersAreHeard ==
    Quiet => \A a \in Approvals :
        cache[a] \notin {Nil, Nothing} =>
            a \notin deleted /\ \A s \in Heard(a) : cache[a][s] = rows[a][s]
=============================================================================

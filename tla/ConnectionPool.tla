--------------------------- MODULE ConnectionPool ---------------------------
(***************************************************************************)
(* Requests of ApprovalService and the pool of database connections.       *)
(*                                                                         *)
(* Every query outside a transaction borrows a connection for itself; a    *)
(* transaction keeps one from its beginning to its end.  Handlers begin a  *)
(* transaction and then run queries outside it, so they hold one           *)
(* connection while they wait for another.  A wait ends after              *)
(* acquireTimeoutMillis with an error.                                     *)
(*                                                                         *)
(* The handlers that create approvals number them (RunningNumber) on a     *)
(* connection other than the one they insert on.                           *)
(***************************************************************************)
EXTENDS RunningNumber, Sequences, FiniteSets

CONSTANTS Requests,        \* HTTP requests that may be in flight at once
          MaxConnections,  \* pool.max
          Ops,             \* the handlers that are called
          Earlier,         \* how many numbers the first month may have given
          MaxApprovals,    \* bound: approvals numbered
          MaxMonth,        \* bound: months that pass
          Nil

ASSUME PoolAssumption ==
    /\ MaxConnections \in Nat \ {0}
    /\ IsFiniteSet(Requests)
    /\ Earlier \subseteq 0..(Wide - 1)
    /\ Ops \subseteq {"read", "create", "update", "status", "decide", "write", "copy"}
    /\ Nil \notin {"read", "create", "update", "status", "decide", "write", "copy"}

VARIABLES request,    \* the requests in flight
          leaked,     \* connections of transactions that nobody will end
          approvals,  \* rows of the table approval, in the order of commit
          month       \* the month the clock shows

vars == <<request, leaked, approvals, month>>

(* What a handler asks of the database, in order.  "query" stands for a run
   of statements outside a transaction, "commit" for those inside and the
   COMMIT.  A handler reads its approval first, except create. *)
Script ==
    [read   |-> <<"query">>,
     create |-> <<"number", "query", "insert", "insertAgain", "query">>,
     update |-> <<"query", "begin", "query", "commit", "query">>,
     status |-> <<"query", "begin", "query", "commit">>,
     decide |-> <<"query", "begin", "query", "commit">>,
     write  |-> <<"query", "begin", "commit">>,
     copy   |-> <<"query", "begin", "number", "query", "commit">>]

Idle == [op |-> Nil, at |-> 1, lent |-> FALSE, open |-> FALSE, month |-> 1,
         number |-> 1, read |-> 0]

InFlight(r) == request[r].op # Nil
Step(r) == Script[request[r].op][request[r].at]

(* The connections that are out of the pool. *)
Used == Cardinality({r \in Requests : request[r].lent})
        + Cardinality({r \in Requests : request[r].open}) + leaked

(* A handler that is not answered yet and needs a connection it lacks. *)
Waits(r) == InFlight(r) /\ ~request[r].lent /\ Step(r) # "commit"
Runs(r, step) == InFlight(r) /\ request[r].lent /\ Step(r) = step

NumbersOf(m) == {approvals[i].number : i \in {j \in DOMAIN approvals : approvals[j].month = m}}
RowOfToday(r) == [month |-> month, number |-> request[r].number, read |-> request[r].read]
Row(r) == [month |-> request[r].month, number |-> request[r].number, read |-> request[r].read]

(* The handler r, at step k next, as record q says otherwise.  The month of
   a number is taken from the clock before the query for the last one. *)
Goes(r, q, k) ==
    request' = [request EXCEPT ![r] =
        IF k > Len(Script[q.op]) THEN Idle
        ELSE [q EXCEPT !.at = k, !.month = IF Script[q.op][k] = "number" THEN month ELSE @]]

Returned(r) == [request[r] EXCEPT !.lent = FALSE]

Arrive(r) ==
    /\ ~InFlight(r)
    /\ \E op \in Ops : Goes(r, [Idle EXCEPT !.op = op], 1)
    /\ UNCHANGED <<leaked, approvals, month>>

(* The pool lends a connection, if one is left, to any of those who wait. *)
Lend(r) ==
    /\ Waits(r)
    /\ IF Step(r) = "begin"
       THEN Goes(r, [request[r] EXCEPT !.open = TRUE], request[r].at + 1)
       ELSE request' = [request EXCEPT ![r].lent = TRUE]
    /\ UNCHANGED <<leaked, approvals, month>>
GrantBeyondMax(r) == Used <= MaxConnections /\ Lend(r)
Grant(r) == Used < MaxConnections /\ Lend(r)

Query(r) ==
    /\ Runs(r, "query")
    /\ Goes(r, Returned(r), request[r].at + 1)
    /\ UNCHANGED <<leaked, approvals, month>>

(* generateIncrementId. *)
ReadNumberOfAll(r) ==
    /\ Runs(r, "number")
    /\ \E n \in NextNumbers({approvals[i].number : i \in DOMAIN approvals}) :
          Goes(r, [Returned(r) EXCEPT !.number = n, !.read = Len(approvals)], request[r].at + 1)
    /\ UNCHANGED <<leaked, approvals, month>>
ReadNumber(r) ==
    /\ Runs(r, "number")
    /\ \E n \in NextNumbers(NumbersOf(request[r].month)) :
          Goes(r, [Returned(r) EXCEPT !.number = n, !.read = Len(approvals)], request[r].at + 1)
    /\ UNCHANGED <<leaked, approvals, month>>

(* KnexService.create.  An insert that fails is repeated, whether or not the
   row of the first one is there. *)
Insert(r) ==
    /\ \/ Runs(r, "insert") /\ Goes(r, Returned(r), request[r].at + 2)
       \/ Runs(r, "insertAgain") /\ Goes(r, Returned(r), request[r].at + 1)
    /\ Len(approvals) < MaxApprovals
    /\ approvals' = Append(approvals, Row(r))
    /\ UNCHANGED <<leaked, month>>

InsertUnanswered(r) ==
    /\ Runs(r, "insert")
    /\ Goes(r, Returned(r), request[r].at + 1)
    /\ \/ Len(approvals) < MaxApprovals /\ approvals' = Append(approvals, Row(r))
       \/ approvals' = approvals
    /\ UNCHANGED <<leaked, month>>

(* A copy inserts its approval in its transaction; it is seen from here on. *)
Commit(r) ==
    /\ InFlight(r) /\ Step(r) = "commit"
    /\ Goes(r, [request[r] EXCEPT !.open = FALSE], request[r].at + 1)
    /\ IF request[r].op = "copy"
       THEN /\ Len(approvals) < MaxApprovals
            /\ approvals' = Append(approvals, Row(r))
       ELSE approvals' = approvals
    /\ UNCHANGED <<leaked, month>>

(* updateStatus begins its transaction ahead of its try block. *)
InTry(r) == ~(request[r].op = "status" /\ Step(r) = "query")

(* An error ends the request; in a try block it rolls the transaction back. *)
Fails(r) ==
    /\ request' = [request EXCEPT ![r] = Idle]
    /\ leaked' = leaked + (IF request[r].open /\ ~InTry(r) THEN 1 ELSE 0)
    /\ UNCHANGED <<approvals, month>>

WaitsForEver(r) == Waits(r) /\ Fails(r) /\ Step(r) = "number"
TimeOut(r) ==
    /\ Waits(r)
    /\ IF Step(r) = "insert"
       THEN /\ Goes(r, request[r], request[r].at + 1)
            /\ UNCHANGED <<leaked, approvals, month>>
       ELSE Fails(r)

(* The database refuses a statement, or answers with nothing where the
   handler throws: no such approval, no such label. *)
Refused(r) ==
    /\ InFlight(r) /\ (request[r].lent \/ Step(r) = "commit")
    /\ Step(r) # "insert"
    /\ Fails(r)

(* The process ends: the database rolls back what was open. *)
Restart ==
    /\ request' = [r \in Requests |-> Idle]
    /\ leaked' = 0
    /\ UNCHANGED <<approvals, month>>

NextMonth ==
    /\ month < MaxMonth
    /\ month' = month + 1
    /\ UNCHANGED <<request, leaked, approvals>>

Init ==
    /\ request = [r \in Requests |-> Idle]
    /\ leaked = 0
    /\ \E k \in Earlier :
          approvals = [i \in 1..k |-> [month |-> 1, number |-> i, read |-> i - 1]]
    /\ month = 1

Proceed(r) ==
    \/ Query(r) \/ ReadNumber(r) \/ Insert(r) \/ InsertUnanswered(r) \/ Commit(r)
    \/ Refused(r)

Next ==
    \/ \E r \in Requests : Arrive(r) \/ Grant(r) \/ TimeOut(r) \/ Proceed(r)
    \/ Restart
    \/ NextMonth

Spec == Init /\ [][Next]_vars

(* The database answers every statement, one way or the other, and the timer
   of a wait fires unless the wait ended before. *)
FairSpec == Spec /\ \A r \in Requests : WF_vars(Proceed(r)) /\ WF_vars(TimeOut(r))

-----------------------------------------------------------------------------
(* Types, and the size of the pool. *)
TypeOK ==
    /\ request \in [Requests -> [op : DOMAIN Script \cup {Nil}, at : 1..5, lent : BOOLEAN,
                                 open : BOOLEAN, month : Nat \ {0}, number : Numbers, read : Nat]]
    /\ leaked \in Nat
    /\ Used <= MaxConnections
    /\ approvals \in Seq([month : Nat \ {0}, number : Numbers, read : Nat])
    /\ month \in Nat \ {0}

(* The numbers of a month have no gap: however creations and copies race,
   fail, are repeated or die between number and insert, a number is only ever
   given after the one before it (generateIncrementId). *)
NumbersWithoutGaps ==
    \A i \in DOMAIN approvals :
        \/ approvals[i].number = 1
        \/ approvals[i].number - 1 \in NumbersOf(approvals[i].month)

(* Two approvals of a month share a number only if the later one took it
   before the earlier one was there, or once the digits no longer suffice.
   Nothing else repeats a number: no copy, no repeated insert of another
   request, no change of month while a number is under way. *)
RepeatsOverlap ==
    \A i, j \in DOMAIN approvals :
        /\ i < j
        /\ approvals[i].month = approvals[j].month
        /\ approvals[i].number = approvals[j].number
        => approvals[j].read < i \/ approvals[j].number = Wide

(* However a handler splits reading and inserting, waits, repeats or fails
   between the two, each approval gets a number that followed those of its
   month in one state of the table, seen whole (NumberLedger). *)
Numbering == INSTANCE NumberLedger
ImplementsNumbering == Numbering!Spec

(* Whatever the pool has lost and whoever waits for whom, every request is
   answered: waits of handlers for one another end by the timeout. *)
EveryRequestEnds == \A r \in Requests : InFlight(r) ~> ~InFlight(r)

(* "Rollback the transaction in case of error": no transaction outlives its
   request (updateStatus). *)
ErrorsRollBack == leaked = 0
=============================================================================

----------------------------- MODULE ReportForms -----------------------------
(***************************************************************************)
(* ReportApproveService.update: saving a travel report.                    *)
(*                                                                         *)
(* A body carries the other expenses of the report, which are deleted and  *)
(* inserted again, and the form of a traveller with lists of details,      *)
(* which are brought in line row by row: rows that the body does not name  *)
(* are deleted, rows it names are updated, rows without an id are created. *)
(* Every statement commits at once, so updates interleave at each of them  *)
(* and a failure leaves what was done so far.                              *)
(*                                                                         *)
(* One report is enough: updates of two reports meet in no row.            *)
(***************************************************************************)
EXTENDS Naturals, Sequences, FiniteSets

CONSTANTS Requests,    \* updates that may be in flight at once
          Names,       \* travellers of the report
          KindCount,   \* the lists of details, by their place in the order of saving
          Strict,      \* those whose update complains of a row that is gone
          Contents,    \* what bodies hold: the expenses, as the inserts they
                       \* take, or NULL, and whether there is a form
          MaxUpdates,  \* bound: updates
          MaxNew,      \* bound: new rows of a list in one body
          Nil

ASSUME ReportAssumption ==
    /\ KindCount \in Nat \ {0}
    /\ Strict \subseteq 1..KindCount
    /\ Nil \notin Nat
    /\ {MaxUpdates, MaxNew} \subseteq Nat
    /\ Contents \subseteq [inserts : Seq({"expense", "receipt"}) \cup {Nil}, form : BOOLEAN]

VARIABLES request,
          travellers, forms, details,   \* report_traveller and what hangs on it
          lists, receipts,              \* report_other_expense_list
          given,                        \* ids that the sequences have given
          arrivals                      \* updates so far, each known by its number

form == <<travellers, forms, details>>
expenses == <<lists, receipts>>
vars == <<request, form, expenses, given, arrivals>>

Kinds == 1..KindCount

NoBody == [name |-> Nil, traveller |-> Nil, keep |-> [k \in Kinds |-> {}],
           new |-> [k \in Kinds |-> 0]]
Idle == [pc |-> "idle", by |-> 0, met |-> {}, content |-> Nil, body |-> NoBody,
         left |-> <<>>, target |-> Nil, fresh |-> FALSE, kind |-> 1, stale |-> {},
         keep |-> {}, new |-> 0]

InFlight(p) == request[p].pc # "idle"
At(p, pc) == request[p].pc = pc
Goes(p, q) == request' = [request EXCEPT ![p] = q]

Ids(S) == {row.id : row \in S}
Of(k) == {d \in details : d.kind = k}
Rows(f, k) == {d \in Of(k) : d.form = f}
FormsOf(t) == {f \in DOMAIN forms : forms[f] = t}
Named(n) == {t \in DOMAIN travellers : travellers[t] = n}

(* Where an update goes that is through with the expenses, or enters the
   list k.  A form just created has nothing to be compared with. *)
PastExpenses(q) == [q EXCEPT !.pc = IF q.content.form THEN "form" ELSE "done"]
Enters(q, k) == [q EXCEPT !.kind = k, !.keep = q.body.keep[k], !.new = q.body.new[k],
                          !.pc = IF q.fresh THEN "sync" ELSE "current"]

(* What clients send: ids they have been shown, of rows that may be gone by
   now, and the id of the traveller if they have been shown that. *)
Bodies ==
    LET some == [Kinds -> 0..MaxNew]
    IN  {[name |-> n, traveller |-> Nil, keep |-> NoBody.keep, new |-> w] : n \in Names, w \in some}
        \cup {[name |-> travellers[t], traveller |-> t, keep |-> c, new |-> w] :
                t \in {u \in DOMAIN travellers : FormsOf(u) # {}}, w \in some,
                c \in {s \in [Kinds -> SUBSET (1..MaxUpdates * MaxNew)] :
                         \A k \in Kinds : s[k] \subseteq 1..given.detail[k]}}

Arrive(p) ==
    /\ At(p, "idle")
    /\ arrivals < MaxUpdates
    /\ arrivals' = arrivals + 1
    /\ \E c \in Contents : \E b \in IF c.form THEN Bodies ELSE {NoBody} :
          LET q == [Idle EXCEPT !.by = arrivals + 1, !.content = c, !.body = b,
                                !.met = {request[r].by : r \in {s \in Requests : InFlight(s)}}]
          IN  request' = [r \in Requests |->
                  IF r = p
                  THEN IF c.inserts = Nil THEN PastExpenses(q)
                       ELSE [q EXCEPT !.pc = "lists", !.left = c.inserts]
                  ELSE IF InFlight(r) THEN [request[r] EXCEPT !.met = @ \cup {arrivals + 1}]
                  ELSE request[r]]
    /\ UNCHANGED <<form, expenses, given>>

(* deleteByReportId: three statements. *)
FindLists(p) ==
    /\ At(p, "lists")
    /\ Goes(p, [request[p] EXCEPT !.pc = "receipts", !.stale = Ids(lists)])
    /\ UNCHANGED <<form, expenses, given, arrivals>>

DeleteReceipts(p) ==
    /\ At(p, "receipts")
    /\ Goes(p, [request[p] EXCEPT !.pc = "purge", !.stale = {}])
    /\ receipts' = {r \in receipts : r.list \notin request[p].stale}
    /\ UNCHANGED <<form, lists, given, arrivals>>

DeleteListsUnchecked(p) ==
    /\ At(p, "purge")
    /\ Goes(p, IF request[p].left = <<>> THEN PastExpenses(request[p])
               ELSE [request[p] EXCEPT !.pc = "insert"])
    /\ lists' = {}
    /\ UNCHANGED <<form, receipts, given, arrivals>>

(* The foreign key of the receipts refuses it while one is there. *)
DeleteLists(p) == receipts = {} /\ DeleteListsUnchecked(p)

Inserted(q) ==
    IF Len(q.left) = 1 THEN PastExpenses([q EXCEPT !.left = <<>>])
    ELSE [q EXCEPT !.left = Tail(@)]

CreateExpense(p) ==
    /\ At(p, "insert")
    /\ Head(request[p].left) = "expense"
    /\ given' = [given EXCEPT !.list = @ + 1]
    /\ lists' = lists \cup {[id |-> given'.list, by |-> request[p].by]}
    /\ Goes(p, Inserted([request[p] EXCEPT !.target = given'.list]))
    /\ UNCHANGED <<form, receipts, arrivals>>

(* Refused if the expense it belongs to is gone. *)
CreateReceipt(p) ==
    LET q == request[p]
    IN  /\ At(p, "insert")
        /\ Head(q.left) = "receipt"
        /\ q.target \in Ids(lists)
        /\ given' = [given EXCEPT !.receipt = @ + 1]
        /\ receipts' = receipts \cup {[id |-> given'.receipt, list |-> q.target, by |-> q.by]}
        /\ Goes(p, Inserted(q))
        /\ UNCHANGED <<form, lists, arrivals>>

(* The form is looked for by the id of the traveller in the body. *)
FindForm(p) ==
    LET b == request[p].body
    IN  /\ At(p, "form")
        /\ IF b.traveller = Nil
           THEN Goes(p, [request[p] EXCEPT !.pc = "traveller", !.fresh = TRUE])
           ELSE \E f \in FormsOf(b.traveller) :
                   Goes(p, Enters([request[p] EXCEPT !.target = f], 1))
        /\ UNCHANGED <<form, expenses, given, arrivals>>

(* ensureTraveller: a look, and an insert if there was none of that name. *)
FindTraveller(p) ==
    LET same == Named(request[p].body.name)
    IN  /\ At(p, "traveller")
        /\ IF same = {} THEN Goes(p, [request[p] EXCEPT !.pc = "newTraveller"])
           ELSE \E t \in same : Goes(p, [request[p] EXCEPT !.pc = "newForm", !.target = t])
        /\ UNCHANGED <<form, expenses, given, arrivals>>

CreateTraveller(p) ==
    /\ At(p, "newTraveller")
    /\ travellers' = Append(travellers, request[p].body.name)
    /\ Goes(p, [request[p] EXCEPT !.pc = "newForm", !.target = Len(travellers')])
    /\ UNCHANGED <<forms, details, expenses, given, arrivals>>

CreateForm(p) ==
    /\ At(p, "newForm")
    /\ forms' = Append(forms, request[p].target)
    /\ Goes(p, Enters([request[p] EXCEPT !.target = Len(forms')], 1))
    /\ UNCHANGED <<travellers, details, expenses, given, arrivals>>

(* findByFormId, and the rows of it that the body does not name. *)
FindCurrentIfNamed(p) ==
    /\ At(p, "current")
    /\ LET q == request[p]
           others == IF q.keep = {} THEN {} ELSE Ids(Rows(q.target, q.kind)) \ q.keep
       IN  Goes(p, [q EXCEPT !.pc = "sync", !.stale = others])
    /\ UNCHANGED <<form, expenses, given, arrivals>>

FindCurrent(p) ==
    LET q == request[p]
    IN  /\ At(p, "current")
        /\ Goes(p, [q EXCEPT !.pc = "sync", !.stale = Ids(Rows(q.target, q.kind)) \ q.keep])
        /\ UNCHANGED <<form, expenses, given, arrivals>>

DeleteDetail(p) ==
    /\ At(p, "sync")
    /\ \E id \in request[p].stale :
          /\ Goes(p, [request[p] EXCEPT !.stale = @ \ {id}])
          /\ details' = {d \in details : ~(d.id = id /\ d.kind = request[p].kind)}
    /\ UNCHANGED <<travellers, forms, expenses, given, arrivals>>

UpdateDetailInSilence(p) ==
    LET q == request[p]
    IN  /\ At(p, "sync") /\ q.stale = {}
        /\ \E id \in q.keep :
              /\ details' = {IF d.id = id /\ d.kind = q.kind THEN [d EXCEPT !.by = q.by] ELSE d :
                                d \in details}
              /\ Goes(p, [q EXCEPT !.keep = @ \ {id}])
        /\ UNCHANGED <<travellers, forms, expenses, given, arrivals>>

(* A row that is gone stops the update if its list is strict and is passed
   over in silence otherwise. *)
UpdateDetail(p) ==
    LET q == request[p]
    IN  /\ At(p, "sync") /\ q.stale = {}
        /\ \E id \in q.keep :
              /\ q.kind \in Strict => id \in Ids(Of(q.kind))
              /\ details' = {IF d.id = id /\ d.kind = q.kind THEN [d EXCEPT !.by = q.by] ELSE d :
                                d \in details}
              /\ Goes(p, [q EXCEPT !.keep = @ \ {id}])
        /\ UNCHANGED <<travellers, forms, expenses, given, arrivals>>

CreateDetail(p) ==
    LET q == request[p]
    IN  /\ At(p, "sync") /\ q.stale = {}
        /\ q.new > 0
        /\ given' = [given EXCEPT !.detail[q.kind] = @ + 1]
        /\ details' = details \cup {[id |-> given'.detail[q.kind], kind |-> q.kind,
                                     form |-> q.target, by |-> q.by]}
        /\ Goes(p, [q EXCEPT !.new = @ - 1])
        /\ UNCHANGED <<travellers, forms, expenses, arrivals>>

NextList(p) ==
    LET q == request[p]
    IN  /\ At(p, "sync") /\ q.stale = {} /\ q.keep = {} /\ q.new = 0
        /\ Goes(p, IF q.kind + 1 \in Kinds THEN Enters(q, q.kind + 1)
                   ELSE [q EXCEPT !.pc = "done"])
        /\ UNCHANGED <<form, expenses, given, arrivals>>

Answer(p) ==
    /\ At(p, "done")
    /\ Goes(p, Idle)
    /\ UNCHANGED <<form, expenses, given, arrivals>>

(* The database refuses a statement, or the process ends. *)
Fail(p) ==
    /\ InFlight(p) /\ ~At(p, "done")
    /\ Goes(p, Idle)
    /\ UNCHANGED <<form, expenses, given, arrivals>>

Init ==
    /\ request = [p \in Requests |-> Idle]
    /\ travellers = <<>> /\ forms = <<>> /\ details = {}
    /\ lists = {} /\ receipts = {}
    /\ given = [list |-> 0, receipt |-> 0, detail |-> [k \in Kinds |-> 0]]
    /\ arrivals = 0

Next == \E p \in Requests :
    \/ Arrive(p) \/ Answer(p) \/ Fail(p)
    \/ FindLists(p) \/ DeleteReceipts(p) \/ DeleteLists(p)
    \/ CreateExpense(p) \/ CreateReceipt(p)
    \/ FindForm(p) \/ FindTraveller(p) \/ CreateTraveller(p) \/ CreateForm(p)
    \/ FindCurrent(p) \/ DeleteDetail(p) \/ UpdateDetail(p) \/ CreateDetail(p) \/ NextList(p)

Spec == Init /\ [][Next]_vars

-----------------------------------------------------------------------------
(* Types, and the foreign keys. *)
TypeOK ==
    /\ \A p \in Requests :
          /\ request[p].pc \in {"idle", "lists", "receipts", "purge", "insert", "form", "traveller",
                                "newTraveller", "newForm", "current", "sync", "done"}
          /\ request[p].by \in 0..arrivals
          /\ request[p].met \subseteq 1..arrivals
          /\ request[p].kind \in Kinds
          /\ request[p].new \in 0..MaxNew
          /\ request[p].keep \subseteq 1..given.detail[request[p].kind]
    /\ travellers \in Seq(Names)
    /\ forms \in Seq(DOMAIN travellers)
    /\ details \subseteq [id : Nat, kind : Kinds, form : DOMAIN forms, by : 1..arrivals]
    /\ lists \subseteq [id : 1..given.list, by : 1..arrivals]
    /\ receipts \subseteq [id : 1..given.receipt, list : Ids(lists), by : 1..arrivals]

(* An update that is through leaves no row of an earlier one in what its body
   held: whatever stands there was written by it, or by one that it met on
   the way (update, in both halves). *)
OldRowsGo ==
    \A p \in Requests :
        LET q == request[p]
            recent == {q.by} \cup q.met
        IN  q.pc = "done" =>
                /\ q.content.inserts # Nil => \A row \in lists \cup receipts : row.by \in recent
                /\ q.content.form => \A k \in Kinds : \A row \in Rows(q.target, k) : row.by \in recent

(* An update that met no other and is through has stored its body: as many
   expenses, receipts and new rows as it held, and each row that it named,
   but for those which were gone and whose list is not strict. *)
SubmittedRowsStand ==
    \A p \in Requests :
        LET q == request[p]
            Count(what) == Cardinality({i \in DOMAIN q.content.inserts : q.content.inserts[i] = what})
        IN  q.pc = "done" /\ q.met = {} =>
                /\ q.content.inserts # Nil => Cardinality(lists) = Count("expense")
                                              /\ Cardinality(receipts) = Count("receipt")
                /\ q.content.form => \A k \in Kinds :
                       /\ \A d \in Of(k) : d.id \in q.body.keep[k] => d.by = q.by
                       /\ Cardinality({d \in Rows(q.target, k) : d.by = q.by /\ d.id \notin q.body.keep[k]})
                          = q.body.new[k]
                       /\ k \in Strict => q.body.keep[k] \subseteq Ids(Of(k))
=============================================================================

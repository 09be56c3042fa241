------------------------ MODULE ApprovalAttachments ------------------------
(***************************************************************************)
(* The files of approvals: rows of files, and the rows of                  *)
(* approval_attachments that say which files each list of an approval      *)
(* shows.  update() and remove() of ApprovalService replace and empty the  *)
(* lists through ApprovalAttachmentService, which deletes the files that   *)
(* fall out of use.                                                        *)
(*                                                                         *)
(* update() replaces two lists while its transaction holds the row of the  *)
(* approval and the others after the commit.  ApprovalAttachmentService    *)
(* works on connections of its own: each of its statements commits at      *)
(* once, whatever becomes of the transaction around it.                    *)
(*                                                                         *)
(* file_id is a foreign key with ON DELETE CASCADE: an attachment of a     *)
(* file that is gone is refused, and with a file go all its attachments.   *)
(***************************************************************************)
EXTENDS Integers, Sequences

CONSTANTS
    Approvals,      \* ids of approvals
    Files,          \* ids the files table may hand out, each once
    Bodies,         \* bodies of PATCH /approvals/:id
    Requests,       \* HTTP requests that may be in flight together
    FaultPoints,    \* places where a request may die, or a file not be deleted
    Nil

(* The lists of an approval (entity_type). *)
Kinds == {"document", "signature", "budgets", "clothing", "transport",
          "continuousSignature"}
InsideKinds == {"document", "signature"}    \* replaced inside the transaction

(* One call of updateAttachments or, with no files, of deleteAttachments. *)
Call == [kind : Kinds, files : SUBSET Files]

(* What update() finds in its body: files of the approval, and one list for
   each budget, each clothing expense and each transport expense. *)
Body == [document : SUBSET Files, signature : SUBSET Files,
         budgets : Seq(SUBSET Files), clothing : Seq(SUBSET Files),
         transport : Seq(SUBSET Files)]

PCs == {"idle", "found", "find", "delete", "insert", "purge", "commit"}

(* Where a request is: in the transaction of update(), after its commit, or
   in remove(); with the calls still to make, the current one first, and the
   files the current one has found to be out of use. *)
Request == [pc : PCs, phase : {"inside", "after", "remove"},
            id : Approvals \cup {Nil}, body : Body \cup {Nil},
            calls : Seq(Call), drop : SUBSET Files]

ASSUME AttachmentsAssumption ==
    /\ Bodies \subseteq Body
    /\ Nil \notin Approvals \cup Requests \cup Body
    /\ FaultPoints \subseteq PCs \ {"idle"}

VARIABLES
    file,           \* "none" (not uploaded yet), "stored" or "deleted"
    attached,       \* the files of each list of each approval
    deleted,        \* approvals with deleted_at set
    rowLock,        \* the update whose transaction holds the approval's row
    request         \* what each request in flight is doing

vars == <<file, attached, deleted, rowLock, request>>

-----------------------------------------------------------------------------
Idle == [pc |-> "idle", phase |-> "inside", id |-> Nil, body |-> Nil,
         calls |-> <<>>, drop |-> {}]

Stored == {f \in Files : file[f] = "stored"}

HasFiles(call) == call.files # {}

CallsFor(kind, lists) ==
    [i \in DOMAIN lists |-> [kind |-> kind, files |-> lists[i]]]

(* The lists update() replaces while its transaction is open ... *)
InsideCalls(body) ==
    <<[kind |-> "document", files |-> body.document],
      [kind |-> "signature", files |-> body.signature]>>

(* ... and those it replaces after the commit.  Every budget and every
   expense replaces the one list of its kind. *)
AfterCalls(body) ==
    CallsFor("budgets", body.budgets)
        \o CallsFor("clothing", body.clothing)
        \o CallsFor("transport", body.transport)
        \o CallsFor("continuousSignature", <<body.signature>>)

RemoveCallsMisnamed ==               \* a variant: a wrong entity_type
    <<[kind |-> "approval", files |-> {}]>>

(* remove() empties all lists but transport. *)
RemoveCalls ==
    LET kinds == <<"document", "signature", "budgets", "clothing",
                   "continuousSignature">>
    IN  [i \in DOMAIN kinds |-> [kind |-> kinds[i], files |-> {}]]

DroppedKept(old, new) == old \cap new   \* a variant: the filter's ! is lost

(* The files that a new list leaves without a use. *)
Dropped(old, new) == old \ new

(* On to the first of calls, or to what follows the last one. *)
Enter(r, calls) ==
    IF calls # <<>>
    THEN [r EXCEPT !.pc = "find", !.calls = calls, !.drop = {}]
    ELSE IF r.phase = "inside"
         THEN [r EXCEPT !.pc = "commit", !.calls = <<>>, !.drop = {}]
         ELSE Idle

(* On to the next file to delete; after the last, to the next call. *)
Purging(r) ==
    IF r.drop # {} THEN [r EXCEPT !.pc = "purge"] ELSE Enter(r, Tail(r.calls))

Become(p, r) == request' = [request EXCEPT ![p] = r]

RowFree(a) == rowLock[a] = Nil

TakeRowUnlocked(p, a) ==             \* a variant: no row lock is taken
    UNCHANGED rowLock

TakeRow(p, a) ==
    /\ RowFree(a)
    /\ rowLock' = [rowLock EXCEPT ![a] = p]

ReleaseRows(p) ==
    rowLock' = [a \in Approvals |-> IF rowLock[a] = p THEN Nil ELSE rowLock[a]]

(* A row of files goes, and its attachments with it. *)
DeleteFile(f) ==
    /\ file' = [file EXCEPT ![f] = IF @ = "stored" THEN "deleted" ELSE @]
    /\ attached' = [a \in Approvals |-> [k \in Kinds |-> attached[a][k] \ {f}]]

-----------------------------------------------------------------------------
(* POST /files/upload-single and DELETE /files/:id. *)
Upload(f) ==
    /\ file[f] = "none"
    /\ file' = [file EXCEPT ![f] = "stored"]
    /\ UNCHANGED <<attached, deleted, rowLock, request>>

RemoveFile(f) ==
    /\ file[f] = "stored"
    /\ DeleteFile(f)
    /\ UNCHANGED <<deleted, rowLock, request>>

-----------------------------------------------------------------------------
(* findById; its answer may come from the cache and outlive the approval. *)
StartUpdate(p, a, body) ==
    /\ request[p].pc = "idle"
    /\ Become(p, [Idle EXCEPT !.pc = "found", !.id = a, !.body = body])
    /\ UNCHANGED <<file, attached, deleted, rowLock>>

StartRemove(p, a) ==
    /\ request[p].pc = "idle"
    /\ Become(p, [Idle EXCEPT !.pc = "found", !.phase = "remove", !.id = a])
    /\ UNCHANGED <<file, attached, deleted, rowLock>>

(* UPDATE approval opens the writes of the transaction. *)
Update(p) ==
    LET r == request[p]
    IN  /\ r.pc = "found" /\ r.phase = "inside"
        /\ TakeRow(p, r.id)
        /\ Become(p, Enter(r, InsideCalls(r.body)))
        /\ UNCHANGED <<file, attached, deleted>>

Commit(p) ==
    LET r == request[p]
    IN  /\ r.pc = "commit"
        /\ ReleaseRows(p)
        /\ Become(p, Enter([r EXCEPT !.phase = "after"], AfterCalls(r.body)))
        /\ UNCHANGED <<file, attached, deleted>>

(* The soft delete waits for the row and keeps it for one statement only. *)
SoftDelete(p) ==
    LET r == request[p]
    IN  /\ r.pc = "found" /\ r.phase = "remove"
        /\ RowFree(r.id)
        /\ deleted' = deleted \cup {r.id}
        /\ Become(p, Enter(r, RemoveCalls))
        /\ UNCHANGED <<file, attached, rowLock>>

-----------------------------------------------------------------------------
(* updateAttachments and deleteAttachments, statement by statement. *)

(* update() makes no call for a list that is absent or empty. *)
SkipCall(p) ==
    LET r == request[p]
    IN  /\ r.pc = "find" /\ r.phase # "remove"
        /\ ~ HasFiles(Head(r.calls))
        /\ Become(p, Enter(r, Tail(r.calls)))
        /\ UNCHANGED <<file, attached, deleted, rowLock>>

FindByEntity(p) ==
    LET r == request[p]
        call == Head(r.calls)
    IN  /\ r.pc = "find"
        /\ r.phase = "remove" \/ HasFiles(call)
        /\ Become(p, [r EXCEPT !.pc = "delete",
               !.drop = Dropped(attached[r.id][call.kind], call.files)])
        /\ UNCHANGED <<file, attached, deleted, rowLock>>

DeleteByEntity(p) ==
    LET r == request[p]
        call == Head(r.calls)
    IN  /\ r.pc = "delete"
        /\ attached' = [attached EXCEPT ![r.id][call.kind] = {}]
        /\ Become(p, IF HasFiles(call) THEN [r EXCEPT !.pc = "insert"]
                                       ELSE Purging(r))
        /\ UNCHANGED <<file, deleted, rowLock>>

CreateMany(p) ==
    LET r == request[p]
        call == Head(r.calls)
    IN  /\ r.pc = "insert"
        /\ call.files \subseteq Stored
        /\ attached' = [attached EXCEPT ![r.id][call.kind] = @ \cup call.files]
        /\ Become(p, Purging(r))
        /\ UNCHANGED <<file, deleted, rowLock>>

(* The foreign key refuses a file that is gone; the error ends the request
   and rolls its transaction back, but not the rows deleted before. *)
CreateManyRefused(p) ==
    LET r == request[p]
    IN  /\ r.pc = "insert"
        /\ ~ Head(r.calls).files \subseteq Stored
        /\ ReleaseRows(p)
        /\ Become(p, Idle)
        /\ UNCHANGED <<file, attached, deleted>>

(* filesService.remove; a file that is gone already is skipped. *)
PurgeFile(p, f) ==
    LET r == request[p]
    IN  /\ r.pc = "purge"
        /\ f \in r.drop
        /\ DeleteFile(f)
        /\ Become(p, Purging([r EXCEPT !.drop = @ \ {f}]))
        /\ UNCHANGED <<deleted, rowLock>>

(* An error of filesService.remove is logged, and the next file is tried. *)
PurgeFails(p, f) ==
    LET r == request[p]
    IN  /\ r.pc = "purge" /\ "purge" \in FaultPoints
        /\ f \in r.drop
        /\ Become(p, Purging([r EXCEPT !.drop = @ \ {f}]))
        /\ UNCHANGED <<file, attached, deleted, rowLock>>

(* An exception, a lost connection or the end of the process. *)
Abort(p) ==
    /\ request[p].pc \in FaultPoints
    /\ ReleaseRows(p)
    /\ Become(p, Idle)
    /\ UNCHANGED <<file, attached, deleted>>

-----------------------------------------------------------------------------
Init ==
    /\ file = [f \in Files |-> "none"]
    /\ attached = [a \in Approvals |-> [k \in Kinds |-> {}]]
    /\ deleted = {}
    /\ rowLock = [a \in Approvals |-> Nil]
    /\ request = [p \in Requests |-> Idle]

Arrive(p) ==
    \E a \in Approvals :
        \/ \E body \in Bodies : StartUpdate(p, a, body)
        \/ StartRemove(p, a)

Proceed(p) ==
    \/ Update(p) \/ Commit(p) \/ SoftDelete(p)
    \/ SkipCall(p) \/ FindByEntity(p) \/ DeleteByEntity(p)
    \/ CreateMany(p) \/ CreateManyRefused(p)
    \/ \E f \in Files : PurgeFile(p, f) \/ PurgeFails(p, f)

Next ==
    \/ \E f \in Files : Upload(f) \/ RemoveFile(f)
    \/ \E p \in Requests : Arrive(p) \/ Proceed(p) \/ Abort(p)

Spec == Init /\ [][Next]_vars

-----------------------------------------------------------------------------
(* Every variable holds what its table, lock or request can hold. *)
TypeOK ==
    /\ file \in [Files -> {"none", "stored", "deleted"}]
    /\ attached \in [Approvals -> [Kinds -> SUBSET Files]]
    /\ deleted \subseteq Approvals
    /\ rowLock \in [Approvals -> Requests \cup {Nil}]
    /\ request \in [Requests -> Request]

(* updateAttachments is three statements and a loop, on a connection of its
   own, and other updates and deletions of files run between any two of them.
   When update() commits, the lists it replaced inside its transaction still
   show exactly the files of its body that exist: its row lock, on another
   table and another connection, is all that keeps other updates out. *)
CommittedListsStand ==
    \A p \in Requests :
        LET r == request[p]
            inside == InsideCalls(r.body)
        IN  r.pc = "commit" /\ r.id \notin deleted =>
                \A i \in DOMAIN inside : HasFiles(inside[i]) =>
                    attached[r.id][inside[i].kind] = inside[i].files \cap Stored

(* A file that updateAttachments is about to delete as unused is not in the
   list it has just written, nor has anyone put it back there. *)
FilesInUseAreKept ==
    \A p \in Requests :
        LET r == request[p]
        IN  r.pc = "purge" /\ r.phase = "inside" /\ r.id \notin deleted =>
                r.drop \cap attached[r.id][Head(r.calls).kind] = {}

(* Files a request has not done with: to be deleted or to be attached. *)
InHand(r) == r.drop \cup (IF r.calls = <<>> THEN {} ELSE Head(r.calls).files)

(* No file is forgotten: one that falls out of a list replaced inside the
   transaction is deleted, or about to be deleted, or about to be put back.
   The old list is read before the list changes, by another statement. *)
NoFileForgotten ==
    [][\A a \in Approvals \ deleted, k \in InsideKinds :
         \A f \in attached[a][k] \ attached'[a][k] :
             \/ file'[f] = "deleted"
             \/ \E p \in Requests :
                    request'[p].id = a /\ f \in InHand(request'[p])]_vars

-----------------------------------------------------------------------------
(* A statement of a comment in the schema, which the code does not keep. *)

(* "entity_id is the ID of the record in that table": every clothing expense
   of a body has a list of its own, so storing the files of one does not
   delete the files of another. *)
ExpensesKeepTheirFiles ==
    \A p \in Requests :
        LET r == request[p]
        IN  r.pc = "purge" /\ r.phase = "after" =>
                \A i \in DOMAIN r.body.clothing :
                    r.drop \cap r.body.clothing[i] = {}
=============================================================================
